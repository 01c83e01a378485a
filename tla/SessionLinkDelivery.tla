------------------------ MODULE SessionLinkDelivery ------------------------
(***************************************************************************)
(* Exactly-once delivery, for any number of chunks, connections and losses *)
(* and any capacities.  What counts is where a received chunk is: with the *)
(* application, in the channel, or in the hand of a reader.  A step moves  *)
(* a chunk from one place to the next, a fresh DATA frame brings one more, *)
(* and a reader that gives up after a close drops one; every other action  *)
(* leaves the places alone.                                                *)
(***************************************************************************)
EXTENDS SessionLink, FiniteSetTheorems, TLAPS

Holding == {"ack", "push"}
Handed(e) == Range(got[e]) \cup Range(inbound[e])

(* A chunk in hand is nowhere else, which the count alone does not say of  *)
(* the chunk that is dropped when a reader gives up.                       *)
PlacedOnce(e) ==
    /\ \A k \in InHand(e) : pump[e][k].seq \notin Handed(e)
    /\ \A j, k \in InHand(e) : pump[e][j].seq = pump[e][k].seq => j = k
    /\ Cardinality(Delivered(e)) = Len(got[e]) + Len(inbound[e]) + Cardinality(InHand(e))
    /\ Delivered(e) \subseteq 1..recvSeq[e]
    /\ closed[e] = "no" => Delivered(e) = 1..recvSeq[e]

(* The client waits for its reader before it dials: one reader at a time,  *)
(* so its chunks stay in line from the hand to the application.            *)
Active(k) == pump["client"][k].pc \notin {"off", "done"}
InLine ==
    /\ \A j, k \in Conns : Active(j) /\ Active(k) => j = k
    /\ \A i \in 1..Len(got["client"]) : got["client"][i] = i
    /\ \A i \in 1..Len(inbound["client"]) : inbound["client"][i] = Len(got["client"]) + i
    /\ \A k \in InHand("client") :
          pump["client"][k].seq = Len(got["client"]) + Len(inbound["client"]) + 1
    /\ closed["client"] = "no" =>
          recvSeq["client"] = Len(got["client"]) + Len(inbound["client"])
                              + (IF InHand("client") = {} THEN 0 ELSE 1)

(* All the proof needs to know of the types: the rest of the state may be  *)
(* anything.                                                               *)
Shape ==
    /\ recvSeq \in [Ends -> Nat] /\ dialled \in Nat
    /\ inbound \in [Ends -> Seq(Nat)] /\ got \in [Ends -> Seq(Nat)]
    /\ closed \in [Ends -> {"no", "nil", "err"}]
    /\ pump = [e \in Ends |-> [k \in Conns |-> pump[e][k]]]
    /\ \A e \in Ends : \A k \in InHand(e) : pump[e][k].seq \in Nat

-----------------------------------------------------------------------------
(* A leaf that names no prover is for Zenon. *)
USE Zenon

LEMMA TheClient == "client" \in Ends /\ "server" \in Ends
  BY SMT DEF Ends

(* Ranges of sequences. *)
LEMMA RangeAppend ==
    ASSUME NEW q \in Seq(Nat), NEW x \in Nat
    PROVE  Range(Append(q, x)) = Range(q) \cup {x} /\ Len(Append(q, x)) = Len(q) + 1
  <1>1. DOMAIN q = 1..Len(q) /\ Len(q) \in Nat /\ Len(Append(q, x)) = Len(q) + 1
    BY SMT
  <1>2. DOMAIN Append(q, x) = 1..(Len(q) + 1)
    BY SMT
  <1>3. \A i \in 1..Len(q) : Append(q, x)[i] = q[i]
    BY SMT
  <1>4. Append(q, x)[Len(q) + 1] = x
    BY SMT
  <1>5. 1..(Len(q) + 1) = 1..Len(q) \cup {Len(q) + 1}
    BY SMT, <1>1
  <1> DEFINE r == Append(q, x)
             n == Len(q)
  <1> HIDE DEF r, n
  <1>6. DOMAIN q = 1..n /\ DOMAIN r = 1..n \cup {n + 1} /\ (\A i \in 1..n : r[i] = q[i]) /\ r[n + 1] = x
    BY <1>1, <1>2, <1>3, <1>4, <1>5 DEF r, n
  <1>7. ASSUME NEW y \in Range(r) PROVE y \in Range(q) \cup {x}
    <2>1. PICK i \in 1..n \cup {n + 1} : y = r[i]
      BY <1>6 DEF Range
    <2> QED BY <2>1, <1>6 DEF Range
  <1>8. ASSUME NEW y \in Range(q) PROVE y \in Range(r)
    <2>1. PICK i \in 1..n : y = q[i]
      BY <1>6 DEF Range
    <2> QED BY <2>1, <1>6 DEF Range
  <1>9. x \in Range(r)
    BY <1>6 DEF Range
  <1>10. Range(r) = Range(q) \cup {x}
    BY <1>7, <1>8, <1>9
  <1> QED BY <1>1, <1>10 DEF r

LEMMA RangeHead ==
    ASSUME NEW q \in Seq(Nat), q # <<>>
    PROVE  /\ Range(q) = {Head(q)} \cup Range(Tail(q)) /\ Len(Tail(q)) = Len(q) - 1
           /\ Head(q) = q[1] /\ Head(q) \in Nat /\ Tail(q) \in Seq(Nat) /\ Len(q) >= 1
           /\ \A i \in 1..Len(Tail(q)) : Tail(q)[i] = q[i + 1]
  <1>1. /\ DOMAIN q = 1..Len(q) /\ Len(q) \in Nat /\ Len(q) >= 1 /\ Len(Tail(q)) = Len(q) - 1
        /\ Tail(q) \in Seq(Nat) /\ Head(q) = q[1] /\ Head(q) \in Nat
        /\ DOMAIN Tail(q) = 1..(Len(q) - 1)
    BY SMT
  <1>2. \A i \in 1..(Len(q) - 1) : Tail(q)[i] = q[i + 1]
    BY SMT
  <1> DEFINE t == Tail(q)
             n == Len(q)
  <1>3. DOMAIN q = 1..n /\ n \in Nat /\ n >= 1 /\ DOMAIN t = 1..(n - 1)
        /\ \A i \in 1..(n - 1) : t[i] = q[i + 1]
    BY <1>1, <1>2
  <1> HIDE DEF t, n
  <1>4. ASSUME NEW y \in Range(q) PROVE y = q[1] \/ y \in Range(t)
    <2>1. PICK i \in 1..n : y = q[i]
      BY <1>3 DEF Range
    <2>2. CASE i = 1
      BY <2>1, <2>2
    <2>3. CASE i # 1
      <3>1. i - 1 \in 1..(n - 1) /\ (i - 1) + 1 = i
        BY SMT, <1>3, <2>3
      <3>2. t[i - 1] = y
        BY SMT, <3>1, <2>1, <1>3
      <3> QED BY <3>1, <3>2, <1>3 DEF Range
    <2> QED BY <2>2, <2>3
  <1>5. q[1] \in Range(q)
    <2>1. 1 \in 1..n
      BY SMT, <1>3
    <2> QED BY <2>1, <1>3 DEF Range
  <1>6. ASSUME NEW y \in Range(t) PROVE y \in Range(q)
    <2>1. PICK i \in 1..(n - 1) : y = t[i]
      BY <1>3 DEF Range
    <2>2. i + 1 \in 1..n
      BY SMT, <1>3
    <2> QED BY <2>1, <2>2, <1>3 DEF Range
  <1>7. Range(q) = {q[1]} \cup Range(t)
    BY <1>4, <1>5, <1>6
  <1> QED BY <1>1, <1>2, <1>7 DEF t

LEMMA Finiteness ==
    ASSUME Shape, NEW e \in Ends
    PROVE  /\ IsFiniteSet(InHand(e)) /\ Cardinality(InHand(e)) \in Nat
           /\ PlacedOnce(e) => IsFiniteSet(Delivered(e)) /\ Cardinality(Delivered(e)) \in Nat
  <1>1. IsFiniteSet(Conns)
    BY SMT, FS_Interval, LinkAssumption DEF Conns
  <1>2. InHand(e) \in SUBSET Conns
    BY DEF InHand
  <1>3. IsFiniteSet(InHand(e))
    BY <1>1, <1>2, FS_Subset
  <1>4. recvSeq[e] \in Nat
    BY DEF Shape
  <1>5. IsFiniteSet(1..recvSeq[e])
    BY SMT, FS_Interval, <1>4
  <1>6. PlacedOnce(e) => IsFiniteSet(Delivered(e))
    <2> HAVE PlacedOnce(e)
    <2>1. Delivered(e) \in SUBSET (1..recvSeq[e])
      BY DEF PlacedOnce
    <2> QED BY <2>1, <1>5, FS_Subset
  <1> QED BY <1>3, <1>6, FS_CardinalityType

-----------------------------------------------------------------------------
(* Most actions leave every place alone. *)
Undialled == \A k \in Conns : k > dialled => \A e \in Ends : pump[e][k].pc = "off"
OnceInv == Undialled /\ InLine /\ \A e \in Ends : PlacedOnce(e)

SameHands ==
    \A e \in Ends : /\ InHand(e)' = InHand(e)
                    /\ \A k \in InHand(e) : pump'[e][k].seq = pump[e][k].seq
SamePlaces == UNCHANGED <<got, inbound, recvSeq>> /\ SameHands
NoReopening == \A e \in Ends : closed'[e] = "no" => closed[e] = "no"
NoNewReader == \A k \in Conns : Active(k)' => Active(k)

(* An end whose places and readers a step leaves alone. *)
LEMMA SamePlacedOnce ==
    ASSUME NoReopening, NEW e \in Ends, PlacedOnce(e),
           got'[e] = got[e], inbound'[e] = inbound[e], recvSeq'[e] = recvSeq[e],
           InHand(e)' = InHand(e), \A k \in InHand(e) : pump'[e][k].seq = pump[e][k].seq
    PROVE  PlacedOnce(e)'
  <1>1. {pump'[e][k].seq : k \in InHand(e)'} = {pump[e][k].seq : k \in InHand(e)}
    OBVIOUS
  <1>2. Delivered(e)' = Delivered(e) /\ Handed(e)' = Handed(e)
    BY <1>1 DEF Delivered, Handed
  <1>3. /\ \A k \in InHand(e)' : pump'[e][k].seq \notin Handed(e)'
        /\ \A j, k \in InHand(e)' : pump'[e][j].seq = pump'[e][k].seq => j = k
    BY <1>2 DEF PlacedOnce
  <1>4. /\ Cardinality(Delivered(e)') = Len(got'[e]) + Len(inbound'[e]) + Cardinality(InHand(e)')
        /\ Delivered(e)' \subseteq 1..recvSeq'[e]
    BY <1>2 DEF PlacedOnce
  <1>5. closed'[e] = "no" => Delivered(e)' = 1..recvSeq'[e]
    BY <1>2 DEF PlacedOnce, NoReopening
  <1> QED BY <1>3, <1>4, <1>5 DEF PlacedOnce

LEMMA SameInLine ==
    ASSUME SamePlaces, NoReopening, NoNewReader, InLine
    PROVE  InLine'
  <1>1. InHand("client")' = InHand("client")
        /\ \A k \in InHand("client") : pump'["client"][k].seq = pump["client"][k].seq
    BY TheClient DEF SamePlaces, SameHands
  <1> QED BY <1>1, TheClient DEF SamePlaces, InLine, NoReopening, NoNewReader

LEMMA SameOnce ==
    ASSUME SamePlaces, NoReopening, NoNewReader, OnceInv, Undialled'
    PROVE  OnceInv'
  <1>1. ASSUME NEW e \in Ends PROVE PlacedOnce(e)'
    <2>1. PlacedOnce(e) /\ got' = got /\ inbound' = inbound /\ recvSeq' = recvSeq /\ InHand(e)' = InHand(e)
          /\ \A k \in InHand(e) : pump'[e][k].seq = pump[e][k].seq
      BY DEF OnceInv, SamePlaces, SameHands
    <2> QED BY <2>1, SamePlacedOnce
  <1>2. InLine'
    BY SameInLine DEF OnceInv
  <1> QED BY <1>1, <1>2 DEF OnceInv

(* One reader takes a step. *)
Moves(e, k, pc, seq) ==
    /\ pump'[e][k].pc = pc /\ pump'[e][k].seq = seq
    /\ \A j \in Conns : j # k => pump'[e][j] = pump[e][j]
    /\ \A d \in Ends : d # e => \A j \in Conns : pump'[d][j] = pump[d][j]
    /\ \A d \in Ends : d # e => InHand(d)' = InHand(d)
    /\ pc \in Holding => InHand(e)' = InHand(e) \cup {k}
    /\ pc \notin Holding => InHand(e)' = InHand(e) \ {k}

LEMMA Moved ==
    ASSUME Shape, NEW e \in Ends, NEW k \in Conns, NEW pc, NEW seq, Goes(e, k, pc, seq)
    PROVE  Moves(e, k, pc, seq)
  <1>1. pump' = [pump EXCEPT ![e][k] = At(pc, seq)]
        /\ pump = [d \in Ends |-> [j \in Conns |-> pump[d][j]]]
    BY DEF Goes, Shape
  <1>2. pump'[e][k] = At(pc, seq)
    BY SMT, <1>1
  <1>3. pump'[e][k].pc = pc /\ pump'[e][k].seq = seq
    BY SMT, <1>2 DEF At
  <1>4. \A j \in Conns : j # k => pump'[e][j] = pump[e][j]
    BY SMT, <1>1
  <1>5. \A d \in Ends : d # e => \A j \in Conns : pump'[d][j] = pump[d][j]
    BY SMT, <1>1
  <1>6. \A d \in Ends : d # e => InHand(d)' = InHand(d)
    BY <1>5 DEF InHand
  <1>7. pc \in Holding => InHand(e)' = InHand(e) \cup {k}
    BY <1>3, <1>4 DEF InHand, Holding
  <1>8. pc \notin Holding => InHand(e)' = InHand(e) \ {k}
    BY <1>3, <1>4 DEF InHand, Holding
  <1> QED BY <1>3, <1>4, <1>5, <1>6, <1>7, <1>8 DEF Moves

LEMMA StillUndialled ==
    ASSUME Undialled, NEW e \in Ends, NEW k \in Conns, NEW pc, NEW seq,
           Moves(e, k, pc, seq), pump[e][k].pc # "off", dialled' = dialled
    PROVE  Undialled'
  <1>1. ASSUME NEW j \in Conns, j > dialled', NEW d \in Ends PROVE pump'[d][j].pc = "off"
    <2>1. j > dialled
      BY <1>1
    <2>2. pump[d][j].pc = "off"
      BY <2>1 DEF Undialled
    <2>3. d # e \/ j # k
      BY <2>2
    <2>4. pump'[d][j] = pump[d][j]
      BY <2>3 DEF Moves
    <2> QED BY <2>2, <2>4
  <1> QED BY <1>1 DEF Undialled

LEMMA SameReaders ==
    ASSUME NEW e \in Ends, NEW k \in Conns, NEW pc, NEW seq,
           Moves(e, k, pc, seq), pump[e][k].pc \notin {"off", "done"}
    PROVE  NoNewReader
  <1>1. ASSUME NEW j \in Conns, Active(j)' PROVE Active(j)
    <2>1. CASE e = "client" /\ j = k
      BY <2>1 DEF Active
    <2>2. CASE e # "client" \/ j # k
      <3>1. pump'["client"][j] = pump["client"][j]
        BY <2>2, TheClient DEF Moves
      <3> QED BY <3>1, <1>1 DEF Active
    <2> QED BY <2>1, <2>2
  <1> QED BY <1>1 DEF NoNewReader

(* The end that does not take the step keeps its places. *)
LEMMA OtherPlaced ==
    ASSUME OnceInv, NoReopening, NEW e \in Ends, NEW k \in Conns, NEW pc, NEW seq,
           Moves(e, k, pc, seq), NEW d \in Ends, d # e,
           got'[d] = got[d], inbound'[d] = inbound[d], recvSeq'[d] = recvSeq[d]
    PROVE  PlacedOnce(d)'
  <1>1. InHand(d)' = InHand(d)
    BY DEF Moves
  <1>2. \A j \in InHand(d) : j \in Conns
    BY DEF InHand
  <1>3. \A j \in InHand(d) : pump'[d][j].seq = pump[d][j].seq
    BY <1>2 DEF Moves
  <1>4. PlacedOnce(d)
    BY DEF OnceInv
  <1> QED BY <1>1, <1>3, <1>4, SamePlacedOnce

(* The client's line does not move when the gateway's reader does. *)
LEMMA OtherInLine ==
    ASSUME OnceInv, NoReopening, NoNewReader, NEW e \in Ends, e # "client", NEW k \in Conns,
           NEW pc, NEW seq, Moves(e, k, pc, seq), got'["client"] = got["client"],
           inbound'["client"] = inbound["client"], recvSeq'["client"] = recvSeq["client"]
    PROVE  InLine'
  <1>1. InHand("client")' = InHand("client")
    BY TheClient DEF Moves
  <1>2. \A j \in InHand("client") : j \in Conns
    BY DEF InHand
  <1>3. \A j \in InHand("client") : pump'["client"][j].seq = pump["client"][j].seq
    BY <1>2, TheClient DEF Moves
  <1>4. closed'["client"] = "no" => closed["client"] = "no"
    BY TheClient DEF NoReopening
  <1>5. InLine /\ \A i, j \in Conns : Active(i)' /\ Active(j)' => i = j
    BY DEF OnceInv, InLine, NoNewReader
  <1> QED BY <1>1, <1>3, <1>4, <1>5 DEF InLine

LEMMA QuietMove ==
    ASSUME Shape, OnceInv, NoReopening, NEW e \in Ends, NEW k \in Conns, NEW pc, NEW seq,
           Goes(e, k, pc, seq), pump[e][k].pc \notin {"off", "done"},
           pump[e][k].pc \in Holding <=> pc \in Holding,
           pc \in Holding => seq = pump[e][k].seq,
           UNCHANGED <<got, inbound, recvSeq, dialled>>
    PROVE  OnceInv'
  <1>0. Moves(e, k, pc, seq)
    BY Moved
  <1>1. Undialled'
    BY <1>0, StillUndialled DEF OnceInv
  <1>2. k \in InHand(e) <=> pc \in Holding
    BY DEF InHand, Holding
  <1>3. InHand(e)' = InHand(e)
    <2>1. CASE pc \in Holding
      <3>1. InHand(e)' = InHand(e) \cup {k}
        BY <2>1, <1>0 DEF Moves
      <3> QED BY <3>1, <2>1, <1>2
    <2>2. CASE pc \notin Holding
      <3>1. InHand(e)' = InHand(e) \ {k}
        BY <2>2, <1>0 DEF Moves
      <3> QED BY <3>1, <2>2, <1>2
    <2> QED BY <2>1, <2>2
  <1>4. ASSUME NEW j \in InHand(e) PROVE pump'[e][j].seq = pump[e][j].seq
    <2>1. j \in Conns
      BY DEF InHand
    <2>2. CASE j = k
      BY <2>2, <1>0, <1>2 DEF Moves
    <2>3. CASE j # k
      BY <2>1, <2>3, <1>0 DEF Moves
    <2> QED BY <2>2, <2>3
  <1>5. ASSUME NEW d \in Ends, d # e
        PROVE  InHand(d)' = InHand(d) /\ \A j \in InHand(d) : pump'[d][j].seq = pump[d][j].seq
    <2>1. \A j \in InHand(d) : j \in Conns
      BY DEF InHand
    <2> QED BY <2>1, <1>5, <1>0 DEF Moves
  <1>6. SamePlaces
    <2>1. SameHands
      BY <1>3, <1>4, <1>5 DEF SameHands
    <2> QED BY <2>1 DEF SamePlaces
  <1>7. NoNewReader
    BY <1>0, SameReaders
  <1> QED BY <1>1, <1>6, <1>7, SameOnce

LEMMA NoMove ==
    ASSUME OnceInv, NoReopening, UNCHANGED <<got, inbound, recvSeq, dialled, pump>>
    PROVE  OnceInv'
  <1>1. SamePlaces /\ NoNewReader
    BY DEF SamePlaces, SameHands, InHand, NoNewReader, Active
  <1>2. Undialled'
    BY DEF OnceInv, Undialled
  <1> QED BY <1>1, <1>2, SameOnce

-----------------------------------------------------------------------------
LEMMA InitOnce == Init => OnceInv
  <1> SUFFICES ASSUME Init PROVE OnceInv
    BY SMT
  <1>1. \A e \in Ends, k \in Conns : pump[e][k].pc \notin {"ack", "push"}
    BY DEF Init, At
  <1>2. \A e \in Ends : InHand(e) = {}
    BY <1>1 DEF InHand
  <1>3. \A e \in Ends : got[e] = <<>> /\ inbound[e] = <<>> /\ recvSeq[e] = 0
    BY DEF Init
  <1>4. Range(<<>>) = {}
    BY SMT DEF Range
  <1>5. \A e \in Ends : Delivered(e) = {}
    BY <1>2, <1>3, <1>4 DEF Delivered
  <1>6. Cardinality({}) = 0 /\ Len(<<>>) = 0 /\ 1..0 = {}
    BY SMT, FS_EmptySet
  <1>7. ASSUME NEW e \in Ends PROVE PlacedOnce(e)
    <2>1. Cardinality(Delivered(e)) = 0 /\ Cardinality(InHand(e)) = 0 /\ Len(got[e]) = 0
          /\ Len(inbound[e]) = 0 /\ Delivered(e) = 1..recvSeq[e]
      BY <1>2, <1>3, <1>5, <1>6
    <2>2. 0 = 0 + 0 + 0
      BY SMT
    <2>3. Cardinality(Delivered(e)) = Len(got[e]) + Len(inbound[e]) + Cardinality(InHand(e))
      BY <2>1, <2>2
    <2> QED BY <1>2, <2>1, <2>3 DEF PlacedOnce
  <1>8. InLine
    <2>1. \A k \in Conns : Active(k) => ~(k > 1)
      BY TheClient DEF Active, Init, At
    <2>2. \A j, k \in Conns : Active(j) /\ Active(k) => j = k
      BY SMT, <2>1 DEF Conns
    <2>3. InHand("client") = {} /\ got["client"] = <<>> /\ inbound["client"] = <<>>
          /\ recvSeq["client"] = 0
      BY <1>2, <1>3, TheClient
    <2> QED BY SMT, <2>2, <2>3 DEF InLine
  <1>9. Undialled
    BY DEF Undialled, Init, At
  <1> QED BY <1>7, <1>8, <1>9 DEF OnceInv

-----------------------------------------------------------------------------
(* The actions that move a chunk.  A fresh DATA frame brings the next one. *)
LEMMA FreshPlaced ==
    ASSUME Shape, OnceInv, NoReopening, NEW e \in Ends, NEW k \in Conns, closed[e] = "no",
           pump[e][k].pc = "read", Goes(e, k, "ack", recvSeq[e] + 1),
           recvSeq' = [recvSeq EXCEPT ![e] = recvSeq[e] + 1], UNCHANGED <<got, inbound>>
    PROVE  \A d \in Ends : PlacedOnce(d)'
  <1> DEFINE n == recvSeq[e] + 1
  <1>0. Moves(e, k, "ack", n)
    BY Moved
  <1>1. recvSeq \in [Ends -> Nat] /\ recvSeq[e] \in Nat
    BY DEF Shape
  <1>2. recvSeq'[e] = n /\ \A d \in Ends : d # e => recvSeq'[d] = recvSeq[d]
    BY <1>1
  <1>3. k \notin InHand(e)
    BY SMT DEF InHand
  <1>4. InHand(e)' = InHand(e) \cup {k}
    <2>1. "ack" \in Holding
      BY SMT DEF Holding
    <2> QED BY <1>0, <2>1 DEF Moves
  <1>5. pump'[e][k].seq = n /\ \A j \in InHand(e) : pump'[e][j].seq = pump[e][j].seq
    <2>1. \A j \in InHand(e) : j \in Conns /\ j # k
      BY <1>3 DEF InHand
    <2> QED BY <1>0, <2>1 DEF Moves
  <1>6. PlacedOnce(e) /\ Delivered(e) = 1..recvSeq[e]
    BY DEF OnceInv, PlacedOnce
  <1>7. n \notin Delivered(e) /\ 1..n = (1..recvSeq[e]) \cup {n}
    BY SMT, <1>1, <1>6
  <1> HIDE DEF n
  <1>8. Delivered(e)' = Delivered(e) \cup {n} /\ Handed(e)' = Handed(e)
    <2>1. {pump'[e][j].seq : j \in InHand(e)'} = {n} \cup {pump[e][j].seq : j \in InHand(e)}
      BY <1>4, <1>5
    <2>2. Handed(e)' = Handed(e)
      BY DEF Handed
    <2>3. Delivered(e) = Handed(e) \cup {pump[e][j].seq : j \in InHand(e)}
          /\ Delivered(e)' = Handed(e)' \cup {pump'[e][j].seq : j \in InHand(e)'}
      BY DEF Delivered, Handed
    <2> QED BY <2>1, <2>2, <2>3
  <1>9. Cardinality(Delivered(e)') = Cardinality(Delivered(e)) + 1
    BY <1>6, <1>7, <1>8, Finiteness, FS_AddElement
  <1>10. Cardinality(InHand(e)') = Cardinality(InHand(e)) + 1
    BY <1>3, <1>4, Finiteness, FS_AddElement
  <1>11. Handed(e) \subseteq Delivered(e) /\ \A j \in InHand(e) : pump[e][j].seq \in Delivered(e)
    BY DEF Handed, Delivered
  <1>12. \A j \in InHand(e)' : pump'[e][j].seq \notin Handed(e)'
    BY <1>4, <1>5, <1>6, <1>7, <1>8, <1>11 DEF PlacedOnce
  <1>13. \A i, j \in InHand(e)' : pump'[e][i].seq = pump'[e][j].seq => i = j
    BY <1>4, <1>5, <1>6, <1>7, <1>11 DEF PlacedOnce
  <1>14. Cardinality(Delivered(e)') = Len(got[e]) + Len(inbound[e]) + Cardinality(InHand(e)')
    <2> DEFINE g == Len(got[e])
               b == Len(inbound[e])
               h == Cardinality(InHand(e))
    <2>1. g \in Nat /\ b \in Nat /\ h \in Nat
      BY SMT, Finiteness DEF Shape
    <2>2. Cardinality(Delivered(e)) = g + b + h
      BY <1>6 DEF PlacedOnce
    <2> HIDE DEF g, b, h
    <2>3. (g + b + h) + 1 = g + b + (h + 1)
      BY SMT, <2>1
    <2> QED BY <2>2, <2>3, <1>9, <1>10 DEF g, b, h
  <1>15. Delivered(e)' = 1..recvSeq'[e]
    BY <1>2, <1>6, <1>7, <1>8
  <1>16. PlacedOnce(e)'
    BY <1>12, <1>13, <1>14, <1>15 DEF PlacedOnce
  <1>17. ASSUME NEW d \in Ends, d # e PROVE PlacedOnce(d)'
    BY <1>0, <1>2, <1>17, OtherPlaced
  <1> QED BY <1>16, <1>17

LEMMA FreshInLine ==
    ASSUME Shape, OnceInv, NoReopening, NEW e \in Ends, NEW k \in Conns, closed[e] = "no",
           pump[e][k].pc = "read", Goes(e, k, "ack", recvSeq[e] + 1),
           recvSeq' = [recvSeq EXCEPT ![e] = recvSeq[e] + 1], UNCHANGED <<got, inbound>>
    PROVE  InLine'
  <1>0. Moves(e, k, "ack", recvSeq[e] + 1) /\ pump[e][k].pc \notin {"off", "done"}
    <2>1. pump[e][k].pc \notin {"off", "done"}
      BY SMT
    <2> QED BY <2>1, Moved
  <1>1. InLine
    BY DEF OnceInv
  <1>2. NoNewReader
    BY <1>0, SameReaders
  <1>3. \A i, j \in Conns : Active(i)' /\ Active(j)' => i = j
    BY <1>1, <1>2 DEF InLine, NoNewReader
  <1>4. CASE e = "client"
    <2> DEFINE g == Len(got["client"])
               b == Len(inbound["client"])
    <2>1. \A j \in Conns : j # k => ~Active(j)
      BY <1>1, <1>4 DEF InLine, Active
    <2>2. InHand("client") = {}
      BY <2>1, <1>4 DEF InHand, Active
    <2>3. InHand("client")' = {k} /\ pump'["client"][k].seq = recvSeq["client"] + 1
      <3>1. "ack" \in Holding
        BY SMT DEF Holding
      <3>2. InHand("client")' = InHand("client") \cup {k}
            /\ pump'["client"][k].seq = recvSeq["client"] + 1
        BY <3>1, <1>0, <1>4 DEF Moves
      <3> QED BY <3>2, <2>2
    <2>4. recvSeq["client"] = g + b + 0
      BY <2>2, <1>1, <1>4 DEF InLine
    <2>5. recvSeq'["client"] = recvSeq["client"] + 1
      BY <1>4 DEF Shape
    <2>6. g \in Nat /\ b \in Nat
      BY SMT, <1>4 DEF Shape
    <2>7. recvSeq["client"] + 1 = g + b + 1 /\ InHand("client")' # {}
      <3> HIDE DEF g, b
      <3>1. recvSeq["client"] + 1 = g + b + 1
        BY SMT, <2>4, <2>6
      <3> QED BY <3>1, <2>3
    <2> QED BY <1>1, <1>3, <2>3, <2>5, <2>7 DEF InLine
  <1>5. CASE e # "client"
    <2>1. recvSeq'["client"] = recvSeq["client"]
      BY <1>5, TheClient DEF Shape
    <2> QED BY <1>0, <1>2, <1>5, <2>1, OtherInLine
  <1> QED BY <1>4, <1>5

LEMMA PumpDataOnce ==
    ASSUME Shape, OnceInv, NoReopening, NEW e \in Ends, NEW k \in Conns, PumpData(e, k)
    PROVE  OnceInv'
  <1> DEFINE n == Head(Incoming(e, k)).seq
  <1>1. pump[e][k].pc = "read" /\ closed[e] = "no" /\ UNCHANGED <<got, inbound, dialled>>
    BY DEF PumpData, Reads
  <1>2. CASE n = recvSeq[e] + 1
    <2>1. recvSeq' = [recvSeq EXCEPT ![e] = recvSeq[e] + 1] /\ Goes(e, k, "ack", recvSeq[e] + 1)
      BY <1>2 DEF PumpData
    <2>2. \A d \in Ends : PlacedOnce(d)'
      BY <1>1, <2>1, FreshPlaced
    <2>3. InLine'
      BY <1>1, <2>1, FreshInLine
    <2>4. pump[e][k].pc # "off"
      BY SMT, <1>1
    <2>5. Undialled'
      <3>1. Moves(e, k, "ack", recvSeq[e] + 1)
        BY <2>1, Moved
      <3> QED BY <1>1, <2>4, <3>1, StillUndialled DEF OnceInv
    <2> QED BY <2>2, <2>3, <2>5 DEF OnceInv
  <1>3. CASE n # recvSeq[e] + 1
    <2>1. recvSeq' = recvSeq /\ Goes(e, k, "reack", recvSeq[e])
      BY <1>3 DEF PumpData, Shape
    <2>2. "reack" \notin Holding /\ pump[e][k].pc \notin Holding /\ pump[e][k].pc \notin {"off", "done"}
      BY SMT, <1>1 DEF Holding
    <2> QED BY <1>1, <2>1, <2>2, QuietMove
  <1> QED BY <1>2, <1>3

(* A reader hands its chunk over ... *)
LEMMA PushPlaced ==
    ASSUME Shape, OnceInv, NoReopening, NEW e \in Ends, NEW k \in Conns,
           pump[e][k].pc = "push", Goes(e, k, "read", 0),
           inbound' = [inbound EXCEPT ![e] = Append(inbound[e], pump[e][k].seq)],
           UNCHANGED <<got, recvSeq>>
    PROVE  \A d \in Ends : PlacedOnce(d)'
  <1> DEFINE n == pump[e][k].seq
  <1>0. Moves(e, k, "read", 0)
    BY Moved
  <1>1. inbound \in [Ends -> Seq(Nat)] /\ inbound[e] \in Seq(Nat) /\ n \in Nat
    BY DEF Shape, InHand
  <1>2. inbound'[e] = Append(inbound[e], n) /\ \A d \in Ends : d # e => inbound'[d] = inbound[d]
    BY <1>1
  <1>3. k \in InHand(e) /\ InHand(e)' = InHand(e) \ {k}
    <2>1. "read" \notin Holding /\ pump[e][k].pc \in {"ack", "push"}
      BY SMT DEF Holding
    <2> QED BY <2>1, <1>0 DEF Moves, InHand
  <1>4. \A j \in InHand(e)' : pump'[e][j].seq = pump[e][j].seq
    <2>1. \A j \in InHand(e)' : j \in Conns /\ j # k
      BY <1>3 DEF InHand
    <2> QED BY <2>1, <1>0 DEF Moves
  <1>5. PlacedOnce(e)
    BY DEF OnceInv
  <1> HIDE DEF n
  <1>6. Range(inbound'[e]) = Range(inbound[e]) \cup {n} /\ Len(inbound'[e]) = Len(inbound[e]) + 1
    BY <1>1, <1>2, RangeAppend
  <1>7. Handed(e)' = Handed(e) \cup {n}
    BY <1>6 DEF Handed
  <1>8. {pump[e][j].seq : j \in InHand(e)} = {n} \cup {pump'[e][j].seq : j \in InHand(e)'}
    BY <1>3, <1>4 DEF n
  <1>9. Delivered(e)' = Delivered(e)
    BY <1>6, <1>8 DEF Delivered
  <1>10. Cardinality(InHand(e)') = Cardinality(InHand(e)) - 1
    BY <1>3, Finiteness, FS_RemoveElement
  <1>11. \A j \in InHand(e)' : pump'[e][j].seq \notin Handed(e)'
    BY <1>3, <1>4, <1>5, <1>7 DEF PlacedOnce, n
  <1>12. \A i, j \in InHand(e)' : pump'[e][i].seq = pump'[e][j].seq => i = j
    BY <1>3, <1>4, <1>5 DEF PlacedOnce
  <1>13. Cardinality(Delivered(e)) = Len(got[e]) + Len(inbound'[e]) + Cardinality(InHand(e)')
    <2> DEFINE g == Len(got[e])
               b == Len(inbound[e])
               h == Cardinality(InHand(e))
    <2>1. g \in Nat /\ b \in Nat /\ h \in Nat
      BY SMT, Finiteness DEF Shape
    <2>2. Cardinality(Delivered(e)) = g + b + h
      BY <1>5 DEF PlacedOnce
    <2> HIDE DEF g, b, h
    <2>3. g + b + h = g + (b + 1) + (h - 1)
      BY SMT, <2>1
    <2> QED BY <2>2, <2>3, <1>6, <1>10 DEF g, b, h
  <1>14. PlacedOnce(e)'
    BY <1>5, <1>9, <1>11, <1>12, <1>13 DEF PlacedOnce, NoReopening
  <1>15. ASSUME NEW d \in Ends, d # e PROVE PlacedOnce(d)'
    BY <1>0, <1>2, <1>15, OtherPlaced
  <1> QED BY <1>14, <1>15

LEMMA PushInLine ==
    ASSUME Shape, OnceInv, NoReopening, NEW e \in Ends, NEW k \in Conns,
           pump[e][k].pc = "push", Goes(e, k, "read", 0),
           inbound' = [inbound EXCEPT ![e] = Append(inbound[e], pump[e][k].seq)],
           UNCHANGED <<got, recvSeq>>
    PROVE  InLine'
  <1>1. InLine /\ pump[e][k].pc \in Holding /\ "read" \notin Holding
    BY SMT DEF OnceInv, Holding
  <1>0. Moves(e, k, "read", 0) /\ pump[e][k].pc \notin {"off", "done"}
    <2>1. pump[e][k].pc \notin {"off", "done"}
      BY SMT
    <2> QED BY <2>1, Moved
  <1>2. NoNewReader
    BY <1>0, SameReaders
  <1>3. \A i, j \in Conns : Active(i)' /\ Active(j)' => i = j
    BY <1>1, <1>2 DEF InLine, NoNewReader
  <1>4. CASE e = "client"
    <2> DEFINE q == inbound["client"]
               g == Len(got["client"])
               b == Len(inbound["client"])
               n == pump["client"][k].seq
    <2>1. \A j \in Conns : j # k => ~Active(j)
      BY <1>1, <1>4 DEF InLine, Active
    <2>2. InHand("client") = {k}
      BY <2>1, <1>1, <1>4 DEF InHand, Active, Holding
    <2>3. InHand("client")' = {}
      <3>1. InHand("client")' = InHand("client") \ {k}
        BY <1>0, <1>1, <1>4 DEF Moves
      <3> QED BY <3>1, <2>2
    <2>4. n = g + b + 1
      BY <2>2, <1>1 DEF InLine
    <2>5. closed["client"] = "no" => recvSeq["client"] = g + b + 1
      <3>1. InHand("client") # {}
        BY <2>2
      <3> QED BY <3>1, <1>1 DEF InLine
    <2>6. q \in Seq(Nat) /\ g \in Nat /\ b \in Nat /\ n \in Nat
      <3>1. got["client"] \in Seq(Nat) /\ q \in Seq(Nat) /\ n \in Nat
        BY <1>4 DEF Shape, InHand
      <3> QED BY SMT, <3>1
    <2>7. inbound'["client"] = Append(q, n)
      BY <1>4 DEF Shape
    <2>8. \A i \in 1..b : q[i] = g + i
      BY <1>1 DEF InLine
    <2> HIDE DEF q, g, n
    <2>9. b = Len(q)
      BY DEF q
    <2> HIDE DEF b
    <2>10. Len(Append(q, n)) = b + 1 /\ \A i \in 1..(b + 1) : Append(q, n)[i] = g + i
      <3>1. Len(Append(q, n)) = b + 1 /\ Append(q, n)[b + 1] = n
        BY SMT, <2>6, <2>9
      <3>2. \A i \in 1..b : Append(q, n)[i] = q[i]
        BY SMT, <2>6, <2>9
      <3>3. n = g + (b + 1) /\ \A i \in 1..(b + 1) : i \in 1..b \/ i = b + 1
        BY SMT, <2>4, <2>6
      <3> QED BY <3>1, <3>2, <3>3, <2>8
    <2>11. closed'["client"] = "no" => recvSeq["client"] = g + (b + 1) + 0
      <3>1. g + b + 1 = g + (b + 1) + 0
        BY SMT, <2>6
      <3> QED BY <3>1, <2>5, <1>4 DEF NoReopening
    <2> QED BY <1>1, <1>3, <2>3, <2>7, <2>10, <2>11 DEF InLine, g
  <1>5. CASE e # "client"
    <2>1. inbound'["client"] = inbound["client"]
      BY <1>5, TheClient DEF Shape
    <2> QED BY <1>0, <1>2, <1>5, <2>1, OtherInLine
  <1> QED BY <1>4, <1>5

(* ... or gives up because its endpoint has closed. *)
LEMMA DropPlaced ==
    ASSUME Shape, OnceInv, NoReopening, NEW e \in Ends, NEW k \in Conns, closed[e] # "no",
           pump[e][k].pc = "push", Goes(e, k, "done", 0), UNCHANGED <<got, inbound, recvSeq>>
    PROVE  \A d \in Ends : PlacedOnce(d)'
  <1> DEFINE n == pump[e][k].seq
  <1>0. Moves(e, k, "done", 0)
    BY Moved
  <1>1. k \in InHand(e) /\ InHand(e)' = InHand(e) \ {k}
    <2>1. "done" \notin Holding /\ pump[e][k].pc \in {"ack", "push"}
      BY SMT DEF Holding
    <2> QED BY <2>1, <1>0 DEF Moves, InHand
  <1>2. \A j \in InHand(e)' : pump'[e][j].seq = pump[e][j].seq
    <2>1. \A j \in InHand(e)' : j \in Conns /\ j # k
      BY <1>1 DEF InHand
    <2> QED BY <2>1, <1>0 DEF Moves
  <1>3. PlacedOnce(e) /\ closed'[e] # "no"
    BY DEF OnceInv, NoReopening
  <1>4. n \notin Handed(e) /\ \A j \in InHand(e)' : pump[e][j].seq # n
    BY <1>1, <1>3 DEF PlacedOnce
  <1> HIDE DEF n
  <1>5. {pump[e][j].seq : j \in InHand(e)} = {n} \cup {pump'[e][j].seq : j \in InHand(e)'}
    BY <1>1, <1>2 DEF n
  <1>6. n \notin {pump'[e][j].seq : j \in InHand(e)'}
    BY <1>2, <1>4
  <1>7. Delivered(e) = Handed(e) \cup {pump[e][j].seq : j \in InHand(e)}
        /\ Delivered(e)' = Handed(e) \cup {pump'[e][j].seq : j \in InHand(e)'}
    BY DEF Delivered, Handed
  <1>8. Delivered(e)' = Delivered(e) \ {n} /\ n \in Delivered(e)
    BY <1>4, <1>5, <1>6, <1>7
  <1>9. Cardinality(InHand(e)') = Cardinality(InHand(e)) - 1
    BY <1>1, Finiteness, FS_RemoveElement
  <1>10. Cardinality(Delivered(e)') = Cardinality(Delivered(e)) - 1
    BY <1>3, <1>8, Finiteness, FS_RemoveElement
  <1>11. \A j \in InHand(e)' : pump'[e][j].seq \notin Handed(e)'
    BY <1>1, <1>2, <1>3 DEF PlacedOnce, Handed
  <1>12. \A i, j \in InHand(e)' : pump'[e][i].seq = pump'[e][j].seq => i = j
    BY <1>1, <1>2, <1>3 DEF PlacedOnce
  <1>13. Cardinality(Delivered(e)') = Len(got[e]) + Len(inbound[e]) + Cardinality(InHand(e)')
    <2> DEFINE g == Len(got[e])
               b == Len(inbound[e])
               h == Cardinality(InHand(e))
    <2>1. g \in Nat /\ b \in Nat /\ h \in Nat
      BY SMT, Finiteness DEF Shape
    <2>2. Cardinality(Delivered(e)) = g + b + h
      BY <1>3 DEF PlacedOnce
    <2> HIDE DEF g, b, h
    <2>3. (g + b + h) - 1 = g + b + (h - 1)
      BY SMT, <2>1
    <2> QED BY <2>2, <2>3, <1>9, <1>10 DEF g, b, h
  <1>14. Delivered(e)' \subseteq 1..recvSeq[e]
    BY <1>3, <1>8 DEF PlacedOnce
  <1>15. PlacedOnce(e)'
    BY <1>3, <1>11, <1>12, <1>13, <1>14 DEF PlacedOnce
  <1>16. ASSUME NEW d \in Ends, d # e PROVE PlacedOnce(d)'
    BY <1>0, <1>16, OtherPlaced
  <1> QED BY <1>15, <1>16

LEMMA DropInLine ==
    ASSUME Shape, OnceInv, NoReopening, NEW e \in Ends, NEW k \in Conns, closed[e] # "no",
           pump[e][k].pc = "push", Goes(e, k, "done", 0), UNCHANGED <<got, inbound, recvSeq>>
    PROVE  InLine'
  <1>1. InLine /\ "done" \notin Holding /\ pump[e][k].pc \notin {"off", "done"}
    BY SMT DEF OnceInv, Holding
  <1>0. Moves(e, k, "done", 0)
    BY Moved
  <1>2. NoNewReader
    BY <1>0, <1>1, SameReaders
  <1>3. \A i, j \in Conns : Active(i)' /\ Active(j)' => i = j
    BY <1>1, <1>2 DEF InLine, NoNewReader
  <1>4. InHand("client")' \subseteq InHand("client")
    <2>1. e = "client" => InHand("client")' = InHand("client") \ {k}
      BY <1>0, <1>1 DEF Moves
    <2>2. e # "client" => InHand("client")' = InHand("client")
      BY <1>0, TheClient DEF Moves
    <2> QED BY <2>1, <2>2
  <1>5. \A j \in InHand("client")' : pump'["client"][j].seq = pump["client"][j].seq
    <2>1. ASSUME NEW j \in InHand("client")' PROVE pump'["client"][j] = pump["client"][j]
      <3>1. j \in Conns
        BY DEF InHand
      <3>2. CASE e = "client"
        <4>1. j # k
          BY <3>2, <1>0, <1>1 DEF Moves
        <4> QED BY <3>1, <3>2, <4>1, <1>0 DEF Moves
      <3>3. CASE e # "client"
        BY <3>1, <3>3, <1>0, TheClient DEF Moves
      <3> QED BY <3>2, <3>3
    <2> QED BY <2>1
  <1>6. closed'["client"] = "no" => closed["client"] = "no" /\ e # "client"
    BY TheClient DEF NoReopening
  <1>7. e # "client" => InHand("client")' = InHand("client")
    BY <1>0, TheClient DEF Moves
  <1> QED BY <1>1, <1>3, <1>4, <1>5, <1>6, <1>7 DEF InLine

LEMMA PumpPushOnce ==
    ASSUME Shape, OnceInv, NoReopening, NEW e \in Ends, NEW k \in Conns, PumpPush(e, k)
    PROVE  OnceInv'
  <1>1. pump[e][k].pc = "push" /\ UNCHANGED <<got, recvSeq, dialled>>
    BY DEF PumpPush
  <1>2. pump[e][k].pc # "off"
    BY SMT, <1>1
  <1>3. CASE /\ inbound' = [inbound EXCEPT ![e] = Append(inbound[e], pump[e][k].seq)]
             /\ Goes(e, k, "read", 0)
    <2>1. (\A d \in Ends : PlacedOnce(d)') /\ InLine'
      BY <1>1, <1>3, PushPlaced, PushInLine
    <2>2. Undialled'
      <3>1. Moves(e, k, "read", 0)
        BY <1>3, Moved
      <3> QED BY <1>1, <1>2, <3>1, StillUndialled DEF OnceInv
    <2> QED BY <2>1, <2>2 DEF OnceInv
  <1>4. CASE closed[e] # "no" /\ Goes(e, k, "done", 0) /\ UNCHANGED inbound
    <2>1. (\A d \in Ends : PlacedOnce(d)') /\ InLine'
      BY <1>1, <1>4, DropPlaced, DropInLine
    <2>2. Undialled'
      <3>1. Moves(e, k, "done", 0)
        BY <1>4, Moved
      <3> QED BY <1>1, <1>2, <3>1, StillUndialled DEF OnceInv
    <2> QED BY <2>1, <2>2 DEF OnceInv
  <1>5. (/\ inbound' = [inbound EXCEPT ![e] = Append(inbound[e], pump[e][k].seq)]
         /\ Goes(e, k, "read", 0))
        \/ (closed[e] # "no" /\ Goes(e, k, "done", 0) /\ UNCHANGED inbound)
    BY DEF PumpPush, Shape
  <1> QED BY <1>3, <1>4, <1>5

(* The application takes the oldest chunk of the channel. *)
LEMMA ConsumeOnce ==
    ASSUME Shape, OnceInv, NoReopening, NEW e \in Ends, Consume(e)
    PROVE  OnceInv'
  <1> DEFINE q == inbound[e]
             t == Tail(inbound[e])
             x == Head(inbound[e])
             s == got[e]
  <1>1. q \in Seq(Nat) /\ q # <<>> /\ s \in Seq(Nat) /\ UNCHANGED <<recvSeq, pump, dialled>>
    BY DEF Shape, Consume
  <1>2. /\ inbound'[e] = t /\ got'[e] = Append(s, x)
        /\ \A d \in Ends : d # e => inbound'[d] = inbound[d] /\ got'[d] = got[d]
    BY DEF Shape, Consume
  <1>3. \A d \in Ends : InHand(d)' = InHand(d)
    BY <1>1 DEF InHand
  <1> HIDE DEF q, s
  <1>4. /\ Range(q) = {x} \cup Range(t) /\ Len(t) = Len(q) - 1 /\ x = q[1] /\ x \in Nat
        /\ Len(q) >= 1 /\ (\A i \in 1..Len(t) : t[i] = q[i + 1]) /\ t \in Seq(Nat)
    BY <1>1, RangeHead DEF q
  <1> HIDE DEF t, x
  <1>5. Range(Append(s, x)) = Range(s) \cup {x} /\ Len(Append(s, x)) = Len(s) + 1
    BY <1>1, <1>4, RangeAppend
  <1>6. Len(q) \in Nat /\ Len(s) \in Nat
    BY SMT, <1>1
  <1>7. ASSUME NEW d \in Ends PROVE PlacedOnce(d)'
    <2>1. CASE d = e
      <3>1. Handed(e)' = Handed(e)
        BY <1>2, <1>4, <1>5 DEF Handed, q, s
      <3>2. Delivered(e)' = Delivered(e)
        BY <1>1, <1>3, <3>1 DEF Handed, Delivered
      <3>3. Len(got'[e]) + Len(inbound'[e]) = Len(got[e]) + Len(inbound[e])
        <4>1. (Len(s) + 1) + (Len(q) - 1) = Len(s) + Len(q)
          BY SMT, <1>6
        <4> QED BY <4>1, <1>2, <1>4, <1>5 DEF q, s
      <3>4. PlacedOnce(e) /\ InHand(e)' = InHand(e) /\ pump' = pump /\ recvSeq' = recvSeq
        BY <1>1, <1>3 DEF OnceInv
      <3>5. /\ \A k \in InHand(e)' : pump'[e][k].seq \notin Handed(e)'
            /\ \A j, k \in InHand(e)' : pump'[e][j].seq = pump'[e][k].seq => j = k
        BY <3>1, <3>4 DEF PlacedOnce
      <3>6. Cardinality(Delivered(e)') = Len(got'[e]) + Len(inbound'[e]) + Cardinality(InHand(e)')
        BY <3>2, <3>3, <3>4 DEF PlacedOnce
      <3>7. Delivered(e)' \subseteq 1..recvSeq'[e] /\ (closed'[e] = "no" => Delivered(e)' = 1..recvSeq'[e])
        BY <3>2, <3>4 DEF PlacedOnce, NoReopening
      <3>8. PlacedOnce(e)'
        BY <3>5, <3>6, <3>7 DEF PlacedOnce
      <3> QED BY <3>8, <2>1
    <2>2. CASE d # e
      <3>1. PlacedOnce(d) /\ got'[d] = got[d] /\ inbound'[d] = inbound[d] /\ recvSeq' = recvSeq
            /\ InHand(d)' = InHand(d) /\ pump' = pump
        BY <1>1, <1>2, <1>3, <2>2 DEF OnceInv
      <3> QED BY <3>1, SamePlacedOnce
    <2> QED BY <2>1, <2>2
  <1>8. InLine'
    <2>1. InLine /\ \A k \in Conns : Active(k)' <=> Active(k)
      BY <1>1 DEF OnceInv, Active
    <2>2. CASE e = "client"
      <3> DEFINE g == Len(s)
                 b == Len(q)
      <3>1. \A i \in 1..b : q[i] = g + i
        BY <2>1, <2>2 DEF InLine, q, s
      <3>2. \A i \in 1..g : s[i] = i
        BY <2>1, <2>2 DEF InLine, s
      <3>3. /\ \A k \in InHand("client") : pump["client"][k].seq = g + b + 1
            /\ closed["client"] = "no" =>
                  recvSeq["client"] = g + b + (IF InHand("client") = {} THEN 0 ELSE 1)
        BY <2>1, <2>2 DEF InLine, q, s
      <3>4. g \in Nat /\ b \in Nat /\ b >= 1 /\ Len(t) = b - 1 /\ Len(Append(s, x)) = g + 1
        BY <1>4, <1>5, <1>6
      <3>5. x = g + 1
        <4>1. 1 \in 1..b
          BY SMT, <3>4
        <4> QED BY <4>1, <3>1, <1>4
      <3> HIDE DEF g, b
      <3>6. \A i \in 1..(g + 1) : Append(s, x)[i] = i
        <4>1. \A i \in 1..g : Append(s, x)[i] = s[i]
          BY SMT, <1>1, <1>4 DEF g
        <4>2. Append(s, x)[g + 1] = x
          BY SMT, <1>1, <1>4 DEF g
        <4>3. \A i \in 1..(g + 1) : i \in 1..g \/ i = g + 1
          BY SMT, <3>4
        <4> QED BY <4>1, <4>2, <4>3, <3>2, <3>5
      <3>7. \A i \in 1..(b - 1) : t[i] = (g + 1) + i
        <4>1. \A i \in 1..(b - 1) : i + 1 \in 1..b /\ g + (i + 1) = (g + 1) + i
          BY SMT, <3>4
        <4> QED BY <4>1, <3>1, <3>4, <1>4
      <3>8. (g + 1) + (b - 1) = g + b
        BY SMT, <3>4
      <3>9. Len(got'["client"]) = g + 1 /\ Len(inbound'["client"]) = b - 1
        BY <1>2, <2>2, <3>4
      <3>10. \A k \in InHand("client")' :
                pump'["client"][k].seq = Len(got'["client"]) + Len(inbound'["client"]) + 1
        BY <1>1, <1>3, <2>2, <3>3, <3>8, <3>9
      <3>11. closed'["client"] = "no" =>
                recvSeq'["client"] = Len(got'["client"]) + Len(inbound'["client"])
                                     + (IF InHand("client")' = {} THEN 0 ELSE 1)
        BY <1>1, <1>3, <2>2, <3>3, <3>8, <3>9 DEF NoReopening
      <3>12. \A i \in 1..Len(got'["client"]) : got'["client"][i] = i
        BY <1>2, <2>2, <3>6, <3>9
      <3>13. \A i \in 1..Len(inbound'["client"]) : inbound'["client"][i] = Len(got'["client"]) + i
        BY <1>2, <2>2, <3>7, <3>9
      <3> QED BY <2>1, <3>10, <3>11, <3>12, <3>13 DEF InLine
    <2>3. CASE e # "client"
      <3>1. got'["client"] = got["client"] /\ inbound'["client"] = inbound["client"]
            /\ InHand("client")' = InHand("client") /\ pump' = pump /\ recvSeq' = recvSeq
            /\ (closed'["client"] = "no" => closed["client"] = "no")
        BY <1>1, <1>2, <1>3, <2>3, TheClient DEF NoReopening
      <3> QED BY <2>1, <3>1 DEF InLine
    <2> QED BY <2>2, <2>3
  <1>9. Undialled'
    BY <1>1 DEF OnceInv, Undialled
  <1> QED BY <1>7, <1>8, <1>9 DEF OnceInv

(* The client dials when it has no reader left. *)
LEMMA DialOnce ==
    ASSUME Shape, OnceInv, NoReopening, Dial
    PROVE  OnceInv'
  <1> DEFINE k == dialled + 1
  <1>1. k \in Conns /\ dialled' = k /\ dialled \in Int /\ UNCHANGED <<got, inbound, recvSeq>>
    BY SMT DEF Dial, Shape
  <1>2. \A e \in Ends : pump[e][k].pc = "off"
    BY SMT, <1>1 DEF OnceInv, Undialled
  <1>3. \A j \in Conns : ~Active(j)
    BY DEF Dial, Active
  <1>4. pump' = [e \in Ends |-> [pump[e] EXCEPT ![k] = At("attach", 0)]]
    BY DEF Dial
  <1> HIDE DEF k
  <1>5. \A e \in Ends : /\ pump'[e][k] = At("attach", 0)
                        /\ \A j \in Conns : j # k => pump'[e][j] = pump[e][j]
    <2>1. pump = [e \in Ends |-> [j \in Conns |-> pump[e][j]]]
      BY DEF Shape
    <2> QED BY SMT, <1>1, <1>4, <2>1
  <1>6. \A e \in Ends : pump'[e][k].pc = "attach"
    BY SMT, <1>5 DEF At
  <1>7. ASSUME NEW e \in Ends PROVE InHand(e)' = InHand(e)
    <2>1. ASSUME NEW j \in Conns
          PROVE  pump'[e][j].pc \in {"ack", "push"} <=> pump[e][j].pc \in {"ack", "push"}
      BY SMT, <1>2, <1>5, <1>6
    <2> QED BY <2>1 DEF InHand
  <1>8. \A e \in Ends : k \notin InHand(e)
    BY <1>2 DEF InHand
  <1>9. SamePlaces
    BY <1>1, <1>5, <1>7, <1>8 DEF SamePlaces, SameHands, InHand
  <1>10. \A e \in Ends : PlacedOnce(e)'
    <2>1. \A e \in Ends : PlacedOnce(e) /\ InHand(e)' = InHand(e)
                           /\ \A j \in InHand(e) : pump'[e][j].seq = pump[e][j].seq
      BY <1>9 DEF OnceInv, SamePlaces, SameHands
    <2> QED BY <1>1, <2>1, SamePlacedOnce
  <1>11. \A j \in Conns : Active(j)' => j = k
    BY <1>3, <1>5, TheClient DEF Active
  <1>12. InLine'
    <2>1. InHand("client")' = InHand("client")
          /\ \A j \in InHand("client") : pump'["client"][j].seq = pump["client"][j].seq
      BY <1>9, TheClient DEF SamePlaces, SameHands
    <2> QED BY <1>1, <1>11, <2>1, TheClient DEF OnceInv, InLine, NoReopening
  <1>13. Undialled'
    <2>1. ASSUME NEW j \in Conns, j > dialled', NEW e \in Ends PROVE pump'[e][j].pc = "off"
      <3>1. j > dialled /\ j # k
        BY SMT, <1>1, <2>1 DEF k, Conns
      <3> QED BY <3>1, <1>5 DEF OnceInv, Undialled
    <2> QED BY <2>1 DEF Undialled
  <1> QED BY <1>10, <1>12, <1>13 DEF OnceInv

-----------------------------------------------------------------------------
LEMMA PumpingOnce ==
    ASSUME Shape, OnceInv, NoReopening, NEW e \in Ends, NEW k \in Conns, Pumping(e, k)
    PROVE  OnceInv'
  <1>1. CASE PumpData(e, k) \/ PumpPush(e, k)
    BY <1>1, PumpDataOnce, PumpPushOnce
  <1>2. CASE PumpAck(e, k)
    <2>1. pump[e][k].pc \in {"ack", "reack"} /\ UNCHANGED <<got, inbound, recvSeq, dialled>>
      BY <1>2 DEF PumpAck
    <2>2. Goes(e, k, IF pump[e][k].pc = "ack" THEN "push" ELSE "read", pump[e][k].seq)
      BY <1>2 DEF PumpAck
    <2>3. pump[e][k].pc \notin {"off", "done"}
          /\ (pump[e][k].pc \in Holding <=> (IF pump[e][k].pc = "ack" THEN "push" ELSE "read") \in Holding)
      BY SMT, <2>1 DEF Holding
    <2> QED BY <2>1, <2>2, <2>3, QuietMove
  <1>3. CASE PumpAcked(e, k)
    BY <1>3, NoMove DEF PumpAcked
  <1>4. CASE PumpClose(e, k) \/ PumpReturns(e, k)
    <2>1. pump[e][k].pc \in {"attach", "bind", "read"} /\ UNCHANGED <<got, inbound, recvSeq, dialled>>
      BY <1>4 DEF PumpClose, PumpReturns, Reads
    <2>2. Goes(e, k, "done", 0)
      BY <1>4 DEF PumpClose, PumpReturns
    <2>3. pump[e][k].pc \notin {"off", "done"} /\ pump[e][k].pc \notin Holding /\ "done" \notin Holding
      BY SMT, <2>1 DEF Holding
    <2> QED BY <2>1, <2>2, <2>3, QuietMove
  <1> QED BY <1>1, <1>2, <1>3, <1>4 DEF Pumping

LEMMA HandlingMoves ==
    ASSUME NEW k \in Conns, Handling(k)
    PROVE  \E e \in Ends, pc \in {"bind", "read", "done"} :
              pump[e][k].pc \in {"attach", "bind"} /\ \E seq : Goes(e, k, pc, seq)
  <1>1. CASE ServerAttach(k)
    BY <1>1, TheClient DEF ServerAttach, Answers
  <1>2. CASE ServerBind(k) \/ ClientBind(k) \/ ClientRejected(k)
    BY <1>2, TheClient DEF ServerBind, ClientBind, ClientRejected
  <1> QED BY <1>1, <1>2 DEF Handling

LEMMA HandlingOnce ==
    ASSUME Shape, OnceInv, NoReopening, NEW k \in Conns, Handling(k)
    PROVE  OnceInv'
  <1>1. UNCHANGED <<got, inbound, recvSeq, dialled>>
    BY DEF Handling, ServerAttach, ServerBind, ClientBind, ClientRejected
  <1>2. PICK e \in Ends, pc \in {"bind", "read", "done"} :
           pump[e][k].pc \in {"attach", "bind"} /\ \E seq : Goes(e, k, pc, seq)
    BY HandlingMoves
  <1>3. pump[e][k].pc \notin {"off", "done"} /\ pump[e][k].pc \notin Holding /\ pc \notin Holding
    BY SMT, <1>2 DEF Holding
  <1>4. PICK seq : Goes(e, k, pc, seq)
    BY <1>2
  <1> QED BY <1>1, <1>2, <1>3, <1>4, QuietMove

LEMMA NextOnce == Shape /\ OnceInv /\ NoReopening /\ [Next]_vars => OnceInv'
  <1> SUFFICES ASSUME Shape, OnceInv, NoReopening, [Next]_vars PROVE OnceInv'
    BY SMT
  <1>1. CASE UNCHANGED vars
    BY <1>1, NoMove DEF vars
  <1>2. CASE Dial
    BY <1>2, DialOnce
  <1>3. CASE LocalEnds \/ AwaitDrain \/ BackendEnds \/ Cancelled \/ Removed \/ Detach
    BY <1>3, NoMove DEF LocalEnds, AwaitDrain, BackendEnds, Cancelled, Removed, Detach
  <1>4. ASSUME NEW e \in Ends, Send(e) \/ SendOverflow(e) PROVE OnceInv'
    BY <1>4, NoMove DEF Send, SendOverflow
  <1>5. ASSUME NEW k \in Conns, Lose(k) PROVE OnceInv'
    BY <1>5, NoMove DEF Lose
  <1> QED BY <1>1, <1>2, <1>3, <1>4, <1>5, ConsumeOnce, HandlingOnce, PumpingOnce DEF Next

-----------------------------------------------------------------------------
(* closeWith and sendClose close an endpoint once and for all. *)
Closing == \E d \in Ends : \E why \in {"nil", "err"} :
               closed' = [closed EXCEPT ![d] = IF @ = "no" THEN why ELSE @]

LEMMA NextCloses == [Next]_vars => UNCHANGED closed \/ Closing
  <1> SUFFICES ASSUME [Next]_vars PROVE UNCHANGED closed \/ Closing
    BY SMT
  <1>1. CASE UNCHANGED vars
    BY <1>1 DEF vars
  <1>2. CASE Dial \/ LocalEnds \/ Detach
    BY <1>2 DEF Dial, LocalEnds, Detach
  <1>3. CASE AwaitDrain \/ BackendEnds \/ Cancelled \/ Removed
    BY <1>3, TheClient
       DEF AwaitDrain, BackendEnds, Cancelled, Removed, ClosesWith, SendsClose, Closing
  <1>4. ASSUME NEW e \in Ends, Send(e) \/ SendOverflow(e) \/ Consume(e)
        PROVE  UNCHANGED closed \/ Closing
    BY <1>4 DEF Send, SendOverflow, Consume, ClosesWith, Closing
  <1>5. ASSUME NEW k \in Conns, Lose(k) \/ Handling(k)
        PROVE  UNCHANGED closed \/ Closing
    BY <1>5, TheClient
       DEF Lose, Handling, ServerAttach, ServerBind, ClientBind, ClientRejected, ClosesWith, Closing
  <1>6. ASSUME NEW k \in Conns, NEW e \in Ends, Pumping(e, k)
        PROVE  UNCHANGED closed \/ Closing
    BY <1>6
       DEF Pumping, PumpData, PumpAck, PumpPush, PumpAcked, PumpClose, PumpReturns, ClosesWith, Closing
  <1> QED BY <1>1, <1>2, <1>3, <1>4, <1>5, <1>6 DEF Next

LEMMA StaysClosed ==
    ASSUME Shape, [Next]_vars
    PROVE  NoReopening /\ closed' \in [Ends -> {"no", "nil", "err"}]
  <1>1. closed \in [Ends -> {"no", "nil", "err"}] /\ (UNCHANGED closed \/ Closing)
    BY NextCloses DEF Shape
  <1>2. CASE UNCHANGED closed
    BY <1>1, <1>2 DEF NoReopening
  <1>3. CASE Closing
    BY SMT, <1>1, <1>3 DEF Closing, NoReopening
  <1> QED BY <1>1, <1>2, <1>3

(* The types are kept. *)
LEMMA InitShape == Init => Shape
  <1> SUFFICES ASSUME Init PROVE Shape
    BY SMT
  <1>1. recvSeq \in [Ends -> Nat] /\ dialled \in Nat
    BY SMT DEF Init
  <1>2. inbound \in [Ends -> Seq(Nat)] /\ got \in [Ends -> Seq(Nat)]
    BY SMT DEF Init
  <1>3. closed \in [Ends -> {"no", "nil", "err"}]
    BY DEF Init
  <1>4. pump = [e \in Ends |-> [k \in Conns |-> pump[e][k]]]
    BY DEF Init
  <1>5. \A e \in Ends, k \in Conns : pump[e][k].seq = 0
    BY SMT DEF Init, At
  <1>6. \A e \in Ends : \A k \in InHand(e) : pump[e][k].seq \in Nat
    BY SMT, <1>5 DEF InHand
  <1> QED BY <1>1, <1>2, <1>3, <1>4, <1>6 DEF Shape

LEMMA ReaderShape ==
    ASSUME Shape, NEW e \in Ends, NEW k \in Conns, NEW pc, NEW seq, Goes(e, k, pc, seq),
           pc \in Holding => seq \in Nat
    PROVE  /\ pump' = [d \in Ends |-> [j \in Conns |-> pump'[d][j]]]
           /\ \A d \in Ends : \A j \in InHand(d)' : pump'[d][j].seq \in Nat
  <1>1. pump' = [d \in Ends |-> [j \in Conns |-> pump'[d][j]]]
    BY DEF Shape, Goes
  <1>2. Moves(e, k, pc, seq)
    BY Moved
  <1>3. ASSUME NEW d \in Ends, NEW j \in InHand(d)' PROVE pump'[d][j].seq \in Nat
    <2>1. j \in Conns /\ pump'[d][j].pc \in Holding
      BY DEF InHand, Holding
    <2>2. CASE d = e /\ j = k
      BY <1>2, <2>1, <2>2 DEF Moves
    <2>3. CASE d # e \/ j # k
      <3>1. pump'[d][j] = pump[d][j]
        BY <1>2, <2>1, <2>3 DEF Moves
      <3>2. j \in InHand(d)
        BY <2>1, <3>1 DEF InHand, Holding
      <3> QED BY <3>1, <3>2 DEF Shape
    <2> QED BY <2>2, <2>3
  <1> QED BY <1>1, <1>3

LEMMA NextShape == Shape /\ [Next]_vars => Shape'
  <1> SUFFICES ASSUME Shape, [Next]_vars PROVE Shape'
    BY SMT
  <1>1. closed' \in [Ends -> {"no", "nil", "err"}]
    BY StaysClosed
  <1>2. ASSUME UNCHANGED <<recvSeq, dialled, inbound, got, pump>> PROVE Shape'
    BY <1>1, <1>2 DEF Shape, InHand
  <1>3. ASSUME NEW e \in Ends, NEW k \in Conns, NEW pc, NEW seq, Goes(e, k, pc, seq),
               pc \in Holding => seq \in Nat, UNCHANGED <<dialled, got>>,
               recvSeq' \in [Ends -> Nat], inbound' \in [Ends -> Seq(Nat)]
        PROVE  Shape'
    <2>1. /\ pump' = [d \in Ends |-> [j \in Conns |-> pump'[d][j]]]
          /\ \A d \in Ends : \A j \in InHand(d)' : pump'[d][j].seq \in Nat
      BY <1>3, ReaderShape
    <2> QED BY <1>1, <1>3, <2>1 DEF Shape
  <1>4. CASE UNCHANGED vars
    BY <1>2, <1>4 DEF vars
  <1>5. CASE Dial
    <2>1. dialled + 1 \in Conns /\ dialled' = dialled + 1 /\ UNCHANGED <<recvSeq, inbound, got>>
          /\ pump' = [e \in Ends |-> [pump[e] EXCEPT ![dialled + 1] = At("attach", 0)]]
      BY <1>5 DEF Dial
    <2>2. pump = [e \in Ends |-> [k \in Conns |-> pump[e][k]]] /\ dialled \in Nat
      BY DEF Shape
    <2>3. pump' = [e \in Ends |-> [k \in Conns |-> pump'[e][k]]]
      <3> DEFINE n == dialled + 1
                 v == At("attach", 0)
      <3>1. pump' = [e \in Ends |-> [pump[e] EXCEPT ![n] = v]] /\ n \in Conns
        BY <2>1
      <3> HIDE DEF n, v
      <3> QED BY <3>1, <2>2
    <2>9. dialled' \in Nat
      BY SMT, <2>1, <2>2
    <2>4. \A e \in Ends : \A k \in Conns : pump'[e][k] = At("attach", 0) \/ pump'[e][k] = pump[e][k]
      BY SMT, <2>1, <2>2
    <2>5. At("attach", 0).seq \in Nat
      BY SMT DEF At
    <2>6. ASSUME NEW e \in Ends, NEW k \in InHand(e)' PROVE pump'[e][k].seq \in Nat
      <3>1. k \in Conns /\ pump'[e][k].pc \in {"ack", "push"}
        BY DEF InHand
      <3>2. CASE pump'[e][k] = At("attach", 0)
        BY <3>2, <2>5
      <3>3. CASE pump'[e][k] = pump[e][k]
        BY <3>1, <3>3 DEF InHand, Shape
      <3> QED BY <3>1, <3>2, <3>3, <2>4
    <2> QED BY <1>1, <2>1, <2>3, <2>6, <2>9 DEF Shape
  <1>6. CASE LocalEnds \/ AwaitDrain \/ BackendEnds \/ Cancelled \/ Removed \/ Detach
    BY <1>2, <1>6 DEF LocalEnds, AwaitDrain, BackendEnds, Cancelled, Removed, Detach
  <1>7. ASSUME NEW e \in Ends, Send(e) \/ SendOverflow(e) PROVE Shape'
    BY <1>2, <1>7 DEF Send, SendOverflow
  <1>8. ASSUME NEW e \in Ends, Consume(e) PROVE Shape'
    <2>1. inbound \in [Ends -> Seq(Nat)] /\ got \in [Ends -> Seq(Nat)]
      BY DEF Shape
    <2>2. inbound' \in [Ends -> Seq(Nat)] /\ got' \in [Ends -> Seq(Nat)]
      BY SMT, <2>1, <1>8 DEF Consume
    <2> QED BY <1>1, <1>8, <2>2 DEF Shape, Consume, InHand
  <1>9. ASSUME NEW k \in Conns, Lose(k) PROVE Shape'
    BY <1>2, <1>9 DEF Lose
  <1>10. ASSUME NEW k \in Conns, Handling(k) PROVE Shape'
    <2>1. UNCHANGED <<got, inbound, recvSeq, dialled>>
      BY <1>10 DEF Handling, ServerAttach, ServerBind, ClientBind, ClientRejected
    <2>2. PICK e \in Ends, pc \in {"bind", "read", "done"} : \E seq : Goes(e, k, pc, seq)
      BY <1>10, HandlingMoves
    <2>3. pc \notin Holding
      BY SMT DEF Holding
    <2> QED BY <1>3, <2>1, <2>2, <2>3 DEF Shape
  <1>11. ASSUME NEW e \in Ends, NEW k \in Conns, Pumping(e, k) PROVE Shape'
    <2>1. CASE PumpData(e, k)
      <3>1. recvSeq \in [Ends -> Nat] /\ recvSeq[e] \in Nat /\ recvSeq[e] + 1 \in Nat
        BY SMT DEF Shape
      <3>2. CASE Head(Incoming(e, k)).seq = recvSeq[e] + 1
        BY <1>3, <2>1, <3>1, <3>2 DEF PumpData, Shape
      <3>3. CASE Head(Incoming(e, k)).seq # recvSeq[e] + 1
        BY <1>3, <2>1, <3>1, <3>3 DEF PumpData, Shape
      <3> QED BY <3>2, <3>3
    <2>2. CASE PumpAck(e, k)
      <3>1. pump[e][k].pc = "ack" => pump[e][k].seq \in Nat
        BY DEF Shape, InHand
      <3>2. (IF pump[e][k].pc = "ack" THEN "push" ELSE "read") \in Holding => pump[e][k].pc = "ack"
        BY SMT DEF Holding
      <3> QED BY <1>3, <2>2, <3>1, <3>2 DEF PumpAck, Shape
    <2>3. CASE PumpPush(e, k)
      <3>1. inbound \in [Ends -> Seq(Nat)] /\ pump[e][k].seq \in Nat
        BY <2>3 DEF PumpPush, Shape, InHand
      <3>2. inbound' \in [Ends -> Seq(Nat)]
        <4>1. CASE inbound' = [inbound EXCEPT ![e] = Append(inbound[e], pump[e][k].seq)]
          <5> DEFINE n == pump[e][k].seq
          <5>1. n \in Nat /\ inbound' = [inbound EXCEPT ![e] = Append(inbound[e], n)]
            BY <3>1, <4>1
          <5> HIDE DEF n
          <5>2. Append(inbound[e], n) \in Seq(Nat)
            BY SMT, <3>1, <5>1
          <5> QED BY <3>1, <5>1, <5>2
        <4>2. CASE UNCHANGED inbound
          BY <3>1, <4>2
        <4> QED BY <3>1, <4>1, <4>2, <2>3 DEF PumpPush
      <3>3. 0 \in Nat
        BY SMT
      <3> QED BY <1>3, <2>3, <3>2, <3>3 DEF PumpPush, Shape
    <2>4. CASE PumpAcked(e, k)
      BY <1>2, <2>4 DEF PumpAcked
    <2>5. CASE PumpClose(e, k) \/ PumpReturns(e, k)
      <3>1. 0 \in Nat
        BY SMT
      <3> QED BY <1>3, <2>5, <3>1 DEF PumpClose, PumpReturns, Shape
    <2> QED BY <1>11, <2>1, <2>2, <2>3, <2>4, <2>5 DEF Pumping
  <1> QED BY <1>4, <1>5, <1>6, <1>7, <1>8, <1>9, <1>10, <1>11 DEF Next

-----------------------------------------------------------------------------
(* Exactly once in both directions, for any number of chunks, connections, *)
(* losses and overlapping readers: what pumpReader has received is with    *)
(* the application, in the channel or in one reader's hand, never in two   *)
(* of these places, all of it while the endpoint is open; and the client   *)
(* reads in order.                                                         *)
THEOREM DeliveredOnce == Spec => []ExactlyOnce
  <1>1. Shape /\ [Next]_vars => NoReopening
    BY StaysClosed
  <1>2. Spec => []Shape
    BY InitShape, NextShape, PTL DEF Spec
  <1>3. Spec => []OnceInv
    BY <1>1, <1>2, InitOnce, NextOnce, PTL DEF Spec
  <1>4. OnceInv => ExactlyOnce
    BY DEF OnceInv, InLine, PlacedOnce, ExactlyOnce
  <1> QED BY <1>3, <1>4, PTL
=============================================================================
