------------------------- MODULE SessionLinkProofs -------------------------
(***************************************************************************)
(* Nothing unconfirmed is forgotten, for any number of chunks, connections *)
(* and losses and any capacities.  The property is not inductive by        *)
(* itself: a cursor takes effect long after it was written, so the         *)
(* invariant must speak of the frames in flight and of the cursors in the  *)
(* hands of readers.  From the same invariant: the client announces a      *)
(* close only when all it sent was accepted.                               *)
(***************************************************************************)
EXTENDS SessionLink, TLAPS

(* A frame of an end that has assigned the numbers up to s and received    *)
(* those up to r.                                                          *)
Honest(f, s, r) ==
    /\ f.typ = "DATA" => f.seq <= s
    /\ f.typ \in {"ATTACH", "ATTACH_OK", "ACK"} => f.seq <= r

Wires(w) == w \in [Conns -> [Ends -> Seq(Frame)]]
HonestWires(w, s, r) ==
    \A k \in Conns : \A e \in Ends : \A i \in 1..Len(w[k][e]) : Honest(w[k][e][i], s[e], r[e])

(* The cursors readers hold: one they will confirm, or one they were told. *)
HonestReaders ==
    \A k \in Conns :
        /\ \A e \in Ends : pump[e][k].pc \in {"ack", "reack", "push"} => pump[e][k].seq <= recvSeq[e]
        /\ pump["server"][k].pc = "bind" => pump["server"][k].seq <= recvSeq["client"]

IInv == TypeOK /\ NothingForgotten /\ HonestWires(wire, sendSeq, recvSeq) /\ HonestReaders

(* A leaf that names no prover is for Zenon. *)
USE Zenon

-----------------------------------------------------------------------------
(* Sequences put together and cut. *)
LEMMA Joined ==
    ASSUME NEW S, NEW q \in Seq(S), NEW r \in Seq(S)
    PROVE  /\ Len(q \o r) = Len(q) + Len(r)
           /\ \A i \in 1..(Len(q) + Len(r)) : i > Len(q) => (q \o r)[i] = r[i - Len(q)]
  <1>1. Len(q \o r) = Len(q) + Len(r)
    BY SMT
  <1>2. ASSUME NEW i \in 1..(Len(q) + Len(r)), i > Len(q) PROVE (q \o r)[i] = r[i - Len(q)]
    BY SMT, <1>2
  <1> QED BY <1>1, <1>2

LEMMA Cut ==
    ASSUME NEW q \in Seq(Nat), NEW m \in Nat, NEW n \in Nat, m >= 1, n <= Len(q)
    PROVE  /\ SubSeq(q, m, n) \in Seq(Nat)
           /\ Len(SubSeq(q, m, n)) = IF m <= n THEN n - m + 1 ELSE 0
           /\ \A i \in 1..(n - m + 1) : SubSeq(q, m, n)[i] = q[m + i - 1]
  <1>1. SubSeq(q, m, n) \in Seq(Nat)
    BY SMT
  <1>2. Len(SubSeq(q, m, n)) = IF m <= n THEN n - m + 1 ELSE 0
    BY SMT
  <1>3. \A i \in 1..(n - m + 1) : SubSeq(q, m, n)[i] = q[m + i - 1]
    BY SMT
  <1> QED BY <1>1, <1>2, <1>3

LEMMA EndFacts ==
    /\ "client" \in Ends /\ "server" \in Ends
    /\ \A e \in Ends : Peer(e) \in Ends /\ Peer(e) # e /\ Peer(Peer(e)) = e
    /\ NoConn \notin Conns
    /\ 1 \in Conns
BY SMT, LinkAssumption DEF Ends, Peer, NoConn, Conns

LEMMA InitIInv == Init => IInv
  <1> SUFFICES ASSUME Init PROVE IInv
    BY SMT
  <1> USE EndFacts, LinkAssumption
  <1>1. TypeOK
    <2>1. pump \in [Ends -> [Conns -> Reader]]
      BY DEF Init, Reader, At
    <2>2. wire \in [Conns -> [Ends -> Seq(Frame)]]
      BY SMT DEF Init
    <2>3. open \in [Conns -> SUBSET Ends] /\ conn \in [Ends -> Conns \cup {NoConn}]
      BY DEF Init
    <2>4. sendBuf \in [Ends -> Seq(Nat)] /\ inbound \in [Ends -> Seq(Nat)] /\ got \in [Ends -> Seq(Nat)]
      BY SMT DEF Init
    <2>5. slots \in [Ends -> 0..MaxFrames]
      BY SMT DEF Init
    <2>6. closed \in [Ends -> {"no", "nil", "err"}] /\ dialled \in 0..MaxConns
      BY SMT DEF Init
    <2>7. sendSeq \in [Ends -> Nat] /\ acked \in [Ends -> Nat] /\ recvSeq \in [Ends -> Nat]
      BY DEF Init
    <2> QED BY <2>1, <2>2, <2>3, <2>4, <2>5, <2>6, <2>7 DEF Init, TypeOK
  <1>2. NothingForgotten
    BY SMT DEF Init, NothingForgotten
  <1>3. HonestWires(wire, sendSeq, recvSeq)
    BY SMT DEF Init, HonestWires
  <1>4. HonestReaders
    BY SMT DEF Init, HonestReaders, At
  <1> QED BY <1>1, <1>2, <1>3, <1>4 DEF IInv

-----------------------------------------------------------------------------
(* Numbers only grow, so a frame stays honest. *)
LEMMA StillHonest ==
    ASSUME NEW w, Wires(w), NEW s \in [Ends -> Nat], NEW r \in [Ends -> Nat],
           NEW s2 \in [Ends -> Nat], NEW r2 \in [Ends -> Nat],
           HonestWires(w, s, r),
           \A e \in Ends : s[e] <= s2[e] /\ r[e] <= r2[e]
    PROVE  HonestWires(w, s2, r2)
  <1> SUFFICES ASSUME NEW k \in Conns, NEW e \in Ends, NEW i \in 1..Len(w[k][e])
               PROVE  Honest(w[k][e][i], s2[e], r2[e])
    BY DEF HonestWires
  <1>1. w[k][e] \in Seq(Frame)
    BY DEF Wires
  <1>2. w[k][e][i] \in Frame
    BY SMT, <1>1
  <1>3. w[k][e][i].seq \in Nat
    BY <1>2 DEF Frame
  <1>4. Honest(w[k][e][i], s[e], r[e])
    BY DEF HonestWires
  <1> QED BY SMT, <1>3, <1>4 DEF Honest

(* Writing honest frames. *)
LEMMA AppendHonest ==
    ASSUME NEW e \in Ends, NEW k \in Conns, NEW w, Wires(w), NEW s, NEW r, HonestWires(w, s, r),
           NEW frames \in Seq(Frame),
           \A i \in 1..Len(frames) : Honest(frames[i], s[e], r[e]),
           NEW x, x = [w EXCEPT ![k][e] = @ \o frames]
    PROVE  Wires(x) /\ HonestWires(x, s, r)
  <1>2. w[k][e] \in Seq(Frame) /\ w[k][e] \o frames \in Seq(Frame)
    BY SMT DEF Wires
  <1>3. Wires(x)
    BY <1>2 DEF Wires
  <1>4. ASSUME NEW j \in Conns, NEW d \in Ends, NEW i \in 1..Len(x[j][d])
        PROVE  Honest(x[j][d][i], s[d], r[d])
    <2>1. CASE j = k /\ d = e
      <3>1. x[j][d] = w[k][e] \o frames
        BY <2>1 DEF Wires
      <3>2. CASE i <= Len(w[k][e])
        <4>1. i \in 1..Len(w[k][e]) /\ x[j][d][i] = w[k][e][i]
          BY SMT, <3>1, <3>2, <1>2
        <4> QED BY <4>1, <2>1 DEF HonestWires
      <3>3. CASE i > Len(w[k][e])
        <4>1. /\ i - Len(w[k][e]) \in 1..Len(frames)
              /\ x[j][d][i] = frames[i - Len(w[k][e])]
          <5> DEFINE q == w[k][e]
          <5>1. q \in Seq(Frame) /\ x[j][d] = q \o frames /\ i > Len(q)
            BY <3>1, <3>3, <1>2
          <5> HIDE DEF q
          <5>2. i \in 1..Len(q \o frames) /\ Len(q \o frames) = Len(q) + Len(frames)
            <6>1. i \in 1..Len(x[j][d])
              BY SMT
            <6>2. Len(q \o frames) = Len(q) + Len(frames)
              BY <5>1, Joined
            <6> QED BY ONLY Zenon, <6>1, <6>2, <5>1
          <5>3. i - Len(q) \in 1..Len(frames) /\ (q \o frames)[i] = frames[i - Len(q)]
            <6>1. Len(q) \in Nat /\ Len(frames) \in Nat
              BY SMT, <5>1
            <6>2. i \in Nat /\ i <= Len(q) + Len(frames) /\ i > Len(q)
              BY SMT, <5>1, <5>2, <6>1
            <6>3. (q \o frames)[i] = frames[i - Len(q)]
              BY <5>1, <5>2, Joined
            <6> QED BY SMT, <6>1, <6>2, <6>3
          <5> QED BY <5>1, <5>3 DEF q
        <4> QED BY <4>1, <2>1
      <3> QED BY SMT, <3>2, <3>3, <1>2
    <2>2. CASE ~(j = k /\ d = e)
      <3>1. x[j][d] = w[j][d]
        BY <2>2 DEF Wires
      <3> QED BY <3>1 DEF HonestWires
    <2> QED BY <2>1, <2>2
  <1> QED BY <1>3, <1>4 DEF HonestWires

LEMMA WritesHonest ==
    ASSUME NEW e \in Ends, NEW k \in Conns \cup {NoConn}, NEW w, Wires(w),
           NEW o \in [Conns -> SUBSET Ends], conn \in [Ends -> Conns \cup {NoConn}],
           NEW s, NEW r, HonestWires(w, s, r),
           NEW frames \in Seq(Frame),
           \A i \in 1..Len(frames) : Honest(frames[i], s[e], r[e]),
           Writes(e, k, w, o, frames)
    PROVE  /\ Wires(wire') /\ HonestWires(wire', s, r)
           /\ open' \in [Conns -> SUBSET Ends] /\ conn' \in [Ends -> Conns \cup {NoConn}]
  <1>1. open' \in [Conns -> SUBSET Ends] /\ conn' \in [Ends -> Conns \cup {NoConn}]
    BY SMT, EndFacts DEF Writes
  <1>2. CASE wire' = w
    BY <1>1, <1>2
  <1>3. CASE k # NoConn /\ wire' = [w EXCEPT ![k][e] = @ \o frames]
    <2>1. k \in Conns
      BY <1>3
    <2>2. Wires(wire') /\ HonestWires(wire', s, r)
      BY <1>3, <2>1, AppendHonest
    <2> QED BY <1>1, <2>2
  <1> QED BY <1>2, <1>3 DEF Writes

(* Reading the next frame. *)
LEMMA TakenHonest ==
    ASSUME NEW e \in Ends, NEW k \in Conns, Wires(wire), NEW s, NEW r,
           HonestWires(wire, s, r), Incoming(e, k) # <<>>
    PROVE  /\ Wires(Taken(e, k)) /\ HonestWires(Taken(e, k), s, r)
           /\ Head(Incoming(e, k)) \in Frame
           /\ Honest(Head(Incoming(e, k)), s[Peer(e)], r[Peer(e)])
  <1> DEFINE p == Peer(e)
             q == wire[k][p]
  <1>1. p \in Ends /\ q \in Seq(Frame) /\ q # <<>>
    BY EndFacts DEF Wires, Incoming
  <1> HIDE DEF p
  <1>2. Len(q) \in Nat /\ Len(q) >= 1 /\ Head(q) = q[1] /\ q[1] \in Frame
    BY SMT, <1>1
  <1>3. Honest(q[1], s[p], r[p])
    BY SMT, <1>1, <1>2 DEF HonestWires
  <1>4. Taken(e, k) = [wire EXCEPT ![k][p] = Tail(q)]
    BY <1>1 DEF Taken, Wires, p
  <1>5. Tail(q) \in Seq(Frame) /\ Len(Tail(q)) = Len(q) - 1
        /\ \A i \in 1..Len(Tail(q)) : Tail(q)[i] = q[i + 1]
    BY SMT, <1>1, <1>2
  <1>6. Wires(Taken(e, k))
    BY SMT, <1>1, <1>4, <1>5 DEF Wires
  <1>7. ASSUME NEW j \in Conns, NEW d \in Ends, NEW i \in 1..Len(Taken(e, k)[j][d])
        PROVE  Honest(Taken(e, k)[j][d][i], s[d], r[d])
    <2>1. CASE j = k /\ d = p
      <3>1. Taken(e, k)[j][d] = Tail(q)
        BY <1>1, <1>4, <2>1 DEF Wires
      <3>2. i + 1 \in 1..Len(q) /\ Tail(q)[i] = q[i + 1]
        BY SMT, <3>1, <1>2, <1>5
      <3> QED BY <3>1, <3>2, <2>1 DEF HonestWires
    <2>2. CASE ~(j = k /\ d = p)
      <3>1. Taken(e, k)[j][d] = wire[j][d]
        BY SMT, <1>1, <1>4, <2>2 DEF Wires
      <3> QED BY <3>1 DEF HonestWires
    <2> QED BY <2>1, <2>2
  <1> QED BY <1>2, <1>3, <1>6, <1>7 DEF HonestWires, Incoming, p

(* A buffer of the chunks after a: a cursor n confirms the first n - a.    *)
LEMMA ConfirmedPrefix ==
    ASSUME NEW buf \in Seq(Nat), NEW a \in Nat, NEW n \in Nat, a < n, n - a <= Len(buf),
           \A j \in 1..Len(buf) : buf[j] = a + j
    PROVE  Confirmed(buf, n) = n - a
  <1> DEFINE m == n - a
             Right(x) == (\A j \in 1..x : buf[j] <= n) /\ (x = Len(buf) \/ buf[x + 1] > n)
             i == Confirmed(buf, n)
  <1>1. Len(buf) \in Nat /\ m \in Nat /\ m >= 1 /\ m <= Len(buf)
    BY SMT
  <1>2. \A j \in 1..m : buf[j] <= n
    BY SMT, <1>1
  <1>3. m = Len(buf) \/ buf[m + 1] > n
    <2>1. CASE m # Len(buf)
      <3>1. m + 1 \in 1..Len(buf)
        BY SMT, <1>1, <2>1
      <3>2. buf[m + 1] = a + (m + 1)
        BY <3>1
      <3> QED BY SMT, <3>2, <1>1
    <2> QED BY <2>1
  <1>4. m \in 0..Len(buf) /\ Right(m)
    BY SMT, <1>1, <1>2, <1>3
  <1>5. i \in 0..Len(buf) /\ Right(i)
    <2> HIDE DEF m
    <2>1. \E x \in 0..Len(buf) : Right(x)
      BY <1>4
    <2>2. i = CHOOSE x \in 0..Len(buf) : Right(x)
      BY DEF Confirmed
    <2> HIDE DEF Right, i
    <2> QED BY <2>1, <2>2
  <1> HIDE DEF i
  <1>6. ASSUME i < m PROVE FALSE
    <2>1. i + 1 \in 1..Len(buf) /\ i # Len(buf)
      BY SMT, <1>1, <1>5, <1>6
    <2>2. buf[i + 1] = a + (i + 1)
      BY <2>1
    <2>3. buf[i + 1] > n
      BY <2>1, <1>5
    <2> QED BY SMT, <2>2, <2>3, <1>6, <1>5
  <1>7. ASSUME i > m PROVE FALSE
    <2>1. m + 1 \in 1..i /\ m + 1 \in 1..Len(buf)
      BY SMT, <1>1, <1>5, <1>7
    <2>2. buf[m + 1] = a + (m + 1)
      BY <2>1
    <2>3. buf[m + 1] <= n
      BY <2>1, <1>5
    <2> QED BY SMT, <2>2, <2>3, <1>1
  <1>8. i = m
    <2>1. i \in Nat /\ m \in Nat
      BY SMT, <1>1, <1>5
    <2> HIDE DEF m
    <2> QED BY SMT, <2>1, <1>6, <1>7
  <1> QED BY <1>8 DEF i

LEMMA RestOfBuffer ==
    ASSUME NEW buf \in Seq(Nat), NEW a \in Nat, NEW n \in Nat, a < n, n - a <= Len(buf),
           \A j \in 1..Len(buf) : buf[j] = a + j
    PROVE  /\ SubSeq(buf, (n - a) + 1, Len(buf)) \in Seq(Nat)
           /\ Len(SubSeq(buf, (n - a) + 1, Len(buf))) = Len(buf) - (n - a)
           /\ \A j \in 1..Len(SubSeq(buf, (n - a) + 1, Len(buf))) :
                 SubSeq(buf, (n - a) + 1, Len(buf))[j] = n + j
  <1> DEFINE m == n - a
             rest == SubSeq(buf, (n - a) + 1, Len(buf))
  <1>1. Len(buf) \in Nat /\ m \in Nat /\ m >= 1 /\ m <= Len(buf)
    BY SMT
  <1>2. rest = SubSeq(buf, m + 1, Len(buf))
    BY SMT
  <1> HIDE DEF m
  <1> DEFINE lo == m + 1
             hi == Len(buf)
  <1>3. lo \in Nat /\ hi \in Nat /\ lo >= 1 /\ hi <= Len(buf)
    BY SMT, <1>1
  <1>5. rest = SubSeq(buf, lo, hi)
    BY <1>2
  <1> HIDE DEF lo, hi, rest
  <1>6. /\ SubSeq(buf, lo, hi) \in Seq(Nat)
        /\ Len(SubSeq(buf, lo, hi)) = IF lo <= hi THEN hi - lo + 1 ELSE 0
        /\ \A i \in 1..(hi - lo + 1) : SubSeq(buf, lo, hi)[i] = buf[lo + i - 1]
    BY SMT, <1>3, Cut
  <1>7. /\ rest \in Seq(Nat)
        /\ \A i \in 1..(hi - lo + 1) : rest[i] = buf[lo + i - 1]
    BY <1>5, <1>6
  <1>8. Len(rest) = Len(buf) - m
    <2> DEFINE len == Len(rest)
               size == Len(buf)
    <2>1. len = IF lo <= hi THEN hi - lo + 1 ELSE 0
      BY <1>5, <1>6
    <2>2. lo = m + 1 /\ hi = size /\ size \in Nat /\ m \in Nat /\ m <= size
      BY <1>1 DEF lo, hi
    <2> HIDE DEF len, size
    <2>3. len = size - m
      BY SMT, <2>1, <2>2
    <2> QED BY <2>3 DEF len, size
  <1>9. ASSUME NEW j \in 1..Len(rest)
        PROVE  rest[j] = n + j
    <2>1. m + j \in 1..Len(buf) /\ j \in 1..(hi - lo + 1) /\ lo + j - 1 = m + j
      BY SMT, <1>1, <1>8 DEF lo, hi
    <2>2. rest[j] = buf[m + j]
      BY <2>1, <1>7
    <2>3. buf[m + j] = a + (m + j)
      BY <2>1
    <2> QED BY SMT, <2>2, <2>3, <1>1, <2>1 DEF m
  <1>10. Len(rest) = Len(buf) - (n - a)
    BY <1>8 DEF m
  <1> QED BY <1>7, <1>9, <1>10 DEF rest

(* Slots and frames change places.                                         *)
LEMMA SlotsBack ==
    ASSUME NEW max \in Nat, NEW len \in Nat, NEW m \in Nat, m <= len, NEW s, s \in 0..max,
           s = max - len
    PROVE  s + m \in 0..max /\ s + m = max - (len - m)
  BY SMT

(* The send buffers: exactly the unconfirmed chunks, in order.             *)
Buffers ==
    /\ acked \in [Ends -> Nat] /\ sendBuf \in [Ends -> Seq(Nat)] /\ slots \in [Ends -> 0..MaxFrames]
    /\ NothingForgotten

(* A cursor the peer really has drops the chunks up to it and no other.    *)
LEMMA AcksKeep ==
    ASSUME TypeOK, NothingForgotten, NEW e \in Ends, NEW upto \in Nat,
           upto <= recvSeq[Peer(e)], Acks(e, upto), sendSeq' = sendSeq, recvSeq' = recvSeq
    PROVE  Buffers'
  <1> DEFINE buf == sendBuf[e]
             m == upto - acked[e]
             rest == SubSeq(buf, m + 1, Len(buf))
  <1>1. CASE upto <= acked[e]
    <2>1. UNCHANGED <<acked, sendBuf, slots>>
      BY <1>1 DEF Acks
    <2> QED BY <2>1 DEF Buffers, TypeOK, NothingForgotten
  <1>2. CASE ~(upto <= acked[e])
    <2>1. /\ Peer(e) \in Ends /\ buf \in Seq(Nat) /\ acked[e] \in Nat /\ sendSeq[e] \in Nat
          /\ slots[e] \in 0..MaxFrames
      <3>1. Peer(e) \in Ends
        BY EndFacts
      <3>2. buf \in Seq(Nat) /\ acked[e] \in Nat /\ sendSeq[e] \in Nat
        BY DEF TypeOK
      <3>3. slots[e] \in 0..MaxFrames
        BY DEF TypeOK
      <3> QED BY <3>1, <3>2, <3>3
    <2>0. recvSeq[Peer(e)] \in Nat /\ Len(buf) \in Nat
      BY SMT, <2>1 DEF TypeOK
    <2>2. /\ Len(buf) = sendSeq[e] - acked[e] /\ recvSeq[Peer(e)] <= sendSeq[e]
          /\ \A j \in 1..Len(buf) : buf[j] = acked[e] + j
          /\ slots[e] = MaxFrames - Len(buf)
      BY DEF NothingForgotten
    <2>3. acked[e] < upto /\ m <= Len(buf) /\ m \in Nat
      BY SMT, <1>2, <2>0, <2>1, <2>2
    <2>4. Confirmed(buf, upto) = m
      BY <2>1, <2>2, <2>3, ConfirmedPrefix
    <2>5. /\ rest \in Seq(Nat) /\ Len(rest) = Len(buf) - m
          /\ \A j \in 1..Len(rest) : rest[j] = upto + j
      <3> DEFINE a == acked[e]
      <3>1. buf \in Seq(Nat) /\ a \in Nat /\ a < upto /\ upto - a <= Len(buf)
        BY <2>1, <2>3
      <3>2. \A j \in 1..Len(buf) : buf[j] = a + j
        BY <2>2
      <3>3. rest = SubSeq(buf, (upto - a) + 1, Len(buf)) /\ m = upto - a
        BY SMT
      <3> DEFINE sub == SubSeq(buf, (upto - a) + 1, Len(buf))
      <3> HIDE DEF a, buf, rest, m
      <3>4. /\ sub \in Seq(Nat) /\ Len(sub) = Len(buf) - (upto - a)
            /\ \A j \in 1..Len(sub) : sub[j] = upto + j
        BY <3>1, <3>2, RestOfBuffer
      <3>5. rest = sub
        BY <3>3
      <3> HIDE DEF sub
      <3> QED BY <3>3, <3>4, <3>5
    <2>6. /\ acked' = [acked EXCEPT ![e] = upto]
          /\ sendBuf' = [sendBuf EXCEPT ![e] = rest]
          /\ slots' = [slots EXCEPT ![e] = @ + m]
      BY <1>2, <2>4 DEF Acks
    <2>7. slots[e] + m \in 0..MaxFrames /\ slots[e] + m = MaxFrames - (Len(buf) - m)
      <3> DEFINE s == slots[e]
                 len == Len(buf)
      <3>1. MaxFrames \in Nat
        BY LinkAssumption
      <3>2. len \in Nat /\ m \in Nat /\ m <= len /\ s \in 0..MaxFrames /\ s = MaxFrames - len
        BY <2>0, <2>1, <2>2, <2>3
      <3> HIDE DEF s, len, m
      <3>3. s + m \in 0..MaxFrames /\ s + m = MaxFrames - (len - m)
        BY SMT, <3>1, <3>2, SlotsBack
      <3> QED BY <3>3 DEF s, len
    <2> HIDE DEF rest, m
    <2>8. /\ acked' \in [Ends -> Nat] /\ sendBuf' \in [Ends -> Seq(Nat)]
          /\ slots' \in [Ends -> 0..MaxFrames]
      BY <2>5, <2>6, <2>7 DEF TypeOK
    <2>9. ASSUME NEW d \in Ends
          PROVE  /\ acked'[d] <= recvSeq[Peer(d)] /\ recvSeq[Peer(d)] <= sendSeq[d]
                 /\ Len(sendBuf'[d]) = sendSeq[d] - acked'[d]
                 /\ \A j \in 1..Len(sendBuf'[d]) : sendBuf'[d][j] = acked'[d] + j
                 /\ slots'[d] = MaxFrames - Len(sendBuf'[d])
      <3>1. CASE d = e
        <4>1. acked'[d] = upto /\ sendBuf'[d] = rest /\ slots'[d] = slots[e] + m
          BY <2>6, <3>1 DEF TypeOK
        <4>2. Len(rest) = sendSeq[e] - upto
          BY <2>0, <2>1, <2>2, <2>3, <2>5, SMTT(60) DEF m
        <4>3. recvSeq[Peer(e)] <= sendSeq[e] /\ upto <= recvSeq[Peer(e)]
          BY <2>2
        <4> QED BY <4>1, <4>2, <4>3, <2>5, <2>7, <3>1
      <3>2. CASE d # e
        <4>1. acked'[d] = acked[d] /\ sendBuf'[d] = sendBuf[d] /\ slots'[d] = slots[d]
          BY <2>6, <3>2 DEF TypeOK
        <4> QED BY <4>1 DEF NothingForgotten
      <3> QED BY <3>1, <3>2
    <2> QED BY <2>8, <2>9 DEF Buffers, NothingForgotten
  <1> QED BY <1>1, <1>2

(* Send appends the next chunk and takes a slot. *)
LEMMA SendsKeep ==
    ASSUME Buffers, sendSeq \in [Ends -> Nat], recvSeq \in [Ends -> Nat], NEW e \in Ends,
           sendSeq' = [sendSeq EXCEPT ![e] = sendSeq[e] + 1], recvSeq' = recvSeq, acked' = acked,
           sendBuf' = [sendBuf EXCEPT ![e] = Append(sendBuf[e], sendSeq[e] + 1)],
           slots' = [slots EXCEPT ![e] = slots[e] - 1], slots[e] > 0
    PROVE  Buffers'
  <1> DEFINE buf == sendBuf[e]
             n == sendSeq[e]
             a == acked[e]
             s == slots[e]
             more == Append(buf, n + 1)
  <1>1. buf \in Seq(Nat) /\ n \in Nat /\ a \in Nat /\ s \in 0..MaxFrames /\ s > 0
    BY DEF Buffers
  <1>2. /\ a <= recvSeq[Peer(e)] /\ recvSeq[Peer(e)] <= n
        /\ Len(buf) = n - a /\ (\A i \in 1..Len(buf) : buf[i] = a + i) /\ s = MaxFrames - Len(buf)
    BY DEF Buffers, NothingForgotten
  <1>3. /\ sendSeq' = [sendSeq EXCEPT ![e] = n + 1] /\ sendBuf' = [sendBuf EXCEPT ![e] = more]
        /\ slots' = [slots EXCEPT ![e] = s - 1]
    BY SMT
  <1>4. recvSeq[Peer(e)] \in Nat /\ MaxFrames \in Nat
    BY EndFacts, LinkAssumption
  <1> HIDE DEF buf, n, a, s
  <1>5. more \in Seq(Nat) /\ Len(more) = Len(buf) + 1 /\ Len(buf) \in Nat
        /\ \A i \in 1..Len(more) : more[i] = IF i <= Len(buf) THEN buf[i] ELSE n + 1
    BY SMT, <1>1
  <1>6. Len(more) = (n + 1) - a /\ s - 1 = MaxFrames - Len(more) /\ s - 1 \in 0..MaxFrames
    <2> DEFINE len == Len(buf)
               long == Len(more)
    <2>1. /\ len \in Nat /\ long = len + 1 /\ len = n - a /\ s = MaxFrames - len
          /\ s \in Nat /\ s > 0 /\ s <= MaxFrames
      BY SMT, <1>1, <1>2, <1>4, <1>5
    <2> HIDE DEF len, long
    <2>2. long = (n + 1) - a /\ s - 1 = MaxFrames - long /\ s - 1 \in 0..MaxFrames
      BY SMT, <1>1, <1>4, <2>1
    <2> QED BY <2>2 DEF long
  <1>7. ASSUME NEW i \in 1..Len(more) PROVE more[i] = a + i
    <2>1. CASE i <= Len(buf)
      BY SMT, <2>1, <1>2, <1>5
    <2>2. CASE i > Len(buf)
      <3>1. i \in Nat /\ i <= (n + 1) - a /\ i > n - a
        BY SMT, <2>2, <1>1, <1>2, <1>5, <1>6
      <3>2. more[i] = n + 1
        BY SMT, <2>2, <1>5
      <3>3. i = (n + 1) - a
        BY SMT, <3>1, <1>1
      <3>4. n + 1 = a + i
        BY ONLY SMT, <3>1, <3>3, <1>1
      <3> QED BY <3>2, <3>4
    <2>3. i \in Nat /\ Len(buf) \in Nat
      BY SMT, <1>5
    <2> QED BY SMT, <2>1, <2>2, <2>3
  <1>8. recvSeq[Peer(e)] <= n + 1
    BY SMT, <1>1, <1>2, <1>4
  <1> HIDE DEF more
  <1>9. /\ acked' \in [Ends -> Nat] /\ sendBuf' \in [Ends -> Seq(Nat)]
        /\ slots' \in [Ends -> 0..MaxFrames]
    BY <1>3, <1>5, <1>6, SMTT(60) DEF Buffers
  <1>10. ASSUME NEW d \in Ends
         PROVE  /\ acked[d] <= recvSeq[Peer(d)] /\ recvSeq[Peer(d)] <= sendSeq'[d]
                /\ Len(sendBuf'[d]) = sendSeq'[d] - acked[d]
                /\ \A j \in 1..Len(sendBuf'[d]) : sendBuf'[d][j] = acked[d] + j
                /\ slots'[d] = MaxFrames - Len(sendBuf'[d])
    <2>1. CASE d = e
      <3>1. sendSeq'[d] = n + 1 /\ sendBuf'[d] = more /\ slots'[d] = s - 1 /\ acked[d] = a
        BY <1>3, <2>1 DEF Buffers, a
      <3> QED BY <3>1, <1>2, <1>6, <1>7, <1>8, <2>1
    <2>2. CASE d # e
      <3>1. sendSeq'[d] = sendSeq[d] /\ sendBuf'[d] = sendBuf[d] /\ slots'[d] = slots[d]
        BY <1>3, <2>2 DEF Buffers
      <3>2. /\ acked[d] <= recvSeq[Peer(d)] /\ recvSeq[Peer(d)] <= sendSeq[d]
            /\ Len(sendBuf[d]) = sendSeq[d] - acked[d]
            /\ \A j \in 1..Len(sendBuf[d]) : sendBuf[d][j] = acked[d] + j
            /\ slots[d] = MaxFrames - Len(sendBuf[d])
        BY DEF Buffers, NothingForgotten
      <3> QED BY <3>1, <3>2
    <2> QED BY <2>1, <2>2
  <1> QED BY <1>9, <1>10 DEF Buffers, NothingForgotten

-----------------------------------------------------------------------------
(* The invariant in four parts, each disturbed by few actions. *)
Counters == sendSeq \in [Ends -> Nat] /\ recvSeq \in [Ends -> Nat] /\ Buffers
Network ==
    /\ Wires(wire) /\ HonestWires(wire, sendSeq, recvSeq)
    /\ open \in [Conns -> SUBSET Ends] /\ conn \in [Ends -> Conns \cup {NoConn}]
Readers == pump \in [Ends -> [Conns -> Reader]] /\ HonestReaders
Applications ==
    /\ closed \in [Ends -> {"no", "nil", "err"}] /\ dialled \in 0..MaxConns
    /\ inbound \in [Ends -> Seq(Nat)] /\ got \in [Ends -> Seq(Nat)]
    /\ local \in {"open", "draining", "ended"}

LEMMA Parts == IInv <=> Counters /\ Network /\ Readers /\ Applications
  BY DEF IInv, TypeOK, Counters, Network, Readers, Applications, Buffers, Wires

LEMMA Assembled ==
    ASSUME Counters', Network', Readers', Applications'
    PROVE  IInv'
  BY DEF IInv, TypeOK, Counters, Network, Readers, Applications, Buffers, Wires

LEMMA KeepCounters ==
    ASSUME Counters, UNCHANGED <<sendSeq, recvSeq, acked, sendBuf, slots>>
    PROVE  Counters'
  BY DEF Counters, Buffers, NothingForgotten

LEMMA KeepNetwork ==
    ASSUME Network, UNCHANGED <<sendSeq, recvSeq, wire>>,
           open' \in [Conns -> SUBSET Ends], conn' \in [Ends -> Conns \cup {NoConn}]
    PROVE  Network'
  BY DEF Network, Wires, HonestWires

LEMMA KeepReaders ==
    ASSUME Readers, UNCHANGED <<pump, recvSeq>>
    PROVE  Readers'
  BY DEF Readers, HonestReaders

LEMMA KeepApplications ==
    ASSUME Applications, UNCHANGED <<closed, inbound, got, dialled, local>>
    PROVE  Applications'
  BY DEF Applications

(* A reader moves on, with an honest cursor. *)
LEMMA GoesOn ==
    ASSUME Readers, NEW e \in Ends, NEW k \in Conns, NEW pc, NEW seq, At(pc, seq) \in Reader,
           Goes(e, k, pc, seq), recvSeq \in [Ends -> Nat], recvSeq' \in [Ends -> Nat],
           \A d \in Ends : recvSeq[d] <= recvSeq'[d],
           pc \in {"ack", "reack", "push"} => seq <= recvSeq'[e],
           pc = "bind" /\ e = "server" => seq <= recvSeq'["client"]
    PROVE  Readers'
  <1>1. pump' = [pump EXCEPT ![e][k] = At(pc, seq)]
    BY DEF Goes
  <1>2. pump \in [Ends -> [Conns -> Reader]]
    BY DEF Readers
  <1>3. pump' \in [Ends -> [Conns -> Reader]]
    BY <1>1, <1>2
  <1>4. ASSUME NEW j \in Conns, NEW d \in Ends
        PROVE  /\ pump'[d][j].pc \in {"ack", "reack", "push"} => pump'[d][j].seq <= recvSeq'[d]
               /\ d = "server" /\ pump'[d][j].pc = "bind" => pump'[d][j].seq <= recvSeq'["client"]
    <2>1. CASE d = e /\ j = k
      <3>1. pump'[d][j] = At(pc, seq)
        BY <1>1, <1>2, <2>1
      <3>2. pump'[d][j].pc = pc /\ pump'[d][j].seq = seq
        BY SMT, <3>1 DEF At
      <3> QED BY <3>2, <2>1
    <2>2. CASE ~(d = e /\ j = k)
      <3>1. pump'[d][j] = pump[d][j]
        BY <1>1, <1>2, <2>2
      <3>2. pump[d][j].seq \in Nat
        BY <1>2 DEF Reader
      <3>3. recvSeq[d] \in Nat /\ recvSeq'[d] \in Nat /\ recvSeq[d] <= recvSeq'[d]
        BY SMT
      <3>4. recvSeq["client"] \in Nat /\ recvSeq'["client"] \in Nat
            /\ recvSeq["client"] <= recvSeq'["client"]
        BY EndFacts
      <3>5. pump[d][j].pc \in {"ack", "reack", "push"} => pump[d][j].seq <= recvSeq[d]
        BY DEF Readers, HonestReaders
      <3>6. d = "server" /\ pump[d][j].pc = "bind" => pump[d][j].seq <= recvSeq["client"]
        BY DEF Readers, HonestReaders
      <3> QED BY SMT, <3>1, <3>2, <3>3, <3>4, <3>5, <3>6
    <2> QED BY <2>1, <2>2
  <1>5. HonestReaders'
    BY <1>4, EndFacts DEF HonestReaders
  <1> QED BY <1>3, <1>5 DEF Readers

(* closeWith and dropConnLocked. *)
LEMMA DroppedType ==
    ASSUME Network, NEW e \in Ends
    PROVE  Dropped(e) \in [Conns -> SUBSET Ends]
  BY DEF Network, Dropped

LEMMA Closes ==
    ASSUME Network, Applications, NEW e \in Ends, NEW why \in {"nil", "err"}, ClosesWith(e, why)
    PROVE  /\ closed' \in [Ends -> {"no", "nil", "err"}]
           /\ open' \in [Conns -> SUBSET Ends] /\ conn' \in [Ends -> Conns \cup {NoConn}]
  <1>1. closed' \in [Ends -> {"no", "nil", "err"}]
    BY DEF Applications, ClosesWith
  <1>2. open' \in [Conns -> SUBSET Ends]
    BY DroppedType DEF Network, ClosesWith
  <1>3. conn' \in [Ends -> Conns \cup {NoConn}]
    BY DEF Network, ClosesWith
  <1> QED BY <1>1, <1>2, <1>3

(* A write by e of frames that are honest now. *)
LEMMA WritesKeep ==
    ASSUME Network, UNCHANGED <<sendSeq, recvSeq>>, NEW e \in Ends,
           NEW k \in Conns \cup {NoConn}, NEW w, Wires(w), HonestWires(w, sendSeq, recvSeq),
           NEW o \in [Conns -> SUBSET Ends], NEW frames \in Seq(Frame),
           \A i \in 1..Len(frames) : Honest(frames[i], sendSeq[e], recvSeq[e]),
           Writes(e, k, w, o, frames)
    PROVE  Network'
  <1>1. /\ Wires(wire') /\ HonestWires(wire', sendSeq, recvSeq)
        /\ open' \in [Conns -> SUBSET Ends] /\ conn' \in [Ends -> Conns \cup {NoConn}]
    BY WritesHonest DEF Network
  <1> QED BY <1>1 DEF Network, Wires, HonestWires

(* bind: every chunk it replays is one the end has sent. *)
LEMMA Binds ==
    ASSUME IInv, UNCHANGED <<sendSeq, recvSeq>>, NEW e \in Ends, NEW k \in Conns,
           NEW cursor \in Nat, cursor <= recvSeq[Peer(e)],
           NEW w, Wires(w), HonestWires(w, sendSeq, recvSeq), Bind(e, k, cursor, w)
    PROVE  Counters' /\ Network'
  <1>1. Counters /\ Network /\ TypeOK /\ NothingForgotten
    BY Parts DEF IInv
  <1>2. Buffers'
    BY <1>1, AcksKeep DEF Bind
  <1>3. Counters'
    BY <1>1, <1>2 DEF Counters
  <1> DEFINE buf == sendBuf'[e]
             frames == [i \in 1..Len(buf) |-> F("DATA", buf[i])]
             o == IF conn[e] = k THEN open ELSE Dropped(e)
  <1>4. buf \in Seq(Nat) /\ acked'[e] \in Nat /\ sendSeq[e] \in Nat /\ Len(buf) \in Nat
    BY SMT, <1>1, <1>2 DEF Buffers, Counters
  <1>5. Len(buf) = sendSeq[e] - acked'[e] /\ \A i \in 1..Len(buf) : buf[i] = acked'[e] + i
    BY <1>1, <1>2 DEF Buffers, NothingForgotten
  <1>6. o \in [Conns -> SUBSET Ends]
    BY <1>1, DroppedType DEF Network
  <1>7. Writes(e, k, w, o, frames)
    BY DEF Bind
  <1> HIDE DEF buf, o
  <1>8. \A i \in 1..Len(buf) : F("DATA", buf[i]) \in Frame
    BY SMT, <1>4 DEF F, Frame
  <1>9. frames \in Seq(Frame) /\ Len(frames) = Len(buf)
    BY SMT, <1>4, <1>8
  <1>10. ASSUME NEW i \in 1..Len(frames)
         PROVE  Honest(frames[i], sendSeq[e], recvSeq[e])
    <2>1. i \in 1..Len(buf)
      BY <1>9
    <2>2. frames[i] = F("DATA", buf[i])
      BY <2>1
    <2>3. buf[i] <= sendSeq[e]
      <3> DEFINE a == acked'[e]
                 n == sendSeq[e]
                 len == Len(buf)
      <3>1. buf[i] = a + i /\ len = n - a /\ i \in 1..len /\ a \in Nat /\ n \in Nat
        BY <2>1, <1>4, <1>5
      <3> HIDE DEF a, n, len
      <3>2. a + i <= n
        BY SMT, <3>1
      <3> QED BY <3>1, <3>2 DEF n
    <2> QED BY SMT, <2>2, <2>3 DEF Honest, F
  <1> HIDE DEF frames
  <1>11. Network'
    BY <1>1, <1>6, <1>7, <1>9, <1>10, WritesKeep
  <1> QED BY <1>3, <1>11

-----------------------------------------------------------------------------
(* One step per action.  First those that touch one part of the state. *)
LEMMA LoseStep == ASSUME IInv, NEW k \in Conns, Lose(k) PROVE IInv'
  <1>1. Counters' /\ Readers' /\ Applications'
    BY Parts, KeepCounters, KeepReaders, KeepApplications DEF Lose
  <1>2. Wires(wire) /\ HonestWires(wire, sendSeq, recvSeq) /\ open \in [Conns -> SUBSET Ends]
        /\ conn \in [Ends -> Conns \cup {NoConn}]
    BY Parts DEF Network
  <1>3. open' \in [Conns -> SUBSET Ends] /\ conn' = conn
    BY <1>2 DEF Lose
  <1>4. PICK m \in 0..Len(wire[k]["client"]), n \in 0..Len(wire[k]["server"]) :
           wire' = [wire EXCEPT ![k] = [e \in Ends |->
                      SubSeq(wire[k][e], 1, IF e = "client" THEN m ELSE n)]]
    BY <1>2 DEF Lose, Wires
  <1>5. ASSUME NEW j \in Conns, NEW e \in Ends
        PROVE  /\ wire'[j][e] \in Seq(Frame) /\ Len(wire'[j][e]) <= Len(wire[j][e])
               /\ \A i \in 1..Len(wire'[j][e]) : wire'[j][e][i] = wire[j][e][i]
    <2>1. wire[j][e] \in Seq(Frame)
      BY <1>2 DEF Wires
    <2>2. CASE j # k
      <3>1. wire'[j][e] = wire[j][e]
        BY <1>2, <1>4, <2>2 DEF Wires
      <3> QED BY SMT, <2>1, <3>1
    <2>3. CASE j = k
      <3> DEFINE c == IF e = "client" THEN m ELSE n
                 q == wire[j][e]
      <3>1. wire'[j][e] = SubSeq(q, 1, c)
        BY <1>2, <1>4, <2>3 DEF Wires
      <3>2. c \in 0..Len(q)
        BY <2>3 DEF Ends
      <3>3. q \in Seq(Frame)
        BY <2>1
      <3> HIDE DEF c, q
      <3>4. /\ SubSeq(q, 1, c) \in Seq(Frame) /\ Len(SubSeq(q, 1, c)) = c
            /\ \A i \in 1..c : SubSeq(q, 1, c)[i] = q[i]
        BY SMT, <3>2, <3>3
      <3>5. c <= Len(q)
        BY SMT, <3>2, <3>3
      <3> QED BY <3>1, <3>4, <3>5 DEF q
    <2> QED BY <2>2, <2>3
  <1>6. wire' \in [Conns -> [Ends -> Seq(Frame)]]
    <2> DEFINE cut == [e \in Ends |-> SubSeq(wire[k][e], 1, IF e = "client" THEN m ELSE n)]
    <2>1. wire' = [wire EXCEPT ![k] = cut]
      BY <1>4
    <2>2. ASSUME NEW e \in Ends PROVE cut[e] \in Seq(Frame)
      <3>1. wire'[k][e] = cut[e]
        BY <1>2, <1>4 DEF Wires
      <3> QED BY <3>1, <1>5
    <2>3. cut \in [Ends -> Seq(Frame)]
      BY <2>2
    <2> HIDE DEF cut
    <2> QED BY <2>1, <2>3, <1>2 DEF Wires
  <1>7. ASSUME NEW j \in Conns, NEW e \in Ends, NEW i \in 1..Len(wire'[j][e])
        PROVE  Honest(wire'[j][e][i], sendSeq[e], recvSeq[e])
    <2>1. i \in 1..Len(wire[j][e]) /\ wire'[j][e][i] = wire[j][e][i]
      BY SMT, <1>2, <1>5 DEF Wires
    <2> QED BY <2>1, <1>2 DEF HonestWires
  <1>8. Network'
    BY <1>2, <1>3, <1>6, <1>7 DEF Network, Wires, HonestWires, Lose
  <1> QED BY <1>1, <1>8, Assembled

LEMMA ConsumeStep == ASSUME IInv, NEW e \in Ends, Consume(e) PROVE IInv'
  <1>1. Counters' /\ Readers' /\ Network'
    BY Parts, KeepCounters, KeepReaders, KeepNetwork DEF Consume, Network
  <1>2. Applications
    BY Parts
  <1> DEFINE q == inbound[e]
  <1>3. q \in Seq(Nat) /\ got[e] \in Seq(Nat) /\ q # <<>>
    BY <1>2 DEF Applications, Consume
  <1>4. Head(q) \in Nat /\ Tail(q) \in Seq(Nat)
    BY SMT, <1>3
  <1>5. Append(got[e], Head(q)) \in Seq(Nat)
    BY SMT, <1>3, <1>4
  <1>6. got' = [got EXCEPT ![e] = Append(got[e], Head(q))] /\ inbound' = [inbound EXCEPT ![e] = Tail(q)]
    BY <1>2 DEF Applications, Consume
  <1> DEFINE rest == Tail(q)
             more == Append(got[e], Head(q))
  <1>7. /\ rest \in Seq(Nat) /\ more \in Seq(Nat)
        /\ got' = [got EXCEPT ![e] = more] /\ inbound' = [inbound EXCEPT ![e] = rest]
    BY <1>4, <1>5, <1>6
  <1> HIDE DEF q, rest, more
  <1>8. /\ got \in [Ends -> Seq(Nat)] /\ inbound \in [Ends -> Seq(Nat)]
        /\ closed \in [Ends -> {"no", "nil", "err"}] /\ dialled \in 0..MaxConns
        /\ local \in {"open", "draining", "ended"}
    BY <1>2 DEF Applications
  <1>9. got' \in [Ends -> Seq(Nat)] /\ inbound' \in [Ends -> Seq(Nat)]
    BY ONLY SMT, Zenon, <1>7, <1>8, e \in Ends
  <1>10. closed' = closed /\ dialled' = dialled /\ local' = local
    BY DEF Consume
  <1>11. Applications'
    BY <1>8, <1>9, <1>10 DEF Applications
  <1> QED BY <1>1, <1>11, Assembled

LEMMA LocalEndsStep == ASSUME IInv, LocalEnds PROVE IInv'
  <1>1. Counters' /\ Readers' /\ Network'
    BY Parts, KeepCounters, KeepReaders, KeepNetwork DEF LocalEnds, Network
  <1>2. Applications'
    BY Parts DEF Applications, LocalEnds
  <1> QED BY <1>1, <1>2, Assembled

LEMMA DetachStep == ASSUME IInv, Detach PROVE IInv'
  <1>1. Counters' /\ Readers' /\ Applications'
    BY Parts, KeepCounters, KeepReaders, KeepApplications DEF Detach
  <1>2. Network
    BY Parts
  <1>3. open' \in [Conns -> SUBSET Ends]
    BY <1>2, DroppedType, EndFacts DEF Detach
  <1>4. conn' \in [Ends -> Conns \cup {NoConn}]
    BY <1>2 DEF Detach, Network
  <1>5. Network'
    BY <1>2, <1>3, <1>4, KeepNetwork DEF Detach
  <1> QED BY <1>1, <1>5, Assembled

(* An end that closes and does nothing else. *)
LEMMA JustCloses ==
    ASSUME IInv, NEW e \in Ends, NEW why \in {"nil", "err"}, ClosesWith(e, why), Readers',
           UNCHANGED <<sendSeq, acked, sendBuf, slots, recvSeq, inbound, got, wire, dialled>>,
           local' \in {"open", "draining", "ended"}
    PROVE  IInv'
  <1>1. Counters'
    BY Parts, KeepCounters
  <1>2. /\ closed' \in [Ends -> {"no", "nil", "err"}]
        /\ open' \in [Conns -> SUBSET Ends] /\ conn' \in [Ends -> Conns \cup {NoConn}]
    BY Parts, Closes
  <1>3. Network'
    BY <1>2, Parts, KeepNetwork
  <1>4. Applications'
    BY <1>2, Parts DEF Applications
  <1> QED BY <1>1, <1>3, <1>4, Assembled

LEMMA SendOverflowStep == ASSUME IInv, NEW e \in Ends, SendOverflow(e) PROVE IInv'
  <1>1. Readers' /\ local' \in {"open", "draining", "ended"}
    BY Parts, KeepReaders DEF SendOverflow, Applications
  <1> QED BY <1>1, JustCloses DEF SendOverflow

LEMMA CancelledStep == ASSUME IInv, Cancelled PROVE IInv'
  <1>1. Readers' /\ local' \in {"open", "draining", "ended"}
    BY Parts, KeepReaders DEF Cancelled, Applications
  <1> QED BY <1>1, JustCloses, EndFacts DEF Cancelled

LEMMA RemovedStep == ASSUME IInv, Removed PROVE IInv'
  <1>1. Readers' /\ local' \in {"open", "draining", "ended"}
    BY Parts, KeepReaders DEF Removed, Applications
  <1> QED BY <1>1, JustCloses, EndFacts DEF Removed

LEMMA ClientRejectedStep == ASSUME IInv, NEW k \in Conns, ClientRejected(k) PROVE IInv'
  <1>1. At("done", 0) \in Reader
    BY DEF At, Reader
  <1>2. Counters /\ recvSeq' = recvSeq /\ recvSeq \in [Ends -> Nat]
    BY Parts DEF ClientRejected, Counters
  <1>3. Readers'
    BY SMT, <1>1, <1>2, Parts, EndFacts, GoesOn DEF ClientRejected
  <1>4. local' \in {"open", "draining", "ended"}
    BY Parts DEF ClientRejected, Applications
  <1> QED BY <1>3, <1>4, JustCloses, EndFacts DEF ClientRejected

(* sendClose. *)
LEMMA ClosesStep ==
    ASSUME IInv, NEW e \in Ends, SendsClose(e),
           UNCHANGED <<sendSeq, acked, sendBuf, slots, recvSeq, inbound, got, pump, dialled>>,
           local' \in {"open", "draining", "ended"}
    PROVE  IInv'
  <1>1. Counters' /\ Readers'
    BY Parts, KeepCounters, KeepReaders
  <1>2. Network /\ Applications
    BY Parts
  <1>3. Applications'
    BY <1>2 DEF Applications, SendsClose
  <1>4. open' \in [Conns -> SUBSET Ends] /\ conn' \in [Ends -> Conns \cup {NoConn}]
    BY <1>2, DroppedType DEF SendsClose, Network
  <1> DEFINE k == conn[e]
             bye == <<F("CLOSE", 0)>>
  <1>5. CASE wire' = wire
    BY <1>1, <1>2, <1>3, <1>4, <1>5, KeepNetwork, Assembled
  <1>6. CASE k # NoConn /\ wire' = [wire EXCEPT ![k][e] = @ \o bye]
    <2>1. k \in Conns
      BY <1>2, <1>6 DEF Network
    <2>2. F("CLOSE", 0) \in Frame /\ Honest(F("CLOSE", 0), sendSeq[e], recvSeq[e])
      BY DEF F, Frame, Honest
    <2>3. bye \in Seq(Frame) /\ \A i \in 1..Len(bye) : Honest(bye[i], sendSeq[e], recvSeq[e])
      BY SMT, <2>2
    <2> HIDE DEF bye, k
    <2>6. Wires(wire') /\ HonestWires(wire', sendSeq, recvSeq)
      BY <1>2, <1>6, <2>1, <2>3, AppendHonest DEF Network
    <2>7. Network'
      BY <1>4, <2>6 DEF Network, Wires, HonestWires
    <2> QED BY <1>1, <1>3, <2>7, Assembled
  <1> QED BY <1>5, <1>6 DEF SendsClose

LEMMA BackendEndsStep == ASSUME IInv, BackendEnds PROVE IInv'
  <1>1. local' \in {"open", "draining", "ended"}
    BY Parts DEF BackendEnds, Applications
  <1> QED BY <1>1, ClosesStep, EndFacts DEF BackendEnds

LEMMA AwaitDrainStep == ASSUME IInv, AwaitDrain PROVE IInv'
  <1>1. local' \in {"open", "draining", "ended"} /\ Readers'
    BY Parts, KeepReaders DEF AwaitDrain
  <1>2. CASE SendsClose("client")
    BY <1>1, <1>2, ClosesStep, EndFacts DEF AwaitDrain
  <1>3. CASE ClosesWith("client", "err") /\ UNCHANGED wire
    BY <1>1, <1>3, JustCloses, EndFacts DEF AwaitDrain
  <1> QED BY <1>2, <1>3 DEF AwaitDrain

-----------------------------------------------------------------------------
(* The actions that send, and those of the handshake. *)
LEMMA SendStep == ASSUME IInv, NEW e \in Ends, Send(e) PROVE IInv'
  <1> DEFINE n == sendSeq[e] + 1
             frames == <<F("DATA", n)>>
  <1>1. Counters /\ Network /\ Readers /\ Applications
    BY Parts
  <1>2. Readers' /\ Applications'
    BY <1>1, KeepReaders, KeepApplications DEF Send
  <1>3. /\ n \in Nat /\ sendSeq[e] \in Nat /\ acked[e] \in Nat /\ sendBuf[e] \in Seq(Nat)
        /\ Len(sendBuf[e]) \in Nat
    BY SMT, <1>1 DEF Counters, Buffers
  <1>4. /\ sendSeq' = [sendSeq EXCEPT ![e] = n] /\ recvSeq' = recvSeq /\ acked' = acked
        /\ sendBuf' = [sendBuf EXCEPT ![e] = Append(sendBuf[e], n)]
        /\ slots' = [slots EXCEPT ![e] = slots[e] - 1] /\ slots[e] > 0
    BY <1>1 DEF Send, Counters, Buffers
  <1>5. sendSeq' \in [Ends -> Nat] /\ \A d \in Ends : sendSeq[d] <= sendSeq'[d]
    BY SMT, <1>1, <1>3, <1>4 DEF Counters
  <1>6. Writes(e, conn[e], wire, open, frames)
    BY DEF Send
  <1> HIDE DEF n
  <1>7. F("DATA", n) \in Frame /\ Honest(F("DATA", n), sendSeq'[e], recvSeq[e])
    <2>1. sendSeq'[e] = n
      BY <1>1, <1>4 DEF Counters
    <2> QED BY SMT, <2>1, <1>3 DEF F, Frame, Honest
  <1>8. frames \in Seq(Frame) /\ \A i \in 1..Len(frames) : Honest(frames[i], sendSeq'[e], recvSeq[e])
    BY SMT, <1>7
  <1> HIDE DEF frames
  <1>9. HonestWires(wire, sendSeq', recvSeq)
    BY SMT, <1>1, <1>5, StillHonest DEF Network, Counters
  <1>10. /\ Wires(wire') /\ HonestWires(wire', sendSeq', recvSeq)
         /\ open' \in [Conns -> SUBSET Ends] /\ conn' \in [Ends -> Conns \cup {NoConn}]
    <2> DEFINE s == sendSeq'
    <2>1. HonestWires(wire, s, recvSeq) /\ \A i \in 1..Len(frames) : Honest(frames[i], s[e], recvSeq[e])
      BY <1>8, <1>9
    <2>2. conn[e] \in Conns \cup {NoConn} /\ Network
      BY <1>1 DEF Network
    <2> HIDE DEF s
    <2>3. /\ Wires(wire') /\ HonestWires(wire', s, recvSeq)
          /\ open' \in [Conns -> SUBSET Ends] /\ conn' \in [Ends -> Conns \cup {NoConn}]
      BY <1>6, <1>8, <2>1, <2>2, WritesHonest DEF Network
    <2> QED BY <2>3 DEF s
  <1>11. Network'
    BY <1>4, <1>10 DEF Network, Wires, HonestWires
  <1>12. Counters'
    BY <1>1, <1>3, <1>4, <1>5, SendsKeep DEF Counters, n
  <1> QED BY <1>2, <1>11, <1>12, Assembled

LEMMA DialStep == ASSUME IInv, Dial PROVE IInv'
  <1> DEFINE k == dialled + 1
             hello == <<F("ATTACH", recvSeq["client"])>>
  <1>1. Counters /\ Network /\ Readers /\ Applications /\ Counters'
    BY Parts, KeepCounters DEF Dial
  <1>2. k \in Conns /\ recvSeq["client"] \in Nat
    BY <1>1, EndFacts DEF Dial, Counters
  <1>3. Applications'
    BY SMT, <1>1, <1>2 DEF Applications, Dial, Conns
  <1>4. /\ wire' = [wire EXCEPT ![k]["client"] = hello] /\ open' = [open EXCEPT ![k] = Ends]
        /\ pump' = [e \in Ends |-> [pump[e] EXCEPT ![k] = At("attach", 0)]]
        /\ UNCHANGED <<recvSeq, sendSeq, conn>>
    BY DEF Dial
  <1> HIDE DEF k
  <1>5. At("attach", 0) \in Reader
    BY DEF At, Reader
  <1>6. Readers'
    <2>1. pump' \in [Ends -> [Conns -> Reader]]
      BY <1>1, <1>2, <1>4, <1>5 DEF Readers
    <2>2. ASSUME NEW e \in Ends, NEW j \in Conns
          PROVE  pump'[e][j] = IF j = k THEN At("attach", 0) ELSE pump[e][j]
      BY <1>1, <1>2, <1>4 DEF Readers
    <2>3. HonestReaders'
      BY <1>1, <1>4, <2>2, EndFacts DEF Readers, HonestReaders, At
    <2> QED BY <2>1, <2>3 DEF Readers
  <1>7. F("ATTACH", recvSeq["client"]) \in Frame
        /\ Honest(F("ATTACH", recvSeq["client"]), sendSeq["client"], recvSeq["client"])
    BY SMT, <1>2 DEF F, Frame, Honest
  <1>8. hello \in Seq(Frame)
        /\ \A i \in 1..Len(hello) : Honest(hello[i], sendSeq["client"], recvSeq["client"])
    BY SMT, <1>7
  <1> HIDE DEF hello
  <1>9. wire' \in [Conns -> [Ends -> Seq(Frame)]] /\ open' \in [Conns -> SUBSET Ends]
    BY <1>1, <1>2, <1>4, <1>8 DEF Network, Wires
  <1>10. ASSUME NEW j \in Conns, NEW e \in Ends, NEW i \in 1..Len(wire'[j][e])
         PROVE  Honest(wire'[j][e][i], sendSeq[e], recvSeq[e])
    <2>1. CASE j = k /\ e = "client"
      <3>1. wire'[j][e] = hello
        BY <1>1, <1>2, <1>4, <2>1 DEF Network, Wires
      <3> QED BY <3>1, <1>8, <2>1
    <2>2. CASE ~(j = k /\ e = "client")
      <3>1. wire'[j][e] = wire[j][e]
        BY <1>1, <1>2, <1>4, <2>2 DEF Network, Wires
      <3> QED BY <3>1, <1>1 DEF Network, HonestWires
    <2> QED BY <2>1, <2>2
  <1>11. Network'
    BY <1>1, <1>4, <1>9, <1>10 DEF Network, Wires, HonestWires
  <1> QED BY <1>1, <1>3, <1>6, <1>11, Assembled

(* What a reader finds at the head of its connection. *)
LEMMA NextFrame ==
    ASSUME IInv, NEW e \in Ends, NEW k \in Conns, NEW typ, Has(e, k, typ)
    PROVE  /\ Wires(Taken(e, k)) /\ HonestWires(Taken(e, k), sendSeq, recvSeq)
           /\ Head(Incoming(e, k)).seq \in Nat
           /\ typ = "DATA" => Head(Incoming(e, k)).seq <= sendSeq[Peer(e)]
           /\ typ \in {"ATTACH", "ATTACH_OK", "ACK"} => Head(Incoming(e, k)).seq <= recvSeq[Peer(e)]
  <1>1. Network /\ Incoming(e, k) # <<>> /\ Head(Incoming(e, k)).typ = typ
    BY Parts DEF Has
  <1>2. /\ Wires(Taken(e, k)) /\ HonestWires(Taken(e, k), sendSeq, recvSeq)
        /\ Head(Incoming(e, k)) \in Frame
        /\ Honest(Head(Incoming(e, k)), sendSeq[Peer(e)], recvSeq[Peer(e)])
    BY <1>1, TakenHonest DEF Network
  <1>3. Head(Incoming(e, k)).seq \in Nat
    BY <1>2 DEF Frame
  <1> QED BY <1>1, <1>2, <1>3 DEF Honest

LEMMA ServerAttachStep == ASSUME IInv, NEW k \in Conns, ServerAttach(k) PROVE IInv'
  <1> DEFINE w == Taken("server", k)
             seq == Head(Incoming("server", k)).seq
  <1>1. Counters /\ Network /\ Readers /\ Applications /\ Counters' /\ Applications'
    BY Parts, KeepCounters, KeepApplications DEF ServerAttach
  <1>2. /\ Wires(w) /\ HonestWires(w, sendSeq, recvSeq) /\ seq \in Nat /\ seq <= recvSeq["client"]
        /\ "server" \in Ends /\ recvSeq["server"] \in Nat
    <2>1. Peer("server") = "client" /\ "server" \in Ends /\ Has("server", k, "ATTACH")
      BY EndFacts DEF Peer, ServerAttach
    <2>2. recvSeq["server"] \in Nat
      BY <1>1, <2>1 DEF Counters
    <2> QED BY <2>1, <2>2, NextFrame
  <1>3. PICK found \in BOOLEAN : Answers(k, found)
    BY DEF ServerAttach
  <1> DEFINE answer == IF found THEN F("ATTACH_OK", recvSeq["server"]) ELSE F("ERROR", 0)
             frames == <<answer>>
  <1>4. answer \in Frame /\ Honest(answer, sendSeq["server"], recvSeq["server"])
    BY SMT, <1>2 DEF F, Frame, Honest
  <1>5. wire' = w \/ wire' = [w EXCEPT ![k]["server"] = @ \o frames]
    BY <1>3 DEF Answers
  <1>6. open' \in [Conns -> SUBSET Ends]
    BY <1>1, <1>3 DEF Answers, Network
  <1>7. Goes("server", k, IF found THEN "bind" ELSE "done", seq)
    BY <1>3 DEF Answers
  <1>8. UNCHANGED <<sendSeq, recvSeq, conn>>
    BY DEF ServerAttach
  <1> HIDE DEF w, seq, answer
  <1>9. frames \in Seq(Frame) /\ \A i \in 1..Len(frames) : Honest(frames[i], sendSeq["server"], recvSeq["server"])
    BY SMT, <1>4
  <1> HIDE DEF frames
  <1>10. Wires(wire') /\ HonestWires(wire', sendSeq, recvSeq)
    BY <1>2, <1>5, <1>9, AppendHonest
  <1>11. Network'
    BY <1>1, <1>6, <1>8, <1>10 DEF Network, Wires, HonestWires
  <1>12. Readers'
    <2>1. At(IF found THEN "bind" ELSE "done", seq) \in Reader
      BY <1>2 DEF At, Reader
    <2>2. recvSeq \in [Ends -> Nat] /\ recvSeq' = recvSeq
      BY <1>1, <1>8 DEF Counters
    <2> QED BY SMT, <1>1, <1>2, <1>7, <2>1, <2>2, GoesOn
  <1> QED BY <1>1, <1>11, <1>12, Assembled

LEMMA ServerBindStep == ASSUME IInv, NEW k \in Conns, ServerBind(k) PROVE IInv'
  <1>1. Counters /\ Network /\ Readers /\ Applications'
    BY Parts, KeepApplications DEF ServerBind
  <1>2. /\ "server" \in Ends /\ Peer("server") = "client"
        /\ recvSeq \in [Ends -> Nat] /\ UNCHANGED <<sendSeq, recvSeq>>
    BY <1>1, EndFacts DEF Peer, Counters, ServerBind
  <1>3. pump["server"][k].seq \in Nat /\ pump["server"][k].seq <= recvSeq["client"]
    BY <1>1, <1>2 DEF Readers, HonestReaders, Reader, ServerBind
  <1>4. Counters' /\ Network'
    BY <1>1, <1>2, <1>3, Binds DEF ServerBind, Network
  <1>5. At("read", 0) \in Reader
    BY DEF At, Reader
  <1>6. Readers'
    BY SMT, <1>1, <1>2, <1>5, GoesOn DEF ServerBind
  <1> QED BY <1>1, <1>4, <1>6, Assembled

LEMMA ClientBindStep == ASSUME IInv, NEW k \in Conns, ClientBind(k) PROVE IInv'
  <1>1. Counters /\ Network /\ Readers /\ Applications'
    BY Parts, KeepApplications DEF ClientBind
  <1>2. /\ "client" \in Ends /\ Peer("client") = "server" /\ Has("client", k, "ATTACH_OK")
        /\ recvSeq \in [Ends -> Nat] /\ UNCHANGED <<sendSeq, recvSeq>>
    BY <1>1, EndFacts DEF Peer, Counters, ClientBind
  <1>3. /\ Wires(Taken("client", k)) /\ HonestWires(Taken("client", k), sendSeq, recvSeq)
        /\ Head(Incoming("client", k)).seq \in Nat
        /\ Head(Incoming("client", k)).seq <= recvSeq[Peer("client")]
    BY <1>2, NextFrame
  <1>4. Counters' /\ Network'
    BY <1>2, <1>3, Binds DEF ClientBind
  <1>5. At("read", 0) \in Reader
    BY DEF At, Reader
  <1>6. Readers'
    BY SMT, <1>1, <1>2, <1>5, GoesOn DEF ClientBind
  <1> QED BY <1>1, <1>4, <1>6, Assembled

-----------------------------------------------------------------------------
(* The reader. *)
LEMMA PumpDataStep == ASSUME IInv, NEW e \in Ends, NEW k \in Conns, PumpData(e, k) PROVE IInv'
  <1> DEFINE n == Head(Incoming(e, k)).seq
             fresh == n = recvSeq[e] + 1
             r == IF fresh THEN n ELSE recvSeq[e]
  <1>1. Counters /\ Network /\ Readers /\ Applications'
    BY Parts, KeepApplications DEF PumpData
  <1>2. /\ Wires(Taken(e, k)) /\ HonestWires(Taken(e, k), sendSeq, recvSeq)
        /\ n \in Nat /\ n <= sendSeq[Peer(e)]
    BY NextFrame DEF PumpData, Reads
  <1>3. /\ recvSeq[e] \in Nat /\ recvSeq \in [Ends -> Nat] /\ sendSeq \in [Ends -> Nat]
        /\ Peer(e) \in Ends /\ sendSeq[Peer(e)] \in Nat /\ Peer(Peer(e)) = e
    BY <1>1, EndFacts DEF Counters
  <1>4. recvSeq[e] <= sendSeq[Peer(e)]
    BY <1>1, <1>3 DEF Counters, Buffers, NothingForgotten
  <1>5. r \in Nat /\ recvSeq[e] <= r /\ r <= sendSeq[Peer(e)]
    BY SMT, <1>2, <1>3, <1>4
  <1>6. /\ wire' = Taken(e, k) /\ recvSeq' = [recvSeq EXCEPT ![e] = r]
        /\ Goes(e, k, IF fresh THEN "ack" ELSE "reack", r)
        /\ UNCHANGED <<sendSeq, acked, sendBuf, slots, conn, open>>
    BY <1>3 DEF PumpData
  <1> HIDE DEF r, fresh
  <1>7. recvSeq' \in [Ends -> Nat] /\ recvSeq'[e] = r /\ \A d \in Ends : recvSeq[d] <= recvSeq'[d]
    BY SMT, <1>3, <1>5, <1>6
  <1>8. Counters'
    <2>1. ASSUME NEW d \in Ends
          PROVE  acked[d] <= recvSeq'[Peer(d)] /\ recvSeq'[Peer(d)] <= sendSeq[d]
      <3>1. acked[d] \in Nat /\ Peer(d) \in Ends /\ recvSeq[Peer(d)] \in Nat /\ sendSeq[d] \in Nat
        BY <1>1, EndFacts DEF Counters, Buffers
      <3>2. acked[d] <= recvSeq[Peer(d)] /\ recvSeq[Peer(d)] <= sendSeq[d]
        BY <1>1 DEF Counters, Buffers, NothingForgotten
      <3>3. CASE Peer(d) = e
        <4>1. d = Peer(e)
          BY <3>3, EndFacts
        <4> QED BY SMT, <4>1, <3>1, <3>2, <3>3, <1>3, <1>5, <1>7
      <3>4. CASE Peer(d) # e
        <4>1. recvSeq'[Peer(d)] = recvSeq[Peer(d)]
          BY <3>1, <3>4, <1>3, <1>6
        <4> QED BY <4>1, <3>2
      <3> QED BY <3>3, <3>4
    <2> QED BY <2>1, <1>1, <1>6, <1>7 DEF Counters, Buffers, NothingForgotten
  <1>9. Network'
    <2>1. HonestWires(Taken(e, k), sendSeq, recvSeq')
      BY SMT, <1>2, <1>3, <1>7, StillHonest
    <2> QED BY <2>1, <1>1, <1>2, <1>6 DEF Network, Wires, HonestWires
  <1>10. At(IF fresh THEN "ack" ELSE "reack", r) \in Reader
    BY <1>5 DEF At, Reader
  <1>11. Readers'
    <2>1. (IF fresh THEN "ack" ELSE "reack") # "bind" /\ r <= recvSeq'[e]
      BY SMT, <1>5, <1>7
    <2> QED BY <2>1, <1>1, <1>3, <1>6, <1>7, <1>10, GoesOn
  <1> QED BY <1>1, <1>8, <1>9, <1>11, Assembled

LEMMA PumpAckStep == ASSUME IInv, NEW e \in Ends, NEW k \in Conns, PumpAck(e, k) PROVE IInv'
  <1> DEFINE n == pump[e][k].seq
             frames == <<F("ACK", n)>>
             pc == IF pump[e][k].pc = "ack" THEN "push" ELSE "read"
  <1>1. Counters /\ Network /\ Readers /\ Applications' /\ Counters'
    BY Parts, KeepCounters, KeepApplications DEF PumpAck
  <1>2. n \in Nat /\ n <= recvSeq[e] /\ recvSeq \in [Ends -> Nat] /\ UNCHANGED <<sendSeq, recvSeq>>
    BY <1>1 DEF Readers, HonestReaders, Reader, PumpAck, Counters
  <1>3. Writes(e, conn[e], wire, open, frames) /\ Goes(e, k, pc, n)
    BY DEF PumpAck
  <1>4. At(pc, n) \in Reader
    BY <1>2 DEF At, Reader
  <1>5. pc # "bind"
    BY SMT
  <1> HIDE DEF n, pc
  <1>6. F("ACK", n) \in Frame /\ Honest(F("ACK", n), sendSeq[e], recvSeq[e])
    BY <1>2 DEF F, Frame, Honest
  <1>7. frames \in Seq(Frame) /\ \A i \in 1..Len(frames) : Honest(frames[i], sendSeq[e], recvSeq[e])
    BY SMT, <1>6
  <1> HIDE DEF frames
  <1>8. Network'
    BY <1>1, <1>2, <1>3, <1>7, WritesKeep DEF Network
  <1>9. Readers'
    BY SMT, <1>1, <1>2, <1>3, <1>4, <1>5, GoesOn
  <1> QED BY <1>1, <1>8, <1>9, Assembled

LEMMA PumpPushStep == ASSUME IInv, NEW e \in Ends, NEW k \in Conns, PumpPush(e, k) PROVE IInv'
  <1>1. Counters /\ Network /\ Readers /\ Applications /\ Counters' /\ Network'
    BY Parts, KeepCounters, KeepNetwork DEF PumpPush, Network
  <1>2. recvSeq \in [Ends -> Nat] /\ recvSeq' = recvSeq
    BY <1>1 DEF PumpPush, Counters
  <1>3. pump[e][k].seq \in Nat
    BY <1>1 DEF Readers, Reader
  <1>4. At("read", 0) \in Reader /\ At("done", 0) \in Reader
    BY DEF At, Reader
  <1>5. Readers'
    <2>1. CASE Goes(e, k, "read", 0)
      BY SMT, <2>1, <1>1, <1>2, <1>4, GoesOn
    <2>2. CASE Goes(e, k, "done", 0)
      BY SMT, <2>2, <1>1, <1>2, <1>4, GoesOn
    <2> QED BY <2>1, <2>2 DEF PumpPush
  <1>6. inbound' \in [Ends -> Seq(Nat)]
    <2>1. inbound \in [Ends -> Seq(Nat)] /\ Append(inbound[e], pump[e][k].seq) \in Seq(Nat)
      BY SMT, <1>1, <1>3 DEF Applications
    <2> QED BY <2>1 DEF PumpPush
  <1>7. Applications'
    BY <1>1, <1>6 DEF Applications, PumpPush
  <1> QED BY <1>1, <1>5, <1>7, Assembled

LEMMA PumpAckedStep == ASSUME IInv, NEW e \in Ends, NEW k \in Conns, PumpAcked(e, k) PROVE IInv'
  <1>1. Counters /\ Network /\ Readers' /\ Applications' /\ TypeOK /\ NothingForgotten
    BY Parts, KeepReaders, KeepApplications DEF PumpAcked, IInv
  <1>2. /\ Wires(Taken(e, k)) /\ HonestWires(Taken(e, k), sendSeq, recvSeq)
        /\ Head(Incoming(e, k)).seq \in Nat /\ Head(Incoming(e, k)).seq <= recvSeq[Peer(e)]
    BY NextFrame DEF PumpAcked, Reads
  <1>3. Buffers'
    BY <1>1, <1>2, AcksKeep DEF PumpAcked
  <1>4. Counters'
    BY <1>1, <1>3 DEF Counters, PumpAcked
  <1>5. Network'
    BY <1>1, <1>2 DEF Network, Wires, HonestWires, PumpAcked
  <1> QED BY <1>1, <1>4, <1>5, Assembled

LEMMA PumpCloseStep == ASSUME IInv, NEW e \in Ends, NEW k \in Conns, PumpClose(e, k) PROVE IInv'
  <1>1. Counters /\ Network /\ Readers /\ Applications /\ Counters'
    BY Parts, KeepCounters DEF PumpClose
  <1>2. Wires(Taken(e, k)) /\ HonestWires(Taken(e, k), sendSeq, recvSeq)
    BY NextFrame DEF PumpClose, Reads
  <1>3. /\ closed' \in [Ends -> {"no", "nil", "err"}]
        /\ open' \in [Conns -> SUBSET Ends] /\ conn' \in [Ends -> Conns \cup {NoConn}]
    BY <1>1, Closes DEF PumpClose
  <1>4. Network'
    BY <1>1, <1>2, <1>3 DEF Network, Wires, HonestWires, PumpClose
  <1>5. Applications'
    BY <1>1, <1>3 DEF Applications, PumpClose
  <1>6. At("done", 0) \in Reader /\ recvSeq \in [Ends -> Nat] /\ recvSeq' = recvSeq
    BY <1>1 DEF At, Reader, Counters, PumpClose
  <1>7. Readers'
    BY SMT, <1>1, <1>6, GoesOn DEF PumpClose
  <1> QED BY <1>1, <1>4, <1>5, <1>7, Assembled

LEMMA PumpReturnsStep == ASSUME IInv, NEW e \in Ends, NEW k \in Conns, PumpReturns(e, k) PROVE IInv'
  <1>1. Counters /\ Network /\ Readers /\ Applications' /\ Counters'
    BY Parts, KeepCounters, KeepApplications DEF PumpReturns
  <1>2. open' \in [Conns -> SUBSET Ends]
    BY <1>1 DEF Network, PumpReturns
  <1>3. Network'
    BY <1>1, <1>2, KeepNetwork DEF Network, PumpReturns
  <1>4. At("done", 0) \in Reader /\ recvSeq \in [Ends -> Nat] /\ recvSeq' = recvSeq
    BY <1>1 DEF At, Reader, Counters, PumpReturns
  <1>5. Readers'
    BY SMT, <1>1, <1>4, GoesOn DEF PumpReturns
  <1> QED BY <1>1, <1>3, <1>5, Assembled

-----------------------------------------------------------------------------
LEMMA NextIInv == IInv /\ [Next]_vars => IInv'
  <1> SUFFICES ASSUME IInv, [Next]_vars PROVE IInv'
    BY SMT
  <1>1. CASE UNCHANGED vars
    <2>1. Counters' /\ Network' /\ Readers' /\ Applications'
      BY <1>1, Parts, KeepCounters, KeepNetwork, KeepReaders, KeepApplications DEF vars, Network
    <2> QED BY <2>1, Assembled
  <1>2. CASE Dial \/ LocalEnds \/ AwaitDrain \/ BackendEnds \/ Cancelled \/ Removed \/ Detach
    BY <1>2, DialStep, LocalEndsStep, AwaitDrainStep, BackendEndsStep, CancelledStep,
       RemovedStep, DetachStep
  <1>3. CASE \E e \in Ends : Send(e) \/ SendOverflow(e) \/ Consume(e)
    BY <1>3, SendStep, SendOverflowStep, ConsumeStep
  <1>4. ASSUME NEW k \in Conns, Lose(k) \/ Handling(k)
        PROVE  IInv'
    BY <1>4, LoseStep, ServerAttachStep, ServerBindStep, ClientBindStep, ClientRejectedStep
       DEF Handling
  <1>5. ASSUME NEW k \in Conns, NEW e \in Ends, Pumping(e, k)
        PROVE  IInv'
    BY <1>5, PumpDataStep, PumpAckStep, PumpPushStep, PumpAckedStep, PumpCloseStep,
       PumpReturnsStep DEF Pumping
  <1> QED BY <1>1, <1>2, <1>3, <1>4, <1>5 DEF Next

(* The invariant holds throughout. *)
LEMMA Inductive == Spec => []IInv
  BY InitIInv, NextIInv, PTL DEF Spec

(* The stream's state is well formed: in particular the free slots of a    *)
(* send buffer are never negative nor more than its capacity, however      *)
(* cursors, replays and closes interleave.                                 *)
THEOREM LinkTyping == Spec => []TypeOK
  <1>1. IInv => TypeOK
    BY DEF IInv
  <1> QED BY <1>1, Inductive, PTL

(* Nothing unconfirmed is forgotten: for any number of connections, losses *)
(* and chunks and any capacities, a chunk the peer has not received is in  *)
(* the sender's buffer, in order, and holds a slot (ackLocked, bind, Send  *)
(* and pumpReader).                                                        *)
THEOREM Retained == Spec => []NothingForgotten
  <1>1. IInv => NothingForgotten
    BY DEF IInv
  <1> QED BY <1>1, Inductive, PTL

-----------------------------------------------------------------------------
(* The client's loop ends by closing its endpoint, and no endpoint reopens. *)
Ended == local = "ended" => closed["client"] # "no"

LEMMA OnlyAwaitDrainEnds ==
    ASSUME TypeOK, [Next]_vars
    PROVE  AwaitDrain \/ (local' = "ended" => local = "ended")
  <1>1. CASE UNCHANGED vars
    BY <1>1 DEF vars
  <1>2. CASE Dial \/ LocalEnds \/ BackendEnds \/ Cancelled \/ Removed \/ Detach
    BY <1>2 DEF Dial, LocalEnds, BackendEnds, Cancelled, Removed, Detach
  <1>3. ASSUME NEW e \in Ends, Send(e) \/ SendOverflow(e) \/ Consume(e)
        PROVE  local' = local
    BY <1>3 DEF Send, SendOverflow, Consume
  <1>4. ASSUME NEW k \in Conns, Lose(k) \/ Handling(k)
        PROVE  local' = local
    BY <1>4 DEF Lose, Handling, ServerAttach, ServerBind, ClientBind, ClientRejected
  <1>5. ASSUME NEW k \in Conns, NEW e \in Ends, Pumping(e, k)
        PROVE  local' = local
    BY <1>5 DEF Pumping, PumpData, PumpAck, PumpPush, PumpAcked, PumpClose, PumpReturns
  <1> QED BY <1>1, <1>2, <1>3, <1>4, <1>5 DEF Next

LEMMA NeverReopens ==
    ASSUME TypeOK, [Next]_vars, NEW e \in Ends, closed[e] # "no"
    PROVE  closed'[e] # "no"
  <1>1. CASE UNCHANGED closed
    BY <1>1
  <1>2. ASSUME NEW d \in Ends, NEW why \in {"nil", "err"},
               closed' = [closed EXCEPT ![d] = IF @ = "no" THEN why ELSE @]
        PROVE  closed'[e] # "no"
    BY <1>2 DEF TypeOK
  <1> DEFINE Closing == \E d \in Ends : \E why \in {"nil", "err"} :
                            closed' = [closed EXCEPT ![d] = IF @ = "no" THEN why ELSE @]
  <1>3. CASE Dial \/ LocalEnds \/ Detach
    BY <1>3 DEF Dial, LocalEnds, Detach
  <1>4. CASE AwaitDrain \/ BackendEnds \/ Cancelled \/ Removed
    <2>1. Closing
      BY <1>4, EndFacts DEF AwaitDrain, BackendEnds, Cancelled, Removed, ClosesWith, SendsClose
    <2> QED BY <2>1, <1>2
  <1>5. ASSUME NEW d \in Ends, Send(d) \/ SendOverflow(d) \/ Consume(d)
        PROVE  UNCHANGED closed \/ Closing
    BY <1>5 DEF Send, SendOverflow, Consume, ClosesWith
  <1>6. ASSUME NEW k \in Conns, Lose(k) \/ Handling(k)
        PROVE  UNCHANGED closed \/ Closing
    BY <1>6, EndFacts
       DEF Lose, Handling, ServerAttach, ServerBind, ClientBind, ClientRejected, ClosesWith
  <1>7. ASSUME NEW k \in Conns, NEW d \in Ends, Pumping(d, k)
        PROVE  UNCHANGED closed \/ Closing
    BY <1>7
       DEF Pumping, PumpData, PumpAck, PumpPush, PumpAcked, PumpClose, PumpReturns, ClosesWith
  <1>8. Closing => closed'[e] # "no"
    BY <1>2
  <1>9. UNCHANGED vars => UNCHANGED closed
    BY DEF vars
  <1> HIDE DEF Closing
  <1> QED BY <1>1, <1>3, <1>4, <1>5, <1>6, <1>7, <1>8, <1>9 DEF Next

LEMMA DrainCloses ==
    ASSUME TypeOK, AwaitDrain
    PROVE  closed'["client"] # "no"
  BY EndFacts DEF TypeOK, AwaitDrain, SendsClose, ClosesWith

LEMMA EndedInv == Spec => []Ended
  <1>1. Init => Ended
    BY DEF Init, Ended
  <1>2. TypeOK /\ Ended /\ [Next]_vars => Ended'
    BY OnlyAwaitDrainEnds, NeverReopens, DrainCloses, EndFacts DEF Ended
  <1> QED BY <1>1, <1>2, LinkTyping, PTL DEF Spec

(* awaitDrain comes before sendClose: whenever the client's loop announces *)
(* a close of its own, the gateway's endpoint has accepted all it sent.    *)
THEOREM AcceptedBeforeClose == Spec => CloseMeansAccepted
  <1>1. ASSUME TypeOK, NothingForgotten, Ended, [Next]_vars, closed["client"] = "no",
               closed'["client"] = "nil", local' = "ended"
        PROVE  recvSeq["server"] = sendSeq["client"]
    <2>1. AwaitDrain
      BY <1>1, OnlyAwaitDrainEnds DEF Ended
    <2>2. drained("client")
      BY <1>1, <2>1, EndFacts DEF AwaitDrain, ClosesWith, TypeOK
    <2>3. Peer("client") = "server" /\ "client" \in Ends /\ "server" \in Ends
      BY EndFacts DEF Peer
    <2>4. acked["client"] <= recvSeq["server"] /\ recvSeq["server"] <= sendSeq["client"]
      BY <1>1, <2>3 DEF NothingForgotten
    <2>5. acked["client"] \in Nat /\ recvSeq["server"] \in Nat /\ sendSeq["client"] \in Nat
      BY <1>1, <2>3 DEF TypeOK
    <2> QED BY SMT, <2>2, <2>4, <2>5 DEF drained
  <1>2. TypeOK /\ NothingForgotten /\ Ended /\ [Next]_vars
          => [closed["client"] = "no" /\ closed'["client"] = "nil" /\ local' = "ended"
                => recvSeq["server"] = sendSeq["client"]]_vars
    BY <1>1
  <1> QED BY <1>2, LinkTyping, Retained, EndedInv, PTL DEF Spec, CloseMeansAccepted
=============================================================================
