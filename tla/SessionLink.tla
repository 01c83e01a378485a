---------------------------- MODULE SessionLink ----------------------------
(***************************************************************************)
(* The reliable stream between a session client and the gateway that holds *)
(* its session (session/endpoint.go, the client's reconnect loop in        *)
(* session/client.go, Server.Handle): two endpoints that number, buffer,   *)
(* acknowledge and replay application chunks over connections that may be  *)
(* lost at any moment.                                                     *)
(*                                                                         *)
(* A chunk is its sequence number.  Connections are numbered in the order  *)
(* they are dialled; each carries two sequences of frames.  A connection   *)
(* that is lost, or closed with unread data, loses any suffix of what is   *)
(* in flight; a reader may still find frames it had buffered.  Every       *)
(* connection has a reader goroutine at each end (the client waits for its *)
(* reader before it dials again; the gateway does not): between reading a  *)
(* frame, acknowledging it and handing it to the application a reader may  *)
(* be overtaken by the reader of a newer connection.                       *)
(***************************************************************************)
EXTENDS Integers, Sequences, FiniteSets, Functions

CONSTANTS
    MaxChunks,   \* bound: chunks the two ends send together
    MaxConns,    \* bound: connections dialled
    Lossy,       \* bound: the network may cut connections 1..Lossy
    MaxFrames,   \* defaultMaxSendFrames: slots of the send buffer
    InboundCap,  \* capacity of the inbound channel
    Events       \* closes, timeouts and losses a run considers

Ends == {"client", "server"}
Peer(e) == IF e = "client" THEN "server" ELSE "client"
Conns == 1..MaxConns
NoConn == 0

ASSUME LinkAssumption ==
    /\ MaxChunks \in Nat /\ MaxConns \in Nat \ {0} /\ Lossy \in Nat
    /\ MaxFrames \in Nat \ {0} /\ InboundCap \in Nat \ {0}

VARIABLES
    sendSeq,   \* last sequence number each end assigned
    acked,     \* what the peer has confirmed
    sendBuf,   \* unacknowledged frames, ascending
    slots,     \* free slots of the send buffer
    recvSeq,   \* highest contiguous sequence number received
    conn,      \* connection bound to each endpoint
    closed,    \* "no", "nil" or "err": the endpoint's state and closeErr
    inbound,   \* chunks waiting for the application
    got,       \* history: chunks the application took, in order
    wire,      \* wire[k][e]: frames end e wrote on k and nobody read yet
    open,      \* open[k]: the ends that have k open
    pump,      \* the reader of each connection at each end
    dialled,   \* connections dialled so far
    local      \* the client's standard input: "open", "draining", "ended"

vars == <<sendSeq, acked, sendBuf, slots, recvSeq, conn, closed, inbound, got,
          wire, open, pump, dialled, local>>

Frame == [typ : {"ATTACH", "ATTACH_OK", "DATA", "ACK", "CLOSE", "ERROR"}, seq : Nat]
F(typ, seq) == [typ |-> typ, seq |-> seq]
Reader == [pc : {"off", "attach", "bind", "read", "ack", "reack", "push", "done"}, seq : Nat]
At(pc, seq) == [pc |-> pc, seq |-> seq]

TypeOK ==
    /\ sendSeq \in [Ends -> Nat] /\ acked \in [Ends -> Nat] /\ recvSeq \in [Ends -> Nat]
    /\ sendBuf \in [Ends -> Seq(Nat)] /\ slots \in [Ends -> 0..MaxFrames]
    /\ conn \in [Ends -> Conns \cup {NoConn}]
    /\ closed \in [Ends -> {"no", "nil", "err"}]
    /\ inbound \in [Ends -> Seq(Nat)] /\ got \in [Ends -> Seq(Nat)]
    /\ wire \in [Conns -> [Ends -> Seq(Frame)]]
    /\ open \in [Conns -> SUBSET Ends]
    /\ pump \in [Ends -> [Conns -> Reader]]
    /\ dialled \in 0..MaxConns
    /\ local \in {"open", "draining", "ended"}

(* The session exists: the client has read the first ATTACH_OK and knows   *)
(* the session id, the gateway's Handle is about to bind.                  *)
Init ==
    /\ sendSeq = [e \in Ends |-> 0] /\ acked = [e \in Ends |-> 0]
    /\ recvSeq = [e \in Ends |-> 0]
    /\ sendBuf = [e \in Ends |-> <<>>] /\ slots = [e \in Ends |-> MaxFrames]
    /\ conn = [e \in Ends |-> IF e = "client" THEN 1 ELSE NoConn]
    /\ closed = [e \in Ends |-> "no"]
    /\ inbound = [e \in Ends |-> <<>>] /\ got = [e \in Ends |-> <<>>]
    /\ wire = [k \in Conns |-> [e \in Ends |-> <<>>]]
    /\ open = [k \in Conns |-> IF k = 1 THEN Ends ELSE {}]
    /\ pump = [e \in Ends |-> [k \in Conns |->
                 IF k > 1 THEN At("off", 0)
                 ELSE At(IF e = "client" THEN "read" ELSE "bind", 0)]]
    /\ dialled = 1 /\ local = "open"

-----------------------------------------------------------------------------
(* Connections. *)

Whole(k) == open[k] = Ends
Incoming(e, k) == wire[k][Peer(e)]
Has(e, k, typ) == Incoming(e, k) # <<>> /\ Head(Incoming(e, k)).typ = typ

(* The wire after end e has read the next frame of k.                      *)
Taken(e, k) == [wire EXCEPT ![k][Peer(e)] = Tail(@)]

(* dropConnLocked: e closes the connection it is bound to.                 *)
Dropped(e) == IF conn[e] = NoConn THEN open ELSE [open EXCEPT ![conn[e]] = @ \ {e}]

(* End e, bound to k, writes frames: they go out on a whole connection.    *)
(* On a broken one they are lost, and the write may fail and drop it.  w   *)
(* and o are the wires and open ends before the write.                     *)
Writes(e, k, w, o, frames) ==
    IF k = NoConn \/ o[k] = Ends
    THEN /\ wire' = IF k = NoConn THEN w ELSE [w EXCEPT ![k][e] = @ \o frames]
         /\ open' = o /\ conn' = [conn EXCEPT ![e] = k]
    ELSE /\ wire' = w
         /\ \/ open' = o /\ conn' = [conn EXCEPT ![e] = k]
            \/ open' = [o EXCEPT ![k] = @ \ {e}] /\ conn' = [conn EXCEPT ![e] = NoConn]

(* The network, or a reset after a close, cuts k: each side loses some     *)
(* suffix of the frames in flight.                                         *)
Lose(k) ==
    /\ open[k] # {}
    /\ k <= Lossy \/ ~Whole(k)
    /\ open' = [open EXCEPT ![k] = {}]
    /\ \E m \in 0..Len(wire[k]["client"]), n \in 0..Len(wire[k]["server"]) :
          wire' = [wire EXCEPT ![k] = [e \in Ends |->
                     SubSeq(@[e], 1, IF e = "client" THEN m ELSE n)]]
    /\ UNCHANGED <<sendSeq, acked, sendBuf, slots, recvSeq, conn, closed, inbound,
                   got, pump, dialled, local>>

-----------------------------------------------------------------------------
(* Sending and acknowledging. *)

MaySend(e) ==
    /\ sendSeq["client"] + sendSeq["server"] < MaxChunks /\ closed[e] = "no"
    /\ e = "client" => local = "open"

(* Send: take a slot, number the chunk, buffer it, write it if bound.      *)
(* (Mutated form: no slot is waited for.)                                  *)
SendUnbounded(e) ==
    LET n == sendSeq[e] + 1
    IN  /\ MaySend(e)
        /\ slots' = [slots EXCEPT ![e] = @ - 1]
        /\ sendSeq' = [sendSeq EXCEPT ![e] = n]
        /\ sendBuf' = [sendBuf EXCEPT ![e] = Append(@, n)]
        /\ Writes(e, conn[e], wire, open, <<F("DATA", n)>>)
        /\ UNCHANGED <<acked, recvSeq, closed, inbound, got, pump, dialled, local>>
Send(e) ==
    LET n == sendSeq[e] + 1
    IN  /\ MaySend(e) /\ slots[e] > 0
        /\ slots' = [slots EXCEPT ![e] = @ - 1]
        /\ sendSeq' = [sendSeq EXCEPT ![e] = n]
        /\ sendBuf' = [sendBuf EXCEPT ![e] = Append(@, n)]
        /\ Writes(e, conn[e], wire, open, <<F("DATA", n)>>)
        /\ UNCHANGED <<acked, recvSeq, closed, inbound, got, pump, dialled, local>>

(* closeWith: the endpoint closes once, with its first error.              *)
ClosesWith(e, why) ==
    /\ closed' = [closed EXCEPT ![e] = IF @ = "no" THEN why ELSE @]
    /\ open' = IF closed[e] = "no" THEN Dropped(e) ELSE open
    /\ conn' = IF closed[e] = "no" THEN [conn EXCEPT ![e] = NoConn] ELSE conn

(* The send buffer stays full past sendOverflowTimeout.                    *)
SendOverflow(e) ==
    /\ "overflow" \in Events /\ MaySend(e) /\ slots[e] = 0
    /\ ClosesWith(e, "err")
    /\ UNCHANGED <<sendSeq, acked, sendBuf, slots, recvSeq, inbound, got, wire,
                   pump, dialled, local>>

(* ackLocked: drop the leading frames the peer has confirmed, and give     *)
(* their slots back.  (Mutated form: a stale cursor is not ignored.)       *)
Confirmed(buf, upto) ==
    CHOOSE i \in 0..Len(buf) :
        /\ \A j \in 1..i : buf[j] <= upto
        /\ i = Len(buf) \/ buf[i + 1] > upto
AcksStale(e, upto) ==
    LET i == Confirmed(sendBuf[e], upto)
    IN  /\ acked' = [acked EXCEPT ![e] = upto]
        /\ sendBuf' = [sendBuf EXCEPT ![e] = SubSeq(@, i + 1, Len(@))]
        /\ slots' = [slots EXCEPT ![e] = @ + i]
Acks(e, upto) ==
    LET i == Confirmed(sendBuf[e], upto)
    IN  IF upto <= acked[e] THEN UNCHANGED <<acked, sendBuf, slots>>
        ELSE /\ acked' = [acked EXCEPT ![e] = upto]
             /\ sendBuf' = [sendBuf EXCEPT ![e] = SubSeq(@, i + 1, Len(@))]
             /\ slots' = [slots EXCEPT ![e] = @ + i]

(* (Mutated form: the new connection is installed and nothing replayed.)   *)
BindOnly(e, k, cursor, w) ==
    /\ Acks(e, cursor)
    /\ Writes(e, k, w, IF conn[e] = k THEN open ELSE Dropped(e), <<>>)
(* bind: acknowledge the peer's cursor, close the previous connection,     *)
(* install k and replay what is still unacknowledged.                      *)
Bind(e, k, cursor, w) ==
    /\ Acks(e, cursor)
    /\ Writes(e, k, w, IF conn[e] = k THEN open ELSE Dropped(e),
              [i \in 1..Len(sendBuf'[e]) |-> F("DATA", sendBuf'[e][i])])

-----------------------------------------------------------------------------
(* The client's reconnect loop and the gateway's Handle. *)

Goes(e, k, pc, seq) == pump' = [pump EXCEPT ![e][k] = At(pc, seq)]

(* The client's previous reader has returned: dial, write ATTACH with the  *)
(* receive cursor.  (Mutated form: the previous reader is not waited for.) *)
DialsAtOnce ==
    LET k == dialled + 1
    IN  /\ k \in Conns /\ closed["client"] = "no" /\ ~Whole(dialled)
        /\ dialled' = k
        /\ open' = [open EXCEPT ![k] = Ends]
        /\ wire' = [wire EXCEPT ![k]["client"] = <<F("ATTACH", recvSeq["client"])>>]
        /\ pump' = [e \in Ends |-> [pump[e] EXCEPT ![k] = At("attach", 0)]]
        /\ UNCHANGED <<sendSeq, acked, sendBuf, slots, recvSeq, conn, closed,
                       inbound, got, local>>
Dial ==
    LET k == dialled + 1
    IN  /\ k \in Conns /\ closed["client"] = "no"
        /\ \A j \in Conns : pump["client"][j].pc \in {"off", "done"}
        /\ dialled' = k
        /\ open' = [open EXCEPT ![k] = Ends]
        /\ wire' = [wire EXCEPT ![k]["client"] = <<F("ATTACH", recvSeq["client"])>>]
        /\ pump' = [e \in Ends |-> [pump[e] EXCEPT ![k] = At("attach", 0)]]
        /\ UNCHANGED <<sendSeq, acked, sendBuf, slots, recvSeq, conn, closed,
                       inbound, got, local>>

(* Handle reads ATTACH, finds the session and answers with its cursor, or  *)
(* does not find it and answers with an error.  A closed session stays to  *)
(* be found until its remove has run.                                      *)
Answers(k, found) ==
    LET answer == IF found THEN F("ATTACH_OK", recvSeq["server"]) ELSE F("ERROR", 0)
    IN  /\ wire' = IF Whole(k) THEN [Taken("server", k) EXCEPT ![k]["server"] = @ \o <<answer>>]
                   ELSE Taken("server", k)
        /\ open' = IF found THEN open ELSE [open EXCEPT ![k] = @ \ {"server"}]
        /\ Goes("server", k, IF found THEN "bind" ELSE "done",
                Head(Incoming("server", k)).seq)
ServerAttach(k) ==
    /\ pump["server"][k].pc = "attach" /\ Has("server", k, "ATTACH")
    /\ Answers(k, TRUE) \/ (closed["server"] # "no" /\ Answers(k, FALSE))
    /\ UNCHANGED <<sendSeq, acked, sendBuf, slots, recvSeq, conn, closed,
                   inbound, got, dialled, local>>

(* Handle binds the connection, with the cursor ATTACH carried.            *)
ServerBind(k) ==
    /\ pump["server"][k].pc = "bind"
    /\ Bind("server", k, pump["server"][k].seq, wire)
    /\ Goes("server", k, "read", 0)
    /\ UNCHANGED <<sendSeq, recvSeq, closed, inbound, got, dialled, local>>

(* The client reads ATTACH_OK and binds.                                   *)
ClientBind(k) ==
    /\ pump["client"][k].pc = "attach" /\ Has("client", k, "ATTACH_OK")
    /\ Bind("client", k, Head(Incoming("client", k)).seq, Taken("client", k))
    /\ Goes("client", k, "read", 0)
    /\ UNCHANGED <<sendSeq, recvSeq, closed, inbound, got, dialled, local>>

(* A rejected attach is terminal.                                          *)
ClientRejected(k) ==
    /\ pump["client"][k].pc = "attach" /\ Has("client", k, "ERROR")
    /\ ClosesWith("client", "err")
    /\ Goes("client", k, "done", 0)
    /\ UNCHANGED <<sendSeq, acked, sendBuf, slots, recvSeq, inbound, got, wire,
                   dialled, local>>

-----------------------------------------------------------------------------
(* pumpReader. *)

Reads(e, k, typ) == pump[e][k].pc = "read" /\ closed[e] = "no" /\ Has(e, k, typ)

(* DATA: the next number advances the cursor; anything else is answered    *)
(* with the cursor.  (Mutated form: a replayed frame is taken again.)      *)
PumpTakesAny(e, k) ==
    LET n == Head(Incoming(e, k)).seq
    IN  /\ Reads(e, k, "DATA")
        /\ wire' = Taken(e, k)
        /\ recvSeq' = [recvSeq EXCEPT ![e] = n]
        /\ Goes(e, k, "ack", n)
        /\ UNCHANGED <<sendSeq, acked, sendBuf, slots, conn, closed, inbound, got,
                       open, dialled, local>>
PumpData(e, k) ==
    LET n == Head(Incoming(e, k)).seq
        fresh == n = recvSeq[e] + 1
    IN  /\ Reads(e, k, "DATA")
        /\ wire' = Taken(e, k)
        /\ recvSeq' = [recvSeq EXCEPT ![e] = IF fresh THEN n ELSE @]
        /\ Goes(e, k, IF fresh THEN "ack" ELSE "reack", IF fresh THEN n ELSE recvSeq[e])
        /\ UNCHANGED <<sendSeq, acked, sendBuf, slots, conn, closed, inbound, got,
                       open, dialled, local>>

(* sendAck goes out on whatever connection is bound by now.                *)
PumpAck(e, k) ==
    /\ pump[e][k].pc \in {"ack", "reack"}
    /\ Writes(e, conn[e], wire, open, <<F("ACK", pump[e][k].seq)>>)
    /\ Goes(e, k, IF pump[e][k].pc = "ack" THEN "push" ELSE "read", pump[e][k].seq)
    /\ UNCHANGED <<sendSeq, acked, sendBuf, slots, recvSeq, closed, inbound, got,
                   dialled, local>>

(* Hand the chunk to the application; give up when the endpoint closes.    *)
PumpPush(e, k) ==
    /\ pump[e][k].pc = "push"
    /\ \/ /\ Len(inbound[e]) < InboundCap
          /\ inbound' = [inbound EXCEPT ![e] = Append(@, pump[e][k].seq)]
          /\ Goes(e, k, "read", 0)
       \/ /\ closed[e] # "no"
          /\ Goes(e, k, "done", 0)
          /\ UNCHANGED inbound
    /\ UNCHANGED <<sendSeq, acked, sendBuf, slots, recvSeq, conn, closed, got, wire,
                   open, dialled, local>>

PumpAcked(e, k) ==
    /\ Reads(e, k, "ACK")
    /\ wire' = Taken(e, k)
    /\ Acks(e, Head(Incoming(e, k)).seq)
    /\ UNCHANGED <<sendSeq, recvSeq, conn, closed, inbound, got, open, pump,
                   dialled, local>>

PumpClose(e, k) ==
    /\ Reads(e, k, "CLOSE")
    /\ wire' = Taken(e, k)
    /\ ClosesWith(e, "nil")
    /\ Goes(e, k, "done", 0)
    /\ UNCHANGED <<sendSeq, acked, sendBuf, slots, recvSeq, inbound, got, dialled, local>>

(* A read, or the write of ATTACH_OK, fails on a connection that is closed *)
(* or broken, or the loop sees the endpoint closed (during a handshake the *)
(* client closes the connection then).  A Handle closes its connection.    *)
PumpReturns(e, k) ==
    /\ pump[e][k].pc \in {"attach", "bind", "read"}
    /\ \/ closed[e] # "no" /\ (e = "client" \/ pump[e][k].pc = "read")
       \/ e \notin open[k]
       \/ ~Whole(k) /\ (pump[e][k].pc = "bind" \/ Incoming(e, k) = <<>>)
    /\ Goes(e, k, "done", 0)
    /\ open' = IF e = "server" \/ pump[e][k].pc = "attach"
               THEN [open EXCEPT ![k] = @ \ {e}] ELSE open
    /\ UNCHANGED <<sendSeq, acked, sendBuf, slots, recvSeq, conn, closed, inbound,
                   got, wire, dialled, local>>

-----------------------------------------------------------------------------
(* The application, and the end of the session. *)

(* The application's loop takes a chunk.                                   *)
Consume(e) ==
    /\ inbound[e] # <<>>
    /\ got' = [got EXCEPT ![e] = Append(@, Head(inbound[e]))]
    /\ inbound' = [inbound EXCEPT ![e] = Tail(@)]
    /\ UNCHANGED <<sendSeq, acked, sendBuf, slots, recvSeq, conn, closed, wire, open,
                   pump, dialled, local>>

(* The client's standard input ends: wait for every frame to be            *)
(* acknowledged, and only then close.                                      *)
LocalEnds ==
    /\ "close" \in Events /\ local = "open"
    /\ local' = "draining"
    /\ UNCHANGED <<sendSeq, acked, sendBuf, slots, recvSeq, conn, closed, inbound,
                   got, wire, open, pump, dialled>>

(* sendClose: publish the close, write CLOSE, drop the connection.         *)
SendsClose(e) ==
    /\ closed' = [closed EXCEPT ![e] = IF @ = "no" THEN "nil" ELSE @]
    /\ IF closed[e] # "no" THEN UNCHANGED <<wire, open, conn>>
       ELSE /\ wire' = IF conn[e] # NoConn /\ Whole(conn[e])
                       THEN [wire EXCEPT ![conn[e]][e] = @ \o <<F("CLOSE", 0)>>] ELSE wire
            /\ open' = Dropped(e)
            /\ conn' = [conn EXCEPT ![e] = NoConn]

drained(e) == acked[e] >= sendSeq[e]

(* awaitDrain.  (Mutated form: close without waiting.)                     *)
DrainsAtOnce ==
    /\ local = "draining" /\ local' = "ended"
    /\ SendsClose("client")
    /\ UNCHANGED <<sendSeq, acked, sendBuf, slots, recvSeq, inbound, got, pump, dialled>>
AwaitDrain ==
    /\ local = "draining" /\ local' = "ended"
    /\ \/ drained("client") /\ SendsClose("client")
       \/ /\ ~drained("client") /\ (closed["client"] # "no" \/ "timeout" \in Events)
          /\ ClosesWith("client", "err") /\ UNCHANGED wire
    /\ UNCHANGED <<sendSeq, acked, sendBuf, slots, recvSeq, inbound, got, pump, dialled>>

(* The gateway's backend ends: its reader sends CLOSE.                     *)
BackendEnds ==
    /\ "backendEnds" \in Events /\ closed["server"] = "no"
    /\ SendsClose("server")
    /\ UNCHANGED <<sendSeq, acked, sendBuf, slots, recvSeq, inbound, got, pump,
                   dialled, local>>

(* The client's context ends, or writing to its standard output fails.     *)
Cancelled ==
    /\ "cancel" \in Events /\ closed["client"] = "no"
    /\ ClosesWith("client", "err")
    /\ UNCHANGED <<sendSeq, acked, sendBuf, slots, recvSeq, inbound, got, wire,
                   pump, dialled, local>>

(* remove and Shutdown close the gateway's endpoint without a CLOSE frame. *)
Removed ==
    /\ "remove" \in Events /\ closed["server"] = "no"
    /\ ClosesWith("server", "nil")
    /\ UNCHANGED <<sendSeq, acked, sendBuf, slots, recvSeq, inbound, got, wire,
                   pump, dialled, local>>

(* detach: a session that is being moved drops its connection, no more.    *)
Detach ==
    /\ "detach" \in Events /\ conn["server"] # NoConn
    /\ open' = Dropped("server")
    /\ conn' = [conn EXCEPT !["server"] = NoConn]
    /\ UNCHANGED <<sendSeq, acked, sendBuf, slots, recvSeq, closed, inbound, got,
                   wire, pump, dialled, local>>

-----------------------------------------------------------------------------
Pumping(e, k) ==
    \/ PumpData(e, k) \/ PumpAck(e, k) \/ PumpPush(e, k) \/ PumpAcked(e, k)
    \/ PumpClose(e, k) \/ PumpReturns(e, k)
Handling(k) == ServerAttach(k) \/ ServerBind(k) \/ ClientBind(k) \/ ClientRejected(k)

Next ==
    \/ Dial \/ LocalEnds \/ AwaitDrain \/ BackendEnds
    \/ Cancelled \/ Removed \/ Detach
    \/ \E e \in Ends : Send(e) \/ SendOverflow(e) \/ Consume(e)
    \/ \E k \in Conns : Lose(k) \/ Handling(k) \/ \E e \in Ends : Pumping(e, k)

Spec == Init /\ [][Next]_vars

(***************************************************************************)
(* Fairness: the client keeps dialling, every reader goroutine that can    *)
(* step does, and the applications read.  The network does not cut         *)
(* connections forever.                                                    *)
(***************************************************************************)
Fairness ==
    /\ WF_vars(Dial)
    /\ \A k \in Conns : WF_vars(Handling(k)) /\ \A e \in Ends : WF_vars(Pumping(e, k))
    /\ \A e \in Ends : WF_vars(Consume(e))
FairSpec == Spec /\ Fairness

-----------------------------------------------------------------------------
(* Properties *)

InHand(e) == {k \in Conns : pump[e][k].pc \in {"ack", "push"}}
Delivered(e) == Range(got[e]) \cup Range(inbound[e]) \cup {pump[e][k].seq : k \in InHand(e)}

(* "Exactly-once in both directions": across reconnects, replays and       *)
(* overlapping readers no chunk reaches an application twice, and none is  *)
(* skipped while the endpoint is open: what was received is with the       *)
(* application, in the channel, or in the hand of a reader.  The client's  *)
(* application reads in order: its endpoint has one reader at a time.      *)
ExactlyOnce ==
    /\ \A i \in 1..Len(got["client"]) : got["client"][i] = i
    /\ \A e \in Ends :
        /\ Cardinality(Delivered(e)) = Len(got[e]) + Len(inbound[e]) + Cardinality(InHand(e))
        /\ Delivered(e) \subseteq 1..recvSeq[e]
        /\ closed[e] = "no" => Delivered(e) = 1..recvSeq[e]

(* Nothing unconfirmed is forgotten: a chunk the peer has not received is  *)
(* still in the send buffer, in order, and its slot is still taken.        *)
NothingForgotten ==
    \A e \in Ends :
        /\ acked[e] <= recvSeq[Peer(e)] /\ recvSeq[Peer(e)] <= sendSeq[e]
        /\ Len(sendBuf[e]) = sendSeq[e] - acked[e]
        /\ \A i \in 1..Len(sendBuf[e]) : sendBuf[e][i] = acked[e] + i
        /\ slots[e] = MaxFrames - Len(sendBuf[e])

(* The client announces a close only when the gateway's endpoint has       *)
(* accepted all it sent: awaitDrain comes before sendClose.                *)
CloseMeansAccepted ==
    [][closed["client"] = "no" /\ closed'["client"] = "nil" /\ local' = "ended"
          => recvSeq["server"] = sendSeq["client"]]_vars

(* A client that ended without an error has had all it sent accepted:      *)
(* "callers must never report a one-shot Push/Drop/Ring as delivered when  *)
(* no receiver accepted its transport frames" (session/client.go:322-324). *)
CleanEndMeansAccepted ==
    local = "ended" /\ closed["client"] = "nil" => recvSeq["server"] = sendSeq["client"]

(* Everything sent is delivered in the end, through any losses but         *)
(* permanent ones, unless an end closes.                                   *)
AllDelivered ==
    \A e \in Ends : \A n \in 1..MaxChunks :
        sendSeq[e] >= n ~> n \in Range(got[Peer(e)]) \/ \E d \in Ends : closed[d] # "no"
=============================================================================
