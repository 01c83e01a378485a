------------------------------ MODULE Handoff -------------------------------
(***************************************************************************)
(* Air Handoff: offers arrive in a bounded durable inbox, are accepted or  *)
(* declined by the operator, delivered to an agent by `continue` processes *)
(* and archived (air/handoff.go, cmd/meshmcp/airhandoff.go and its store). *)
(* Every store operation runs under the inbox lock and is one step; the    *)
(* clock it uses was read before the lock was taken.                       *)
(***************************************************************************)
EXTENDS Integers, Sequences, FiniteSets, SequencesExt

CONSTANTS Offers,       \* offers sent: [id, src, hash, expires]
          Workers,      \* `handoff continue` processes
          maxRecords, HandoffMaxDeliveryAttempts,
          MaxTime, Lag, \* bounds: the clock, and how old a clock reading may be
          NoRecord

VARIABLES
    now,
    inbox, archive,  \* record of each id, or NoRecord
    out,             \* offers whose source was told they are stored
    recv,            \* offers the receiver has stored (or found) and not yet answered
    w,               \* the workers: pc, id, the attempt claimed, the clock it read
    rearms,          \* history: explicit re-arms of each id
    receipts,        \* history: attempts <<id, n>> whose agent answered
    refused          \* history: a write the store's own validation refused

vars == <<now, inbox, archive, out, recv, w, rearms, receipts, refused>>

Ids == {o.id : o \in Offers}
States == {"offered", "accepted", "dispatching", "declined", "continued", "expired"}
NoAck == -1

Init ==
    /\ now = 1
    /\ inbox = [i \in Ids |-> NoRecord] /\ archive = [i \in Ids |-> NoRecord]
    /\ out = {} /\ recv = {}
    /\ w = [p \in Workers |-> [pc |-> "idle", id |-> "", n |-> 0, t |-> 0]]
    /\ rearms = [i \in Ids |-> 0] /\ receipts = {} /\ refused = FALSE

Clock == {t \in 1..now : now - t <= Lag}

EffectiveState(r, t) ==
    IF r.state \in {"offered", "accepted"} /\ t >= r.offer.expires THEN "expired" ELSE r.state

-----------------------------------------------------------------------------
(* validateStoredHandoffRecord.                                            *)
Valid(r) ==
    LET n == Len(r.attempts)
        acked == {k \in 1..n : r.attempts[k].acked # NoAck}
    IN  /\ r.recv <= r.upd /\ r.recv < r.offer.expires /\ n <= HandoffMaxDeliveryAttempts
        /\ \A k \in 1..n : /\ r.recv <= r.attempts[k].at /\ r.attempts[k].at <= r.upd
                           /\ r.attempts[k].at < r.offer.expires
                           /\ k > 1 => r.attempts[k - 1].at <= r.attempts[k].at
        /\ acked # {} => acked = {n} /\ r.state = "continued" /\ r.attempts[n].acked = r.upd
        /\ r.state \in {"offered", "declined"} => n = 0
        /\ r.state = "dispatching" => n > 0
        /\ r.state = "continued" => acked # {}

(* writeUnlocked: a record that does not validate is not written.          *)
Write(r) ==
    /\ inbox' = IF Valid(r) THEN [inbox EXCEPT ![r.offer.id] = r] ELSE inbox
    /\ refused' = (refused \/ ~Valid(r))

Becomes(r, state, t) == [r EXCEPT !.state = state, !.upd = t]

Frozen == UNCHANGED <<inbox, refused>>

-----------------------------------------------------------------------------
(* Put, the first match of the id deciding: a replay, a collision, a full  *)
(* inbox, or a new record.                                                 *)
(* (Mutated form: the archive is not consulted.)                           *)
KnownInInbox(i) == inbox[i]
Known(i) == IF inbox[i] # NoRecord THEN inbox[i] ELSE archive[i]

Count == Cardinality({i \in Ids : inbox[i] # NoRecord})

PutOutcome(o, t) ==
    IF t >= o.expires THEN "rejected"
    ELSE IF Known(o.id) # NoRecord
         THEN IF Known(o.id).offer.src = o.src /\ Known(o.id).offer.hash = o.hash THEN "replayed" ELSE "rejected"
         ELSE IF Count < maxRecords THEN "stored" ELSE "rejected"

Put(o, t) ==
    LET res == PutOutcome(o, t)
    IN  /\ o \notin recv
        /\ IF res = "stored"
           THEN Write([offer |-> o, recv |-> t, upd |-> t, state |-> "offered", attempts |-> <<>>])
           ELSE Frozen
        /\ res # "rejected" /\ recv' = recv \cup {o}
        /\ UNCHANGED <<now, archive, out, w, rearms, receipts>>

(* appendHandoffAudit, then the acknowledgement; without a receipt the     *)
(* source is told it was rejected.                                         *)
Acknowledge(o) ==
    /\ o \in recv /\ recv' = recv \ {o}
    /\ out' \in {out, out \cup {o}}
    /\ UNCHANGED <<now, inbox, archive, w, rearms, receipts, refused>>

(* The receiver crashes: nothing is answered, the source offers again.     *)
ReceiverCrash ==
    /\ recv # {} /\ recv' = {}
    /\ UNCHANGED <<now, inbox, archive, out, w, rearms, receipts, refused>>

-----------------------------------------------------------------------------
(* HandoffRecord.transition.                                               *)
Allowed(from, next) ==
    \/ from = "offered" /\ next \in {"accepted", "declined", "expired"}
    \/ from = "accepted" /\ next \in {"dispatching", "expired"}
    \/ from = "dispatching" /\ next = "continued"

(* Transition: `accept` and `decline`.  An offer found expired is recorded *)
(* as expired; a repeated transition writes nothing.                       *)
Transition(i, next, t) ==
    LET r == inbox[i]
        eff == EffectiveState(r, t)
    IN  /\ r # NoRecord /\ t >= r.upd
        /\ IF eff = "expired" /\ r.state # "expired" THEN Write(Becomes(r, "expired", t))
           ELSE /\ Allowed(r.state, next) /\ eff = r.state
                /\ Write(Becomes(r, next, t))
        /\ UNCHANGED <<now, archive, out, recv, w, rearms, receipts>>

Rearm(i, t) ==
    LET r == inbox[i]
    IN  /\ r # NoRecord /\ t >= r.upd
        /\ r.state = "dispatching" /\ Last(r.attempts).acked = NoAck /\ t < r.offer.expires
        /\ Write(Becomes(r, "accepted", t))
        /\ rearms' = [rearms EXCEPT ![i] = @ + 1]
        /\ UNCHANGED <<now, archive, out, recv, w, receipts>>

(* Archive, of one record it finds old enough.  An expiry is recorded      *)
(* first; a dispatch of unknown outcome is archived once its offer expired.*)
Archive(i, t) ==
    LET r == inbox[i]
        unknown == r.state = "dispatching" /\ t >= r.offer.expires
        e == IF EffectiveState(r, t) = "expired" THEN Becomes(r, "expired", IF r.state = "expired" THEN r.upd ELSE t)
             ELSE r
    IN  /\ r # NoRecord /\ archive[i] = NoRecord
        /\ e.state \in {"declined", "continued", "expired"} \/ unknown
        /\ archive' = [archive EXCEPT ![i] = e]
        /\ inbox' = [inbox EXCEPT ![i] = NoRecord]
        /\ refused' = (refused \/ ~Valid(e))
        /\ UNCHANGED <<now, out, recv, w, rearms, receipts>>

-----------------------------------------------------------------------------
(* continueStoredHandoff.                                                  *)

(* Get and the first look at the state.                                    *)
Check(p, i, t) ==
    /\ w[p].pc = "idle" /\ inbox[i] # NoRecord
    /\ IF EffectiveState(inbox[i], t) = "accepted"
       THEN w' = [w EXCEPT ![p] = [pc |-> "claim", id |-> i, n |-> 0, t |-> 0]] /\ Frozen
       ELSE /\ EffectiveState(inbox[i], t) = "expired" /\ inbox[i].state # "expired" /\ t >= inbox[i].upd
            /\ Write(Becomes(inbox[i], "expired", t)) /\ UNCHANGED w
    /\ UNCHANGED <<now, archive, out, recv, rearms, receipts>>

Claims(r, t) == r # NoRecord /\ r.state = "accepted" /\ Len(r.attempts) < HandoffMaxDeliveryAttempts

(* (Mutated form: the claim is not compared with the state.)               *)
ClaimDispatching(p, t) ==
    LET r == inbox[w[p].id]
    IN  /\ w[p].pc = "claim" /\ r # NoRecord /\ r.state \in {"accepted", "dispatching"} /\ t >= r.upd
        /\ t < r.offer.expires /\ Len(r.attempts) < HandoffMaxDeliveryAttempts
        /\ Write([Becomes(r, "dispatching", t) EXCEPT !.attempts = Append(@, [by |-> p, at |-> t, acked |-> NoAck])])
        /\ w' = [w EXCEPT ![p].pc = "deliver", ![p].n = Len(r.attempts) + 1]
        /\ UNCHANGED <<now, archive, out, recv, rearms, receipts>>
(* ClaimDelivery: the attempt is on disk before any context leaves.        *)
ClaimDelivery(p, t) ==
    LET r == inbox[w[p].id]
        ok == Claims(r, t) /\ t >= r.upd /\ EffectiveState(r, t) = "accepted"
        expire == r # NoRecord /\ t >= r.upd /\ EffectiveState(r, t) = "expired" /\ r.state # "expired"
    IN  /\ w[p].pc = "claim"
        /\ IF ok
           THEN /\ Write([Becomes(r, "dispatching", t) EXCEPT !.attempts = Append(@, [by |-> p, at |-> t, acked |-> NoAck])])
                /\ w' = [w EXCEPT ![p].pc = "deliver", ![p].n = Len(r.attempts) + 1]
           ELSE /\ w' = [w EXCEPT ![p].pc = "failed"]
                /\ IF expire THEN Write(Becomes(r, "expired", t)) ELSE Frozen
        /\ UNCHANGED <<now, archive, out, recv, rearms, receipts>>

(* deliver: the agent's inbox answers, or the outcome stays unknown (the   *)
(* agent may have it: that is not recorded).                               *)
Deliver(p) ==
    /\ w[p].pc = "deliver"
    /\ \/ /\ receipts' = receipts \cup {<<w[p].id, w[p].n>>}
          /\ w' = [w EXCEPT ![p].pc = "acked", ![p].t = now]
       \/ w' = [w EXCEPT ![p].pc = "failed"] /\ UNCHANGED receipts
    /\ UNCHANGED <<now, inbox, archive, out, recv, rearms, refused>>

(* AcknowledgeDelivery, at the time the answer came: it finds the last     *)
(* attempt of whatever is dispatching.                                     *)
AcknowledgeDelivery(p) ==
    LET r == inbox[w[p].id]
        t == w[p].t
        ok == r # NoRecord /\ r.state = "dispatching" /\ t >= r.upd /\ t < r.offer.expires
    IN  /\ w[p].pc = "acked"
        /\ IF ok THEN Write([Becomes(r, "continued", t) EXCEPT !.attempts[Len(r.attempts)].acked = t]) ELSE Frozen
        /\ w' = [w EXCEPT ![p].pc = IF ok THEN "done" ELSE "failed"]
        /\ UNCHANGED <<now, archive, out, recv, rearms, receipts>>

(* The process ends or is killed; the command may be run again.            *)
WorkerEnds(p) ==
    /\ w[p].pc # "idle"
    /\ w' = [w EXCEPT ![p] = [pc |-> "idle", id |-> "", n |-> 0, t |-> 0]]
    /\ UNCHANGED <<now, inbox, archive, out, recv, rearms, receipts, refused>>

Tick ==
    /\ now < MaxTime /\ now' = now + 1
    /\ UNCHANGED <<inbox, archive, out, recv, w, rearms, receipts, refused>>

Next ==
    \/ \E t \in Clock :
         \/ \E o \in Offers : Put(o, t)
         \/ \E i \in Ids : \/ \E s \in {"accepted", "declined"} : Transition(i, s, t)
                           \/ Rearm(i, t) \/ Archive(i, t)
         \/ \E p \in Workers : \/ \E i \in Ids : Check(p, i, t)
                               \/ ClaimDelivery(p, t)
    \/ \E o \in recv : Acknowledge(o)
    \/ ReceiverCrash \/ Tick
    \/ \E p \in Workers : Deliver(p) \/ AcknowledgeDelivery(p) \/ WorkerEnds(p)

Spec == Init /\ [][Next]_vars

-----------------------------------------------------------------------------
(* The record kept for an id, wherever it is.                              *)
Kept(i) == IF archive[i] # NoRecord THEN archive[i] ELSE inbox[i]

(* Every record is stored under its own id, in a known state.              *)
TypeOK ==
    /\ now \in 1..MaxTime
    /\ \A i \in Ids : \A r \in {inbox[i], archive[i]} \ {NoRecord} : r.state \in States /\ r.offer.id = i
    /\ out \subseteq Offers /\ recv \subseteq Offers

(* An offer is stored once for ever: what was acknowledged is on disk with *)
(* that content and source, in the inbox or in the archive and not both,   *)
(* and the inbox keeps to its quota.                                       *)
StoredOnce ==
    /\ Count <= maxRecords
    /\ \A i \in Ids : inbox[i] = NoRecord \/ archive[i] = NoRecord
    /\ \A o \in out : Kept(o.id) # NoRecord /\ Kept(o.id).offer = o

(* Whatever order the commands run in, none leaves a record that the       *)
(* store's validation would refuse (one bad record fails every listing).   *)
NeverRefused == ~refused

(* Work is dispatched once for each consent: the first acceptance and each *)
(* explicit re-arm; repeating `accept` or `continue` adds nothing.         *)
OneDispatchPerConsent ==
    \A i \in Ids : Kept(i) # NoRecord => Len(Kept(i).attempts) <= 1 + rearms[i]

(* A declined, continued, expired or archived handoff stays as it is: no   *)
(* late worker, replayed offer or operator command revives it.             *)
Settled(i) == archive[i] # NoRecord \/ (inbox[i] # NoRecord /\ inbox[i].state \in {"declined", "continued", "expired"})
SettledStays == \A i \in Ids : Settled(i) => Kept(i)' = Kept(i)
=============================================================================
