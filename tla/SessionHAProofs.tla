------------------------ MODULE SessionHAProofs -----------------------------
(***************************************************************************)
(* The fencing invariant of SessionHA, for any number of gateways and any  *)
(* bounds: what it says, what the record operations make of it, that every *)
(* step preserves it, and what follows from it: writes are fenced by       *)
(* generation, deletion is final, and the fleet implements the abstract    *)
(* ownership of a session.                                                 *)
(***************************************************************************)
EXTENDS SessionHA, TLAPS

(* A record that was loaded or listed carries a granted generation, so a   *)
(* compare-and-swap on it can never succeed on a missing record.           *)
Loaded(p) == p.ps \in Record /\ p.ps.gen > 0

(* What each goroutine's local state refers to.                            *)
AttLocal(p) ==
    /\ p.pc \in {"take", "spawn"} => Loaded(p)
    /\ p.pc = "spawn" => p.gen \in Gens
MaintLocal(p) ==
    /\ p.pc \in {"claim", "register"} => Loaded(p)
    /\ p.pc \in {"renew", "reload", "register"} => p.gen \in Gens
DrainLocal(d) == d.pc \in {"save", "close", "release"} => d.of \in Gens
RemovalLocal(r) == r.pc # "lock" => r.sess \in Gens

Locals ==
    /\ client.st = "on" => client.at \in Gens /\ client.gw \in Gateways
    /\ \A g \in Gateways :
          /\ AttLocal(att[g]) /\ MaintLocal(maint[g]) /\ DrainLocal(drain[g])
          /\ \A r \in removes[g] : RemovalLocal(r)

Fencing ==
    /\ client.st = "new" => granted = 0
    /\ granted = 0 => rec = NoRec
    /\ granted <= MaxGen
    /\ rec # NoRec => rec.gen = granted
    /\ written <= granted

IInv == TypeOK /\ Locals /\ Fencing

(* A leaf that names no prover is for Zenon. *)
USE Zenon

-----------------------------------------------------------------------------
(* Facts about the constants and the initial records. *)
LEMMA ConstantFacts ==
    /\ MaxGen \in Nat /\ MaxGen > 0 /\ 0 \in Gens /\ 1 \in Gens
    /\ Idle \in Progress /\ Idle.pc = "idle"
    /\ NoInc \in Incarnation /\ NoCkpt \in Checkpoint
  <1>1. MaxGen \in Nat /\ MaxGen > 0 /\ 0 \in Gens /\ 1 \in Gens
    BY SMT, BoundAssumption DEF Gens
  <1>2. Idle \in Progress /\ Idle.pc = "idle"
    BY DEF Idle, Progress, Steps
  <1>3. NoInc \in Incarnation
    BY SMT DEF NoInc, Incarnation
  <1>4. NoCkpt \in Checkpoint
    BY DEF NoCkpt, Checkpoint
  <1> QED BY <1>1, <1>2, <1>3, <1>4

(* Initially nothing was granted and nothing is in progress.               *)
LEMMA InitIInv == Init => IInv
  <1> SUFFICES ASSUME Init PROVE IInv
    BY SMT
  <1>1. TypeOK
    BY ConstantFacts DEF Init, TypeOK, Draining, ClientState, ClientIs
  <1>2. Fencing
    BY SMT, BoundAssumption DEF Init, Fencing, ClientIs
  <1>3. Locals
    BY ConstantFacts DEF Init, Locals, ClientIs, AttLocal, MaintLocal, DrainLocal, RemovalLocal
  <1> QED BY <1>1, <1>2, <1>3 DEF IInv

(* What the store's operations make of a record.                           *)
LEMMA GrantRecord ==
    ASSUME NEW r \in Record \cup {NoRec}, NEW g \in Gateways
    PROVE  /\ Grant(r, g) \in Record /\ Grant(r, g) # NoRec /\ Grant(r, g).owner = g
           /\ Grant(r, g).gen = IF r = NoRec THEN 1 ELSE r.gen + 1
  <1>1. CASE r = NoRec
    <2>1. Grant(r, g) = FreshRecord(g)
      BY <1>1 DEF Grant
    <2>2. FreshRecord(g) \in Record /\ FreshRecord(g).owner = g /\ FreshRecord(g).gen = 1
      BY DEF FreshRecord, Record, LeaseStates
    <2> QED BY <1>1, <2>1, <2>2, StoreAssumption
  <1>2. CASE r # NoRec
    <2>1. r \in Record
      BY <1>2
    <2>2. Grant(r, g) = [r EXCEPT !.owner = g, !.gen = r.gen + 1, !.lease = "live"]
      BY <1>2 DEF Grant
    <2>a. r.gen + 1 \in Nat
      BY SMT, <2>1 DEF Record
    <2>3. Grant(r, g) \in Record /\ Grant(r, g).owner = g /\ Grant(r, g).gen = r.gen + 1
      <3> DEFINE n == r.gen + 1
      <3>1. n \in Nat /\ Grant(r, g) = [r EXCEPT !.owner = g, !.gen = n, !.lease = "live"]
        BY <2>a, <2>2
      <3> HIDE DEF n
      <3>2. Grant(r, g) \in Record /\ Grant(r, g).owner = g /\ Grant(r, g).gen = n
        BY <2>1, <3>1 DEF Record, LeaseStates
      <3> QED BY <3>2 DEF n
    <2> QED BY <1>2, <2>3, StoreAssumption
  <1> QED BY <1>1, <1>2

(* Renewal, release and save keep the generation. *)
LEMMA KeptRecord ==
    ASSUME NEW r \in Record, NEW v \in Nat
    PROVE  /\ Renewed(r) \in Record /\ Renewed(r) # NoRec
           /\ Renewed(r).gen = r.gen /\ Renewed(r).owner = r.owner
           /\ Released(r) \in Record /\ Released(r) # NoRec
           /\ Released(r).gen = r.gen /\ Released(r).owner = Nobody
           /\ Saved(r, v) \in Record /\ Saved(r, v) # NoRec
           /\ Saved(r, v).gen = r.gen /\ Saved(r, v).owner = r.owner
  <1>1. /\ Renewed(r) \in Record /\ Renewed(r).gen = r.gen /\ Renewed(r).owner = r.owner
        /\ Released(r) \in Record /\ Released(r).gen = r.gen /\ Released(r).owner = Nobody
        /\ Saved(r, v) \in Record /\ Saved(r, v).gen = r.gen /\ Saved(r, v).owner = r.owner
    BY DEF Renewed, Released, Saved, Record, LeaseStates
  <1> QED BY <1>1, StoreAssumption

(* What the steps of a session object make of it.                          *)
LEMMA IncarnationOps ==
    ASSUME NEW x \in Incarnation
    PROVE  /\ Closed(x) \in Incarnation /\ Gone(x) \in Incarnation
           /\ Attached(x) \in Incarnation /\ Received(x) \in Incarnation
           /\ Disarmed(x) \in Incarnation
           /\ PumpGoes(Closed(x), "done") \in Incarnation
           /\ x.inbox > 0 => Dispatched(x) \in Incarnation
           /\ x.pumping > 0 => PumpReturned(x) \in Incarnation /\ Leaving(x) \in Incarnation
           /\ x.leaving > 0 => \A b \in BOOLEAN : Exited(x, b) \in Incarnation
           /\ Fired(x) \in Incarnation
           /\ PumpGoes(x, "read") \in Incarnation /\ PumpGoes(x, "done") \in Incarnation
           /\ Armed(x) \in Incarnation
           /\ Serving(x) \in Incarnation
  <1>1. /\ x.active \in Int /\ x.pumping \in Nat /\ x.ver \in Nat /\ x.inbox \in Nat
        /\ x.leaving \in Nat /\ x.life \in {"open", "closed", "gone"}
        /\ x.reaper \in {"off", "armed", "fired"}
    BY DEF Incarnation
  <1>2. Closed(x) \in Incarnation /\ Gone(x) \in Incarnation
    BY <1>1 DEF Closed, Gone, Incarnation
  <1>3. Attached(x) \in Incarnation
    <2> DEFINE m == x.active + 1  n == x.pumping + 1
    <2>1. m \in Int /\ n \in Nat
      BY SMT, <1>1
    <2>2. Attached(x) = [x EXCEPT !.reaper = "off", !.active = m, !.pumping = n]
      BY DEF Attached
    <2> HIDE DEF m, n
    <2> QED BY <2>1, <2>2 DEF Incarnation
  <1>4. Received(x) \in Incarnation
    <2> DEFINE m == x.ver + 1  n == x.inbox + 1
    <2>1. m \in Nat /\ n \in Nat
      BY SMT, <1>1
    <2>2. Received(x) = [x EXCEPT !.ver = m, !.inbox = n]
      BY DEF Received
    <2> HIDE DEF m, n
    <2> QED BY <2>1, <2>2 DEF Incarnation
  <1>5. Disarmed(x) \in Incarnation
    BY <1>1 DEF Disarmed, Incarnation
  <1>6. x.inbox > 0 => Dispatched(x) \in Incarnation
    <2> SUFFICES ASSUME x.inbox > 0 PROVE Dispatched(x) \in Incarnation
      BY SMT
    <2> DEFINE n == x.inbox - 1
    <2>1. n \in Nat
      BY SMT, <1>1
    <2>2. Dispatched(x) = [x EXCEPT !.inbox = n, !.pump = "ckpt"]
      BY DEF Dispatched
    <2> HIDE DEF n
    <2> QED BY <2>1, <2>2 DEF Incarnation
  <1>7. x.pumping > 0 => PumpReturned(x) \in Incarnation /\ Leaving(x) \in Incarnation
    <2> SUFFICES ASSUME x.pumping > 0 PROVE PumpReturned(x) \in Incarnation /\ Leaving(x) \in Incarnation
      BY SMT
    <2> DEFINE m == x.pumping - 1  n == x.leaving + 1
    <2>1. m \in Nat /\ n \in Nat
      BY SMT, <1>1
    <2>2. /\ PumpReturned(x) = [x EXCEPT !.pumping = m]
          /\ Leaving(x) = [x EXCEPT !.pumping = m, !.leaving = n]
      BY DEF PumpReturned, Leaving
    <2> HIDE DEF m, n
    <2> QED BY <2>1, <2>2 DEF Incarnation
  <1>8. ASSUME x.leaving > 0, NEW b \in BOOLEAN PROVE Exited(x, b) \in Incarnation
    <2> DEFINE m == x.leaving - 1  n == x.active - 1
               l == IF b /\ x.active <= 1 /\ x.reaper = "off" THEN "armed" ELSE x.reaper
    <2>1. m \in Nat /\ n \in Int /\ l \in {"off", "armed", "fired"}
      BY SMT, <1>1, <1>8
    <2>2. Exited(x, b) = [x EXCEPT !.leaving = m, !.active = n, !.reaper = l]
      BY DEF Exited
    <2> HIDE DEF m, n, l
    <2> QED BY <2>1, <2>2 DEF Incarnation
  <1>9. /\ Fired(x) \in Incarnation /\ PumpGoes(x, "read") \in Incarnation
        /\ PumpGoes(x, "done") \in Incarnation /\ Armed(x) \in Incarnation
    BY DEF Armed, Fired, PumpGoes, Incarnation
  <1>10. Serving(x) \in Incarnation
    <2> DEFINE n == x.pumping + 1
    <2>1. n \in Nat /\ Serving(x) = [x EXCEPT !.pumping = n]
      BY SMT, <1>1 DEF Serving
    <2> HIDE DEF n
    <2> QED BY <2>1 DEF Incarnation
  <1>11. PumpGoes(Closed(x), "done") \in Incarnation
    BY <1>2 DEF PumpGoes, Incarnation
  <1> QED BY <1>2, <1>3, <1>4, <1>5, <1>6, <1>7, <1>8, <1>9, <1>10, <1>11

(* Replacing one session object keeps the type of the table. *)
LEMMA PutIncarnation ==
    ASSUME NEW f \in [Gens -> Incarnation], NEW i, NEW x \in Incarnation
    PROVE  [f EXCEPT ![i] = x] \in [Gens -> Incarnation]
  OBVIOUS

(* A newly registered session object is typed. *)
LEMMA NewIncarnation ==
    ASSUME NEW g \in Gateways, NEW v \in Nat, NEW m \in Nat, NEW n \in Nat
    PROVE  NewInc(g, v, m, n) \in Incarnation
  BY SMT DEF NewInc, Incarnation

(* A lost takeover race loads again. *)
LEMMA RetryingTyped ==
    ASSUME NEW x \in Progress
    PROVE  Retrying(x) \in Progress /\ Retrying(x).pc = "load"
  <1> DEFINE n == x.tries + 1
  <1>1. n \in Nat /\ Retrying(x) = [x EXCEPT !.pc = "load", !.tries = n]
    BY SMT DEF Retrying, Progress
  <1> HIDE DEF n
  <1> QED BY <1>1 DEF Progress, Steps

(* Asking for a removal adds a call that has not taken the mutex.          *)
LEMMA AskTyped ==
    ASSUME removes \in [Gateways -> SUBSET Removal], NEW i \in Gens,
           NEW why \in {"reap", "renew", "end"}
    PROVE  /\ Call(i, why) \in Removal /\ Call(i, why).pc = "lock"
           /\ Ask(i, why) \in [Gateways -> SUBSET Removal]
           /\ \A g \in Gateways : \A r \in Ask(i, why)[g] : r \in removes[g] \/ RemovalLocal(r)
  <1>1. Call(i, why) \in Removal /\ Call(i, why).pc = "lock"
    BY DEF Call, Removal
  <1> QED BY <1>1 DEF Ask, RemovalLocal
-----------------------------------------------------------------------------
(* One lemma per action: it preserves the invariant.                       *)

(* The client loses its connection. *)
LEMMA ConnLostStep ==
    ASSUME IInv, ConnLost
    PROVE  IInv'
  <1>1. client' \in ClientState
    BY DEF IInv, TypeOK, ConnLost, ClientIs, ClientState, Reject
  <1>2. TypeOK'
    BY <1>1 DEF IInv, TypeOK, ConnLost, ClientIs
  <1>3. Locals'
    BY ConstantFacts DEF IInv, TypeOK, Locals, ConnLost, ClientIs
  <1>4. Fencing'
    BY DEF IInv, TypeOK, Fencing, ConnLost, ClientIs
  <1> QED BY <1>2, <1>3, <1>4 DEF IInv

(* The client redials. *)
LEMMA DialStep ==
    ASSUME IInv, NEW g \in Gateways, Dial(g)
    PROVE  IInv'
  <1>1. client' \in ClientState
    BY DEF IInv, TypeOK, Dial, ClientIs, ClientState, Reject
  <1>2. TypeOK'
    BY <1>1 DEF IInv, TypeOK, Dial, ClientIs
  <1>3. Locals'
    BY ConstantFacts DEF IInv, TypeOK, Locals, Dial, ClientIs
  <1>4. Fencing'
    BY DEF IInv, TypeOK, Fencing, Dial, ClientIs
  <1> QED BY <1>2, <1>3, <1>4 DEF IInv

(* The client closes. *)
LEMMA PeerCloseStep ==
    ASSUME IInv, PeerClose
    PROVE  IInv'
  <1>1. inc' \in [Gens -> Incarnation]
    BY IncarnationOps, PutIncarnation DEF IInv, TypeOK, PeerClose, Locals
  <1>2. client' \in ClientState
    BY DEF IInv, TypeOK, PeerClose, ClientIs, ClientState, Reject
  <1>3. TypeOK'
    BY <1>1, <1>2 DEF IInv, TypeOK, PeerClose, ClientIs
  <1>4. Locals'
    BY ConstantFacts DEF IInv, TypeOK, Locals, PeerClose, ClientIs
  <1>5. Fencing'
    BY DEF IInv, TypeOK, Fencing, PeerClose, ClientIs
  <1> QED BY <1>3, <1>4, <1>5 DEF IInv

(* attach to a session in the map. *)
LEMMA AttachKnownStep ==
    ASSUME IInv, NEW g \in Gateways, AttachKnown(g)
    PROVE  IInv'
  <1>1. inc' \in [Gens -> Incarnation]
    BY IncarnationOps, PutIncarnation DEF IInv, TypeOK, AttachKnown
  <1>2. client' \in ClientState
    BY DEF IInv, TypeOK, AttachKnown, ClientIs, ClientState, Reject
  <1>3. TypeOK'
    BY <1>1, <1>2 DEF IInv, TypeOK, AttachKnown, ClientIs
  <1>4. Locals'
    BY ConstantFacts DEF IInv, TypeOK, Locals, AttachKnown, ClientIs
  <1>5. Fencing'
    BY DEF IInv, TypeOK, Fencing, AttachKnown, ClientIs
  <1> QED BY <1>3, <1>4, <1>5 DEF IInv

(* attach: the takeover loop starts. *)
LEMMA AttachUnknownStep ==
    ASSUME IInv, NEW g \in Gateways, AttachUnknown(g)
    PROVE  IInv'
  <1>1. att'[g] \in Progress /\ AttLocal(att'[g])
    <2>1. \/ att'[g] = At(att[g], "load")
      BY DEF IInv, TypeOK, Locals, AttLocal, AttachUnknown
    <2>2. CASE att'[g] = At(att[g], "load")
      <3>1. att[g] \in Progress /\ AttLocal(att[g])
        BY DEF IInv, TypeOK, Locals
      <3>2. att'[g] \in Progress /\ att'[g].pc = "load"
        BY <2>2, <3>1 DEF At, Progress, Steps
      <3> QED BY <2>2, <3>1, <3>2 DEF AttLocal, Loaded
    <2> QED BY <2>1, <2>2
  <1>2. att' \in [Gateways -> Progress] /\ \A h \in Gateways : h = g \/ att'[h] = att[h]
    BY <1>1 DEF IInv, TypeOK, AttachUnknown
  <1>3. TypeOK'
    BY <1>2 DEF IInv, TypeOK, AttachUnknown
  <1>4. Locals'
    BY <1>1, <1>2 DEF IInv, Locals, AttachUnknown
  <1>5. Fencing'
    BY DEF IInv, Fencing, AttachUnknown
  <1> QED BY <1>3, <1>4, <1>5 DEF IInv

(* attach: Load and the creator check. *)
LEMMA AttachLoadStep ==
    ASSUME IInv, NEW g \in Gateways, AttachLoad(g)
    PROVE  IInv'
  <1>1. att'[g] \in Progress /\ AttLocal(att'[g])
    <2>1. \/ att'[g] = AtWith(att[g], "take", rec) /\ rec \in Record /\ rec.gen > 0
          \/ att'[g] = Idle
      BY SMT DEF IInv, TypeOK, Locals, AttLocal, AttachLoad, Fencing, Record
    <2>2. CASE att'[g] = AtWith(att[g], "take", rec) /\ rec \in Record /\ rec.gen > 0
      <3>1. att[g] \in Progress /\ AttLocal(att[g])
        BY DEF IInv, TypeOK, Locals
      <3>2. att'[g] \in Progress /\ att'[g].pc = "take" /\ att'[g].ps = rec /\ att'[g].gen = att[g].gen
        BY <2>2, <3>1 DEF AtWith, Progress, Steps
      <3> QED BY <2>2, <3>1, <3>2 DEF AttLocal, Loaded
    <2>3. CASE att'[g] = Idle
      BY <2>3, ConstantFacts DEF AttLocal
    <2> QED BY <2>1, <2>2, <2>3
  <1>2. att' \in [Gateways -> Progress] /\ \A h \in Gateways : h = g \/ att'[h] = att[h]
    BY <1>1 DEF IInv, TypeOK, AttachLoad
  <1>3. client' \in ClientState /\ (client' = client \/ client'.st = "dead")
    BY SMT DEF IInv, TypeOK, AttachLoad, Reject, ClientIs, ClientState
  <1>4. TypeOK'
    BY <1>2, <1>3 DEF IInv, TypeOK, AttachLoad
  <1>5. Locals'
    BY <1>1, <1>2, <1>3 DEF IInv, Locals, AttachLoad
  <1>6. Fencing'
    BY <1>3 DEF IInv, Fencing, AttachLoad
  <1> QED BY <1>4, <1>5, <1>6 DEF IInv

(* renewOnce returns. *)
LEMMA RenewYieldedStep ==
    ASSUME IInv, NEW g \in Gateways, RenewYielded(g)
    PROVE  IInv'
  <1>1. maint'[g] \in Progress /\ MaintLocal(maint'[g])
    <2>1. \/ maint'[g] = Idle
      BY DEF IInv, TypeOK, Locals, MaintLocal, RenewYielded
    <2>2. CASE maint'[g] = Idle
      BY <2>2, ConstantFacts DEF MaintLocal
    <2> QED BY <2>1, <2>2
  <1>2. maint' \in [Gateways -> Progress] /\ \A h \in Gateways : h = g \/ maint'[h] = maint[h]
    BY <1>1 DEF IInv, TypeOK, RenewYielded
  <1>3. TypeOK'
    BY <1>2 DEF IInv, TypeOK, RenewYielded
  <1>4. Locals'
    BY <1>1, <1>2 DEF IInv, Locals, RenewYielded
  <1>5. Fencing'
    BY DEF IInv, Fencing, RenewYielded
  <1> QED BY <1>3, <1>4, <1>5 DEF IInv

(* renewOnce snapshots. *)
LEMMA RenewBeginStep ==
    ASSUME IInv, NEW g \in Gateways, RenewBegin(g)
    PROVE  IInv'
  <1>1. maint'[g] \in Progress /\ MaintLocal(maint'[g])
    <2>1. \/ maint'[g] = AtGen(maint[g], "renew", sessions[g]) /\ sessions[g] \in Gens /\ sessions[g] \in Nat
      BY SMT DEF IInv, TypeOK, Locals, MaintLocal, RenewBegin, Gens, None
    <2>2. CASE maint'[g] = AtGen(maint[g], "renew", sessions[g]) /\ sessions[g] \in Gens /\ sessions[g] \in Nat
      <3>1. maint[g] \in Progress /\ MaintLocal(maint[g])
        BY DEF IInv, TypeOK, Locals
      <3>2. maint'[g] \in Progress /\ maint'[g].pc = "renew" /\ maint'[g].gen = sessions[g] /\ maint'[g].ps = maint[g].ps
        BY <2>2, <3>1 DEF AtGen, Progress, Steps
      <3> QED BY <2>2, <3>1, <3>2 DEF MaintLocal, Loaded
    <2> QED BY <2>1, <2>2
  <1>2. maint' \in [Gateways -> Progress] /\ \A h \in Gateways : h = g \/ maint'[h] = maint[h]
    BY <1>1 DEF IInv, TypeOK, RenewBegin
  <1>3. TypeOK'
    BY <1>2 DEF IInv, TypeOK, RenewBegin
  <1>4. Locals'
    BY <1>1, <1>2 DEF IInv, Locals, RenewBegin
  <1>5. Fencing'
    BY DEF IInv, Fencing, RenewBegin
  <1> QED BY <1>3, <1>4, <1>5 DEF IInv

(* sweepOnce lists. *)
LEMMA SweepBeginStep ==
    ASSUME IInv, NEW g \in Gateways, SweepBegin(g)
    PROVE  IInv'
  <1>1. maint'[g] \in Progress /\ MaintLocal(maint'[g])
    <2>1. \/ maint'[g] = AtWith(maint[g], "claim", rec) /\ rec \in Record /\ rec.gen > 0
      BY SMT DEF IInv, TypeOK, Locals, MaintLocal, SweepBegin, Fencing, Record, adoptable
    <2>2. CASE maint'[g] = AtWith(maint[g], "claim", rec) /\ rec \in Record /\ rec.gen > 0
      <3>1. maint[g] \in Progress /\ MaintLocal(maint[g])
        BY DEF IInv, TypeOK, Locals
      <3>2. maint'[g] \in Progress /\ maint'[g].pc = "claim" /\ maint'[g].ps = rec /\ maint'[g].gen = maint[g].gen
        BY <2>2, <3>1 DEF AtWith, Progress, Steps
      <3> QED BY <2>2, <3>1, <3>2 DEF MaintLocal, Loaded
    <2> QED BY <2>1, <2>2
  <1>2. maint' \in [Gateways -> Progress] /\ \A h \in Gateways : h = g \/ maint'[h] = maint[h]
    BY <1>1 DEF IInv, TypeOK, SweepBegin
  <1>3. TypeOK'
    BY <1>2 DEF IInv, TypeOK, SweepBegin
  <1>4. Locals'
    BY <1>1, <1>2 DEF IInv, Locals, SweepBegin
  <1>5. Fencing'
    BY DEF IInv, Fencing, SweepBegin
  <1> QED BY <1>3, <1>4, <1>5 DEF IInv

(* adopt loads again. *)
LEMMA SweepReloadStep ==
    ASSUME IInv, NEW g \in Gateways, SweepReload(g)
    PROVE  IInv'
  <1>1. maint'[g] \in Progress /\ MaintLocal(maint'[g])
    <2>1. \/ maint'[g] = AtWith(maint[g], "register", rec) /\ maint[g].pc = "reload" /\ rec \in Record /\ rec.gen > 0
          \/ maint'[g] = At(maint[g], "release")
      BY SMT DEF IInv, TypeOK, Locals, MaintLocal, SweepReload, Fencing, Record
    <2>2. CASE maint'[g] = AtWith(maint[g], "register", rec) /\ maint[g].pc = "reload" /\ rec \in Record /\ rec.gen > 0
      <3>1. maint[g] \in Progress /\ MaintLocal(maint[g])
        BY DEF IInv, TypeOK, Locals
      <3>2. maint'[g] \in Progress /\ maint'[g].pc = "register" /\ maint'[g].ps = rec /\ maint'[g].gen = maint[g].gen
        BY <2>2, <3>1 DEF AtWith, Progress, Steps
      <3> QED BY <2>2, <3>1, <3>2 DEF MaintLocal, Loaded
    <2>3. CASE maint'[g] = At(maint[g], "release")
      <3>1. maint[g] \in Progress /\ MaintLocal(maint[g])
        BY DEF IInv, TypeOK, Locals
      <3>2. maint'[g] \in Progress /\ maint'[g].pc = "release"
        BY <2>3, <3>1 DEF At, Progress, Steps
      <3> QED BY <2>3, <3>1, <3>2 DEF MaintLocal, Loaded
    <2> QED BY <2>1, <2>2, <2>3
  <1>2. maint' \in [Gateways -> Progress] /\ \A h \in Gateways : h = g \/ maint'[h] = maint[h]
    BY <1>1 DEF IInv, TypeOK, SweepReload
  <1>3. TypeOK'
    BY <1>2 DEF IInv, TypeOK, SweepReload
  <1>4. Locals'
    BY <1>1, <1>2 DEF IInv, Locals, SweepReload
  <1>5. Fencing'
    BY DEF IInv, Fencing, SweepReload
  <1> QED BY <1>3, <1>4, <1>5 DEF IInv

(* A message is received. *)
LEMMA ReceiveStep ==
    ASSUME IInv, NEW i \in Gens, Receive(i)
    PROVE  IInv'
  <1>1. inc' \in [Gens -> Incarnation]
    BY IncarnationOps, PutIncarnation DEF IInv, TypeOK, Receive
  <1>2. TypeOK'
    BY <1>1 DEF IInv, TypeOK, Receive
  <1>3. Locals'
    BY ConstantFacts DEF IInv, TypeOK, Locals, Receive
  <1>4. Fencing'
    BY DEF IInv, TypeOK, Fencing, Receive
  <1> QED BY <1>2, <1>3, <1>4 DEF IInv

(* A message is written to the backend. *)
LEMMA DispatchStep ==
    ASSUME IInv, NEW i \in Gens, Dispatch(i)
    PROVE  IInv'
  <1>1. inc' \in [Gens -> Incarnation]
    BY IncarnationOps, PutIncarnation DEF IInv, TypeOK, Dispatch
  <1>2. TypeOK'
    BY <1>1 DEF IInv, TypeOK, Dispatch
  <1>3. Locals'
    BY ConstantFacts DEF IInv, TypeOK, Locals, Dispatch
  <1>4. Fencing'
    BY DEF IInv, TypeOK, Fencing, Dispatch
  <1> QED BY <1>2, <1>3, <1>4 DEF IInv

(* The backend is gone. *)
LEMMA DispatchFailsStep ==
    ASSUME IInv, NEW i \in Gens, DispatchFails(i)
    PROVE  IInv'
  <1>1. inc' \in [Gens -> Incarnation]
    BY IncarnationOps, PutIncarnation DEF IInv, TypeOK, DispatchFails
  <1>2. /\ removes' \in [Gateways -> SUBSET Removal]
        /\ \A g \in Gateways : \A r \in removes'[g] : r \in removes[g] \/ RemovalLocal(r)
    BY AskTyped DEF IInv, TypeOK, DispatchFails
  <1>3. client' \in ClientState /\ (client' = client \/ client'.st = "done")
    BY SMT DEF IInv, TypeOK, DispatchFails, ClientMaySeeClose, ClientIs, ClientState
  <1>4. TypeOK'
    BY <1>1, <1>2, <1>3 DEF IInv, TypeOK, DispatchFails
  <1>5. Locals'
    BY <1>2, <1>3 DEF IInv, Locals, DispatchFails
  <1>6. Fencing'
    BY <1>3 DEF IInv, Fencing, DispatchFails
  <1> QED BY <1>4, <1>5, <1>6 DEF IInv

(* checkpoint snapshots. *)
LEMMA CheckpointBeginStep ==
    ASSUME IInv, NEW i \in Gens, NEW by \in {"pump", "ack", "shutdown"}, CheckpointBegin(i, by)
    PROVE  IInv'
  <1>1. ckpt' \in [Gens -> Checkpoint]
    BY DEF IInv, TypeOK, CheckpointBegin, Checkpoint, Incarnation
  <1>2. TypeOK'
    BY <1>1 DEF IInv, TypeOK, CheckpointBegin
  <1>3. Locals'
    BY ConstantFacts DEF IInv, TypeOK, Locals, CheckpointBegin
  <1>4. Fencing'
    BY DEF IInv, TypeOK, Fencing, CheckpointBegin
  <1> QED BY <1>2, <1>3, <1>4 DEF IInv

(* checkpoint without a lease. *)
LEMMA CheckpointDegradedStep ==
    ASSUME IInv, CheckpointDegraded
    PROVE  IInv'
  <1>1. inc' \in [Gens -> Incarnation]
    BY IncarnationOps, PutIncarnation, ConstantFacts DEF IInv, TypeOK, CheckpointDegraded
  <1>2. TypeOK'
    BY <1>1 DEF IInv, TypeOK, CheckpointDegraded
  <1>3. Locals'
    BY ConstantFacts DEF IInv, TypeOK, Locals, CheckpointDegraded
  <1>4. Fencing'
    BY DEF IInv, TypeOK, Fencing, CheckpointDegraded
  <1> QED BY <1>2, <1>3, <1>4 DEF IInv

(* The backend ends. *)
LEMMA BackendExitsStep ==
    ASSUME IInv, NEW i \in Gens, BackendExits(i)
    PROVE  IInv'
  <1>1. inc' \in [Gens -> Incarnation]
    BY IncarnationOps, PutIncarnation DEF IInv, TypeOK, BackendExits
  <1>2. /\ removes' \in [Gateways -> SUBSET Removal]
        /\ \A g \in Gateways : \A r \in removes'[g] : r \in removes[g] \/ RemovalLocal(r)
    BY AskTyped DEF IInv, TypeOK, BackendExits
  <1>3. client' \in ClientState /\ (client' = client \/ client'.st = "done")
    BY SMT DEF IInv, TypeOK, BackendExits, ClientMaySeeClose, ClientIs, ClientState
  <1>4. TypeOK'
    BY <1>1, <1>2, <1>3 DEF IInv, TypeOK, BackendExits
  <1>5. Locals'
    BY <1>2, <1>3 DEF IInv, Locals, BackendExits
  <1>6. Fencing'
    BY <1>3 DEF IInv, Fencing, BackendExits
  <1> QED BY <1>4, <1>5, <1>6 DEF IInv

(* handleExit under s.mu. *)
LEMMA HandleExitStep ==
    ASSUME IInv, NEW i \in Gens, HandleExit(i)
    PROVE  IInv'
  <1>1. inc' \in [Gens -> Incarnation]
    BY IncarnationOps, PutIncarnation DEF IInv, TypeOK, HandleExit
  <1>2. TypeOK'
    BY <1>1 DEF IInv, TypeOK, HandleExit
  <1>3. Locals'
    BY ConstantFacts DEF IInv, TypeOK, Locals, HandleExit
  <1>4. Fencing'
    BY DEF IInv, TypeOK, Fencing, HandleExit
  <1> QED BY <1>2, <1>3, <1>4 DEF IInv

(* The reaper's timer fires. *)
LEMMA ReaperFiresStep ==
    ASSUME IInv, NEW i \in Gens, ReaperFires(i)
    PROVE  IInv'
  <1>1. inc' \in [Gens -> Incarnation]
    BY IncarnationOps, PutIncarnation DEF IInv, TypeOK, ReaperFires
  <1>2. removes' \in [Gateways -> SUBSET Removal]
    BY AskTyped DEF IInv, TypeOK, ReaperFires
  <1>3. TypeOK'
    BY <1>1, <1>2 DEF IInv, TypeOK, ReaperFires
  <1>4. Locals'
    BY ConstantFacts, AskTyped DEF IInv, TypeOK, Locals, ReaperFires
  <1>5. Fencing'
    BY DEF IInv, TypeOK, Fencing, ReaperFires
  <1> QED BY <1>3, <1>4, <1>5 DEF IInv

(* The process is told to stop. *)
LEMMA ShutdownBeginStep ==
    ASSUME IInv, NEW g \in Gateways, ShutdownBegin(g)
    PROVE  IInv'
  <1>1. up' \in [Gateways -> {"up", "stopping", "down"}]
    BY DEF IInv, TypeOK, ShutdownBegin
  <1>2. TypeOK'
    BY <1>1 DEF IInv, TypeOK, ShutdownBegin
  <1>3. Locals'
    BY ConstantFacts DEF IInv, TypeOK, Locals, ShutdownBegin
  <1>4. Fencing'
    BY DEF IInv, TypeOK, Fencing, ShutdownBegin
  <1> QED BY <1>2, <1>3, <1>4 DEF IInv

-----------------------------------------------------------------------------
(* The steps that grant a lease. *)
(* attach of a new session acquires the first generation, or none. *)
LEMMA OpenStep ==
    ASSUME IInv, NEW g \in Gateways, Open(g)
    PROVE  IInv'
  <1>1. inc' \in [Gens -> Incarnation]
    BY SMT, NewIncarnation, ConstantFacts DEF IInv, TypeOK, Open
  <1>2. client' \in ClientState /\ client'.st = "on" /\ client'.at \in Gens /\ client'.gw \in Gateways
    BY SMT, ConstantFacts DEF Open, ClientIs, ClientState
  <1>3. /\ rec = NoRec /\ granted = 0
        /\ \/ rec' = Grant(rec, g) /\ granted' = 1
           \/ rec' = rec /\ granted' = granted
    BY DEF IInv, Fencing, Open
  <1>4. rec' \in Record \cup {NoRec} /\ granted' \in Nat /\ (rec' # NoRec => rec'.gen = 1 /\ granted' = 1)
    <2>1. Grant(NoRec, g) \in Record /\ Grant(NoRec, g).gen = 1
      BY GrantRecord
    <2> QED BY SMT, <1>3, <2>1
  <1>5. TypeOK'
    BY <1>1, <1>2, <1>4, ConstantFacts DEF IInv, TypeOK, Open
  <1>6. Locals'
    BY <1>2 DEF IInv, Locals, Open
  <1>7. Fencing'
    BY SMT, <1>2, <1>3, <1>4, ConstantFacts DEF IInv, TypeOK, Fencing, Open
  <1> QED BY <1>5, <1>6, <1>7 DEF IInv

(* A grant by compare-and-swap on a loaded record keeps the fencing facts. *)
LEMMA GrantStep ==
    ASSUME IInv, NEW g \in Gateways, rec # NoRec, granted < MaxGen
    PROVE  /\ Grant(rec, g) \in Record /\ Grant(rec, g) # NoRec
           /\ Grant(rec, g).gen = granted + 1 /\ granted + 1 \in Gens /\ granted + 1 \in Nat
           /\ granted > 0 /\ Grant(rec, g).owner = g
  BY SMT, GrantRecord, ConstantFacts DEF IInv, TypeOK, Fencing, Gens

(* attach: TakeoverLease by compare-and-swap on the loaded generation. *)
LEMMA AttachTakeStep ==
    ASSUME IInv, NEW g \in Gateways, AttachTake(g)
    PROVE  IInv'
  <1>1. att[g] \in Progress /\ AttLocal(att[g]) /\ Loaded(att[g]) /\ att[g].pc = "take"
    BY DEF IInv, TypeOK, Locals, AttLocal, AttachTake
  <1>2. \/ /\ rec # NoRec /\ granted < MaxGen
           /\ rec' = Grant(rec, g) /\ granted' = granted + 1
           /\ att' = [att EXCEPT ![g] = AtGen(att[g], "spawn", granted + 1)]
           /\ client' = client
        \/ /\ att' = [att EXCEPT ![g] = Retrying(att[g])]
           /\ rec' = rec /\ granted' = granted /\ client' = client
        \/ /\ att' = [att EXCEPT ![g] = Idle] /\ Reject
           /\ rec' = rec /\ granted' = granted
    <2>1. canTakeover(rec, att[g].ps.gen) => rec # NoRec
      BY SMT, <1>1 DEF canTakeover, Loaded
    <2> QED BY <2>1, GrantStep DEF AttachTake
  <1>3. att'[g] \in Progress /\ AttLocal(att'[g])
    <2>1. CASE att' = [att EXCEPT ![g] = Idle]
      BY <2>1, ConstantFacts DEF AttLocal, IInv, TypeOK
    <2>2. CASE att' = [att EXCEPT ![g] = Retrying(att[g])]
      BY <2>2, <1>1, RetryingTyped DEF AttLocal, IInv, TypeOK
    <2>3. CASE /\ rec # NoRec /\ granted < MaxGen
               /\ att' = [att EXCEPT ![g] = AtGen(att[g], "spawn", granted + 1)]
      <3> DEFINE n == granted + 1
      <3>1. n \in Nat /\ n \in Gens
        BY <2>3, GrantStep
      <3>2. att'[g] = AtGen(att[g], "spawn", n)
        BY <2>3 DEF IInv, TypeOK
      <3> HIDE DEF n
      <3>3. att'[g] \in Progress /\ att'[g].ps = att[g].ps /\ att'[g].gen = n
        BY <3>1, <3>2, <1>1 DEF AtGen, Progress, Steps
      <3> QED BY <3>1, <3>3, <1>1 DEF AttLocal, Loaded
    <2> QED BY <1>2, <2>1, <2>2, <2>3
  <1>4. att' \in [Gateways -> Progress] /\ \A h \in Gateways : h = g \/ att'[h] = att[h]
    BY <1>2, <1>3 DEF IInv, TypeOK
  <1>5. client' \in ClientState /\ (client' = client \/ client'.st = "dead")
    BY SMT, <1>2 DEF IInv, TypeOK, Reject, ClientIs, ClientState
  <1>6. rec' \in Record \cup {NoRec} /\ granted' \in Nat
    BY <1>2, GrantStep DEF IInv, TypeOK
  <1>7. TypeOK'
    BY <1>4, <1>5, <1>6 DEF IInv, TypeOK, AttachTake
  <1>8. Locals'
    BY <1>3, <1>4, <1>5 DEF IInv, Locals, AttachTake
  <1>9. Fencing'
    BY SMT, <1>2, <1>5, GrantStep DEF IInv, TypeOK, Fencing, AttachTake, Gens
  <1> QED BY <1>7, <1>8, <1>9 DEF IInv

(* adopt: AcquireLease on the listed generation. *)
LEMMA SweepClaimStep ==
    ASSUME IInv, NEW g \in Gateways, SweepClaim(g)
    PROVE  IInv'
  <1>1. maint[g] \in Progress /\ MaintLocal(maint[g]) /\ Loaded(maint[g]) /\ maint[g].pc = "claim"
    BY DEF IInv, TypeOK, Locals, MaintLocal, SweepClaim
  <1>2. \/ /\ rec # NoRec /\ granted < MaxGen
           /\ rec' = Grant(rec, g) /\ granted' = granted + 1
           /\ maint' = [maint EXCEPT ![g] = AtGen(maint[g], "reload", granted + 1)]
        \/ maint' = [maint EXCEPT ![g] = Idle] /\ rec' = rec /\ granted' = granted
    <2>1. canAcquire(rec, g, maint[g].ps.gen) => rec # NoRec
      BY SMT, <1>1 DEF canAcquire, Loaded
    <2> QED BY <2>1, GrantStep DEF SweepClaim
  <1>3. maint'[g] \in Progress /\ MaintLocal(maint'[g])
    <2>1. CASE maint' = [maint EXCEPT ![g] = Idle]
      BY <2>1, ConstantFacts DEF MaintLocal, IInv, TypeOK
    <2>2. CASE /\ rec # NoRec /\ granted < MaxGen
               /\ maint' = [maint EXCEPT ![g] = AtGen(maint[g], "reload", granted + 1)]
      <3> DEFINE n == granted + 1
      <3>1. n \in Nat /\ n \in Gens
        BY <2>2, GrantStep
      <3>2. maint'[g] = AtGen(maint[g], "reload", n)
        BY <2>2 DEF IInv, TypeOK
      <3> HIDE DEF n
      <3>3. maint'[g] \in Progress /\ maint'[g].pc = "reload" /\ maint'[g].gen = n
        BY <3>1, <3>2, <1>1 DEF AtGen, Progress, Steps
      <3> QED BY <3>1, <3>3 DEF MaintLocal
    <2> QED BY <1>2, <2>1, <2>2
  <1>4. maint' \in [Gateways -> Progress] /\ \A h \in Gateways : h = g \/ maint'[h] = maint[h]
    BY <1>2, <1>3 DEF IInv, TypeOK
  <1>5. rec' \in Record \cup {NoRec} /\ granted' \in Nat
    BY <1>2, GrantStep DEF IInv, TypeOK
  <1>6. TypeOK'
    BY <1>4, <1>5 DEF IInv, TypeOK, SweepClaim
  <1>7. Locals'
    BY <1>3, <1>4 DEF IInv, Locals, SweepClaim
  <1>8. Fencing'
    BY SMT, <1>2, GrantStep DEF IInv, TypeOK, Fencing, SweepClaim, Gens
  <1> QED BY <1>6, <1>7, <1>8 DEF IInv

(* attach: resume from the loaded record. *)
LEMMA AttachSpawnStep ==
    ASSUME IInv, NEW g \in Gateways, AttachSpawn(g)
    PROVE  IInv'
  <1>1. att[g] \in Progress /\ att[g].gen \in Gens /\ att[g].ps.ver \in Nat
    BY DEF IInv, TypeOK, Locals, AttLocal, Loaded, AttachSpawn, Record
  <1>2. att'[g] \in Progress /\ att'[g].pc \in {"save", "idle"}
    <2>1. att'[g] = At(att[g], "save") \/ att'[g] = Idle
      BY DEF IInv, TypeOK, AttachSpawn
    <2>2. CASE att'[g] = At(att[g], "save")
      BY <2>2, <1>1 DEF At, Progress, Steps
    <2> QED BY <2>1, <2>2, ConstantFacts
  <1>3. /\ att' \in [Gateways -> Progress] /\ \A h \in Gateways : h = g \/ att'[h] = att[h]
        /\ AttLocal(att'[g])
    BY <1>2 DEF IInv, TypeOK, AttachSpawn, AttLocal
  <1>4. client' \in ClientState /\ (client' = client \/ client'.st = "dead")
    BY SMT DEF IInv, TypeOK, AttachSpawn, Reject, ClientIs, ClientState
  <1>5. NewInc(g, att[g].ps.ver, 1, 0) \in Incarnation
    BY <1>1, NewIncarnation
  <1>6. [ver |-> att[g].ps.ver, by |-> "resume"] \in Checkpoint
    BY <1>1 DEF Checkpoint
  <1>7. /\ inc' \in [Gens -> Incarnation] /\ ckpt' \in [Gens -> Checkpoint]
        /\ sessions' \in [Gateways -> Gens \cup {None}]
    BY SMT, <1>1, <1>5, <1>6 DEF IInv, TypeOK, AttachSpawn, Register
  <1>8. TypeOK'
    BY <1>3, <1>4, <1>7 DEF IInv, TypeOK, AttachSpawn
  <1>9. Locals'
    BY <1>3, <1>4 DEF IInv, Locals, AttachSpawn
  <1>10. Fencing'
    BY <1>4 DEF IInv, Fencing, AttachSpawn
  <1> QED BY <1>8, <1>9, <1>10 DEF IInv

(* adopt: resume from the re-loaded record. *)
LEMMA SweepRegisterStep ==
    ASSUME IInv, NEW g \in Gateways, SweepRegister(g)
    PROVE  IInv'
  <1>1. maint[g] \in Progress /\ maint[g].gen \in Gens /\ maint[g].ps.ver \in Nat
    BY DEF IInv, TypeOK, Locals, MaintLocal, Loaded, SweepRegister, Record
  <1>2. maint'[g] \in Progress /\ maint'[g].pc \in {"save", "release"}
    <2>1. maint'[g] = At(maint[g], "save") \/ maint'[g] = At(maint[g], "release")
      BY DEF IInv, TypeOK, SweepRegister
    <2> QED BY <2>1, <1>1 DEF At, Progress, Steps
  <1>3. /\ maint' \in [Gateways -> Progress] /\ \A h \in Gateways : h = g \/ maint'[h] = maint[h]
        /\ MaintLocal(maint'[g])
    BY <1>2 DEF IInv, TypeOK, SweepRegister, MaintLocal
  <1>4. NewInc(g, maint[g].ps.ver, 0, 0) \in Incarnation
    BY <1>1, NewIncarnation
  <1>5. [ver |-> maint[g].ps.ver, by |-> "resume"] \in Checkpoint
    BY <1>1 DEF Checkpoint
  <1>6. /\ inc' \in [Gens -> Incarnation] /\ ckpt' \in [Gens -> Checkpoint]
        /\ sessions' \in [Gateways -> Gens \cup {None}]
    BY SMT, <1>1, <1>4, <1>5 DEF IInv, TypeOK, SweepRegister, Register
  <1>7. TypeOK'
    BY <1>3, <1>6 DEF IInv, TypeOK, SweepRegister
  <1>8. Locals'
    BY <1>3 DEF IInv, Locals, SweepRegister
  <1>9. Fencing'
    BY DEF IInv, Fencing, SweepRegister
  <1> QED BY <1>7, <1>8, <1>9 DEF IInv

-----------------------------------------------------------------------------
(* A Handle's pump ends. *)
LEMMA HandleReturnsStep ==
    ASSUME IInv, NEW i \in Gens, HandleReturns(i)
    PROVE  IInv'
  <1>0. inc[i] \in Incarnation /\ inc[i].pumping > 0
    BY DEF IInv, TypeOK, HandleReturns
  <1>1. inc' \in [Gens -> Incarnation]
    <2>1. Leaving(inc[i]) \in Incarnation /\ PumpReturned(inc[i]) \in Incarnation
      BY <1>0, IncarnationOps
    <2> QED BY <2>1 DEF IInv, TypeOK, HandleReturns
  <1>2. /\ removes' \in [Gateways -> SUBSET Removal]
        /\ \A h \in Gateways : \A r \in removes'[h] : r \in removes[h] \/ RemovalLocal(r)
    BY AskTyped DEF IInv, TypeOK, HandleReturns
  <1>3. TypeOK'
    BY <1>1, <1>2 DEF IInv, TypeOK, HandleReturns
  <1>4. Locals'
    BY <1>2 DEF IInv, Locals, HandleReturns
  <1>5. Fencing'
    BY DEF IInv, Fencing, HandleReturns
  <1> QED BY <1>3, <1>4, <1>5 DEF IInv

(* checkpoint: SaveIfOwned, and what its caller does next. *)
LEMMA CheckpointSaveStep ==
    ASSUME IInv, NEW i \in Gens, CheckpointSave(i)
    PROVE  IInv'
  <1>1. inc[i] \in Incarnation /\ inc[i].gw \in Gateways /\ ckpt[i].ver \in Nat
    BY DEF IInv, TypeOK, CheckpointSave, Running, Incarnation, Checkpoint
  <1>2. /\ rec' \in Record \cup {NoRec} /\ written' \in Nat /\ written' <= granted
        /\ rec' # NoRec => rec # NoRec /\ rec'.gen = rec.gen
    <2>1. \/ Holds(rec, inc[i].gw, i) /\ rec' = Saved(rec, ckpt[i].ver) /\ written' = i
          \/ rec' = rec /\ written' = written
      BY DEF CheckpointSave
    <2>2. CASE Holds(rec, inc[i].gw, i) /\ rec' = Saved(rec, ckpt[i].ver) /\ written' = i
      <3>1. rec # NoRec /\ rec \in Record /\ rec.gen = i /\ granted = i
        BY <2>2 DEF Holds, IInv, TypeOK, Fencing
      <3>2. rec' \in Record /\ rec'.gen = rec.gen
        BY <2>2, <3>1, <1>1, KeptRecord
      <3> QED BY SMT, <2>2, <3>1, <3>2 DEF IInv, TypeOK
    <2>3. CASE rec' = rec /\ written' = written
      BY <2>3 DEF IInv, TypeOK, Fencing
    <2> QED BY <2>1, <2>2, <2>3
  <1>3. /\ removes' \in [Gateways -> SUBSET Removal]
        /\ \A h \in Gateways : \A r \in removes'[h] : r \in removes[h] \/ RemovalLocal(r)
    BY AskTyped DEF IInv, TypeOK, CheckpointSave
  <1>4. inc' \in [Gens -> Incarnation]
    <2>1. /\ PumpGoes(inc[i], "read") \in Incarnation /\ Armed(inc[i]) \in Incarnation
          /\ Serving(inc[i]) \in Incarnation
      BY <1>1, IncarnationOps
    <2> DEFINE g == inc[i].gw
    <2>2. inc' = [inc EXCEPT ![i] =
                     IF ckpt[i].by = "pump" THEN PumpGoes(inc[i], "read")
                     ELSE IF ckpt[i].by = "resume" /\ maint[g].pc = "save"
                          THEN Armed(inc[i])
                     ELSE IF ckpt[i].by = "resume" /\ att[g].pc = "save"
                          THEN Serving(inc[i])
                     ELSE inc[i]]
      BY DEF CheckpointSave, CheckpointReturns, IInv, TypeOK
    <2> QED BY <1>1, <2>1, <2>2 DEF IInv, TypeOK
  <1>5. ckpt' \in [Gens -> Checkpoint]
    BY ConstantFacts DEF CheckpointSave, CheckpointReturns, IInv, TypeOK
  <1>6. /\ att' \in [Gateways -> Progress]
        /\ \A h \in Gateways : att'[h] = att[h] \/ att'[h] = Idle
    BY <1>1, ConstantFacts DEF CheckpointSave, CheckpointReturns, IInv, TypeOK
  <1>7. /\ maint' \in [Gateways -> Progress]
        /\ \A h \in Gateways : maint'[h] = maint[h] \/ maint'[h] = Idle
    BY <1>1, ConstantFacts DEF CheckpointSave, CheckpointReturns, IInv, TypeOK
  <1>8. client' \in ClientState /\ (client' = client \/ client' = ClientIs("on", inc[i].gw, i))
    BY <1>1 DEF CheckpointSave, CheckpointReturns, IInv, TypeOK, ClientIs, ClientState
  <1>9. /\ drain' \in [Gateways -> Draining]
        /\ \A h \in Gateways : drain'[h] = drain[h] \/ drain'[h] = [pc |-> "close", of |-> i]
    BY <1>1 DEF CheckpointSave, CheckpointReturns, IInv, TypeOK, Draining
  <1>10. TypeOK'
    <2>1. granted' = granted /\ sessions' = sessions /\ up' = up
      BY DEF CheckpointSave
    <2> QED BY <1>2, <1>3, <1>4, <1>5, <1>6, <1>7, <1>8, <1>9, <2>1 DEF IInv, TypeOK
  <1>11. Locals'
    <2>1. client'.st = "on" => client'.at \in Gens /\ client'.gw \in Gateways
      BY SMT, <1>1, <1>8 DEF IInv, Locals, ClientIs
    <2>2. ASSUME NEW h \in Gateways PROVE AttLocal(att'[h]) /\ MaintLocal(maint'[h])
      BY <1>6, <1>7, ConstantFacts DEF IInv, Locals, AttLocal, MaintLocal
    <2>3. ASSUME NEW h \in Gateways PROVE DrainLocal(drain'[h])
      BY SMT, <1>9 DEF IInv, Locals, DrainLocal
    <2>4. ASSUME NEW h \in Gateways, NEW r \in removes'[h] PROVE RemovalLocal(r)
      BY <1>3 DEF IInv, Locals
    <2> QED BY <2>1, <2>2, <2>3, <2>4 DEF Locals
  <1>12. Fencing'
    <2>1. client'.st = "new" => client' = client
      BY SMT, <1>8 DEF ClientIs
    <2>2. granted' = granted
      BY DEF CheckpointSave
    <2> QED BY <1>2, <2>1, <2>2 DEF IInv, Fencing
  <1> QED BY <1>10, <1>11, <1>12 DEF IInv

(* renewOnce: RenewLease. *)
LEMMA RenewLeaseStep ==
    ASSUME IInv, NEW g \in Gateways, RenewLease(g)
    PROVE  IInv'
  <1>1. maint[g] \in Progress /\ maint[g].gen \in Gens
    BY DEF IInv, TypeOK, Locals, MaintLocal, RenewLease
  <1>2. maint'[g] \in Progress /\ MaintLocal(maint'[g])
    <2>1. maint'[g] = At(maint[g], "yield") \/ maint'[g] = Idle
      BY DEF IInv, TypeOK, RenewLease
    <2>2. CASE maint'[g] = At(maint[g], "yield")
      BY <2>2, <1>1 DEF At, Progress, Steps, MaintLocal
    <2> QED BY <2>1, <2>2, ConstantFacts DEF MaintLocal
  <1>3. maint' \in [Gateways -> Progress] /\ \A h \in Gateways : h = g \/ maint'[h] = maint[h]
    BY <1>2 DEF IInv, TypeOK, RenewLease
  <1>4. /\ removes' \in [Gateways -> SUBSET Removal]
        /\ \A h \in Gateways : \A r \in removes'[h] : r \in removes[h] \/ RemovalLocal(r)
    BY <1>1, AskTyped DEF IInv, TypeOK, RenewLease
  <1>5. rec' \in Record \cup {NoRec} /\ (rec' # NoRec => rec # NoRec /\ rec'.gen = rec.gen)
    <2>1. rec' = rec \/ (rec # NoRec /\ rec' = Renewed(rec))
      BY DEF RenewLease, Holds
    <2> QED BY <2>1, KeptRecord DEF IInv, TypeOK
  <1>6. TypeOK'
    BY <1>3, <1>4, <1>5 DEF IInv, TypeOK, RenewLease
  <1>7. Locals'
    BY <1>2, <1>3, <1>4 DEF IInv, Locals, RenewLease
  <1>8. Fencing'
    BY <1>5 DEF IInv, Fencing, RenewLease
  <1> QED BY <1>6, <1>7, <1>8 DEF IInv

(* adopt: give the lease back. *)
LEMMA SweepReleaseStep ==
    ASSUME IInv, NEW g \in Gateways, SweepRelease(g)
    PROVE  IInv'
  <1>1. /\ maint' \in [Gateways -> Progress]
        /\ \A h \in Gateways : maint'[h] = maint[h] \/ maint'[h] = Idle
    BY ConstantFacts DEF IInv, TypeOK, SweepRelease
  <1>2. rec' \in Record \cup {NoRec} /\ (rec' # NoRec => rec # NoRec /\ rec'.gen = rec.gen)
    <2>1. rec' = rec \/ (rec # NoRec /\ rec' = Released(rec))
      BY DEF SweepRelease, Holds
    <2> QED BY <2>1, KeptRecord DEF IInv, TypeOK
  <1>3. TypeOK'
    BY <1>1, <1>2 DEF IInv, TypeOK, SweepRelease
  <1>4. Locals'
    BY <1>1, ConstantFacts DEF IInv, Locals, SweepRelease, MaintLocal
  <1>5. Fencing'
    BY <1>2 DEF IInv, Fencing, SweepRelease
  <1> QED BY <1>3, <1>4, <1>5 DEF IInv

(* Time passes a lease's expiry. *)
LEMMA LeaseLapsesStep ==
    ASSUME IInv, LeaseLapses
    PROVE  IInv'
  <1>1. rec' \in Record \cup {NoRec} /\ rec # NoRec /\ rec'.gen = rec.gen
    <2>1. rec \in Record /\ rec # NoRec
      BY DEF IInv, TypeOK, LeaseLapses
    <2> DEFINE l == IF rec.lease = "live" THEN "lapsed" ELSE "stale"
    <2>2. rec' = [rec EXCEPT !.lease = l] /\ l \in LeaseStates
      BY DEF LeaseLapses, LeaseStates
    <2> HIDE DEF l
    <2> QED BY <2>1, <2>2 DEF Record
  <1>2. TypeOK'
    BY <1>1 DEF IInv, TypeOK, LeaseLapses
  <1>3. Locals'
    BY DEF IInv, Locals, LeaseLapses
  <1>4. Fencing'
    BY <1>1 DEF IInv, Fencing, LeaseLapses
  <1> QED BY <1>2, <1>3, <1>4 DEF IInv

(* remove: out of the map. *)
LEMMA RemoveTakesStep ==
    ASSUME IInv, NEW g \in Gateways, NEW r \in removes[g], RemoveTakes(g, r)
    PROVE  IInv'
  <1>1. r \in Removal /\ removes[g] \subseteq Removal /\ sessions[g] \in Gens \cup {None}
    BY DEF IInv, TypeOK
  <1>2. inc' \in [Gens -> Incarnation] /\ sessions' \in [Gateways -> Gens \cup {None}]
    BY SMT, IncarnationOps DEF IInv, TypeOK, RemoveTakes
  <1>3. /\ removes'[g] \subseteq Removal /\ \A q \in removes'[g] : RemovalLocal(q)
        /\ DOMAIN removes' = Gateways /\ \A h \in Gateways : h = g \/ removes'[h] = removes[h]
    <2>1. CASE sessions[g] = None
      <3>1. removes' = [removes EXCEPT ![g] = removes[g] \ {r}]
        BY <2>1 DEF RemoveTakes
      <3> QED BY <3>1 DEF IInv, TypeOK, Locals
    <2>2. CASE sessions[g] # None
      <3> DEFINE q == [r EXCEPT !.pc = "close", !.sess = sessions[g]]
      <3>1. q \in Removal /\ RemovalLocal(q)
        BY <1>1, <2>2 DEF Removal, RemovalLocal
      <3>2. removes' = [removes EXCEPT ![g] = (removes[g] \ {r}) \cup {q}]
        BY <2>2 DEF RemoveTakes
      <3> HIDE DEF q
      <3> QED BY <3>1, <3>2, <1>1 DEF IInv, TypeOK, Locals
    <2> QED BY <2>1, <2>2
  <1>4. removes' \in [Gateways -> SUBSET Removal]
    <2>1. removes' = [h \in Gateways |-> removes'[h]]
      BY <1>3 DEF RemoveTakes, IInv, TypeOK
    <2> QED BY <1>3, <2>1 DEF IInv, TypeOK
  <1>5. TypeOK'
    BY <1>2, <1>4 DEF IInv, TypeOK, RemoveTakes
  <1>6. Locals'
    BY <1>3 DEF IInv, Locals, RemoveTakes
  <1>7. Fencing'
    BY DEF IInv, Fencing, RemoveTakes
  <1> QED BY <1>5, <1>6, <1>7 DEF IInv

(* remove: close endpoint and backend. *)
LEMMA RemoveClosesStep ==
    ASSUME IInv, NEW g \in Gateways, NEW r \in removes[g], RemoveCloses(g, r)
    PROVE  IInv'
  <1>1. r \in Removal /\ removes[g] \subseteq Removal /\ r.sess \in Gens
    BY DEF IInv, TypeOK, Locals, RemovalLocal, RemoveCloses
  <1>2. inc' \in [Gens -> Incarnation]
    BY <1>1, IncarnationOps DEF IInv, TypeOK, RemoveCloses
  <1> DEFINE q == [r EXCEPT !.pc = "delete"]
             c == Call(r.sess, "end")
  <1>3. q \in Removal /\ RemovalLocal(q) /\ c \in Removal /\ RemovalLocal(c)
    BY <1>1 DEF Removal, RemovalLocal, Call
  <1>4. \/ removes' = [removes EXCEPT ![g] = (removes[g] \ {r}) \cup {q}]
        \/ removes' = [removes EXCEPT ![g] = (removes[g] \ {r}) \cup {q} \cup {c}]
    BY DEF RemoveCloses
  <1> HIDE DEF q, c
  <1>5. /\ removes' \in [Gateways -> SUBSET Removal]
        /\ \A q2 \in removes'[g] : RemovalLocal(q2)
        /\ \A h \in Gateways : h = g \/ removes'[h] = removes[h]
    BY SMT, <1>1, <1>3, <1>4 DEF IInv, TypeOK, Locals
  <1>6. TypeOK'
    BY <1>2, <1>5 DEF IInv, TypeOK, RemoveCloses
  <1>7. Locals'
    BY <1>5 DEF IInv, Locals, RemoveCloses
  <1>8. Fencing'
    BY DEF IInv, Fencing, RemoveCloses
  <1> QED BY <1>6, <1>7, <1>8 DEF IInv

(* remove: DeleteIfOwner. *)
LEMMA RemoveDeletesStep ==
    ASSUME IInv, NEW g \in Gateways, NEW r \in removes[g], RemoveDeletes(g, r)
    PROVE  IInv'
  <1>1. rec' = rec \/ rec' = NoRec
    BY DEF RemoveDeletes
  <1>2. removes' \in [Gateways -> SUBSET Removal] /\ \A h \in Gateways : removes'[h] \subseteq removes[h]
    BY DEF IInv, TypeOK, RemoveDeletes
  <1>3. TypeOK'
    BY <1>1, <1>2 DEF IInv, TypeOK, RemoveDeletes
  <1>4. Locals'
    BY <1>2 DEF IInv, Locals, RemoveDeletes
  <1>5. Fencing'
    BY <1>1 DEF IInv, Fencing, RemoveDeletes
  <1> QED BY <1>3, <1>4, <1>5 DEF IInv

(* Shutdown: empty the map. *)
LEMMA ShutdownDrainStep ==
    ASSUME IInv, NEW g \in Gateways, ShutdownDrain(g)
    PROVE  IInv'
  <1>1. sessions[g] \in Gens \cup {None} /\ drain[g] \in Draining
    BY DEF IInv, TypeOK
  <1>2. inc' \in [Gens -> Incarnation] /\ sessions' \in [Gateways -> Gens \cup {None}]
    BY SMT, IncarnationOps DEF IInv, TypeOK, ShutdownDrain, DrainTakes
  <1>3. /\ drain' \in [Gateways -> Draining]
        /\ \A h \in Gateways : drain'[h] = drain[h] \/ DrainLocal(drain'[h])
    BY SMT, <1>1 DEF IInv, TypeOK, ShutdownDrain, DrainTakes, Draining, DrainLocal
  <1>4. TypeOK'
    BY <1>2, <1>3 DEF IInv, TypeOK, ShutdownDrain, DrainTakes
  <1>5. Locals'
    BY <1>3 DEF IInv, Locals, ShutdownDrain, DrainTakes
  <1>6. Fencing'
    BY DEF IInv, Fencing, ShutdownDrain, DrainTakes
  <1> QED BY <1>4, <1>5, <1>6 DEF IInv

(* Shutdown: closeWith. *)
LEMMA ShutdownClosesStep ==
    ASSUME IInv, NEW g \in Gateways, ShutdownCloses(g)
    PROVE  IInv'
  <1>1. drain[g] \in Draining /\ drain[g].of \in Gens
    BY DEF IInv, TypeOK, Locals, DrainLocal, ShutdownCloses
  <1>2. inc' \in [Gens -> Incarnation]
    BY <1>1, IncarnationOps DEF IInv, TypeOK, ShutdownCloses
  <1>3. /\ drain' \in [Gateways -> Draining]
        /\ \A h \in Gateways : drain'[h] = drain[h] \/ DrainLocal(drain'[h])
    BY <1>1 DEF IInv, TypeOK, ShutdownCloses, Draining, DrainLocal
  <1>4. TypeOK'
    BY <1>2, <1>3 DEF IInv, TypeOK, ShutdownCloses
  <1>5. Locals'
    BY <1>3 DEF IInv, Locals, ShutdownCloses
  <1>6. Fencing'
    BY DEF IInv, Fencing, ShutdownCloses
  <1> QED BY <1>4, <1>5, <1>6 DEF IInv

(* Shutdown: ReleaseLease. *)
LEMMA ShutdownReleasesStep ==
    ASSUME IInv, NEW g \in Gateways, ShutdownReleases(g)
    PROVE  IInv'
  <1>1. drain[g] \in Draining /\ drain[g].of \in Gens
    BY DEF IInv, TypeOK, Locals, DrainLocal, ShutdownReleases
  <1>2. inc' \in [Gens -> Incarnation]
    BY <1>1, IncarnationOps DEF IInv, TypeOK, ShutdownReleases
  <1>3. /\ drain' \in [Gateways -> Draining]
        /\ \A h \in Gateways : drain'[h] = drain[h] \/ DrainLocal(drain'[h])
    BY <1>1 DEF IInv, TypeOK, ShutdownReleases, Draining, DrainLocal
  <1>4. rec' \in Record \cup {NoRec} /\ (rec' # NoRec => rec # NoRec /\ rec'.gen = rec.gen)
    <2>1. rec' = rec \/ (rec # NoRec /\ rec' = Released(rec))
      BY DEF ShutdownReleases, Holds
    <2> QED BY <2>1, KeptRecord DEF IInv, TypeOK
  <1>5. /\ removes' \in [Gateways -> SUBSET Removal]
        /\ \A h \in Gateways : \A r \in removes'[h] : r \in removes[h] \/ RemovalLocal(r)
    BY <1>1, AskTyped DEF IInv, TypeOK, ShutdownReleases
  <1>6. TypeOK'
    BY <1>2, <1>3, <1>4, <1>5 DEF IInv, TypeOK, ShutdownReleases
  <1>7. Locals'
    BY <1>3, <1>5 DEF IInv, Locals, ShutdownReleases
  <1>8. Fencing'
    BY <1>4 DEF IInv, Fencing, ShutdownReleases
  <1> QED BY <1>6, <1>7, <1>8 DEF IInv

(* A process that ends, by Exit or by Crash, leaves the store alone.       *)
LEMMA DiesStep ==
    ASSUME IInv, NEW g \in Gateways, Dies(g)
    PROVE  IInv'
  <1>1. /\ inc' \in [Gens -> Incarnation] /\ ckpt' \in [Gens -> Checkpoint]
        /\ sessions' \in [Gateways -> Gens \cup {None}]
        /\ up' \in [Gateways -> {"up", "stopping", "down"}]
    BY ConstantFacts DEF IInv, TypeOK, Dies
  <1>2. /\ att' \in [Gateways -> Progress] /\ maint' \in [Gateways -> Progress]
        /\ \A h \in Gateways : /\ att'[h] = att[h] \/ att'[h] = Idle
                               /\ maint'[h] = maint[h] \/ maint'[h] = Idle
    BY ConstantFacts DEF IInv, TypeOK, Dies
  <1>3. /\ drain' \in [Gateways -> Draining]
        /\ \A h \in Gateways : drain'[h] = drain[h] \/ drain'[h].pc = "done"
    BY DEF IInv, TypeOK, Dies, Draining
  <1>4. removes' \in [Gateways -> SUBSET Removal] /\ \A h \in Gateways : removes'[h] \subseteq removes[h]
    BY DEF IInv, TypeOK, Dies
  <1>5. client' \in ClientState /\ (client' = client \/ client'.st = "out")
    BY DEF IInv, TypeOK, Dies, ClientIs, ClientState
  <1>6. TypeOK'
    BY <1>1, <1>2, <1>3, <1>4, <1>5 DEF IInv, TypeOK, Dies
  <1>7. Locals'
    <2>1. client'.st = "on" => client'.at \in Gens /\ client'.gw \in Gateways
      BY <1>5 DEF IInv, Locals
    <2>2. ASSUME NEW h \in Gateways PROVE AttLocal(att'[h]) /\ MaintLocal(maint'[h])
      BY <1>2, ConstantFacts DEF IInv, Locals, AttLocal, MaintLocal
    <2>3. ASSUME NEW h \in Gateways PROVE DrainLocal(drain'[h])
      BY <1>3 DEF IInv, Locals, DrainLocal
    <2>4. ASSUME NEW h \in Gateways, NEW r \in removes'[h] PROVE RemovalLocal(r)
      BY <1>4 DEF IInv, Locals
    <2> QED BY <2>1, <2>2, <2>3, <2>4 DEF Locals
  <1>8. Fencing'
    BY <1>5 DEF IInv, Fencing, Dies
  <1> QED BY <1>6, <1>7, <1>8 DEF IInv

(* Every step of the fleet preserves the invariant.                        *)
LEMMA NextIInv ==
    ASSUME IInv, [Next]_vars
    PROVE  IInv'
  <1>1. CASE UNCHANGED vars
    BY <1>1 DEF vars, IInv, TypeOK, Locals, Fencing
  <1>2. CASE ConnLost \/ PeerClose \/ CheckpointDegraded \/ LeaseLapses
    BY <1>2, ConnLostStep, PeerCloseStep, CheckpointDegradedStep, LeaseLapsesStep
  <1>3. ASSUME NEW g \in Gateways, Open(g) \/ Dial(g) \/ Attaching(g)
        PROVE  IInv'
    BY <1>3, OpenStep, DialStep, AttachKnownStep, AttachUnknownStep, AttachLoadStep,
       AttachTakeStep, AttachSpawnStep DEF Attaching
  <1>4. ASSUME NEW g \in Gateways, Maintaining(g)
        PROVE  IInv'
    BY <1>4, RenewBeginStep, RenewLeaseStep, RenewYieldedStep, SweepBeginStep, SweepClaimStep,
       SweepReloadStep, SweepRegisterStep, SweepReleaseStep DEF Maintaining
  <1>5. ASSUME NEW g \in Gateways, Removing(g)
        PROVE  IInv'
    BY <1>5, RemoveTakesStep, RemoveClosesStep, RemoveDeletesStep DEF Removing, RemovingFor
  <1>6. ASSUME NEW g \in Gateways, ShutdownBegin(g) \/ ShuttingDown(g) \/ Crash(g)
        PROVE  IInv'
    BY <1>6, ShutdownBeginStep, ShutdownDrainStep, ShutdownClosesStep, ShutdownReleasesStep,
       DiesStep DEF ShuttingDown, Exit, Crash
  <1>7. ASSUME NEW i \in Gens, Pumping(i) \/ BackendExits(i) \/ Detaching(i)
        PROVE  IInv'
    BY <1>7, ReceiveStep, DispatchStep, DispatchFailsStep, CheckpointBeginStep,
       CheckpointSaveStep, BackendExitsStep, HandleReturnsStep, HandleExitStep, ReaperFiresStep
       DEF Pumping, Detaching
  <1> QED BY <1>1, <1>2, <1>3, <1>4, <1>5, <1>6, <1>7 DEF Next

(* The invariant holds in every state the fleet reaches.                   *)
LEMMA Invariance == Spec => []IInv
  <1>1. Init => IInv
    BY InitIInv
  <1>2. IInv /\ [Next]_vars => IInv'
    BY NextIInv
  <1> QED BY <1>1, <1>2, PTL DEF Spec

(* Type correctness: every counter of Handles, pumps, buffered messages    *)
(* and generations of SessionHA stays in its range, whatever the number of *)
(* gateways and whatever faults are enabled.                               *)
THEOREM Typing == Spec => []TypeOK
  <1>1. IInv => TypeOK
    BY DEF IInv
  <1> QED BY <1>1, Invariance, PTL

-----------------------------------------------------------------------------
(* The five things a step may do to the store besides leaving it alone.    *)
Granting ==
    /\ rec # NoRec \/ granted = 0
    /\ \E g \in Gateways : rec' = Grant(rec, g)
    /\ granted' = granted + 1 /\ written' = written
Keeping ==
    /\ rec # NoRec /\ rec' # NoRec /\ rec'.owner = rec.owner
    /\ granted' = granted
    /\ written' = written \/ (rec.owner # Nobody /\ written' = granted)
Freeing ==
    /\ rec # NoRec /\ rec.owner # Nobody /\ rec' # NoRec /\ rec'.owner = Nobody
    /\ granted' = granted /\ written' = written
Ending ==
    /\ rec # NoRec /\ rec.owner # Nobody /\ rec' = NoRec
    /\ granted' = granted /\ written' = written
StoreStep ==
    Granting \/ Keeping \/ Freeing \/ Ending \/ UNCHANGED <<rec, granted, written>>

(* A release frees the lease of its holder or changes nothing. *)
LEMMA ReleaseIsStoreStep ==
    ASSUME IInv, NEW g \in Gateways, NEW i,
           rec' = rec \/ (Holds(rec, g, i) /\ rec' = Released(rec)),
           granted' = granted, written' = written
    PROVE  StoreStep
  <1>1. CASE rec' = rec
    BY <1>1 DEF StoreStep
  <1>2. CASE Holds(rec, g, i) /\ rec' = Released(rec)
    <2>1. rec \in Record /\ rec # NoRec /\ rec.owner # Nobody
      BY <1>2, StoreAssumption DEF Holds, IInv, TypeOK
    <2>2. rec' # NoRec /\ rec'.owner = Nobody
      BY <1>2, <2>1, KeptRecord
    <2> QED BY <2>1, <2>2 DEF StoreStep, Freeing
  <1> QED BY <1>1, <1>2

(* A save is by the holder of the newest generation or changes nothing. *)
LEMMA SaveIsStoreStep ==
    ASSUME IInv, NEW i \in Gens, CheckpointSave(i)
    PROVE  StoreStep
  <1>1. inc[i].gw \in Gateways /\ ckpt[i].ver \in Nat
    BY DEF IInv, TypeOK, CheckpointSave, Running, Incarnation, Checkpoint
  <1>2. CASE Holds(rec, inc[i].gw, i) /\ rec' = Saved(rec, ckpt[i].ver) /\ written' = i
    <2>1. rec \in Record /\ rec # NoRec /\ rec.owner # Nobody /\ i = granted
      BY <1>1, <1>2, StoreAssumption DEF Holds, IInv, TypeOK, Fencing
    <2>2. rec' # NoRec /\ rec'.owner = rec.owner
      BY <1>1, <1>2, <2>1, KeptRecord
    <2> QED BY <1>2, <2>1, <2>2 DEF StoreStep, Keeping, CheckpointSave
  <1>3. CASE rec' = rec /\ written' = written
    BY <1>3 DEF StoreStep, CheckpointSave
  <1> QED BY <1>2, <1>3 DEF CheckpointSave

(* A renewal keeps owner and generation. *)
LEMMA RenewIsStoreStep ==
    ASSUME IInv, NEW g \in Gateways, RenewLease(g)
    PROVE  StoreStep
  <1>1. CASE Holds(rec, g, maint[g].gen) /\ rec' = Renewed(rec)
    <2>1. rec \in Record /\ rec # NoRec
      BY <1>1 DEF Holds, IInv, TypeOK
    <2>2. rec' # NoRec /\ rec'.owner = rec.owner
      BY <1>1, <2>1, KeptRecord
    <2> QED BY <2>1, <2>2 DEF StoreStep, Keeping, RenewLease
  <1>2. CASE rec' = rec
    BY <1>2 DEF StoreStep, RenewLease
  <1> QED BY <1>1, <1>2 DEF RenewLease

(* The clock keeps owner and generation. *)
LEMMA LapseIsStoreStep ==
    ASSUME IInv, LeaseLapses
    PROVE  StoreStep
  <1>1. rec \in Record /\ rec # NoRec
    BY DEF IInv, TypeOK, LeaseLapses
  <1> DEFINE l == IF rec.lease = "live" THEN "lapsed" ELSE "stale"
  <1>2. rec' = [rec EXCEPT !.lease = l] /\ l \in LeaseStates
    BY DEF LeaseLapses, LeaseStates
  <1> HIDE DEF l
  <1>3. rec' \in Record /\ rec'.owner = rec.owner
    BY <1>1, <1>2 DEF Record
  <1> QED BY <1>1, <1>3, StoreAssumption DEF StoreStep, Keeping, LeaseLapses

(* A grant is never made on a deleted record. *)
LEMMA GrantIsStoreStep ==
    ASSUME IInv, NEW g \in Gateways, Open(g) \/ AttachTake(g) \/ SweepClaim(g)
    PROVE  StoreStep
  <1>1. CASE Open(g)
    BY SMT, <1>1 DEF Open, IInv, Fencing, StoreStep, Granting
  <1>2. CASE AttachTake(g)
    <2>1. att[g].pc = "take" /\ Loaded(att[g])
      BY <1>2 DEF IInv, Locals, AttLocal, AttachTake
    <2>2. canTakeover(rec, att[g].ps.gen) => rec # NoRec
      BY SMT, <2>1 DEF canTakeover, Loaded
    <2> QED BY <1>2, <2>2 DEF AttachTake, StoreStep, Granting
  <1>3. CASE SweepClaim(g)
    <2>1. maint[g].pc = "claim" /\ Loaded(maint[g])
      BY <1>3 DEF IInv, Locals, MaintLocal, SweepClaim
    <2>2. canAcquire(rec, g, maint[g].ps.gen) => rec # NoRec
      BY SMT, <2>1 DEF canAcquire, Loaded
    <2> QED BY <1>3, <2>2 DEF SweepClaim, StoreStep, Granting
  <1> QED BY <1>1, <1>2, <1>3

(* A deletion is by the holder. *)
LEMMA DeleteIsStoreStep ==
    ASSUME IInv, NEW g \in Gateways, NEW r \in removes[g], RemoveDeletes(g, r)
    PROVE  StoreStep
  BY StoreAssumption DEF RemoveDeletes, DeletesIfOwner, StoreStep, Ending

(* Every step of the fleet is one of them.                                 *)
LEMMA NextIsStoreStep ==
    ASSUME IInv, [Next]_vars
    PROVE  StoreStep
  <1> USE DEF StoreStep
  <1>1. CASE UNCHANGED vars
    BY <1>1 DEF vars
  <1>2. CASE ConnLost \/ PeerClose \/ CheckpointDegraded \/ LeaseLapses
    BY <1>2, LapseIsStoreStep DEF ConnLost, PeerClose, CheckpointDegraded
  <1>3. ASSUME NEW g \in Gateways, Open(g) \/ Dial(g) \/ Attaching(g)
        PROVE  StoreStep
    BY <1>3, GrantIsStoreStep
       DEF Attaching, Dial, AttachKnown, AttachUnknown, AttachLoad, AttachSpawn
  <1>4. ASSUME NEW g \in Gateways, Maintaining(g)
        PROVE  StoreStep
    <2>1. CASE SweepRelease(g)
      BY <2>1, ReleaseIsStoreStep DEF SweepRelease
    <2>2. CASE RenewLease(g) \/ SweepClaim(g)
      BY <2>2, RenewIsStoreStep, GrantIsStoreStep
    <2>3. CASE RenewBegin(g) \/ RenewYielded(g) \/ SweepBegin(g) \/ SweepReload(g) \/ SweepRegister(g)
      BY <2>3 DEF RenewBegin, RenewYielded, SweepBegin, SweepReload, SweepRegister
    <2> QED BY <1>4, <2>1, <2>2, <2>3 DEF Maintaining
  <1>5. ASSUME NEW g \in Gateways, Removing(g)
        PROVE  StoreStep
    BY <1>5, DeleteIsStoreStep DEF Removing, RemovingFor, RemoveTakes, RemoveCloses
  <1>6. ASSUME NEW g \in Gateways, ShutdownBegin(g) \/ ShuttingDown(g) \/ Crash(g)
        PROVE  StoreStep
    <2>1. CASE ShutdownReleases(g)
      BY <2>1, ReleaseIsStoreStep DEF ShutdownReleases
    <2> QED BY <1>6, <2>1 DEF ShuttingDown, ShutdownBegin, ShutdownDrain, DrainTakes,
                              ShutdownCloses, Exit, Crash, Dies
  <1>7. ASSUME NEW i \in Gens, Pumping(i) \/ BackendExits(i) \/ Detaching(i)
        PROVE  StoreStep
    BY <1>7, SaveIsStoreStep
       DEF Pumping, Detaching, Receive, Dispatch, DispatchFails, CheckpointBegin, BackendExits,
           HandleReturns, HandleExit, ReaperFires
  <1> QED BY <1>1, <1>2, <1>3, <1>4, <1>5, <1>6, <1>7 DEF Next

-----------------------------------------------------------------------------
(* SaveIfOwned's fence holds across any number of gateways, generations    *)
(* and paused checkpoints: a generation never writes after a later one.    *)
THEOREM FencedWrites == Spec => WritesInGenerationOrder
  <1>1. IInv /\ [Next]_vars => [written' >= written]_vars
    <2> SUFFICES ASSUME IInv, [Next]_vars PROVE written' >= written
      BY SMT
    <2>1. StoreStep
      BY NextIsStoreStep
    <2> QED BY SMT, <2>1 DEF StoreStep, Granting, Keeping, Freeing, Ending, IInv, TypeOK, Fencing
  <1> QED BY <1>1, Invariance, PTL DEF Spec, WritesInGenerationOrder

(* A record that was deleted is never written, renewed, taken over or      *)
(* adopted back into the store.                                            *)
THEOREM DeletionIsFinal == Spec => DeletedStaysDeleted
  <1>1. IInv /\ [Next]_vars => [granted > 0 /\ rec = NoRec => rec' = NoRec]_vars
    <2> SUFFICES ASSUME IInv, [Next]_vars, granted > 0, rec = NoRec PROVE rec' = NoRec
      BY SMT
    <2>1. StoreStep
      BY NextIsStoreStep
    <2> QED BY SMT, <2>1 DEF StoreStep, Granting, Keeping, Freeing, Ending, IInv, TypeOK
  <1> QED BY <1>1, Invariance, PTL DEF Spec, DeletedStaysDeleted

(* The fleet implements the abstract ownership of a session.               *)
THEOREM Refinement == Spec => ImplementsOwnership
  <1>1. Init => Own!Init
    BY SMT DEF Init, Own!Init
  <1>2. IInv /\ [Next]_vars => [Own!Next]_Own!vars
    <2> SUFFICES ASSUME IInv, [Next]_vars PROVE [Own!Next]_Own!vars
      BY SMT
    <2>0. StoreStep
      BY NextIsStoreStep
    <2>1. CASE Granting
      <3>1. PICK g \in Gateways : rec' = Grant(rec, g)
        BY <2>1 DEF Granting
      <3>2. rec' # NoRec /\ rec'.owner = g
        BY <3>1, GrantRecord DEF IInv, TypeOK
      <3>3. Own!Begin(g)
        BY SMT, <2>1, <3>2 DEF Granting, Own!Begin, IInv, TypeOK, Fencing
      <3> QED BY <3>3 DEF Own!Next
    <2>2. CASE Keeping
      BY <2>2 DEF Keeping, Own!Next, Own!Write, Own!vars
    <2>3. CASE Freeing
      BY <2>3 DEF Freeing, Own!Next, Own!Free
    <2>4. CASE Ending
      BY SMT, <2>4 DEF Ending, Own!Next, Own!End, IInv, TypeOK, Fencing
    <2>5. CASE UNCHANGED <<rec, granted, written>>
      BY <2>5 DEF Own!vars
    <2> QED BY <2>0, <2>1, <2>2, <2>3, <2>4, <2>5 DEF StoreStep
  <1> QED BY <1>1, <1>2, Invariance, PTL DEF Spec, ImplementsOwnership, Own!Spec

-----------------------------------------------------------------------------
(***************************************************************************)
(* Who may run a generation, for any number of gateways and any bounds.    *)
(* A generation is claimed by the one goroutine it was granted to until    *)
(* that goroutine registers the session object; so each generation has one *)
(* object, the newest of them runs where the record says, and no gateway   *)
(* deletes a session that another one resumed.                             *)
(***************************************************************************)
(* Goroutine k of gateway g was granted generation i (rehydrate's          *)
(* TakeoverLease, adopt's AcquireLease) and has not registered it yet.     *)
Goroutines == {"attach", "sweep"}
Claims(k, g, i) ==
    \/ k = "attach" /\ att[g].pc = "spawn" /\ att[g].gen = i
    \/ k = "sweep" /\ maint[g].pc \in {"reload", "register"} /\ maint[g].gen = i

(* A claimed generation is granted and runs nowhere, and nobody else       *)
(* claims it.                                                              *)
Claimed ==
    \A k \in Goroutines, g \in Gateways, i \in Gens : Claims(k, g, i) =>
        /\ 0 < i /\ i <= granted /\ ~Running(i)
        /\ i = granted /\ rec # NoRec => rec.owner \in {g, Nobody}
        /\ \A l \in Goroutines, h \in Gateways : Claims(l, h, i) => l = k /\ h = g

Owners == Claimed /\ NewestGenerationOwns

-----------------------------------------------------------------------------
(* The kinds of step, by what they do to the claims and to the gateway a   *)
(* session object runs on.                                                 *)
SameHosts == \A i \in Gens : inc'[i].gw \in {inc[i].gw, Nobody}
NoNewClaims ==
    \A k \in Goroutines, g \in Gateways, i \in Gens : Claims(k, g, i)' => Claims(k, g, i)
OwnerKept ==
    granted' = granted /\ (rec' # NoRec => rec # NoRec /\ rec'.owner \in {rec.owner, Nobody})
Steady == SameHosts /\ NoNewClaims /\ OwnerKept
GrantsTo(k, g) ==
    /\ granted' = granted + 1 /\ rec' # NoRec /\ rec'.owner = g /\ inc' = inc
    /\ \A l \in Goroutines, h \in Gateways, i \in Gens :
          Claims(l, h, i)' => Claims(l, h, i) \/ (l = k /\ h = g /\ i = granted')
Registers(k, g, i) ==
    /\ Claims(k, g, i) /\ inc'[i].gw = g
    /\ \A j \in Gens : j # i => inc'[j] = inc[j]
    /\ NoNewClaims /\ ~Claims(k, g, i)' /\ UNCHANGED <<rec, granted>>


(* A step that makes no claim and moves no object keeps every owner.       *)
LEMMA SteadyOwners ==
    ASSUME IInv, IInv', Owners, Steady
    PROVE  Owners'
  <1>1. \A i \in Gens : Running(i)' => Running(i) /\ inc'[i].gw = inc[i].gw
    BY DEF Steady, SameHosts, Running
  <1>2. Claimed'
    <2> SUFFICES ASSUME NEW k \in Goroutines, NEW g \in Gateways, NEW i \in Gens, Claims(k, g, i)'
                 PROVE  /\ 0 < i /\ i <= granted' /\ ~Running(i)'
                        /\ i = granted' /\ rec' # NoRec => rec'.owner \in {g, Nobody}
                        /\ \A l \in Goroutines, h \in Gateways : Claims(l, h, i)' => l = k /\ h = g
      BY DEF Claimed
    <2>1. Claims(k, g, i)
      BY DEF Steady, NoNewClaims
    <2>2. 0 < i /\ i <= granted' /\ ~Running(i)'
      BY <1>1, <2>1 DEF Owners, Claimed, Steady, OwnerKept
    <2>3. i = granted' /\ rec' # NoRec => rec'.owner \in {g, Nobody}
      BY <2>1 DEF Owners, Claimed, Steady, OwnerKept
    <2>4. \A l \in Goroutines, h \in Gateways : Claims(l, h, i)' => l = k /\ h = g
      BY <2>1 DEF Owners, Claimed, Steady, NoNewClaims
    <2> QED BY <2>2, <2>3, <2>4
  <1>3. NewestGenerationOwns'
    <2>1. granted \in Gens /\ granted' = granted
      BY SMT, BoundAssumption DEF IInv, TypeOK, Fencing, Steady, OwnerKept, Gens
    <2>2. rec' # NoRec => rec'.gen = granted'
      BY DEF IInv, Fencing
    <2>3. \A i \in Gens : Running(i)' => i <= granted'
      BY <1>1, <2>1 DEF Owners, NewestGenerationOwns
    <2>4. Running(granted)' /\ granted > 0 /\ rec' # NoRec => rec'.owner \in {inc'[granted].gw, Nobody}
      BY <1>1, <2>1 DEF Owners, NewestGenerationOwns, Steady, OwnerKept
    <2> QED BY <2>1, <2>2, <2>3, <2>4 DEF NewestGenerationOwns, Running
  <1> QED BY <1>2, <1>3 DEF Owners

(* A grant makes one claim, on a generation that nothing runs.             *)
LEMMA GrantOwners ==
    ASSUME IInv, IInv', Owners, NEW k \in Goroutines, NEW g \in Gateways, GrantsTo(k, g)
    PROVE  Owners'
  <1>1. granted \in Nat /\ granted' = granted + 1 /\ granted' \in Gens
    BY SMT, BoundAssumption DEF IInv, TypeOK, Fencing, GrantsTo, Gens
  <1>2. \A i \in Gens : (Running(i)' <=> Running(i)) /\ (Running(i) => i <= granted)
    BY DEF GrantsTo, Running, Owners, NewestGenerationOwns
  <1>3. ~Running(granted')
    BY SMT, <1>1, <1>2
  <1>4. \A l \in Goroutines, h \in Gateways : ~Claims(l, h, granted')
    BY SMT, <1>1 DEF Owners, Claimed
  <1>5. Claimed'
    <2> SUFFICES ASSUME NEW l \in Goroutines, NEW h \in Gateways, NEW i \in Gens, Claims(l, h, i)'
                 PROVE  /\ 0 < i /\ i <= granted' /\ ~Running(i)'
                        /\ i = granted' /\ rec' # NoRec => rec'.owner \in {h, Nobody}
                        /\ \A m \in Goroutines, f \in Gateways : Claims(m, f, i)' => m = l /\ f = h
      BY DEF Claimed
    <2>1. CASE i = granted'
      <3>1. l = k /\ h = g
        BY <1>4, <2>1 DEF GrantsTo
      <3> QED BY SMT, <1>1, <1>2, <1>3, <1>4, <2>1, <3>1 DEF GrantsTo
    <2>2. CASE i # granted'
      <3>1. Claims(l, h, i)
        BY <2>2 DEF GrantsTo
      <3>2. 0 < i /\ i <= granted /\ ~Running(i)
        BY <3>1 DEF Owners, Claimed
      <3>3. \A m \in Goroutines, f \in Gateways : Claims(m, f, i)' => m = l /\ f = h
        BY SMT, <3>1, <2>2 DEF Owners, Claimed, GrantsTo
      <3> QED BY SMT, <1>1, <1>2, <2>2, <3>2, <3>3
    <2> QED BY <2>1, <2>2
  <1>6. NewestGenerationOwns'
    <2>1. rec' # NoRec => rec'.gen = granted'
      BY DEF IInv, Fencing
    <2>2. \A i \in Gens : Running(i)' => i <= granted'
      BY SMT, <1>1, <1>2 DEF Gens
    <2> QED BY <2>1, <2>2, <1>1, <1>2, <1>3 DEF NewestGenerationOwns, Running, GrantsTo
  <1> QED BY <1>5, <1>6 DEF Owners

(* The claimant registers the one object of its generation.                *)
LEMMA RegisterOwners ==
    ASSUME IInv, IInv', Owners, NEW k \in Goroutines, NEW g \in Gateways, NEW i \in Gens,
           Registers(k, g, i)
    PROVE  Owners'
  <1>1. 0 < i /\ i <= granted /\ (i = granted /\ rec # NoRec => rec.owner \in {g, Nobody})
    BY DEF Registers, Owners, Claimed
  <1>2. \A l \in Goroutines, h \in Gateways : ~Claims(l, h, i)'
    BY SMT DEF Registers, Owners, Claimed, NoNewClaims
  <1>3. \A j \in Gens : j # i => (Running(j)' <=> Running(j)) /\ inc'[j].gw = inc[j].gw
    BY DEF Registers, Running
  <1>4. Claimed'
    <2> SUFFICES ASSUME NEW l \in Goroutines, NEW h \in Gateways, NEW j \in Gens, Claims(l, h, j)'
                 PROVE  /\ 0 < j /\ j <= granted' /\ ~Running(j)'
                        /\ j = granted' /\ rec' # NoRec => rec'.owner \in {h, Nobody}
                        /\ \A m \in Goroutines, f \in Gateways : Claims(m, f, j)' => m = l /\ f = h
      BY DEF Claimed
    <2>1. j # i /\ Claims(l, h, j)
      BY <1>2 DEF Registers, NoNewClaims
    <2>2. /\ 0 < j /\ j <= granted /\ ~Running(j)
          /\ j = granted /\ rec # NoRec => rec.owner \in {h, Nobody}
          /\ \A m \in Goroutines, f \in Gateways : Claims(m, f, j) => m = l /\ f = h
      BY <2>1 DEF Owners, Claimed
    <2> QED BY <1>3, <2>1, <2>2 DEF Registers, NoNewClaims
  <1>5. NewestGenerationOwns'
    <2>1. granted \in Gens /\ granted' = granted /\ rec' = rec
      BY SMT, BoundAssumption DEF IInv, TypeOK, Fencing, Registers, Gens
    <2>2. \A j \in Gens : Running(j)' => j <= granted'
      BY <1>1, <1>3, <2>1 DEF Owners, NewestGenerationOwns
    <2>3. Running(granted)' /\ granted > 0 /\ rec # NoRec => rec.owner \in {inc'[granted].gw, Nobody}
      BY <1>1, <1>3, <2>1 DEF Owners, NewestGenerationOwns, Registers
    <2> QED BY <2>1, <2>2, <2>3 DEF NewestGenerationOwns, Running, IInv, Fencing
  <1> QED BY <1>4, <1>5 DEF Owners

-----------------------------------------------------------------------------
(* Which steps are which. *)

(* A session object stays on its gateway.                                  *)
LEMMA SameGateway ==
    ASSUME NEW x \in Incarnation
    PROVE  /\ Closed(x).gw = x.gw /\ Gone(x).gw = x.gw /\ Attached(x).gw = x.gw
           /\ Received(x).gw = x.gw /\ Dispatched(x).gw = x.gw
           /\ PumpReturned(x).gw = x.gw /\ Leaving(x).gw = x.gw
           /\ \A b \in BOOLEAN : Exited(x, b).gw = x.gw
           /\ Serving(x).gw = x.gw /\ Armed(x).gw = x.gw /\ Fired(x).gw = x.gw
           /\ Disarmed(x).gw = x.gw
           /\ \A to \in {"read", "done"} : PumpGoes(x, to).gw = x.gw
           /\ PumpGoes(Closed(x), "done").gw = x.gw
  BY DEF Incarnation, Closed, Gone, Attached, Received, Dispatched, PumpReturned, Leaving,
         Exited, Serving, Armed, Fired, Disarmed, PumpGoes

(* One object changes, and stays where it is.                              *)
LEMMA SameHostsAt ==
    ASSUME IInv, NEW i \in Gens, NEW x, inc' = [inc EXCEPT ![i] = x], x.gw = inc[i].gw
    PROVE  SameHosts
  BY DEF IInv, TypeOK, SameHosts

(* A step that grants nothing keeps the owner or gives it up.              *)
LEMMA StoreKeepsOwner ==
    ASSUME IInv, [Next]_vars, granted' = granted
    PROVE  OwnerKept
  <1>1. StoreStep
    BY NextIsStoreStep
  <1> QED BY SMT, <1>1 DEF StoreStep, Granting, Keeping, Freeing, Ending, OwnerKept, IInv, TypeOK

(* Where no attach and no sweep moves, no claim is made.                   *)
LEMMA ClaimsSame ==
    ASSUME UNCHANGED <<att, maint>>
    PROVE  NoNewClaims
  BY DEF NoNewClaims, Claims

(* The client, the pumps, the timers and the Handles.                      *)
LEMMA ClientSteady ==
    ASSUME IInv, ConnLost \/ PeerClose \/ CheckpointDegraded \/ LeaseLapses
    PROVE  SameHosts /\ NoNewClaims /\ granted' = granted
  <1>1. NoNewClaims /\ granted' = granted
    BY ClaimsSame DEF ConnLost, PeerClose, CheckpointDegraded, LeaseLapses
  <1>2. SameHosts
    <2>1. CASE PeerClose
      <3>1. client.at \in Gens /\ inc[client.at] \in Incarnation
        BY <2>1 DEF PeerClose, IInv, Locals, TypeOK
      <3> QED BY <2>1, <3>1, SameGateway, SameHostsAt DEF PeerClose
    <2>2. CASE CheckpointDegraded
      <3>1. 0 \in Gens /\ inc[0] \in Incarnation
        BY ConstantFacts DEF IInv, TypeOK
      <3> QED BY <2>2, <3>1, SameGateway, SameHostsAt DEF CheckpointDegraded
    <2>3. CASE ConnLost \/ LeaseLapses
      BY <2>3 DEF ConnLost, LeaseLapses, SameHosts
    <2> QED BY <2>1, <2>2, <2>3
  <1> QED BY <1>1, <1>2

LEMMA ObjectSteady ==
    ASSUME IInv, NEW i \in Gens, Pumping(i) \/ BackendExits(i) \/ Detaching(i)
    PROVE  SameHosts /\ NoNewClaims /\ granted' = granted
  <1>1. inc[i] \in Incarnation
    BY DEF IInv, TypeOK
  <1>2. CASE CheckpointSave(i)
    <2>1. NoNewClaims
      <3>1. inc[i].gw \in Gateways /\ att \in [Gateways -> Progress] /\ maint \in [Gateways -> Progress]
        BY <1>1, <1>2 DEF CheckpointSave, Running, Incarnation, IInv, TypeOK
      <3>2. /\ att' = att \/ att' = [att EXCEPT ![inc[i].gw] = Idle]
            /\ maint' = maint \/ maint' = [maint EXCEPT ![inc[i].gw] = Idle]
        BY <1>2 DEF CheckpointSave, CheckpointReturns
      <3>3. \A g \in Gateways : att'[g] \in {att[g], Idle} /\ maint'[g] \in {maint[g], Idle}
        BY <3>1, <3>2
      <3> QED BY <3>3, ConstantFacts DEF NoNewClaims, Claims
    <2>2. SameHosts
      <3>1. \E x \in {inc[i], PumpGoes(inc[i], "read"), Armed(inc[i]), Serving(inc[i])} :
               inc' = [inc EXCEPT ![i] = x]
        BY <1>2 DEF CheckpointSave, CheckpointReturns
      <3>2. \A x \in {inc[i], PumpGoes(inc[i], "read"), Armed(inc[i]), Serving(inc[i])} :
               x.gw = inc[i].gw
        BY SMT, <1>1, SameGateway
      <3> QED BY <3>1, <3>2, SameHostsAt
    <2> QED BY <1>2, <2>1, <2>2 DEF CheckpointSave
  <1>3. CASE \/ Receive(i) \/ Dispatch(i) \/ DispatchFails(i) \/ BackendExits(i) \/ Detaching(i)
             \/ \E by \in {"pump", "ack", "shutdown"} : CheckpointBegin(i, by)
    <2>1. NoNewClaims /\ granted' = granted
      BY <1>3, ClaimsSame DEF Receive, Dispatch, DispatchFails, BackendExits, Detaching,
                              HandleReturns, HandleExit, ReaperFires, CheckpointBegin
    <2>2. CASE Receive(i) \/ Dispatch(i) \/ DispatchFails(i)
      BY <1>1, <2>1, <2>2, SameGateway, SameHostsAt DEF Receive, Dispatch, DispatchFails
    <2>3. CASE BackendExits(i) \/ ReaperFires(i)
      BY <1>1, <2>1, <2>3, SameGateway, SameHostsAt DEF BackendExits, ReaperFires
    <2>4. CASE HandleReturns(i) \/ HandleExit(i)
      BY <1>1, <2>1, <2>4, SameGateway, SameHostsAt DEF HandleReturns, HandleExit
    <2>5. CASE \E by \in {"pump", "ack", "shutdown"} : CheckpointBegin(i, by)
      BY <2>1, <2>5 DEF CheckpointBegin, SameHosts
    <2> QED BY <1>3, <2>2, <2>3, <2>4, <2>5 DEF Detaching
  <1> QED BY <1>2, <1>3 DEF Pumping

(* Teardown, shutdown and crashes.                                         *)
LEMMA EndingSteady ==
    ASSUME IInv, NEW g \in Gateways, Removing(g) \/ ShutdownBegin(g) \/ ShuttingDown(g) \/ Crash(g)
    PROVE  SameHosts /\ NoNewClaims /\ granted' = granted
  <1>1. \A i \in Gens : inc[i] \in Incarnation
    BY DEF IInv, TypeOK
  <1>2. ASSUME NEW r \in removes[g], RemoveTakes(g, r) \/ RemoveCloses(g, r) \/ RemoveDeletes(g, r)
        PROVE  SameHosts /\ NoNewClaims /\ granted' = granted
    <2>1. NoNewClaims /\ granted' = granted
      BY <1>2, ClaimsSame DEF RemoveTakes, RemoveCloses, RemoveDeletes
    <2>2. CASE RemoveTakes(g, r)
      <3>1. sessions[g] = None => inc' = inc
        BY <2>2 DEF RemoveTakes
      <3>2. sessions[g] # None => sessions[g] \in Gens /\ inc' = [inc EXCEPT ![sessions[g]] = Disarmed(@)]
        BY <2>2 DEF RemoveTakes, IInv, TypeOK
      <3>3. CASE sessions[g] = None BY <2>1, <3>1, <3>3 DEF SameHosts
      <3>4. CASE sessions[g] # None BY <1>1, <2>1, <3>2, <3>4, SameGateway, SameHostsAt
      <3> QED BY <3>3, <3>4
    <2>3. CASE RemoveCloses(g, r)
      <3>1. r.sess \in Gens /\ inc' = [inc EXCEPT ![r.sess] = Gone(@)]
        BY <2>3 DEF RemoveCloses, IInv, Locals, RemovalLocal
      <3> QED BY <1>1, <2>1, <3>1, SameGateway, SameHostsAt
    <2>4. CASE RemoveDeletes(g, r)
      BY <2>1, <2>4 DEF RemoveDeletes, SameHosts
    <2> QED BY <1>2, <2>2, <2>3, <2>4
  <1>3. CASE ShutdownBegin(g)
    BY <1>3, ClaimsSame DEF ShutdownBegin, SameHosts
  <1>4. CASE ShutdownDrain(g)
    <2>1. NoNewClaims /\ granted' = granted
      BY <1>4, ClaimsSame DEF ShutdownDrain, DrainTakes
    <2>2. sessions[g] = None => inc' = inc
      BY <1>4 DEF ShutdownDrain, DrainTakes
    <2>3. sessions[g] # None => sessions[g] \in Gens /\ inc' = [inc EXCEPT ![sessions[g]] = Disarmed(@)]
      BY <1>4 DEF ShutdownDrain, DrainTakes, IInv, TypeOK
    <2>4. CASE sessions[g] = None BY <2>1, <2>2, <2>4 DEF SameHosts
    <2>5. CASE sessions[g] # None BY <1>1, <2>1, <2>3, <2>5, SameGateway, SameHostsAt
    <2> QED BY <2>4, <2>5
  <1>5. CASE ShutdownCloses(g)
    <2>1. drain[g].of \in Gens /\ inc' = [inc EXCEPT ![drain[g].of] = Closed(@)]
      BY <1>5 DEF ShutdownCloses, IInv, Locals, DrainLocal
    <2> QED BY <1>1, <1>5, <2>1, SameGateway, SameHostsAt, ClaimsSame DEF ShutdownCloses
  <1>6. CASE ShutdownReleases(g)
    <2>1. drain[g].of \in Gens /\ inc' = [inc EXCEPT ![drain[g].of] = Gone(@)]
      BY <1>6 DEF ShutdownReleases, IInv, Locals, DrainLocal
    <2> QED BY <1>1, <1>6, <2>1, SameGateway, SameHostsAt, ClaimsSame DEF ShutdownReleases
  <1>7. CASE Exit(g) \/ Crash(g)
    <2>1. \A i \in Gens : inc'[i] \in {inc[i], NoInc}
      BY <1>7 DEF Exit, Crash, Dies
    <2>2. \A h \in Gateways : att'[h] \in {att[h], Idle} /\ maint'[h] \in {maint[h], Idle}
      BY <1>7 DEF Exit, Crash, Dies, IInv, TypeOK
    <2>3. SameHosts
      <3>1. NoInc.gw = Nobody
        BY DEF NoInc
      <3> QED BY <2>1, <3>1 DEF SameHosts
    <2>4. NoNewClaims
      BY <2>2, ConstantFacts DEF NoNewClaims, Claims
    <2> QED BY <1>7, <2>3, <2>4 DEF Exit, Crash, Dies
  <1> QED BY <1>2, <1>3, <1>4, <1>5, <1>6, <1>7 DEF Removing, RemovingFor, ShuttingDown

(* attach before it takes the lease.                                       *)
LEMMA AttachSteady ==
    ASSUME IInv, NEW g \in Gateways,
           Dial(g) \/ AttachKnown(g) \/ AttachUnknown(g) \/ AttachLoad(g)
    PROVE  SameHosts /\ NoNewClaims /\ granted' = granted
  <1>1. CASE AttachKnown(g)
    <2>1. sessions[g] \in Gens /\ inc[sessions[g]] \in Incarnation
      BY <1>1 DEF AttachKnown, IInv, TypeOK
    <2> QED BY <1>1, <2>1, SameGateway, SameHostsAt, ClaimsSame DEF AttachKnown
  <1>2. CASE Dial(g)
    BY <1>2, ClaimsSame DEF Dial, SameHosts
  <1>3. CASE AttachUnknown(g) \/ AttachLoad(g)
    <2>1. att'[g].pc # "spawn" /\ \A h \in Gateways : h = g \/ att'[h] = att[h]
      <3>1. att[g] \in Progress /\ att \in [Gateways -> Progress]
        BY DEF IInv, TypeOK
      <3>2. \E x \in {At(att[g], "load"), AtWith(att[g], "take", rec), Idle} :
               att' = [att EXCEPT ![g] = x]
        BY <1>3 DEF AttachUnknown, AttachLoad
      <3>a. At(att[g], "load").pc = "load" /\ AtWith(att[g], "take", rec).pc = "take"
        BY <3>1 DEF At, AtWith, Progress
      <3>3. \A x \in {At(att[g], "load"), AtWith(att[g], "take", rec), Idle} : x.pc # "spawn"
        BY <3>a, ConstantFacts
      <3> QED BY <3>1, <3>2, <3>3
    <2> QED BY <1>3, <2>1 DEF AttachUnknown, AttachLoad, SameHosts, NoNewClaims, Claims
  <1> QED BY <1>1, <1>2, <1>3

(* The maintenance goroutine's steps that grant and register nothing.      *)
LEMMA MaintainSteady ==
    ASSUME IInv, NEW g \in Gateways,
           \/ RenewBegin(g) \/ RenewLease(g) \/ RenewYielded(g)
           \/ SweepBegin(g) \/ SweepReload(g) \/ SweepRelease(g)
    PROVE  SameHosts /\ NoNewClaims /\ granted' = granted
  <1> DEFINE m == maint[g]
             X == {Idle, AtGen(m, "renew", sessions[g]), At(m, "yield"), AtWith(m, "claim", rec),
                   At(m, "release")}
             y == AtWith(m, "register", rec)
  <1>1. SameHosts /\ granted' = granted /\ att' = att
    BY DEF RenewBegin, RenewLease, RenewYielded, SweepBegin, SweepReload, SweepRelease, SameHosts
  <1>2. m \in Progress /\ maint \in [Gateways -> Progress]
    BY DEF IInv, TypeOK
  <1>3. \/ \E x \in X : maint' = [maint EXCEPT ![g] = x]
        \/ m.pc = "reload" /\ maint' = [maint EXCEPT ![g] = y]
    <2>1. CASE SweepReload(g)
      BY <2>1 DEF SweepReload
    <2>2. CASE RenewBegin(g) \/ RenewYielded(g) \/ SweepBegin(g) \/ SweepRelease(g)
      BY <2>2 DEF RenewBegin, RenewYielded, SweepBegin, SweepRelease
    <2>3. CASE RenewLease(g)
      BY <2>3 DEF RenewLease
    <2> QED BY <2>1, <2>2, <2>3
  <1>4. /\ \A x \in X : x.pc \notin {"reload", "register"}
        /\ y.gen = m.gen
    BY SMT, <1>2 DEF At, AtWith, AtGen, Idle, Progress
  <1> HIDE DEF X, y
  <1>5. /\ \A h \in Gateways : h = g \/ maint'[h] = maint[h]
        /\ \/ maint'[g].pc \notin {"reload", "register"}
           \/ maint[g].pc = "reload" /\ maint'[g].gen = maint[g].gen
    BY <1>2, <1>3, <1>4
  <1> QED BY <1>1, <1>5 DEF NoNewClaims, Claims

(* rehydrate's TakeoverLease grants to the attach, or makes no claim.      *)
LEMMA AttachTakeClaims ==
    ASSUME IInv, NEW g \in Gateways, AttachTake(g)
    PROVE  GrantsTo("attach", g) \/ (SameHosts /\ NoNewClaims /\ granted' = granted)
  <1>1. /\ \A h \in Gateways : h = g \/ att'[h] = att[h]
        /\ maint' = maint /\ inc' = inc /\ SameHosts
    BY DEF AttachTake, SameHosts, IInv, TypeOK
  <1>2. CASE /\ canTakeover(rec, att[g].ps.gen) /\ granted < MaxGen
             /\ rec' = Grant(rec, g) /\ granted' = granted + 1
             /\ att' = [att EXCEPT ![g] = AtGen(@, "spawn", Grant(rec, g).gen)]
    <2>1. Loaded(att[g])
      BY DEF IInv, Locals, AttLocal, AttachTake
    <2>2. rec # NoRec /\ rec \in Record
      BY SMT, <1>2, <2>1 DEF canTakeover, Loaded, IInv, TypeOK
    <2>3. rec' # NoRec /\ rec'.owner = g /\ rec'.gen = granted'
      BY SMT, <1>2, <2>2, GrantRecord DEF IInv, TypeOK, Fencing
    <2>4. att'[g].pc = "spawn" /\ att'[g].gen = granted'
      BY SMT, <1>2, <2>3 DEF AtGen, IInv, TypeOK, Progress
    <2> QED BY <1>1, <1>2, <2>3, <2>4 DEF GrantsTo, Claims
  <1>3. CASE granted' = granted /\ att'[g].pc # "spawn"
    BY <1>1, <1>3 DEF NoNewClaims, Claims
  <1>4. \/ /\ canTakeover(rec, att[g].ps.gen) /\ granted < MaxGen
           /\ rec' = Grant(rec, g) /\ granted' = granted + 1
           /\ att' = [att EXCEPT ![g] = AtGen(@, "spawn", Grant(rec, g).gen)]
        \/ granted' = granted /\ (att'[g] = Retrying(att[g]) \/ att'[g] = Idle)
    BY DEF AttachTake, IInv, TypeOK
  <1>5. Retrying(att[g]).pc = "load" /\ Idle.pc = "idle"
    BY RetryingTyped, ConstantFacts DEF IInv, TypeOK
  <1> QED BY <1>2, <1>3, <1>4, <1>5

(* adopt's AcquireLease grants to the sweep, or makes no claim.            *)
LEMMA SweepClaimClaims ==
    ASSUME IInv, NEW g \in Gateways, SweepClaim(g)
    PROVE  GrantsTo("sweep", g) \/ (SameHosts /\ NoNewClaims /\ granted' = granted)
  <1>1. /\ \A h \in Gateways : h = g \/ maint'[h] = maint[h]
        /\ att' = att /\ inc' = inc /\ SameHosts
    BY DEF SweepClaim, SameHosts, IInv, TypeOK
  <1>2. CASE /\ canAcquire(rec, g, maint[g].ps.gen) /\ granted < MaxGen
             /\ rec' = Grant(rec, g) /\ granted' = granted + 1
             /\ maint' = [maint EXCEPT ![g] = AtGen(@, "reload", Grant(rec, g).gen)]
    <2>1. Loaded(maint[g])
      BY DEF IInv, Locals, MaintLocal, SweepClaim
    <2>2. rec # NoRec /\ rec \in Record
      BY SMT, <1>2, <2>1 DEF canAcquire, Loaded, IInv, TypeOK
    <2>3. rec' # NoRec /\ rec'.owner = g /\ rec'.gen = granted'
      BY SMT, <1>2, <2>2, GrantRecord DEF IInv, TypeOK, Fencing
    <2>4. maint'[g].pc = "reload" /\ maint'[g].gen = granted'
      BY <1>2, <2>3 DEF AtGen, IInv, TypeOK, Progress
    <2> QED BY <1>1, <1>2, <2>3, <2>4 DEF GrantsTo, Claims
  <1>3. CASE granted' = granted /\ maint'[g] = Idle
    BY <1>1, <1>3, ConstantFacts DEF NoNewClaims, Claims
  <1> QED BY <1>2, <1>3 DEF SweepClaim, IInv, TypeOK

(* resumeFromPersisted registers the claimed generation, or gives up.      *)
LEMMA AttachSpawnRegisters ==
    ASSUME IInv, NEW g \in Gateways, AttachSpawn(g)
    PROVE  /\ att[g].gen \in Gens
           /\ Registers("attach", g, att[g].gen) \/ (SameHosts /\ NoNewClaims /\ granted' = granted)
  <1>1. /\ att[g].pc = "spawn" /\ att[g].gen \in Gens
        /\ att'[g].pc # "spawn" /\ \A h \in Gateways : h = g \/ att'[h] = att[h]
        /\ maint' = maint /\ granted' = granted /\ rec' = rec
    BY SMT, ConstantFacts DEF AttachSpawn, IInv, TypeOK, Locals, AttLocal, At, Progress
  <1>2. NoNewClaims /\ Claims("attach", g, att[g].gen) /\ ~Claims("attach", g, att[g].gen)'
    BY <1>1 DEF NoNewClaims, Claims
  <1>3. CASE inc' = inc
    BY <1>1, <1>2, <1>3 DEF SameHosts
  <1>4. CASE Register(g, att[g].gen, att[g].ps.ver, 1)
    BY <1>1, <1>2, <1>4 DEF Register, Registers, NewInc, IInv, TypeOK
  <1> QED BY <1>1, <1>3, <1>4 DEF AttachSpawn

LEMMA SweepRegisters ==
    ASSUME IInv, NEW g \in Gateways, SweepRegister(g)
    PROVE  /\ maint[g].gen \in Gens
           /\ Registers("sweep", g, maint[g].gen) \/ (SameHosts /\ NoNewClaims /\ granted' = granted)
  <1>1. /\ maint[g].pc = "register" /\ maint[g].gen \in Gens
        /\ maint'[g].pc \notin {"reload", "register"}
        /\ \A h \in Gateways : h = g \/ maint'[h] = maint[h]
        /\ att' = att /\ granted' = granted /\ rec' = rec
    BY SMT DEF SweepRegister, IInv, TypeOK, Locals, MaintLocal, At, Progress
  <1>2. NoNewClaims /\ Claims("sweep", g, maint[g].gen) /\ ~Claims("sweep", g, maint[g].gen)'
    BY <1>1 DEF NoNewClaims, Claims
  <1>3. CASE inc' = inc
    BY <1>1, <1>2, <1>3 DEF SameHosts
  <1>4. CASE Register(g, maint[g].gen, maint[g].ps.ver, 0)
    BY <1>1, <1>2, <1>4 DEF Register, Registers, NewInc, IInv, TypeOK
  <1> QED BY <1>1, <1>3, <1>4 DEF SweepRegister

(* The first lease is granted and registered in one step, or not at all.   *)
LEMMA OpenOwners ==
    ASSUME IInv, IInv', Owners, NEW g \in Gateways, Open(g)
    PROVE  Owners'
  <1>1. granted = 0 /\ rec = NoRec /\ MaxGen \in Nat /\ 0 \in Gens /\ 1 \in Gens
    BY ConstantFacts DEF Open, IInv, Fencing
  <1>2. \A k \in Goroutines, h \in Gateways, i \in Gens : ~Claims(k, h, i)'
    <2>1. \A k \in Goroutines, h \in Gateways, i \in Gens : ~Claims(k, h, i)
      BY SMT, <1>1 DEF Owners, Claimed, Gens
    <2> QED BY <2>1 DEF Open, Claims
  <1>3. Claimed'
    BY <1>2 DEF Claimed
  <1>4. \A i \in Gens : Running(i) => i = 0
    BY SMT, <1>1 DEF Owners, NewestGenerationOwns, Gens
  <1>5. CASE /\ rec' = Grant(rec, g) /\ granted' = 1
             /\ inc' = [inc EXCEPT ![1] = NewInc(g, 0, 1, 1)]
    <2>1. rec'.owner = g /\ rec'.gen = 1
      BY <1>1, <1>5, GrantRecord
    <2>2. inc'[1].gw = g /\ \A i \in Gens : i # 1 => inc'[i] = inc[i]
      BY <1>1, <1>5 DEF NewInc, IInv, TypeOK
    <2>3. \A i \in Gens : Running(i)' => i \in {0, 1}
      BY <1>4, <2>2 DEF Running
    <2> QED BY SMT, <1>3, <1>5, <2>1, <2>2, <2>3 DEF Owners, NewestGenerationOwns, Running
  <1>6. CASE /\ rec' = rec /\ granted' = granted
             /\ inc' = [inc EXCEPT ![0] = NewInc(g, 0, 1, 1)]
    <2>1. \A i \in Gens : i # 0 => inc'[i] = inc[i]
      BY SMT, <1>6
    <2>2. \A i \in Gens : Running(i)' => i = 0
      BY <1>4, <2>1 DEF Running
    <2> QED BY SMT, <1>1, <1>3, <1>6, <2>2 DEF Owners, NewestGenerationOwns
  <1> QED BY <1>5, <1>6 DEF Open

(* Every step of the fleet.                                                *)
LEMMA NextOwners ==
    ASSUME IInv, IInv', Owners, [Next]_vars
    PROVE  Owners'
  <1>1. SameHosts /\ NoNewClaims /\ granted' = granted => Owners'
    BY StoreKeepsOwner, SteadyOwners DEF Steady
  <1>2. CASE UNCHANGED vars
    BY <1>1, <1>2 DEF vars, SameHosts, NoNewClaims, Claims
  <1>3. CASE ConnLost \/ PeerClose \/ CheckpointDegraded \/ LeaseLapses
    BY <1>1, <1>3, ClientSteady
  <1>4. ASSUME NEW g \in Gateways, Open(g) \/ Dial(g) \/ Attaching(g)
        PROVE  Owners'
    <2>1. CASE AttachTake(g)
      BY <1>1, <2>1, AttachTakeClaims, GrantOwners DEF Goroutines
    <2>2. CASE AttachSpawn(g)
      BY <1>1, <2>2, AttachSpawnRegisters, RegisterOwners DEF Goroutines
    <2> QED BY <1>1, <1>4, <2>1, <2>2, OpenOwners, AttachSteady DEF Attaching
  <1>5. ASSUME NEW g \in Gateways, Maintaining(g)
        PROVE  Owners'
    <2>1. CASE SweepClaim(g)
      BY <1>1, <2>1, SweepClaimClaims, GrantOwners DEF Goroutines
    <2>2. CASE SweepRegister(g)
      BY <1>1, <2>2, SweepRegisters, RegisterOwners DEF Goroutines
    <2> QED BY <1>1, <1>5, <2>1, <2>2, MaintainSteady DEF Maintaining
  <1>6. ASSUME NEW g \in Gateways, Removing(g) \/ ShutdownBegin(g) \/ ShuttingDown(g) \/ Crash(g)
        PROVE  Owners'
    BY <1>1, <1>6, EndingSteady
  <1>7. ASSUME NEW i \in Gens, Pumping(i) \/ BackendExits(i) \/ Detaching(i)
        PROVE  Owners'
    BY <1>1, <1>7, ObjectSteady
  <1> QED BY <1>2, <1>3, <1>4, <1>5, <1>6, <1>7 DEF Next

LEMMA OwnersInvariance == Spec => [](IInv /\ Owners)
  <1>1. Init => Owners
    <2> SUFFICES ASSUME Init PROVE Owners
      BY SMT
    <2>1. \A k \in Goroutines, g \in Gateways, i \in Gens : ~Claims(k, g, i)
      BY ConstantFacts DEF Init, Claims
    <2>2. \A i \in Gens : ~Running(i)
      BY DEF Init, Running, NoInc
    <2> QED BY <2>1, <2>2, ConstantFacts DEF Init, Owners, Claimed, NewestGenerationOwns
  <1>2. IInv /\ IInv' /\ Owners /\ [Next]_vars => Owners'
    BY NextOwners
  <1> QED BY <1>1, <1>2, Invariance, PTL DEF Spec

-----------------------------------------------------------------------------
(* The generation in the store tells the current session object from every *)
(* superseded one, on any number of gateways and after any number of       *)
(* takeovers, adoptions, crashes and shutdowns.                            *)
THEOREM NewestOwns == Spec => []NewestGenerationOwns
  <1>1. Owners => NewestGenerationOwns
    BY DEF Owners
  <1> QED BY <1>1, OwnersInvariance, PTL

(* Only remove's DeleteIfOwner takes a record out of the store.            *)
LEMMA OnlyRemoveDeletes ==
    ASSUME IInv, Next, rec # NoRec, rec' = NoRec
    PROVE  \E g \in Gateways : \E r \in removes[g] : RemoveDeletes(g, r)
  <1>1. /\ rec \in Record
        /\ \A g \in Gateways : Grant(rec, g) # NoRec
        /\ Renewed(rec) # NoRec /\ Released(rec) # NoRec /\ \A v \in Nat : Saved(rec, v) # NoRec
    BY GrantRecord, KeptRecord DEF IInv, TypeOK
  <1>2. ~(ConnLost \/ PeerClose \/ CheckpointDegraded \/ LeaseLapses)
    <2>1. LeaseLapses => rec' \in Record
      BY <1>1 DEF LeaseLapses, Record, LeaseStates
    <2> QED BY <2>1, StoreAssumption DEF ConnLost, PeerClose, CheckpointDegraded
  <1>3. ASSUME NEW g \in Gateways, Open(g) \/ Dial(g) \/ Attaching(g) PROVE FALSE
    BY <1>1, <1>3 DEF Open, Dial, Attaching, AttachKnown, AttachUnknown, AttachLoad, AttachTake,
                      AttachSpawn
  <1>4. ASSUME NEW g \in Gateways, Maintaining(g) PROVE FALSE
    BY <1>1, <1>4 DEF Maintaining, RenewBegin, RenewLease, RenewYielded, SweepBegin, SweepClaim,
                      SweepReload, SweepRegister, SweepRelease
  <1>5. ASSUME NEW g \in Gateways, ShutdownBegin(g) \/ ShuttingDown(g) \/ Crash(g) PROVE FALSE
    BY <1>1, <1>5 DEF ShutdownBegin, ShuttingDown, ShutdownDrain, DrainTakes, ShutdownCloses,
                      ShutdownReleases, Exit, Crash, Dies
  <1>6. ASSUME NEW i \in Gens, Pumping(i) \/ BackendExits(i) \/ Detaching(i) PROVE FALSE
    <2>1. ckpt[i].ver \in Nat
      BY DEF IInv, TypeOK, Checkpoint
    <2>2. ~CheckpointSave(i)
      BY <1>1, <2>1 DEF CheckpointSave
    <2> QED BY <1>6, <2>2 DEF Pumping, Receive, Dispatch, DispatchFails, CheckpointBegin,
                              BackendExits, Detaching, HandleReturns, HandleExit, ReaperFires
  <1>7. ASSUME NEW g \in Gateways, Removing(g)
        PROVE  \E r \in removes[g] : RemoveDeletes(g, r)
    BY <1>7 DEF Removing, RemovingFor, RemoveTakes, RemoveCloses
  <1> QED BY <1>2, <1>3, <1>4, <1>5, <1>6, <1>7 DEF Next

(* remove deletes the record only when no other gateway runs the newest    *)
(* session object, although it compares nothing but the owner's name.      *)
THEOREM DeleteSpares == Spec => DeleteSparesOtherGateways
  <1>1. ASSUME IInv, Owners, [Next]_vars
        PROVE  [\A g \in Gateways :
                   rec # NoRec /\ rec' = NoRec /\ removes'[g] # removes[g] /\ Running(granted)
                      => inc[granted].gw = g]_vars
    <2> SUFFICES ASSUME Next, NEW g \in Gateways,
                        rec # NoRec, rec' = NoRec, removes'[g] # removes[g], Running(granted)
                 PROVE  inc[granted].gw = g
      BY <1>1
    <2>1. PICK h \in Gateways : \E r \in removes[h] : RemoveDeletes(h, r)
      BY <1>1, OnlyRemoveDeletes
    <2>2. h = g /\ rec.owner = h
      BY <1>1, <2>1 DEF RemoveDeletes, DeletesIfOwner, IInv, TypeOK
    <2>3. granted \in Nat /\ granted # 0
      BY <1>1 DEF IInv, TypeOK, Fencing
    <2>4. rec.owner \in {inc[granted].gw, Nobody}
      BY SMT, <1>1, <2>3 DEF Owners, NewestGenerationOwns
    <2> QED BY <2>2, <2>4, StoreAssumption
  <1> QED BY <1>1, OwnersInvariance, PTL DEF Spec, DeleteSparesOtherGateways
=============================================================================
