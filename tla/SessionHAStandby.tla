----------------------- MODULE SessionHAStandby -----------------------------
(***************************************************************************)
(* What the fleet promises while sessions move by the standby sweep alone, *)
(* with no client that roams: checkpointed progress never goes back.  For  *)
(* any number of gateways and any bounds; crashes, adoptions, reaping and  *)
(* shutdowns happen at any time.                                           *)
(***************************************************************************)
EXTENDS SessionHAProofs

(* Without a client that roams no attach is in progress.                   *)
NoAttach == client.st # "arriving" /\ \A g \in Gateways : att[g] = Idle

(* What is stored of the newest generation is behind what its session      *)
(* object has received, its pending checkpoint, and the copy that adopt    *)
(* is about to resume from.                                                *)
Progressed ==
    /\ ckpt[0] = NoCkpt
    /\ \A i \in Gens : IF Running(i) THEN ckpt[i] # NoCkpt => ckpt[i].ver <= inc[i].ver
                                     ELSE ckpt[i] = NoCkpt
    /\ rec # NoRec /\ Running(granted) =>
          rec.ver <= inc[granted].ver /\ (ckpt[granted] # NoCkpt => rec.ver <= ckpt[granted].ver)
    /\ \A g \in Gateways :
          maint[g].pc = "register" /\ maint[g].gen = granted /\ rec # NoRec =>
             rec.ver <= maint[g].ps.ver

(* A leaf that names no prover is for Zenon. *)
USE Zenon

-----------------------------------------------------------------------------
(* Nobody dials, so nobody attaches with a session id. *)
LEMMA NextNoAttach ==
    ASSUME IInv, NoAttach, [Next]_vars, "roam" \notin Events
    PROVE  NoAttach'
  <1> DEFINE Same == att' = att /\ (client' = client \/ client'.st # "arriving")
  <1>0. Same => NoAttach'
    BY DEF NoAttach
  <1>a. \A g \in Gateways : att[g].pc = "idle" /\ ~Arriving(g)
    BY ConstantFacts DEF NoAttach, Arriving
  <1>1. CASE UNCHANGED vars
    BY <1>0, <1>1 DEF vars
  <1>2. CASE ConnLost \/ PeerClose \/ CheckpointDegraded \/ LeaseLapses
    BY SMT, <1>0, <1>2 DEF ConnLost, PeerClose, CheckpointDegraded, LeaseLapses, ClientIs
  <1>3. ASSUME NEW g \in Gateways, Open(g) \/ Dial(g) \/ Attaching(g) PROVE NoAttach'
    BY SMT, <1>0, <1>a, <1>3 DEF Open, Dial, Attaching, AttachKnown, AttachUnknown, AttachLoad,
                            AttachTake, AttachSpawn, ClientIs
  <1>4. ASSUME NEW g \in Gateways, Maintaining(g) PROVE NoAttach'
    BY <1>0, <1>4 DEF Maintaining, RenewBegin, RenewLease, RenewYielded, SweepBegin, SweepClaim,
                      SweepReload, SweepRegister, SweepRelease
  <1>5. ASSUME NEW g \in Gateways, Removing(g) PROVE NoAttach'
    BY <1>0, <1>5 DEF Removing, RemovingFor, RemoveTakes, RemoveCloses, RemoveDeletes
  <1>6. ASSUME NEW g \in Gateways, ShutdownBegin(g) \/ ShuttingDown(g) \/ Crash(g) PROVE NoAttach'
    <2>1. CASE Dies(g)
      BY <2>1 DEF Dies, NoAttach, ClientIs, IInv, TypeOK
    <2> QED BY <1>0, <1>6, <2>1 DEF ShutdownBegin, ShuttingDown, ShutdownDrain, DrainTakes,
                                    ShutdownCloses, ShutdownReleases, Exit, Crash
  <1>7. ASSUME NEW i \in Gens, Pumping(i) \/ BackendExits(i) \/ Detaching(i) PROVE NoAttach'
    <2>1. CASE CheckpointSave(i)
      <3>1. inc[i].gw \in Gateways
        BY <2>1 DEF CheckpointSave, Running, IInv, TypeOK, Incarnation
      <3> QED BY <1>0, <1>a, <2>1, <3>1 DEF CheckpointSave, CheckpointReturns
    <2> QED BY SMT, <1>0, <1>7, <2>1 DEF Pumping, Receive, Dispatch, DispatchFails, CheckpointBegin,
                BackendExits, Detaching, HandleReturns, HandleExit, ReaperFires,
                ClientMaySeeClose, ClientIs
  <1> QED BY <1>1, <1>2, <1>3, <1>4, <1>5, <1>6, <1>7 DEF Next

-----------------------------------------------------------------------------
(* Checkpointed progress. *)

(* Only a received message moves an object's cursor, and only a save or a  *)
(* first grant the record's.                                               *)
LEMMA SameVersion ==
    ASSUME NEW x \in Incarnation
    PROVE  /\ Closed(x).ver = x.ver /\ Gone(x).ver = x.ver /\ Attached(x).ver = x.ver
           /\ Received(x).ver = x.ver + 1 /\ Dispatched(x).ver = x.ver
           /\ PumpReturned(x).ver = x.ver /\ Leaving(x).ver = x.ver
           /\ \A b \in BOOLEAN : Exited(x, b).ver = x.ver
           /\ Serving(x).ver = x.ver /\ Armed(x).ver = x.ver /\ Fired(x).ver = x.ver
           /\ Disarmed(x).ver = x.ver
           /\ \A to \in {"read", "done"} : PumpGoes(x, to).ver = x.ver
           /\ PumpGoes(Closed(x), "done").ver = x.ver
  BY DEF Incarnation, Closed, Gone, Attached, Received, Dispatched, PumpReturned, Leaving,
         Exited, Serving, Armed, Fired, Disarmed, PumpGoes

LEMMA StoredVersion ==
    ASSUME NEW r \in Record, NEW v \in Nat, NEW g \in Gateways
    PROVE  /\ Renewed(r).ver = r.ver /\ Released(r).ver = r.ver
           /\ Saved(r, v).ver = v /\ Grant(r, g).ver = r.ver
  <1>1. r # NoRec
    BY StoreAssumption
  <1> QED BY <1>1 DEF Renewed, Released, Saved, Grant, Record

(* One object changes, and its cursor does not go back.                    *)
Onward ==
    \A i \in Gens : Running(i)' => Running(i) /\ inc'[i].ver >= inc[i].ver
Staying ==
    \A i \in Gens : (Running(i)' <=> Running(i)) /\ inc'[i].ver >= inc[i].ver
LEMMA StayingAt ==
    ASSUME IInv, NEW i \in Gens, NEW x, inc' = inc \/ inc' = [inc EXCEPT ![i] = x],
           x.gw = inc[i].gw, x.ver \in {inc[i].ver, inc[i].ver + 1}
    PROVE  Staying
  <1>1. inc \in [Gens -> Incarnation]
    BY DEF IInv, TypeOK
  <1>2. \A j \in Gens : inc[j].ver \in Nat
    BY <1>1 DEF Incarnation
  <1>3. inc'[i] \in {inc[i], x} /\ \A j \in Gens : j # i => inc'[j] = inc[j]
    BY <1>1
  <1> QED BY SMT, <1>2, <1>3 DEF Staying, Running
LEMMA StayingSame ==
    ASSUME IInv, inc' = inc
    PROVE  Staying
  BY StayingAt, ConstantFacts

(* A step that neither starts nor ends a checkpoint with a save, grants or *)
(* loads anything.                                                         *)
Quiet ==
    /\ granted' = granted /\ Onward
    /\ rec' # NoRec => rec # NoRec /\ rec'.ver = rec.ver
    /\ \A i \in Gens : ckpt'[i] \in {ckpt[i], NoCkpt} /\ (~Running(i)' => ckpt'[i] = NoCkpt)
    /\ \A g \in Gateways : maint'[g].pc = "register" => maint'[g] = maint[g]

LEMMA Numbers ==
    ASSUME IInv, IInv'
    PROVE  /\ granted \in Gens /\ granted \in Nat /\ granted' \in Gens /\ granted' \in Nat
           /\ rec # NoRec => rec \in Record /\ rec.ver \in Nat
           /\ rec' # NoRec => rec' \in Record /\ rec'.ver \in Nat
           /\ \A i \in Gens : inc[i].ver \in Nat /\ inc'[i].ver \in Nat /\ ckpt[i].ver \in Nat
  <1>1. /\ granted \in Gens /\ granted \in Nat /\ granted' \in Gens /\ granted' \in Nat
        /\ rec # NoRec => rec \in Record
        /\ rec' # NoRec => rec' \in Record
    BY SMT, BoundAssumption DEF IInv, TypeOK, Fencing, Gens
  <1>2. \A i \in Gens : inc[i] \in Incarnation /\ inc'[i] \in Incarnation /\ ckpt[i] \in Checkpoint
    BY DEF IInv, TypeOK
  <1>3. \A i \in Gens : inc[i].ver \in Nat /\ inc'[i].ver \in Nat /\ ckpt[i].ver \in Nat
    BY <1>2 DEF Incarnation, Checkpoint
  <1>4. \A r \in Record : r.ver \in Nat
    BY DEF Record
  <1> QED BY <1>1, <1>3, <1>4

LEMMA QuietProgressed ==
    ASSUME IInv, IInv', Progressed, Quiet
    PROVE  Progressed'
  <1>1. /\ granted \in Gens /\ granted' = granted
        /\ rec # NoRec => rec.ver \in Nat
        /\ \A i \in Gens : inc[i].ver \in Nat /\ inc'[i].ver \in Nat /\ ckpt[i].ver \in Nat
    BY Numbers DEF Quiet
  <1>2. ASSUME NEW i \in Gens
        PROVE  IF Running(i)' THEN ckpt'[i] # NoCkpt => ckpt'[i].ver <= inc'[i].ver
                              ELSE ckpt'[i] = NoCkpt
    BY SMT, <1>1 DEF Progressed, Quiet, Onward
  <1>3. rec' # NoRec /\ Running(granted)' =>
           /\ rec'.ver <= inc'[granted].ver
           /\ ckpt'[granted] # NoCkpt => rec'.ver <= ckpt'[granted].ver
    BY SMT, <1>1 DEF Progressed, Quiet, Onward
  <1>4. ASSUME NEW g \in Gateways, maint'[g].pc = "register", maint'[g].gen = granted', rec' # NoRec
        PROVE  rec'.ver <= maint'[g].ps.ver
    BY <1>1, <1>4 DEF Progressed, Quiet
  <1>5. ckpt'[0] = NoCkpt
    BY ConstantFacts DEF Progressed, Quiet
  <1> QED BY <1>1, <1>2, <1>3, <1>4, <1>5 DEF Progressed, Running

(* The steps that leave checkpoints and adoptions alone.                   *)
LEMMA StayingQuiet ==
    ASSUME IInv, Progressed, Staying, UNCHANGED <<granted, ckpt>>,
           rec' # NoRec => rec # NoRec /\ rec'.ver = rec.ver,
           \A g \in Gateways : maint'[g].pc = "register" => maint'[g] = maint[g]
    PROVE  Quiet
  BY DEF Quiet, Staying, Onward, Progressed

LEMMA ClientQuiet ==
    ASSUME IInv, Progressed, ConnLost \/ PeerClose \/ CheckpointDegraded \/ LeaseLapses
    PROVE  Quiet
  <1>1. CASE PeerClose
    <2>1. client.at \in Gens /\ inc[client.at] \in Incarnation
      BY <1>1 DEF PeerClose, IInv, Locals, TypeOK
    <2>2. Staying
      BY <1>1, <2>1, SameGateway, SameVersion, StayingAt DEF PeerClose
    <2> QED BY <1>1, <2>2, StayingQuiet DEF PeerClose
  <1>2. CASE CheckpointDegraded
    <2>1. 0 \in Gens /\ inc[0] \in Incarnation
      BY ConstantFacts DEF IInv, TypeOK
    <2>2. Staying
      BY <1>2, <2>1, SameGateway, SameVersion, StayingAt DEF CheckpointDegraded
    <2> QED BY <1>2, <2>2, StayingQuiet DEF CheckpointDegraded
  <1>3. CASE ConnLost
    BY <1>3, StayingSame, StayingQuiet DEF ConnLost
  <1>4. CASE LeaseLapses
    <2>1. rec \in Record /\ rec # NoRec
      BY <1>4 DEF LeaseLapses, IInv, TypeOK
    <2>2. rec'.ver = rec.ver
      BY <1>4, <2>1 DEF LeaseLapses, Record
    <2> QED BY <1>4, <2>1, <2>2, StayingSame, StayingQuiet DEF LeaseLapses
  <1> QED BY <1>1, <1>2, <1>3, <1>4

LEMMA ObjectQuiet ==
    ASSUME IInv, Progressed, NEW i \in Gens,
           \/ Receive(i) \/ Dispatch(i) \/ DispatchFails(i) \/ BackendExits(i) \/ Detaching(i)
    PROVE  Quiet
  <1>1. inc[i] \in Incarnation
    BY DEF IInv, TypeOK
  <1>2. UNCHANGED <<rec, granted, ckpt, maint>>
    BY DEF Receive, Dispatch, DispatchFails, BackendExits, Detaching, HandleReturns, HandleExit,
           ReaperFires
  <1>3. CASE Receive(i) \/ Dispatch(i)
    BY <1>1, <1>2, <1>3, SameGateway, SameVersion, StayingAt, StayingQuiet DEF Receive, Dispatch
  <1>4. CASE DispatchFails(i)
    BY <1>1, <1>2, <1>4, SameGateway, SameVersion, StayingAt, StayingQuiet DEF DispatchFails
  <1>5. CASE BackendExits(i) \/ ReaperFires(i)
    BY <1>1, <1>2, <1>5, SameGateway, SameVersion, StayingAt, StayingQuiet DEF BackendExits, ReaperFires
  <1>6. CASE HandleReturns(i)
    BY <1>1, <1>2, <1>6, SameGateway, SameVersion, StayingAt, StayingQuiet DEF HandleReturns
  <1>7. CASE HandleExit(i)
    BY <1>1, <1>2, <1>7, SameGateway, SameVersion, StayingAt, StayingQuiet DEF HandleExit
  <1> QED BY <1>3, <1>4, <1>5, <1>6, <1>7 DEF Detaching

(* Teardown, shutdown and crashes.                                         *)
LEMMA EndingQuiet ==
    ASSUME IInv, Progressed, NEW g \in Gateways,
           Removing(g) \/ ShutdownBegin(g) \/ ShuttingDown(g) \/ Crash(g)
    PROVE  Quiet
  <1>1. /\ \A i \in Gens : inc[i] \in Incarnation
        /\ rec # NoRec => rec \in Record
    BY DEF IInv, TypeOK
  <1>2. ASSUME NEW r \in removes[g], RemoveTakes(g, r) PROVE Quiet
    <2>1. CASE sessions[g] = None
      BY <1>2, <2>1, StayingSame, StayingQuiet DEF RemoveTakes
    <2>2. CASE sessions[g] # None
      <3>1. sessions[g] \in Gens /\ inc' = [inc EXCEPT ![sessions[g]] = Disarmed(@)]
        BY <1>2, <2>2 DEF RemoveTakes, IInv, TypeOK
      <3>2. Staying
        BY <1>1, <3>1, SameGateway, SameVersion, StayingAt
      <3> QED BY <1>2, <3>2, StayingQuiet DEF RemoveTakes
    <2> QED BY <2>1, <2>2
  <1>3. ASSUME NEW r \in removes[g], RemoveCloses(g, r) PROVE Quiet
    <2>1. r.sess \in Gens /\ inc' = [inc EXCEPT ![r.sess] = Gone(@)]
      BY <1>3 DEF RemoveCloses, IInv, Locals, RemovalLocal
    <2>2. Staying
      BY <1>1, <2>1, SameGateway, SameVersion, StayingAt
    <2> QED BY <1>3, <2>2, StayingQuiet DEF RemoveCloses
  <1>4. ASSUME NEW r \in removes[g], RemoveDeletes(g, r) PROVE Quiet
    BY <1>4, StayingSame, StayingQuiet DEF RemoveDeletes
  <1>5. CASE ShutdownBegin(g)
    BY <1>5, StayingSame, StayingQuiet DEF ShutdownBegin
  <1>6. CASE ShutdownDrain(g)
    <2>1. CASE sessions[g] = None
      BY <1>6, <2>1, StayingSame, StayingQuiet DEF ShutdownDrain, DrainTakes
    <2>2. CASE sessions[g] # None
      <3>1. sessions[g] \in Gens /\ inc' = [inc EXCEPT ![sessions[g]] = Disarmed(@)]
        BY <1>6, <2>2 DEF ShutdownDrain, DrainTakes, IInv, TypeOK
      <3>2. Staying
        BY <1>1, <3>1, SameGateway, SameVersion, StayingAt
      <3> QED BY <1>6, <3>2, StayingQuiet DEF ShutdownDrain, DrainTakes
    <2> QED BY <2>1, <2>2
  <1>7. CASE ShutdownCloses(g)
    <2>1. drain[g].of \in Gens /\ inc' = [inc EXCEPT ![drain[g].of] = Closed(@)]
      BY <1>7 DEF ShutdownCloses, IInv, Locals, DrainLocal
    <2>2. Staying
      BY <1>1, <2>1, SameGateway, SameVersion, StayingAt
    <2> QED BY <1>7, <2>2, StayingQuiet DEF ShutdownCloses
  <1>8. CASE ShutdownReleases(g)
    <2>1. drain[g].of \in Gens /\ inc' = [inc EXCEPT ![drain[g].of] = Gone(@)]
      BY <1>8 DEF ShutdownReleases, IInv, Locals, DrainLocal
    <2>2. Staying
      BY <1>1, <2>1, SameGateway, SameVersion, StayingAt
    <2>3. rec' = rec \/ (rec # NoRec /\ rec' = Released(rec))
      BY <1>8 DEF ShutdownReleases, Holds
    <2>4. rec' # NoRec => rec # NoRec /\ rec'.ver = rec.ver
      BY SMT, <1>1, <2>3, StoredVersion
    <2> QED BY <1>8, <2>2, <2>4, StayingQuiet DEF ShutdownReleases
  <1>9. CASE Exit(g) \/ Crash(g)
    <2>1. Dies(g)
      BY <1>9 DEF Exit, Crash
    <2>2. \A i \in Gens : IF inc[i].gw = g THEN inc'[i] = NoInc /\ ckpt'[i] = NoCkpt
                                           ELSE inc'[i] = inc[i] /\ ckpt'[i] = ckpt[i]
      BY <2>1 DEF Dies
    <2>3. \A i \in Gens : inc[i].ver \in Nat
      BY <1>1 DEF Incarnation
    <2>4. Onward /\ \A i \in Gens : ckpt'[i] \in {ckpt[i], NoCkpt} /\ (~Running(i)' => ckpt'[i] = NoCkpt)
      BY SMT, <2>2, <2>3 DEF Onward, Running, NoInc, Progressed
    <2>5. \A h \in Gateways : maint'[h].pc = "register" => maint'[h] = maint[h]
      BY <2>1, ConstantFacts DEF Dies, IInv, TypeOK
    <2> QED BY <2>1, <2>4, <2>5 DEF Dies, Quiet
  <1> QED BY <1>2, <1>3, <1>4, <1>5, <1>6, <1>7, <1>8, <1>9 DEF Removing, RemovingFor, ShuttingDown

(* The maintenance goroutine, but for what it loads and registers.         *)
LEMMA MaintainQuiet ==
    ASSUME IInv, Progressed, NEW g \in Gateways,
           RenewBegin(g) \/ RenewLease(g) \/ RenewYielded(g) \/ SweepBegin(g) \/ SweepRelease(g)
    PROVE  Quiet
  <1> DEFINE m == maint[g]
             X == {Idle, AtGen(m, "renew", sessions[g]), At(m, "yield"), AtWith(m, "claim", rec)}
  <1>1. UNCHANGED <<granted, inc, ckpt>>
    BY DEF RenewBegin, RenewLease, RenewYielded, SweepBegin, SweepRelease
  <1>2. rec' # NoRec => rec # NoRec /\ rec'.ver = rec.ver
    <2>1. rec' = rec \/ (rec # NoRec /\ rec' \in {Renewed(rec), Released(rec)})
      BY DEF RenewBegin, RenewLease, RenewYielded, SweepBegin, SweepRelease, Holds
    <2> QED BY SMT, <2>1, StoredVersion DEF IInv, TypeOK
  <1>3. m \in Progress /\ maint \in [Gateways -> Progress]
    BY DEF IInv, TypeOK
  <1>4. \E x \in X : maint' = [maint EXCEPT ![g] = x]
    <2>1. CASE RenewBegin(g) \/ RenewYielded(g) \/ SweepBegin(g) \/ SweepRelease(g)
      BY <2>1 DEF RenewBegin, RenewYielded, SweepBegin, SweepRelease
    <2>2. CASE RenewLease(g)
      BY <2>2 DEF RenewLease
    <2> QED BY <2>1, <2>2
  <1>5. \A x \in X : x.pc # "register"
    <2>1. /\ AtGen(m, "renew", sessions[g]).pc = "renew" /\ At(m, "yield").pc = "yield"
          /\ AtWith(m, "claim", rec).pc = "claim" /\ Idle.pc = "idle"
      BY <1>3, ConstantFacts DEF At, AtWith, AtGen, Progress
    <2> QED BY <2>1
  <1> HIDE DEF X
  <1>6. \A h \in Gateways : maint'[h].pc = "register" => maint'[h] = maint[h]
    BY <1>3, <1>4, <1>5
  <1> QED BY <1>1, <1>2, <1>6, StayingSame, StayingQuiet

(* A loaded record is as far as the store.                                 *)
LEMMA ReloadProgressed ==
    ASSUME IInv, IInv', Progressed, NEW g \in Gateways, SweepReload(g)
    PROVE  Progressed'
  <1>1. maint[g] \in Progress /\ maint \in [Gateways -> Progress] /\ UNCHANGED <<rec, granted, inc, ckpt>>
    BY DEF IInv, TypeOK, SweepReload
  <1>2. CASE rec # NoRec /\ maint' = [maint EXCEPT ![g] = AtWith(@, "register", rec)]
    <2>1. maint'[g].ps = rec /\ \A h \in Gateways : h # g => maint'[h] = maint[h]
      BY <1>1, <1>2 DEF AtWith, Progress
    <2>2. rec.ver \in Nat
      BY <1>2, Numbers
    <2> QED BY SMT, <1>1, <2>1, <2>2 DEF Progressed, Running
  <1>3. CASE maint' = [maint EXCEPT ![g] = At(@, "release")]
    <2>1. maint'[g].pc = "release" /\ \A h \in Gateways : h # g => maint'[h] = maint[h]
      BY <1>1, <1>3 DEF At, Progress
    <2> QED BY <1>1, <2>1 DEF Progressed, Running
  <1> QED BY <1>2, <1>3 DEF SweepReload

(* A grant starts a generation that runs nowhere.                          *)
LEMMA ClaimProgressed ==
    ASSUME IInv, IInv', Owners, Progressed, NEW g \in Gateways, SweepClaim(g)
    PROVE  Progressed'
  <1>1. /\ inc' = inc /\ ckpt' = ckpt /\ maint[g] \in Progress /\ maint \in [Gateways -> Progress]
        /\ \A h \in Gateways : maint[h] \in Progress
    BY DEF IInv, TypeOK, SweepClaim
  <1>2. maint'[g].pc # "register" /\ \A h \in Gateways : h # g => maint'[h] = maint[h]
    <2>1. \E x \in {AtGen(maint[g], "reload", Grant(rec, g).gen), Idle} : maint' = [maint EXCEPT ![g] = x]
      BY DEF SweepClaim
    <2>2. AtGen(maint[g], "reload", Grant(rec, g).gen).pc = "reload" /\ Idle.pc = "idle"
      BY <1>1, ConstantFacts DEF AtGen, Progress
    <2> QED BY <1>1, <2>1, <2>2
  <1>3. CASE granted' = granted /\ rec' = rec
    BY <1>1, <1>2, <1>3 DEF Progressed, Running
  <1>4. CASE granted' = granted + 1
    <2>1. granted' \in Gens /\ granted \in Nat
      BY Numbers
    <2>2. ~Running(granted')
      BY SMT, <1>4, <2>1 DEF Owners, NewestGenerationOwns
    <2>3. \A h \in Gateways : maint[h].pc = "register" => maint[h].gen <= granted /\ maint[h].gen \in Nat
      <3>1. \A h \in Gateways : maint[h].pc = "register" => maint[h].gen \in Gens
        BY DEF IInv, Locals, MaintLocal
      <3>2. \A h \in Gateways : maint[h].pc = "register" => Claims("sweep", h, maint[h].gen)
        BY DEF Claims
      <3> QED BY SMT, <3>1, <3>2, BoundAssumption DEF Owners, Claimed, Goroutines, Gens
    <2>4. \A h \in Gateways : maint'[h].pc = "register" => maint'[h].gen # granted'
      BY SMT, <1>2, <1>4, <2>1, <2>3
    <2> QED BY <1>1, <2>2, <2>4 DEF Progressed, Running
  <1> QED BY <1>3, <1>4 DEF SweepClaim

(* The registered object starts from what was loaded.                      *)
LEMMA RegisterProgressed ==
    ASSUME IInv, IInv', Owners, Progressed, NEW g \in Gateways, SweepRegister(g)
    PROVE  Progressed'
  <1>0. maint[g].gen \in Gens /\ maint[g].ps.ver \in Nat
    BY DEF IInv, TypeOK, Locals, MaintLocal, Loaded, Record, SweepRegister
  <1>1. PICK i \in Gens, v \in Nat :
           /\ i = maint[g].gen /\ v = maint[g].ps.ver /\ maint[g].pc = "register"
           /\ maint[g] \in Progress /\ maint \in [Gateways -> Progress] /\ UNCHANGED <<rec, granted>>
    BY <1>0 DEF IInv, TypeOK, SweepRegister
  <1>2. maint'[g].pc # "register" /\ \A h \in Gateways : h # g => maint'[h] = maint[h]
    <2>1. \E x \in {At(maint[g], "save"), At(maint[g], "release")} : maint' = [maint EXCEPT ![g] = x]
      BY DEF SweepRegister
    <2>2. At(maint[g], "save").pc = "save" /\ At(maint[g], "release").pc = "release"
      BY <1>1 DEF At, Progress
    <2> QED BY <1>1, <2>1, <2>2
  <1>3. \A h \in Gateways : maint'[h].pc = "register" => maint'[h] = maint[h]
    BY <1>2
  <1>4. CASE inc' = inc /\ ckpt' = ckpt
    BY <1>1, <1>3, <1>4 DEF Progressed, Running
  <1>5. CASE Register(g, i, v, 0)
    <2>1. i = granted /\ rec # NoRec => rec.ver <= v
      BY <1>1 DEF Progressed
    <2>0. i > 0
      BY <1>1 DEF Claims, Owners, Claimed, Goroutines
    <2>2. /\ inc'[i].ver = v /\ inc'[i].gw = g /\ ckpt'[i].ver = v
          /\ \A j \in Gens : j # i => inc'[j] = inc[j] /\ ckpt'[j] = ckpt[j]
      BY <1>1, <1>5 DEF Register, NewInc, IInv, TypeOK
    <2>3. Running(i)' /\ \A j \in Gens : j # i => (Running(j)' <=> Running(j))
      BY <2>2, StoreAssumption DEF Running
    <2>4. ASSUME NEW j \in Gens
          PROVE  IF Running(j)' THEN ckpt'[j] # NoCkpt => ckpt'[j].ver <= inc'[j].ver
                                ELSE ckpt'[j] = NoCkpt
      BY SMT, <1>1, <2>2, <2>3 DEF Progressed
    <2>5. rec' # NoRec /\ Running(granted)' =>
             rec'.ver <= inc'[granted].ver /\ (ckpt'[granted] # NoCkpt => rec'.ver <= ckpt'[granted].ver)
      BY <1>1, <2>1, <2>2, <2>3, Numbers DEF Progressed
    <2>6. \A h \in Gateways : maint'[h].pc = "register" /\ maint'[h].gen = granted' /\ rec' # NoRec =>
             rec'.ver <= maint'[h].ps.ver
      BY <1>1, <1>3 DEF Progressed
    <2>7. ckpt'[0] = NoCkpt
      BY SMT, <2>0, <2>2, ConstantFacts DEF Progressed
    <2> QED BY <1>1, <2>4, <2>5, <2>6, <2>7 DEF Progressed, Running
  <1> QED BY <1>1, <1>4, <1>5 DEF SweepRegister

(* A snapshot is of everything received.                                   *)
LEMMA BeginProgressed ==
    ASSUME IInv, IInv', Progressed, NEW i \in Gens,
           NEW by \in {"pump", "ack", "shutdown"}, CheckpointBegin(i, by)
    PROVE  Progressed'
  <1>1. UNCHANGED <<rec, granted, inc, maint>> /\ Running(i)
    BY DEF CheckpointBegin
  <1>2. ckpt'[i].ver = inc[i].ver /\ \A j \in Gens : j # i => ckpt'[j] = ckpt[j]
    BY DEF CheckpointBegin, IInv, TypeOK
  <1>3. ASSUME NEW j \in Gens
        PROVE  IF Running(j)' THEN ckpt'[j] # NoCkpt => ckpt'[j].ver <= inc'[j].ver
                              ELSE ckpt'[j] = NoCkpt
    BY SMT, <1>1, <1>2, Numbers DEF Progressed, Running
  <1>4. rec # NoRec /\ Running(granted) =>
           rec.ver <= inc[granted].ver /\ (ckpt'[granted] # NoCkpt => rec.ver <= ckpt'[granted].ver)
    BY <1>1, <1>2, Numbers DEF Progressed
  <1>5. ckpt'[0] = NoCkpt
    BY SMT, <1>2, ConstantFacts DEF Progressed, CheckpointBegin
  <1> QED BY <1>1, <1>3, <1>4, <1>5 DEF Progressed, Running

(* A save moves the record up to a snapshot of the newest object, and no   *)
(* further than the object is; nobody is about to resume that generation.  *)
LEMMA SaveProgressed ==
    ASSUME IInv, IInv', Owners, Progressed, NoAttach, NEW i \in Gens, CheckpointSave(i)
    PROVE  /\ Progressed'
           /\ rec' = rec \/ (rec # NoRec /\ rec'.ver >= rec.ver)
  <1>1. /\ Running(i) /\ ckpt[i] # NoCkpt /\ inc[i] \in Incarnation /\ granted' = granted
        /\ inc[i].gw \in Gateways
    BY DEF CheckpointSave, Running, IInv, TypeOK, Incarnation
  <1>2. Staying
    <2>1. \E x \in {inc[i], PumpGoes(inc[i], "read"), Armed(inc[i]), Serving(inc[i])} :
             inc' = [inc EXCEPT ![i] = x]
      BY DEF CheckpointSave, CheckpointReturns
    <2>2. \A x \in {inc[i], PumpGoes(inc[i], "read"), Armed(inc[i]), Serving(inc[i])} :
             x.gw = inc[i].gw /\ x.ver = inc[i].ver
      BY SMT, <1>1, SameGateway, SameVersion
    <2> QED BY <2>1, <2>2, StayingAt
  <1>3. ckpt'[i] = NoCkpt /\ \A j \in Gens : j # i => ckpt'[j] = ckpt[j]
    BY DEF CheckpointSave, CheckpointReturns, IInv, TypeOK
  <1>4. \A h \in Gateways : maint'[h].pc = "register" => maint'[h] = maint[h]
    <2>1. maint' = maint \/ maint' = [maint EXCEPT ![inc[i].gw] = Idle]
      BY DEF CheckpointSave, CheckpointReturns
    <2> QED BY <1>1, <2>1, ConstantFacts DEF IInv, TypeOK
  <1>5. \A j \in Gens : Running(j)' /\ ckpt'[j] # NoCkpt => ckpt'[j].ver <= inc'[j].ver
    BY SMT, <1>2, <1>3, Numbers DEF Progressed, Staying
  <1>6. \A j \in Gens : ~Running(j)' => ckpt'[j] = NoCkpt
    BY <1>2, <1>3 DEF Progressed, Staying
  <1>7. CASE rec' = rec
    <2>1. Quiet
      BY <1>1, <1>2, <1>3, <1>4, <1>6, <1>7 DEF Quiet, Staying, Onward
    <2> QED BY <1>7, <2>1, QuietProgressed
  <1>8. CASE Holds(rec, inc[i].gw, i) /\ rec' = Saved(rec, ckpt[i].ver)
    <2>0. rec # NoRec /\ rec \in Record /\ i = granted /\ ckpt[i].ver \in Nat
      BY <1>8, Numbers DEF Holds, IInv, Fencing
    <2>1. rec # NoRec /\ rec \in Record /\ i = granted /\ rec'.ver = ckpt[i].ver
      BY <1>1, <1>8, <2>0, StoredVersion
    <2>2. rec.ver <= ckpt[i].ver /\ ckpt[i].ver <= inc[i].ver
      BY <1>1, <2>1 DEF Progressed
    <2>3. rec'.ver >= rec.ver /\ rec'.ver <= inc'[granted].ver
      BY SMT, <1>2, <2>1, <2>2, Numbers DEF Staying
    <2>4. \A h \in Gateways : maint[h].pc = "register" => maint[h].gen # granted
      <3>1. \A h \in Gateways : maint[h].pc = "register" => Claims("sweep", h, maint[h].gen)
        BY DEF Claims
      <3> QED BY SMT, <1>1, <2>1, <3>1 DEF Owners, Claimed, Goroutines
    <2>5. \A h \in Gateways : maint'[h].pc = "register" => maint'[h].gen # granted'
      BY <1>1, <1>4, <2>4
    <2>a. ckpt'[0] = NoCkpt
      BY <1>3, ConstantFacts DEF Progressed
    <2>6. Progressed'
      BY <2>a, <1>1, <1>3, <1>5, <1>6, <2>1, <2>3, <2>5 DEF Progressed, Running
    <2> QED BY <2>1, <2>3, <2>6
  <1> QED BY <1>7, <1>8 DEF CheckpointSave

(* The first lease and its object start from nothing.                      *)
LEMMA OpenProgressed ==
    ASSUME IInv, IInv', Owners, Progressed, NEW g \in Gateways, Open(g)
    PROVE  Progressed'
  <1>1. granted = 0 /\ rec = NoRec /\ 0 \in Gens /\ 1 \in Gens /\ UNCHANGED <<ckpt, maint>>
    BY ConstantFacts DEF Open, IInv, Fencing
  <1>2. \A i \in Gens : i > 0 => ~Running(i) /\ ckpt[i] = NoCkpt
    BY SMT, <1>1 DEF Owners, NewestGenerationOwns, Progressed, Gens
  <1>3. \A h \in Gateways : maint[h].pc # "register"
    <2>1. \A h \in Gateways : maint[h].pc = "register" =>
             maint[h].gen \in Gens /\ Claims("sweep", h, maint[h].gen)
      BY DEF Claims, IInv, Locals, MaintLocal
    <2> QED BY SMT, <1>1, <2>1 DEF Owners, Claimed, Goroutines, Gens
  <1>4. CASE rec' = Grant(rec, g) /\ granted' = 1 /\ inc' = [inc EXCEPT ![1] = NewInc(g, 0, 1, 1)]
    <2>1. rec'.ver = 0
      BY <1>1, <1>4 DEF Grant, FreshRecord
    <2>2. inc'[1].ver = 0 /\ inc'[1].gw = g /\ \A i \in Gens : i # 1 => inc'[i] = inc[i]
      BY <1>1, <1>4 DEF NewInc, IInv, TypeOK
    <2>3. Running(1)' /\ \A i \in Gens : i # 1 => (Running(i)' <=> Running(i))
      BY <2>2, StoreAssumption DEF Running
    <2>4. ckpt'[1] = NoCkpt
      BY SMT, <1>1, <1>2
    <2>5. \A i \in Gens : IF Running(i)' THEN ckpt'[i] # NoCkpt => ckpt'[i].ver <= inc'[i].ver
                                         ELSE ckpt'[i] = NoCkpt
      BY <1>1, <2>2, <2>3, <2>4 DEF Progressed
    <2> QED BY SMT, <1>1, <1>3, <1>4, <2>1, <2>2, <2>4, <2>5 DEF Progressed, Running
  <1>5. CASE rec' = rec /\ granted' = granted /\ inc' = [inc EXCEPT ![0] = NewInc(g, 0, 1, 1)]
    <2>1. inc'[0].gw = g /\ \A i \in Gens : i # 0 => inc'[i] = inc[i]
      BY <1>1, <1>5 DEF NewInc, IInv, TypeOK
    <2>2. Running(0)' /\ \A i \in Gens : i # 0 => (Running(i)' <=> Running(i))
      BY <2>1, StoreAssumption DEF Running
    <2> QED BY <1>1, <1>3, <1>5, <2>1, <2>2 DEF Progressed, Running
  <1> QED BY <1>4, <1>5 DEF Open

(* Every step of the fleet, when no client roams.                          *)
LEMMA NextProgressed ==
    ASSUME IInv, IInv', Owners, NoAttach, Progressed, [Next]_vars, "roam" \notin Events
    PROVE  Progressed' /\ ~Regresses
  <1>0. /\ rec # NoRec => rec.ver \in Nat
        /\ rec' # NoRec => rec'.ver \in Nat
    BY Numbers
  <1>1. Quiet => Progressed' /\ ~Regresses
    BY SMT, <1>0, QuietProgressed DEF Quiet, Regresses
  <1>2. rec' = rec => ~Regresses
    BY SMT, <1>0 DEF Regresses
  <1>3. CASE UNCHANGED vars
    BY <1>2, <1>3 DEF vars, Progressed, Running
  <1>4. CASE ConnLost \/ PeerClose \/ CheckpointDegraded \/ LeaseLapses
    BY <1>1, <1>4, ClientQuiet
  <1>5. ASSUME NEW g \in Gateways, Open(g) PROVE Progressed' /\ ~Regresses
    <2>1. rec = NoRec
      BY <1>5 DEF Open, IInv, Fencing
    <2> QED BY <1>5, <2>1, OpenProgressed DEF Regresses
  <1>6. ASSUME NEW g \in Gateways PROVE ~Dial(g) /\ ~Attaching(g)
    <2>1. att[g].pc = "idle" /\ ~Arriving(g)
      BY ConstantFacts DEF NoAttach, Arriving
    <2> QED BY <2>1 DEF Dial, Attaching, AttachKnown, AttachUnknown, AttachLoad, AttachTake, AttachSpawn
  <1>7. ASSUME NEW g \in Gateways, Maintaining(g) PROVE Progressed' /\ ~Regresses
    <2>1. CASE SweepReload(g)
      BY <1>2, <2>1, ReloadProgressed DEF SweepReload
    <2>2. CASE SweepRegister(g)
      BY <1>2, <2>2, RegisterProgressed DEF SweepRegister
    <2>3. CASE SweepClaim(g)
      <3>1. rec' = rec \/ rec' = Grant(rec, g)
        BY <2>3 DEF SweepClaim
      <3>2. rec # NoRec => Grant(rec, g).ver = rec.ver
        BY StoredVersion, Numbers
      <3> QED BY SMT, <1>0, <2>3, <3>1, <3>2, ClaimProgressed DEF Regresses
    <2> QED BY <1>1, <1>7, <2>1, <2>2, <2>3, MaintainQuiet DEF Maintaining
  <1>8. ASSUME NEW g \in Gateways, Removing(g) \/ ShutdownBegin(g) \/ ShuttingDown(g) \/ Crash(g)
        PROVE  Progressed' /\ ~Regresses
    BY <1>1, <1>8, EndingQuiet
  <1>9. ASSUME NEW i \in Gens, Pumping(i) \/ BackendExits(i) \/ Detaching(i)
        PROVE  Progressed' /\ ~Regresses
    <2>1. CASE CheckpointSave(i)
      BY SMT, <1>0, <1>2, <2>1, SaveProgressed DEF Regresses
    <2>2. CASE \E by \in {"pump", "ack", "shutdown"} : CheckpointBegin(i, by)
      BY <1>2, <2>2, BeginProgressed DEF CheckpointBegin
    <2> QED BY <1>1, <1>9, <2>1, <2>2, ObjectQuiet DEF Pumping
  <1> QED BY <1>3, <1>4, <1>5, <1>6, <1>7, <1>8, <1>9 DEF Next

LEMMA InitProgressed == Init => NoAttach /\ Progressed
  BY SMT, ConstantFacts DEF Init, NoAttach, Progressed, Running, NoInc, ClientIs

(* Under the standby sweep the stored cursor never goes back: adopt's      *)
(* second Load, made once the previous owner is fenced, is what this rests *)
(* on.  (A client that roams may resume from the copy that attach loaded   *)
(* before its takeover.)                                                   *)
THEOREM SweepKeepsProgress ==
    ASSUME "roam" \notin Events
    PROVE  Spec => NeverRegresses
  <1>1. IInv /\ NoAttach /\ [Next]_vars => NoAttach'
    BY NextNoAttach
  <1>2. IInv /\ IInv' /\ Owners /\ NoAttach /\ Progressed /\ [Next]_vars => Progressed' /\ ~Regresses
    BY NextProgressed
  <1> QED BY <1>1, <1>2, InitProgressed, OwnersInvariance, PTL DEF Spec, NeverRegresses
=============================================================================
