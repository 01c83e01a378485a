--------------------------- MODULE SessionHADrain ---------------------------
(***************************************************************************)
(* A clean shutdown leaves no lease behind, while sessions move by the     *)
(* standby sweep alone and the store answers.  For any number of gateways  *)
(* and any bounds; crashes, adoptions, reaping and shutdowns happen at any *)
(* time.                                                                   *)
(***************************************************************************)
EXTENDS SessionHAStandby

(* Shutdown's final checkpoint is of the session it is draining, and a     *)
(* live gateway that the record names has the session in its map, is       *)
(* adopting it, is draining it, or is removing it.                         *)
Keeps(g, i) ==
    \/ sessions[g] = i
    \/ maint[g].pc \in {"reload", "register", "release"} /\ maint[g].gen = i
    \/ drain[g].pc \in {"save", "close", "release"} /\ drain[g].of = i
    \/ \E r \in removes[g] : r.pc # "lock" /\ r.sess = i
Final ==
    \A i \in Gens : Running(i) /\ ckpt[i].by = "shutdown" =>
        drain[inc[i].gw] = [pc |-> "save", of |-> i]
Accounted ==
    \A g \in Gateways :
        /\ Alive(g) /\ rec # NoRec /\ rec.owner = g => Keeps(g, granted)
        /\ up[g] = "up" => drain[g].pc = "no"
        /\ drain[g].pc # "no" => sessions[g] = None /\ maint[g].pc = "idle"
        /\ ~Alive(g) => maint[g].pc = "idle"

-----------------------------------------------------------------------------
(* Clean shutdown. *)

(* A leaf that names no prover is for Zenon. *)
USE Zenon

(* A step that grants nothing, when each owner that stays alive keeps what *)
(* it kept.                                                                *)
Orderly(g) ==
    /\ up[g] = "up" => drain[g].pc = "no"
    /\ drain[g].pc # "no" => sessions[g] = None /\ maint[g].pc = "idle"
    /\ ~Alive(g) => maint[g].pc = "idle"
LEMMA KeptAccounted ==
    ASSUME IInv, Accounted, OwnerKept,
           \A g \in Gateways : Orderly(g)' /\ (Alive(g)' => Alive(g)),
           \A g \in Gateways : Alive(g)' /\ rec' # NoRec /\ rec'.owner = g /\ Keeps(g, granted)
                                  => Keeps(g, granted)'
    PROVE  Accounted'
  <1> SUFFICES ASSUME NEW g \in Gateways, Alive(g)', rec' # NoRec, rec'.owner = g
               PROVE  Keeps(g, granted)'
    BY DEF Accounted, Orderly
  <1>1. Alive(g) /\ rec # NoRec /\ rec.owner = g
    BY StoreAssumption DEF OwnerKept
  <1> QED BY <1>1 DEF Accounted

(* The steps that leave map, drain and processes alone, and every adoption *)
(* where it was.                                                           *)
Adopting == {"reload", "register", "release"}
Undisturbed ==
    /\ UNCHANGED <<granted, sessions, drain, up>>
    /\ \A g \in Gateways : removes[g] \subseteq removes'[g]
    /\ \A g \in Gateways :
          /\ maint[g].pc \in Adopting => maint'[g].pc \in Adopting /\ maint'[g].gen = maint[g].gen
          /\ maint'[g].pc # "idle" => maint[g].pc # "idle" \/ MaintenanceFree(g)
LEMMA UndisturbedAccounted ==
    ASSUME IInv, Accounted, OwnerKept, Undisturbed
    PROVE  Accounted'
  <1>1. \A g \in Gateways : Orderly(g)' /\ (Alive(g)' => Alive(g))
    BY DEF Undisturbed, Orderly, Accounted, Alive, MaintenanceFree
  <1>2. \A g \in Gateways : Keeps(g, granted) => Keeps(g, granted)'
    BY DEF Undisturbed, Keeps, Adopting
  <1> QED BY <1>1, <1>2, KeptAccounted

(* Asking for a removal takes none away.                                   *)
LEMMA AskAdds ==
    ASSUME IInv, NEW i \in Gens, NEW why
    PROVE  \A g \in Gateways : removes[g] \subseteq Ask(i, why)[g]
  BY DEF Ask, IInv, TypeOK

LEMMA ObjectUndisturbed ==
    ASSUME IInv, NEW i \in Gens,
           \/ Receive(i) \/ Dispatch(i) \/ DispatchFails(i) \/ BackendExits(i) \/ Detaching(i)
           \/ \E by \in {"pump", "ack", "shutdown"} : CheckpointBegin(i, by)
    PROVE  Undisturbed
  <1>1. UNCHANGED <<granted, sessions, drain, up, maint>>
    BY DEF Receive, Dispatch, DispatchFails, BackendExits, Detaching, HandleReturns, HandleExit,
           ReaperFires, CheckpointBegin
  <1>2. removes' = removes \/ \E why \in {"reap", "end"} : removes' = Ask(i, why)
    BY DEF Receive, Dispatch, DispatchFails, BackendExits, Detaching, HandleReturns, HandleExit,
           ReaperFires, CheckpointBegin
  <1> QED BY <1>1, <1>2, AskAdds DEF Undisturbed

LEMMA MaintainUndisturbed ==
    ASSUME IInv, NEW g \in Gateways,
           RenewBegin(g) \/ RenewLease(g) \/ RenewYielded(g) \/ SweepBegin(g) \/ SweepReload(g)
    PROVE  Undisturbed
  <1> DEFINE m == maint[g]
             X == {Idle, AtGen(m, "renew", sessions[g]), At(m, "yield"), AtWith(m, "claim", rec)}
             Y == {AtWith(m, "register", rec), At(m, "release")}
  <1>1. UNCHANGED <<granted, sessions, drain, up>>
    BY DEF RenewBegin, RenewLease, RenewYielded, SweepBegin, SweepReload
  <1>2. \A h \in Gateways : removes[h] \subseteq removes'[h]
    <2>1. CASE RenewLease(g)
      <3>1. removes' = removes \/ (removes' = Ask(m.gen, "renew") /\ m.gen \in Gens)
        BY <2>1 DEF RenewLease, IInv, Locals, MaintLocal
      <3> QED BY <3>1, AskAdds
    <2> QED BY <2>1 DEF RenewBegin, RenewYielded, SweepBegin, SweepReload
  <1>3. m \in Progress /\ maint \in [Gateways -> Progress]
    BY DEF IInv, TypeOK
  <1>4. \/ /\ m.pc \in {"idle", "renew", "yield"} /\ (m.pc = "idle" => MaintenanceFree(g))
           /\ \E x \in X : maint' = [maint EXCEPT ![g] = x]
        \/ m.pc = "reload" /\ \E y \in Y : maint' = [maint EXCEPT ![g] = y]
    <2>1. CASE RenewLease(g)
      BY <2>1 DEF RenewLease
    <2>2. CASE RenewBegin(g) \/ SweepBegin(g)
      BY <2>2 DEF RenewBegin, SweepBegin, MaintenanceFree
    <2>3. CASE RenewYielded(g)
      BY <2>3 DEF RenewYielded
    <2>4. CASE SweepReload(g)
      BY <2>4 DEF SweepReload
    <2> QED BY <2>1, <2>2, <2>3, <2>4
  <1>5. \A y \in Y : y.pc \in Adopting /\ y.gen = m.gen
    <2>1. /\ AtWith(m, "register", rec).pc = "register" /\ AtWith(m, "register", rec).gen = m.gen
          /\ At(m, "release").pc = "release" /\ At(m, "release").gen = m.gen
      BY <1>3 DEF At, AtWith, Progress
    <2> QED BY <2>1 DEF Adopting
  <1> HIDE DEF X, Y
  <1>6. \A h \in Gateways :
           /\ maint[h].pc \in Adopting => maint'[h].pc \in Adopting /\ maint'[h].gen = maint[h].gen
           /\ maint'[h].pc # "idle" => maint[h].pc # "idle" \/ MaintenanceFree(h)
    BY <1>3, <1>4, <1>5 DEF Adopting
  <1> QED BY <1>1, <1>2, <1>6 DEF Undisturbed

(* The first lease is registered where it was granted.                     *)
LEMMA OpenAccounted ==
    ASSUME IInv, IInv', Accounted, "storeError" \notin Events, NEW g \in Gateways, Open(g)
    PROVE  Accounted'
  <1>1. /\ rec = NoRec /\ rec' = Grant(rec, g) /\ granted' = 1 /\ sessions' = [sessions EXCEPT ![g] = 1]
        /\ up[g] = "up" /\ UNCHANGED <<maint, drain, up, removes>>
    BY DEF Open, IInv, Fencing
  <1>2. rec'.owner = g /\ sessions'[g] = 1
    BY <1>1, GrantRecord DEF IInv, TypeOK
  <1> QED BY <1>1, <1>2 DEF Accounted, Keeps, Alive, IInv, TypeOK

(* A grant to the sweep leaves it adopting what it was granted.            *)
LEMMA ClaimAccounted ==
    ASSUME IInv, IInv', Accounted, NEW g \in Gateways, SweepClaim(g)
    PROVE  Accounted'
  <1>1. /\ maint[g] \in Progress /\ maint \in [Gateways -> Progress] /\ maint[g].pc = "claim"
        /\ UNCHANGED <<sessions, drain, up, removes>>
    BY DEF SweepClaim, IInv, TypeOK
  <1>2. \A h \in Gateways : h # g => maint'[h] = maint[h]
    BY <1>1 DEF SweepClaim
  <1>3. \A h \in Gateways : Orderly(h)' /\ (Alive(h)' => Alive(h))
    BY <1>1, <1>2 DEF Orderly, Accounted, Alive
  <1>4. CASE rec' = rec /\ granted' = granted
    <2>1. OwnerKept
      BY <1>4 DEF OwnerKept
    <2>2. \A h \in Gateways : Keeps(h, granted) => Keeps(h, granted)'
      BY <1>1, <1>2, <1>4 DEF Keeps
    <2> QED BY <1>3, <2>1, <2>2, KeptAccounted
  <1>5. CASE /\ rec' = Grant(rec, g) /\ granted' = granted + 1
             /\ maint' = [maint EXCEPT ![g] = AtGen(@, "reload", Grant(rec, g).gen)]
    <2>1. rec' # NoRec /\ rec'.owner = g /\ rec'.gen = granted'
      BY <1>5, GrantRecord DEF IInv, TypeOK, Fencing
    <2>2. maint'[g].pc = "reload" /\ maint'[g].gen = granted'
      BY <1>1, <1>5, <2>1 DEF AtGen, Progress
    <2>3. Keeps(g, granted)'
      BY <2>2 DEF Keeps
    <2> QED BY <1>3, <2>1, <2>3 DEF Accounted, Orderly
  <1> QED BY <1>4, <1>5 DEF SweepClaim

(* adopt registers what it was granted, or goes on to give it back.        *)
LEMMA RegisterAccounted ==
    ASSUME IInv, IInv', Accounted, NEW g \in Gateways, SweepRegister(g)
    PROVE  Accounted'
  <1>1. /\ maint[g] \in Progress /\ maint \in [Gateways -> Progress] /\ maint[g].pc = "register"
        /\ UNCHANGED <<rec, granted, drain, up, removes>>
    BY DEF SweepRegister, IInv, TypeOK
  <1>2. OwnerKept /\ \A h \in Gateways : h # g => maint'[h] = maint[h] /\ sessions'[h] = sessions[h]
    <2>1. \E x \in {At(maint[g], "save"), At(maint[g], "release")} : maint' = [maint EXCEPT ![g] = x]
      BY DEF SweepRegister
    <2>2. sessions' = sessions \/ sessions' = [sessions EXCEPT ![g] = maint[g].gen]
      BY DEF SweepRegister, Register
    <2> QED BY <1>1, <2>1, <2>2 DEF OwnerKept, IInv, TypeOK
  <1>3. drain[g].pc = "no" /\ Alive(g)
    BY <1>1 DEF Accounted
  <1>4. \A h \in Gateways : Orderly(h)' /\ (Alive(h)' => Alive(h))
    BY <1>1, <1>2, <1>3 DEF Orderly, Accounted, Alive
  <1>5. CASE sessions[g] = None /\ sessions' = [sessions EXCEPT ![g] = maint[g].gen]
    <2>1. sessions'[g] = maint[g].gen
      BY <1>5 DEF IInv, TypeOK
    <2>2. Keeps(g, granted) => Keeps(g, granted)'
      BY SMT, <1>1, <1>3, <1>5, <2>1, Numbers DEF Keeps, Gens, None
    <2>3. \A h \in Gateways : h # g /\ Keeps(h, granted) => Keeps(h, granted)'
      BY <1>1, <1>2 DEF Keeps
    <2> QED BY <1>2, <1>4, <2>2, <2>3, KeptAccounted
  <1>6. CASE sessions' = sessions /\ maint' = [maint EXCEPT ![g] = At(@, "release")]
    <2>1. maint'[g].pc = "release" /\ maint'[g].gen = maint[g].gen
      BY <1>1, <1>6 DEF At, Progress
    <2>2. \A h \in Gateways : Keeps(h, granted) => Keeps(h, granted)'
      BY <1>1, <1>2, <1>6, <2>1 DEF Keeps
    <2> QED BY <1>2, <1>4, <2>2, KeptAccounted
  <1> QED BY <1>5, <1>6 DEF SweepRegister, Register

(* adopt gives the lease back before it forgets it.                        *)
LEMMA ReleaseAccounted ==
    ASSUME IInv, IInv', Accounted, OwnerKept, "storeError" \notin Events,
           NEW g \in Gateways, SweepRelease(g)
    PROVE  Accounted'
  <1>1. /\ maint \in [Gateways -> Progress] /\ maint' = [maint EXCEPT ![g] = Idle]
        /\ rec' = IF Holds(rec, g, maint[g].gen) THEN Released(rec) ELSE rec
        /\ UNCHANGED <<granted, sessions, drain, up, removes>>
    BY DEF SweepRelease, IInv, TypeOK
  <1>2. maint'[g].pc = "idle" /\ \A h \in Gateways : h # g => maint'[h] = maint[h]
    BY <1>1, ConstantFacts
  <1>3. \A h \in Gateways : Orderly(h)' /\ (Alive(h)' => Alive(h))
    BY <1>1, <1>2 DEF Orderly, Accounted, Alive
  <1>4. rec' # NoRec /\ rec'.owner = g => maint[g].gen # granted
    <2>1. rec # NoRec /\ Holds(rec, g, maint[g].gen) => rec'.owner = Nobody
      BY <1>1, KeptRecord DEF IInv, TypeOK
    <2> QED BY <1>1, <2>1, StoreAssumption DEF Holds, IInv, Fencing
  <1>5. \A h \in Gateways : rec' # NoRec /\ rec'.owner = h /\ Keeps(h, granted) => Keeps(h, granted)'
    BY <1>1, <1>2, <1>4 DEF Keeps
  <1> QED BY <1>3, <1>5, KeptAccounted

(* A checkpoint's return moves the drain on with the same session.         *)
LEMMA SaveAccounted ==
    ASSUME IInv, IInv', Accounted, Final, OwnerKept, NEW i \in Gens, CheckpointSave(i)
    PROVE  Accounted'
  <1>0. inc[i].gw \in Gateways
    BY DEF CheckpointSave, Running, IInv, TypeOK, Incarnation
  <1>1. PICK g \in Gateways : g = inc[i].gw
    BY <1>0
  <1>2. /\ maint \in [Gateways -> Progress] /\ drain \in [Gateways -> Draining]
        /\ UNCHANGED <<granted, sessions, up>>
    BY DEF CheckpointSave, IInv, TypeOK
  <1>3. /\ \A h \in Gateways : h # g => maint'[h] = maint[h]
        /\ maint'[g] = maint[g] \/ (maint[g].pc = "save" /\ maint'[g].pc = "idle")
    <2>1. maint' = maint \/ (maint[g].pc = "save" /\ maint' = [maint EXCEPT ![g] = Idle])
      BY <1>1 DEF CheckpointSave, CheckpointReturns
    <2> QED BY <1>2, <2>1, ConstantFacts
  <1>4. \A h \in Gateways : removes[h] \subseteq removes'[h]
    BY AskAdds DEF CheckpointSave
  <1>5. /\ \A h \in Gateways : h # g => drain'[h] = drain[h]
        /\ \/ drain'[g] = drain[g]
           \/ drain[g].pc = "save" /\ drain'[g].pc = "close" /\ drain'[g].of = drain[g].of
    <2>1. CASE drain' = drain
      BY <2>1
    <2>2. CASE ckpt[i].by = "shutdown" /\ drain' = [drain EXCEPT ![g] = [pc |-> "close", of |-> i]]
      <3>1. drain[g] = [pc |-> "save", of |-> i]
        BY <1>1, <2>2 DEF Final, CheckpointSave
      <3> QED BY SMT, <1>2, <2>2, <3>1
    <2> QED BY <1>1, <2>1, <2>2 DEF CheckpointSave, CheckpointReturns
  <1>6. \A h \in Gateways : Orderly(h)' /\ (Alive(h)' => Alive(h))
    <2>1. drain[g].pc # "no" <=> drain'[g].pc # "no"
      BY <1>5
    <2> QED BY <1>2, <1>3, <1>5, <2>1 DEF Orderly, Accounted, Alive
  <1>7. \A h \in Gateways : Keeps(h, granted) => Keeps(h, granted)'
    BY <1>2, <1>3, <1>4, <1>5 DEF Keeps
  <1> QED BY <1>6, <1>7, KeptAccounted

(* remove carries the session it took, and forgets it with its record.     *)
LEMMA RemoveAccounted ==
    ASSUME IInv, IInv', Accounted, OwnerKept, "storeError" \notin Events,
           NEW g \in Gateways, NEW r \in removes[g],
           RemoveTakes(g, r) \/ RemoveCloses(g, r) \/ RemoveDeletes(g, r)
    PROVE  Accounted'
  <1>1. /\ r \in Removal /\ removes \in [Gateways -> SUBSET Removal]
        /\ UNCHANGED <<granted, maint, drain, up>>
        /\ \A h \in Gateways : h # g => removes'[h] = removes[h] /\ sessions'[h] = sessions[h]
    <2>1. removes \in [Gateways -> SUBSET Removal] /\ sessions \in [Gateways -> Gens \cup {None}]
      BY DEF IInv, TypeOK
    <2> QED BY <2>1 DEF RemoveTakes, RemoveCloses, RemoveDeletes
  <1>2. sessions'[g] \in {sessions[g], None}
    BY DEF RemoveTakes, RemoveCloses, RemoveDeletes, IInv, TypeOK
  <1>3. \A h \in Gateways : Orderly(h)' /\ (Alive(h)' => Alive(h))
    BY <1>1, <1>2 DEF Orderly, Accounted, Alive
  <1>4. \A h \in Gateways : h # g /\ Keeps(h, granted) => Keeps(h, granted)'
    BY <1>1 DEF Keeps
  <1>5. rec' # NoRec /\ rec'.owner = g /\ Keeps(g, granted) => Keeps(g, granted)'
    <2>0. granted \in Nat /\ granted # None
      BY SMT, Numbers DEF None
    <2>1. CASE RemoveTakes(g, r)
      <3>0. r.pc = "lock"
        BY <2>1 DEF RemoveTakes
      <3>1. CASE sessions[g] = None
        <4>1. removes'[g] = removes[g] \ {r} /\ sessions' = sessions
          BY <1>1, <2>1, <3>1 DEF RemoveTakes
        <4> QED BY <1>1, <4>1, <3>0 DEF Keeps
      <3>2. CASE sessions[g] # None
        <4> DEFINE q == [r EXCEPT !.pc = "close", !.sess = sessions[g]]
        <4>1. removes'[g] = (removes[g] \ {r}) \cup {q} /\ q.sess = sessions[g] /\ q.pc = "close"
          BY <1>1, <2>1, <3>2 DEF RemoveTakes, Removal
        <4> HIDE DEF q
        <4> QED BY <1>1, <4>1, <3>0 DEF Keeps
      <3> QED BY <3>1, <3>2
    <2>2. CASE RemoveCloses(g, r)
      <3> DEFINE q == [r EXCEPT !.pc = "delete"]
      <3>1. (removes[g] \ {r}) \cup {q} \subseteq removes'[g] /\ q.sess = r.sess /\ q.pc = "delete" /\ sessions' = sessions
        BY SMT, <1>1, <2>2 DEF RemoveCloses, Removal
      <3> HIDE DEF q
      <3> QED BY <1>1, <3>1 DEF Keeps
    <2>3. CASE RemoveDeletes(g, r)
      <3>1. rec' = NoRec \/ rec'.owner # g
        BY <2>3 DEF RemoveDeletes, DeletesIfOwner
      <3> QED BY <3>1
    <2> QED BY <2>1, <2>2, <2>3
  <1> QED BY <1>3, <1>4, <1>5, KeptAccounted

(* Shutdown takes the session out of the map, and releases its lease       *)
(* before it is done with it.                                              *)
LEMMA ShutdownAccounted ==
    ASSUME IInv, IInv', Accounted, OwnerKept, "storeError" \notin Events, NEW g \in Gateways,
           ShutdownBegin(g) \/ ShutdownDrain(g) \/ ShutdownCloses(g) \/ ShutdownReleases(g)
    PROVE  Accounted'
  <1>1. /\ granted \in Gens /\ granted \in Nat /\ sessions \in [Gateways -> Gens \cup {None}]
        /\ drain \in [Gateways -> Draining] /\ up \in [Gateways -> {"up", "stopping", "down"}]
        /\ removes \in [Gateways -> SUBSET Removal]
        /\ UNCHANGED <<granted, maint>>
    BY Numbers DEF IInv, TypeOK, ShutdownBegin, ShutdownDrain, DrainTakes, ShutdownCloses, ShutdownReleases
  <1>2. CASE ShutdownBegin(g)
    <2>1. UNCHANGED <<sessions, drain, removes>> /\ up'[g] = "stopping" /\ up[g] = "up"
      BY <1>1, <1>2 DEF ShutdownBegin
    <2>2. \A h \in Gateways : h # g => up'[h] = up[h]
      BY <1>1, <1>2 DEF ShutdownBegin
    <2>3. \A h \in Gateways : Orderly(h)' /\ (Alive(h)' => Alive(h))
      BY <1>1, <2>1, <2>2 DEF Orderly, Accounted, Alive
    <2> QED BY <1>1, <2>1, <2>3, KeptAccounted DEF Keeps
  <1>3. CASE ShutdownDrain(g)
    <2>1. /\ UNCHANGED <<up, removes>> /\ up[g] = "stopping" /\ maint[g].pc = "idle" /\ drain[g].pc = "no"
          /\ sessions'[g] = None /\ \A h \in Gateways : h # g => sessions'[h] = sessions[h]
      BY <1>1, <1>3 DEF ShutdownDrain, DrainTakes
    <2>2. /\ drain'[g].pc \in {"save", "close", "done"} /\ \A h \in Gateways : h # g => drain'[h] = drain[h]
          /\ sessions[g] # None => drain'[g].pc \in {"save", "close"} /\ drain'[g].of = sessions[g]
      BY SMT, <1>1, <1>3 DEF ShutdownDrain, DrainTakes, Draining
    <2>3. \A h \in Gateways : Orderly(h)' /\ (Alive(h)' => Alive(h))
      BY <1>1, <2>1, <2>2 DEF Orderly, Accounted, Alive
    <2>4. Keeps(g, granted) => Keeps(g, granted)'
      BY <1>1, <2>1, <2>2 DEF Keeps, None
    <2>5. \A h \in Gateways : h # g /\ Keeps(h, granted) => Keeps(h, granted)'
      BY <1>1, <2>1, <2>2 DEF Keeps
    <2> QED BY <2>3, <2>4, <2>5, KeptAccounted
  <1>4. CASE ShutdownCloses(g)
    <2>1. UNCHANGED <<up, sessions, removes>> /\ drain[g].pc = "close"
      BY <1>4 DEF ShutdownCloses
    <2>2. /\ drain'[g].pc = "release" /\ drain'[g].of = drain[g].of
          /\ \A h \in Gateways : h # g => drain'[h] = drain[h]
      BY <1>1, <1>4 DEF ShutdownCloses, Draining
    <2>3. \A h \in Gateways : Orderly(h)' /\ (Alive(h)' => Alive(h))
      BY <1>1, <2>1, <2>2 DEF Orderly, Accounted, Alive
    <2> QED BY <1>1, <2>1, <2>2, <2>3, KeptAccounted DEF Keeps
  <1>5. CASE ShutdownReleases(g)
    <2>1. UNCHANGED <<up, sessions>> /\ drain[g].pc = "release" /\ drain[g].of \in Gens
      BY <1>5 DEF ShutdownReleases, IInv, Locals, DrainLocal
    <2>2. /\ drain'[g].pc = "done" /\ \A h \in Gateways : h # g => drain'[h] = drain[h]
      BY <1>1, <1>5 DEF ShutdownReleases, Draining
    <2>3. \A h \in Gateways : removes[h] \subseteq removes'[h]
      BY <1>5, <2>1, AskAdds DEF ShutdownReleases
    <2>4. \A h \in Gateways : Orderly(h)' /\ (Alive(h)' => Alive(h))
      BY <1>1, <2>1, <2>2 DEF Orderly, Accounted, Alive
    <2>5. rec' # NoRec /\ rec'.owner = g => drain[g].of # granted
      <3>1. rec' = IF drain[g].of > 0 /\ Holds(rec, g, drain[g].of) THEN Released(rec) ELSE rec
        BY <1>5 DEF ShutdownReleases
      <3>2. rec # NoRec => rec \in Record /\ rec.gen = granted /\ granted > 0 /\ Released(rec).owner = Nobody
        BY SMT, KeptRecord DEF IInv, TypeOK, Fencing
      <3> QED BY <3>1, <3>2, StoreAssumption DEF Holds
    <2>6. \A h \in Gateways : rec' # NoRec /\ rec'.owner = h /\ Keeps(h, granted) => Keeps(h, granted)'
      BY <1>1, <2>1, <2>2, <2>3, <2>5 DEF Keeps
    <2> QED BY <2>4, <2>6, KeptAccounted
  <1> QED BY <1>2, <1>3, <1>4, <1>5

(* A process that is gone owes nothing.                                    *)
LEMMA DiesAccounted ==
    ASSUME IInv, IInv', Accounted, OwnerKept, NEW g \in Gateways, Dies(g)
    PROVE  Accounted'
  <1>1. /\ up'[g] = "down" /\ sessions'[g] = None /\ maint'[g].pc = "idle" /\ UNCHANGED granted
        /\ \A h \in Gateways : h # g =>
              /\ up'[h] = up[h] /\ sessions'[h] = sessions[h] /\ maint'[h] = maint[h]
              /\ removes'[h] = removes[h] /\ drain'[h] = drain[h]
    BY SMT, ConstantFacts DEF Dies, IInv, TypeOK
  <1>2. \A h \in Gateways : Orderly(h)' /\ (Alive(h)' => Alive(h))
    BY <1>1 DEF Orderly, Accounted, Alive
  <1>3. \A h \in Gateways : h # g /\ Keeps(h, granted) => Keeps(h, granted)'
    BY <1>1 DEF Keeps
  <1> QED BY <1>1, <1>2, <1>3, KeptAccounted DEF Alive

(* Only the drain starts a final checkpoint, and waits for it.             *)
LEMMA SteadyFinal ==
    ASSUME IInv, Final, SameHosts, UNCHANGED drain,
           \A i \in Gens : Running(i)' => ckpt'[i] = ckpt[i] \/ ckpt'[i].by # "shutdown"
    PROVE  Final'
  BY DEF Final, SameHosts, Running

LEMMA NextFinal ==
    ASSUME IInv, IInv', Owners, Progressed, NoAttach, Final, [Next]_vars, "roam" \notin Events
    PROVE  Final'
  <1>1. SameHosts /\ UNCHANGED <<drain, ckpt>> => Final'
    BY SteadyFinal
  <1>2. CASE UNCHANGED vars
    BY <1>1, <1>2 DEF vars, SameHosts
  <1>3. CASE ConnLost \/ PeerClose \/ CheckpointDegraded \/ LeaseLapses
    BY <1>1, <1>3, ClientSteady DEF ConnLost, PeerClose, CheckpointDegraded, LeaseLapses
  <1>4. ASSUME NEW g \in Gateways, Open(g) PROVE Final'
    <2>1. /\ UNCHANGED <<drain, ckpt>> /\ granted = 0 /\ ckpt[0] = NoCkpt
          /\ \E i \in {0, 1} : inc' = [inc EXCEPT ![i] = NewInc(g, 0, 1, 1)]
      BY <1>4 DEF Open, IInv, Fencing, Progressed
    <2>2. 1 \in Gens /\ ckpt[1] = NoCkpt
      BY SMT, <2>1, ConstantFacts DEF Owners, NewestGenerationOwns, Progressed
    <2>3. NoCkpt.by # "shutdown"
      BY DEF NoCkpt
    <2> QED BY <2>1, <2>2, <2>3 DEF Final, Running, IInv, TypeOK
  <1>5. ASSUME NEW g \in Gateways PROVE ~Dial(g) /\ ~Attaching(g)
    <2>1. att[g].pc = "idle" /\ ~Arriving(g)
      BY ConstantFacts DEF NoAttach, Arriving
    <2> QED BY <2>1 DEF Dial, Attaching, AttachKnown, AttachUnknown, AttachLoad, AttachTake, AttachSpawn
  <1>6. ASSUME NEW g \in Gateways, Maintaining(g) PROVE Final'
    <2>1. CASE SweepRegister(g)
      <3>1. UNCHANGED drain /\ maint[g].gen \in Gens
        BY <2>1 DEF SweepRegister, IInv, Locals, MaintLocal
      <3>2. CASE Register(g, maint[g].gen, maint[g].ps.ver, 0)
        <4>1. \A i \in Gens : \/ inc'[i] = inc[i] /\ ckpt'[i] = ckpt[i]
                              \/ ckpt'[i].by = "resume"
          BY <3>1, <3>2 DEF Register, IInv, TypeOK
        <4> QED BY <3>1, <4>1 DEF Final, Running
      <3> QED BY <1>1, <2>1, <3>2 DEF SweepRegister, SameHosts
    <2> QED BY <1>1, <1>6, <2>1 DEF Maintaining, RenewBegin, RenewLease, RenewYielded, SweepBegin,
                                    SweepClaim, SweepReload, SweepRelease, SameHosts
  <1>7. ASSUME NEW g \in Gateways, Removing(g) PROVE Final'
    <2>1. UNCHANGED <<drain, ckpt>>
      BY <1>7 DEF Removing, RemovingFor, RemoveTakes, RemoveCloses, RemoveDeletes
    <2> QED BY <1>1, <1>7, <2>1, EndingSteady
  <1>8. ASSUME NEW g \in Gateways, ShutdownBegin(g) \/ ShuttingDown(g) \/ Crash(g) PROVE Final'
    <2>1. CASE ShutdownBegin(g)
      BY <1>1, <2>1 DEF ShutdownBegin, SameHosts
    <2>2. CASE ShutdownDrain(g) \/ ShutdownCloses(g) \/ ShutdownReleases(g)
      <3>1. SameHosts
        BY <2>2, EndingSteady DEF ShuttingDown
      <3>2. ckpt' = ckpt /\ drain[g].pc # "save" /\ \A h \in Gateways : h # g => drain'[h] = drain[h]
        BY <2>2 DEF ShutdownDrain, DrainTakes, ShutdownCloses, ShutdownReleases, IInv, TypeOK
      <3>3. \A i \in Gens : Running(i) => inc[i].gw \in Gateways
        BY DEF Running, IInv, TypeOK, Incarnation
      <3> QED BY SMT, <3>1, <3>2, <3>3 DEF Final, SameHosts, Running
    <2>3. CASE Dies(g)
      <3>1. \A i \in Gens : IF inc[i].gw = g THEN inc'[i] = NoInc
                                             ELSE inc'[i] = inc[i] /\ ckpt'[i] = ckpt[i]
        BY <2>3 DEF Dies
      <3>2. \A h \in Gateways : h # g => drain'[h] = drain[h]
        BY <2>3 DEF Dies, IInv, TypeOK
      <3>3. \A i \in Gens : Running(i) => inc[i].gw \in Gateways
        BY DEF Running, IInv, TypeOK, Incarnation
      <3> QED BY SMT, <3>1, <3>2, <3>3 DEF Final, Running, NoInc
    <2> QED BY <1>8, <2>1, <2>2, <2>3 DEF ShuttingDown, Exit, Crash
  <1>9. ASSUME NEW i \in Gens, Pumping(i) \/ BackendExits(i) \/ Detaching(i) PROVE Final'
    <2>0. SameHosts /\ inc[i] \in Incarnation
      BY <1>9, ObjectSteady DEF IInv, TypeOK
    <2>1. CASE CheckpointSave(i)
      <3>1. inc[i].gw \in Gateways /\ ckpt'[i] = NoCkpt /\ \A j \in Gens : j # i => ckpt'[j] = ckpt[j]
        BY SMT, <2>0, <2>1 DEF CheckpointSave, CheckpointReturns, Running, IInv, TypeOK, Incarnation
      <3>2. \/ drain' = drain
            \/ /\ ckpt[i].by = "shutdown" /\ drain[inc[i].gw] = [pc |-> "save", of |-> i]
               /\ drain' = [drain EXCEPT ![inc[i].gw] = [pc |-> "close", of |-> i]]
        BY <2>1 DEF CheckpointSave, CheckpointReturns, Final
      <3>3. \A j \in Gens : Running(j) => inc[j].gw \in Gateways
        BY DEF Running, IInv, TypeOK, Incarnation
      <3>4. ASSUME NEW j \in Gens, Running(j)', ckpt'[j].by = "shutdown"
            PROVE  drain'[inc'[j].gw] = [pc |-> "save", of |-> j]
        <4>1. j # i /\ ckpt[j].by = "shutdown" /\ Running(j) /\ inc'[j].gw = inc[j].gw
          BY SMT, <2>0, <3>1, <3>4 DEF NoCkpt, SameHosts, Running
        <4>2. drain[inc[j].gw] = [pc |-> "save", of |-> j]
          BY <4>1 DEF Final
        <4>3. CASE drain' = drain BY <4>1, <4>2, <4>3
        <4>4. CASE /\ drain[inc[i].gw] = [pc |-> "save", of |-> i]
                   /\ drain' = [drain EXCEPT ![inc[i].gw] = [pc |-> "close", of |-> i]]
          <5>1. [pc |-> "save", of |-> i].of # [pc |-> "save", of |-> j].of BY <4>1
          <5>2. inc[j].gw # inc[i].gw BY <4>2, <4>4, <5>1
          <5>3. inc[j].gw \in Gateways BY <3>3, <4>1
          <5> QED BY <4>1, <4>2, <4>4, <5>2, <5>3 DEF IInv, TypeOK
        <4> QED BY <3>2, <4>3, <4>4
      <3> QED BY <3>4 DEF Final
    <2>2. ASSUME NEW by \in {"pump", "ack", "shutdown"}, CheckpointBegin(i, by) PROVE Final'
      <3>1. /\ UNCHANGED <<inc, drain>> /\ ckpt'[i].by = by /\ \A j \in Gens : j # i => ckpt'[j] = ckpt[j]
            /\ by = "shutdown" => drain[inc[i].gw] = [pc |-> "save", of |-> i]
        BY <2>2 DEF CheckpointBegin, IInv, TypeOK
      <3> QED BY <3>1 DEF Final, Running
    <2> QED BY <1>1, <1>9, <2>0, <2>1, <2>2 DEF Pumping, Receive, Dispatch, DispatchFails,
                BackendExits, Detaching, HandleReturns, HandleExit, ReaperFires
  <1> QED BY <1>2, <1>3, <1>4, <1>5, <1>6, <1>7, <1>8, <1>9 DEF Next

LEMMA NextAccounted ==
    ASSUME IInv, IInv', NoAttach, Final, Accounted, [Next]_vars,
           {"roam", "storeError"} \cap Events = {}
    PROVE  Accounted'
  <1>0. "roam" \notin Events /\ "storeError" \notin Events
    BY SMT
  <1>1. granted' = granted => OwnerKept
    BY StoreKeepsOwner
  <1>2. Undisturbed => Accounted'
    BY <1>1, UndisturbedAccounted DEF Undisturbed
  <1>3. CASE UNCHANGED vars
    BY <1>2, <1>3 DEF vars, Undisturbed
  <1>4. CASE ConnLost \/ PeerClose \/ CheckpointDegraded \/ LeaseLapses
    BY <1>2, <1>4 DEF ConnLost, PeerClose, CheckpointDegraded, LeaseLapses, Undisturbed
  <1>5. ASSUME NEW g \in Gateways PROVE ~Dial(g) /\ ~Attaching(g)
    <2>1. att[g].pc = "idle" /\ ~Arriving(g)
      BY ConstantFacts DEF NoAttach, Arriving
    <2> QED BY <1>0, <2>1 DEF Dial, Attaching, AttachKnown, AttachUnknown, AttachLoad, AttachTake, AttachSpawn
  <1>6. ASSUME NEW g \in Gateways, Maintaining(g) PROVE Accounted'
    <2>1. CASE SweepRelease(g)
      BY <1>0, <1>1, <2>1, ReleaseAccounted DEF SweepRelease
    <2> QED BY <1>2, <1>6, <2>1, MaintainUndisturbed, ClaimAccounted, RegisterAccounted DEF Maintaining
  <1>7. ASSUME NEW g \in Gateways, Removing(g) PROVE Accounted'
    BY <1>0, <1>1, <1>7, EndingSteady, RemoveAccounted DEF Removing, RemovingFor
  <1>8. ASSUME NEW g \in Gateways, ShutdownBegin(g) \/ ShuttingDown(g) \/ Crash(g) PROVE Accounted'
    <2>1. OwnerKept
      BY <1>1, <1>8, EndingSteady
    <2> QED BY <1>0, <1>8, <2>1, ShutdownAccounted, DiesAccounted DEF ShuttingDown, Exit, Crash
  <1>9. ASSUME NEW i \in Gens, Pumping(i) \/ BackendExits(i) \/ Detaching(i) PROVE Accounted'
    <2>1. CASE CheckpointSave(i)
      BY <1>1, <2>1, SaveAccounted DEF CheckpointSave
    <2> QED BY <1>2, <1>9, <2>1, ObjectUndisturbed DEF Pumping
  <1> QED BY <1>0, <1>3, <1>4, <1>5, <1>6, <1>7, <1>8, <1>9, OpenAccounted DEF Next

(* While no client roams and the store answers, a process that ends after  *)
(* Shutdown returned leaves no lease in its own name behind, but of a      *)
(* session that was being removed: the sweep is joined, the drain releases *)
(* what it took, and adopt gives back what it does not register.           *)
THEOREM HandsOff ==
    ASSUME {"roam", "storeError"} \cap Events = {}
    PROVE  Spec => ShutdownHandsOff
  <1>1. IInv /\ NoAttach /\ [Next]_vars => NoAttach'
    BY NextNoAttach
  <1>2. IInv /\ IInv' /\ Owners /\ NoAttach /\ Progressed /\ [Next]_vars => Progressed'
    BY NextProgressed
  <1>3. IInv /\ IInv' /\ Owners /\ NoAttach /\ Progressed /\ Final /\ [Next]_vars => Final'
    BY NextFinal
  <1>4. IInv /\ IInv' /\ NoAttach /\ Final /\ Accounted /\ [Next]_vars => Accounted'
    BY NextAccounted
  <1>5. Init => Final /\ Accounted
    BY SMT, ConstantFacts DEF Init, Final, Accounted, Running, NoInc, Alive
  <1>6. ASSUME IInv, Accounted, NEW g \in Gateways,
               drain[g].pc = "done", Alive(g), rec # NoRec, rec.owner = g
        PROVE  \E r \in removes[g] : r.sess = rec.gen
    <2>1. Keeps(g, granted) /\ sessions[g] = None /\ maint[g].pc = "idle"
      BY <1>6 DEF Accounted
    <2>2. rec.gen = granted /\ granted \in Nat
      BY <1>6 DEF IInv, TypeOK, Fencing
    <2> QED BY SMT, <1>6, <2>1, <2>2 DEF Keeps, None
  <1>7. IInv /\ Accounted =>
           [\A g \in Gateways :
               drain[g].pc = "done" /\ Alive(g) /\ up'[g] = "down" /\ rec # NoRec /\ rec.owner = g
                  => \E r \in removes[g] : r.sess = rec.gen]_vars
    BY <1>6
  <1> QED BY <1>1, <1>2, <1>3, <1>4, <1>5, <1>7, InitProgressed, OwnersInvariance, PTL
          DEF Spec, ShutdownHandsOff
=============================================================================
