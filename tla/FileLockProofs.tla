-------------------------- MODULE FileLockProofs --------------------------
(***************************************************************************)
(* What the lock file of the file-backed session store guards, for every   *)
(* number of processes, operations and crashes, whether or not a live      *)
(* holder may be paused past the staleness window.                         *)
(***************************************************************************)
EXTENDS FileLock, TLAPS

Places == {"idle", "create", "token", "stat", "steal", "read", "check", "commit", "release", "remove", "dead"}

Processes == [pc : Places, op : Kinds \cup {""}, cur : Record \cup {NoRec}, seen : Nat, won : Nat, n : Nat]

(* The state is well formed; what a process is about to write was read     *)
(* from a file that was there, where its operation needs one.              *)
Shape ==
    /\ lock \in [by : Gateways \cup {Nobody}, n : Nat, written : BOOLEAN, stale : BOOLEAN]
    /\ file \in Record \cup {NoRec}
    /\ p \in [Gateways -> Processes]
    /\ crashes \in 0..MaxCrashes
    /\ \A g \in Gateways : p[g].pc \in {"check", "commit"} /\ p[g].op \notin {"takeover", "delete"} =>
                               p[g].cur # NoRec

(* The lock file is the one this attempt of g created.                     *)
Mine(g) == lock.by = g /\ lock.n = p[g].n

(* A process that was told its lock is still held has it still, unless the *)
(* lock was taken from it since.                                           *)
Verified == \A g \in verified : g \in Gateways /\ Mine(g) /\ p[g].pc \in {"commit", "dead"}

(* Until a lock is lost in the instant of a commit: what the holder read   *)
(* is what the file says, and its operation is still allowed.              *)
Guarded ==
    ~slipped => \A g \in Gateways : Mine(g) /\ p[g].pc \in {"check", "commit"} =>
                                        p[g].cur = file /\ Allowed(g)

LockInv == Shape /\ Verified /\ Guarded
-----------------------------------------------------------------------------
(* A leaf that names no prover is for Zenon. *)
USE Zenon

LEMMA StoreFacts ==
    /\ NoRec \notin Record /\ Nobody \notin Gateways
    /\ \A r \in Record : r.gen \in Nat /\ r.ver \in Nat /\ r.ver + 1 \in Nat /\ r.gen + 1 \in Nat
BY SMT, StoreAssumption DEF Record

(* What a commit writes is a record or none, and a takeover a record.      *)
LEMMA ImageTyped ==
    ASSUME NEW g \in Gateways, NEW r \in Record \cup {NoRec}, p[g].op \notin {"takeover", "delete"} => r # NoRec
    PROVE  /\ Image(g, r) \in Record \cup {NoRec}
           /\ p[g].op = "takeover" => Image(g, r).gen \in Nat
<1>1. Grant(r, g) \in Record
  <2>1. CASE r = NoRec BY SMT, <2>1 DEF Grant, FreshRecord, Record, LeaseStates
  <2>2. CASE r # NoRec
    <3>1. r \in Record /\ r.gen + 1 \in Nat BY <2>2, StoreFacts
    <3>2. Grant(r, g) = [r EXCEPT !.owner = g, !.gen = r.gen + 1, !.lease = "live"] BY <2>2 DEF Grant
    <3> QED BY <3>1, <3>2 DEF Record, LeaseStates
  <2> QED BY <2>1, <2>2
<1>2. CASE p[g].op = "takeover"
  <2>1. Image(g, r) = Grant(r, g) BY <1>2 DEF Image
  <2> QED BY <1>1, <2>1, StoreFacts
<1>3. CASE p[g].op = "delete" BY <1>3 DEF Image
<1>4. CASE p[g].op \notin {"takeover", "delete"}
  <2>1. r \in Record /\ r.ver + 1 \in Nat BY <1>4, StoreFacts
  <2>2. Renewed(r) \in Record BY <2>1 DEF Renewed, Record, LeaseStates
  <2>3. Released(r) \in Record BY <2>1 DEF Released, Record, LeaseStates
  <2>4. Saved(r, r.ver + 1) \in Record BY <2>1 DEF Saved, Record
  <2>5. Image(g, r) \in {Renewed(r), Released(r), Saved(r, r.ver + 1)} BY <1>4 DEF Image
  <2> QED BY <1>4, <2>2, <2>3, <2>4, <2>5
<1> QED BY <1>2, <1>3, <1>4

(* A process goes to another place and changes nothing else of its own.    *)
Walks(g, pc) ==
    /\ p' \in [Gateways -> Processes]
    /\ p'[g].pc = pc /\ p'[g].op = p[g].op /\ p'[g].cur = p[g].cur
    /\ p'[g].seen = p[g].seen /\ p'[g].won = p[g].won /\ p'[g].n = p[g].n
    /\ \A h \in Gateways \ {g} : p'[h] = p[h]

LEMMA WalksTo == ASSUME Shape, NEW g \in Gateways, NEW pc \in Places, To(g, pc) PROVE Walks(g, pc)
<1>1. p' = [p EXCEPT ![g] = [p[g] EXCEPT !.pc = pc]] BY DEF To
<1>2. p[g] \in Processes BY DEF Shape
<1>3. /\ [p[g] EXCEPT !.pc = pc] \in Processes
      /\ [p[g] EXCEPT !.pc = pc].pc = pc /\ [p[g] EXCEPT !.pc = pc].op = p[g].op
      /\ [p[g] EXCEPT !.pc = pc].cur = p[g].cur /\ [p[g] EXCEPT !.pc = pc].seen = p[g].seen
      /\ [p[g] EXCEPT !.pc = pc].won = p[g].won /\ [p[g] EXCEPT !.pc = pc].n = p[g].n
  BY <1>2 DEF Processes
<1>4. p' \in [Gateways -> Processes] /\ p'[g] = [p[g] EXCEPT !.pc = pc]
      /\ \A h \in Gateways \ {g} : p'[h] = p[h]
  BY SMT, <1>1, <1>3 DEF Shape
<1> QED BY <1>3, <1>4 DEF Walks

(* Where a walk leaves the shape, and the guard.                           *)
LEMMA WalkShape ==
    ASSUME Shape, NEW g \in Gateways, NEW pc, Walks(g, pc), UNCHANGED file, crashes' \in 0..MaxCrashes,
           lock' \in [by : Gateways \cup {Nobody}, n : Nat, written : BOOLEAN, stale : BOOLEAN],
           pc \in {"check", "commit"} => p[g].pc \in {"check", "commit"}
    PROVE  Shape'
<1>1. ASSUME NEW h \in Gateways, p'[h].pc \in {"check", "commit"}, p'[h].op \notin {"takeover", "delete"}
      PROVE  p'[h].cur # NoRec
  <2>1. CASE h = g BY <1>1, <2>1 DEF Walks, Shape
  <2>2. CASE h # g
    <3>1. p'[h] = p[h] BY <2>2 DEF Walks
    <3> QED BY <1>1, <3>1 DEF Shape
  <2> QED BY <2>1, <2>2
<1> QED BY <1>1 DEF Shape, Walks

(* The lock is the same file, or none, or g's own while g is outside its   *)
(* critical section.                                                       *)
SameLock == lock'.by = lock.by /\ lock'.n = lock.n

LEMMA WalkGuarded ==
    ASSUME Shape, Guarded, NEW g \in Gateways, NEW pc, Walks(g, pc), UNCHANGED <<file, slipped>>,
           SameLock \/ lock'.by = Nobody \/ (lock'.by = g /\ pc \notin {"check", "commit"}),
           pc \in {"check", "commit"} => p[g].pc \in {"check", "commit"}
    PROVE  Guarded'
<1>1. SUFFICES ASSUME ~slipped', NEW h \in Gateways, Mine(h)', p'[h].pc \in {"check", "commit"}
               PROVE  p'[h].cur = file' /\ Allowed(h)'
  BY DEF Guarded
<1>2. lock'.by = h /\ lock'.n = p'[h].n BY <1>1 DEF Mine
<1>3. h # Nobody BY StoreFacts
<1>4. CASE h = g
  <2>1. pc \in {"check", "commit"} BY <1>1, <1>4 DEF Walks
  <2>2. SameLock BY <1>2, <1>3, <1>4, <2>1
  <2>3. Mine(g) BY <1>2, <1>4, <2>2 DEF SameLock, Mine, Walks
  <2>4. p[g].cur = file /\ Allowed(g) BY <1>1, <2>1, <2>3 DEF Guarded
  <2> QED BY <1>4, <2>4 DEF Walks, Allowed
<1>5. CASE h # g
  <2>1. p'[h] = p[h] BY <1>5 DEF Walks
  <2>2. SameLock BY <1>2, <1>3, <1>5
  <2>3. Mine(h) BY <1>2, <2>1, <2>2 DEF SameLock, Mine
  <2>4. p[h].cur = file /\ Allowed(h) BY <1>1, <2>1, <2>3 DEF Guarded
  <2> QED BY <2>1, <2>4 DEF Allowed
<1> QED BY <1>4, <1>5

(* The verified stay so when the lock stays and none of them but g walks.  *)
LEMMA WalkVerified ==
    ASSUME Verified, NEW g \in Gateways, NEW pc, Walks(g, pc), SameLock, verified' \subseteq verified,
           g \in verified' => pc \in {"commit", "dead"}
    PROVE  Verified'
<1>1. SUFFICES ASSUME NEW h \in verified' PROVE h \in Gateways /\ Mine(h)' /\ p'[h].pc \in {"commit", "dead"}
  BY DEF Verified
<1>2. h \in Gateways /\ Mine(h) /\ p[h].pc \in {"commit", "dead"} BY <1>1 DEF Verified
<1>3. CASE h = g BY <1>1, <1>2, <1>3 DEF Walks, SameLock, Mine
<1>4. CASE h # g
  <2>1. p'[h] = p[h] BY <1>2, <1>4 DEF Walks
  <2> QED BY <1>2, <2>1 DEF SameLock, Mine
<1> QED BY <1>3, <1>4

(* ... and when the process that steps is not one of them.                 *)
LEMMA OthersVerified ==
    ASSUME Verified, NEW g \in Gateways, UNCHANGED lock, \A h \in Gateways \ {g} : p'[h] = p[h],
           verified' \subseteq verified, g \notin verified'
    PROVE  Verified'
<1>1. SUFFICES ASSUME NEW h \in verified' PROVE h \in Gateways /\ Mine(h)' /\ p'[h].pc \in {"commit", "dead"}
  BY DEF Verified
<1>2. h \in Gateways /\ Mine(h) /\ p[h].pc \in {"commit", "dead"} BY <1>1 DEF Verified
<1>3. p'[h] = p[h] BY <1>1, <1>2
<1> QED BY <1>2, <1>3 DEF Mine

(* A verified process is the only one.                                     *)
LEMMA OneVerified ==
    ASSUME Verified, NEW g \in verified, NEW h, lock.by = h PROVE h = g
BY DEF Verified, Mine
LEMMA LockFacts ==
    /\ NoFile \in [by : Gateways \cup {Nobody}, n : Nat, written : BOOLEAN, stale : BOOLEAN]
    /\ NoFile.by = Nobody
BY DEF NoFile

LEMMA NobodyVerified == ASSUME Verified, lock.by = Nobody PROVE verified = {}
<1>1. ASSUME NEW g \in verified PROVE FALSE BY <1>1, StoreFacts DEF Verified, Mine
<1> QED BY <1>1

LEMMA InitLockInv == ASSUME MaxCrashes \in Nat, Init PROVE LockInv
<1>1. file \in Record
  <2>1. 0 \in Nat /\ 1 \in Nat BY SMT
  <2> QED BY <2>1 DEF Init, Record, LeaseStates
<1>2. p \in [Gateways -> Processes] BY DEF Init, Processes, Places
<1>3. \A g \in Gateways : p[g].pc = "idle" BY DEF Init
<1>4. lock = NoFile /\ crashes = 0 /\ verified = {} BY DEF Init
<1>5. 0 \in 0..MaxCrashes BY SMT
<1>6. Shape BY <1>1, <1>2, <1>3, <1>4, <1>5, LockFacts DEF Shape
<1>7. Verified /\ Guarded BY <1>3, <1>4 DEF Verified, Guarded
<1> QED BY <1>6, <1>7 DEF LockInv

(* A step that only walks, or ends the lock, or creates one.               *)
LEMMA WalkStep ==
    ASSUME LockInv, NEW g \in Gateways, NEW pc \in Places, To(g, pc), UNCHANGED <<file, slipped>>,
           crashes' \in 0..MaxCrashes,
           lock' \in [by : Gateways \cup {Nobody}, n : Nat, written : BOOLEAN, stale : BOOLEAN],
           pc \in {"check", "commit"} => p[g].pc \in {"check", "commit"},
           \/ SameLock /\ verified' \subseteq verified /\ (g \in verified' => pc \in {"commit", "dead"})
           \/ lock'.by = Nobody /\ verified' = {}
           \/ lock'.by = g /\ verified' = {} /\ pc \notin {"check", "commit"}
    PROVE  LockInv'
<1>1. Shape /\ Verified /\ Guarded BY DEF LockInv
<1>2. Walks(g, pc) BY <1>1, WalksTo
<1>3. Shape' BY <1>1, <1>2, WalkShape
<1>4. Guarded' BY <1>1, <1>2, WalkGuarded
<1>5. Verified'
  <2>1. CASE verified' = {} BY <2>1 DEF Verified
  <2>2. CASE SameLock /\ verified' \subseteq verified /\ (g \in verified' => pc \in {"commit", "dead"})
    BY <1>1, <1>2, <2>2, WalkVerified
  <2> QED BY <2>1, <2>2
<1> QED BY <1>3, <1>4, <1>5 DEF LockInv

LEMMA NextLockInv == ASSUME LockInv, MaxCrashes \in Nat, [Next]_vars PROVE LockInv'
<1>0. /\ Shape /\ Verified /\ Guarded /\ crashes \in 0..MaxCrashes
      /\ lock \in [by : Gateways \cup {Nobody}, n : Nat, written : BOOLEAN, stale : BOOLEAN]
  BY DEF LockInv, Shape
<1>1. CASE UNCHANGED vars BY <1>0, <1>1 DEF vars, LockInv, Shape, Verified, Guarded, Mine, Allowed
<1>2. ASSUME NEW g \in Gateways, NEW op \in Kinds, Begin(g, op) PROVE LockInv'
  <2>1. /\ p[g].pc = "idle" /\ UNCHANGED <<lock, file, crashes, verified, slipped>>
        /\ p' = [p EXCEPT ![g] = [p[g] EXCEPT !.pc = "create", !.op = op, !.n = p[g].n + 1, !.seen = GenOf(file)]]
    BY <1>2 DEF Begin
  <2>10. p[g] \in Processes /\ p[g].n \in Nat BY <1>0 DEF Shape, Processes
  <2>2. p[g] \in Processes /\ p[g].n + 1 \in Nat BY SMT, <2>10
  <2>3. GenOf(file) \in Nat
    <3>1. 0 \in Nat BY SMT
    <3> QED BY <1>0, <3>1, StoreFacts DEF Shape, GenOf
  <2>4. /\ [p[g] EXCEPT !.pc = "create", !.op = op, !.n = p[g].n + 1, !.seen = GenOf(file)] \in Processes
        /\ [p[g] EXCEPT !.pc = "create", !.op = op, !.n = p[g].n + 1, !.seen = GenOf(file)].pc = "create"
    BY <2>2, <2>3 DEF Processes, Places
  <2>5. p' \in [Gateways -> Processes] /\ p'[g].pc = "create" /\ \A h \in Gateways \ {g} : p'[h] = p[h]
    BY <1>0, <2>1, <2>4 DEF Shape
  <2>6. Shape' BY <1>0, <2>1, <2>5 DEF Shape
  <2>7. g \notin verified BY <1>0, <2>1 DEF Verified
  <2>8. Verified' BY <1>0, <2>1, <2>5, <2>7, OthersVerified
  <2>9. Guarded'
    <3>1. SUFFICES ASSUME ~slipped', NEW h \in Gateways, Mine(h)', p'[h].pc \in {"check", "commit"}
                   PROVE  p'[h].cur = file' /\ Allowed(h)'
      BY DEF Guarded
    <3>2. h # g BY <2>5, <3>1
    <3>3. p'[h] = p[h] BY <2>5, <3>2
    <3>4. p[h].cur = file /\ Allowed(h) BY <1>0, <2>1, <3>1, <3>3 DEF Guarded, Mine
    <3> QED BY <2>1, <3>3, <3>4 DEF Allowed
  <2> QED BY <2>6, <2>8, <2>9 DEF LockInv
<1>3. ASSUME NEW g \in Gateways, Create(g) PROVE LockInv'
  <2>1. UNCHANGED <<file, crashes, verified, slipped>> /\ p[g].pc = "create" BY <1>3 DEF Create
  <2>2. g \notin verified BY <1>0, <2>1 DEF Verified
  <2>3. CASE lock = NoFile
    <3>1. lock' = [NoFile EXCEPT !.by = g, !.n = p[g].n] /\ To(g, "token") BY <1>3, <2>3 DEF Create
    <3>2. p[g].n \in Nat BY <1>0 DEF Shape, Processes
    <3>3. /\ lock' \in [by : Gateways \cup {Nobody}, n : Nat, written : BOOLEAN, stale : BOOLEAN]
          /\ lock'.by = g
      BY <3>1, <3>2 DEF NoFile
    <3>4. verified' = {} BY <1>0, <2>1, <2>3, LockFacts, NobodyVerified
    <3>5. "token" \in Places BY DEF Places
    <3> QED BY <1>0, <2>1, <3>1, <3>3, <3>4, <3>5, WalkStep
  <2>4. CASE lock # NoFile
    <3>1. To(g, "stat") /\ UNCHANGED lock BY <1>3, <2>4 DEF Create
    <3>2. SameLock /\ "stat" \in Places BY <3>1 DEF SameLock, Places
    <3> QED BY <1>0, <2>1, <2>2, <3>1, <3>2, WalkStep
  <2> QED BY <2>3, <2>4
<1>4. ASSUME NEW g \in Gateways, WriteToken(g) PROVE LockInv'
  <2>1. UNCHANGED <<file, crashes, slipped>> /\ p[g].pc = "token" BY <1>4 DEF WriteToken
  <2>2. g \notin verified BY <1>0, <2>1 DEF Verified
  <2>3. "read" \in Places /\ "idle" \in Places BY DEF Places
  <2>4. CASE lock' \in {lock, [lock EXCEPT !.written = TRUE]} /\ To(g, "read") /\ UNCHANGED verified
    <3>1. /\ SameLock
          /\ lock' \in [by : Gateways \cup {Nobody}, n : Nat, written : BOOLEAN, stale : BOOLEAN]
      BY <1>0, <2>4 DEF SameLock
    <3> QED BY <1>0, <2>1, <2>2, <2>3, <2>4, <3>1, WalkStep
  <2>5. CASE lock' = NoFile /\ To(g, "idle") /\ verified' = {}
    BY <1>0, <2>1, <2>3, <2>5, LockFacts, WalkStep
  <2> QED BY <1>4, <2>4, <2>5 DEF WriteToken
<1>5. ASSUME NEW g \in Gateways, Stat(g) PROVE LockInv'
  <2>1. /\ UNCHANGED <<lock, file, crashes, verified, slipped>> /\ p[g].pc = "stat"
        /\ \E pc \in {"steal", "create", "idle"} : To(g, pc)
    BY <1>5 DEF Stat
  <2>2. PICK pc \in {"steal", "create", "idle"} : To(g, pc) BY <2>1
  <2>3. pc \in Places /\ pc \notin {"check", "commit"} BY DEF Places
  <2>4. SameLock /\ g \notin verified BY <1>0, <2>1 DEF SameLock, Verified
  <2> QED BY <1>0, <2>1, <2>2, <2>3, <2>4, WalkStep
<1>6. ASSUME NEW g \in Gateways, Steal(g) PROVE LockInv'
  <2>1. /\ UNCHANGED <<file, crashes, slipped>> /\ lock' = NoFile /\ To(g, "create") /\ verified' = {}
        /\ "create" \in Places
    BY <1>6 DEF Steal, Places
  <2> QED BY <1>0, <2>1, LockFacts, WalkStep
<1>7. ASSUME NEW g \in Gateways, ReadFile(g) PROVE LockInv'
  <2>1. UNCHANGED <<lock, file, crashes, verified, slipped>> /\ p[g].pc = "read" BY <1>7 DEF ReadFile
  <2>2. SameLock /\ g \notin verified /\ "release" \in Places BY <1>0, <2>1 DEF SameLock, Verified, Places
  <2>3. CASE ~Allowed(g)
    <3>1. To(g, "release") BY <1>7, <2>3 DEF ReadFile
    <3> QED BY <1>0, <2>1, <2>2, <3>1, WalkStep
  <2>4. CASE Allowed(g)
    <3>1. p' = [p EXCEPT ![g] = [p[g] EXCEPT !.pc = "check", !.cur = file]] BY <1>7, <2>4 DEF ReadFile
    <3>2. p[g] \in Processes BY <1>0 DEF Shape
    <3>3. /\ [p[g] EXCEPT !.pc = "check", !.cur = file] \in Processes
          /\ [p[g] EXCEPT !.pc = "check", !.cur = file].op = p[g].op
          /\ [p[g] EXCEPT !.pc = "check", !.cur = file].cur = file
          /\ [p[g] EXCEPT !.pc = "check", !.cur = file].seen = p[g].seen
          /\ [p[g] EXCEPT !.pc = "check", !.cur = file].won = p[g].won
      BY <1>0, <3>2 DEF Processes, Places, Shape
    <3>4. /\ p' \in [Gateways -> Processes] /\ \A h \in Gateways \ {g} : p'[h] = p[h]
          /\ p'[g].op = p[g].op /\ p'[g].cur = file /\ p'[g].seen = p[g].seen /\ p'[g].won = p[g].won
      BY <1>0, <3>1, <3>3 DEF Shape
    <3>5. p[g].op \notin {"takeover", "delete"} => file # NoRec BY <2>4 DEF Allowed, Holds
    <3>6. \A h \in Gateways : p'[h].pc \in {"check", "commit"} /\ p'[h].op \notin {"takeover", "delete"} =>
                                  p'[h].cur # NoRec
      <4>1. TAKE h \in Gateways
      <4>2. CASE h = g BY <3>4, <3>5, <4>2
      <4>3. CASE h # g
        <5>1. p'[h] = p[h] BY <3>4, <4>3
        <5> QED BY <1>0, <5>1 DEF Shape
      <4> QED BY <4>2, <4>3
    <3>7. Shape' BY <1>0, <2>1, <3>4, <3>6 DEF Shape
    <3>8. Verified' BY <1>0, <2>1, <2>2, <3>4, OthersVerified
    <3>9. Guarded'
      <4>1. SUFFICES ASSUME ~slipped', NEW h \in Gateways, Mine(h)', p'[h].pc \in {"check", "commit"}
                     PROVE  p'[h].cur = file' /\ Allowed(h)'
        BY DEF Guarded
      <4>2. CASE h = g BY <2>1, <2>4, <3>4, <4>2 DEF Allowed
      <4>3. CASE h # g
        <5>1. p'[h] = p[h] BY <3>4, <4>3
        <5>2. p[h].cur = file /\ Allowed(h) BY <1>0, <2>1, <4>1, <5>1 DEF Guarded, Mine
        <5> QED BY <2>1, <5>1, <5>2 DEF Allowed
      <4> QED BY <4>2, <4>3
    <3> QED BY <3>7, <3>8, <3>9 DEF LockInv
  <2> QED BY <2>3, <2>4
<1>8. ASSUME NEW g \in Gateways, StillHeld(g) PROVE LockInv'
  <2>1. UNCHANGED <<lock, file, crashes, slipped>> /\ p[g].pc = "check" BY <1>8 DEF StillHeld
  <2>2. SameLock /\ g \notin verified /\ "release" \in Places /\ "commit" \in Places
    BY <1>0, <2>1 DEF SameLock, Verified, Places
  <2>3. CASE ~Holder(g)
    <3>1. To(g, "release") /\ UNCHANGED verified BY <1>8, <2>3 DEF StillHeld
    <3> QED BY <1>0, <2>1, <2>2, <3>1, WalkStep
  <2>4. CASE Holder(g)
    <3>1. To(g, "commit") /\ verified' = verified \cup {g} BY <1>8, <2>4 DEF StillHeld
    <3>2. Walks(g, "commit") BY <1>0, <2>2, <3>1, WalksTo
    <3>3. Shape' BY <1>0, <2>1, <3>2, WalkShape
    <3>4. Guarded' BY <1>0, <2>1, <2>2, <3>2, WalkGuarded
    <3>5. Mine(g) BY <2>4 DEF Holder, Mine
    <3>6. Verified'
      <4>1. SUFFICES ASSUME NEW h \in verified'
                     PROVE  h \in Gateways /\ Mine(h)' /\ p'[h].pc \in {"commit", "dead"}
        BY DEF Verified
      <4>2. CASE h = g BY <2>1, <3>2, <3>5, <4>2 DEF Walks, Mine
      <4>3. CASE h # g
        <5>1. h \in Gateways /\ Mine(h) /\ p[h].pc \in {"commit", "dead"} BY <1>0, <3>1, <4>1, <4>3 DEF Verified
        <5>2. p'[h] = p[h] BY <3>2, <4>3, <5>1 DEF Walks
        <5> QED BY <2>1, <5>1, <5>2 DEF Mine
      <4> QED BY <4>2, <4>3
    <3> QED BY <3>3, <3>4, <3>6 DEF LockInv
  <2> QED BY <2>3, <2>4
<1>9. ASSUME NEW g \in Gateways, Commit(g) PROVE LockInv'
  <2>1. /\ p[g].pc = "commit" /\ file' = Image(g, p[g].cur) /\ UNCHANGED <<lock, crashes>>
        /\ verified' = verified \ {g} /\ slipped' = (slipped \/ g \notin verified)
    BY <1>9 DEF Commit
  <2>2. p' = [p EXCEPT ![g] = [p[g] EXCEPT !.pc = "release",
                                   !.won = IF p[g].op = "takeover" THEN Image(g, p[g].cur).gen ELSE p[g].won]]
    BY <1>9 DEF Commit
  <2>3. p[g] \in Processes /\ p[g].cur \in Record \cup {NoRec} /\ p[g].won \in Nat BY <1>0 DEF Shape, Processes
  <2>4. file' \in Record \cup {NoRec} /\ (p[g].op = "takeover" => Image(g, p[g].cur).gen \in Nat)
    BY <1>0, <2>1, <2>3, ImageTyped DEF Shape
  <2>5. PICK w \in Nat : p' = [p EXCEPT ![g] = [p[g] EXCEPT !.pc = "release", !.won = w]] BY <2>2, <2>3, <2>4
  <2>6. [p[g] EXCEPT !.pc = "release", !.won = w] \in Processes
        /\ [p[g] EXCEPT !.pc = "release", !.won = w].pc = "release"
    BY <2>3 DEF Processes, Places
  <2>7. p' \in [Gateways -> Processes] /\ p'[g].pc = "release" /\ \A h \in Gateways \ {g} : p'[h] = p[h]
    BY <1>0, <2>5, <2>6 DEF Shape
  <2>8. Shape' BY <1>0, <2>1, <2>4, <2>7 DEF Shape
  <2>9. Verified' BY <1>0, <2>1, <2>7, OthersVerified
  <2>10. Guarded'
    <3>1. SUFFICES ASSUME ~slipped', NEW h \in Gateways, Mine(h)', p'[h].pc \in {"check", "commit"} PROVE FALSE
      BY DEF Guarded
    <3>2. g \in verified BY <2>1, <3>1
    <3>3. lock.by = h BY <2>1, <3>1 DEF Mine
    <3>4. h = g BY <1>0, <3>2, <3>3, OneVerified
    <3> QED BY <2>7, <3>1, <3>4
  <2> QED BY <2>8, <2>9, <2>10 DEF LockInv
<1>10. ASSUME NEW g \in Gateways, Release(g) PROVE LockInv'
  <2>1. UNCHANGED <<lock, file, crashes, verified, slipped>> /\ p[g].pc = "release" BY <1>10 DEF Release
  <2>2. PICK pc \in {"remove", "idle"} : To(g, pc) BY <1>10 DEF Release
  <2>3. pc \in Places /\ pc \notin {"check", "commit"} BY DEF Places
  <2>4. SameLock /\ g \notin verified BY <1>0, <2>1 DEF SameLock, Verified
  <2> QED BY <1>0, <2>1, <2>2, <2>3, <2>4, WalkStep
<1>11. ASSUME NEW g \in Gateways, ReleaseRemoves(g) PROVE LockInv'
  <2>1. /\ UNCHANGED <<file, crashes, slipped>> /\ p[g].pc = "remove" /\ lock' = NoFile /\ To(g, "idle")
        /\ verified' = IF Holder(g) THEN verified ELSE {}
        /\ "idle" \in Places
    BY <1>11 DEF ReleaseRemoves, Places
  <2>2. verified' = {}
    <3>1. CASE Holder(g)
      <4>1. ASSUME NEW h \in verified PROVE FALSE
        <5>1. g = h BY <1>0, <3>1, <4>1, OneVerified DEF Holder
        <5> QED BY <1>0, <2>1, <4>1, <5>1 DEF Verified
      <4> QED BY <2>1, <3>1, <4>1
    <3>2. CASE ~Holder(g) BY <2>1, <3>2
    <3> QED BY <3>1, <3>2
  <2> QED BY <1>0, <2>1, <2>2, LockFacts, WalkStep
<1>12. ASSUME NEW g \in Gateways, Crash(g) PROVE LockInv'
  <2>1. UNCHANGED <<lock, file, verified, slipped>> /\ To(g, "dead") BY <1>12 DEF Crash
  <2>2. crashes < MaxCrashes /\ crashes' = crashes + 1 BY <1>12 DEF Crash
  <2>3. crashes' \in 0..MaxCrashes BY SMT, <1>0, <2>2
  <2>4. SameLock /\ "dead" \in Places BY <2>1 DEF SameLock, Places
  <2> QED BY <1>0, <2>1, <2>3, <2>4, WalkStep
<1>13. CASE Ages
  <2>1. lock' = [lock EXCEPT !.stale = TRUE] /\ UNCHANGED <<file, p, crashes, verified, slipped>>
    BY <1>13 DEF Ages
  <2>2. /\ SameLock
        /\ lock' \in [by : Gateways \cup {Nobody}, n : Nat, written : BOOLEAN, stale : BOOLEAN]
    BY <1>0, <2>1 DEF SameLock
  <2>3. Shape' BY <1>0, <2>1, <2>2 DEF Shape
  <2>4. Verified' BY <1>0, <2>1, <2>2 DEF Verified, Mine, SameLock
  <2>5. Guarded' BY <1>0, <2>1, <2>2 DEF Guarded, Mine, SameLock, Allowed
  <2> QED BY <2>3, <2>4, <2>5 DEF LockInv
<1> QED
  BY <1>1, <1>2, <1>3, <1>4, <1>5, <1>6, <1>7, <1>8, <1>9, <1>10, <1>11, <1>12, <1>13 DEF Next

LEMMA LockInvariance == ASSUME MaxCrashes \in Nat PROVE Spec => []LockInv
<1>1. Init => LockInv BY InitLockInv
<1>2. LockInv /\ [Next]_vars => LockInv' BY NextLockInv
<1> QED BY <1>1, <1>2, PTL DEF Spec

-----------------------------------------------------------------------------
(* The session file always holds a record or is absent, whatever the       *)
(* processes that share it do (FileStore: readUnlocked, writeLocked).      *)
THEOREM FileTyping == ASSUME MaxCrashes \in Nat PROVE Spec => []TypeOK
<1>1. LockInv => TypeOK BY DEF LockInv, Shape, Verified, TypeOK
<1> QED BY <1>1, LockInvariance, PTL

(* The comment at stillHeld, for any number of processes, crashes, pauses  *)
(* and thefts of stale locks: every change of the session file is what the *)
(* store's atomic operation would do to the record the file has at that    *)
(* moment, until a lock is taken from a process in the instant between     *)
(* stillHeld and its rename.                                               *)
THEOREM LostInTheInstant == ASSUME MaxCrashes \in Nat PROVE Spec => [][LostOnlyInTheInstant]_vars
<1>1. LockInv /\ [Next]_vars => [LostOnlyInTheInstant]_vars
  <2>1. SUFFICES ASSUME LockInv, Next, ~slipped', file' # file
                 PROVE  \E g \in Gateways : p[g].pc = "commit" /\ Allowed(g) /\ file' = Image(g, file)
    BY DEF LostOnlyInTheInstant, AtomicUpdate
  <2>2. PICK g \in Gateways : Commit(g)
    BY <2>1 DEF Next, Begin, Create, WriteToken, Stat, Steal, ReadFile, StillHeld, Release, ReleaseRemoves,
        Crash, Ages
  <2>3. p[g].pc = "commit" /\ file' = Image(g, p[g].cur) /\ ~slipped /\ g \in verified
    BY <2>1, <2>2 DEF Commit
  <2>4. Mine(g) BY <2>1, <2>3 DEF LockInv, Verified
  <2>5. p[g].cur = file /\ Allowed(g) BY <2>1, <2>3, <2>4 DEF LockInv, Guarded
  <2> QED BY <2>3, <2>5
<1> QED BY <1>1, LockInvariance, PTL DEF Spec
=============================================================================
