------------------------------ MODULE FileLock ------------------------------
(***************************************************************************)
(* The file-backed session store shared by gateway processes: the lock     *)
(* file with its owner token and stale stealing (session/flock.go) around  *)
(* the read-modify-write of one session file (FileStore, session/store.go).*)
(* Every file-system call is a step of its own.                            *)
(***************************************************************************)
EXTENDS LeaseStore, FiniteSets

CONSTANTS Pauses,    \* a live holder may be paused past the staleness window
          Kinds,     \* the operations performed
          MaxOps,    \* bound: operations each process performs
          MaxCrashes

VARIABLES
    lock,      \* the lock file: NoFile, or its token and whether it is stale
    file,      \* the session file
    p,         \* each process: pc, the record read, the token count
    crashes,
    verified,  \* history: processes whose lock was theirs at the check, still
    slipped    \* history: a commit happened after its lock had left

vars == <<lock, file, p, crashes, verified, slipped>>

NoFile == [by |-> Nobody, n |-> 0, written |-> FALSE, stale |-> FALSE]

Init ==
    /\ lock = NoFile /\ crashes = 0 /\ verified = {} /\ slipped = FALSE
    /\ file = [owner |-> Nobody, gen |-> 1, lease |-> "stale", ver |-> 0, ident |-> TRUE]
    /\ p = [g \in Gateways |-> [pc |-> "idle", op |-> "", cur |-> NoRec, seen |-> 0, won |-> 0, n |-> 0]]

To(g, pc) == p' = [p EXCEPT ![g].pc = pc]
Holder(g) == lock.by = g /\ lock.n = p[g].n /\ lock.written

GenOf(r) == IF r = NoRec THEN 0 ELSE r.gen

(* withLock: an operation begins, for the generation the process loaded    *)
(* last (a takeover) or holds (the others).                                *)
Begin(g, op) ==
    /\ p[g].pc = "idle" /\ p[g].n < MaxOps
    /\ p' = [p EXCEPT ![g].pc = "create", ![g].op = op, ![g].n = @ + 1, ![g].seen = GenOf(file)]
    /\ UNCHANGED <<lock, file, crashes, verified, slipped>>

(* acquire: O_CREATE|O_EXCL, or the file exists.                           *)
Create(g) ==
    /\ p[g].pc = "create"
    /\ IF lock = NoFile
       THEN lock' = [NoFile EXCEPT !.by = g, !.n = p[g].n] /\ To(g, "token")
       ELSE To(g, "stat") /\ UNCHANGED lock
    /\ UNCHANGED <<file, crashes, verified, slipped>>

(* The token is written through the handle: into the file created, were it *)
(* removed in between.  A failed write gives the lock back.                *)
WriteToken(g) ==
    /\ p[g].pc = "token"
    /\ \/ /\ lock' = IF lock.by = g /\ lock.n = p[g].n THEN [lock EXCEPT !.written = TRUE] ELSE lock
          /\ To(g, "read") /\ UNCHANGED verified
       \/ lock' = NoFile /\ To(g, "idle") /\ verified' = {}
    /\ UNCHANGED <<file, crashes, slipped>>

(* A lock older than the staleness window is stolen; else try again until  *)
(* the deadline.                                                           *)
Stat(g) ==
    /\ p[g].pc = "stat"
    /\ \/ lock # NoFile /\ lock.stale /\ To(g, "steal")
       \/ ~(lock # NoFile /\ lock.stale) /\ To(g, "create")
       \/ ~(lock # NoFile /\ lock.stale) /\ To(g, "idle")   \* errLockTimeout
    /\ UNCHANGED <<lock, file, crashes, verified, slipped>>

Steal(g) ==
    /\ p[g].pc = "steal"
    /\ lock' = NoFile /\ To(g, "create") /\ verified' = {}
    /\ UNCHANGED <<file, crashes, slipped>>

Allowed(g) ==
    CASE p[g].op = "takeover" -> canTakeover(file, p[g].seen)
      [] p[g].op = "delete" -> DeletesIfOwner(file, g)
      [] OTHER -> Holds(file, g, p[g].won)

(* readUnlocked and the decision; a fenced save returns.                   *)
ReadFile(g) ==
    /\ p[g].pc = "read"
    /\ IF Allowed(g) THEN p' = [p EXCEPT ![g].pc = "check", ![g].cur = file] ELSE To(g, "release")
    /\ UNCHANGED <<lock, file, crashes, verified, slipped>>

(* writeLocked: the image is in a temporary file; stillHeld is asked.      *)
StillHeld(g) ==
    /\ p[g].pc = "check"
    /\ IF Holder(g) THEN To(g, "commit") /\ verified' = verified \cup {g}
       ELSE To(g, "release") /\ UNCHANGED verified
    /\ UNCHANGED <<lock, file, crashes, slipped>>

Image(g, r) ==
    CASE p[g].op = "takeover" -> Grant(r, g)
      [] p[g].op = "delete" -> NoRec
      [] p[g].op = "renew" -> Renewed(r)
      [] p[g].op = "release" -> Released(r)
      [] OTHER -> Saved(r, r.ver + 1)

(* The rename, or the removal.                                             *)
Commit(g) ==
    /\ p[g].pc = "commit"
    /\ file' = Image(g, p[g].cur)
    /\ p' = [p EXCEPT ![g].pc = "release", ![g].won = IF p[g].op = "takeover" THEN Image(g, p[g].cur).gen ELSE @]
    /\ verified' = verified \ {g} /\ slipped' = (slipped \/ g \notin verified)
    /\ UNCHANGED <<lock, crashes>>

(* release: the token is read ...                                          *)
Release(g) ==
    /\ p[g].pc = "release"
    /\ To(g, IF Holder(g) THEN "remove" ELSE "idle")
    /\ UNCHANGED <<lock, file, crashes, verified, slipped>>

(* ... and the file removed.                                               *)
ReleaseRemoves(g) ==
    /\ p[g].pc = "remove"
    /\ lock' = NoFile /\ To(g, "idle")
    /\ verified' = IF Holder(g) THEN verified ELSE {}
    /\ UNCHANGED <<file, crashes, slipped>>

Crash(g) ==
    /\ crashes < MaxCrashes /\ p[g].pc # "dead"
    /\ crashes' = crashes + 1 /\ To(g, "dead")
    /\ UNCHANGED <<lock, file, verified, slipped>>

(* The staleness window passes.                                            *)
Ages ==
    /\ lock # NoFile /\ ~lock.stale
    /\ Pauses \/ p[lock.by].pc = "dead"
    /\ lock' = [lock EXCEPT !.stale = TRUE]
    /\ UNCHANGED <<file, p, crashes, verified, slipped>>

Next ==
    \/ \E g \in Gateways : \/ \E op \in Kinds : Begin(g, op)
                           \/ Create(g) \/ WriteToken(g) \/ Stat(g) \/ Steal(g) \/ ReadFile(g)
                           \/ StillHeld(g) \/ Commit(g) \/ Release(g) \/ ReleaseRemoves(g) \/ Crash(g)
    \/ Ages

Spec == Init /\ [][Next]_vars

-----------------------------------------------------------------------------
(* The file holds a record or none.                                        *)
TypeOK == file \in Record \cup {NoRec} /\ verified \subseteq Gateways /\ crashes \in 0..MaxCrashes

(* No commit loses another: the file changes only by what the store's      *)
(* atomic operation would do to the record it has at that moment.          *)
AtomicUpdate ==
    file' # file => \E g \in Gateways : p[g].pc = "commit" /\ Allowed(g) /\ file' = Image(g, file)

(* "The read shrinks the unguarded span from the whole critical section to *)
(* the instant between this check and the commit": updates are atomic, and *)
(* none is lost, until a lock is taken from a committer in that instant.   *)
LostOnlyInTheInstant == AtomicUpdate \/ slipped'
=============================================================================
