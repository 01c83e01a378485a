--------------------------- MODULE BackendStores ----------------------------
(***************************************************************************)
(* Stores behind the session layer: the job and event files of the         *)
(* scheduler and bus servers, and the PostgreSQL tables of leases, claims  *)
(* and used tokens. Each part is a specification of its own, with its own  *)
(* initial state and next-state relation; a behaviour is a behaviour of    *)
(* one of them.                                                            *)
(***************************************************************************)
EXTENDS FiniteSets, SequencesExt, LeaseStore

-----------------------------------------------------------------------------
(***************************************************************************)
(* The small stateful backends that the gateway starts as one process per  *)
(* session: the scheduler (cmd/scheduler), the event bus (cmd/bus) and     *)
(* their siblings cmd/memory and cmd/vault, which keep their file the same *)
(* two ways.  A process reads the file when it starts and works on its own *)
(* copy from then on.  The scheduler and the vault replace the whole file  *)
(* through one temporary name; the bus and the memory append a line.       *)
(*                                                                         *)
(* Sessions follow each other or run at once, each with a process of its   *)
(* own on the same file: the gateway's configuration permits both.         *)
(***************************************************************************)
CONSTANTS
  Procs,
  Jobs,         \* job -> [runAt, every]
  Topics,
  MaxTime, MaxEvents, MaxFails

VARIABLES
  up,        \* the processes that run
  copy,      \* process -> its jobs: job -> [runAt, done]
  pc,        \* process -> [op, jobs]: what it does between the temporary file and the answer
  tmp,       \* the temporary file: none or one contents
  file,      \* the schedule
  handed,    \* history of what `due` returned: <<job, slot, time, process>>
  tried,     \* what callers asked for: [schedule, cancel]
  acked, cancelled,  \* and what was confirmed to them
  events,    \* the bus file: [seq, topic, num, by]
  known,     \* process -> the events it has in memory
  reader,    \* topic -> [cursor, seen]: a client that polls
  now, fails, ended,
  overlapped \* history: two processes have run at once

backendVars == <<up, copy, pc, tmp, file, handed, tried, acked, cancelled, events, known, reader, now, fails, ended, overlapped>>

Idle == [op |-> "idle", jobs |-> {}]
NoJobs == <<>>

Upd(f, k, v) == [x \in DOMAIN f \cup {k} |-> IF x = k THEN v ELSE f[x]]
Del(f, k) == [x \in DOMAIN f \ {k} |-> f[x]]

(***************************************************************************)
(* A session starts its process, which loads the files; it ends, or is     *)
(* killed, at any moment.                                                  *)
(***************************************************************************)
Start(p) ==
  /\ p \notin up /\ p \notin ended
  /\ up' = up \cup {p} /\ overlapped' = (overlapped \/ up # {})
  /\ copy' = [copy EXCEPT ![p] = file] /\ known' = [known EXCEPT ![p] = events]
  /\ UNCHANGED <<pc, tmp, file, handed, tried, acked, cancelled, events, reader, now, fails, ended>>

End(p) ==
  /\ p \in up
  /\ up' = up \ {p} /\ ended' = ended \cup {p}
  /\ pc' = [pc EXCEPT ![p] = Idle]
  /\ UNCHANGED <<copy, tmp, file, handed, tried, acked, cancelled, events, known, reader, now, fails, overlapped>>

(***************************************************************************)
(* persistLocked: the whole map into the temporary file, then the rename.  *)
(* (Mutated form: the answer goes out first.)                              *)
(***************************************************************************)
WriteTmp(p, jobs, op, ids) ==
  \/ /\ tmp' = {jobs} /\ pc' = [pc EXCEPT ![p] = [op |-> op, jobs |-> ids]]
     /\ UNCHANGED fails
  \/ /\ fails < MaxFails /\ fails' = fails + 1
     /\ UNCHANGED <<tmp, pc>>

(* schedule, under a fresh random name: in the map even when it cannot be written; then an error is reported. *)
Schedule(p, j) ==
  /\ p \in up /\ pc[p] = Idle /\ j \notin tried.schedule
  /\ tried' = [tried EXCEPT !.schedule = @ \cup {j}]
  /\ LET jobs == Upd(copy[p], j, [runAt |-> IF Jobs[j].runAt = 0 THEN now + Jobs[j].every ELSE Jobs[j].runAt, done |-> FALSE])
     IN  copy' = [copy EXCEPT ![p] = jobs] /\ WriteTmp(p, jobs, "schedule", {j})
  /\ UNCHANGED <<up, file, handed, acked, cancelled, events, known, reader, now, ended, overlapped>>

(***************************************************************************)
(* due: everything whose time has come.  A recurring job moves to its      *)
(* first slot after now, a one-shot is done.                               *)
(***************************************************************************)
Advanced(j, job) ==
  IF Jobs[j].every > 0
  THEN [job EXCEPT !.runAt = CHOOSE t \in now + 1 .. now + Jobs[j].every : (t - job.runAt) % Jobs[j].every = 0]
  ELSE [job EXCEPT !.done = TRUE]

Ready(p) == {j \in DOMAIN copy[p] : ~copy[p][j].done /\ copy[p][j].runAt <= now}

Due(p) ==
  /\ p \in up /\ pc[p] = Idle /\ Ready(p) # {}
  /\ LET jobs == [j \in DOMAIN copy[p] |-> IF j \in Ready(p) THEN Advanced(j, copy[p][j]) ELSE copy[p][j]]
     IN  copy' = [copy EXCEPT ![p] = jobs] /\ WriteTmp(p, jobs, "due", {<<j, copy[p][j].runAt, now, p>> : j \in Ready(p)})
  /\ UNCHANGED <<up, file, handed, tried, acked, cancelled, events, known, reader, now, ended, overlapped>>

Cancel(p, j) ==
  /\ p \in up /\ pc[p] = Idle /\ j \in DOMAIN copy[p]
  /\ copy' = [copy EXCEPT ![p] = Del(@, j)] /\ WriteTmp(p, Del(copy[p], j), "cancel", {j})
  /\ tried' = [tried EXCEPT !.cancel = @ \cup {j}]
  /\ UNCHANGED <<up, file, handed, acked, cancelled, events, known, reader, now, ended, overlapped>>

Renamed(p) == tmp' = {} /\ file' \in tmp

(***************************************************************************)
(* The rename and the answer.  When another process has renamed the        *)
(* temporary file away the caller gets an error.                           *)
(***************************************************************************)
Persist(p) ==
  /\ p \in up /\ pc[p] # Idle
  /\ pc' = [pc EXCEPT ![p] = Idle]
  /\ IF tmp = {} THEN UNCHANGED <<file, tmp, handed, acked, cancelled>>
     ELSE /\ Renamed(p)
          /\ handed' = IF pc[p].op = "due" THEN handed \o SetToSeq(pc[p].jobs) ELSE handed
          /\ acked' = IF pc[p].op = "schedule" THEN acked \cup pc[p].jobs ELSE acked
          /\ cancelled' = IF pc[p].op = "cancel" THEN cancelled \cup pc[p].jobs ELSE cancelled
  /\ UNCHANGED <<up, copy, tried, events, known, reader, now, fails, ended, overlapped>>

(***************************************************************************)
(* The bus.  publish numbers the event after the last one this process     *)
(* knows; a failing append gives the number back.                          *)
(* (Mutated form: the number is the count of this topic.)                  *)
(***************************************************************************)
Highest(evs) == IF evs = <<>> THEN 0 ELSE CHOOSE n \in {evs[i].seq : i \in DOMAIN evs} : \A i \in DOMAIN evs : evs[i].seq <= n

NumberInTopic(p, t) == Len(SelectSeq(known[p], LAMBDA e : e.topic = t)) + 1

NumberFor(p, t) == Highest(known[p]) + 1

Publish(p, t) ==
  /\ p \in up /\ pc[p] = Idle /\ Len(events) < MaxEvents
  /\ LET e == [seq |-> NumberFor(p, t), topic |-> t, num |-> Len(events) + 1, by |-> p]
     IN  events' = Append(events, e) /\ known' = [known EXCEPT ![p] = Append(@, e)]
  /\ UNCHANGED <<up, copy, pc, tmp, file, handed, tried, acked, cancelled, reader, now, fails, ended, overlapped>>

(* poll: at most limit events after the cursor, here one at a time. *)
Poll(p, t) ==
  /\ p \in up
  /\ LET new == SelectSeq(known[p], LAMBDA e : e.topic = t /\ e.seq > reader[t].cursor)
     IN  /\ new # <<>>
         /\ reader' = [reader EXCEPT ![t] = [cursor |-> Head(new).seq, seen |-> @.seen \cup {Head(new).num}]]
  /\ UNCHANGED <<up, copy, pc, tmp, file, handed, tried, acked, cancelled, events, known, now, fails, ended, overlapped>>

BackendTick ==
  /\ now < MaxTime /\ now' = now + 1
  /\ UNCHANGED <<up, copy, pc, tmp, file, handed, tried, acked, cancelled, events, known, reader, fails, ended, overlapped>>

BackendInit ==
  /\ up = {} /\ copy = [p \in Procs |-> NoJobs] /\ pc = [p \in Procs |-> Idle]
  /\ tmp = {} /\ file = NoJobs /\ handed = <<>> /\ tried = [schedule |-> {}, cancel |-> {}]
  /\ acked = {} /\ cancelled = {}
  /\ events = <<>> /\ known = [p \in Procs |-> <<>>]
  /\ reader = [t \in Topics |-> [cursor |-> 0, seen |-> {}]]
  /\ now = 1 /\ fails = 0 /\ ended = {} /\ overlapped = FALSE

BackendNext ==
  \/ \E p \in Procs : Start(p) \/ End(p) \/ Due(p) \/ Persist(p)
  \/ \E p \in Procs, j \in DOMAIN Jobs : Schedule(p, j) \/ Cancel(p, j)
  \/ \E p \in Procs, t \in Topics : Publish(p, t) \/ Poll(p, t)
  \/ BackendTick

BackendSpec == BackendInit /\ [][BackendNext]_backendVars

(***************************************************************************)
(* Nothing fires twice: no slot of a job is handed out twice, not by the   *)
(* next process either, and no job twice at one moment (due).  Processes   *)
(* that run at once each keep to it; between them it fails, as each hands  *)
(* out its own copy.                                                       *)
(***************************************************************************)
HandedOnce ==
  \A i, k \in DOMAIN handed :
     i # k /\ handed[i][1] = handed[k][1] /\ (overlapped => handed[i][4] = handed[k][4])
     => handed[i][2] # handed[k][2] /\ handed[i][3] # handed[k][3]

(***************************************************************************)
(* A job whose registration was confirmed is in the file until somebody    *)
(* asks to cancel it; one whose cancellation was confirmed is not          *)
(* (persistLocked).  Where two processes have run at once one may have     *)
(* replaced the file of the other.                                         *)
(***************************************************************************)
AckedKept ==
  ~overlapped =>
    /\ \A j \in acked \ tried.cancel : j \in DOMAIN file
    /\ \A j \in cancelled : j \notin DOMAIN file

(***************************************************************************)
(* "Every event is stamped with [...] a monotonic sequence" (cmd/bus):     *)
(* numbers rise through the file, so a reader that resumes from its cursor *)
(* has seen everything of its topic below it.  Of processes that run at    *)
(* once it is so for the events of each: two may give out one number, and  *)
(* a reader misses the second.                                             *)
(***************************************************************************)
SeqMonotone ==
  /\ \A i, k \in DOMAIN events :
       i < k /\ (overlapped => events[i].by = events[k].by) => events[i].seq < events[k].seq
  /\ overlapped \/ \A t \in Topics : \A i \in DOMAIN events :
       events[i].topic = t /\ events[i].seq <= reader[t].cursor => events[i].num \in reader[t].seen

BackendsHold == HandedOnce /\ AckedKept /\ SeqMonotone

-----------------------------------------------------------------------------
(***************************************************************************)
(* The PostgreSQL store several gateways share (pgstore/): the leases of a *)
(* session as transactions with a row lock (lease.go, sessions.go), the    *)
(* claims of the idempotency cache (claims.go) and the replay tables       *)
(* (replay.go), as sequences of statements that other gateways' statements *)
(* come between.  The database runs them at READ COMMITTED: a statement    *)
(* sees what is committed when it starts, waits for a row another          *)
(* transaction has locked or is inserting, and then looks again.  An       *)
(* answer may be lost after the commit, and a gateway may die inside a     *)
(* transaction.  LeaseStore is what the lease half promises.               *)
(***************************************************************************)
CONSTANTS
  MaxGen, MaxVer,   \* bounds on the generations and checkpoints
  MaxOps,           \* calls a gateway makes
  MaxLost,          \* answers lost after a commit, and gateways that die
  Callers,          \* callers of Claim (one key) and Use (one nonce), each on a gateway
  Window,           \* how long a claim or a nonce lives
  Skew              \* how far a gateway's clock may run ahead

VARIABLES
  row,      \* the committed row of the session, or NoRec
  lock,     \* the gateway whose transaction holds the row, or Nobody
  ins,      \* the gateway whose insert of the row is not committed yet, or Nobody
  tx,       \* gateway -> its call: [pc, op, expected, cur]
  holds,    \* history: set of [g, gen, past]: grants a gateway was told of; past: of a row since deleted
  ops, lost,
  claim,    \* the claim's row: {} or {[exp, by, done, result]}
  use,      \* the nonce's row: {} or {[exp]}
  call,     \* caller -> [pc, exp, at, got]
  ran,      \* history: set of [by, exp, at]: claims that won, and ran the tool
  accepted  \* history: set of [by, at]: uses of the nonce that were accepted, and when

pgVars == <<row, lock, ins, tx, holds, ops, lost, now, claim, use, call, ran, accepted>>
leaseVars == <<row, lock, ins, tx, holds, ops>>
tableVars == <<now, claim, use, call, ran, accepted>>
NoTx == [pc |-> "idle", op |-> "none", expected |-> 0, cur |-> NoRec]
NoCall == [pc |-> "idle", exp |-> 0, at |-> 0, got |-> {}]
Gens == 0..MaxGen

(***************************************************************************)
(* casLease: SELECT ... FOR UPDATE, then INSERT or UPDATE, then COMMIT.    *)
(***************************************************************************)
Begin(g) ==
  /\ tx[g].pc = "idle" /\ ops < MaxOps /\ ops' = ops + 1
  /\ \E op \in {"acquire", "takeover"}, e \in Gens : tx' = [tx EXCEPT ![g] = [pc |-> "select", op |-> op, expected |-> e, cur |-> NoRec]]
  /\ UNCHANGED <<row, lock, ins, holds, lost>> /\ UNCHANGED tableVars

Granted(g, cur) == IF tx[g].op = "acquire" THEN canAcquire(cur, g, tx[g].expected) ELSE canTakeover(cur, tx[g].expected)

SelectForUpdate(g) ==
  /\ tx[g].pc = "select" /\ row # NoRec /\ lock = Nobody
  /\ IF Granted(g, row)
       THEN lock' = g /\ tx' = [tx EXCEPT ![g].pc = "update", ![g].cur = row]
       ELSE tx' = [tx EXCEPT ![g] = NoTx] /\ UNCHANGED lock            \* rolled back
  /\ UNCHANGED <<row, ins, holds, ops, lost>> /\ UNCHANGED tableVars

(* No row: nothing to lock, and an insert that is not committed is not seen. *)
SelectNothing(g) ==
  /\ tx[g].pc = "select" /\ row = NoRec
  /\ tx' = [tx EXCEPT ![g] = IF Granted(g, NoRec) THEN [@ EXCEPT !.pc = "insert"] ELSE NoTx]
  /\ UNCHANGED <<row, lock, ins, holds, ops, lost>> /\ UNCHANGED tableVars

(* ON CONFLICT DO NOTHING waits for the other insert and takes no row.       *)
Insert(g) ==
  /\ tx[g].pc = "insert" /\ ins = Nobody
  /\ IF row = NoRec THEN ins' = g /\ tx' = [tx EXCEPT ![g].pc = "commit"]
     ELSE tx' = [tx EXCEPT ![g] = NoTx] /\ UNCHANGED ins
  /\ UNCHANGED <<row, lock, holds, ops, lost>> /\ UNCHANGED tableVars

Update(g) ==
  /\ tx[g].pc = "update" /\ (IF tx[g].cur = NoRec THEN 0 ELSE tx[g].cur.gen) < MaxGen
  /\ tx' = [tx EXCEPT ![g].pc = "commit"]
  /\ UNCHANGED <<row, lock, ins, holds, ops, lost>> /\ UNCHANGED tableVars

Frees(g) ==
  /\ lock' = IF lock = g THEN Nobody ELSE lock
  /\ ins' = IF ins = g THEN Nobody ELSE ins

(* The grant is written with the generation read plus one; the state under it is the committed one. *)
Written(g) == IF row = NoRec THEN FreshRecord(g) ELSE [row EXCEPT !.owner = g, !.gen = Grant(tx[g].cur, g).gen, !.lease = "live"]

Commit(g) ==
  /\ tx[g].pc = "commit" /\ row' = Written(g) /\ Frees(g)
  /\ tx' = [tx EXCEPT ![g] = NoTx]
  /\ \/ holds' = holds \cup {[g |-> g, gen |-> row'.gen, past |-> FALSE]} /\ UNCHANGED lost
     \/ lost < MaxLost /\ lost' = lost + 1 /\ UNCHANGED holds        \* committed, the answer is lost
  /\ UNCHANGED ops /\ UNCHANGED tableVars

(* The connection drops, or the gateway dies: rolled back. *)
Abort(g) ==
  /\ tx[g].pc \in {"select", "insert", "update", "commit"} /\ lost < MaxLost /\ lost' = lost + 1
  /\ tx' = [tx EXCEPT ![g] = NoTx] /\ Frees(g)
  /\ UNCHANGED <<row, holds, ops>> /\ UNCHANGED tableVars

(***************************************************************************)
(* RenewLease, ReleaseLease and SaveIfOwned are single statements: they    *)
(* wait for the row lock and test their WHERE on what is committed then.   *)
(* (Mutated form: the generation is not in the WHERE.)                     *)
(***************************************************************************)
WhereOwner(g, gen) == row # NoRec /\ row.owner = g

Where(g, gen) == Holds(row, g, gen)

Statement(g, gen) ==
  /\ \E h \in holds : h.g = g /\ h.gen = gen
  /\ tx[g].pc = "idle" /\ lock = Nobody /\ ops < MaxOps /\ ops' = ops + 1
  /\ Where(g, gen)
  /\ row' \in {Renewed(row), Released(row)} \cup (IF row.ver < MaxVer THEN {Saved(row, row.ver + 1)} ELSE {})
  /\ UNCHANGED <<lock, ins, tx, holds, lost>> /\ UNCHANGED tableVars

(* DeleteIfOwner names no generation: whoever of gateway g calls it, for an older grant or for none it was told of. *)
Delete(g) ==
  /\ tx[g].pc = "idle" /\ lock = Nobody /\ ops < MaxOps /\ ops' = ops + 1
  /\ DeletesIfOwner(row, g) /\ row' = NoRec /\ holds' = {[h EXCEPT !.past = TRUE] : h \in holds}
  /\ UNCHANGED <<lock, ins, tx, lost>> /\ UNCHANGED tableVars

Lapse ==
  /\ row # NoRec /\ row.lease = "live" /\ row' = [row EXCEPT !.lease = "lapsed"]
  /\ UNCHANGED <<lock, ins, tx, holds, ops, lost>> /\ UNCHANGED tableVars

(***************************************************************************)
(* Claim: evict, insert, and for a loser select; then the winner runs the  *)
(* tool and Complete writes its result.  Use: evict, insert.               *)
(***************************************************************************)
PgTick ==
  /\ now < MaxTime /\ now' = now + 1
  /\ UNCHANGED <<claim, use, call, ran, accepted, lost>> /\ UNCHANGED leaseVars

(* The call reads its gateway's clock once, and the expiry it asks for counts from there. *)
Arrive(c) ==
  /\ call[c].pc = "idle"
  /\ \E d \in 0..Skew, what \in {"claim", "use"} :
       call' = [call EXCEPT ![c] = [pc |-> what, exp |-> now + d + Window, at |-> now + d, got |-> {}]]
  /\ UNCHANGED <<now, claim, use, ran, accepted, lost>> /\ UNCHANGED leaseVars

evictExpired(t, at) == {r \in t : r.exp >= at}

ClaimEvict(c) ==
  /\ call[c].pc = "claim" /\ claim' = evictExpired(claim, call[c].at) /\ call' = [call EXCEPT ![c].pc = "insert"]
  /\ UNCHANGED <<now, use, ran, accepted, lost>> /\ UNCHANGED leaseVars

(* (Mutated form: a claim that is there is taken over.) *)
InsertClaimOver(c) ==
  /\ claim' = {[exp |-> call[c].exp, by |-> c, done |-> FALSE, result |-> c]}
  /\ ran' = ran \cup {[by |-> c, exp |-> call[c].exp, at |-> now]} /\ call' = [call EXCEPT ![c].pc = "run"]

InsertClaim(c) ==
  IF claim = {}
    THEN /\ claim' = {[exp |-> call[c].exp, by |-> c, done |-> FALSE, result |-> c]}
         /\ ran' = ran \cup {[by |-> c, exp |-> call[c].exp, at |-> now]} /\ call' = [call EXCEPT ![c].pc = "run"]
    ELSE call' = [call EXCEPT ![c].pc = "read"] /\ UNCHANGED <<claim, ran>>

ClaimInsert(c) ==
  /\ call[c].pc = "insert" /\ InsertClaim(c)
  /\ UNCHANGED <<now, use, accepted, lost>> /\ UNCHANGED leaseVars

ClaimRead(c) ==
  /\ call[c].pc = "read"
  /\ call' = [call EXCEPT ![c].pc = "done", ![c].got = {[from |-> r.by, result |-> r.result] : r \in {x \in claim : x.exp >= call[c].at /\ x.done}}]
  /\ UNCHANGED <<now, claim, use, ran, accepted, lost>> /\ UNCHANGED leaseVars

(* Complete's WHERE: not done, the caller's own window, not expired.         *)
Completes(c, r, at) == ~r.done /\ r.exp = call[c].exp /\ r.exp >= at

Complete(c) ==
  /\ call[c].pc = "run"
  /\ \E at \in {now} : claim' = {IF Completes(c, r, at) THEN [r EXCEPT !.done = TRUE, !.result = c] ELSE r : r \in claim}
  /\ call' = [call EXCEPT ![c].pc = "done"]
  /\ UNCHANGED <<now, use, ran, accepted, lost>> /\ UNCHANGED leaseVars

UseEvict(c) ==
  /\ call[c].pc = "use" /\ use' = evictExpired(use, call[c].at) /\ call' = [call EXCEPT ![c].pc = "mark"]
  /\ UNCHANGED <<now, claim, ran, accepted, lost>> /\ UNCHANGED leaseVars

(* The nonce's own expiry is Window for every caller: later, the caller refuses it before it comes here. *)
UseInsert(c) ==
  /\ call[c].pc = "mark" /\ call[c].at <= Window /\ call' = [call EXCEPT ![c].pc = "done"]
  /\ IF use = {} THEN use' = {[exp |-> Window]} /\ accepted' = accepted \cup {[by |-> c, at |-> now]} ELSE UNCHANGED <<use, accepted>>
  /\ UNCHANGED <<now, claim, ran, lost>> /\ UNCHANGED leaseVars

PgInit ==
  /\ row = NoRec /\ lock = Nobody /\ ins = Nobody /\ tx = [g \in Gateways |-> NoTx] /\ holds = {} /\ ops = 0 /\ lost = 0
  /\ now = 0 /\ claim = {} /\ use = {} /\ call = [c \in Callers |-> NoCall] /\ ran = {} /\ accepted = {}

PgNext ==
  \/ \E g \in Gateways :
       \/ Begin(g) \/ SelectForUpdate(g) \/ SelectNothing(g) \/ Insert(g) \/ Update(g) \/ Commit(g) \/ Abort(g)
       \/ Delete(g) \/ \E gen \in Gens : Statement(g, gen)
  \/ Lapse \/ PgTick
  \/ \E c \in Callers :
       \/ Arrive(c) \/ ClaimEvict(c) \/ ClaimInsert(c) \/ ClaimRead(c) \/ Complete(c) \/ UseEvict(c) \/ UseInsert(c)

PgSpec == PgInit /\ [][PgNext]_pgVars

(***************************************************************************)
(* The transactions do what LeaseStore says in one step: whatever changes  *)
(* in the row is a grant the committed row allows at the generation asked  *)
(* for (casLease), or a statement of a gateway that was told it holds the  *)
(* row's own generation, or the deletion of an owned row that no           *)
(* transaction has locked, or the clock.  The deletion compares the owner  *)
(* only, so a gateway's late reaper may delete what the same gateway was   *)
(* granted since (DeleteIfOwner).                                          *)
(***************************************************************************)
LeaseStep ==
  row' # row =>
    \/ \E g \in Gateways, e \in Gens :
         /\ canAcquire(row, g, e) \/ canTakeover(row, e)
         /\ row' = (IF row = NoRec THEN FreshRecord(g) ELSE [row EXCEPT !.owner = g, !.gen = row.gen + 1, !.lease = "live"])
    \/ /\ row # NoRec /\ \E h \in holds : h.g = row.owner /\ h.gen = row.gen
       /\ row' \in {Renewed(row), Released(row), Saved(row, row.ver + 1)}
    \/ row # NoRec /\ row.owner # Nobody /\ lock = Nobody /\ row' = NoRec
    \/ row # NoRec /\ row' = [row EXCEPT !.lease = "lapsed"]

(***************************************************************************)
(* No two gateways are ever told they hold the same generation of one      *)
(* record (casLease).                                                      *)
(***************************************************************************)
OneHolder == \A h, i \in holds : ~h.past /\ ~i.past /\ h.gen = i.gen => h.g = i.g

(***************************************************************************)
(* A tool runs again only when some gateway's clock has passed the expiry  *)
(* of the earlier claim: clocks differ by at most Skew, and a call that    *)
(* stalls after reading its clock claims from that time on, not from the   *)
(* insert (Claim).  A replayed result is of the claim it is read from, or  *)
(* of one with the same expiry, which is all Complete compares, also when  *)
(* a slow winner completes after its claim was evicted and claimed again.  *)
(* A nonce is accepted once for as long as no clock has passed its expiry; *)
(* a use that stalls between its two statements may come in later (Use).   *)
(***************************************************************************)
ClaimedOnce ==
  /\ \A x, y \in ran : x.by # y.by => x.at + Skew > y.exp \/ y.at + Skew > x.exp
  /\ \A c \in Callers : \A r \in call[c].got :
       \E x, y \in ran : x.by = r.from /\ y.by = r.result /\ x.exp = y.exp
  /\ Cardinality({a \in accepted : a.at + Skew <= Window}) <= 1

=============================================================================
