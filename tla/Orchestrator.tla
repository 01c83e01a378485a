---------------------------- MODULE Orchestrator ----------------------------
(***************************************************************************)
(* Work handed to other agents: the orchestrator's staged runs, the        *)
(* delegated calls of its MCP server, and the steers an agent takes while  *)
(* it works. Each part is a specification of its own, with its own initial *)
(* state and next-state relation; a behaviour is a behaviour of one of     *)
(* them.                                                                   *)
(***************************************************************************)
EXTENDS Integers, FiniteSets, SequencesExt

-----------------------------------------------------------------------------
(* One run of the agent harness: harness/orchestrator.go and                *)
(* orchestrator_stages.go (Advance through the pipeline, the approval gate, *)
(* Cancel, persistence after each stage), loop.go and budget.go (the loop   *)
(* driver and its tracker), scheduler.go and identity.go (workers with      *)
(* bounded concurrency, minted and retired).  Providers, hooks and policy   *)
(* verdicts answer either way.  Stages are numbered as in pipelineOrder.    *)
CONSTANTS
    Mode,                 \* "team", "ralph", "autopilot", "quick", "synthesize" or "plan-only"
    HighRisk,
    NTasks, Width,        \* tasks of a round, and the clamped fan-out
    LoopRounds, RetryPerRun,
    Advancers,            \* callers of Advance
    MaxCalls, MaxCancels, None

VARIABLES
    rc,                   \* runCtx: [status, stage, stopped, goal, rounds, cancel]
    saved,                \* Continuity's copy: [status, stage]
    tr,                   \* tracker: [rounds, retries]
    adv,                  \* Advance of each caller
    job,                  \* caller -> task -> [pc, n]: its goroutines of Fan
    todo,                 \* caller -> the next task that Fan starts
    ordinal, live, minted, \* Scheduler.ordinal, Minter.active, Scheduler.minted
    can,                  \* Cancel: [pc, snap]
    cosigned, calls, cancels,
    passed,               \* history: the approve stage saw the co-signature
    lost                  \* history: a save has failed

harnessVars == <<rc, saved, tr, adv, job, todo, ordinal, live, minted, can, cosigned, calls, cancels, passed, lost>>

Intake == 1
Interview == 2
Plan == 3
PlanReview == 4
ApproveStage == 5
Execute == 6
Verify == 7
Fix == 8
Settle == 9
stagesFor ==
    CASE Mode = "quick" -> {Intake, Plan, ApproveStage, Execute, Verify, Settle}
      [] Mode = "plan-only" -> {Intake, Interview, Plan, PlanReview, Settle}
      [] Mode = "synthesize" -> {Intake, ApproveStage, Execute, Verify, Settle}
      [] OTHER -> Intake..Settle
loops == Mode \in {"ralph", "autopilot"}
nextStage(s) == IF s < Settle THEN s + 1 ELSE Settle

Tasks == 1..NTasks
Idle == [pc |-> "idle", st |-> 0, ctx |-> "live", changed |-> FALSE, met |-> FALSE,
         ret |-> "", snap |-> None]
NoJob == [pc |-> "none", n |-> 0]
Snap(r) == [status |-> r.status, stage |-> r.stage]

HarnessInit ==
    /\ rc = [status |-> "pending", stage |-> Intake, stopped |-> FALSE, goal |-> FALSE,
             rounds |-> 0, cancel |-> None]
    /\ saved = Snap(rc) /\ tr = [rounds |-> 0, retries |-> 0]
    /\ adv = [a \in Advancers |-> Idle] /\ todo = [a \in Advancers |-> NTasks + 1]
    /\ job = [a \in Advancers |-> [t \in Tasks |-> NoJob]]
    /\ ordinal = 0 /\ live = {} /\ minted = {} /\ can = [pc |-> "idle", snap |-> None]
    /\ cosigned = FALSE /\ calls = 0 /\ cancels = 0 /\ passed = FALSE /\ lost = FALSE

workers == <<job, todo, ordinal, live, minted>>
outside == <<can, cosigned, calls, cancels>>
HarnessAt(a, pc) == adv[a].pc = pc /\ UNCHANGED outside
HarnessGoto(a, pc) == adv' = [adv EXCEPT ![a].pc = pc]

-----------------------------------------------------------------------------
(* Advance: the stop guard is read in one critical section; the cancel      *)
(* function and the status are set in the next.                             *)
HarnessCall(a) ==
    /\ adv[a].pc = "idle" /\ calls < MaxCalls /\ calls' = calls + 1
    /\ ~rc.stopped /\ adv' = [adv EXCEPT ![a] = [Idle EXCEPT !.pc = "enter"]]
    /\ UNCHANGED <<rc, saved, tr, workers, can, cosigned, cancels, passed, lost>>
Enter(a) ==
    /\ HarnessAt(a, "enter") /\ HarnessGoto(a, "loop")
    /\ rc' = [rc EXCEPT !.cancel = a, !.status = "running"]
    /\ UNCHANGED <<saved, tr, workers, passed, lost>>

(* The next stage of the mode at or after the run's cursor.                 *)
Remaining(a) == {s \in stagesFor : s > adv[a].st /\ s >= rc.stage}
First(S) == CHOOSE s \in S : \A e \in S : s <= e
HarnessLoop(a) ==
    /\ HarnessAt(a, "loop")
    /\ IF Remaining(a) = {} THEN HarnessGoto(a, "finish")
       ELSE IF adv[a].ctx = "cancelled" THEN HarnessGoto(a, "fail")
       ELSE adv' = [adv EXCEPT ![a].pc = "stage", ![a].st = First(Remaining(a))]
    /\ UNCHANGED <<rc, saved, tr, workers, passed, lost>>

(* Stages that only think: done, or an error from policy or provider.       *)
Think(a) ==
    /\ HarnessAt(a, "stage") /\ adv[a].st \in {Intake, Interview, Plan, PlanReview}
    /\ \/ HarnessGoto(a, "after")
       \/ adv[a].st # Intake /\ HarnessGoto(a, "fail")
    /\ UNCHANGED <<rc, saved, tr, workers, passed, lost>>

(* stageApprove: without its co-signature a high-risk run is parked, and    *)
(* the cursor stays.                                                        *)
Approve(a) ==
    /\ HarnessAt(a, "stage") /\ adv[a].st = ApproveStage
    /\ IF ~HighRisk \/ cosigned
         THEN HarnessGoto(a, "after") /\ passed' = (passed \/ cosigned) /\ UNCHANGED rc
         ELSE /\ rc' = [rc EXCEPT !.status = "blocked"]
              /\ adv' = [adv EXCEPT ![a].pc = "save", ![a].ret = "idle", ![a].snap = Snap(rc')]
              /\ UNCHANGED passed
    /\ UNCHANGED <<saved, tr, workers, lost>>

-----------------------------------------------------------------------------
(* stageExecute: the loop driver, the providers side by side, or one round. *)
ExecuteStage(a) ==
    /\ HarnessAt(a, "stage") /\ adv[a].st = Execute
    /\ IF loops THEN HarnessGoto(a, "drive") /\ UNCHANGED <<todo, rc>>
       ELSE IF Mode = "synthesize"
         THEN /\ \/ HarnessGoto(a, "after") /\ \E b \in BOOLEAN : rc' = [rc EXCEPT !.goal = b]
                 \/ HarnessGoto(a, "fail") /\ UNCHANGED rc
              /\ UNCHANGED todo
         ELSE /\ adv' = [adv EXCEPT ![a].pc = "fan", ![a].ret = "after", ![a].changed = FALSE]
              /\ todo' = [todo EXCEPT ![a] = 1] /\ UNCHANGED rc
    /\ UNCHANGED <<saved, tr, job, ordinal, live, minted, passed, lost>>

(* LoopSpec.Drive between rounds: cancelled, out of time, out of rounds, or *)
(* another round.                                                           *)
NextRound == LoopRounds = 0 \/ tr.rounds < LoopRounds
StopLoop(a, met) ==
    /\ HarnessGoto(a, "after") /\ rc' = [rc EXCEPT !.rounds = tr.rounds, !.goal = met]
    /\ UNCHANGED <<tr, todo>>
Drive(a) ==
    /\ HarnessAt(a, "drive")
    /\ \/ StopLoop(a, FALSE)                \* cancelled, expired, or no round left
       \/ /\ adv[a].ctx = "live" /\ NextRound
          /\ tr' = [tr EXCEPT !.rounds = @ + 1]
          /\ adv' = [adv EXCEPT ![a].pc = "fan", ![a].ret = "check", ![a].changed = FALSE]
          /\ todo' = [todo EXCEPT ![a] = 1] /\ UNCHANGED rc
    /\ UNCHANGED <<saved, job, ordinal, live, minted, passed, lost>>

(* verifyOnce, and after it: met, a fix pass within the retries, converged  *)
(* without a change, or another round.                                      *)
Check(a) ==
    /\ HarnessAt(a, "check")
    /\ \E met \in BOOLEAN, err \in BOOLEAN :
        /\ err => ~met
        /\ LET goal == IF err THEN rc.goal ELSE met IN
           IF met THEN StopLoop(a, TRUE)
           ELSE IF adv[a].changed /\ tr.retries < RetryPerRun
             THEN /\ adv' = [adv EXCEPT ![a].pc = "fan", ![a].ret = "drive"]
                  /\ tr' = [tr EXCEPT !.retries = @ + 1] /\ todo' = [todo EXCEPT ![a] = 1]
                  /\ rc' = [rc EXCEPT !.goal = goal]
           ELSE IF ~adv[a].changed /\ Mode # "autopilot" THEN StopLoop(a, FALSE)
           ELSE HarnessGoto(a, "drive") /\ rc' = [rc EXCEPT !.goal = goal] /\ UNCHANGED <<tr, todo>>
    /\ UNCHANGED <<saved, job, ordinal, live, minted, passed, lost>>

(* stageVerify and stageFix: nothing after a loop; one check, one fix pass. *)
VerifyStage(a) ==
    /\ HarnessAt(a, "stage") /\ adv[a].st = Verify
    /\ IF loops /\ rc.rounds > 0 THEN HarnessGoto(a, "after") /\ UNCHANGED rc
       ELSE \/ HarnessGoto(a, "after") /\ \E met \in BOOLEAN : rc' = [rc EXCEPT !.goal = met]
            \/ HarnessGoto(a, "fail") /\ UNCHANGED rc
    /\ UNCHANGED <<saved, tr, workers, passed, lost>>
FixStage(a) ==
    /\ HarnessAt(a, "stage") /\ adv[a].st = Fix
    /\ IF rc.goal \/ (loops /\ rc.rounds > 0) \/ tr.retries >= RetryPerRun
         THEN HarnessGoto(a, "after") /\ UNCHANGED <<tr, todo>>
         ELSE /\ adv' = [adv EXCEPT ![a].pc = "fan", ![a].ret = "fixed", ![a].changed = FALSE]
              /\ tr' = [tr EXCEPT !.retries = @ + 1] /\ todo' = [todo EXCEPT ![a] = 1]
    /\ UNCHANGED <<rc, saved, job, ordinal, live, minted, passed, lost>>
Fixed(a) ==
    /\ HarnessAt(a, "fixed") /\ HarnessGoto(a, "after")
    /\ \/ UNCHANGED rc
       \/ \E met \in BOOLEAN : rc' = [rc EXCEPT !.goal = met]
    /\ UNCHANGED <<saved, tr, workers, passed, lost>>
SettleStage(a) ==
    /\ HarnessAt(a, "stage") /\ adv[a].st = Settle
    /\ HarnessGoto(a, "after") /\ rc' = [rc EXCEPT !.status = "done"]
    /\ UNCHANGED <<saved, tr, workers, passed, lost>>

(* The cursor moves on, and the state is copied and then saved outside the  *)
(* lock.  (Mutated form: the copy is taken before the cursor moves.)        *)
AfterStale(a) ==
    /\ HarnessAt(a, "after") /\ rc' = [rc EXCEPT !.stage = nextStage(adv[a].st)]
    /\ adv' = [adv EXCEPT ![a].pc = "save", ![a].ret = "loop", ![a].snap = Snap(rc)]
    /\ UNCHANGED <<saved, tr, workers, passed, lost>>
After(a) ==
    /\ HarnessAt(a, "after") /\ rc' = [rc EXCEPT !.stage = nextStage(adv[a].st)]
    /\ adv' = [adv EXCEPT ![a].pc = "save", ![a].ret = "loop", ![a].snap = Snap(rc')]
    /\ UNCHANGED <<saved, tr, workers, passed, lost>>
Save(a) ==
    /\ HarnessAt(a, "save")
    /\ \/ /\ saved' = adv[a].snap /\ UNCHANGED lost
          /\ adv' = [adv EXCEPT ![a].pc = adv[a].ret, ![a].snap = None]
       \/ /\ adv' = [adv EXCEPT ![a].pc = IF adv[a].ret = "loop" THEN "fail" ELSE "idle", ![a].snap = None]
          /\ lost' = TRUE /\ UNCHANGED saved
    /\ UNCHANGED <<rc, tr, workers, passed>>
Ends(a, pc, status) ==
    /\ HarnessAt(a, pc) /\ rc' = [rc EXCEPT !.status = status]
    /\ adv' = [adv EXCEPT ![a].pc = "save", ![a].ret = "idle", ![a].snap = Snap(rc')]
    /\ UNCHANGED <<saved, tr, workers, passed, lost>>
Finish(a) == Ends(a, "finish", "done")
Fail(a) == Ends(a, "fail", "failed")

-----------------------------------------------------------------------------
(* Fan starts a goroutine per task while the semaphore has room; once the   *)
(* context is cancelled it may stop starting.  It returns when all ended.   *)
(* (Mutated form: it returns as soon as it was cancelled.)                  *)
Busy(a) == {t \in Tasks : job[a][t].pc \notin {"none", "done"}}
Launch(a) ==
    /\ HarnessAt(a, "fan") /\ todo[a] <= NTasks
    /\ \/ /\ Cardinality(Busy(a)) < Width
          /\ job' = [job EXCEPT ![a][todo[a]] = [pc |-> "guard", n |-> 0]]
          /\ todo' = [todo EXCEPT ![a] = @ + 1]
       \/ adv[a].ctx = "cancelled" /\ todo' = [todo EXCEPT ![a] = NTasks + 1] /\ UNCHANGED job
    /\ UNCHANGED <<rc, saved, tr, adv, ordinal, live, minted, passed, lost>>
Wait(a) == Busy(a) = {}
Join(a) ==
    /\ HarnessAt(a, "fan") /\ todo[a] > NTasks /\ Wait(a) /\ HarnessGoto(a, adv[a].ret)
    /\ job' = [job EXCEPT ![a] = [t \in Tasks |-> IF t \in Busy(a) THEN job[a][t] ELSE NoJob]]
    /\ UNCHANGED <<rc, saved, tr, todo, ordinal, live, minted, passed, lost>>

JobAt(a, t, pc) == job[a][t].pc = pc /\ UNCHANGED <<rc, saved, tr, todo, outside, passed, lost>>
JobGoes(a, t, pc) == job' = [job EXCEPT ![a][t].pc = pc]

(* runOne: the spawn is authorized, an ordinal reserved and an identity     *)
(* minted; whatever the worker does, it is retired before it is reported.   *)
Ordinal == ordinal
Spawn(a, t) ==
    /\ JobAt(a, t, "guard")
    /\ \/ /\ job' = [job EXCEPT ![a][t] = [pc |-> "mint", n |-> Ordinal]] /\ ordinal' = ordinal + 1
       \/ JobGoes(a, t, "done") /\ UNCHANGED ordinal
    /\ UNCHANGED <<adv, live, minted>>
Mint(a, t) ==
    /\ JobAt(a, t, "mint")
    /\ \/ JobGoes(a, t, "run") /\ live' = live \cup {<<a, t, job[a][t].n>>}
       \/ JobGoes(a, t, "done") /\ UNCHANGED live
    /\ UNCHANGED <<adv, ordinal, minted>>
Work(a, t) ==
    /\ JobAt(a, t, "run")
    /\ live' = live \ {<<a, t, job[a][t].n>>}
    /\ \/ JobGoes(a, t, "record") /\ \E ok \in BOOLEAN : adv' = [adv EXCEPT ![a].changed = @ \/ ok]
       \/ JobGoes(a, t, "done") /\ UNCHANGED adv            \* no sandbox
    /\ UNCHANGED <<ordinal, minted>>
Record(a, t) ==
    /\ JobAt(a, t, "record") /\ JobGoes(a, t, "done") /\ minted' = minted \cup {job[a][t].n}
    /\ UNCHANGED <<adv, ordinal, live>>

-----------------------------------------------------------------------------
(* Cancel: the guard, the status and the cancel function in one critical    *)
(* section; then it saves a copy like everyone else.                        *)
Cancel ==
    /\ can.pc = "idle" /\ cancels < MaxCancels /\ cancels' = cancels + 1
    /\ rc' = [rc EXCEPT !.stopped = TRUE, !.status = "cancelled"]
    /\ adv' = [a \in Advancers |-> IF a = rc.cancel THEN [adv[a] EXCEPT !.ctx = "cancelled"] ELSE adv[a]]
    /\ can' = [pc |-> "snap", snap |-> None]
    /\ UNCHANGED <<saved, tr, workers, cosigned, calls, passed, lost>>
CancelSnap ==
    /\ can.pc = "snap" /\ can' = [pc |-> "save", snap |-> Snap(rc)]
    /\ UNCHANGED <<rc, saved, tr, adv, workers, cosigned, calls, cancels, passed, lost>>
CancelSave ==
    /\ can.pc = "save" /\ can' = [pc |-> "idle", snap |-> None] /\ saved' = can.snap
    /\ UNCHANGED <<rc, tr, adv, workers, cosigned, calls, cancels, passed, lost>>
Cosign ==
    /\ ~cosigned /\ cosigned' = TRUE
    /\ UNCHANGED <<rc, saved, tr, adv, workers, can, calls, cancels, passed, lost>>

AdvanceStep(a) ==
    \/ Enter(a) \/ HarnessLoop(a) \/ Think(a) \/ Approve(a) \/ ExecuteStage(a) \/ Drive(a) \/ Check(a)
    \/ VerifyStage(a) \/ FixStage(a) \/ Fixed(a) \/ SettleStage(a) \/ After(a) \/ Save(a)
    \/ Finish(a) \/ Fail(a) \/ Launch(a) \/ Join(a)
JobStep(a, t) == Spawn(a, t) \/ Mint(a, t) \/ Work(a, t) \/ Record(a, t)
HarnessNext ==
    \/ \E a \in Advancers : HarnessCall(a) \/ AdvanceStep(a) \/ \E t \in Tasks : JobStep(a, t)
    \/ Cancel \/ CancelSnap \/ CancelSave \/ Cosign

-----------------------------------------------------------------------------
(* Workers never exceed the fan-out, and the tracker its budget.            *)
TypeOK ==
    /\ \A a \in Advancers : Cardinality(Busy(a)) <= Width
    /\ tr.retries <= RetryPerRun /\ (LoopRounds > 0 => tr.rounds <= LoopRounds)

(* A high-risk run mints no worker before its co-signature was seen,        *)
(* however often Advance is called again (stageApprove, Advance).           *)
GateKept == HighRisk /\ (live # {} \/ minted # {}) => passed

(* When Advance returns, or goes on to another stage, every worker it       *)
(* started was retired, and no two workers ever share a name (Fan,          *)
(* runOne, nextOrdinal).                                                    *)
WorkersRetired ==
    /\ \A w \in live : adv[w[1]].pc = "fan"
    /\ \A a, e \in Advancers, t, u \in Tasks :
        job[a][t].pc \in {"run", "record"} /\ job[e][u].pc \in {"run", "record"}
            /\ <<a, t>> # <<e, u>> => job[a][t].n # job[e][u].n

(* Until a save fails or the run is cancelled, no stage starts before the   *)
(* move to it was saved, so that a crash resumes at the stage it was in     *)
(* (Advance persists after each stage).                                     *)
SavedFirst ==
    ~lost /\ ~rc.stopped => \A a \in Advancers : adv[a].pc \in {"stage", "fan", "drive", "check"} => saved.stage = rc.stage

HarnessHolds == GateKept /\ WorkersRetired /\ SavedFirst

(* The cursor of a run with one driver never moves back.                    *)
Forward == Cardinality(Advancers) = 1 => rc'.stage >= rc.stage

(* "so the run cannot silently resume": a run that was cancelled is not     *)
(* running, and never completes.                                            *)
CancelSticks == rc.stopped => rc.status \notin {"running", "done"}

(* Advance returns: the driver's loop ends, whatever the rounds do (Drive). *)
Driving(a) == adv[a].pc # "idle"

-----------------------------------------------------------------------------
(***************************************************************************)
(* The orchestrator's MCP server (mcp/orchestrator): every tool call is    *)
(* decided and recorded by the harness governor before its handler runs;   *)
(* call_agent starts background jobs whose outcome background_output       *)
(* reports, the task store keeps the tasks of a session, edit changes one  *)
(* occurrence of a text in a file.                                         *)
(*                                                                         *)
(* The MCP server runs handlers concurrently (McpLink), so each call here  *)
(* is a process.  bgJobs.get hands out a pointer that is read after its    *)
(* lock is released, while finish writes the job's three fields: a read    *)
(* that overlaps the write sees any mixture of old and new values.         *)
(***************************************************************************)
CONSTANTS
  Ask,         \* call |-> [tool, job, fails, after, task, fields, mark]
  Outcome,      \* tool |-> what the policy decides: "allow", "cosign", "deny"
  Fields,       \* fields of a task: status, title, body
  Marks,        \* texts of the file, each occurring once at the start
  MaxAuditFails \* bound on failing appends of the audit log

VARIABLES
  step,      \* call |-> where its goroutine is
  ledger,  \* decisions on record: [call, outcome]
  unrecorded, \* calls whose append failed (the error is dropped)
  jobs,    \* job |-> [state, done, err]: the bgJob and the writer's progress
  seen,    \* output call |-> [settled, done]: what it has read so far
  told,    \* output call |-> set holding its answer
  tasks,   \* task |-> field |-> last value, 0 when never set
  acked,   \* history: task updates acknowledged, in order
  file,    \* the file edit works on: texts still present
  buf,     \* edit call |-> set holding the body it has read
  edited,  \* history: edits acknowledged, in order
  overlap, \* history: edits that overlapped another edit
  auditFails

delegateVars == <<step, ledger, unrecorded, jobs, seen, told, tasks, acked, file, buf, edited, overlap, auditFails>>

Calls == DOMAIN Ask
Is(c, tool) == Ask[c].tool = tool
Jobs == {Ask[c].job : c \in {c \in Calls : Is(c, "call_agent")}}
TasksOf == {Ask[c].task : c \in {c \in Calls : Is(c, "task_update")}}

DelegateInit ==
  /\ step = [c \in Calls |-> "start"]
  /\ ledger = <<>> /\ unrecorded = {}
  /\ jobs = [j \in Jobs |-> [state |-> "none", done |-> FALSE, err |-> FALSE]]
  /\ seen = [c \in Calls |-> [settled |-> FALSE, done |-> FALSE]]
  /\ told = [c \in Calls |-> {}]
  /\ tasks = [t \in TasksOf |-> [f \in Fields |-> 0]]
  /\ acked = <<>> /\ file = Marks
  /\ buf = [c \in Calls |-> {}]
  /\ edited = <<>> /\ overlap = {} /\ auditFails = 0

DelegateGoto(c, where) == step' = [step EXCEPT ![c] = where]
DelegateAt(c, tool, where) == Is(c, tool) /\ step[c] = where

(* A call may follow another by intent (poll after start).                 *)
Arrives(c) == \A d \in Ask[c].after : step[d] \notin {"start", "decided", "handler"}

(* Governor.Guard: decide, and emit the decision whatever it is.  An       *)
(* append that fails is dropped.                                           *)
Emits(c) == TRUE

Guard(c) ==
  /\ step[c] = "start" /\ Arrives(c)
  /\ \/ /\ ledger' = IF Emits(c) THEN Append(ledger, [call |-> c, outcome |-> Outcome[Ask[c].tool]]) ELSE ledger
        /\ UNCHANGED <<unrecorded, auditFails>>
     \/ /\ auditFails < MaxAuditFails
        /\ auditFails' = auditFails + 1
        /\ unrecorded' = unrecorded \cup {c}
        /\ UNCHANGED ledger
  /\ DelegateGoto(c, "decided")
  /\ UNCHANGED <<jobs, seen, told, tasks, acked, file, buf, edited, overlap>>

(* Server.govern: an allowed call reaches its handler; the others are      *)
(* answered with the reason.  (Mutated form: a call that needs a co-sign   *)
(* is let through.)                                                        *)
PassesCosign(c) == Outcome[Ask[c].tool] # "deny"
Passes(c) == Outcome[Ask[c].tool] = "allow"

govern(c) ==
  /\ step[c] = "decided"
  /\ DelegateGoto(c, IF Passes(c) THEN "handler" ELSE "refused")
  /\ UNCHANGED <<ledger, unrecorded, jobs, seen, told, tasks, acked, file, buf, edited, overlap, auditFails>>

-----------------------------------------------------------------------------
(* toolCallAgent with background set: the job is entered before the        *)
(* goroutine starts and before the id is answered.                         *)
toolCallAgent(c) ==
  /\ DelegateAt(c, "call_agent", "handler")
  /\ jobs' = [jobs EXCEPT ![Ask[c].job] = [state |-> "running", done |-> FALSE, err |-> FALSE]]
  /\ DelegateGoto(c, "answered")
  /\ UNCHANGED <<ledger, unrecorded, seen, told, tasks, acked, file, buf, edited, overlap, auditFails>>

(* bgJobs.finish writes the fields under its lock: it begins, and is over. *)
FinishBegin(c) ==
  /\ Is(c, "call_agent") /\ jobs[Ask[c].job].state = "running"
  /\ jobs' = [jobs EXCEPT ![Ask[c].job].state = "writing"]
  /\ UNCHANGED <<step, ledger, unrecorded, seen, told, tasks, acked, file, buf, edited, overlap, auditFails>>

Finished(c) == [state |-> "settled", done |-> TRUE, err |-> Ask[c].fails]

finish(c) ==
  /\ Is(c, "call_agent") /\ jobs[Ask[c].job].state = "writing"
  /\ jobs' = [jobs EXCEPT ![Ask[c].job] = Finished(c)]
  /\ UNCHANGED <<step, ledger, unrecorded, seen, told, tasks, acked, file, buf, edited, overlap, auditFails>>

(* Values a read of a field may return: while finish writes, either one.   *)
DoneSeen(j) == IF jobs[j].state = "writing" THEN BOOLEAN ELSE {jobs[j].done}
ErrSeen(j, fails) == IF jobs[j].state = "writing" THEN {FALSE, fails} ELSE {jobs[j].err}

Starter(j) == CHOOSE c \in Calls : Is(c, "call_agent") /\ Ask[c].job = j

(* toolBackgroundOutput: get, under the lock, returns the pointer ...      *)
get(c) ==
  /\ DelegateAt(c, "background_output", "handler")
  /\ jobs[Ask[c].job].state \in {"running", "settled"}
  /\ seen' = [seen EXCEPT ![c].settled = (jobs[Ask[c].job].state = "settled")]
  /\ DelegateGoto(c, "got")
  /\ UNCHANGED <<ledger, unrecorded, jobs, told, tasks, acked, file, buf, edited, overlap, auditFails>>

(* ... and the fields are read without it: done first ...                  *)
ReadDone(c) ==
  /\ DelegateAt(c, "background_output", "got")
  /\ \E d \in DoneSeen(Ask[c].job) : seen' = [seen EXCEPT ![c].done = d]
  /\ DelegateGoto(c, "done read")
  /\ UNCHANGED <<ledger, unrecorded, jobs, told, tasks, acked, file, buf, edited, overlap, auditFails>>

(* ... then the error.                                                     *)
Answer(c) ==
  /\ DelegateAt(c, "background_output", "done read")
  /\ LET j == Ask[c].job IN
     \E e \in ErrSeen(j, Ask[Starter(j)].fails) :
       told' = [told EXCEPT ![c] = {IF ~seen[c].done THEN "running" ELSE IF e THEN "error" ELSE "done"}]
  /\ DelegateGoto(c, "answered")
  /\ UNCHANGED <<ledger, unrecorded, jobs, seen, tasks, acked, file, buf, edited, overlap, auditFails>>

-----------------------------------------------------------------------------
(* taskStore.update: the fields given replace the ones stored, the others  *)
(* stay.                                                                   *)
Merged(old, new) == [f \in Fields |-> IF new[f] # 0 THEN new[f] ELSE old[f]]

update(c) ==
  /\ DelegateAt(c, "task_update", "handler")
  /\ tasks' = [tasks EXCEPT ![Ask[c].task] = Merged(@, Ask[c].fields)]
  /\ acked' = Append(acked, c)
  /\ DelegateGoto(c, "answered")
  /\ UNCHANGED <<ledger, unrecorded, jobs, seen, told, file, buf, edited, overlap, auditFails>>

(* toolEdit reads the file; the text must occur exactly once.              *)
EditRead(c) ==
  /\ DelegateAt(c, "edit", "handler")
  /\ IF Ask[c].mark \in file
     THEN buf' = [buf EXCEPT ![c] = {file}] /\ DelegateGoto(c, "editing")
     ELSE buf' = buf /\ DelegateGoto(c, "refused")
  /\ LET others == {d \in Calls \ {c} : step[d] = "editing"}
     IN overlap' = IF others = {} \/ Ask[c].mark \notin file THEN overlap ELSE overlap \cup others \cup {c}
  /\ UNCHANGED <<ledger, unrecorded, jobs, seen, told, tasks, acked, file, edited, auditFails>>

(* ... and writes the body it read with that occurrence replaced.          *)
Replaced(c) == (CHOOSE b \in buf[c] : TRUE) \ {Ask[c].mark}

EditWrite(c) ==
  /\ DelegateAt(c, "edit", "editing")
  /\ file' = Replaced(c)
  /\ edited' = Append(edited, c)
  /\ DelegateGoto(c, "answered")
  /\ UNCHANGED <<ledger, unrecorded, jobs, seen, told, tasks, acked, buf, overlap, auditFails>>

DelegateNext == \E c \in Calls :
  \/ Guard(c) \/ govern(c) \/ toolCallAgent(c) \/ FinishBegin(c) \/ finish(c)
  \/ get(c) \/ ReadDone(c) \/ Answer(c) \/ update(c) \/ EditRead(c) \/ EditWrite(c)

DelegateSpec == DelegateInit /\ [][DelegateNext]_delegateVars

-----------------------------------------------------------------------------
(* What a handler changed, it changed for a call the policy allows, and    *)
(* the decision is on record unless its append failed (govern, Guard).     *)
GovernedCalls ==
  \A c \in Calls : step[c] \notin {"start", "decided", "refused"} =>
     /\ Outcome[Ask[c].tool] = "allow"
     /\ c \in unrecorded \/ [call |-> c, outcome |-> "allow"] \in ToSet(ledger)

(* A poll that fetched the job after it had finished reports how it ended; *)
(* no poll reports an end of a job that is still running.                  *)
SettledTrue ==
  \A c \in Calls : Is(c, "background_output") /\ told[c] # {} =>
     LET j == Ask[c].job IN
     /\ seen[c].settled => told[c] = {IF Ask[Starter(j)].fails THEN "error" ELSE "done"}
     /\ told[c] # {"running"} => jobs[j].state \in {"writing", "settled"}

(* Tasks hold the last value each acknowledged update gave to each field.  *)
UpdatesKept ==
  \A t \in TasksOf, f \in Fields :
     LET sets == SelectSeq(acked, LAMBDA c : Ask[c].task = t /\ Ask[c].fields[f] # 0)
     IN tasks[t][f] = IF sets = <<>> THEN 0 ELSE Ask[Last(sets)].fields[f]

(* While no two edits have overlapped, the file is what the acknowledged   *)
(* edits make of it: nothing else is touched.                              *)
EditsKept == overlap = {} => file = Marks \ {Ask[edited[i]].mark : i \in DOMAIN edited}

DelegateHolds == GovernedCalls /\ SettledTrue /\ UpdatesKept /\ EditsKept

-----------------------------------------------------------------------------
(* Steering a running agent: the sender of one envelope                     *)
(* (cmd/meshmcp/air.go, air/steer.go), the agent's steer inbox with its two *)
(* audit records (cmd/meshmcp/steerinbox.go), and the agent's loop that     *)
(* takes an envelope between two scripted steps (cmd/meshmcp/agent.go).     *)
CONSTANTS
    Steers,       \* sender -> [type : "task", "nudge", "cancel", "bad"; target : "", "task", "agent"]
    Buffer,       \* capacity of the steer channel
    Count,        \* scripted calls the agent makes
    AuditFails    \* an append to the audit log may fail

VARIABLES
    snd,          \* each sender: "new", "waiting", or what it was told
    box,          \* each connection's goroutine: [pc, enq, ack]
    closing,      \* steerAckSink.closing
    trail,        \* the audit log: <<sender, method, decision>>
    chan,         \* the steer channel
    taken,        \* all envelopes the loop received, in order
    agent,        \* [pc, made, guidance, env]
    agentStopped,      \* the context of the agent has ended
    sub           \* steers and cancels passed on to tasks of the backend

steerVars == <<snd, box, closing, trail, chan, taken, agent, agentStopped, sub>>
loopVars == <<taken, agent, sub>>

Senders == DOMAIN Steers
Told == {"delivered", "rejected", "unavailable", "unknown"}

SteerInit ==
    /\ snd = [i \in Senders |-> "new"]
    /\ box = [i \in Senders |-> [pc |-> "read", enq |-> FALSE, ack |-> "none"]]
    /\ closing = {} /\ trail = <<>> /\ chan = <<>> /\ taken = <<>>
    /\ agent = [pc |-> "call", made |-> 0, guidance |-> 0] /\ agentStopped = FALSE /\ sub = {}

(* Validate: of this only that an envelope may be malformed is kept; such   *)
(* a one never leaves our own sender (WriteEnvelope).                       *)
Valid(e) == e.type # "bad"

Send(i) ==
    /\ snd[i] = "new"
    /\ snd' = [snd EXCEPT ![i] = "waiting"]
    /\ UNCHANGED <<box, closing, trail, chan, loopVars, agentStopped>>

(* The sender's deadline: its session ends, and the inbox closes the sink.  *)
GiveUp(i) ==
    /\ snd[i] = "waiting"
    /\ snd' = [snd EXCEPT ![i] = "unknown"]
    /\ closing' = closing \cup {i}
    /\ UNCHANGED <<box, trail, chan, loopVars, agentStopped>>

-----------------------------------------------------------------------------
(* appendAudit, which may fail.                                              *)
Appended(i, method, decision) == trail' = Append(trail, <<i, method, decision>>)
NotAppended == AuditFails /\ UNCHANGED trail
Steps(i, pc, ack) == box' = [box EXCEPT ![i].pc = pc, ![i].ack = ack]

(* The first phase: the envelope is checked, and its authorization is on    *)
(* record before anything else happens.                                     *)
(* (Mutated form: a record that cannot be written stops nothing.)           *)
AuthorizeLoose(i) ==
    /\ box[i].pc = "read" /\ snd[i] # "new"
    /\ Appended(i, "authorize", IF Valid(Steers[i]) THEN "allow" ELSE "deny") \/ NotAppended
    /\ IF Valid(Steers[i]) THEN Steps(i, "offer", "none") ELSE Steps(i, "reply", "rejected")
    /\ UNCHANGED <<snd, closing, chan, loopVars, agentStopped>>
Authorize(i) ==
    /\ box[i].pc = "read" /\ snd[i] # "new"
    /\ \/ ~Valid(Steers[i]) /\ Appended(i, "authorize", "deny") /\ Steps(i, "reply", "rejected")
       \/ Valid(Steers[i]) /\ Appended(i, "authorize", "allow") /\ Steps(i, "offer", "none")
       \/ NotAppended /\ Steps(i, "reply", "unavailable")
    /\ UNCHANGED <<snd, closing, chan, loopVars, agentStopped>>

(* The select: room in the channel, the agent stopping, the sink closing.   *)
Offer(i) ==
    /\ box[i].pc = "offer"
    /\ \/ /\ Len(chan) < Buffer
          /\ chan' = Append(chan, i)
          /\ box' = [box EXCEPT ![i].pc = "receipt", ![i].enq = TRUE]
       \/ /\ agentStopped \/ i \in closing
          /\ Steps(i, "receipt", "none")
          /\ UNCHANGED chan
    /\ UNCHANGED <<snd, closing, trail, loopVars, agentStopped>>

(* The second phase: what became of it, and the acknowledgement that says   *)
(* so only when it is on record.                                            *)
Receipt(i) ==
    /\ box[i].pc = "receipt"
    /\ \/ /\ Appended(i, "enqueue", IF box[i].enq THEN "allow" ELSE "deny")
          /\ Steps(i, "reply", IF box[i].enq THEN "delivered" ELSE "rejected")
       \/ NotAppended /\ Steps(i, "reply", "unavailable")
    /\ UNCHANGED <<snd, closing, chan, loopVars, agentStopped>>

(* steerAckSink.enqueue, Read; ReadSteerAck and ValidateFor at the sender.  *)
Reply(i) ==
    /\ box[i].pc = "reply"
    /\ box' = [box EXCEPT ![i].pc = "done"]
    /\ snd' = IF snd[i] = "waiting" THEN [snd EXCEPT ![i] = box[i].ack] ELSE snd
    /\ UNCHANGED <<closing, trail, chan, loopVars, agentStopped>>

-----------------------------------------------------------------------------
SteerLoop(pc) == agent.pc = pc /\ UNCHANGED <<snd, box, closing, trail>>

(* runAgentLoop: a scripted call; at the count it ends, else it selects.    *)
SteerCall ==
    /\ SteerLoop("call")
    /\ agent' = [agent EXCEPT !.made = @ + 1, !.pc = IF agent.made + 1 >= Count THEN "ending" ELSE "select"]
    /\ UNCHANGED <<chan, taken, agentStopped, sub>>

Interval ==
    /\ SteerLoop("select") /\ agent' = [agent EXCEPT !.pc = "call"]
    /\ UNCHANGED <<chan, taken, agentStopped, sub>>

ContextEnds ==
    /\ SteerLoop("select") /\ agentStopped /\ agent' = [agent EXCEPT !.pc = "ending"]
    /\ UNCHANGED <<chan, taken, agentStopped, sub>>

Take ==
    /\ SteerLoop("select") /\ chan # <<>>
    /\ chan' = Tail(chan) /\ taken' = Append(taken, Head(chan))
    /\ agent' = [agent EXCEPT !.pc = "apply"]
    /\ UNCHANGED <<agentStopped, sub>>

(* applySteer and steerTarget: an addressed steer goes to the task it names *)
(* or is ignored; the others stop the agent, set its guidance or make an    *)
(* extra call.                                                               *)
Apply ==
    LET e == Steers[Last(taken)] IN
    /\ SteerLoop("apply")
    /\ IF e.target # ""
         THEN /\ agent' = [agent EXCEPT !.pc = "call"]
              /\ sub' = IF e.target = "task" THEN sub \cup {Last(taken)} ELSE sub
         ELSE /\ agent' = [agent EXCEPT !.pc = IF e.type = "cancel" THEN "ending" ELSE "call",
                                        !.guidance = IF e.type = "nudge" THEN Last(taken) ELSE @]
              /\ UNCHANGED sub
    /\ UNCHANGED <<chan, taken, agentStopped>>

(* The deferred calls of runSteerableAgent end the context.                 *)
Ending ==
    /\ SteerLoop("ending") /\ agent' = [agent EXCEPT !.pc = "ended"]
    /\ agentStopped' = TRUE
    /\ UNCHANGED <<chan, taken, sub>>

Signal ==
    /\ ~agentStopped /\ agentStopped' = TRUE
    /\ UNCHANGED <<snd, box, closing, trail, chan, loopVars>>

Inbox(i) == Authorize(i) \/ Offer(i) \/ Receipt(i) \/ Reply(i)
AgentLoop == SteerCall \/ Interval \/ ContextEnds \/ Take \/ Apply \/ Ending

SteerNext ==
    \/ \E i \in Senders : Send(i) \/ GiveUp(i) \/ Inbox(i)
    \/ AgentLoop \/ Signal

-----------------------------------------------------------------------------
Records(i) == SelectSeq(trail, LAMBDA r : r[1] = i)
InChannel(i) == Contains(chan, i) \/ Contains(taken, i)

(* "an allow record can never be mistaken for proof that the agent channel  *)
(* accepted work" (steerinbox.go:56-58): a sender that was told delivered   *)
(* finds both records and its envelope went into the channel; one that was  *)
(* refused for a reason other than the audit log did not get it in.         *)
ToldTrue ==
    \A i \in Senders :
        /\ snd[i] = "delivered" => Records(i) = << <<i, "authorize", "allow">>, <<i, "enqueue", "allow">> >> /\ InChannel(i)
        /\ snd[i] = "rejected" => ~InChannel(i)
        /\ Contains(Records(i), <<i, "enqueue", "allow">>) => InChannel(i)

(* "an injected instruction must never be unattributable" (agent.go:149):   *)
(* nothing reaches the agent's loop that is not on record as authorized,    *)
(* and nothing twice.                                                        *)
Attributable ==
    /\ \A i \in ToSet(taken) : Contains(trail, <<i, "authorize", "allow">>)
    /\ IsInjective(taken \o chan)

(* "a mis-addressed steer is never silently acted on" (agent.go:291): only  *)
(* an unaddressed cancel or a signal ends the agent before its count, and   *)
(* only an unaddressed nudge is its guidance.                               *)
ActsOnItsOwn ==
    /\ agent.guidance # 0 => Steers[agent.guidance].target = ""
    /\ agent.pc \in {"ending", "ended"} /\ agent.made < Count =>
          agentStopped \/ (Steers[Last(taken)].type = "cancel" /\ Steers[Last(taken)].target = "")

SteeringHolds == ToldTrue /\ Attributable /\ ActsOnItsOwn

=============================================================================
