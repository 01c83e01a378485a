----------------------------- MODULE AgentRuns ------------------------------
(***************************************************************************)
(* Runs that an agent's author wrote down: the graph runner with its       *)
(* checkpoints, budget and labels, and the workflow runner with its        *)
(* launches and clean-up. Each part is a specification of its own, with    *)
(* its own initial state and next-state relation; a behaviour is a         *)
(* behaviour of one of them.                                               *)
(***************************************************************************)
EXTENDS Integers, Sequences, FiniteSets

-----------------------------------------------------------------------------
(* An agent graph run: the bounded loop of cmd/meshmcp/airgraph.go over the *)
(* pure engine of air/graph, every tool call through the egress gateway     *)
(* (air/egress) and every step persisted by air/checkpoint, across crashes, *)
(* I/O failures, parking for a human and resuming.  One process at a time   *)
(* drives the run; what it keeps in memory is lost with it.                 *)
CONSTANTS
    Nodes,           \* node -> [rule, cost, emits, guarded, effect, edges]; see WellFormed
    Entry,
    Results,         \* what a tool can answer, as far as predicates tell
    Goal,            \* the answer Bounds.Converge looks for, or a value that is none
    MaxIterations,
    CostBudget,      \* Bounds.CostBudget; 0 is none
    Budget,          \* the gateway's cap for the run
    MaxApprovals, MaxCrashes, MaxFails, MaxResumes,
    ResumesFinished, \* whether the operator also resumes a run that has ended
    End, NoNode

VARIABLES
    pc,              \* where the driving process is; "down": there is none
    st,              \* GraphState: [cursor, iter, cost, last, labels]
    gw,              \* the per-process gateway: [budget, spent, labels]
    file,            \* the checkpoint: [state, budget, intent, pending], or <<>>
    approvals,       \* unspent request-bound approvals, by node
    granted,         \* all that were ever granted, by node
    fired,           \* executions of a node at an iteration
    ended,           \* the loop has reported done to the operator
    crashes, fails, resumes

graphVars == <<pc, st, gw, file, approvals, granted, fired, ended, crashes, fails, resumes>>

Iterations == 0..(MaxIterations + MaxResumes)
NodeIds == DOMAIN Nodes
AgentGraphWellFormed ==
    \A n \in NodeIds :
        /\ Nodes[n].rule \in {"allow", "deny", "cosign"} /\ Nodes[n].cost \in Nat
        /\ \A i \in DOMAIN Nodes[n].edges : Nodes[n].edges[i].to \in NodeIds \cup {End}

NewState == [cursor |-> Entry, iter |-> 0, cost |-> 0, last |-> "none", labels |-> {}]
NewGateway(b) == [budget |-> b, spent |-> 0, labels |-> {}]

GraphInit ==
    /\ pc = "down" /\ st = NewState /\ gw = NewGateway(Budget) /\ file = <<>>
    /\ approvals = [n \in NodeIds |-> 0] /\ granted = approvals
    /\ fired = [n \in NodeIds |-> [i \in Iterations |-> 0]]
    /\ ended = FALSE /\ crashes = 0 /\ fails = 0 /\ resumes = 0

Here == Nodes[st.cursor]

-----------------------------------------------------------------------------
(* The pure engine.                                                          *)
Reduce(s, answer, labels, cost) ==
    [s EXCEPT !.iter = @ + 1, !.cost = @ + cost, !.last = answer, !.labels = @ \cup labels]

Matches(e, s) == e.when \in {"any", s.last}

FirstEdge(s) ==
    LET es == Nodes[s.cursor].edges
        I == {i \in DOMAIN es : Matches(es[i], s)}
    IN IF I = {} THEN End ELSE es[CHOOSE i \in I : \A j \in I : i <= j].to

(* End stands for every way Step reports done.                              *)
Step(s) ==
    IF s.last = Goal \/ s.iter >= MaxIterations \/ (CostBudget > 0 /\ s.cost >= CostBudget)
    THEN End ELSE FirstEdge(s)

Advanced(s) == IF Step(s) = End THEN s ELSE [s EXCEPT !.cursor = Step(s)]

-----------------------------------------------------------------------------
(* Store.Save, one atomic rename: state, the gateway's cap and the intent   *)
(* replace the checkpoint; or an error leaves it alone and ends the process.*)
Saves(s, b, intent, pending, next) ==
    \/ /\ file' = <<[state |-> s, budget |-> b, intent |-> intent, pending |-> pending]>>
       /\ pc' = next /\ UNCHANGED fails
    \/ /\ fails < MaxFails /\ fails' = fails + 1
       /\ pc' = "down" /\ UNCHANGED file

(* CommitIntent and then a save: either of the two may fail.                *)
CommitsAndSaves(pending) ==
    \/ Saves(st, gw.budget, NoNode, pending, "down")
    \/ /\ fails < MaxFails /\ fails' = fails + 1
       /\ file' = <<[file[1] EXCEPT !.intent = NoNode]>> /\ pc' = "down"

(* graphRunner.start.                                                        *)
Start ==
    /\ pc = "down" /\ file = <<>>
    /\ st' = NewState /\ gw' = NewGateway(Budget)
    /\ Saves(NewState, Budget, NoNode, NoNode, "loop")
    /\ UNCHANGED <<approvals, granted, fired, ended, crashes, resumes>>

(* loadPersistedRun: what is left of the budget.                             *)
Remaining(cp) == IF cp.budget < cp.state.cost THEN 0 ELSE cp.budget - cp.state.cost

(* resume: the gateway is seeded with the persisted labels, and a node whose *)
(* intent is still pending at the cursor is taken as done without being run. *)
Seeds(cp) == [NewGateway(Remaining(cp)) EXCEPT !.labels = cp.state.labels]

Skips(cp) == cp.intent = cp.state.cursor

Resume ==
    /\ pc = "down" /\ file # <<>> /\ resumes < MaxResumes
    /\ ResumesFinished \/ ~ended
    /\ resumes' = resumes + 1
    /\ LET cp == file[1]
           skipped == Reduce(cp.state, "skipped", {}, 0)
       IN /\ gw' = Seeds(cp)
          /\ IF Skips(cp)
             THEN /\ st' = Advanced(skipped)
                  /\ Saves(Advanced(skipped), Remaining(cp), NoNode, NoNode,
                           IF Step(skipped) = End THEN "down" ELSE "loop")
                  /\ ended' = (file' # file /\ Step(skipped) = End)
             ELSE /\ st' = cp.state /\ pc' = "loop"
                  /\ ended' = FALSE
                  /\ \/ file' = <<[cp EXCEPT !.intent = NoNode]>> /\ UNCHANGED fails  \* a stale one
                     \/ fails < MaxFails /\ fails' = fails + 1 /\ UNCHANGED file
    /\ UNCHANGED <<approvals, granted, fired, crashes>>

(* The wall clock at the head of the loop: a resumable stop.                 *)
WallClock ==
    /\ pc = "loop"
    /\ Saves(st, gw.budget, NoNode, NoNode, "down")
    /\ UNCHANGED <<st, gw, approvals, granted, fired, ended, crashes, resumes>>

(* Store.BeginIntent, before the effect of a side-effecting node.            *)
(* (Mutated form: no intent is written.)                                     *)
BeginNoIntent == pc = "loop" /\ pc' = "call"
                 /\ UNCHANGED <<st, gw, file, approvals, granted, fired, ended, crashes, fails, resumes>>
BeginIntent ==
    /\ pc = "loop"
    /\ IF Here.effect
       THEN \/ file' = <<[file[1] EXCEPT !.intent = st.cursor]>> /\ pc' = "call" /\ UNCHANGED fails
            \/ fails < MaxFails /\ fails' = fails + 1 /\ pc' = "down" /\ UNCHANGED file
       ELSE pc' = "call" /\ UNCHANGED <<file, fails>>
    /\ UNCHANGED <<st, gw, approvals, granted, fired, ended, crashes, resumes>>

-----------------------------------------------------------------------------
(* The egress gateway.  DecideToolCallBound sees the labels gathered so far.*)
Verdict == IF Here.guarded /\ gw.labels # {} THEN "deny" ELSE Here.rule

Affords == gw.spent + Here.cost <= gw.budget

(* A call that stops: nothing executed, the intent cleared, the run saved.  *)
Stops ==
    /\ pc = "call"
    /\ \/ Verdict = "deny"
       \/ Verdict = "allow" /\ ~Affords
    /\ CommitsAndSaves(NoNode)
    /\ UNCHANGED <<st, gw, approvals, granted, fired, ended, crashes, resumes>>

(* Held for a human and no approval: parked, bound to this very call.       *)
Parks ==
    /\ pc = "call" /\ Verdict = "cosign" /\ approvals[st.cursor] = 0
    /\ CommitsAndSaves(st.cursor)
    /\ UNCHANGED <<st, gw, approvals, granted, fired, ended, crashes, resumes>>

(* consumeApproval and Gateway.Release: the approval is spent first, and    *)
(* stays spent when the budget then refuses the call.                       *)
(* (Mutated form: the approval is found and not consumed.)                  *)
ReleasesAgain ==
    /\ pc = "call" /\ Verdict = "cosign" /\ approvals[st.cursor] > 0
    /\ IF Affords
       THEN /\ gw' = [gw EXCEPT !.spent = @ + Here.cost] /\ pc' = "exec" /\ UNCHANGED <<file, fails>>
       ELSE /\ CommitsAndSaves(NoNode) /\ UNCHANGED gw
    /\ UNCHANGED <<st, approvals, granted, fired, ended, crashes, resumes>>
Releases ==
    /\ pc = "call" /\ Verdict = "cosign" /\ approvals[st.cursor] > 0
    /\ approvals' = [approvals EXCEPT ![st.cursor] = @ - 1]
    /\ IF Affords
       THEN /\ gw' = [gw EXCEPT !.spent = @ + Here.cost] /\ pc' = "exec" /\ UNCHANGED <<file, fails>>
       ELSE /\ CommitsAndSaves(NoNode) /\ UNCHANGED gw
    /\ UNCHANGED <<st, granted, fired, ended, crashes, resumes>>

Reserves ==
    /\ pc = "call" /\ Verdict = "allow" /\ Affords
    /\ gw' = [gw EXCEPT !.spent = @ + Here.cost] /\ pc' = "exec"
    /\ UNCHANGED <<st, file, approvals, granted, fired, ended, crashes, fails, resumes>>

(* execute(): the tool runs; then it answered, or the call failed after it   *)
(* may have run, and the reserved cost is refunded.                          *)
Execute ==
    /\ pc = "exec"
    /\ fired' = [fired EXCEPT ![st.cursor][st.iter] = @ + 1]
    /\ \/ /\ gw' = [gw EXCEPT !.labels = @ \cup Here.emits]
          /\ pc' = "fold" /\ UNCHANGED fails
       \/ /\ fails < MaxFails /\ fails' = fails + 1
          /\ gw' = [gw EXCEPT !.spent = @ - Here.cost] /\ pc' = "failed"
    /\ UNCHANGED <<st, file, approvals, granted, ended, crashes, resumes>>

(* The audit record of a call that succeeded fails: Call returns an error.  *)
AuditFails ==
    /\ pc = "fold" /\ fails < MaxFails /\ fails' = fails + 1 /\ pc' = "failed"
    /\ UNCHANGED <<st, gw, file, approvals, granted, fired, ended, crashes, resumes>>

(* A call that returned an error, whatever it did: the state before the     *)
(* node is saved with the intent, and the loop ends.                        *)
CallFailed ==
    /\ pc = "failed"
    /\ Saves(st, gw.budget, st.cursor, NoNode, "down")
    /\ UNCHANGED <<st, gw, approvals, granted, fired, ended, crashes, resumes>>

(* The answer folded into the state, the cursor advanced, both saved with   *)
(* the intent in one write.                                                 *)
Fold(answer) ==
    /\ pc = "fold"
    /\ LET s == Reduce(st, answer, Here.emits, Here.cost)
       IN /\ st' = Advanced(s)
          /\ Saves(Advanced(s), gw.budget, IF Here.effect THEN st.cursor ELSE NoNode, NoNode,
                   IF Step(s) = End THEN "done" ELSE "commit")
    /\ UNCHANGED <<gw, approvals, granted, fired, ended, crashes, resumes>>

(* Store.CommitIntent, whose error is dropped; then the next node, or the   *)
(* outcome goes to the operator.                                            *)
Commit ==
    /\ pc \in {"commit", "done"}
    /\ \/ file' = <<[file[1] EXCEPT !.intent = NoNode]>> /\ UNCHANGED fails
       \/ fails < MaxFails /\ fails' = fails + 1 /\ UNCHANGED file
    /\ pc' = IF pc = "done" THEN "report" ELSE "loop"
    /\ UNCHANGED <<st, gw, approvals, granted, fired, ended, crashes, resumes>>

Report ==
    /\ pc = "report" /\ pc' = "down" /\ ended' = TRUE
    /\ UNCHANGED <<st, gw, file, approvals, granted, fired, crashes, fails, resumes>>

-----------------------------------------------------------------------------
Crash ==
    /\ pc # "down" /\ crashes < MaxCrashes
    /\ crashes' = crashes + 1 /\ pc' = "down"
    /\ UNCHANGED <<st, gw, file, approvals, granted, fired, ended, fails, resumes>>

(* A human grants an approval for one exact call.                            *)
Approve(n) ==
    /\ Nodes[n].rule = "cosign" /\ granted[n] < MaxApprovals
    /\ granted' = [granted EXCEPT ![n] = @ + 1] /\ approvals' = [approvals EXCEPT ![n] = @ + 1]
    /\ UNCHANGED <<pc, st, gw, file, fired, ended, crashes, fails, resumes>>

GraphNext ==
    \/ Start \/ Resume \/ WallClock \/ BeginIntent \/ Stops \/ Parks \/ Releases \/ Reserves
    \/ Execute \/ AuditFails \/ CallFailed \/ Commit \/ Report \/ Crash
    \/ \E a \in Results : Fold(a)
    \/ \E n \in NodeIds : Approve(n)

GraphSpec == GraphInit /\ [][GraphNext]_graphVars

-----------------------------------------------------------------------------
TypeOK ==
    /\ pc \in {"down", "loop", "call", "exec", "failed", "fold", "commit", "done", "report"}
    /\ st.cursor \in NodeIds /\ st.iter \in Iterations /\ gw.spent \in Nat
    /\ Len(file) <= 1 /\ \A n \in NodeIds : approvals[n] \in 0..granted[n]

(* A side-effecting node runs at most once at each iteration, through        *)
(* crashes, failed writes, parking and resuming: airgraph.go's intent       *)
(* bracket, "caught on resume and the op is not double-fired".              *)
FiresOnce == \A n \in NodeIds : Nodes[n].effect => \A i \in Iterations : fired[n][i] <= 1

(* The bounds hold over all the processes that drive one run: no more cost *)
(* than the cap, and no more folds than MaxIterations and one for each      *)
(* resume, which takes the node at the cursor before it asks Step.          *)
StaysBounded ==
    /\ st.iter <= MaxIterations + resumes
    /\ st.cost <= Budget /\ (pc # "down" => gw.spent <= gw.budget)

(* A node that needs a human runs no oftener than humans approved it, also  *)
(* when the process dies between spending the approval and the call.        *)
RunsApproved ==
    \A n \in NodeIds : Nodes[n].rule = "cosign" =>
        LET runs[i \in Iterations] == fired[n][i] + (IF i = 0 THEN 0 ELSE runs[i - 1])
        IN runs[MaxIterations + MaxResumes] <= granted[n]

(* No guarded node is about to run once the saved run carries a label:      *)
(* "a label emitted before the park/crash still blocks a later egress       *)
(* decision" (airgraph.go), for every label the checkpoint holds.           *)
TaintBlocks == pc = "exec" /\ Here.guarded => file[1].state.labels = {}

GraphHolds == FiresOnce /\ StaysBounded /\ RunsApproved /\ TaintBlocks

(* A resumed process has what the run has left: "the run's original budget  *)
(* minus the cost already mirrored into state" (airgraph_cli.go).           *)
BudgetHonoured == pc = "loop" /\ resumes > 0 => gw.budget - gw.spent = Budget - st.cost

-----------------------------------------------------------------------------
(***************************************************************************)
(* `meshmcp air workflow`: a file of steps, validated when it is loaded,   *)
(* run one after the other (cmd/meshmcp/airworkflow.go, air/workflow.go).  *)
(* A step launches an agent, steers one or calls a tool; a parallel step   *)
(* does several of these at once.  A step may keep its result under a name *)
(* and later steps refer to it.                                            *)
(***************************************************************************)
CONSTANTS
  Steps,        \* sequence of sets of [id, kind, refs, as]: more than one member = a parallel step
  OnError,      \* "stop" or "continue"
  Cleanup,      \* "stop" or "keep"
  maxWorkflowLaunches, MaxFaults, Unnamed

VARIABLES
  flowPc, at,
  task,      \* id -> [pc, sent, ok]
  captured,      \* the names captured so far
  pids,      \* the launches recorded, of these stopLaunched has a copy
  reserved,
  alive,     \* the agents that run
  used,      \* history: id -> the references that were expanded when it ran
  report,    \* id -> TRUE or FALSE, for the steps that ran
  result,    \* how the command ends
  faults

workflowVars == <<flowPc, at, task, captured, pids, reserved, alive, used, report, result, faults>>

All == UNION {Steps[i] : i \in DOMAIN Steps}
NotRun == [pc |-> "idle", sent |-> 0, ok |-> FALSE]
Fault == faults < MaxFaults /\ faults' = faults + 1

(***************************************************************************)
(* Validate: a reference names something captured by an earlier step.      *)
(* Children of a parallel step do not see each other.                      *)
(* (Mutated form: they do.)                                                *)
(***************************************************************************)
CapturedSiblings(i) == {s.as : s \in UNION {Steps[k] : k \in 1 .. i}} \ {Unnamed}

CapturedBefore(i) == {s.as : s \in UNION {Steps[k] : k \in 1 .. i - 1}} \ {Unnamed}

Validate == \A i \in DOMAIN Steps : \A s \in Steps[i] : s.refs \subseteq CapturedBefore(i)

Load ==
  /\ flowPc = "load"
  /\ IF Validate THEN flowPc' = "run" /\ at' = 1 /\ UNCHANGED result
     ELSE flowPc' = "ended" /\ result' = "invalid" /\ UNCHANGED at
  /\ UNCHANGED <<task, captured, pids, reserved, alive, used, report, faults>>

(* execStep: the variables are copied, then the step does its work. *)
Begin(s) ==
  /\ flowPc = "run" /\ at <= Len(Steps) /\ s \in Steps[at] /\ task[s.id].pc = "idle"
  /\ used' = [used EXCEPT ![s.id] = s.refs \cap captured]
  /\ task' = [task EXCEPT ![s.id].pc = s.kind]
  /\ UNCHANGED <<flowPc, at, captured, pids, reserved, alive, report, result, faults>>

(* runOne: the outcome, and on success the captured value. *)
Finish(s, ok) ==
  /\ task' = [task EXCEPT ![s.id] = [@ EXCEPT !.pc = "done", !.ok = ok]]
  /\ captured' = IF ok THEN captured \cup ({s.as} \ {Unnamed}) ELSE captured
  /\ report' = [report EXCEPT ![s.id] = IF ok THEN "ok" ELSE "failed"]

(***************************************************************************)
(* Launch: the slot is reserved before the process is started and given    *)
(* back when it does not start.                                            *)
(***************************************************************************)
ReserveLaunch(s) ==
  /\ task[s.id].pc = "launch"
  /\ IF reserved >= maxWorkflowLaunches THEN Finish(s, FALSE) /\ UNCHANGED reserved
     ELSE task' = [task EXCEPT ![s.id].pc = "spawn"] /\ reserved' = reserved + 1 /\ UNCHANGED <<captured, report>>
  /\ UNCHANGED <<flowPc, at, pids, alive, used, result, faults>>

SpawnAgent(s) ==
  /\ task[s.id].pc = "spawn"
  /\ \/ /\ alive' = alive \cup {s.id} /\ task' = [task EXCEPT ![s.id].pc = "record"]
        /\ UNCHANGED <<reserved, faults, captured, report>>
     \/ Fault /\ reserved' = reserved - 1 /\ Finish(s, FALSE) /\ UNCHANGED alive
  /\ UNCHANGED <<flowPc, at, pids, used, result>>

RecordLaunch(s) ==
  /\ task[s.id].pc = "record"
  /\ pids' = pids \cup {s.id} /\ Finish(s, TRUE)
  /\ UNCHANGED <<flowPc, at, reserved, alive, used, result, faults>>

(***************************************************************************)
(* A steer is posted.  It may not get through, or its answer may be lost;  *)
(* either is a connection error and retryConn posts again until its time   *)
(* is up.  An answer of the peer, also a refusal, ends the step.           *)
(***************************************************************************)
Post(s) ==
  /\ task[s.id].pc = "steer"
  /\ \/ task' = [task EXCEPT ![s.id] = [@ EXCEPT !.sent = @ + 1, !.pc = "answered"]] /\ UNCHANGED <<faults, captured, report>>
     \/ Fault /\ task' = [task EXCEPT ![s.id].pc = "retry"] /\ UNCHANGED <<captured, report>>
     \/ Fault /\ task' = [task EXCEPT ![s.id] = [@ EXCEPT !.sent = @ + 1, !.pc = "retry"]] /\ UNCHANGED <<captured, report>>
     \/ Fault /\ Finish(s, FALSE)
  /\ UNCHANGED <<flowPc, at, pids, reserved, alive, used, result>>

(***************************************************************************)
(* A call: dialling and the handshake are retried, the call itself is not. *)
(***************************************************************************)
CallTool(s) ==
  /\ task[s.id].pc = "call"
  /\ \/ task' = [task EXCEPT ![s.id] = [@ EXCEPT !.sent = @ + 1, !.pc = "answered"]] /\ UNCHANGED <<faults, captured, report>>
     \/ Fault /\ task' = [task EXCEPT ![s.id].pc = "retry"] /\ UNCHANGED <<captured, report>>
     \/ Fault /\ Finish(s, FALSE)
     \/ Fault /\ task' = [task EXCEPT ![s.id] = [pc |-> "done", sent |-> @.sent + 1, ok |-> FALSE]]
        /\ report' = [report EXCEPT ![s.id] = "failed"] /\ UNCHANGED captured
  /\ UNCHANGED <<flowPc, at, pids, reserved, alive, used, result>>

(* The back-off, and the cap or the step's own deadline. *)
RetryConn(s) ==
  /\ task[s.id].pc = "retry"
  /\ \/ task' = [task EXCEPT ![s.id].pc = s.kind] /\ UNCHANGED <<captured, report>>
     \/ Finish(s, FALSE)
  /\ UNCHANGED <<flowPc, at, pids, reserved, alive, used, result, faults>>

Answered(s) ==
  /\ task[s.id].pc = "answered" /\ Finish(s, TRUE)
  /\ UNCHANGED <<flowPc, at, pids, reserved, alive, used, result, faults>>

(***************************************************************************)
(* runSteps: once every child is done (wg.Wait), on to the next step; a    *)
(* failure ends the run unless the workflow continues on errors.           *)
(***************************************************************************)
Waited == \A s \in Steps[at] : task[s.id].pc = "done"

Failed(i) == \E s \in Steps[i] : task[s.id].pc = "done" /\ ~task[s.id].ok

RunSteps ==
  /\ flowPc = "run" /\ at <= Len(Steps) /\ Waited
  /\ result' = IF Failed(at) THEN "error" ELSE result
  /\ at' = IF Failed(at) /\ OnError # "continue" THEN Len(Steps) + 1 ELSE at + 1
  /\ UNCHANGED <<flowPc, task, captured, pids, reserved, alive, used, report, faults>>

(* stopLaunched kills what was recorded; then the command returns. *)
StopLaunched ==
  /\ flowPc = "run" /\ at > Len(Steps)
  /\ flowPc' = "ended"
  /\ alive' = IF Cleanup = "stop" THEN alive \ pids ELSE alive
  /\ UNCHANGED <<at, task, captured, pids, reserved, used, report, result, faults>>

FlowInit ==
  /\ flowPc = "load" /\ at = 0 /\ captured = {} /\ pids = {} /\ reserved = 0 /\ alive = {} /\ result = "ok" /\ faults = 0
  /\ task = [k \in {s.id : s \in All} |-> NotRun]
  /\ used = [k \in {s.id : s \in All} |-> {}]
  /\ report = [k \in {s.id : s \in All} |-> "none"]

FlowNext ==
  \/ Load \/ RunSteps \/ StopLaunched
  \/ \E s \in All : \/ Begin(s) \/ ReserveLaunch(s) \/ SpawnAgent(s) \/ RecordLaunch(s)
                    \/ Post(s) \/ CallTool(s) \/ RetryConn(s) \/ Answered(s)

FlowSpec == FlowInit /\ [][FlowNext]_workflowVars

(***************************************************************************)
(* The backstop holds also when parallel steps launch together: never more *)
(* agents at work than the cap.  And a workflow with cleanup leaves none   *)
(* of them behind, however it ends.                                        *)
(***************************************************************************)
NoneLeftBehind ==
  /\ Cardinality(alive) <= maxWorkflowLaunches
  /\ flowPc = "ended" /\ Cleanup = "stop" => alive = {}

(***************************************************************************)
(* A tool is called at most once per step, and the report agrees with what *)
(* happened: a step reported ok did its work, the run is "ok" only when    *)
(* every step ran and is reported ok, and with on_error stop nothing runs  *)
(* after a failed step.                                                    *)
(***************************************************************************)
ReportTrue ==
  /\ \A s \in All : s.kind = "call" => task[s.id].sent <= 1
  /\ \A s \in All : report[s.id] = "ok" => IF s.kind = "launch" THEN s.id \in pids ELSE task[s.id].sent > 0
  /\ flowPc = "ended" /\ result = "ok" => \A s \in All : report[s.id] = "ok"
  /\ OnError = "stop" => \A i, k \in DOMAIN Steps : i < k /\ Failed(i) => \A s \in Steps[k] : report[s.id] = "none"

(***************************************************************************)
(* "a typo or forward reference is caught at load, not silently left       *)
(* unexpanded at run time" (air/workflow.go): what a step refers to is     *)
(* there when the step runs.  With on_error continue the step that         *)
(* captures it may have failed.                                            *)
(***************************************************************************)
RefsExpanded == \A s \in All : task[s.id].pc # "idle" => used[s.id] = s.refs

WorkflowHolds == NoneLeftBehind /\ ReportTrue /\ (OnError = "stop" => RefsExpanded)

=============================================================================
