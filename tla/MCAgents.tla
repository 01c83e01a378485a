------------------------------ MODULE MCAgents ------------------------------
(* Small instances of what carries and runs agents' work: the router and    *)
(* its replicas, the remote client, the beacon relay, the workflow and      *)
(* graph runners, the orchestrator with its delegated calls and steering,   *)
(* and the MCP link between a client and a server. "part" selects one       *)
(* instance; a run of this module checks all that Parts names.              *)
EXTENDS Integers, Sequences, FiniteSets, TLC

CONSTANTS aa, ra, rb, k1, k2, nil, Parts

VARIABLES part, rep, live, next, mu, registered, call, asked, phase, tick, flaps, known, tok,
          remoteMu, file, rot, cur, req, lost, spent, expiries, crashes, ctl, gateways, txt,
          pub, pending, perLabel, opens, data, pc, st, gw, approvals, granted, fired, ended,
          fails, resumes, flowPc, at, task, captured, pids, reserved, alive, used, report,
          result, faults, rc, saved, tr, adv, job, todo, ordinal, minted, can, cosigned, calls,
          cancels, passed, step, ledger, unrecorded, jobs, seen, told, tasks, acked, buf,
          edited, overlap, auditFails, snd, box, closing, trail, chan, taken, agent,
          agentStopped, sub, in, out, inAt, outAt, cl, nextID, pend, conn, gor, reqSeq, pendS,
          inb, subs, serving, ev

routerVars == <<rep, next, mu, registered, call, asked, phase, tick, flaps>>
remoteVars == <<known, tok, remoteMu, rot, cur, req, spent, expiries>>
relayVars == <<ctl, gateways, txt, pub, pending, perLabel, opens, data>>
graphVars == <<pc, st, gw, approvals, granted, fired, ended, fails, resumes>>
flowVars == <<flowPc, at, captured, pids, reserved, alive, used, report, result, faults>>
harnessVars == <<rc, saved, tr, adv, job, todo, ordinal, minted, can, cosigned, calls, cancels,
    passed>>
delegateVars == <<step, ledger, unrecorded, jobs, seen, told, tasks, acked, buf, edited,
    overlap, auditFails>>
steerVars == <<snd, box, trail, chan, taken, agent, agentStopped, sub>>
mcpVars == <<in, out, inAt, outAt, cl, nextID, pend, conn, gor, reqSeq, pendS, inb, subs,
    serving, ev>>
vars == <<part, routerVars, remoteVars, relayVars, graphVars, flowVars, harnessVars,
    delegateVars, steerVars, mcpVars, live, file, lost, crashes, task, closing>>

(* Constants of Routing, where an instance does not say otherwise.          *)
Kind == (ra :> "tool" @@ rb :> "retry")
Denied == {}
Delegates == TRUE
NReplicas == 2
MaxFlaps == 1
Free == nil
BackendOf == [r \in 1..2 |-> k1]
MaxRotations == 3
MaxExpiries == 1
MaxCrashes == 1
Idle == nil
LabelOf == [g1 |-> k1, g3 |-> k2]
Wants == [p1 |-> k1, p2 |-> k2]
Values == {"v"}
MaxGateways == 1
MaxPending == 1
MaxPerLabel == 1
MaxTXT == 1
Nobody == "nobody"

(* A tool call and a retried one over two replicas, whose connections may   *)
(* break once, before, while or after a call runs; a read and a denied call.*)
RT == INSTANCE Routing

RD == INSTANCE Routing WITH
        Kind <- (ra :> "read" @@ rb :> "tool"), Denied <- {rb}, Delegates <- FALSE

(* Two requests of a client that renews its token.                          *)
RC == INSTANCE Routing

(* Two visitors of two labels; with room for two gateways of one label.     *)
BR == INSTANCE Routing

BL == INSTANCE Routing WITH MaxPerLabel <- 2

BG == INSTANCE Routing WITH LabelOf <- [g1 |-> k1, g2 |-> k1], Wants <- [p1 |-> k1]

Node(r, c, t, g, f, es) ==
    [rule |-> r, cost |-> c, emits |-> t, guarded |-> g, effect |-> f, edges |-> es]
Edge(t, w) == [to |-> t, when |-> w]
HeldSend == [read |-> Node("allow", 1, {"t"}, FALSE, FALSE, <<Edge("send", "any")>>),
             send |-> Node("cosign", 1, {}, FALSE, TRUE, <<Edge("send", "more"), Edge("read", "any")>>)]
Tainted == [read |-> Node("allow", 0, {"t"}, FALSE, TRUE, <<Edge("read", "more"), Edge("send", "any")>>),
            send |-> Node("allow", 2, {}, TRUE, TRUE, <<Edge("send", "more"), Edge("read", "any")>>)]
Doing(i, k, r, a) == [id |-> i, kind |-> k, refs |-> r, as |-> a]

(* Constants of AgentRuns, where an instance does not say otherwise.        *)
Nodes == HeldSend
Entry == "send"
Results == {"more", "done"}
Goal == "goal"
MaxIterations == 3
CostBudget == 0
Budget == 3
MaxApprovals == 2
MaxFails == 1
MaxResumes == 2
ResumesFinished == FALSE
End == "END"
NoNode == "none"
Steps == <<{Doing(1, "launch", {}, "x"), Doing(2, "launch", {}, "-"), Doing(3, "launch", {}, "-")}, {Doing(4, "steer", {"x"}, "-"), Doing(5, "call", {"x"}, "y")}, {Doing(6, "call", {"y"}, "-")}>>
OnError == "stop"
Cleanup == "stop"
maxWorkflowLaunches == 2
MaxFaults == 2
Unnamed == "-"

(* A graph with a node that is held for approval; with a guarded node and a *)
(* taint.                                                                   *)
AG == INSTANCE AgentRuns

AT == INSTANCE AgentRuns WITH MaxCrashes <- 2, MaxResumes <- 3, Nodes <- Tainted

(* The two graphs are such as Validate lets through.                        *)
ASSUME GraphsAreValid == AG!AgentGraphWellFormed /\ AT!AgentGraphWellFormed

(* Launches beyond the cap, steering and calls; with a higher cap; sibling  *)
(* steps; a workflow that goes on after an error.                           *)
FA == INSTANCE AgentRuns

FB == INSTANCE AgentRuns WITH maxWorkflowLaunches <- 4

FC == INSTANCE AgentRuns WITH
        Steps <- <<{Doing(1, "call", {}, "x"), Doing(2, "call", {"x"}, "-")}>>

FD == INSTANCE AgentRuns WITH
        OnError <- "continue", Cleanup <- "keep",
        Steps <- <<{Doing(1, "call", {}, "x")}, {Doing(2, "steer", {"x"}, "-")}>>

Plain == [tool |-> "x", job |-> "j", fails |-> FALSE, after |-> {}, task |-> "t",
          fields |-> [s |-> 0, b |-> 0], mark |-> 0]
Background == [a |-> [Plain EXCEPT !.tool = "call_agent", !.fails = TRUE],
               o |-> [Plain EXCEPT !.tool = "background_output", !.after = {"a"}],
               u |-> [Plain EXCEPT !.tool = "grep"], w |-> [Plain EXCEPT !.tool = "lsp"]]
Updates == [u |-> [Plain EXCEPT !.tool = "task_update", !.fields = [s |-> 1, b |-> 0]],
            v |-> [Plain EXCEPT !.tool = "task_update", !.fields = [s |-> 0, b |-> 2]],
            e |-> [Plain EXCEPT !.tool = "edit", !.mark = 1],
            f |-> [Plain EXCEPT !.tool = "edit", !.mark = 2]]
Ruled == [call_agent |-> "allow", background_output |-> "allow", grep |-> "deny", lsp |-> "cosign",
          task_update |-> "allow", edit |-> "allow"]
Told(t, g) == [type |-> t, target |-> g]

(* Constants of Orchestrator, where an instance does not say otherwise.     *)
Mode == "team"
HighRisk == TRUE
NTasks == 2
Width == 2
LoopRounds == 1
RetryPerRun == 1
Advancers == {aa}
MaxCalls == 2
MaxCancels == 0
None == nil
Ask == Background
Outcome == Ruled
Fields == {"s", "b"}
Marks == {1, 2, 3}
MaxAuditFails == 1
Steers == <<Told("nudge", ""), Told("task", "")>>
Buffer == 1
Count == 3
AuditFails == FALSE

(* A team of two on two tasks; a loop of rounds; two tasks one after the    *)
(* other; a synthesis.                                                      *)
HT == INSTANCE Orchestrator

HR == INSTANCE Orchestrator WITH
        HighRisk <- FALSE, NTasks <- 1, Width <- 1, LoopRounds <- 2, MaxCalls <- 1,
        Mode <- "ralph"

HQ == INSTANCE Orchestrator WITH
        HighRisk <- FALSE, Width <- 1, LoopRounds <- 2, MaxCalls <- 1, MaxCancels <- 1,
        Mode <- "quick"

HS == INSTANCE Orchestrator WITH
        NTasks <- 1, Width <- 1, LoopRounds <- 2, RetryPerRun <- 0, MaxCalls <- 3,
        MaxCancels <- 1, Mode <- "synthesize"

(* A background agent, its output and refused calls; two updates of one     *)
(* task and two edits of one file.                                          *)
DA == INSTANCE Orchestrator

DB == INSTANCE Orchestrator WITH Ask <- Updates

(* A nudge and a new task for a running agent; a cancellation and a         *)
(* malformed steer, with audit failures.                                    *)
SA == INSTANCE Orchestrator

SB == INSTANCE Orchestrator WITH
        Steers <- <<Told("cancel", ""), Told("bad", "")>>, AuditFails <- TRUE

(* Constants of McpLink, where an instance does not say otherwise.          *)
CtxEnds == {"a"}
Ends == {"close", "half"}
AskEnds == TRUE
Limit == 1
steerBuffer == 1
MaxPolls == 1
MaxChanges == 1
MaxIds == 2
NoCall == "-"

(* A call that asks the client back while the link closes; a subscription;  *)
(* a task that is waited for, steered, cancelled; three calls at once.      *)
K1 == INSTANCE McpLink WITH Kind <- [a |-> "ask", b |-> "tool"]

K0 == INSTANCE McpLink WITH
        CtxEnds <- {}, Ends <- {"half"}, AskEnds <- FALSE, Kind <- [a |-> "ask", b |-> "tool"]

K2 == INSTANCE McpLink WITH
        CtxEnds <- {}, Ends <- {"half"}, MaxIds <- 1,
        Kind <- [a |-> "listen", b |-> "unlisten", c |-> "unlisten"]

K3 == INSTANCE McpLink WITH
        CtxEnds <- {"b"}, Ends <- {}, MaxIds <- 3, Kind <- [a |-> "task", b |-> "wait"]

K4 == INSTANCE McpLink WITH
        CtxEnds <- {}, Ends <- {}, MaxIds <- 3, Kind <- [a |-> "task", b |-> "steer"]

K5 == INSTANCE McpLink WITH
        CtxEnds <- {}, Ends <- {}, MaxIds <- 3,
        Kind <- [a |-> "tool", b |-> "tool", c |-> "tool"]

K6 == INSTANCE McpLink WITH
        CtxEnds <- {}, Ends <- {}, MaxIds <- 3,
        Kind <- [a |-> "task", b |-> "cancel", c |-> "forget"]

(* A component that a part does not run has no state there.                 *)
routerIdle ==
    /\ rep = 0 /\ next = 0 /\ mu = 0 /\ registered = 0 /\ call = 0 /\ asked = 0
    /\ phase = 0 /\ tick = 0 /\ flaps = 0
remoteIdle ==
    /\ known = 0 /\ tok = 0 /\ remoteMu = 0 /\ rot = 0 /\ cur = 0 /\ req = 0
    /\ spent = 0 /\ expiries = 0
relayIdle ==
    /\ ctl = 0 /\ gateways = 0 /\ txt = 0 /\ pub = 0 /\ pending = 0 /\ perLabel = 0
    /\ opens = 0 /\ data = 0
graphIdle ==
    /\ pc = 0 /\ st = 0 /\ gw = 0 /\ approvals = 0 /\ granted = 0 /\ fired = 0
    /\ ended = 0 /\ fails = 0 /\ resumes = 0
flowIdle ==
    /\ flowPc = 0 /\ at = 0 /\ captured = 0 /\ pids = 0 /\ reserved = 0 /\ alive = 0
    /\ used = 0 /\ report = 0 /\ result = 0 /\ faults = 0
harnessIdle ==
    /\ rc = 0 /\ saved = 0 /\ tr = 0 /\ adv = 0 /\ job = 0 /\ todo = 0
    /\ ordinal = 0 /\ minted = 0 /\ can = 0 /\ cosigned = 0 /\ calls = 0 /\ cancels = 0
    /\ passed = 0
delegateIdle ==
    /\ step = 0 /\ ledger = 0 /\ unrecorded = 0 /\ jobs = 0 /\ seen = 0 /\ told = 0
    /\ tasks = 0 /\ acked = 0 /\ buf = 0 /\ edited = 0 /\ overlap = 0 /\ auditFails = 0
steerIdle ==
    /\ snd = 0 /\ box = 0 /\ trail = 0 /\ chan = 0 /\ taken = 0 /\ agent = 0
    /\ agentStopped = 0 /\ sub = 0
mcpIdle ==
    /\ in = 0 /\ out = 0 /\ inAt = 0 /\ outAt = 0 /\ cl = 0 /\ nextID = 0 /\ pend = 0
    /\ conn = 0 /\ gor = 0 /\ reqSeq = 0 /\ pendS = 0 /\ inb = 0 /\ subs = 0 /\ serving = 0
    /\ ev = 0

Init ==
    /\ part \in Parts
    /\ CASE part = "router" -> RT!RouterInit [] part = "denied" -> RD!RouterInit
         [] OTHER -> routerIdle
    /\ CASE part = "remote" -> RC!RemoteInit [] OTHER -> remoteIdle
    /\ CASE part = "relay" -> BR!RelayInit [] part = "labels" -> BL!RelayInit
         [] part = "rivals" -> BG!RelayInit [] OTHER -> relayIdle
    /\ CASE part = "graph" -> AG!GraphInit [] part = "taint" -> AT!GraphInit
         [] OTHER -> graphIdle
    /\ CASE part = "flow" -> FA!FlowInit [] part = "cap" -> FB!FlowInit
         [] part = "siblings" -> FC!FlowInit [] part = "goeson" -> FD!FlowInit
         [] OTHER -> flowIdle
    /\ CASE part = "team" -> HT!HarnessInit [] part = "ralph" -> HR!HarnessInit
         [] part = "quick" -> HQ!HarnessInit [] part = "synth" -> HS!HarnessInit
         [] OTHER -> harnessIdle
    /\ CASE part = "background" -> DA!DelegateInit [] part = "updates" -> DB!DelegateInit
         [] OTHER -> delegateIdle
    /\ CASE part = "nudge" -> SA!SteerInit [] part = "cancel" -> SB!SteerInit
         [] OTHER -> steerIdle
    /\ CASE part = "asks" -> K1!Init [] part = "calls" -> K0!Init
         [] part = "listens" -> K2!Init [] part = "tasks" -> K3!Init
         [] part = "steers" -> K4!Init [] part = "tools" -> K5!Init
         [] part = "cancels" -> K6!Init [] OTHER -> mcpIdle
    /\ part \notin {"router", "denied", "team", "ralph", "quick", "synth"} =>
         /\ live = 0
    /\ part \notin {"remote", "graph", "taint", "background", "updates"} =>
         /\ file = 0
    /\ part \notin {"remote", "team", "ralph", "quick", "synth"} =>
         /\ lost = 0
    /\ part \notin {"remote", "graph", "taint"} =>
         /\ crashes = 0
    /\ part \notin {"flow", "cap", "siblings", "goeson", "asks", "calls", "listens", "tasks",
         "steers", "tools", "cancels"} =>
         /\ task = 0
    /\ part \notin {"nudge", "cancel", "asks", "calls", "listens", "tasks", "steers", "tools",
         "cancels"} =>
         /\ closing = 0

Next ==
    \/ /\ UNCHANGED <<part, remoteVars, relayVars, graphVars, flowVars, harnessVars,
                     delegateVars, steerVars, mcpVars, file, lost, crashes, task, closing>>
       /\ \/ part = "router" /\ RT!RouterNext
          \/ part = "denied" /\ RD!RouterNext
    \/ /\ UNCHANGED <<part, routerVars, relayVars, graphVars, flowVars, harnessVars,
                     delegateVars, steerVars, mcpVars, live, task, closing>>
       /\ part = "remote" /\ RC!RemoteNext
    \/ /\ UNCHANGED <<part, routerVars, remoteVars, graphVars, flowVars, harnessVars,
                     delegateVars, steerVars, mcpVars, live, file, lost, crashes, task,
                     closing>>
       /\ \/ part = "relay" /\ BR!RelayNext
          \/ part = "labels" /\ BL!RelayNext
          \/ part = "rivals" /\ BG!RelayNext
    \/ /\ UNCHANGED <<part, routerVars, remoteVars, relayVars, flowVars, harnessVars,
                     delegateVars, steerVars, mcpVars, live, lost, task, closing>>
       /\ \/ part = "graph" /\ AG!GraphNext
          \/ part = "taint" /\ AT!GraphNext
    \/ /\ UNCHANGED <<part, routerVars, remoteVars, relayVars, graphVars, harnessVars,
                     delegateVars, steerVars, mcpVars, live, file, lost, crashes, closing>>
       /\ \/ part = "flow" /\ FA!FlowNext
          \/ part = "cap" /\ FB!FlowNext
          \/ part = "siblings" /\ FC!FlowNext
          \/ part = "goeson" /\ FD!FlowNext
    \/ /\ UNCHANGED <<part, routerVars, remoteVars, relayVars, graphVars, flowVars,
                     delegateVars, steerVars, mcpVars, file, crashes, task, closing>>
       /\ \/ part = "team" /\ HT!HarnessNext
          \/ part = "ralph" /\ HR!HarnessNext
          \/ part = "quick" /\ HQ!HarnessNext
          \/ part = "synth" /\ HS!HarnessNext
    \/ /\ UNCHANGED <<part, routerVars, remoteVars, relayVars, graphVars, flowVars,
                     harnessVars, steerVars, mcpVars, live, lost, crashes, task, closing>>
       /\ \/ part = "background" /\ DA!DelegateNext
          \/ part = "updates" /\ DB!DelegateNext
    \/ /\ UNCHANGED <<part, routerVars, remoteVars, relayVars, graphVars, flowVars,
                     harnessVars, delegateVars, mcpVars, live, file, lost, crashes, task>>
       /\ \/ part = "nudge" /\ SA!SteerNext
          \/ part = "cancel" /\ SB!SteerNext
    \/ /\ UNCHANGED <<part, routerVars, remoteVars, relayVars, graphVars, flowVars,
                     harnessVars, delegateVars, steerVars, live, file, lost, crashes>>
       /\ \/ part = "asks" /\ K1!Next
          \/ part = "calls" /\ K0!Next
          \/ part = "listens" /\ K2!Next
          \/ part = "tasks" /\ K3!Next
          \/ part = "steers" /\ K4!Next
          \/ part = "tools" /\ K5!Next
          \/ part = "cancels" /\ K6!Next

Spec == Init /\ [][Next]_vars

(* Goroutines run: the relay's connections, the orchestrator's step and its *)
(* jobs, and both ends of the MCP link with their callers and handlers.     *)
relayRest == UNCHANGED <<part, routerVars, remoteVars, graphVars, flowVars, harnessVars,
    delegateVars, steerVars, mcpVars, live, file, lost, crashes, task,
    closing>>
harnessRest == UNCHANGED <<part, routerVars, remoteVars, relayVars, graphVars, flowVars, delegateVars,
    steerVars, mcpVars, file, crashes, task, closing>>
mcpRest == UNCHANGED <<part, routerVars, remoteVars, relayVars, graphVars, flowVars, harnessVars,
    delegateVars, steerVars, live, file, lost, crashes>>
Fairness ==
    /\ \A v \in {"p1", "p2"} : WF_vars(part = "relay" /\ BR!Visitor(v) /\ relayRest)
    /\ WF_vars(part = "ralph" /\ HR!AdvanceStep(aa) /\ harnessRest)
    /\ WF_vars(part = "ralph" /\ HR!JobStep(aa, 1) /\ harnessRest)
    /\ WF_vars(part = "calls" /\ K0!ClientLoop /\ mcpRest)
    /\ WF_vars(part = "calls" /\ K0!ServerLoop /\ mcpRest)
    /\ \A k \in {"a", "b"} : WF_vars(part = "calls" /\ K0!Caller(k) /\ mcpRest)
    /\ \A i \in 1..2 : WF_vars(part = "calls" /\ K0!Dispatch(i) /\ mcpRest)

FairSpec == Spec /\ Fairness

-----------------------------------------------------------------------------
(* A tool call is tried once and no replica twice for one call              *)
(* (Router.route); a request is served once and no token is reused after    *)
(* its successor (RemoteClient); every registered gateway is reachable,     *)
(* waiting visitors are counted, and no connection is left open (Relay).    *)
RoutingHolds ==
    /\ part = "router" => RT!TypeOK /\ RT!RouterHolds
    /\ part = "denied" => RD!TypeOK /\ RD!RouterHolds
    /\ part = "remote" => RC!RemoteHolds
    /\ part = "relay" => BR!RelayHolds
    /\ part = "labels" => BL!RelayHolds
    /\ part = "rivals" => BG!RelayHolds

(* An effect of a graph fires once over crashes and resumes, approved,      *)
(* within its bounds and never tainted (graph.Run); a workflow leaves no    *)
(* process behind and reports what happened (workflow.Run). A run passes    *)
(* its gate only approved, saves its state before it acts and retires its   *)
(* workers (harness); delegated calls are governed and no update is lost    *)
(* (delegate); what a steerer is told of its steer is so (steering); an MCP *)
(* caller gets the answer to its own call (mcpclient, mcpserver).           *)
RunsHold ==
    /\ part = "graph" => AG!TypeOK /\ AG!GraphHolds
    /\ part = "taint" => AT!TypeOK /\ AT!GraphHolds
    /\ part = "flow" => FA!WorkflowHolds
    /\ part = "cap" => FB!WorkflowHolds
    /\ part = "siblings" => FC!WorkflowHolds
    /\ part = "goeson" => FD!WorkflowHolds
    /\ part = "team" => HT!TypeOK /\ HT!HarnessHolds
    /\ part = "ralph" => HR!TypeOK /\ HR!HarnessHolds
    /\ part = "quick" => HQ!TypeOK /\ HQ!HarnessHolds
    /\ part = "synth" => HS!TypeOK /\ HS!HarnessHolds
    /\ part = "background" => DA!DelegateHolds
    /\ part = "updates" => DB!DelegateHolds
    /\ part = "nudge" => SA!SteeringHolds
    /\ part = "cancel" => SB!SteeringHolds
    /\ part = "asks" => K1!TypeOK /\ K1!LinkHolds
    /\ part = "calls" => K0!TypeOK /\ K0!LinkHolds
    /\ part = "listens" => K2!TypeOK /\ K2!LinkHolds
    /\ part = "tasks" => K3!TypeOK /\ K3!LinkHolds
    /\ part = "steers" => K4!TypeOK /\ K4!LinkHolds
    /\ part = "tools" => K5!TypeOK /\ K5!LinkHolds
    /\ part = "cancels" => K6!TypeOK /\ K6!LinkHolds

(* A run never falls back a stage (Advance), and a task's terminal state is *)
(* final (taskStore).                                                       *)
AgentSteps ==
    [][/\ part = "team" => HT!Forward
       /\ part = "ralph" => HR!Forward
       /\ part = "quick" => HQ!Forward
       /\ part = "synth" => HS!Forward
       /\ part = "asks" => K1!TaskFinal
       /\ part = "calls" => K0!TaskFinal
       /\ part = "listens" => K2!TaskFinal
       /\ part = "tasks" => K3!TaskFinal
       /\ part = "steers" => K4!TaskFinal
       /\ part = "tools" => K5!TaskFinal
       /\ part = "cancels" => K6!TaskFinal]_vars

(* Under fair scheduling every visitor is spliced or closed (Relay), an     *)
(* orchestrator call returns (Advance), and an MCP call that was written    *)
(* returns (Serve, finish).                                                 *)
AgentsFinish ==
    /\ \A v \in {"p1", "p2"} : <>(part = "relay" => BR!Served(v))
    /\ (part = "ralph" /\ HR!Driving(aa)) ~> (part = "ralph" => ~HR!Driving(aa))
    /\ \A k \in {"a", "b"} : (part = "calls" /\ K0!Waits(k)) ~> (part = "calls" => ~K0!Waits(k))
=============================================================================
