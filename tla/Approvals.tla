----------------------------- MODULE Approvals ------------------------------
(***************************************************************************)
(* Decisions asked for from outside the gateway: the hook an agent's       *)
(* client runs before and after a tool call, and the desk where people     *)
(* answer co-sign requests. Each part is a specification of its own, with  *)
(* its own initial state and next-state relation; a behaviour is a         *)
(* behaviour of one of them.                                               *)
(***************************************************************************)
EXTENDS Naturals, Sequences, FiniteSets

-----------------------------------------------------------------------------
(***************************************************************************)
(* `meshmcp hook` (cmd/meshmcp/hookcmd.go): the client of a language model *)
(* starts it before and after every tool call and for every prompt.  Each  *)
(* event is a process of its own: it opens the ledger, decides with an     *)
(* engine made for this one event, marks the session when the tool brings  *)
(* untrusted data in, appends a record and answers.                        *)
(*                                                                         *)
(* The second part is the hook chain of the harness (harness/hooks): hooks *)
(* are added and disabled by name in any order, then run for an event.     *)
(***************************************************************************)
CONSTANTS
  Events,       \* event -> [kind "pre" | "post" | "prompt", sess, tool, dlp]
  Parallel,     \* TRUE: the client runs hooks of several tool calls at once
  TaintTools, Guarded, Cosigned, Limited, RateLimit,
  MaxFails,
  HookOf,       \* name -> [safety, weakens, effect] of the harness's hooks
  Strict, MaxHooks

VARIABLES
  proc,      \* event -> [pc, seed, labels, dec, before]
  ledger,    \* records: [seq, ev, dec]
  marks,     \* the sessions with a taint marker
  pending, grants,
  answered,  \* history: sequence of events, in the order of their answers
  fails,
  chain, disabled, refused

hookVars == <<proc, ledger, marks, pending, grants, answered, fails, chain, disabled, refused>>
chainVars == <<chain, disabled, refused>>

Fresh == [pc |-> "idle", seed |-> 0, labels |-> {}, dec |-> "none", before |-> {}]
Answered == {answered[i] : i \in DOMAIN answered}

(***************************************************************************)
(* openHookAudit: the chain is continued from the last record in the file; *)
(* a file that cannot be opened means no ledger for this event.            *)
(***************************************************************************)
Unrecorded == 1000

OpenHookAudit(e) ==
  /\ proc[e].pc = "idle" /\ (Parallel \/ \A x \in DOMAIN Events : proc[x].pc \in {"idle", "done"})
  /\ \/ proc' = [proc EXCEPT ![e] = [@ EXCEPT !.pc = "decide", !.seed = Len(ledger), !.before = Answered]] /\ UNCHANGED fails
     \/ /\ fails < MaxFails /\ fails' = fails + 1
        /\ proc' = [proc EXCEPT ![e] = [@ EXCEPT !.pc = "decide", !.seed = Unrecorded, !.before = Answered]]
  /\ UNCHANGED <<ledger, marks, pending, grants, answered>> /\ UNCHANGED chainVars

(***************************************************************************)
(* DecideToolCall, with a fresh engine: nothing of earlier calls counts    *)
(* towards a rate.  The data-loss patterns may turn the decision to deny.  *)
(***************************************************************************)
readTaint(e) == marks \cap {Events[e].sess}

DecideToolCall(e, labels) ==
  LET t == Events[e].tool
  IN  IF t \in Guarded /\ labels # {} THEN "deny"
      ELSE IF t \in Limited /\ RateLimit = 0 THEN "deny"
      ELSE IF t \in Cosigned /\ t \notin grants THEN "cosign"
      ELSE "allow"

(* (Mutated form: the patterns are asked only when the policy allows nothing.) *)
DecideDlpLast(e, dec) == IF Events[e].dlp /\ dec # "allow" THEN "deny" ELSE dec

DecideDlp(e, dec) == IF Events[e].dlp THEN "deny" ELSE dec

(* hookPostTool decides nothing: the call has been made.                   *)
hookPostTool == "observed"

Decide(e) ==
  /\ proc[e].pc = "decide"
  /\ LET dec == IF Events[e].kind = "post" THEN hookPostTool
                ELSE IF Events[e].kind = "prompt" THEN DecideDlp(e, "allow")
                ELSE DecideDlp(e, DecideToolCall(e, readTaint(e)))
     IN  /\ proc' = [proc EXCEPT ![e] = [@ EXCEPT !.pc = "mark", !.dec = dec, !.labels = readTaint(e)]]
         /\ pending' = IF dec = "cosign" THEN pending \cup {Events[e].tool} ELSE pending
  /\ UNCHANGED <<ledger, marks, grants, answered, fails>> /\ UNCHANGED chainVars

(***************************************************************************)
(* markTainted, before the client is told that it may call.                *)
(***************************************************************************)
Marks(e) == Events[e].kind = "pre" /\ proc[e].dec = "allow" /\ Events[e].tool \in TaintTools

MarkTainted(e) ==
  /\ proc[e].pc = "mark"
  /\ proc' = [proc EXCEPT ![e].pc = "append"]
  /\ marks' = IF Marks(e) THEN marks \cup {Events[e].sess} ELSE marks
  /\ UNCHANGED <<ledger, pending, grants, answered, fails>> /\ UNCHANGED chainVars

(***************************************************************************)
(* The record gets the number after the one seen when the file was opened. *)
(* An error of Append is ignored.                                          *)
(***************************************************************************)
NextSeq(e) == proc[e].seed + 1

AppendAudit(e) ==
  /\ proc[e].pc = "append"
  /\ proc' = [proc EXCEPT ![e].pc = "answer"]
  /\ IF proc[e].seed = Unrecorded THEN UNCHANGED ledger
     ELSE ledger' = Append(ledger, [seq |-> NextSeq(e), ev |-> e, dec |-> proc[e].dec])
  /\ UNCHANGED <<marks, pending, grants, answered, fails>> /\ UNCHANGED chainVars

Answer(e) ==
  /\ proc[e].pc = "answer"
  /\ proc' = [proc EXCEPT ![e].pc = "done"] /\ answered' = Append(answered, e)
  /\ UNCHANGED <<ledger, marks, pending, grants, fails>> /\ UNCHANGED chainVars

(* A person approves the tool; without a TTL the approval stands until it is revoked. *)
Approve(t) ==
  /\ t \in pending /\ pending' = pending \ {t} /\ grants' = grants \cup {t}
  /\ UNCHANGED <<proc, ledger, marks, answered, fails>> /\ UNCHANGED chainVars

-----------------------------------------------------------------------------
(***************************************************************************)
(* The harness's chain.  Add refuses a hook that declares it weakens a     *)
(* safety label when loading is strict; Disable keeps the names of safety  *)
(* hooks out; skip looks again, since a name may be disabled first.        *)
(***************************************************************************)
processVars == <<proc, ledger, marks, pending, grants, answered, fails>>
InChain == {chain[i] : i \in DOMAIN chain}

Add(h) ==
  /\ h \notin InChain /\ h \notin refused /\ Len(chain) < MaxHooks
  /\ IF Strict /\ HookOf[h].weakens THEN refused' = refused \cup {h} /\ UNCHANGED chain
     ELSE chain' = Append(chain, h) /\ UNCHANGED refused
  /\ UNCHANGED disabled /\ UNCHANGED processVars

Disable(h) ==
  /\ disabled' = IF h \in InChain /\ HookOf[h].safety THEN disabled ELSE disabled \cup {h}
  /\ UNCHANGED <<chain, refused>> /\ UNCHANGED processVars

skip(h) == h \in disabled /\ ~HookOf[h].safety

(* Run: the first terminal effect, or else that the event goes on. *)
Terminal == {"block", "retry", "inject"}

Run ==
  LET fired == {i \in DOMAIN chain : ~skip(chain[i]) /\ HookOf[chain[i]].effect \in Terminal}
  IN  IF fired = {} THEN "continue" ELSE HookOf[chain[CHOOSE i \in fired : \A k \in fired : i <= k]].effect

-----------------------------------------------------------------------------
HookInit ==
  /\ proc = [e \in DOMAIN Events |-> Fresh] /\ ledger = <<>> /\ marks = {} /\ pending = {} /\ grants = {}
  /\ answered = <<>> /\ fails = 0
  /\ chain = <<>> /\ disabled = {} /\ refused = {}

(* One event's process.                                                    *)
cmdHook(e) == OpenHookAudit(e) \/ Decide(e) \/ MarkTainted(e) \/ AppendAudit(e) \/ Answer(e)

HookNext ==
  \/ \E e \in DOMAIN Events : cmdHook(e)
  \/ \E t \in pending : Approve(t)
  \/ \E h \in DOMAIN HookOf : Add(h) \/ Disable(h)

HookSpec == HookInit /\ [][HookNext]_hookVars

(***************************************************************************)
(* "a local tool that pulls untrusted content marks the session tainted,   *)
(* and a later Write/Edit with taint_guard is blocked" (CLIENT-HOOKS.md),  *)
(* also when hooks run at the same time: a guarded call whose hook started *)
(* after the untrusted one was allowed is never allowed.                   *)
(***************************************************************************)
TaintCarried ==
  \A e \in DOMAIN Events :
    /\ Events[e].kind = "pre" /\ Events[e].tool \in Guarded
    /\ \E x \in proc[e].before : Events[x].kind = "pre" /\ Events[x].tool \in TaintTools
                                  /\ Events[x].sess = Events[e].sess /\ proc[x].dec = "allow"
    => proc[e].dec # "allow"

(***************************************************************************)
(* What the patterns match is denied whatever the policy says, a tool that *)
(* needs a co-sign is allowed only once it is approved, and the ledger of  *)
(* a client that waits for each hook is one chain.                         *)
(***************************************************************************)
Ordered ==
  /\ \A e \in Answered : Events[e].dlp /\ Events[e].kind # "post" => proc[e].dec = "deny"
  /\ \A e \in Answered : Events[e].kind = "pre" /\ Events[e].tool \in Cosigned /\ proc[e].dec = "allow" => Events[e].tool \in grants
  /\ ~Parallel => \A i \in DOMAIN ledger : ledger[i].seq = i

(***************************************************************************)
(* "a hook marked Safety cannot be disabled, and a user hook that declares *)
(* it weakens a safety label is refused at load" (harness/hooks): a safety *)
(* hook that blocks is heard unless an earlier hook has ended the event.   *)
(***************************************************************************)
SafetyHeard ==
  /\ Strict => \A h \in InChain : ~HookOf[h].weakens
  /\ \A i \in DOMAIN chain :
       HookOf[chain[i]].safety /\ HookOf[chain[i]].effect = "block"
       /\ (\A k \in 1 .. i - 1 : HookOf[chain[k]].effect \notin Terminal) => Run = "block"

HooksHold == TaintCarried /\ Ordered /\ SafetyHeard

(***************************************************************************)
(* "policy, DLP, rate/window/co-sign, and audit" (docs/CLIENT-HOOKS.md):   *)
(* no more calls of a limited tool are allowed than the rate admits.       *)
(***************************************************************************)
RateKept == Cardinality({e \in Answered : Events[e].tool \in Limited /\ proc[e].dec = "allow"}) <= RateLimit

(***************************************************************************)
(* "the model can't reach a tool, local or remote, that isn't authorized   *)
(* and recorded" (docs/CLIENT-HOOKS.md): every answer has its record.      *)
(***************************************************************************)
EachRecorded == \A e \in Answered : \E i \in DOMAIN ledger : ledger[i].ev = e

(* The ledger verifies, also when the client runs tools in parallel. *)
OneChain == \A i \in DOMAIN ledger : ledger[i].seq = i

-----------------------------------------------------------------------------
(***************************************************************************)
(* `meshmcp approvals` as a desk for any agent framework                   *)
(* (cmd/meshmcp/approvals.go): /v1/request asks for a peer and a tool,     *)
(* phones are woken (pushwake.go), a person approves or denies, and the    *)
(* requester polls /v1/status.  A pending request, an approval and a       *)
(* denial are three files (policy/pending.go, policy/cosign.go); every     *)
(* handler works through them one file at a time and takes no lock.        *)
(***************************************************************************)
CONSTANTS
  Approvers,      \* handlers of /v1/approve and /v1/deny that may run at once
  MayApprove, MayRequest, Requester,
  MaxRequests, MaxDecisions, MaxPolls, MaxPushFails, Devices

VARIABLES
  deskPending, approved, denied,  \* the three files: the number of the request or decision in it, or 0
  asking,     \* the /v1/request handler: its next step, or "idle"
  desk,       \* approver -> [pc, grant, saw]
  poll,       \* the /v1/status handler
  requests, decisions, polls,
  answers,    \* history: sequence of [state, request, decision]
  devices, woken, pushFails

deskVars == <<deskPending, approved, denied, asking, desk, poll, requests, decisions, polls, answers, devices, woken, pushFails>>
Idle == [pc |-> "idle", grant |-> FALSE, n |-> 0]

(***************************************************************************)
(* /v1/request: clear any stale decision, then record the request.         *)
(* (Mutated form: the earlier approval stays.)                             *)
(***************************************************************************)
RevokesNothing == UNCHANGED approved

Revokes == approved' = 0

RequestRevoke ==
  /\ asking = "idle" /\ Requester \in MayRequest /\ requests < MaxRequests
  /\ requests' = requests + 1 /\ Revokes /\ asking' = "clear"
  /\ UNCHANGED <<deskPending, denied, desk, poll, decisions, polls, answers, devices, woken, pushFails>>

RequestClear ==
  /\ asking = "clear" /\ asking' = "record" /\ denied' = 0
  /\ UNCHANGED <<deskPending, approved, desk, poll, requests, decisions, polls, answers, devices, woken, pushFails>>

RequestRecord ==
  /\ asking = "record" /\ asking' = "notify" /\ deskPending' = requests
  /\ UNCHANGED <<approved, denied, desk, poll, requests, decisions, polls, answers, devices, woken, pushFails>>

(* Every registered device is woken; a failing push does not fail the request. *)
RequestNotify ==
  /\ asking = "notify" /\ asking' = "idle"
  /\ \/ woken' = woken \cup {[device |-> d, request |-> requests] : d \in devices} /\ UNCHANGED pushFails
     \/ pushFails < MaxPushFails /\ pushFails' = pushFails + 1 /\ UNCHANGED woken
  /\ UNCHANGED <<deskPending, approved, denied, desk, poll, requests, decisions, polls, answers, devices>>

Register(d) ==
  /\ d \notin devices /\ devices' = devices \cup {d}
  /\ UNCHANGED <<deskPending, approved, denied, asking, desk, poll, requests, decisions, polls, answers, woken, pushFails>>

(***************************************************************************)
(* decide: grant is Grant, ClearDeny, Clear; otherwise Deny, Revoke,       *)
(* Clear.  Outside the request-bound mode the handler does not look        *)
(* whether anything is pending.                                            *)
(***************************************************************************)
DecideStart(a, grant) ==
  /\ desk[a] = Idle /\ a \in MayApprove /\ decisions < MaxDecisions
  /\ decisions' = decisions + 1
  /\ desk' = [desk EXCEPT ![a] = [pc |-> "first", grant |-> grant, n |-> decisions + 1]]
  /\ UNCHANGED <<deskPending, approved, denied, asking, poll, requests, polls, answers, devices, woken, pushFails>>

DecideFirst(a) ==
  /\ desk[a].pc = "first" /\ desk' = [desk EXCEPT ![a].pc = "second"]
  /\ IF desk[a].grant THEN approved' = desk[a].n /\ UNCHANGED denied ELSE denied' = desk[a].n /\ UNCHANGED approved
  /\ UNCHANGED <<deskPending, asking, poll, requests, decisions, polls, answers, devices, woken, pushFails>>

DecideSecond(a) ==
  /\ desk[a].pc = "second" /\ desk' = [desk EXCEPT ![a].pc = "clear"]
  /\ IF desk[a].grant THEN denied' = 0 /\ UNCHANGED approved ELSE approved' = 0 /\ UNCHANGED denied
  /\ UNCHANGED <<deskPending, asking, poll, requests, decisions, polls, answers, devices, woken, pushFails>>

DecideClear(a) ==
  /\ desk[a].pc = "clear" /\ desk' = [desk EXCEPT ![a] = Idle] /\ deskPending' = 0
  /\ UNCHANGED <<approved, denied, asking, poll, requests, decisions, polls, answers, devices, woken, pushFails>>

(***************************************************************************)
(* /v1/status: approved, else denied, else pending, else unknown; each     *)
(* file is read at a moment of its own.                                    *)
(***************************************************************************)
PollEnds(state, d) ==
  /\ answers' = Append(answers, [state |-> state, request |-> requests, decision |-> d])
  /\ poll' = "idle"

(* FilePending.Has; no TTL is set on the desk's store.                      *)
HasPending == deskPending # 0

Poll ==
  /\ asking = "idle" /\ requests > 0
  /\ \/ /\ poll = "idle" /\ polls < MaxPolls /\ polls' = polls + 1
        /\ IF approved # 0 THEN PollEnds("approved", approved) ELSE poll' = "denied" /\ UNCHANGED answers
     \/ /\ poll = "denied" /\ UNCHANGED polls
        /\ IF denied # 0 THEN PollEnds("denied", denied) ELSE poll' = "pending" /\ UNCHANGED answers
     \/ /\ poll = "pending" /\ UNCHANGED polls
        /\ PollEnds(IF HasPending THEN "pending" ELSE "unknown", 0)
  /\ UNCHANGED <<deskPending, approved, denied, asking, desk, requests, decisions, devices, woken, pushFails>>

DeskInit ==
  /\ deskPending = 0 /\ approved = 0 /\ denied = 0 /\ asking = "idle" /\ poll = "idle"
  /\ desk = [a \in Approvers |-> Idle]
  /\ requests = 0 /\ decisions = 0 /\ polls = 0 /\ answers = <<>>
  /\ devices = {} /\ woken = {} /\ pushFails = 0

DeskNext ==
  \/ (poll = "idle" /\ RequestRevoke) \/ RequestClear \/ RequestRecord \/ RequestNotify \/ Poll
  \/ \E d \in Devices : Register(d)
  \/ \E a \in Approvers : (\E grant \in BOOLEAN : DecideStart(a, grant)) \/ DecideFirst(a) \/ DecideSecond(a) \/ DecideClear(a)

DeskSpec == DeskInit /\ [][DeskNext]_deskVars

(***************************************************************************)
(* "Fresh request: clear any stale decision, then record it pending": what *)
(* a requester reads after asking comes from a decision that reached the   *)
(* files after its request began, never from one it had been given before. *)
(***************************************************************************)
NeverStale ==
  \A i, k \in DOMAIN answers :
    i < k /\ answers[i].request < answers[k].request /\ answers[k].state \in {"approved", "denied"} =>
      answers[i].state # answers[k].state \/ answers[i].decision # answers[k].decision

(***************************************************************************)
(* A decision a person was told of is what the requester reads, until the  *)
(* next request or decision: with the handlers at rest the request is not  *)
(* forgotten.  It fails: of an approval and a denial given at once each    *)
(* removes the other's file, and a request recorded while an approval of   *)
(* the earlier one is being written is cleared with it.                    *)
(***************************************************************************)
Remembered ==
  requests > 0 /\ asking = "idle" /\ (\A a \in Approvers : desk[a] = Idle) => deskPending # 0 \/ approved # 0 \/ denied # 0

=============================================================================
