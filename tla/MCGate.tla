------------------------------- MODULE MCGate -------------------------------
(* Small instances of what stands between a caller and a backend: the       *)
(* edge's OAuth endpoints and sessions, the policy gate with its approvals, *)
(* the line filter, the secret broker and the replay of a recorded session, *)
(* agent hooks and the approval desk, and the audit log with its            *)
(* checkpoints and their witness. "part" selects one instance; a run of     *)
(* this module checks all that Parts names.                                 *)
EXTENDS Integers, Sequences, FiniteSets, TLC

CONSTANTS ca, cb, cc, qa, ha, hb, nil, Parts

VARIABLES part, clientRec, authz, codes, access, refresh, issued, minted, hnd, opr, time,
          approvals, given, redeemed, rotations, swept, decisions, sessions, byID, streams, rq,
          note, notes, revoked, newest, panicked, arch, active, link, log, cur, cp, cps, fl,
          gateway, acked, crashes, cpFile, pending, draining, drain, wSeen, wFile, wPrev,
          replay, gen, replays, left, pol, ph, bucket, labels, pend, appr, cosigned, seen,
          trail, hd, asked, now, granted, flowed, sent, wbuf, pc, inner, backOut, pumpLine,
          pump, omu, pipe, got, published, open, backUp, auditFails, closes, at, secretPc,
          vals, hand, secretInner, reply, client, trace, ledger, replies, phase, replayAt,
          owed, replayTrace, wire, buffered, waiting, verdicts, asks, timeouts, proc, marks,
          grants, answered, fails, chain, disabled, refused, deskPending, approved, denied,
          asking, desk, poll, requests, polls, answers, devices, woken, pushFails

edgeVars == <<clientRec, authz, codes, access, refresh, issued, minted, hnd, time, approvals,
    given, redeemed, rotations, swept>>
sessVars == <<sessions, byID, streams, rq, note, notes, revoked, newest, panicked>>
auditVars == <<arch, active, link, log, cp, cps, fl, gateway, acked>>
anchorVars == <<cpFile, draining, drain, wSeen, wFile, wPrev, replay, gen, replays, left>>
gateVars == <<pol, ph, bucket, pend, appr, cosigned, seen, hd, now, granted, flowed>>
filterVars == <<sent, wbuf, pc, inner, backOut, pumpLine, pump, omu, pipe, got, published,
    open, backUp, auditFails, closes>>
secretVars == <<at, secretPc, vals, hand, secretInner, reply, client, trace, replies>>
replayVars == <<phase, replayAt, owed, replayTrace, wire, buffered, waiting, verdicts, asks,
    timeouts>>
hookVars == <<proc, marks, grants, answered, fails, chain, disabled, refused>>
deskVars == <<deskPending, approved, denied, asking, desk, poll, requests, polls, answers,
    devices, woken, pushFails>>
vars == <<part, edgeVars, sessVars, auditVars, anchorVars, gateVars, filterVars, secretVars,
    replayVars, hookVars, deskVars, opr, decisions, cur, crashes, pending, labels, trail,
    asked, ledger>>

OneDaemon == ha :> 1 @@ hb :> 1

(* Constants of EdgeOAuth, where an instance does not say otherwise.        *)
Clients == {ca}
Reqs == {qa}
Handlers == {ha, hb}
Proc == OneDaemon
Mode == "open-approval"
Quota == 1
Grace == 0
TTL == 2
Stored == {}
Does == {"register", "authorize", "crash"}
MaxCodes == 2
MaxTokens == 2
MaxTime == 0
MaxDecisions == 3
Nil == nil

(* Two requests at one daemon poll, claim and redeem; at two daemons; two   *)
(* refreshes of a stored token; registrations that compete for a place.     *)
EC == INSTANCE EdgeOAuth

EX == INSTANCE EdgeOAuth WITH
        Proc <- (ha :> 1 @@ hb :> 2), Mode <- "token", TTL <- 1,
        Does <- {"register", "authorize"}, MaxCodes <- 1, MaxTime <- 2, MaxDecisions <- 1

ER == INSTANCE EdgeOAuth WITH
        Reqs <- {}, Stored <- {ca}, Mode <- "token", TTL <- 1, Does <- {"crash", "revoke"},
        MaxCodes <- 1, MaxTokens <- 3, MaxTime <- 1, MaxDecisions <- 0

EG == INSTANCE EdgeOAuth WITH
        Clients <- {ca, cb, cc}, Reqs <- {}, Grace <- 1, TTL <- 3, Does <- {"register"},
        MaxCodes <- 1, MaxTokens <- 1, MaxDecisions <- 2

Token(c, f) == [client |-> c, family |-> f]

(* Constants of EdgeSession, where an instance does not say otherwise.      *)
Users == {Token(ca, 1), Token(ca, 2)}
Requests == {ha, hb}
perLimit == 1
bufLimit == 1
MaxSessions == 2
MaxStreams == 2
MaxNotes == 1
Nobody == nil

(* Two token families of one client that share a limit of one session.      *)
ES == INSTANCE EdgeSession

(* Two sessions of one client that are revoked together.                    *)
EV == INSTANCE EdgeSession WITH perLimit <- 2, MaxNotes <- 0

(* Constants of AuditTrail, where an instance does not say otherwise.       *)
every == 2
maxSeg == 2
Faults == {"crash", "io", "short"}
MaxRecords == 4
MaxCrashes == 2
maxPending == 2
PowerLoss == FALSE
Goroutines == {ha, hb}
MaxCheckpoints == 3
MaxReplays == 1

(* A log that rotates, fails and crashes; one that only seals.              *)
AR == INSTANCE AuditTrail

AS == INSTANCE AuditTrail WITH maxSeg <- 3, Faults <- {}, MaxRecords <- 6, MaxCrashes <- 0

(* A queue of two in front of a witness, with restarts of both; a gateway   *)
(* that may lose its last checkpoint.                                       *)
WA == INSTANCE AuditTrail WITH MaxCrashes <- 1

WP == INSTANCE AuditTrail WITH PowerLoss <- TRUE, MaxCheckpoints <- 2

Call(t, a, s, k) == [tool |-> t, args |-> a, sess |-> s, cap |-> k]
Ruled(hold, emits, blocks, max) ==
    [allow |-> TRUE, cosign |-> hold, emit |-> emits, block |-> blocks, max |-> max]
Held == <<[t \in {"w"} |-> Ruled(TRUE, {}, {}, 0)]>>
Labelled(hold) == <<[r |-> Ruled(hold, {"pii"}, {}, 0), w |-> Ruled(FALSE, {}, {"pii"}, 0)]>>
TwoSessions == <<Call("w", 1, 1, 0), Call("r", 1, 1, 0), Call("r", 1, 2, 0)>>

(* Constants of PolicyGate, where an instance does not say otherwise.       *)
Calls == <<Call("w", 1, 1, 0), Call("w", 1, 1, 0), Call("w", 2, 1, 0)>>
Rules == Held
DefaultAllow == FALSE
Bound == TRUE
FailClosed == TRUE
ApprovalTTL == 1
CapExp == 0
IdleTTL == 3
Per == 1
perPeer == 1
MaxAsked == 2
None == nil

(* Calls held for approval, with different arguments and with the same;     *)
(* calls under single-use capabilities; labels, held and over more sessions *)
(* than are tracked; a rate, with a reload.                                 *)
GB == INSTANCE PolicyGate

GU == INSTANCE PolicyGate WITH
        Bound <- FALSE, FailClosed <- FALSE, CapExp <- 2, IdleTTL <- 4, MaxTime <- 3,
        MaxAsked <- 1, Calls <- <<Call("w", 1, 1, 1), Call("w", 2, 1, 1), Call("r", 1, 1, 1)>>,
        Rules <- <<[t \in {"r"} |-> Ruled(TRUE, {}, {}, 0)]>>

GL == INSTANCE PolicyGate WITH
        Bound <- FALSE, CapExp <- 2, IdleTTL <- 0, MaxTime <- 1, MaxAsked <- 1,
        Calls <- TwoSessions, Rules <- Labelled(TRUE)

GS == INSTANCE PolicyGate WITH MaxAsked <- 1, Calls <- [i \in 1..3 |-> Call("w", 1, 1, 0)]

GE == INSTANCE PolicyGate WITH
        Bound <- FALSE, CapExp <- 2, IdleTTL <- 0, MaxAsked <- 0, Calls <- TwoSessions,
        Rules <- Labelled(FALSE)

GR == INSTANCE PolicyGate WITH
        DefaultAllow <- TRUE, Bound <- FALSE, FailClosed <- FALSE, CapExp <- 2, IdleTTL <- 4,
        Per <- 2, MaxTime <- 2, MaxAsked <- 0, Calls <- [i \in 1..2 |-> Call("w", i, 1, 0)],
        Rules <- [v \in 1..2 |-> [t \in {"w"} |-> Ruled(FALSE, {}, {}, 1)]]

Line(s, m, i, n, t, u) ==
    [shape |-> s, dup |-> FALSE, method |-> m, id |-> i, name |-> n, token |-> t, units |-> u]
Asked(i, n, t, u) == Line("object", "tools/call", i, n, t, u)
Verdicts == [ok |-> "allow", hooked |-> "allow", no |-> "deny", init |-> "none", tasks |-> "allow",
             note |-> "allow"] @@ ("tools/call" :> "none")
HooksOn == <<[x \in DOMAIN Verdicts |-> IF x = "hooked" THEN "cosign" ELSE "allow"],
             [x \in DOMAIN Verdicts |-> "allow"]>>

Uses(t, s, e) == [tool |-> t, sites |-> s, emits |-> e]
Site(n, w) == [name |-> n, path |-> w]
May(ps, ss, ts, ls, bs) ==
    [peers |-> ps, secrets |-> ss, tools |-> ts, locations |-> ls, blocked |-> bs]

Recorded(i, k) == [id |-> i, key |-> k, big |-> FALSE]

(* Constants of CallFilter, where an instance does not say otherwise.       *)
Script == <<Asked("1", "ok", TRUE, 2), Asked("2", "no", FALSE, 2), Line("object", "tasks", "3", "", TRUE, 2)>>
Rule == Verdicts
Hooks == HooksOn
Says == {}
LineCap == 4
MaxChunk == 3
MaxAuditFails == 1
MaxCloses == 1
Stores == <<[key |-> "v1"], [key |-> "v2", pin |-> "s"]>>
Peer == "p"
Grants == {May({"p"}, {"key"}, {"charge"}, {"auth"}, {"tainted"}), May({}, {"pin"}, {}, {}, {}), May({"q"}, {"key"}, {}, {}, {})}
Short == {"s"}
Denied == {"drop"}
MaxReplies == 3
Recording == <<Recorded(1, "a"), Recorded(2, "b"), Recorded(0, "n"), Recorded(3, "c")>>
Changed == {"b"}
ServerAsks == {}
Payloads == TRUE
ForkAt == 0
MaxTimeouts == 2

(* Calls and a task in pieces; malformed lines, a notification, a held call *)
(* and a line that is too long.                                             *)
FA == INSTANCE CallFilter

FB == INSTANCE CallFilter WITH
        Script <- <<Asked("none", "ok", FALSE, 1), Line("array", "x", "none", "", FALSE, 1), Line("blank", "", "none", "", FALSE, 1), Line("object", "note", "none", "", TRUE, 1), Asked("4", "hooked", FALSE, 1), Line("object", "init", "5", "", FALSE, 4)>>,
        Says <- {9}, LineCap <- 3, MaxChunk <- 2

(* Calls that use a secret where it may go and where it may not, before and *)
(* after a taint.                                                           *)
SX == INSTANCE CallFilter WITH
        Calls <- <<Uses("charge", <<Site("key", "auth"), Site("key", "auth")>>, {}), Uses("charge", <<Site("key", "auth"), Site("key", "note")>>, {}), Uses("drop", <<Site("key", "auth")>>, {}), Uses("fetch", <<Site("pin", "auth")>>, {"tainted"}), Uses("charge", <<Site("key", "auth")>>, {})>>

(* Requests and a notification, one of them with a new answer; a server     *)
(* that asks the client, with an id of the client's and with another.       *)
TA == INSTANCE CallFilter

TB == INSTANCE CallFilter WITH
        Recording <- <<Recorded(1, "a"), Recorded(2, "b")>>, Changed <- {"b"}, ServerAsks <- {1, 9},
        MaxTimeouts <- 1

Event(k, s, t, d) == [kind |-> k, sess |-> s, tool |-> t, dlp |-> d]
OneByOne == <<Event("pre", "s", "fetch", FALSE), Event("post", "s", "fetch", FALSE),
              Event("pre", "s", "write", FALSE), Event("prompt", "s", "none", TRUE),
              Event("pre", "t", "deploy", FALSE)>>
AtOnce == <<Event("pre", "s", "fetch", FALSE), Event("pre", "s", "deploy", FALSE),
            Event("pre", "s", "deploy", FALSE)>>
Hooking(s, w, e) == [safety |-> s, weakens |-> w, effect |-> e]

(* Constants of Approvals, where an instance does not say otherwise.        *)
Events == OneByOne
Parallel == FALSE
TaintTools == {"fetch"}
Guarded == {"write"}
Cosigned == {"deploy"}
Limited == {"fetch"}
RateLimit == 1
MaxFails == 1
HookOf == <<>>
Strict == TRUE
MaxHooks == 0
Approvers == {"a", "b"}
MayApprove == {"a", "b"}
MayRequest == {"r"}
Requester == "r"
MaxRequests == 2
MaxPolls == 2
MaxPushFails == 0
Devices == {}

(* Hook processes one after the other; at once; a chain of hooks that may   *)
(* weaken a decision.                                                       *)
KA == INSTANCE Approvals

KB == INSTANCE Approvals WITH
        Guarded <- {"deploy"}, Cosigned <- {}, MaxFails <- 0, Events <- AtOnce,
        Parallel <- TRUE, Limited <- {"deploy"}

KC == INSTANCE Approvals WITH
        MaxFails <- 0, Events <- <<>>, Parallel <- TRUE, Limited <- {"deploy"},
        HookOf <- [guard |-> Hooking(TRUE, FALSE, "block"), rules |-> Hooking(FALSE, FALSE, "inject"), cut |-> Hooking(FALSE, FALSE, "mutate"), user |-> Hooking(FALSE, TRUE, "retry")],
        MaxHooks <- 3

(* Two approvers of one request; one approver and a device that is woken.   *)
DA == INSTANCE Approvals WITH MaxDecisions <- 2

DB == INSTANCE Approvals WITH
        MaxDecisions <- 2, Approvers <- {"a"}, MaxPushFails <- 1, Devices <- {"d"}

(* A component that a part does not run has no state there.                 *)
edgeIdle ==
    /\ clientRec = 0 /\ authz = 0 /\ codes = 0 /\ access = 0 /\ refresh = 0
    /\ issued = 0 /\ minted = 0 /\ hnd = 0 /\ time = 0 /\ approvals = 0 /\ given = 0
    /\ redeemed = 0 /\ rotations = 0 /\ swept = 0
sessIdle ==
    /\ sessions = 0 /\ byID = 0 /\ streams = 0 /\ rq = 0 /\ note = 0 /\ notes = 0
    /\ revoked = 0 /\ newest = 0 /\ panicked = 0
auditIdle ==
    /\ arch = 0 /\ active = 0 /\ link = 0 /\ log = 0 /\ cp = 0 /\ cps = 0 /\ fl = 0
    /\ gateway = 0 /\ acked = 0
anchorIdle ==
    /\ cpFile = 0 /\ draining = 0 /\ drain = 0 /\ wSeen = 0 /\ wFile = 0 /\ wPrev = 0
    /\ replay = 0 /\ gen = 0 /\ replays = 0 /\ left = 0
gateIdle ==
    /\ pol = 0 /\ ph = 0 /\ bucket = 0 /\ pend = 0 /\ appr = 0 /\ cosigned = 0
    /\ seen = 0 /\ hd = 0 /\ now = 0 /\ granted = 0 /\ flowed = 0
filterIdle ==
    /\ sent = 0 /\ wbuf = 0 /\ pc = 0 /\ inner = 0 /\ backOut = 0 /\ pumpLine = 0
    /\ pump = 0 /\ omu = 0 /\ pipe = 0 /\ got = 0 /\ published = 0 /\ open = 0 /\ backUp = 0
    /\ auditFails = 0 /\ closes = 0
secretIdle ==
    /\ at = 0 /\ secretPc = 0 /\ vals = 0 /\ hand = 0 /\ secretInner = 0 /\ reply = 0
    /\ client = 0 /\ trace = 0 /\ replies = 0
replayIdle ==
    /\ phase = 0 /\ replayAt = 0 /\ owed = 0 /\ replayTrace = 0 /\ wire = 0
    /\ buffered = 0 /\ waiting = 0 /\ verdicts = 0 /\ asks = 0 /\ timeouts = 0
hookIdle ==
    /\ proc = 0 /\ marks = 0 /\ grants = 0 /\ answered = 0 /\ fails = 0 /\ chain = 0
    /\ disabled = 0 /\ refused = 0
deskIdle ==
    /\ deskPending = 0 /\ approved = 0 /\ denied = 0 /\ asking = 0 /\ desk = 0
    /\ poll = 0 /\ requests = 0 /\ polls = 0 /\ answers = 0 /\ devices = 0 /\ woken = 0
    /\ pushFails = 0

Init ==
    /\ part \in Parts
    /\ CASE part = "code" -> EC!Init [] part = "exchange" -> EX!Init
         [] part = "refresh" -> ER!Init [] part = "reg" -> EG!Init [] OTHER -> edgeIdle
    /\ CASE part = "sess" -> ES!Init [] part = "revoke" -> EV!Init [] OTHER -> sessIdle
    /\ CASE part = "rotate" -> AR!TrailInit [] part = "seal" -> AS!TrailInit
         [] OTHER -> auditIdle
    /\ CASE part = "anchor" -> WA!AnchorInit [] part = "power" -> WP!AnchorInit
         [] OTHER -> anchorIdle
    /\ CASE part = "hold" -> GB!Init [] part = "caps" -> GU!Init [] part = "labels" -> GL!Init
         [] part = "spent" -> GS!Init [] part = "evict" -> GE!Init [] part = "rate" -> GR!Init
         [] OTHER -> gateIdle
    /\ CASE part = "lines" -> FA!FilterInit [] part = "shapes" -> FB!FilterInit
         [] OTHER -> filterIdle
    /\ CASE part = "secrets" -> SX!SecretInit [] OTHER -> secretIdle
    /\ CASE part = "replay" -> TA!ReplayInit [] part = "asks" -> TB!ReplayInit
         [] OTHER -> replayIdle
    /\ CASE part = "hooks" -> KA!HookInit [] part = "parallel" -> KB!HookInit
         [] part = "chain" -> KC!HookInit [] OTHER -> hookIdle
    /\ CASE part = "desk" -> DA!DeskInit [] part = "device" -> DB!DeskInit [] OTHER -> deskIdle
    /\ part \notin {"code", "exchange", "refresh", "reg", "hold", "caps", "labels", "spent",
         "evict", "rate"} =>
         /\ opr = 0
    /\ part \notin {"code", "exchange", "refresh", "reg", "desk", "device"} =>
         /\ decisions = 0
    /\ part \notin {"rotate", "seal", "lines", "shapes"} =>
         /\ cur = 0
    /\ part \notin {"rotate", "seal", "anchor", "power"} =>
         /\ crashes = 0
    /\ part \notin {"anchor", "power", "hooks", "parallel", "chain"} =>
         /\ pending = 0
    /\ part \notin {"hold", "caps", "labels", "spent", "evict", "rate", "secrets"} =>
         /\ labels = 0
    /\ part \notin {"hold", "caps", "labels", "spent", "evict", "rate", "lines", "shapes"} =>
         /\ trail = 0 /\ asked = 0
    /\ part \notin {"secrets", "hooks", "parallel", "chain"} =>
         /\ ledger = 0

Next ==
    \/ /\ UNCHANGED <<part, sessVars, auditVars, anchorVars, gateVars, filterVars, secretVars,
                     replayVars, hookVars, deskVars, cur, crashes, pending, labels, trail,
                     asked, ledger>>
       /\ \/ part = "code" /\ EC!Next
          \/ part = "exchange" /\ EX!Next
          \/ part = "refresh" /\ ER!Next
          \/ part = "reg" /\ EG!Next
    \/ /\ UNCHANGED <<part, edgeVars, auditVars, anchorVars, gateVars, filterVars, secretVars,
                     replayVars, hookVars, deskVars, opr, decisions, cur, crashes, pending,
                     labels, trail, asked, ledger>>
       /\ \/ part = "sess" /\ ES!Next
          \/ part = "revoke" /\ EV!Next
    \/ /\ UNCHANGED <<part, edgeVars, sessVars, anchorVars, gateVars, filterVars, secretVars,
                     replayVars, hookVars, deskVars, opr, decisions, pending, labels, trail,
                     asked, ledger>>
       /\ \/ part = "rotate" /\ AR!TrailNext
          \/ part = "seal" /\ AS!TrailNext
    \/ /\ UNCHANGED <<part, edgeVars, sessVars, auditVars, gateVars, filterVars, secretVars,
                     replayVars, hookVars, deskVars, opr, decisions, cur, labels, trail, asked,
                     ledger>>
       /\ \/ part = "anchor" /\ WA!AnchorNext
          \/ part = "power" /\ WP!AnchorNext
    \/ /\ UNCHANGED <<part, edgeVars, sessVars, auditVars, anchorVars, filterVars, secretVars,
                     replayVars, hookVars, deskVars, decisions, cur, crashes, pending, ledger>>
       /\ \/ part = "hold" /\ GB!Next
          \/ part = "caps" /\ GU!Next
          \/ part = "labels" /\ GL!Next
          \/ part = "spent" /\ GS!Next
          \/ part = "evict" /\ GE!Next
          \/ part = "rate" /\ GR!Next
    \/ /\ UNCHANGED <<part, edgeVars, sessVars, auditVars, anchorVars, gateVars, secretVars,
                     replayVars, hookVars, deskVars, opr, decisions, crashes, pending, labels,
                     ledger>>
       /\ \/ part = "lines" /\ FA!FilterNext
          \/ part = "shapes" /\ FB!FilterNext
    \/ /\ UNCHANGED <<part, edgeVars, sessVars, auditVars, anchorVars, gateVars, filterVars,
                     replayVars, hookVars, deskVars, opr, decisions, cur, crashes, pending,
                     trail, asked>>
       /\ part = "secrets" /\ SX!SecretNext
    \/ /\ UNCHANGED <<part, edgeVars, sessVars, auditVars, anchorVars, gateVars, filterVars,
                     secretVars, hookVars, deskVars, opr, decisions, cur, crashes, pending,
                     labels, trail, asked, ledger>>
       /\ \/ part = "replay" /\ TA!ReplayNext
          \/ part = "asks" /\ TB!ReplayNext
    \/ /\ UNCHANGED <<part, edgeVars, sessVars, auditVars, anchorVars, gateVars, filterVars,
                     secretVars, replayVars, deskVars, opr, decisions, cur, crashes, labels,
                     trail, asked>>
       /\ \/ part = "hooks" /\ KA!HookNext
          \/ part = "parallel" /\ KB!HookNext
          \/ part = "chain" /\ KC!HookNext
    \/ /\ UNCHANGED <<part, edgeVars, sessVars, auditVars, anchorVars, gateVars, filterVars,
                     secretVars, replayVars, hookVars, opr, cur, crashes, pending, labels,
                     trail, asked, ledger>>
       /\ \/ part = "desk" /\ DA!DeskNext
          \/ part = "device" /\ DB!DeskNext

Spec == Init /\ [][Next]_vars

-----------------------------------------------------------------------------
(* A code per approval, a token family per code, a successor per refresh    *)
(* token, a usable token per family, and registrations within the quota     *)
(* (EdgeOAuth); sessions serve only their own client and family             *)
(* (EdgeSession).                                                           *)
EdgeHolds ==
    /\ part = "code" => EC!TypeOK /\ EC!TokensSingleUse
    /\ part = "exchange" => EX!TypeOK /\ EX!OneFamilyPerCode
    /\ part = "refresh" => ER!TypeOK /\ ER!TokensSingleUse
    /\ part = "reg" => EG!TypeOK /\ EG!QuotaHolds
    /\ part = "sess" => ES!TypeOK /\ ES!SessionsContained
    /\ part = "revoke" => EV!TypeOK /\ EV!SessionsContained

(* What is forwarded was allowed, approved, recorded and paid for, but for  *)
(* a capability that expired between its verification and its use           *)
(* (PolicyGate).                                                            *)
GateHolds ==
    /\ part = "hold" => GB!TypeOK /\ GB!GateHolds
    /\ part = "caps" => GU!TypeOK /\ GU!GateHolds
    /\ part = "labels" => GL!TypeOK /\ GL!GateHolds
    /\ part = "spent" => GS!TypeOK /\ GS!GateHolds
    /\ part = "evict" => GE!TypeOK /\ GE!GateHolds
    /\ part = "rate" => GR!TypeOK /\ GR!GateHolds

(* A line reaches the backend only as the filter decided and recorded it    *)
(* (Filter.Write, Decide); a secret value goes only where a grant lets it   *)
(* and never back to the caller (SecretBroker); a replay compares each      *)
(* answer with the recorded one of its request, unless the server asked     *)
(* something itself under the same id (replay). A hook process lets a tool  *)
(* call pass only as the marks, grants and rules of its session allow, and  *)
(* records it (agenthook); an answer a requester polls is never one given   *)
(* to an earlier request (approvals).                                       *)
CallsHold ==
    /\ part = "lines" => FA!FilterHolds
    /\ part = "shapes" => FB!FilterHolds
    /\ part = "secrets" => SX!SecretsHold
    /\ part = "replay" => TA!ReplayHolds
    /\ part = "asks" => TB!ReplayHolds
    /\ part = "hooks" => KA!HooksHold
    /\ part = "parallel" => KB!HooksHold
    /\ part = "chain" => KC!HooksHold
    /\ part = "desk" => DA!NeverStale
    /\ part = "device" => DB!NeverStale

(* The log stays one chain through crashes, failed writes and rotation,     *)
(* unless something is appended behind a line that lacks its newline; when  *)
(* nothing fails its checkpoints verify (AuditTrail); the witness agrees    *)
(* with the checkpoints and none is lost from the queue (AuditAnchor).      *)
TrailHolds ==
    /\ part = "rotate" => AR!TrailTypeOK /\ AR!OneChain
    /\ part = "seal" => AS!TrailTypeOK /\ AS!OneChain /\ AS!CheckpointsVerify
    /\ part = "anchor" => WA!AnchorTypeOK /\ WA!AnchorHolds
    /\ part = "power" => WP!AnchorTypeOK /\ WP!AnchorHolds
=============================================================================
