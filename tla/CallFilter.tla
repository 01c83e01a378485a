----------------------------- MODULE CallFilter -----------------------------
(***************************************************************************)
(* The filter between a client and a backend: the lines it passes and      *)
(* refuses, the secrets it puts in and takes out again, and the trace it   *)
(* writes with the command that replays one. Each part is a specification  *)
(* of its own, with its own initial state and next-state relation; a       *)
(* behaviour is a behaviour of one of them.                                *)
(***************************************************************************)
EXTENDS Integers, SequencesExt, FiniteSets

-----------------------------------------------------------------------------
(***************************************************************************)
(* The filter around a stdio backend (policy/filter.go, classify.go,       *)
(* hook.go).  One goroutine writes what the peer sends: it puts lines      *)
(* together, classifies each, decides, records and forwards or answers it. *)
(* Another pumps what the backend says to the peer.  Both write to one     *)
(* synchronous pipe the peer reads from, a line under a lock.              *)
(*                                                                         *)
(* A message is what ClassifyRPC looks at; on the wire it is a sequence of *)
(* units, the last of which ends the line.  How the rules decide a call is *)
(* given by Rule; approvals, rates and labels are in PolicyGate, secrets   *)
(* in SecretBroker.                                                        *)
(***************************************************************************)
CONSTANTS
    Script,         \* what the peer sends: [shape, dup, method, id, name, token, units]
    Rule,           \* tool or method -> "allow" | "deny" | "cosign" | "none"
    Hooks,          \* decision hooks in order, each: tool -> outcome
    FailClosed,
    Says,           \* messages the backend sends unasked, by numbers above the script's
    LineCap,        \* maxLineBytes, in units
    MaxChunk,       \* units in one write of the peer
    MaxAuditFails,  \* writes of the ledger that fail
    MaxCloses       \* 1: the session may be closed at any time

VARIABLES
    sent,           \* units the peer has written
    wbuf,           \* Filter.wbuf
    pc,             \* the writing goroutine
    cur,            \* the message it handles, 0 for none
    inner,          \* what the backend has received: [msg, token]
    backOut,        \* units the backend has written and the pump not read
    pumpLine,       \* the pump's reassembly
    pump,           \* "read" | "write" | "ended": the pumping goroutine
    omu, pipe,      \* who writes to the pipe, and the units not yet read
    got,            \* units the peer has read
    trail,          \* the ledger: [msg, outcome]
    published,      \* what the event hook was told: [msg, outcome]
    open,           \* the pipe is open
    backUp,         \* the backend runs
    asked, auditFails, closes

filterVars == <<sent, wbuf, pc, cur, inner, backOut, pumpLine, pump, omu, pipe, got, trail,
                published, open, backUp, asked, auditFails, closes>>

Unit(m, i, n) == [msg |-> m, part |-> i, nl |-> i = n]
Line(m, n) == [i \in 1..n |-> Unit(m, i, n)]
Input == FlattenSeq([n \in DOMAIN Script |-> Line(n, Script[n].units)])

(***************************************************************************)
(* Classification and decision.                                            *)
(***************************************************************************)
validRequestID(id) == id \notin {"none", "null"}

(* (Mutated form: a call without an id passes for a notification.) *)
ClassifyRPCLoose(m) ==
    CASE m.shape = "blank" -> "empty"
      [] m.shape = "array" -> "batch"
      [] m.shape = "garbage" \/ m.dup -> "invalid"
      [] m.method = "tools/call" /\ validRequestID(m.id) -> IF m.name = "" THEN "invalid" ELSE "tool"
      [] OTHER -> IF m.id = "none" THEN "notification" ELSE "method"

ClassifyRPC(m) ==
    CASE m.shape = "blank" -> "empty"
      [] m.shape = "array" -> "batch"
      [] m.shape = "garbage" \/ m.dup -> "invalid"
      [] m.method = "tools/call" -> IF validRequestID(m.id) /\ m.name # "" THEN "tool" ELSE "invalid"
      [] OTHER -> IF m.id = "none" THEN "notification" ELSE "method"

outcomeSeverity(o) == CASE o = "deny" -> 2 [] o = "cosign" -> 1 [] OTHER -> 0

(* A hook may tighten the outcome and never relax it.                      *)
applyDecisionHooks(tool, base) ==
    LET said == {base} \cup {Hooks[i][tool] : i \in DOMAIN Hooks}
    IN CHOOSE o \in said : \A p \in said : outcomeSeverity(p) <= outcomeSeverity(o)

Decide(m) ==
    LET c == ClassifyRPC(m)
    IN CASE c \in {"batch", "invalid"} -> "deny"
         [] c = "tool" -> applyDecisionHooks(m.name, IF Rule[m.name] = "none" THEN "deny" ELSE Rule[m.name])
         [] OTHER -> Rule[m.method]

Strips(c) == c \in {"tool", "notification", "method"}

(***************************************************************************)
(* The writing goroutine.                                                  *)
(***************************************************************************)
NewLines == {i \in DOMAIN wbuf : wbuf[i].nl}

Write(k) ==
    /\ pc = "idle" /\ open /\ k >= 1 /\ k <= MaxChunk /\ sent + k <= Len(Input)
    /\ sent' = sent + k
    /\ LET b == wbuf \o SubSeq(Input, sent + 1, sent + k)
       IN IF Len(b) > LineCap
          THEN wbuf' = <<>> /\ pc' = "failed"
          ELSE wbuf' = b /\ pc' = "lines"
    /\ UNCHANGED <<cur, inner, backOut, pumpLine, pump, omu, pipe, got, trail, published, open, backUp, asked, auditFails, closes>>

Rest(i) == SubSeq(wbuf, i + 1, Len(wbuf))

(* The decision is recorded and published in one place.                    *)
audited(o, ok) ==
    /\ trail' = IF ok THEN Append(trail, [msg |-> cur', outcome |-> o]) ELSE trail
    /\ published' = Append(published, [msg |-> cur', outcome |-> o])
    /\ auditFails' = IF ok THEN auditFails ELSE auditFails + 1

Blocked(c, ok) == ~ok /\ FailClosed

(* What becomes of the line: passed on, answered or dropped.               *)
Fate(m, c, o, ok) ==
    CASE c = "empty" -> "lines"
      [] c \in {"batch", "invalid"} -> "deny"
      [] c = "notification" -> IF o = "none" \/ (o = "allow" /\ ~Blocked(c, ok)) THEN "forward" ELSE "lines"
      [] OTHER -> IF o = "none" \/ (o = "allow" /\ ~Blocked(c, ok)) THEN "forward" ELSE "deny"

handleLine(ok) ==
    LET i == CHOOSE j \in NewLines : \A k \in NewLines : j <= k
        m == Script[wbuf[i].msg]
        c == ClassifyRPC(m)
        o == IF c = "empty" THEN "none" ELSE Decide(m)
    IN /\ pc = "lines" /\ NewLines # {}
       /\ ok \/ (o # "none" /\ auditFails < MaxAuditFails)
       /\ cur' = wbuf[i].msg
       /\ wbuf' = Rest(i)
       /\ IF o = "none" THEN UNCHANGED <<trail, published, auditFails>> ELSE audited(o, ok)
       /\ pc' = Fate(m, c, o, ok)
       /\ UNCHANGED <<sent, inner, backOut, pumpLine, pump, omu, pipe, got, open, backUp, asked, closes>>

Returns ==
    /\ pc = "lines" /\ NewLines = {}
    /\ pc' = "idle"
    /\ UNCHANGED <<sent, wbuf, cur, inner, backOut, pumpLine, pump, omu, pipe, got, trail, published, open, backUp, asked, auditFails, closes>>

(* The line is written to the backend; a backend that is gone ends it.     *)
Forward ==
    /\ pc = "forward"
    /\ IF backUp
       THEN /\ inner' = Append(inner, [msg |-> cur, token |-> Script[cur].token /\ ~Strips(ClassifyRPC(Script[cur]))])
            /\ pc' = "lines"
       ELSE pc' = "failed" /\ UNCHANGED inner
    /\ UNCHANGED <<sent, wbuf, cur, backOut, pumpLine, pump, omu, pipe, got, trail, published, open, backUp, asked, auditFails, closes>>

(***************************************************************************)
(* The pipe: a line is written under omu and read unit by unit; once the   *)
(* pipe is closed a write returns at once.                                 *)
(***************************************************************************)
writeOut(who, line) ==
    /\ omu = "free"
    /\ IF open THEN omu' = who /\ pipe' = pipe \o line ELSE UNCHANGED <<omu, pipe>>

(* An answer to m carries the id of m; the ids of a denial are negative    *)
(* here, to tell them from what the backend says.                          *)
Deny ==
    /\ pc = "deny" /\ writeOut("filter", Line(-cur, 2))
    /\ pc' = IF open THEN "denying" ELSE "lines"
    /\ UNCHANGED <<sent, wbuf, cur, inner, backOut, pumpLine, pump, got, trail, published, open, backUp, asked, auditFails, closes>>

Read ==
    /\ pipe # <<>> /\ open
    /\ got' = Append(got, Head(pipe)) /\ pipe' = Tail(pipe)
    /\ IF Len(pipe) > 1
       THEN UNCHANGED <<omu, pc, pump>>
       ELSE /\ omu' = "free"
            /\ pc' = IF omu = "filter" THEN "lines" ELSE pc
            /\ pump' = IF omu = "pump" THEN "read" ELSE pump
    /\ UNCHANGED <<sent, wbuf, cur, inner, backOut, pumpLine, trail, published, open, backUp, asked, auditFails, closes>>

(***************************************************************************)
(* The backend, and the pump that frames what it says.                     *)
(***************************************************************************)
FilterRespond(n) ==
    /\ backUp /\ n \in DOMAIN inner /\ n \notin asked /\ validRequestID(Script[inner[n].msg].id)
    /\ asked' = asked \cup {n}
    /\ backOut' = backOut \o Line(inner[n].msg, 2)
    /\ UNCHANGED <<sent, wbuf, pc, cur, inner, pumpLine, pump, omu, pipe, got, trail, published, open, backUp, auditFails, closes>>

Say(m) ==
    /\ backUp /\ m \notin asked /\ m \in Says
    /\ asked' = asked \cup {m} /\ backOut' = backOut \o Line(m, 2)
    /\ UNCHANGED <<sent, wbuf, pc, cur, inner, pumpLine, pump, omu, pipe, got, trail, published, open, backUp, auditFails, closes>>

(* The backend exits, with the last line whole or not.                     *)
Exit ==
    /\ backUp /\ closes < MaxCloses
    /\ backUp' = FALSE /\ closes' = closes + 1
    /\ backOut' \in {backOut} \cup IF backOut = <<>> THEN {} ELSE {SubSeq(backOut, 1, Len(backOut) - 1)}
    /\ UNCHANGED <<sent, wbuf, pc, cur, inner, pumpLine, pump, omu, pipe, got, trail, published, open, asked, auditFails>>

PumpRead ==
    /\ pump = "read" /\ backOut # <<>> /\ ~\E i \in DOMAIN pumpLine : pumpLine[i].nl
    /\ \E k \in 1..Len(backOut) :
          /\ pumpLine' = pumpLine \o SubSeq(backOut, 1, k)
          /\ backOut' = SubSeq(backOut, k + 1, Len(backOut))
    /\ UNCHANGED <<sent, wbuf, pc, cur, inner, pump, omu, pipe, got, trail, published, open, backUp, asked, auditFails, closes>>

(* Whoever is writing returns, its line cut short.                         *)
ClosePipe ==
    /\ open' = FALSE /\ pipe' = <<>> /\ omu' = "free"
    /\ pc' = IF pc = "denying" THEN "lines" ELSE pc

(* (Mutated form: what has been read is passed on, line or not.) *)
LineEndsAny(b) == DOMAIN b

LineEnds(b) == {i \in DOMAIN b : b[i].nl}

(* The next whole line goes to the peer; at the end what is left goes too, *)
(* and the pipe is closed.                                                 *)
pumpInner ==
    LET ends == LineEnds(pumpLine)
        i    == CHOOSE j \in ends : \A k \in ends : j <= k
    IN /\ pump = "read"
       /\ \/ /\ ends # {} /\ writeOut("pump", SubSeq(pumpLine, 1, i))
             /\ pumpLine' = SubSeq(pumpLine, i + 1, Len(pumpLine))
             /\ pump' = IF open THEN "write" ELSE "read"
             /\ UNCHANGED <<open, pc>>
          \/ /\ ends = {} /\ backOut = <<>> /\ ~backUp /\ pumpLine # <<>>
             /\ writeOut("pump", pumpLine) /\ pumpLine' = <<>>
             /\ pump' = IF open THEN "write" ELSE "read"
             /\ UNCHANGED <<open, pc>>
          \/ /\ ends = {} /\ backOut = <<>> /\ ~backUp /\ pumpLine = <<>>
             /\ pump' = "ended" /\ ClosePipe /\ UNCHANGED pumpLine
    /\ UNCHANGED <<sent, wbuf, cur, inner, backOut, got, trail, published, backUp, asked, auditFails, closes>>

(* Close ends the backend and the pipe; writers in it return.              *)
Close ==
    /\ open /\ (pc = "failed" \/ closes < MaxCloses)
    /\ backUp' = FALSE /\ ClosePipe
    /\ pump' = IF pump = "write" THEN "read" ELSE pump
    /\ closes' = IF pc = "failed" THEN closes ELSE closes + 1
    /\ UNCHANGED <<sent, wbuf, cur, inner, backOut, pumpLine, got, trail, published, asked, auditFails>>

FilterInit ==
    /\ sent = 0 /\ wbuf = <<>> /\ pc = "idle" /\ cur = 0 /\ inner = <<>>
    /\ backOut = <<>> /\ pumpLine = <<>> /\ pump = "read" /\ omu = "free" /\ pipe = <<>> /\ got = <<>>
    /\ trail = <<>> /\ published = <<>> /\ open = TRUE /\ backUp = TRUE
    /\ asked = {} /\ auditFails = 0 /\ closes = 0

FilterNext ==
    \/ \E k \in 1..MaxChunk : Write(k)
    \/ \E ok \in BOOLEAN : handleLine(ok)
    \/ Returns \/ Forward \/ Deny \/ Read \/ Exit \/ PumpRead \/ pumpInner \/ Close
    \/ \E n \in DOMAIN inner : FilterRespond(n)
    \/ \E m \in Says : Say(m)

FilterSpec == FilterInit /\ [][FilterNext]_filterVars

(***************************************************************************)
(* Properties.                                                             *)
(***************************************************************************)
(* What the peer reads is whole lines, one after the other: a denial is    *)
(* never written inside a message of the backend, nor the other way round. *)
(* (The last line of a backend that died may be cut short.)                *)
WholeLines ==
    \A i \in DOMAIN got :
        /\ got[i].part = 1 => i = 1 \/ got[i - 1].nl \/ ~backUp
        /\ got[i].part > 1 => i > 1 /\ got[i - 1].msg = got[i].msg /\ got[i - 1].part = got[i].part - 1

(* A message reaches the backend at most once and in the order sent, only  *)
(* if the rules and every hook let it, and then it is not answered with a  *)
(* denial.  A request that is not passed on is answered once.              *)
OneFate ==
    /\ \A i, j \in DOMAIN inner : i < j => inner[i].msg < inner[j].msg
    /\ \A i \in DOMAIN inner :
          LET m == Script[inner[i].msg]
          IN /\ m.shape = "object" /\ ~m.dup
             /\ m.method = "tools/call" =>
                   /\ validRequestID(m.id) /\ m.name # "" /\ Rule[m.name] = "allow"
                   /\ \A h \in DOMAIN Hooks : Hooks[h][m.name] = "allow"
             /\ m.method # "tools/call" => Rule[m.method] \in {"allow", "none"}
             /\ ~\E u \in DOMAIN got : got[u].msg = -inner[i].msg
    /\ \A u, v \in DOMAIN got : got[u] = got[v] /\ got[u].msg < 0 => u = v
    /\ open /\ pc = "idle" /\ backUp => \A n \in 1..Len(Script) :
          /\ \E i \in 1..sent : Input[i].msg = n /\ Input[i].nl
          /\ Script[n].shape = "object" /\ validRequestID(Script[n].id)
          => (\E i \in DOMAIN inner : inner[i].msg = n) \/ (\E u \in DOMAIN got : got[u].msg = -n /\ got[u].nl)

(* Nothing that has to be recorded reaches the backend before its record   *)
(* is in the ledger when the ledger fails closed, and everything decided   *)
(* is published, recorded or not.                                          *)
RecordedFirst ==
    /\ \A i \in DOMAIN inner : FailClosed /\ Decide(Script[inner[i].msg]) # "none" =>
          \E r \in DOMAIN trail : trail[r].msg = inner[i].msg
    /\ \A r \in DOMAIN trail : \E q \in DOMAIN published : published[q] = trail[r]
    /\ Len(published) = Len(trail) + auditFails

(* A capability or delegation token never reaches the backend.             *)
NoTokenOut == \A i \in DOMAIN inner : ~inner[i].token

FilterHolds == WholeLines /\ OneFate /\ RecordedFirst /\ NoTokenOut

-----------------------------------------------------------------------------
(***************************************************************************)
(* Secrets stay at the gateway: a tool call names them by marker           *)
(* ({{secret:name}} inside its arguments), the broker (secrets/broker.go)  *)
(* puts the value in after the call was decided, audited and traced, and   *)
(* the filter's pump (policy/filter.go, policy/redact.go) takes injected   *)
(* values out of the backend's lines before the client reads them.  The    *)
(* handler of calls and the pump of replies run concurrently.              *)
(*                                                                         *)
(* A call is [tool, sites, emits]: its markers, as pairs [name, path], and *)
(* the labels its rule puts on the session.  A line is the set of values   *)
(* in it.  Values are opaque: one that hides inside another, or that the   *)
(* backend re-encodes, is beyond the model and the code's promise.         *)
(***************************************************************************)
CONSTANTS
  Calls,          \* sequence of calls of one session, in the client's order
  Stores,         \* the chain of stores: sequence of name -> value
  Peer,           \* the caller
  Grants,         \* [peers, secrets, tools, locations, blocked]: sets of names; {} = any
  Short,          \* values below redactMinLen
  Denied,         \* tools the policy denies
  MaxReplies

VARIABLES
  at, secretPc,         \* the call being handled and the step it has reached
  labels, vals,   \* labels of the session; the redactor's values
  hand,           \* the values found for the call being handled
  secretInner, reply,   \* values the backend was given; lines it has written and the pump has not read
  client, trace,  \* lines the client read; lines traced
  ledger,         \* records [name, decision] of the broker
  replies

secretVars == <<at, secretPc, labels, vals, hand, secretInner, reply, client, trace, ledger, replies>>

Call == Calls[at]

(* Chain.Get: the first store that has the name. *)
Found(name) == \E i \in DOMAIN Stores : name \in DOMAIN Stores[i]

Get(name) == Stores[CHOOSE i \in DOMAIN Stores : name \in DOMAIN Stores[i] /\ \A k \in 1 .. i - 1 : name \notin DOMAIN Stores[k]][name]

(***************************************************************************)
(* authorize: some grant covers the caller, the secret, the tool and the   *)
(* place in the arguments, and none of the session's labels blocks it.     *)
(***************************************************************************)
matchPeer(g) == g.peers = {} \/ Peer \in g.peers

authorize(s) ==
  \E g \in Grants :
    /\ matchPeer(g)
    /\ s.name \in g.secrets
    /\ g.tools = {} \/ Call.tool \in g.tools
    /\ g.locations = {} \/ s.path \in g.locations
    /\ g.blocked \cap labels = {}

Refused == {i \in DOMAIN Call.sites : ~authorize(Call.sites[i]) \/ ~Found(Call.sites[i].name)}

(***************************************************************************)
(* handleToolCall: decision, record and trace, then the labels of the      *)
(* rule, then Resolve: every marker is checked before any value is used.   *)
(***************************************************************************)
Begin ==
  /\ secretPc = "idle" /\ at < Len(Calls)
  /\ at' = at + 1 /\ trace' = Append(trace, {})
  /\ IF Calls[at + 1].tool \in Denied THEN secretPc' = "idle" /\ UNCHANGED labels
     ELSE secretPc' = "resolve" /\ labels' = labels \cup Calls[at + 1].emits
  /\ UNCHANGED <<vals, hand, secretInner, reply, client, ledger, replies>>

Names(sites) == {sites[i].name : i \in DOMAIN sites}

Resolve ==
  /\ secretPc = "resolve"
  /\ IF Refused # {}
     THEN /\ ledger' = ledger \cup {[name |-> Call.sites[CHOOSE i \in Refused : \A k \in Refused : i <= k].name, decision |-> "deny", call |-> at]}
          /\ secretPc' = "idle" /\ UNCHANGED hand
     ELSE /\ hand' = {Get(n) : n \in Names(Call.sites)}
          /\ ledger' = ledger \cup {[name |-> n, decision |-> "allow", call |-> at] : n \in Names(Call.sites)}
          /\ secretPc' = "add"
  /\ UNCHANGED <<at, labels, vals, secretInner, reply, client, trace, replies>>

(***************************************************************************)
(* The redactor knows a value before the backend does.                     *)
(* (Mutated form: it is given the values of the previous call.)            *)
(***************************************************************************)
AddsLater == vals' = vals \cup (secretInner \ Short)

Adds == vals' = vals \cup (hand \ Short)

RedactorAdd ==
  /\ secretPc = "add" /\ secretPc' = "write" /\ Adds
  /\ UNCHANGED <<at, labels, hand, secretInner, reply, client, trace, ledger, replies>>

WriteInner ==
  /\ secretPc = "write" /\ secretPc' = "written"
  /\ secretInner' = secretInner \cup hand
  /\ UNCHANGED <<at, labels, vals, hand, reply, client, trace, ledger, replies>>

(* The handler returns. *)
Handled ==
  /\ secretPc = "written" /\ secretPc' = "idle" /\ hand' = {}
  /\ UNCHANGED <<at, labels, vals, secretInner, reply, client, trace, ledger, replies>>

(* The backend writes a line with any of the values it was given. *)
Reply(x) ==
  /\ replies < MaxReplies /\ replies' = replies + 1
  /\ reply' = Append(reply, x)
  /\ UNCHANGED <<at, secretPc, labels, vals, hand, secretInner, client, trace, ledger>>

(* pumpInner: each line is redacted, then traced, then written out. *)
Redact(x) == x \ vals

Pump ==
  /\ reply # <<>>
  /\ reply' = Tail(reply) /\ client' = Append(client, Redact(Head(reply))) /\ trace' = Append(trace, Redact(Head(reply)))
  /\ UNCHANGED <<at, secretPc, labels, vals, hand, secretInner, ledger, replies>>

SecretInit ==
  /\ at = 0 /\ secretPc = "idle" /\ labels = {} /\ vals = {} /\ hand = {} /\ secretInner = {} /\ reply = <<>> /\ client = <<>> /\ trace = <<>>
  /\ ledger = {} /\ replies = 0

SecretNext ==
  \/ Begin \/ Resolve \/ RedactorAdd \/ WriteInner \/ Handled \/ Pump
  \/ \E x \in SUBSET secretInner : Reply(x)

SecretSpec == SecretInit /\ [][SecretNext]_secretVars

(***************************************************************************)
(* No injected value that is long enough to be redacted is ever in a line  *)
(* the client reads or the tracer records, whichever of handler, backend   *)
(* and pump is ahead.                                                      *)
(***************************************************************************)
NoEcho ==
  /\ \A i \in DOMAIN client : client[i] \subseteq Short
  /\ \A i \in DOMAIN trace : trace[i] \subseteq Short

(***************************************************************************)
(* A call is given its secrets as a whole or not at all: when a call was   *)
(* allowed its values, each marker in it had a grant for that place.       *)
(***************************************************************************)
AllOrNothing ==
  \A r \in ledger : r.decision = "allow" =>
    \A k \in DOMAIN Calls[r.call].sites :
      LET s == Calls[r.call].sites[k]
      IN  \E g \in Grants :
            /\ g.peers = {} \/ Peer \in g.peers
            /\ s.name \in g.secrets /\ (g.tools = {} \/ Calls[r.call].tool \in g.tools) /\ (g.locations = {} \/ s.path \in g.locations)
            /\ g.blocked \cap UNION {Calls[c].emits : c \in {x \in 1 .. r.call : Calls[x].tool \notin Denied}} = {}

SecretsHold == NoEcho /\ AllOrNothing

-----------------------------------------------------------------------------
(***************************************************************************)
(* Session tracing and `meshmcp replay` (policy/trace.go, policy/replay.go,*)
(* cmd/meshmcp/replay.go).                                                 *)
(*                                                                         *)
(* First a session is recorded: the client sends requests and              *)
(* notifications, the server answers in any order, and the tracer writes   *)
(* one event for each message in the order the messages pass.  Then the    *)
(* requests are sent again, one after the other, and each fresh answer is  *)
(* compared with the recorded one.  An answer may take longer than the     *)
(* replay waits for it and arrive while a later one is awaited.            *)
(*                                                                         *)
(* The answer of a server is a function of the method and the parameters;  *)
(* the one replayed against may be another version, which answers some     *)
(* calls otherwise.                                                        *)
(***************************************************************************)
CONSTANTS
    Recording,         \* what the client sends: [id, key, big]; id 0 is a notification
    Changed,        \* the keys the server replayed against answers differently
    ServerAsks,     \* ids of requests the server sends the client on its own
    Payloads,       \* TraceOptions.Payloads
    ForkAt,         \* --fork
    MaxTimeouts     \* how many times an answer takes too long

VARIABLES
    phase,      \* "record" | "replay" | "done"
    replayAt,         \* the next message of the script, or of the replay
    owed,       \* the requests a server has to answer: [id, key]
    replayTrace,      \* the events: [dir, kind, id, payload]
    wire,       \* what the server of the replay has sent: [id, payload]
    buffered,   \* answers that came while another was awaited
    waiting,    \* the id runReplay waits for, 0 for none
    verdicts,   \* one for each request replayed: [id, key, verdict, got]
    asks,       \* the requests of its own the server has not sent yet
    timeouts

replayVars == <<phase, replayAt, owed, replayTrace, wire, buffered, waiting, verdicts, asks, timeouts>>

Truncated == "truncated"
NoPayload == "none"
NoResult == <<"none">>     \* of a message that is not a response

(* What the two servers answer.                                            *)
Answer(k) == <<"answer", k>>
AnswerNow(k) == IF k \in Changed THEN <<"changed", k>> ELSE Answer(k)

(***************************************************************************)
(* Recording.  A payload longer than the cap is replaced by a marker.      *)
(***************************************************************************)
capPayload(p, big) == IF ~Payloads THEN NoPayload ELSE IF big THEN Truncated ELSE p

Event(dir, kind, id, payload) == [dir |-> dir, kind |-> kind, id |-> id, payload |-> payload]

RecordRequest ==
    LET m == Recording[replayAt]
    IN /\ phase = "record" /\ replayAt <= Len(Recording)
       /\ replayTrace' = Append(replayTrace, Event("c2s", IF m.id = 0 THEN "notification" ELSE "request", m.id, capPayload(m.key, m.big)))
       /\ owed' = IF m.id = 0 THEN owed ELSE owed \cup {[id |-> m.id, key |-> m.key]}
       /\ replayAt' = replayAt + 1
       /\ UNCHANGED <<phase, wire, buffered, waiting, verdicts, asks, timeouts>>

RecordResponse(q) ==
    /\ phase = "record" /\ q \in owed
    /\ replayTrace' = Append(replayTrace, Event("s2c", "response", q.id, capPayload(Answer(q.key), FALSE)))
    /\ owed' = owed \ {q}
    /\ UNCHANGED <<phase, replayAt, wire, buffered, waiting, verdicts, asks, timeouts>>

(* A request of the server's own passes through the trace as well.         *)
RecordAsk(i) ==
    /\ phase = "record" /\ i \in asks
    /\ replayTrace' = Append(replayTrace, Event("s2c", "request", i, NoPayload))
    /\ asks' = asks \ {i}
    /\ UNCHANGED <<phase, replayAt, owed, wire, buffered, waiting, verdicts, timeouts>>

(* The session ends, answered or not, and its trace is replayed.           *)
StartReplay ==
    /\ phase = "record" /\ replayAt > 1
    /\ phase' = "replay" /\ replayAt' = 1 /\ owed' = {} /\ asks' = ServerAsks
    /\ UNCHANGED <<replayTrace, wire, buffered, waiting, verdicts, timeouts>>

(***************************************************************************)
(* ExtractReplay: the client's messages in order, and the recorded answers *)
(* by id.                                                                  *)
(***************************************************************************)
Requests == SelectSeq(replayTrace, LAMBDA ev : ev.dir = "c2s" /\ ev.kind \in {"request", "notification"})

Fork(reqs) == IF ForkAt <= 0 \/ ForkAt >= Len(reqs) THEN reqs ELSE SubSeq(reqs, 1, ForkAt)

(* (Mutated form: the n-th answer recorded is the answer to the n-th       *)
(* request.)                                                               *)
OrigRespByOrder(id) ==
    LET answers == SelectSeq(replayTrace, LAMBDA ev : ev.dir = "s2c" /\ ev.kind = "response")
        calls   == SelectSeq(replayTrace, LAMBDA ev : ev.dir = "c2s" /\ ev.kind = "request")
        n       == CHOOSE i \in DOMAIN calls : calls[i].id = id
    IN IF n \in DOMAIN answers THEN {answers[n].payload} ELSE {}

(* The answer recorded for an id, if any: the last one.                    *)
OrigResp(id) ==
    LET ns == {n \in DOMAIN replayTrace : replayTrace[n].dir = "s2c" /\ replayTrace[n].kind = "response" /\ replayTrace[n].id = id}
    IN {replayTrace[n].payload : n \in {k \in ns : \A j \in ns : j <= k}}

(***************************************************************************)
(* runReplay.                                                              *)
(***************************************************************************)
Reqs == Fork(Requests)

(* A message is written; a notification is not waited for.                 *)
Send ==
    /\ phase = "replay" /\ waiting = 0 /\ replayAt <= Len(Reqs)
    /\ IF Reqs[replayAt].kind = "notification"
       THEN replayAt' = replayAt + 1 /\ UNCHANGED <<owed, waiting>>
       ELSE /\ owed' = owed \cup {[id |-> Reqs[replayAt].id, key |-> Reqs[replayAt].payload]}
            /\ waiting' = Reqs[replayAt].id
            /\ UNCHANGED replayAt
    /\ UNCHANGED <<phase, replayTrace, wire, buffered, verdicts, asks, timeouts>>

ReplayRespond(q) ==
    /\ phase = "replay" /\ q \in owed
    /\ wire' = Append(wire, [id |-> q.id, payload |-> AnswerNow(q.key)])
    /\ owed' = owed \ {q}
    /\ UNCHANGED <<phase, replayAt, replayTrace, buffered, waiting, verdicts, asks, timeouts>>

(* The server asks something itself.  runReplay keeps whatever has an id,  *)
(* a request of the server's too; mcp.Server numbers its own from 1.       *)
Ask(i) ==
    /\ phase = "replay" /\ i \in asks
    /\ wire' = Append(wire, [id |-> i, payload |-> NoResult])
    /\ asks' = asks \ {i}
    /\ UNCHANGED <<phase, replayAt, owed, replayTrace, buffered, waiting, verdicts, timeouts>>

DiffResponse(want, answered) == want = answered

Judged(answered) ==
    LET want == OrigResp(waiting)
    IN IF want = {} THEN "new" ELSE IF DiffResponse(CHOOSE w \in want : TRUE, answered) THEN "ok" ELSE "diff"

Verdict(v, answered) ==
    /\ verdicts' = Append(verdicts, [id |-> waiting, key |-> Reqs[replayAt].payload, verdict |-> v, got |-> answered])
    /\ waiting' = 0 /\ replayAt' = replayAt + 1

IsAwaited(m) == m.id = waiting

(* The answer awaited has come before, while another was awaited ...       *)
TakeBuffered ==
    /\ phase = "replay" /\ waiting # 0
    /\ \E m \in buffered : IsAwaited(m) /\ Verdict(Judged(m.payload), m.payload) /\ buffered' = buffered \ {m}
    /\ UNCHANGED <<phase, owed, replayTrace, wire, asks, timeouts>>

(* ... comes now, or another does and is put by, over one with its id.     *)
Receive ==
    /\ phase = "replay" /\ waiting # 0 /\ wire # <<>>
    /\ ~\E m \in buffered : IsAwaited(m)
    /\ wire' = Tail(wire)
    /\ IF IsAwaited(Head(wire))
       THEN Verdict(Judged(Head(wire).payload), Head(wire).payload) /\ UNCHANGED buffered
       ELSE /\ buffered' = {m \in buffered : m.id # Head(wire).id} \cup {Head(wire)}
            /\ UNCHANGED <<verdicts, waiting, replayAt>>
    /\ UNCHANGED <<phase, owed, replayTrace, asks, timeouts>>

TimeOut ==
    /\ phase = "replay" /\ waiting # 0 /\ wire = <<>> /\ timeouts < MaxTimeouts
    /\ ~\E m \in buffered : IsAwaited(m)
    /\ Verdict("timeout", NoPayload) /\ timeouts' = timeouts + 1
    /\ UNCHANGED <<phase, owed, replayTrace, wire, buffered, asks>>

Finish ==
    /\ phase = "replay" /\ waiting = 0 /\ replayAt > Len(Reqs)
    /\ phase' = "done"
    /\ UNCHANGED <<replayAt, owed, replayTrace, wire, buffered, waiting, verdicts, asks, timeouts>>

ReplayInit ==
    /\ phase = "record" /\ replayAt = 1 /\ owed = {} /\ replayTrace = <<>> /\ wire = <<>>
    /\ buffered = {} /\ waiting = 0 /\ verdicts = <<>> /\ asks = ServerAsks /\ timeouts = 0

ReplayNext ==
    \/ RecordRequest \/ StartReplay \/ Send \/ TakeBuffered \/ Receive \/ TimeOut \/ Finish
    \/ \E q \in owed : RecordResponse(q) \/ ReplayRespond(q)
    \/ \E i \in asks : RecordAsk(i) \/ Ask(i)

ReplaySpec == ReplayInit /\ [][ReplayNext]_replayVars

(***************************************************************************)
(* Properties.                                                             *)
(***************************************************************************)
(* What is compared is the answer to that very call, however late the      *)
(* answers to earlier calls came.  The exception the code leaves: a        *)
(* request of the server's own that bears the id of the call is taken for  *)
(* its answer (cmd/meshmcp/replay.go runReplay skips only what has no id). *)
TakenForAnswer(v) == v.id \in ServerAsks /\ v.got = NoResult
ComparesOwn ==
    \A n \in DOMAIN verdicts :
        verdicts[n].verdict # "timeout" =>
            verdicts[n].got = AnswerNow(verdicts[n].key) \/ TakenForAnswer(verdicts[n])

(* A replay that ends without a divergence has had, for every call with a  *)
(* recorded answer, that same answer; and a server that has not changed    *)
(* diverges nowhere but where its own request was taken for an answer.     *)
DivergencesTrue ==
    /\ \A n \in DOMAIN verdicts :
          verdicts[n].verdict = "diff" => verdicts[n].key \in Changed \/ TakenForAnswer(verdicts[n])
    /\ phase = "done" /\ (\A n \in DOMAIN verdicts : verdicts[n].verdict \in {"ok", "new"}) =>
          \A n \in DOMAIN Reqs : Reqs[n].kind = "request" /\ OrigResp(Reqs[n].id) # {} =>
              Reqs[n].payload \notin Changed

ReplayHolds == ComparesOwn /\ DivergencesTrue

=============================================================================
