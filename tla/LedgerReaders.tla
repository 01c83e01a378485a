--------------------------- MODULE LedgerReaders ----------------------------
(***************************************************************************)
(* What reads the audit ledger while the gateway appends to it: the        *)
(* dashboard, the exporter and the event hooks inside the gateway, and the *)
(* audit commands of an operator. Each part is a specification of its own, *)
(* with its own initial state and next-state relation; a behaviour is a    *)
(* behaviour of one of them.                                               *)
(***************************************************************************)
EXTENDS Sequences, FiniteSets, Integers

-----------------------------------------------------------------------------
(***************************************************************************)
(* What reads the audit ledger while the gateway writes it:                *)
(*  - the dashboard's tailer (cmd/meshmcp/dash.go) and the accumulator it  *)
(*    feeds (policy/analyze.go), across size rotation of the ledger;       *)
(*  - the OTLP exporter (cmd/meshmcp/otlpsink.go), which batches records   *)
(*    from a bounded queue and drains it on Close;                         *)
(*  - the gateway's event hooks (cmd/meshmcp/hooks.go): one bounded queue  *)
(*    and worker for the bus and one for the webhook.                      *)
(* A record is its sequence number and takes one unit of the file.         *)
(***************************************************************************)
CONSTANTS
  MaxRecords, RotateAt, MaxHalf,
  Appenders, QueueSize, BatchSize, MaxFaults,
  Sinks,         \* of the event hooks: "bus", "webhook"
  HookQueue, MaxEvents

VARIABLES
  segs,      \* the ledger's files, the last one active: sequences of sequence numbers
  half,      \* the active file ends in half a line
  halves,
  tail,      \* the tailer: [pc, f, off, primed, from]
  acc,       \* the accumulator: [count, seq, broken]; slipped: it missed a rotation
  appender,  \* of the exporter: caller -> "idle", "checked", "done"
  ch, batch, worker, closed, dropped, delivered, lost, abandoned, racing, faults,
  event,     \* event hooks: how many were emitted
  hook       \* sink -> [queue, sent, dropped, worker]

ledgerVars == <<segs, half, halves, tail, acc>>
otlpVars == <<appender, ch, batch, worker, closed, dropped, delivered, lost, abandoned, racing, faults>>
hookVars == <<event, hook>>
viewVars == <<segs, half, halves, tail, acc, appender, ch, batch, worker, closed, dropped, delivered, lost, abandoned, racing, faults, event, hook>>

RECURSIVE SumLen(_)
SumLen(s) == IF s = <<>> THEN 0 ELSE Len(Head(s)) + SumLen(Tail(s))
Total == SumLen(segs)
Active == segs[Len(segs)]

-----------------------------------------------------------------------------
(* The writer: a record, or the first half of one, and rotation when full. *)
Rotate ==
  /\ Len(Active) >= RotateAt /\ ~half
  /\ segs' = Append(segs, <<>>)
  /\ UNCHANGED <<half, halves, tail, acc>> /\ UNCHANGED otlpVars /\ UNCHANGED hookVars

WriteHalf ==
  /\ ~half /\ halves < MaxHalf /\ Len(Active) < RotateAt /\ Total < MaxRecords
  /\ half' = TRUE /\ halves' = halves + 1
  /\ UNCHANGED <<segs, tail, acc>> /\ UNCHANGED otlpVars /\ UNCHANGED hookVars

WriteRecord ==
  /\ Len(Active) < RotateAt /\ Total < MaxRecords
  /\ segs' = [segs EXCEPT ![Len(segs)] = Append(@, Total + 1)] /\ half' = FALSE
  /\ UNCHANGED <<halves, tail, acc>> /\ UNCHANGED otlpVars /\ UNCHANGED hookVars

(***************************************************************************)
(* AddLine and checkChain: once broken it stays broken, while the counts   *)
(* go on.  0 stands for a line that does not parse.                        *)
(***************************************************************************)
NewAccumulator == [count |-> 0, seq |-> 0, broken |-> FALSE, slipped |-> FALSE]

AddLine(a, n) ==
  [count |-> IF n = 0 THEN a.count ELSE a.count + 1,
   seq |-> IF ~a.broken /\ n = a.seq + 1 THEN n ELSE a.seq,
   broken |-> a.broken \/ n # a.seq + 1,
   slipped |-> a.slipped]

RECURSIVE FoldLines(_, _)
FoldLines(a, lines) == IF lines = <<>> THEN a ELSE FoldLines(AddLine(a, Head(lines)), Tail(lines))

RECURSIVE FoldFiles(_, _)
FoldFiles(a, files) == IF files = <<>> THEN a ELSE FoldFiles(FoldLines(a, Head(files)), Tail(files))

(***************************************************************************)
(* summary, first half: the active file is opened and its size compared    *)
(* with what was folded of it.  A shorter one means it was rotated away;   *)
(* another file that is not shorter goes unnoticed.                        *)
(***************************************************************************)
Restarted == [acc |-> NewAccumulator, off |-> 0, primed |-> FALSE]

OpenLedger ==
  /\ tail.pc = "idle"
  /\ LET again == IF Len(Active) + (IF half THEN 1 ELSE 0) < tail.off THEN Restarted
                  ELSE [acc |-> [acc EXCEPT !.slipped = @ \/ (tail.primed /\ tail.f # Len(segs))],
                        off |-> tail.off, primed |-> tail.primed]
     IN  /\ acc' = again.acc
         /\ tail' = [pc |-> "opened", f |-> Len(segs), off |-> again.off, primed |-> again.primed,
                     from |-> Total]
  /\ UNCHANGED <<segs, half, halves>> /\ UNCHANGED otlpVars /\ UNCHANGED hookVars

(* The archives are listed now: one that was active when it was opened is  *)
(* among them.                                                             *)
FoldArchives ==
  /\ tail.pc = "opened"
  /\ acc' = IF tail.primed THEN acc
            ELSE FoldFiles([acc EXCEPT !.slipped = tail.f # Len(segs)], SubSeq(segs, 1, Len(segs) - 1))
  /\ tail' = [tail EXCEPT !.pc = "read", !.primed = TRUE]
  /\ UNCHANGED <<segs, half, halves>> /\ UNCHANGED otlpVars /\ UNCHANGED hookVars

(***************************************************************************)
(* The complete lines after the offset, of the file that was opened.       *)
(* (Mutated form: the half line at the end is taken too.)                  *)
(***************************************************************************)
CompleteAndHalf(f) == SubSeq(segs[f], tail.off + 1, Len(segs[f])) \o (IF half /\ f = Len(segs) THEN <<0>> ELSE <<>>)

Complete(f) == SubSeq(segs[f], tail.off + 1, Len(segs[f]))

ReadLines ==
  /\ tail.pc = "read"
  /\ acc' = FoldLines(acc, Complete(tail.f))
  /\ tail' = [tail EXCEPT !.pc = "shown", !.off = @ + Len(Complete(tail.f))]
  /\ UNCHANGED <<segs, half, halves>> /\ UNCHANGED otlpVars /\ UNCHANGED hookVars

Shown ==
  /\ tail.pc = "shown" /\ tail' = [tail EXCEPT !.pc = "idle"]
  /\ UNCHANGED <<segs, half, halves, acc>> /\ UNCHANGED otlpVars /\ UNCHANGED hookVars

-----------------------------------------------------------------------------
(***************************************************************************)
(* The exporter.  Append looks at `closed`, then offers the record to the  *)
(* queue without waiting.                                                  *)
(* (Mutated form: it does not look.)                                       *)
(***************************************************************************)
AppendUnchecked(c) ==
  /\ appender[c] = "idle"
  /\ appender' = [appender EXCEPT ![c] = "checked"] /\ UNCHANGED dropped
  /\ UNCHANGED <<ch, batch, worker, closed, delivered, lost, abandoned, racing, faults>>
  /\ UNCHANGED ledgerVars /\ UNCHANGED hookVars

AppendRecord(c) ==
  /\ appender[c] = "idle"
  /\ IF closed THEN appender' = [appender EXCEPT ![c] = "done"] /\ dropped' = dropped + 1
     ELSE appender' = [appender EXCEPT ![c] = "checked"] /\ UNCHANGED dropped
  /\ UNCHANGED <<ch, batch, worker, closed, delivered, lost, abandoned, racing, faults>>
  /\ UNCHANGED ledgerVars /\ UNCHANGED hookVars

Offer(c) ==
  /\ appender[c] = "checked"
  /\ appender' = [appender EXCEPT ![c] = "done"]
  /\ IF Len(ch) < QueueSize THEN ch' = Append(ch, c) /\ UNCHANGED dropped
     ELSE dropped' = dropped + 1 /\ UNCHANGED ch
  /\ UNCHANGED <<batch, worker, closed, delivered, lost, abandoned, racing, faults>>
  /\ UNCHANGED ledgerVars /\ UNCHANGED hookVars

(* Export(ok): one POST.  A batch that fails outside the drain is logged and gone. *)
Export(ok) ==
  /\ batch' = <<>>
  /\ IF ok THEN delivered' = delivered \o batch /\ UNCHANGED <<lost, faults>>
     ELSE faults < MaxFaults /\ faults' = faults + 1 /\ lost' = lost + Len(batch) /\ UNCHANGED delivered

Take ==
  /\ worker \in {"loop", "drain"} /\ ch # <<>> /\ Len(batch) < BatchSize
  /\ batch' = Append(batch, Head(ch)) /\ ch' = Tail(ch)
  /\ UNCHANGED <<appender, worker, closed, dropped, delivered, lost, abandoned, racing, faults>>
  /\ UNCHANGED ledgerVars /\ UNCHANGED hookVars

(* A full batch, or the ticker. *)
Flush ==
  /\ worker = "loop" /\ batch # <<>> /\ \E ok \in BOOLEAN : Export(ok)
  /\ UNCHANGED <<appender, ch, worker, closed, dropped, abandoned, racing>>
  /\ UNCHANGED ledgerVars /\ UNCHANGED hookVars

Close ==
  /\ ~closed /\ closed' = TRUE
  /\ racing' = {c \in Appenders : appender[c] = "checked"}
  /\ UNCHANGED <<appender, ch, batch, worker, dropped, delivered, lost, abandoned, faults>>
  /\ UNCHANGED ledgerVars /\ UNCHANGED hookVars

Quit ==
  /\ worker = "loop" /\ closed /\ Len(batch) < BatchSize /\ worker' = "drain"
  /\ UNCHANGED <<appender, ch, batch, closed, dropped, delivered, lost, abandoned, racing, faults>>
  /\ UNCHANGED ledgerVars /\ UNCHANGED hookVars

(***************************************************************************)
(* exportDrain: a failed export, or the deadline, ends the drain, and what *)
(* is left is counted as dropped.                                          *)
(***************************************************************************)
Abandoned == Len(batch) + Len(ch)

ExportDrain ==
  /\ worker = "drain" /\ batch # <<>> /\ (Len(batch) = BatchSize \/ ch = <<>>)
  /\ \/ /\ Export(TRUE) /\ worker' = IF Len(batch) = BatchSize THEN "drain" ELSE "ended"
        /\ UNCHANGED <<dropped, abandoned>>
     \/ /\ faults < MaxFaults /\ faults' = faults + 1
        /\ dropped' = dropped + Abandoned /\ abandoned' = Len(ch)
        /\ worker' = "ended" /\ batch' = <<>> /\ UNCHANGED <<delivered, lost>>
  /\ UNCHANGED <<appender, ch, closed, racing>>
  /\ UNCHANGED ledgerVars /\ UNCHANGED hookVars

DrainEnds ==
  /\ worker = "drain" /\ batch = <<>> /\ ch = <<>> /\ worker' = "ended"
  /\ UNCHANGED <<appender, ch, batch, closed, dropped, delivered, lost, abandoned, racing, faults>>
  /\ UNCHANGED ledgerVars /\ UNCHANGED hookVars

-----------------------------------------------------------------------------
(***************************************************************************)
(* The event hooks.  Emit offers the event to every sink's own queue.      *)
(***************************************************************************)
Room(s) == Len(hook[s].queue) < HookQueue

Emit ==
  /\ event < MaxEvents /\ event' = event + 1
  /\ hook' = [s \in Sinks |-> IF Room(s) THEN [hook[s] EXCEPT !.queue = Append(@, event')]
                              ELSE [hook[s] EXCEPT !.dropped = @ \cup {<<event', Len(hook[s].queue)>>}]]
  /\ UNCHANGED ledgerVars /\ UNCHANGED otlpVars

(* busWorker, webhookWorker: one event; a failing post is not repeated. *)
Deliver(s) ==
  /\ hook[s].worker = "loop" /\ hook[s].queue # <<>>
  /\ hook' = [hook EXCEPT ![s] = [@ EXCEPT !.queue = Tail(@), !.sent = Append(@, Head(hook[s].queue))]]
  /\ UNCHANGED event /\ UNCHANGED ledgerVars /\ UNCHANGED otlpVars

(* Close: the worker stops at its next turn, with whatever its queue holds. *)
StopHooks(s) ==
  /\ hook[s].worker = "loop" /\ hook' = [hook EXCEPT ![s].worker = "ended"]
  /\ UNCHANGED event /\ UNCHANGED ledgerVars /\ UNCHANGED otlpVars

-----------------------------------------------------------------------------
(* newGatewayHooks: a queue and a worker for each configured sink.         *)
newGatewayHooks == [s \in Sinks |-> [queue |-> <<>>, sent |-> <<>>, dropped |-> {}, worker |-> "loop"]]

(* cmdDash: every request of the page asks the tailer for a summary.       *)
dashboard == OpenLedger \/ FoldArchives \/ ReadLines \/ Shown

ViewInit ==
  /\ segs = <<<<>>>> /\ half = FALSE /\ halves = 0
  /\ tail = [pc |-> "idle", f |-> 0, off |-> 0, primed |-> FALSE, from |-> 0] /\ acc = NewAccumulator
  /\ appender = [c \in Appenders |-> "idle"] /\ ch = <<>> /\ batch = <<>> /\ worker = "loop" /\ closed = FALSE
  /\ dropped = 0 /\ delivered = <<>> /\ lost = 0 /\ abandoned = 0 /\ racing = {} /\ faults = 0
  /\ event = 0 /\ hook = newGatewayHooks

ViewNext ==
  \/ Rotate \/ WriteHalf \/ WriteRecord \/ dashboard
  \/ \E c \in Appenders : AppendRecord(c) \/ Offer(c)
  \/ Take \/ Flush \/ Close \/ Quit \/ ExportDrain \/ DrainEnds
  \/ Emit \/ \E s \in Sinks : Deliver(s) \/ StopHooks(s)

ViewSpec == ViewInit /\ [][ViewNext]_viewVars

(***************************************************************************)
(* The dashboard "keeps whole-ledger totals and a chain verdict seeded     *)
(* from genesis" (dash.go): what it shows is the ledger at some moment of  *)
(* the poll, and a healthy ledger is never shown as tampered with.  The    *)
(* exception the code leaves: a rotation is noticed only by a file shorter *)
(* than what was read of the other.  One whose new file is not shorter by  *)
(* the next poll, or that falls between opening the ledger and listing its *)
(* archives for the first time, is missed; the totals and the verdict are  *)
(* then wrong until a later rotation is noticed.                           *)
(***************************************************************************)
ViewTrue ==
  tail.pc = "shown" /\ ~acc.slipped => ~acc.broken /\ acc.count >= tail.from /\ acc.count <= Total

(***************************************************************************)
(* After Close every record offered to the exporter was delivered once, is *)
(* in the count of drops, or was in a batch whose export failed earlier.   *)
(* The only exception is a record whose Append had passed its look at      *)
(* `closed` when Close came.                                               *)
(***************************************************************************)
Accounted ==
  LET stranded == Len(ch) - abandoned
  IN  worker = "ended" /\ (\A c \in Appenders : appender[c] # "checked") =>
        /\ dropped + Len(delivered) + lost + stranded = Cardinality({c \in Appenders : appender[c] = "done"})
        /\ stranded <= Cardinality(racing)
        /\ \A i, k \in DOMAIN delivered : i # k => delivered[i] # delivered[k]

(***************************************************************************)
(* "a slow webhook can never throttle local bus fan-out (and vice versa)"  *)
(* (hooks.go): an event is dropped for a sink only when that sink's own    *)
(* queue is full, and each sink gets its events in order.                  *)
(***************************************************************************)
SinksIndependent ==
  \A s \in Sinks :
    /\ \A d \in hook[s].dropped : d[2] = HookQueue
    /\ \A i, k \in DOMAIN hook[s].sent : i < k => hook[s].sent[i] < hook[s].sent[k]

ViewsHold == ViewTrue /\ Accounted /\ SinksIndependent

-----------------------------------------------------------------------------
(***************************************************************************)
(* `meshmcp audit verify`, `attest` and `anchor` (cmd/meshmcp/audit.go)    *)
(* over the files a gateway keeps: the ledger, its signed checkpoints and  *)
(* the anchor file (cmd/meshmcp/serve.go, policy/checkpoint.go,            *)
(* policy/verify_signed.go, policy/verify_anchor.go).                      *)
(*                                                                         *)
(* A command reads the files one after the other, some of them twice, and  *)
(* none of them under a lock.  The gateway writes them in the meantime     *)
(* unless Alone says that the commands are run while it is stopped.        *)
(*                                                                         *)
(* A record of the ledger is its number and the ledger so far its length.  *)
(* The hash of a checkpoint or of an anchor line is the pair of what it    *)
(* says and the hash before it; <<>> is the hash of nothing.               *)
(***************************************************************************)
CONSTANTS
    Commands,       \* command -> its kind: "verify" | "attest" | "anchor"
    Alone,          \* commands run only while the gateway is stopped
    MaxStarts,      \* starts of the gateway
    MaxOutages,     \* writes of the anchor file that fail
    MaxDeaths       \* commands that die half way

VARIABLES
    log,            \* records in the ledger
    cps,            \* the checkpoint file: [from, to, prev]
    anchors,        \* the anchor file: [seq, cp, prev]
    gw,             \* the gateway: [up, from, owes, prev]: the first record it has not sealed,
                    \* whether a checkpoint has still to be anchored, its last anchor line
    starts, outages, deaths,
    cli             \* command -> what it has read and found

cliVars == <<log, cps, anchors, gw, starts, outages, deaths, cli>>

CpHash(c) == <<c.from, c.to, c.prev>>
AnchorLineHash(l) == <<l.seq, l.cp, l.prev>>
LastHash(f, H(_)) == IF f = <<>> THEN <<>> ELSE H(f[Len(f)])

AnchorLine(seq, c, prev) == [seq |-> seq, cp |-> CpHash(c), prev |-> prev]

(***************************************************************************)
(* The gateway.                                                            *)
(***************************************************************************)
Idle == \A c \in DOMAIN Commands : cli[c].at \in {0, 99}

Record ==
    /\ gw.up /\ ~gw.owes /\ log < MaxRecords
    /\ log' = log + 1
    /\ UNCHANGED <<cps, anchors, gw, starts, outages, deaths, cli>>

(* A checkpoint is signed and written ...                                  *)
flushLocked ==
    /\ gw.up /\ ~gw.owes /\ gw.from <= log
    /\ cps' = Append(cps, [from |-> gw.from, to |-> log, prev |-> LastHash(cps, CpHash)])
    /\ gw' = [gw EXCEPT !.from = log + 1, !.owes = TRUE]
    /\ UNCHANGED <<log, anchors, starts, outages, deaths, cli>>

(* ... and then anchored, or the witness is out of reach.                  *)
AnchorCheckpoint ==
    /\ gw.up /\ gw.owes
    /\ LET l == AnchorLine(Len(cps), cps[Len(cps)], gw.prev)
       IN \/ /\ anchors' = Append(anchors, l)
             /\ gw' = [gw EXCEPT !.owes = FALSE, !.prev = AnchorLineHash(l)]
             /\ UNCHANGED outages
          \/ /\ outages < MaxOutages /\ outages' = outages + 1
             /\ gw' = [gw EXCEPT !.owes = FALSE]
             /\ UNCHANGED anchors
    /\ UNCHANGED <<log, cps, starts, deaths, cli>>

(* A clean stop has sealed the tail.                                       *)
Stop ==
    /\ gw.up /\ ~gw.owes /\ gw.from > log
    /\ gw' = [gw EXCEPT !.up = FALSE]
    /\ UNCHANGED <<log, cps, anchors, starts, outages, deaths, cli>>

seedAnchorFromExisting == LastHash(anchors, AnchorLineHash)

Start ==
    /\ ~gw.up /\ starts < MaxStarts /\ (Alone => Idle)
    /\ gw' = [up |-> TRUE, from |-> log + 1, owes |-> FALSE, prev |-> seedAnchorFromExisting]
    /\ starts' = starts + 1
    /\ UNCHANGED <<log, cps, anchors, outages, deaths, cli>>

(***************************************************************************)
(* What the verifiers find in what they were given.                        *)
(***************************************************************************)
Sealed(n, cs) == n > 0 /\ cs[Len(cs)].to = n

VerifySigned(n, cs) ==
    LET linked(i) ==
            /\ cs[i].prev = (IF i = 1 THEN <<>> ELSE CpHash(cs[i - 1]))
            /\ cs[i].from = (IF i = 1 THEN 1 ELSE cs[i - 1].to + 1)
            /\ cs[i].from <= cs[i].to /\ cs[i].to <= n
    IN IF cs = <<>> \/ ~\A i \in DOMAIN cs : linked(i) THEN "invalid"
       ELSE IF Sealed(n, cs) THEN "sealed" ELSE "unsealed"

(* The lines of an anchor file that contradict it or the checkpoints.      *)
Mismatches(as, cs) ==
    {i \in DOMAIN as :
        \/ as[i].prev # (IF i = 1 THEN <<>> ELSE AnchorLineHash(as[i - 1]))
        \/ \E j \in 1..(i - 1) : as[j].seq = as[i].seq /\ as[j].cp # as[i].cp
        \/ as[i].seq \notin DOMAIN cs
        \/ CpHash(cs[as[i].seq]) # as[i].cp}

Witnessed(as) == {as[i].seq : i \in DOMAIN as}

AllWitnessed(as, cs) == cs # <<>> /\ DOMAIN cs \subseteq Witnessed(as)

VerifyAnchors(as, cs) ==
    IF Mismatches(as, cs) # {} THEN "mismatch" ELSE IF AllWitnessed(as, cs) THEN "anchored" ELSE "partial"

(***************************************************************************)
(* The commands: what each does, step by step.                             *)
(***************************************************************************)
Plan(k) ==
    CASE k = "verify" -> <<"log", "cps", "load", "anchors">>
      [] k = "attest" -> <<"hash log", "log", "cps", "hash cps", "load", "anchors", "hash anchors">>
      [] k = "anchor" -> <<"load", "out", "append">>

Blank == [at |-> 0, log |-> 0, cps |-> <<>>, map |-> <<>>, anchors |-> <<>>, todo |-> {}, prev |-> <<>>,
          hashLog |-> 0, hashCps |-> <<>>, hashAnchors |-> <<>>, status |-> "none", anchor |-> "none"]

Begin(c) ==
    /\ cli[c].at = 0 /\ (Alone => ~gw.up)
    /\ cli' = [cli EXCEPT ![c].at = 1]
    /\ UNCHANGED <<log, cps, anchors, gw, starts, outages, deaths>>

(* The step is taken and the next one is due; an invalid chain ends a      *)
(* verification before the anchors are looked at.                          *)
Doing(c, step) == cli[c].at \in DOMAIN Plan(Commands[c]) /\ Plan(Commands[c])[cli[c].at] = step

Goes(c, to) ==
    LET plan == Plan(Commands[c])
        n    == cli[c].at + 1
        over == n > Len(plan) \/ (plan[n] = "load" /\ to.status = "invalid")
    IN cli' = [cli EXCEPT ![c] = [to EXCEPT !.at = IF over THEN 99 ELSE n]]

(* The checkpoints are read a second time, to hold the anchors against.    *)
loadCheckpointMap(c) ==
    /\ Doing(c, "load") /\ Goes(c, [cli[c] EXCEPT !.map = cps])
    /\ UNCHANGED <<log, cps, anchors, gw, starts, outages, deaths>>

Read(c) ==
    /\ \/ Doing(c, "log") /\ Goes(c, [cli[c] EXCEPT !.log = log])
       \/ Doing(c, "cps") /\ Goes(c, [cli[c] EXCEPT !.cps = cps, !.status = VerifySigned(cli[c].log, cps)])
       \/ Doing(c, "anchors") /\ Goes(c, [cli[c] EXCEPT !.anchors = anchors, !.anchor = VerifyAnchors(anchors, cli[c].map)])
    /\ UNCHANGED <<log, cps, anchors, gw, starts, outages, deaths>>

(* The artifact function of auditAttest reads the file once more.          *)
artifact(c) ==
    /\ \/ Doing(c, "hash log") /\ Goes(c, [cli[c] EXCEPT !.hashLog = log])
       \/ Doing(c, "hash cps") /\ Goes(c, [cli[c] EXCEPT !.hashCps = cps])
       \/ Doing(c, "hash anchors") /\ Goes(c, [cli[c] EXCEPT !.hashAnchors = anchors])
    /\ UNCHANGED <<log, cps, anchors, gw, starts, outages, deaths>>

Missing(c) == DOMAIN cli[c].map \ Witnessed(anchors)

(* `audit anchor --out`: the file is read, and unless it contradicts the   *)
(* checkpoints its last line is taken up.                                  *)
ReadOut(c) ==
    /\ Doing(c, "out")
    /\ IF \E i \in DOMAIN anchors : anchors[i].seq \in DOMAIN cli[c].map /\ anchors[i].cp # CpHash(cli[c].map[anchors[i].seq])
       THEN cli' = [cli EXCEPT ![c].at = 99, ![c].status = "refused"]
       ELSE Goes(c, [cli[c] EXCEPT !.todo = Missing(c), !.prev = LastHash(anchors, AnchorLineHash)])
    /\ UNCHANGED <<log, cps, anchors, gw, starts, outages, deaths>>

(* One line for each checkpoint the file does not witness, in order.       *)
AppendAnchor(c) ==
    /\ Doing(c, "append")
    /\ IF cli[c].todo = {}
       THEN Goes(c, [cli[c] EXCEPT !.status = "anchored"]) /\ UNCHANGED anchors
       ELSE LET n == CHOOSE i \in cli[c].todo : \A j \in cli[c].todo : i <= j
                l == AnchorLine(n, cli[c].map[n], cli[c].prev)
            IN /\ anchors' = Append(anchors, l)
               /\ cli' = [cli EXCEPT ![c].todo = @ \ {n}, ![c].prev = AnchorLineHash(l)]
    /\ UNCHANGED <<log, cps, gw, starts, outages, deaths>>

(* A command is interrupted and run again.                                 *)
Dies(c) ==
    /\ cli[c].at \in 1..98 /\ deaths < MaxDeaths
    /\ cli' = [cli EXCEPT ![c] = Blank] /\ deaths' = deaths + 1
    /\ UNCHANGED <<log, cps, anchors, gw, starts, outages>>

CliInit ==
    /\ log = 0 /\ cps = <<>> /\ anchors = <<>>
    /\ gw = [up |-> FALSE, from |-> 1, owes |-> FALSE, prev |-> <<>>]
    /\ starts = 0 /\ outages = 0 /\ deaths = 0
    /\ cli = [c \in DOMAIN Commands |-> Blank]

CliNext ==
    \/ Record \/ flushLocked \/ AnchorCheckpoint \/ Stop \/ Start
    \/ \E c \in DOMAIN Commands : Begin(c) \/ Read(c) \/ loadCheckpointMap(c) \/ artifact(c) \/ ReadOut(c) \/ AppendAnchor(c) \/ Dies(c)

CliSpec == CliInit /\ [][CliNext]_cliVars

(***************************************************************************)
(* Properties.                                                             *)
(***************************************************************************)
Over(c) == cli[c].at = 99

(* "Sealed" is said only of a ledger every record of which some checkpoint *)
(* covers, and "anchored" only when each checkpoint is in the anchor file, *)
(* whatever the gateway writes between the reads.  Of a ledger nobody      *)
(* writes meanwhile neither check raises a false alarm.                    *)
VerdictTrue ==
    \A c \in DOMAIN Commands : Over(c) /\ Commands[c] # "anchor" =>
        /\ cli[c].status = "sealed" => \A r \in 1..cli[c].log : \E i \in DOMAIN cps : r \in cps[i].from..cps[i].to
        /\ cli[c].anchor = "anchored" => \A n \in DOMAIN cli[c].map : \E i \in DOMAIN anchors : anchors[i].seq = n
        /\ Alone => (cli[c].status = "invalid" => cli[c].cps = <<>>) /\ cli[c].anchor # "mismatch"

(* An attestation made while the gateway is stopped hashes the ledger and  *)
(* the checkpoints it verified; anchor lines appended meanwhile only add   *)
(* to those it checked.                                                    *)
AttestsWhatItRead ==
    \A c \in DOMAIN Commands : Alone /\ Over(c) /\ Commands[c] = "attest" /\ cli[c].status # "invalid" =>
        /\ cli[c].hashLog = cli[c].log /\ cli[c].hashCps = cli[c].cps /\ cli[c].map = cli[c].cps
        /\ cli[c].anchors = SubSeq(cli[c].hashAnchors, 1, Len(cli[c].anchors))

(* However often `audit anchor` is interrupted and run again, it leaves    *)
(* one line per checkpoint in one linked chain, and when it succeeds every *)
(* checkpoint it was given is witnessed.                                   *)
AnchorsHealed ==
    /\ Alone => \A i, j \in DOMAIN anchors : anchors[i].seq = anchors[j].seq => i = j
    /\ Alone => Mismatches(anchors, cps) = {}
    /\ \A c \in DOMAIN Commands : Over(c) /\ cli[c].status = "anchored" => DOMAIN cli[c].map \subseteq Witnessed(anchors)

CliHolds == VerdictTrue /\ AttestsWhatItRead /\ AnchorsHealed

=============================================================================
