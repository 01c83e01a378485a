----------------------------- MODULE AuditTrail -----------------------------
(***************************************************************************)
(* The audit log and its witness: the hash-chained file with its signed    *)
(* checkpoints, and the anchoring of those checkpoints with a peer. Each   *)
(* part is a specification of its own, with its own initial state and      *)
(* next-state relation; a behaviour is a behaviour of one of them.         *)
(***************************************************************************)
EXTENDS Integers, Sequences, FiniteSets

-----------------------------------------------------------------------------
(* The hash-chained audit log (policy/audit.go), the rotating file under it *)
(* (auditrotate.go), its signed checkpoints (checkpoint.go), what a gateway *)
(* does with them when it starts again (serve.go, chain.go), and what       *)
(* `audit verify` accepts (verify_signed.go).  A record's hash is its       *)
(* number; a line of a file is "ok", a part of a line without newline       *)
(* ("frag"), a whole record that lacks only its newline ("bare"), or text   *)
(* that was joined to either ("bad").  Writes hold the log's lock, so one   *)
(* is in progress at a time; a crash can fall between its steps.            *)
CONSTANTS
    every,                \* records per checkpoint
    maxSeg,               \* records a segment holds before it is rotated; 0: no rotation
    Faults,               \* subset of {"crash", "short", "io", "overlap"}
    MaxRecords, MaxCrashes

VARIABLES
    arch, active,         \* archived segments, the active file
    link,                 \* record -> its seq and prev_hash; onto: its line was joined to an unfinished one
    log,                  \* AuditLog and RotatingFileSink: seq, prev, size, open; cut: a write was cut short
    cur,                  \* the write in progress
    cp,                   \* Checkpointer: leaves, from, seq, prev
    cps,                  \* the checkpoints file
    fl,                   \* AuditLog.Flush in progress
    gateway,              \* "up", "down", "refused"
    acked,                \* records whose write returned nil
    crashes

auditVars == <<arch, active, link, log, cur, cp, cps, fl, gateway, acked, crashes>>

Line(k, n) == [k |-> k, n |-> n]
Quiet == [pc |-> "idle", n |-> 0]
Resting == [pc |-> "idle", to |-> 0, head |-> 0]

TrailInit ==
    /\ arch = <<>> /\ active = <<>> /\ link = <<>> /\ cps = <<>>
    /\ log = [seq |-> 0, prev |-> 0, size |-> 0, open |-> TRUE, cut |-> FALSE]
    /\ cur = Quiet /\ fl = Resting
    /\ cp = [leaves |-> <<>>, from |-> 0, seq |-> 0, prev |-> 0]
    /\ gateway = "up" /\ acked = {} /\ crashes = 0

Up == gateway = "up" /\ UNCHANGED <<gateway, crashes>>
Fails == cur' = Quiet

-----------------------------------------------------------------------------
(* AuditLog.write takes the lock and builds the record.                    *)
Write ==
    /\ Up /\ cur.pc = "idle" /\ Len(link) < MaxRecords
    /\ fl.pc = "idle" \/ "overlap" \in Faults
    /\ link' = Append(link, [seq |-> log.seq + 1, prev |-> log.prev, onto |-> FALSE])
    /\ cur' = [n |-> Len(link'), pc |-> IF maxSeg > 0 /\ log.size > 0 /\ log.size + 1 > maxSeg
                                          THEN "rotate" ELSE "line"]
    /\ UNCHANGED <<arch, active, log, cp, cps, fl, acked>>

(* rotateLocked: seal, rename, reopen.  A failed rename reopens the file;  *)
(* a failed reopen leaves a sink that fails every later write.             *)
Rotate ==
    /\ Up /\ cur.pc = "rotate"
    /\ \/ /\ log.open /\ arch' = Append(arch, active) /\ active' = <<>>
          /\ log' = [log EXCEPT !.size = 0] /\ cur' = [cur EXCEPT !.pc = "line"]
       \/ /\ log.open /\ "io" \in Faults /\ Fails
          /\ arch' = Append(arch, active) /\ active' = <<>> /\ log' = [log EXCEPT !.open = FALSE]
       \/ (~log.open \/ "io" \in Faults) /\ Fails /\ UNCHANGED <<arch, active, log>>
    /\ UNCHANGED <<link, cp, cps, fl, acked>>

(* Appended text joins a line that has no newline; nothing parses it then. *)
Unfinished == {"frag", "bare"}
Open(f) == f # <<>> /\ f[Len(f)].k \in Unfinished
Joined(f, line) ==
    IF Open(f)
      THEN [f EXCEPT ![Len(f)] = [k |-> IF line.k = "ok" THEN "bad" ELSE "frag", n |-> line.n]]
      ELSE Append(f, line)

(* The line is written whole, in part, or not at all; the chain's cursor   *)
(* advances only in the first case.  What a short write left stays.        *)
(* (Mutated form: the cursor advances before the write.)                   *)
WriteLineEager ==
    /\ Up /\ cur.pc = "line"
    /\ log' = [log EXCEPT !.seq = @ + 1, !.prev = cur.n, !.size = @ + 1]
    /\ \/ /\ log.open /\ active' = Joined(active, Line("ok", cur.n))
          /\ cur' = [cur EXCEPT !.pc = "add"]
       \/ "io" \in Faults /\ Fails /\ UNCHANGED active
    /\ UNCHANGED <<arch, link, cp, cps, fl, acked>>
WriteLine ==
    /\ Up /\ cur.pc = "line"
    /\ \/ /\ log.open /\ active' = Joined(active, Line("ok", cur.n))
          /\ log' = [log EXCEPT !.seq = @ + 1, !.prev = cur.n, !.size = @ + 1]
          /\ link' = [link EXCEPT ![cur.n].onto = Open(active)]
          /\ cur' = [cur EXCEPT !.pc = "add"]
       \/ /\ log.open /\ "short" \in Faults /\ Fails
          /\ \E k \in Unfinished : active' = Joined(active, Line(k, cur.n))
          /\ \E b \in {0, 1} : log' = [log EXCEPT !.size = @ + b, !.cut = TRUE]
          /\ UNCHANGED link
       \/ (~log.open \/ "io" \in Faults) /\ Fails /\ UNCHANGED <<active, log, link>>
    /\ UNCHANGED <<arch, cp, cps, fl, acked>>

-----------------------------------------------------------------------------
(* flushLocked signs the leaves gathered so far and writes a checkpoint;   *)
(* a write that fails keeps them for the next.                             *)
Signed(c, to, head) ==
    [seq |-> c.seq + 1, from |-> c.from, to |-> to, count |-> Len(c.leaves),
     root |-> c.leaves, head |-> head, prev |-> c.prev]
Emitted(c, to, head) ==
    [leaves |-> <<>>, from |-> 0, seq |-> c.seq + 1, prev |-> Signed(c, to, head).seq]

Flushes(c, to, head) ==
    \/ cps' = Append(cps, Signed(c, to, head)) /\ cp' = Emitted(c, to, head)
    \/ "io" \in Faults /\ cp' = c /\ UNCHANGED cps

(* Checkpointer.add, with the log's lock held.                             *)
Add ==
    LET s == link[cur.n].seq
        c == [cp EXCEPT !.leaves = Append(@, cur.n), !.from = IF @ = 0 THEN s ELSE @]
    IN /\ Up /\ cur.pc = "add"
       /\ IF Len(c.leaves) >= every THEN Flushes(c, s, cur.n) ELSE cp' = c /\ UNCHANGED cps
       /\ cur' = [cur EXCEPT !.pc = "sync"]
       /\ UNCHANGED <<arch, active, link, log, fl, acked>>

(* fsync, the observer sinks, and the return.                              *)
Return ==
    /\ Up /\ cur.pc = "sync" /\ cur' = Quiet
    /\ \/ acked' = acked \cup {cur.n}
       \/ "io" \in Faults /\ UNCHANGED acked
    /\ UNCHANGED <<arch, active, link, log, cp, cps, fl>>

(* AuditLog.Flush copies the cursor under the log's lock and flushes under *)
(* the checkpointer's; a gateway calls it once its listeners have stopped. *)
(* With "overlap" a write may still come between the two.                  *)
FlushRead ==
    /\ Up /\ fl.pc = "idle" /\ cur.pc = "idle" /\ cp.leaves # <<>>
    /\ fl' = [pc |-> "flush", to |-> log.seq, head |-> log.prev]
    /\ UNCHANGED <<arch, active, link, log, cur, cp, cps, acked>>
FlushSeal ==
    /\ Up /\ fl.pc = "flush"
    /\ fl' = Resting
    /\ IF cp.leaves = <<>> THEN UNCHANGED <<cp, cps>> ELSE Flushes(cp, fl.to, fl.head)
    /\ UNCHANGED <<arch, active, link, log, cur, acked>>

-----------------------------------------------------------------------------
(* The process stops: orderly after a flush, or at any point; then a line  *)
(* being written may be left in part, or whole without its newline.        *)
Stop ==
    /\ gateway = "up" /\ gateway' = "down"
    /\ \/ cur.pc = "idle" /\ fl.pc = "idle" /\ (cp.leaves = <<>> \/ "io" \in Faults)
          /\ UNCHANGED <<active, crashes>>
       \/ /\ "crash" \in Faults /\ crashes < MaxCrashes /\ crashes' = crashes + 1
          /\ \/ UNCHANGED active
             \/ cur.pc = "line" /\ \E k \in Unfinished : active' = Joined(active, Line(k, cur.n))
    /\ cur' = Quiet /\ fl' = Resting
    /\ UNCHANGED <<arch, link, log, cp, cps, acked>>

Parses(line) == line.k \in {"ok", "bare"}
Linked(f, s, h) ==
    \A i \in 1..Len(f) :
        /\ Parses(f[i]) /\ link[f[i].n].seq = s + i
        /\ link[f[i].n].prev = IF i = 1 THEN h ELSE f[i - 1].n
(* VerifyForRepairFrom: the length to keep, or -1 for a log to refuse.     *)
(* Only a last line that does not parse is dropped.                        *)
(* (Mutated form: the torn line is kept.)                                  *)
RepairKeeping(f, s, h) == IF Linked(f, s, h) THEN Len(f)
                          ELSE IF ~Parses(f[Len(f)]) THEN Len(f) ELSE -1
Repair(f, s, h) ==
    IF Linked(f, s, h) THEN Len(f)
    ELSE IF ~Parses(f[Len(f)]) /\ Linked(SubSeq(f, 1, Len(f) - 1), s, h) THEN Len(f) - 1
    ELSE -1

(* auditArchiveHead, seedAuditFromExisting and seedCheckpointFromExisting. *)
Start ==
    LET newest == IF arch = <<>> THEN <<>> ELSE arch[Len(arch)]
        sealed == \A i \in 1..Len(newest) : Parses(newest[i])
        h == IF newest = <<>> THEN 0 ELSE newest[Len(newest)].n
        s == IF h = 0 THEN 0 ELSE link[h].seq
        keep == Repair(active, s, h)
        kept == SubSeq(active, 1, keep)
        last == IF kept = <<>> THEN h ELSE kept[Len(kept)].n
    IN /\ gateway = "down"
       /\ IF sealed /\ keep # -1
            THEN /\ gateway' = "up" /\ active' = kept
                 /\ log' = [seq |-> s + keep, prev |-> last, size |-> keep, open |-> TRUE, cut |-> FALSE]
                 /\ cp' = [leaves |-> <<>>, from |-> 0, seq |-> Len(cps), prev |-> Len(cps)]
            ELSE gateway' = "refused" /\ UNCHANGED <<active, log, cp>>
       /\ UNCHANGED <<arch, link, cur, cps, fl, acked, crashes>>

TrailNext == Write \/ Rotate \/ WriteLine \/ Add \/ Return \/ FlushRead \/ FlushSeal \/ Stop \/ Start

-----------------------------------------------------------------------------
SE == INSTANCE SequencesExt
History == SE!FlattenSeq(arch) \o active
InLog == {History[i].n : i \in {j \in 1..Len(History) : Parses(History[j])}}

(* VerifySigned: the checkpoints link to each other, cover the records     *)
(* without a gap, and commit to what the log holds.                        *)
VerifySigned ==
    /\ Linked(History, 0, 0)
    /\ \A i \in 1..Len(cps) :
        LET c == cps[i] IN
        /\ c.prev = i - 1 /\ c.from = (IF i = 1 THEN 0 ELSE cps[i - 1].to) + 1
        /\ c.from <= c.to /\ c.count = c.to - c.from + 1
        /\ c.to <= Len(History) /\ c.head = History[c.to].n
        /\ c.root = [j \in 1..(c.to - c.from + 1) |-> History[c.from + j - 1].n]

(* Records are numbered as issued and the log's cursor is within them.     *)
TrailTypeOK ==
    /\ log.prev \in 0..Len(link) /\ log.seq <= Len(link)
    /\ cp.seq = Len(cps) /\ Len(cp.leaves) <= MaxRecords
    /\ acked \subseteq 1..Len(link)

(* Something was appended behind a line without its newline: to the same   *)
(* line, or to the next segment after a rotation.                          *)
Damaged ==
    \/ \E i \in DOMAIN History : History[i].k = "bad"
    \/ \E i \in DOMAIN arch : Open(arch[i])
Finished(f) == IF Open(f) THEN SubSeq(f, 1, Len(f) - 1) ELSE f

(* Through rotation, failed writes and crashes the log stays one chain     *)
(* that a restart accepts, and keeps every record whose write returned nil *)
(* (AuditLog.write: "a marshal or I/O failure leaves no gap in the         *)
(* chain"; VerifyForRepairFrom).  The exception the code leaves: a short   *)
(* write is not truncated, nor is a record a crash left whole but for its  *)
(* newline, and what is appended behind it is joined to it.  Then, and     *)
(* only then, the chain may break and a restart be refused, or drop the    *)
(* joined line with the record on it.  What a crash tore is not among      *)
(* these: a restart drops it, so only a process whose own write was cut    *)
(* short has part of a line in its file.                                   *)
OneChain ==
    /\ gateway = "refused" => Damaged
    /\ gateway = "up" => Damaged \/ Linked(Finished(History), 0, 0)
    /\ gateway = "up" /\ ~log.cut => \A i \in DOMAIN active : active[i].k # "frag"
    /\ acked \ {n \in DOMAIN link : link[n].onto} \subseteq InLog

(* "restarts continue one verifiable chain of checkpoints"                 *)
(* (policy/checkpoint.go:169-170).                                         *)
CheckpointsVerify == gateway = "up" /\ cur.pc = "idle" => VerifySigned

-----------------------------------------------------------------------------
(* Anchoring of signed checkpoints with a peer witness.  The gateway writes *)
(* a checkpoint to its file and puts it in a bounded queue                  *)
(* (policy/anchor_peer.go); one background goroutine posts the queue in     *)
(* order to the witness (control/anchor.go), which keeps an append-only,    *)
(* self-linked file.  `meshmcp audit anchor` replays the checkpoints file   *)
(* to the witness.  Posts and answers are lost, the gateway and the witness *)
(* restart; with PowerLoss the checkpoints file, which is not synced, may   *)
(* lose its last line, and its ordinal is issued again.                     *)
CONSTANTS
    maxPending,           \* peerAnchorMaxPending
    PowerLoss,
    Goroutines,           \* names for deliverers: more than one, to see that one runs
    MaxCheckpoints, MaxReplays

VARIABLES
    cpFile,               \* the checkpoints file: a sequence of [seq, gen]
    pending, draining,    \* PeerAnchor.pending, .draining
    drain,                \* deliverers: [pc, c]
    wSeen,                \* AnchorWitness.seen: ordinal -> checkpoint
    wFile, wPrev,         \* the witness's file, FileAnchor.prev (number of lines)
    replay,               \* the running `audit anchor`: what is still to post, whether all was taken
    gen, replays,
    left                  \* history: checkpoints dropped by overflow or a restart
anchorVars == <<cpFile, pending, draining, drain, wSeen, wFile, wPrev, replay, gen, crashes, replays, left>>

NoCp == [seq |-> 0, gen |-> 0]
Off == [pc |-> "off", c |-> NoCp]
NoReplay == [on |-> FALSE, todo |-> <<>>, all |-> {}]
Ordinals == 1..MaxCheckpoints
SeqSet(s) == {s[i] : i \in DOMAIN s}

AnchorInit ==
    /\ cpFile = <<>> /\ pending = <<>> /\ draining = FALSE /\ drain = [g \in Goroutines |-> Off]
    /\ wSeen = [n \in Ordinals |-> NoCp] /\ wFile = <<>> /\ wPrev = 0
    /\ replay = NoReplay /\ gen = 0 /\ crashes = 0 /\ replays = 0 /\ left = {}

sender == <<cpFile, pending, draining, gen, left>>
witness == <<wSeen, wFile, wPrev>>

-----------------------------------------------------------------------------
(* Anchor: the checkpoint joins the queue, the oldest make room, and a      *)
(* deliverer is started unless one is at work.                              *)
(* (Mutated form: whether one is at work is not asked.)                     *)
StartAlways(c) ==
    /\ \E g \in Goroutines : drain[g].pc = "off" /\ drain' = [drain EXCEPT ![g].pc = "take"]
    /\ draining' = TRUE
StartDrain(c) ==
    /\ IF draining THEN UNCHANGED drain
       ELSE \E g \in Goroutines : drain[g].pc = "off" /\ drain' = [drain EXCEPT ![g].pc = "take"]
    /\ draining' = TRUE
Anchor ==
    LET c == [seq |-> Len(cpFile) + 1, gen |-> gen]
        q == Append(pending, c)
    IN /\ Len(cpFile) < MaxCheckpoints
       /\ cpFile' = Append(cpFile, c)
       /\ pending' = IF Len(q) > maxPending THEN Tail(q) ELSE q
       /\ left' = IF Len(q) > maxPending THEN left \cup {Head(q)} ELSE left
       /\ StartDrain(c)
       /\ UNCHANGED <<witness, replay, gen, crashes, replays>>

(* drain: take the head, or stop when the queue is empty.                   *)
Take(g) ==
    /\ drain[g].pc = "take"
    /\ IF pending = <<>>
         THEN draining' = FALSE /\ drain' = [drain EXCEPT ![g] = Off]
         ELSE drain' = [drain EXCEPT ![g] = [pc |-> "post", c |-> Head(pending)]] /\ UNCHANGED draining
    /\ UNCHANGED <<cpFile, pending, gen, left, witness, replay, crashes, replays>>

(* AnchorWitness.Accept: a known ordinal is taken again only with the same  *)
(* hash; a new one is appended to the file, linked to its last line.        *)
(* (Mutated form: a different hash for a known ordinal is appended too.)    *)
KnownLoosely(c) == wSeen[c.seq] = c
Known(c) == wSeen[c.seq] # NoCp
Takes(c) ==
    IF Known(c) THEN wSeen[c.seq] = c /\ UNCHANGED witness
    ELSE /\ wFile' = Append(wFile, [cp |-> c, prev |-> wPrev]) /\ wPrev' = Len(wFile) + 1
         /\ wSeen' = [wSeen EXCEPT ![c.seq] = c]

(* One post: it is taken and answered, taken with its answer lost, or not   *)
(* taken (refused, or lost on the way).                                     *)
PostOK(c) == Takes(c)
PostFails(c) == UNCHANGED witness \/ Takes(c)

(* After a post that was answered the head is popped, if it still is the    *)
(* head; after any other the deliverer ends and the queue stays.            *)
Popped(c) == IF pending # <<>> /\ Head(pending) = c THEN Tail(pending) ELSE pending
Deliver(g) ==
    /\ drain[g].pc = "post"
    /\ \/ /\ PostOK(drain[g].c) /\ drain' = [drain EXCEPT ![g] = [pc |-> "pop", c |-> @.c]]
          /\ UNCHANGED draining
       \/ PostFails(drain[g].c) /\ drain' = [drain EXCEPT ![g] = Off] /\ draining' = FALSE
    /\ UNCHANGED <<cpFile, pending, gen, left, replay, crashes, replays>>
Pop(g) ==
    /\ drain[g].pc = "pop" /\ drain' = [drain EXCEPT ![g] = [pc |-> "take", c |-> NoCp]]
    /\ pending' = Popped(drain[g].c)
    /\ UNCHANGED <<cpFile, draining, gen, left, witness, replay, crashes, replays>>

-----------------------------------------------------------------------------
(* auditAnchor --url: the file is read once, then posted in order; the      *)
(* first post that fails ends it.                                           *)
ReplayStart ==
    /\ ~replay.on /\ replays < MaxReplays /\ cpFile # <<>>
    /\ replay' = [on |-> TRUE, todo |-> cpFile, all |-> SeqSet(cpFile)]
    /\ replays' = replays + 1
    /\ UNCHANGED <<sender, drain, witness, crashes>>
ReplayPost ==
    /\ replay.on /\ replay.todo # <<>>
    /\ \/ PostOK(Head(replay.todo)) /\ replay' = [replay EXCEPT !.todo = Tail(@)]
       \/ PostFails(Head(replay.todo)) /\ replay' = NoReplay
    /\ UNCHANGED <<sender, drain, crashes, replays>>
ReplayEnd ==
    /\ replay.on /\ replay.todo = <<>> /\ replay' = NoReplay
    /\ UNCHANGED <<sender, drain, witness, crashes, replays>>

(* The gateway restarts: the queue and its deliverer are gone.  Without its *)
(* power the file may have lost its last line.                              *)
GatewayRestart ==
    /\ crashes < MaxCrashes /\ crashes' = crashes + 1
    /\ left' = left \cup SeqSet(pending)
    /\ pending' = <<>> /\ draining' = FALSE /\ drain' = [g \in Goroutines |-> Off]
    /\ \/ UNCHANGED <<cpFile, gen>>
       \/ PowerLoss /\ cpFile # <<>> /\ gen' = gen + 1
          /\ cpFile' = SubSeq(cpFile, 1, Len(cpFile) - 1)
    /\ UNCHANGED <<witness, replay, replays>>

(* NewAnchorWitness: what was seen and the last line come from the file.    *)
Reload ==
    /\ wPrev' = Len(wFile)
    /\ wSeen' = [n \in Ordinals |-> IF \E r \in SeqSet(wFile) : r.cp.seq = n
                   THEN (CHOOSE r \in SeqSet(wFile) : r.cp.seq = n).cp ELSE NoCp]
WitnessRestart ==
    /\ crashes < MaxCrashes /\ crashes' = crashes + 1 /\ Reload
    /\ UNCHANGED <<wFile, sender, drain, replay, replays>>

AnchorNext ==
    \/ Anchor \/ ReplayStart \/ ReplayPost \/ ReplayEnd \/ GatewayRestart \/ WitnessRestart
    \/ \E g \in Goroutines : Take(g) \/ Deliver(g) \/ Pop(g)

-----------------------------------------------------------------------------
Witnessed == {r.cp : r \in SeqSet(wFile)}

(* VerifyAnchors, for a file of one signer: every record is linked, no two  *)
(* name one ordinal differently, and each is in the checkpoints file.       *)
Mismatch ==
    \/ \E i \in DOMAIN wFile : wFile[i].prev # i - 1
    \/ \E a, b \in Witnessed : a.seq = b.seq /\ a # b
    \/ \E a \in Witnessed : a \notin SeqSet(cpFile)

(* The queue is bounded, and `draining` says whether a deliverer runs.      *)
AnchorTypeOK ==
    /\ Len(pending) <= maxPending
    /\ draining <=> \E g \in Goroutines : drain[g].pc # "off"

(* At most one deliverer posts the queue (PeerAnchor.Anchor, drain).        *)
OneDeliverer == Cardinality({g \in Goroutines : drain[g].pc # "off"}) <= 1

(* A checkpoint leaves the queue only when the witness has it, unless it    *)
(* was dropped to make room or lost in a restart (drain's exact-match pop). *)
NoneDiscarded == SeqSet(cpFile) \subseteq Witnessed \cup SeqSet(pending) \cup left

(* However posts, replays and restarts interleave, the witness never        *)
(* contradicts the checkpoints file or itself (Accept, VerifyAnchors).      *)
WitnessAgrees == ~PowerLoss => ~Mismatch

(* The witness's own file stays one linked chain with one record for an     *)
(* ordinal, even when the gateway issues an ordinal twice.                  *)
WitnessSound ==
    /\ \A i \in DOMAIN wFile : wFile[i].prev = i - 1
    /\ \A i, j \in DOMAIN wFile : wFile[i].cp.seq = wFile[j].cp.seq => i = j

(* A replay that reports success leaves all that it read witnessed          *)
(* (auditAnchor).                                                           *)
ReplayComplete == replay.on /\ replay.todo = <<>> => replay.all \subseteq Witnessed

AnchorHolds == OneDeliverer /\ NoneDiscarded /\ WitnessAgrees /\ WitnessSound /\ ReplayComplete

=============================================================================
