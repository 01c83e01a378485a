------------------------------ MODULE MCStores ------------------------------
(* Small instances of the protocols around durable stores: a live move of a *)
(* session, the lock file of the file-backed session store, the handoff     *)
(* inbox and its wire, drop transfers, the drive and the outgoing copies,   *)
(* the database and scheduler backends, and the knowledge and search        *)
(* stores. "part" selects one instance; a run of this module checks all     *)
(* that Parts names.                                                        *)
EXTENDS Integers, Sequences, FiniteSets, TLC

CONSTANTS ga, gb, gc3, nobody, norec, none, c1, c2, Parts

VARIABLES part, rec, obj, live, removes, att, warm, ctl, mv, wire, client, up, grants, moved,
          expired, overtaken, lock, file, p, crashes, verified, slipped, now, inbox, archive,
          out, recv, w, rearms, receipts, refused, disk, receiptLog, run, pipe, frames, rcv, store, clock,
          gc, installed, tree, inode, locks, conn, got, unread, everAt, ledger, edits, cuts,
          fails, size, pc, sel, walk, planned, trie, fd, staged, root, sent, result, holder,
          snd, back, trail, tokens, seen, tries, moves, breaks, auditFails, copy, tmp, handed,
          tried, acked, cancelled, events, known, reader, ended, overlapped, row, ins, tx, holds, ops,
          lost, claim, use, call, ran, accepted, mem, seq, corpusOf, writer, alias, resolved,
          audited, pulled, faults, syncs, index, lines, words, parents, parentLines, req,
          shown, restarts

moveVars == <<rec, obj, live, removes, att, warm, ctl, mv, wire, grants, moved, expired,
    overtaken>>
lockVars == <<p, verified, slipped>>
handVars == <<archive, out, recv, w, rearms, refused>>
dropVars == <<receiptLog, run, pipe, frames, rcv, store, clock, gc, installed>>
driveVars == <<tree, inode, locks, conn, got, unread, everAt, ledger, cuts>>
sendVars == <<size, sel, walk, planned, trie, fd, staged, root, sent, result>>
wireVars == <<holder, snd, back, trail, tokens, seen, tries, moves, breaks>>
backendVars == <<copy, tmp, handed, tried, acked, cancelled, events, known, reader, ended,
    overlapped>>
pgVars == <<row, ins, tx, holds, ops, lost, claim, use, call, ran, accepted>>
graphVars == <<mem, seq, corpusOf, writer, alias, resolved, audited, pulled, syncs>>
ragVars == <<index, lines, words, parents, parentLines, req, shown, restarts>>
vars == <<part, moveVars, lockVars, handVars, dropVars, driveVars, sendVars, wireVars,
    backendVars, pgVars, graphVars, ragVars, client, up, lock, file, crashes, now, inbox,
    receipts, disk, edits, fails, pc, auditFails, faults>>

(* Constants of SessionMove, where an instance does not say otherwise.      *)
Gateways == {ga, gb}
Nobody == nobody
NoRec == norec
Src == ga
Dst == gb
Handshake == TRUE
TakeoverAttempts == 2
MaxGen == 3
MaxVer == 2
MaxMoves == 2
Events == {"drop", "crash", "reap"}

(* A move from ga to gb: with every fault and a client that stays with its  *)
(* gateways, and with a client that may turn to either gateway at once.     *)
MF == INSTANCE SessionMove

MR == INSTANCE SessionMove WITH
        Handshake <- FALSE, MaxGen <- 3, MaxVer <- 1, MaxMoves <- 1, Events <- {"roam"}

(* Constants of FileLock, where an instance does not say otherwise.         *)
Pauses == FALSE
Kinds == {"takeover", "save", "delete"}
MaxOps == 2
MaxCrashes == 1

(* Two gateways on one store directory: one may crash; they may also be     *)
(* paused for longer than a lock takes to look stale. Three, of which two   *)
(* may find the lock of the third that crashed.                             *)
LC == INSTANCE FileLock

LP == INSTANCE FileLock WITH
        Pauses <- TRUE, Kinds <- {"takeover", "renew", "release"}, MaxCrashes <- 0

LS == INSTANCE FileLock WITH Gateways <- {ga, gb, gc3}, Kinds <- {"takeover"}, MaxOps <- 1

Offering(i, k, h, e) == [id |-> i, src |-> k, hash |-> h, expires |-> e]

(* Constants of Handoff, where an instance does not say otherwise.          *)
Offers == {Offering("a", c1, 1, 3), Offering("a", c1, 2, 3), Offering("b", c2, 3, 2)}
Workers == {}
maxRecords == 1
HandoffMaxDeliveryAttempts == 2
MaxTime == 3
Lag == 1
NoRecord == none

(* Offers that compete for one place, two of them with the same id; and one *)
(* offer that two `handoff continue` processes work on.                     *)
HI == INSTANCE Handoff

HW == INSTANCE Handoff WITH Offers <- {Offering("a", c1, 1, 3)}, Workers <- {c1, c2}

(* Constants of Drop, where an instance does not say otherwise.             *)
Names == {"x", "y"}
Contents == {c1, c2}
CAS == FALSE
MaxFiles == 2
maxAge == 0
maxTotal == 0
MaxRuns == 1
Absent == none

(* Two files in one run, as many as the receiver takes and one too many;    *)
(* one file in two runs; a content-addressed receiver and its collector.    *)
D2 == INSTANCE Drop WITH MaxTime <- 0

DL == INSTANCE Drop WITH MaxFiles <- 1, MaxTime <- 0

DR == INSTANCE Drop WITH Names <- {"x"}, MaxRuns <- 2, MaxTime <- 0

DC == INSTANCE Drop WITH
        Names <- {"x"}, Contents <- {c1}, CAS <- TRUE, maxAge <- 1, MaxRuns <- 2

DT == INSTANCE Drop WITH Names <- {"x"}, CAS <- TRUE, maxTotal <- 1, MaxRuns <- 2, MaxTime <- 1

Ask(o, f, by, b) == [op |-> o, path |-> f, who |-> by, body |-> b, limit |-> 0]
OneFile == [c1 |-> Ask("get", <<"a">>, "r", "x"), c2 |-> Ask("put", <<"a">>, "w", "y"),
            c3 |-> Ask("rm", <<"a">>, "w", "x")]
Nested == [c1 |-> Ask("put", <<"a">>, "w", "x"), c2 |-> Ask("put", <<"a", "b">>, "w", "y"),
           c3 |-> Ask("put", <<"a">>, "r", "x"), c4 |-> Ask("rm", <<"q">>, "n", "x")]
Barred == [c1 |-> Ask("put", <<"q">>, "w", "x"), c2 |-> Ask("put", <<"e">>, "w", "y"),
           c3 |-> Ask("put", <<"a">>, "w", "z"), c4 |-> Ask("rm", <<"q">>, "r", "x")]

Chosen(d, n) == [dir |-> d, names |-> n]
FileAndTree == <<Chosen(FALSE, [f |-> <<"x">>]), Chosen(TRUE, [g |-> <<"d", "g">>, h |-> <<"d", "h">>])>>

Wired(h, c, t) == [src |-> "p", key |-> "K", id |-> 1, hash |-> h, created |-> c, ttl |-> t]

(* Constants of Transfers, where an instance does not say otherwise.        *)
Request == OneFile
Readers == {"r"}
Writers == {"w"}
Clean == {<<"a">>, <<"a", "b">>, <<"e">>}
ExtOK == {<<"a">>, <<"a", "b">>}
Size == [x |-> 1, y |-> 2, z |-> 5]
MaxBytes == 3
MaxDrain == 4
Initial == (<<"a">> :> "x")
MaxEdits == 1
MaxCuts == 1
MaxFails == 1
Free == "free"
Paths == {"f", "g", "h"}
SendInitial == [f |-> 1, g |-> 2, h |-> -1]
Selections == FileAndTree
Text == 0
TextName == <<"t">>
PerItem == 2
MaxTotal == 3
MaxPayloads == 2
MaxSize == 3
Offer == [a |-> Wired(1, 0, 2), b |-> Wired(2, 1, 1)]
Allowed == {"p"}
MaxSkew == 0
MaxTTL == 2
Burst == 1
MaxRoom == 1
Keys == {"K", "L"}
MaxBreaks == 1
MaxTries == 1
MaxAuditFails == 1

(* The drive: a reader, a writer and a remover of one file; writers of a    *)
(* file and of its directory; refused paths.                                *)
DA == INSTANCE Transfers

DB == INSTANCE Transfers WITH Request <- Nested, Initial <- <<>>, MaxEdits <- 0, MaxCrashes <- 0

DD == INSTANCE Transfers WITH
        Request <- Barred, Initial <- (<<"d">> :> "dir"), MaxEdits <- 0, MaxFails <- 0,
        MaxCrashes <- 0

(* A file and a tree are sent while the tree changes; with a text whose     *)
(* name collides; with names that enclose each other.                       *)
SA == INSTANCE Transfers WITH MaxEdits <- 2

SB == INSTANCE Transfers WITH MaxEdits <- 2, Text <- 1, TextName <- <<"d">>, MaxSize <- 2

SC == INSTANCE Transfers WITH
        Paths <- {"f", "g"}, SendInitial <- [f |-> 1, g |-> 1],
        Selections <- <<Chosen(TRUE, [f |-> <<"x", "y">>, g |-> <<"x">>])>>, Text <- 1,
        TextName <- <<"x", "z">>, MaxTotal <- 4, MaxPayloads <- 3, MaxSize <- 2

(* Two offers with one id and different content, to a peer whose key moves; *)
(* one offer that is sent again.                                            *)
WI == INSTANCE Transfers WITH MaxMoves <- 1, MaxTime <- 2, Nobody <- "nobody"

WR == INSTANCE Transfers WITH
        MaxMoves <- 1, MaxTime <- 2, Nobody <- "nobody", Offer <- [a |-> Wired(1, 0, 2)],
        MaxTries <- 2

(* Constants of BackendStores, where an instance does not say otherwise.    *)
Procs == {"p", "q"}
Jobs == [j |-> [runAt |-> 2, every |-> 0], k |-> [runAt |-> 0, every |-> 1]]
Topics == {"t"}
MaxEvents == 0
MaxLost == 1
Callers == {}
Window == 1
Skew == 1

(* Schedulers that follow each other or run at once, with a job due once    *)
(* and a recurring one; bus backends with two topics.                       *)
BJ == INSTANCE BackendStores WITH MaxFails <- 0, MaxTime <- 2, Topics <- {}

BR == INSTANCE BackendStores WITH Jobs <- [k |-> [runAt |-> 0, every |-> 1]], Topics <- {}

BT == INSTANCE BackendStores WITH
        MaxFails <- 0, Jobs <- <<>>, Topics <- {"t", "u"}, MaxTime <- 1, MaxEvents <- 4

(* Two gateways on one row of the database store; three callers of one      *)
(* idempotency key or nonce, whose clocks differ and whose calls may stall. *)
PA == INSTANCE BackendStores WITH Gateways <- {"g", "h"}, MaxVer <- 1, MaxOps <- 5, MaxTime <- 0

PB == INSTANCE BackendStores WITH
        Gateways <- {}, MaxVer <- 1, MaxGen <- 2, MaxOps <- 4, Callers <- {"c", "d", "e"}

Written(d, s) == [doc |-> d, sections |-> s]
Filed(c, d, g) == [corpus |-> c, docs |-> d, granted |-> g]

(* Constants of Knowledge, where an instance does not say otherwise.        *)
Replicas == {"A", "B"}
Corpora == {"c"}
Grant == [u |-> {"c"}]
Reads == [u |-> {"c"}]
MaxFacts == 2
MaxRecords == 4
MaxFaults == 1
MaxSyncs == 2
Docs == [v1 |-> Written("d", <<<<"a", "b", "c", "e">>, <<"a">>>>), v2 |-> Written("d", <<<<"c">>, <<"e", "b">>>>), w |-> Written("x", <<<<"a">>>>)]
Requests == [r1 |-> Filed("p", <<"v1", "w">>, TRUE), r2 |-> Filed("q", <<"v2">>, TRUE), r3 |-> Filed("q", <<"v2">>, FALSE)]
Words == {"a", "c"}
chunkSize == 3
overlap == 1
Rows == 2
MaxRestarts == 1

(* Two replicas of one corpus that synchronise; one replica with two        *)
(* corpora and a reader of both.                                            *)
KA == INSTANCE Knowledge WITH MaxAuditFails <- 0

KB == INSTANCE Knowledge WITH
        Replicas <- {"A"}, Corpora <- {"c", "d"}, Grant <- [u |-> {"c"}, v |-> {"d"}],
        Reads <- [u |-> {"c"}, v |-> {"c", "d"}], MaxFacts <- 3, MaxSyncs <- 0

(* Two versions of a document in two corpora; a request that is not         *)
(* granted.                                                                 *)
RA == INSTANCE Knowledge WITH Corpora <- {"p", "q"}

(* A component that a part does not run has no state there.                 *)
moveIdle ==
    /\ rec = 0 /\ obj = 0 /\ live = 0 /\ removes = 0 /\ att = 0 /\ warm = 0 /\ ctl = 0
    /\ mv = 0 /\ wire = 0 /\ grants = 0 /\ moved = 0 /\ expired = 0
    /\ overtaken = 0
lockIdle ==
    /\ p = 0 /\ verified = 0 /\ slipped = 0
handIdle ==
    /\ archive = 0 /\ out = 0 /\ recv = 0 /\ w = 0 /\ rearms = 0 /\ refused = 0
dropIdle ==
    /\ receiptLog = 0 /\ run = 0 /\ pipe = 0 /\ frames = 0 /\ rcv = 0 /\ store = 0
    /\ clock = 0 /\ gc = 0 /\ installed = 0
driveIdle ==
    /\ tree = 0 /\ inode = 0 /\ locks = 0 /\ conn = 0 /\ got = 0 /\ unread = 0
    /\ everAt = 0 /\ ledger = 0 /\ cuts = 0
sendIdle ==
    /\ size = 0 /\ sel = 0 /\ walk = 0 /\ planned = 0 /\ trie = 0 /\ fd = 0
    /\ staged = 0 /\ root = 0 /\ sent = 0 /\ result = 0
wireIdle ==
    /\ holder = 0 /\ snd = 0 /\ back = 0 /\ trail = 0 /\ tokens = 0 /\ seen = 0
    /\ tries = 0 /\ moves = 0 /\ breaks = 0
backendIdle ==
    /\ copy = 0 /\ tmp = 0 /\ handed = 0 /\ tried = 0 /\ acked = 0 /\ cancelled = 0
    /\ events = 0 /\ known = 0 /\ reader = 0 /\ ended = 0 /\ overlapped = 0
pgIdle ==
    /\ row = 0 /\ ins = 0 /\ tx = 0 /\ holds = 0 /\ ops = 0 /\ lost = 0 /\ claim = 0
    /\ use = 0 /\ call = 0 /\ ran = 0 /\ accepted = 0
graphIdle ==
    /\ mem = 0 /\ seq = 0 /\ corpusOf = 0 /\ writer = 0 /\ alias = 0 /\ resolved = 0
    /\ audited = 0 /\ pulled = 0 /\ syncs = 0
ragIdle ==
    /\ index = 0 /\ lines = 0 /\ words = 0 /\ parents = 0 /\ parentLines = 0 /\ req = 0
    /\ shown = 0 /\ restarts = 0

Init ==
    /\ part \in Parts
    /\ CASE part = "move" -> MF!Init [] part = "roam" -> MR!Init [] OTHER -> moveIdle
    /\ CASE part = "lock" -> LC!Init [] part = "pause" -> LP!Init [] part = "steal" -> LS!Init
         [] OTHER -> lockIdle
    /\ CASE part = "intake" -> HI!Init [] part = "work" -> HW!Init [] OTHER -> handIdle
    /\ CASE part = "drop" -> D2!Init [] part = "limit" -> DL!Init [] part = "again" -> DR!Init
         [] part = "cas" -> DC!Init [] part = "quota" -> DT!Init [] OTHER -> dropIdle
    /\ CASE part = "drive" -> DA!DriveInit [] part = "nested" -> DB!DriveInit
         [] part = "barred" -> DD!DriveInit [] OTHER -> driveIdle
    /\ CASE part = "send" -> SA!SendInit [] part = "collide" -> SB!SendInit
         [] part = "enclose" -> SC!SendInit [] OTHER -> sendIdle
    /\ CASE part = "wire" -> WI!WireInit [] part = "resend" -> WR!WireInit [] OTHER -> wireIdle
    /\ CASE part = "jobs" -> BJ!BackendInit [] part = "slots" -> BR!BackendInit
         [] part = "topics" -> BT!BackendInit [] OTHER -> backendIdle
    /\ CASE part = "rows" -> PA!PgInit [] part = "claims" -> PB!PgInit [] OTHER -> pgIdle
    /\ CASE part = "facts" -> KA!GraphInit [] part = "corpora" -> KB!GraphInit
         [] OTHER -> graphIdle
    /\ CASE part = "rag" -> RA!RagInit [] OTHER -> ragIdle
    /\ part \notin {"move", "roam", "drive", "nested", "barred"} =>
         /\ client = 0
    /\ part \notin {"move", "roam", "jobs", "slots", "topics", "rag"} =>
         /\ up = 0
    /\ part \notin {"lock", "pause", "steal", "rows", "claims"} =>
         /\ lock = 0
    /\ part \notin {"lock", "pause", "steal", "jobs", "slots", "topics", "facts", "corpora"} =>
         /\ file = 0
    /\ part \notin {"lock", "pause", "steal", "drive", "nested", "barred", "wire", "resend"} =>
         /\ crashes = 0
    /\ part \notin {"intake", "work", "wire", "resend", "jobs", "slots", "topics", "rows", "claims"} =>
         /\ now = 0
    /\ part \notin {"intake", "work", "wire", "resend"} =>
         /\ inbox = 0
    /\ part \notin {"intake", "work", "facts", "corpora"} =>
         /\ receipts = 0
    /\ part \notin {"drop", "limit", "again", "cas", "quota", "send", "collide", "enclose"} =>
         /\ disk = 0
    /\ part \notin {"drive", "nested", "barred", "send", "collide", "enclose"} =>
         /\ edits = 0
    /\ part \notin {"drive", "nested", "barred", "jobs", "slots", "topics"} =>
         /\ fails = 0
    /\ part \notin {"send", "collide", "enclose", "jobs", "slots", "topics"} =>
         /\ pc = 0
    /\ part \notin {"wire", "resend", "facts", "corpora"} =>
         /\ auditFails = 0
    /\ part \notin {"facts", "corpora", "rag"} =>
         /\ faults = 0

Next ==
    \/ /\ UNCHANGED <<part, lockVars, handVars, dropVars, driveVars, sendVars, wireVars,
                     backendVars, pgVars, graphVars, ragVars, lock, file, crashes, now, inbox,
                     receipts, disk, edits, fails, pc, auditFails, faults>>
       /\ \/ part = "move" /\ MF!Next
          \/ part = "roam" /\ MR!Next
    \/ /\ UNCHANGED <<part, moveVars, handVars, dropVars, driveVars, sendVars, wireVars,
                     backendVars, pgVars, graphVars, ragVars, client, up, now, inbox, receipts,
                     disk, edits, fails, pc, auditFails, faults>>
       /\ \/ part = "lock" /\ LC!Next
          \/ part = "pause" /\ LP!Next
          \/ part = "steal" /\ LS!Next
    \/ /\ UNCHANGED <<part, moveVars, lockVars, dropVars, driveVars, sendVars, wireVars,
                     backendVars, pgVars, graphVars, ragVars, client, up, lock, file, crashes,
                     disk, edits, fails, pc, auditFails, faults>>
       /\ \/ part = "intake" /\ HI!Next
          \/ part = "work" /\ HW!Next
    \/ /\ UNCHANGED <<part, moveVars, lockVars, handVars, driveVars, sendVars, wireVars,
                     backendVars, pgVars, graphVars, ragVars, client, up, lock, file, crashes,
                     now, inbox, receipts, edits, fails, pc, auditFails, faults>>
       /\ \/ part = "drop" /\ D2!Next
          \/ part = "limit" /\ DL!Next
          \/ part = "again" /\ DR!Next
          \/ part = "cas" /\ DC!Next
          \/ part = "quota" /\ DT!Next
    \/ /\ UNCHANGED <<part, moveVars, lockVars, handVars, dropVars, sendVars, wireVars,
                     backendVars, pgVars, graphVars, ragVars, up, lock, file, now, inbox,
                     receipts, disk, pc, auditFails, faults>>
       /\ \/ part = "drive" /\ DA!DriveNext
          \/ part = "nested" /\ DB!DriveNext
          \/ part = "barred" /\ DD!DriveNext
    \/ /\ UNCHANGED <<part, moveVars, lockVars, handVars, dropVars, driveVars, wireVars,
                     backendVars, pgVars, graphVars, ragVars, client, up, lock, file, crashes,
                     now, inbox, receipts, fails, auditFails, faults>>
       /\ \/ part = "send" /\ SA!SendNext
          \/ part = "collide" /\ SB!SendNext
          \/ part = "enclose" /\ SC!SendNext
    \/ /\ UNCHANGED <<part, moveVars, lockVars, handVars, dropVars, driveVars, sendVars,
                     backendVars, pgVars, graphVars, ragVars, client, up, lock, file, receipts,
                     disk, edits, fails, pc, faults>>
       /\ \/ part = "wire" /\ WI!WireNext
          \/ part = "resend" /\ WR!WireNext
    \/ /\ UNCHANGED <<part, moveVars, lockVars, handVars, dropVars, driveVars, sendVars,
                     wireVars, pgVars, graphVars, ragVars, client, lock, crashes, inbox,
                     receipts, disk, edits, auditFails, faults>>
       /\ \/ part = "jobs" /\ BJ!BackendNext
          \/ part = "slots" /\ BR!BackendNext
          \/ part = "topics" /\ BT!BackendNext
    \/ /\ UNCHANGED <<part, moveVars, lockVars, handVars, dropVars, driveVars, sendVars,
                     wireVars, backendVars, graphVars, ragVars, client, up, file, crashes,
                     inbox, receipts, disk, edits, fails, pc, auditFails, faults>>
       /\ \/ part = "rows" /\ PA!PgNext
          \/ part = "claims" /\ PB!PgNext
    \/ /\ UNCHANGED <<part, moveVars, lockVars, handVars, dropVars, driveVars, sendVars,
                     wireVars, backendVars, pgVars, ragVars, client, up, lock, crashes, now,
                     inbox, disk, edits, fails, pc>>
       /\ \/ part = "facts" /\ KA!GraphNext
          \/ part = "corpora" /\ KB!GraphNext
    \/ /\ UNCHANGED <<part, moveVars, lockVars, handVars, dropVars, driveVars, sendVars,
                     wireVars, backendVars, pgVars, graphVars, client, lock, file, crashes,
                     now, inbox, receipts, disk, edits, fails, pc, auditFails>>
       /\ part = "rag" /\ RA!RagNext

Spec == Init /\ [][Next]_vars

-----------------------------------------------------------------------------
(* Whatever crashes during a move and wherever the client redials, the      *)
(* session can be resumed, and only a reaper ends it, unless a gateway that *)
(* was still removing, moving or committing it takes it again               *)
(* (YieldAfterMove, CommitMove, Server.remove); one grant lets one commit   *)
(* win the lease (ConsumeMoveGrant), and no warm entry outlives the control *)
(* connection (ServeMoveControl).                                           *)
MoveHolds ==
    /\ part = "move" => MF!TypeOK /\ MF!AlwaysResumable /\ MF!OneMovePerGrant /\ MF!NothingStranded
    /\ part = "roam" => MR!TypeOK /\ MR!AlwaysResumable /\ MR!OneMovePerGrant /\ MR!NothingStranded

(* An acknowledged offer stays stored, once, within the quota, and no order *)
(* of handoff commands writes a record the store refuses (Store.Put,        *)
(* transition); over the wire it is stored only for its authorised sender,  *)
(* and the sender believes it sent only when it is stored                   *)
(* (serveHandoffConn, sendHandoff).                                         *)
InboxHolds ==
    /\ part = "intake" => HI!TypeOK /\ HI!StoredOnce /\ HI!NeverRefused
    /\ part = "work" => HW!TypeOK /\ HW!StoredOnce /\ HW!NeverRefused
    /\ part = "wire" => WI!WireHolds
    /\ part = "resend" => WR!WireHolds

(* What a drive client was told of a file is so and files are stored whole  *)
(* (driveHandler); an outgoing copy is the bounded set of files that was    *)
(* planned, and nothing of it is left behind (stagePayloads).               *)
TransfersHold ==
    /\ part = "drive" => DA!DriveHolds
    /\ part = "nested" => DB!DriveHolds
    /\ part = "barred" => DD!DriveHolds
    /\ part = "send" => SA!SendHolds
    /\ part = "collide" => SB!SendHolds
    /\ part = "enclose" => SC!SendHolds
    /\ part = "drop" => D2!TypeOK
    /\ part = "limit" => DL!TypeOK
    /\ part = "again" => DR!TypeOK
    /\ part = "cas" => DC!TypeOK
    /\ part = "quota" => DT!TypeOK

(* A job is handed out once and an acknowledged event kept, where processes *)
(* do not run at once on one file (scheduler, bus backend); one transaction *)
(* holds a row, and a call is claimed once until some clock passes the      *)
(* claim's expiry (pgstore); facts stay in their corpus, chained and dead once retracted   *)
(* (kg.Store), and a search finds what is indexed, in its corpus (rag).     *)
RecordsHold ==
    /\ part = "jobs" => BJ!BackendsHold
    /\ part = "slots" => BR!BackendsHold
    /\ part = "topics" => BT!BackendsHold
    /\ part = "rows" => PA!OneHolder
    /\ part = "claims" => PB!ClaimedOnce
    /\ part = "facts" => KA!GraphsHold
    /\ part = "corpora" => KB!GraphsHold
    /\ part = "rag" => RA!RagHolds
    /\ part = "lock" => LC!TypeOK
    /\ part = "pause" => LP!TypeOK
    /\ part = "steal" => LS!TypeOK

(* The destination of a move serves from the source's last save             *)
(* (CommitMove). Between two processes no update of the session file is     *)
(* lost to a crash and the stealing of the lock it leaves; with paused      *)
(* holders, and with two that steal one lock, only through a lock taken     *)
(* between stillHeld and the rename (acquire, writeLocked). In the database *)
(* a lease changes hands only by a compare-and-swap on what it holds        *)
(* (PgStore). One dispatch for each acceptance or re-arm (ClaimDelivery), a *)
(* settled handoff stays as it is (transition), and an offer is stored only *)
(* within its lifetime (Validate). A receipt names bytes a receiver         *)
(* installed (runReceiptedSend), what the sender is told for certain is so  *)
(* (evaluateDropCompletion), the end marker is never missed                 *)
(* (dropCompletionStream), and --resume skips only what the receiver has    *)
(* (receiptedAlready). The collector spares what was written after its scan *)
(* (deleteCASBlobs); a drive file that is open keeps its bytes (Place), and *)
(* no copy is cut off (Probe). What was true of the graph at an earlier     *)
(* record stays so (ActiveAsOf).                                            *)
StoreSteps ==
    [][/\ part = "move" => MF!PromotesFinalState
       /\ part = "roam" => MR!PromotesFinalState
       /\ part = "lock" => LC!AtomicUpdate
       /\ part = "pause" => LP!LostOnlyInTheInstant
       /\ part = "steal" => LS!LostOnlyInTheInstant
       /\ part = "rows" => PA!LeaseStep
       /\ part = "intake" => HI!SettledStays
       /\ part = "work" => HW!SettledStays /\ HW!OneDispatchPerConsent'
       /\ part = "wire" => WI!NeverStoredLate
       /\ part = "resend" => WR!NeverStoredLate
       /\ part = "drop" => D2!ReceiptMeansInstalled' /\ D2!VerdictTrue' /\ D2!MarkerNotMissed'
       /\ part = "limit" => DL!VerdictTrue'
       /\ part = "again" => DR!ReceiptMeansInstalled' /\ DR!VerdictTrue' /\ DR!MarkerNotMissed' /\ DR!SkipsOnlyInstalled
       /\ part = "cas" => DC!SparesFresh
       /\ part = "quota" => DT!SparesFresh
       /\ part = "drive" => DA!OpenFilesKept
       /\ part = "nested" => DB!OpenFilesKept
       /\ part = "send" => SA!SendStep
       /\ part = "collide" => SB!SendStep
       /\ part = "facts" => KA!PastStays
       /\ part = "corpora" => KB!PastStays]_vars
=============================================================================
