------------------------------- MODULE MCLogs -------------------------------
(* Small instances of the append-only logs and of what reads them: the bus  *)
(* (a consumer group, durable readers over restarts, requesters and         *)
(* workers, mirrors, feeds), the views and commands over the audit ledger,  *)
(* and what is derived from it (films, proposed policies, the market).      *)
(* "part" selects one instance; a run of this module checks all that Parts  *)
(* names.                                                                   *)
EXTENDS Integers, Sequences, FiniteSets, TLC

CONSTANTS w1, w2, rda, rdb, pbc, q1, q2, nothing, Parts

VARIABLES part, up, events, torn, seq, prev, sealed, ring, retained, bus, clock, cursor, held,
          unwritten, req, inbox, work, jobs, unacked, replied, log, sub, connects, published,
          throttled, feedSub, printed, dropped, aged, start, kills, pub, accepted, pipe, ok, fail, gens,
          fol, handled, segs, half, halves, tail, acc, appender, ch, batch, worker, closed,
          delivered, lost, abandoned, racing, faults, event, hook, cps, anchors, gw, starts,
          outages, deaths, cli, ledger, rec, films, play, now, buckets, labels, approved,
          insightLedger, bundle, catalog, issued, cmd, marketLedger, charged, listed, edits

brokerVars == <<events, torn, prev, ring, bus, clock, held, unwritten>>
replyVars == <<req, inbox, work, jobs, unacked, replied>>
mirrorVars == <<sub, connects, published, throttled>>
feedVars == <<feedSub, printed, aged, start, kills, pub, accepted, pipe, ok, fail, gens, fol,
    handled>>
viewVars == <<segs, half, halves, tail, acc, appender, ch, batch, worker, closed, delivered,
    lost, abandoned, racing, faults, event, hook>>
cliVars == <<cps, anchors, gw, starts, outages, cli>>
filmVars == <<ledger, rec, films, play>>
insightVars == <<buckets, labels, approved, insightLedger>>
marketVars == <<bundle, catalog, issued, cmd, marketLedger, charged, listed, edits>>
vars == <<part, brokerVars, replyVars, mirrorVars, feedVars, viewVars, cliVars, filmVars,
    insightVars, marketVars, up, seq, sealed, retained, cursor, log, dropped, deaths, now>>

Worker == [topics |-> {"x"}, group |-> "g", ack |-> TRUE, bp |-> "drop", capability |-> FALSE]
Reader(b) == [topics |-> {"x", "y"}, group |-> "", ack |-> FALSE, bp |-> b, capability |-> FALSE]
Clears == [peers |-> {rda, rdb, w1, w2}, topics |-> {"x"}, allow |-> TRUE, emit |-> {},
           clear |-> {"pii"}, clearAll |-> FALSE]
Taints == [peers |-> {pbc, rda, rdb}, topics |-> {"y"}, allow |-> TRUE, emit |-> {"tainted"},
           clear |-> {"tainted", "pii"}, clearAll |-> FALSE]
Pub(t, l, r, ttl) == [how |-> "publish", by |-> pbc, topic |-> t, labels |-> l, retain |-> r,
                      ttl |-> ttl, capability |-> TRUE]
Retaining == {Pub("x", {}, "set", 0), [Pub("x", {"pii"}, "no", 0) EXCEPT !.how = "internal"],
              Pub("x", {}, "del", 0), [Pub("y", {}, "set", 1) EXCEPT !.how = "federated"]}

(* Constants of Broker, where an instance does not say otherwise.           *)
Clients == {w1, w2}
Profile == [c \in {w1, w2} |-> Worker]
NoGroup == ""
Rules == <<Clears>>
DefaultAllow == FALSE
Topics == {"x"}
Publishes == {Pub("x", {}, "no", 0)}
SubQueue == 2
MaxSubs == 2
MaxGroupPending == 1
MaxRetainedTopics == 1
Retain == 0
MaxEvents == 5
MaxTime == 0
Faults == {"leave"}

(* Two workers of an at-least-once group with a backlog of one.             *)
G == INSTANCE Broker

(* A durable reader that loses its oldest event when it is slow, and one    *)
(* that is disconnected; a replay ring of two, one retained topic.          *)
S == INSTANCE Broker WITH
        MaxSubs <- 1, Rules <- <<Clears, Taints>>, Topics <- {"x", "y"},
        Publishes <- Retaining, Retain <- 2, MaxEvents <- 4, MaxTime <- 2, Clients <- {rda},
        Profile <- [c \in {rda} |-> Reader("drop")], SubQueue <- 1,
        Faults <- {"leave", "crash"}

D == INSTANCE Broker WITH
        MaxSubs <- 1, Rules <- <<Clears, Taints>>, Topics <- {"x", "y"},
        Publishes <- Retaining, Retain <- 2, MaxEvents <- 4, MaxTime <- 2, Clients <- {rdb},
        Profile <- [c \in {rdb} |-> Reader("disconnect")], Faults <- {"leave", "crash"}

(* A log whose appends may fail.                                            *)
L == INSTANCE Broker WITH
        DefaultAllow <- TRUE, MaxSubs <- 1, Topics <- {"x", "y"},
        Publishes <- {Pub("x", {}, "set", 0), Pub("y", {}, "no", 0)}, Retain <- 2,
        MaxEvents <- 4, Clients <- {rda},
        Profile <- [c \in {rda} |-> Reader("drop")], SubQueue <- 1,
        Faults <- {"leave", "crash", "lost"}

(* Crashes that tear the record being written.                              *)
T == INSTANCE Broker WITH
        DefaultAllow <- TRUE, MaxSubs <- 1, Topics <- {"x", "y"},
        Publishes <- {Pub("x", {}, "set", 1), Pub("y", {}, "no", 0)}, Retain <- 2,
        MaxEvents <- 4, MaxTime <- 2, Clients <- {rda},
        Profile <- [c \in {rda} |-> Reader("drop")], SubQueue <- 1, Faults <- {"torn", "crash"}

Both == {<<"A", "B">>, <<"B", "A">>}
Ring == {<<"A", "B">>, <<"B", "C">>, <<"C", "A">>}
OnlyB(bs, x) == [b \in bs |-> IF b = "B" THEN {x} ELSE {}]

(* Constants of BusClients, where an instance does not say otherwise.       *)
Requesters == {q1, q2}
Workers == {w1, w2}
Grouped == TRUE
AckMode == TRUE
SharedTopic == TRUE
Brokers == {"A", "B"}
Links == Both
Labels == {"s"}
Emits == OnlyB({"A", "B"}, "x")
Refuses == OnlyB({"A", "B"}, "u")
MaxConnects == 2
MaxThrottled == 1
Local == "local"
NoEvent == nothing
MaxSeq == 5
MaxKills == 2
Lines == 0
MaxUnits == 0
MaxGens == 1

(* Two requesters that share a reply topic, two grouped --ack workers.      *)
R == INSTANCE BusClients

(* Two brokers that mirror each other, and three in a ring.                 *)
BM == INSTANCE BusClients WITH Topics <- {"t"}, MaxEvents <- 2

BR == INSTANCE BusClients WITH
        Brokers <- {"A", "B", "C"}, Links <- Ring, Topics <- {"t", "u"}, Labels <- {},
        Emits <- OnlyB({"A", "B", "C"}, "x"), Refuses <- OnlyB({"A", "B", "C"}, "u"),
        MaxEvents <- 1, MaxConnects <- 1

(* A tail that is killed and resumed; a file that is fed and truncated.     *)
FT == INSTANCE BusClients WITH Retain <- 3

FL == INSTANCE BusClients WITH
        MaxSeq <- 0, Retain <- 3, MaxKills <- 0, Lines <- 3, MaxUnits <- 6, MaxGens <- 2

(* Constants of LedgerReaders, where an instance does not say otherwise.    *)
MaxRecords == 7
RotateAt == 3
MaxHalf == 1
Appenders == {}
QueueSize == 2
BatchSize == 2
MaxFaults == 2
Sinks == {}
HookQueue == 1
Commands == ("a" :> "anchor" @@ "t" :> "attest")
Alone == TRUE
MaxStarts == 2
MaxOutages == 2
MaxDeaths == 1

(* A dashboard over a rotating ledger; appenders and the exporter; two      *)
(* alert sinks.                                                             *)
VA == INSTANCE LedgerReaders WITH MaxEvents <- 0

VB == INSTANCE LedgerReaders WITH
        MaxRecords <- 0, MaxHalf <- 0, Appenders <- 1..3, MaxEvents <- 0

VC == INSTANCE LedgerReaders WITH
        MaxRecords <- 0, MaxHalf <- 0, Sinks <- {"bus", "webhook"}, MaxEvents <- 3

(* `audit anchor` and `audit attest`; `audit verify` beside a running       *)
(* gateway.                                                                 *)
CA == INSTANCE LedgerReaders WITH MaxRecords <- 2

CB == INSTANCE LedgerReaders WITH
        Commands <- ("v" :> "verify" @@ "a" :> "anchor"), Alone <- FALSE, MaxRecords <- 2,
        MaxStarts <- 1, MaxOutages <- 1, MaxDeaths <- 0

Film(l, s, k, r) == [last |-> l, since |-> s, match |-> k, redact |-> r, out |-> "f"]

Calls(ps, ts, bl, em, rt, co) ==
    [peers |-> ps, tools |-> ts, allow |-> TRUE, block |-> bl, emits |-> em, rate |-> rt,
     when |-> [days |-> {}, hours |-> <<>>], cosign |-> co]
Named(s, n) == [sel |-> s, name |-> n]
Everyone == {Named("all", "*")}
Post == Calls(Everyone, {Named("tool", "post")}, {"pii"}, {}, 1, FALSE)
ReadsA == Calls({Named("key", "k")}, {Named("tool", "read_a")}, {}, {"pii"}, 0, FALSE)
ReadsAny == Calls(Everyone, {Named("prefix", "read_")}, {}, {}, 0, TRUE)

Offered(n, c, t, k) == [key |-> "k", name |-> n, bundle |-> "b", kind |-> k, cost |-> c, ttl |-> t]
Wanted == [pubkeys |-> {"k"}, file |-> "f", bundle |-> "b"]

(* Constants of LedgerStudies, where an instance does not say otherwise.    *)
Recorders == [a |-> Film(0, 0, "any", FALSE), b |-> Film(0, 0, "x", FALSE)]
Players == [p |-> "f"]
Kinds == {"x", "y"}
AnyKind == "any"
maxFilmRecords == 2
Sessions == ("a" :> [peer |-> "p", key |-> "k"] @@ "b" :> [peer |-> "q", key |-> ""])
Tools == {"read_a", "read_b", "post"}
PrefixOf == [t \in {"read_a", "read_b", "post"} |-> IF t = "post" THEN "" ELSE "read_"]
Egress == {"post"}
InEffect == <<ReadsA, Post, ReadsAny>>
Times == {118800, 118890, 126600}
RateSafety == 2
MinCallsForWindow == 2
Generalize == FALSE
RateFactor == 3
DenyWindow == 2
Publish == [p |-> Offered("n", 1, 1, "pack"), q |-> Offered("n2", 2, 0, "pack")]
Install == [i |-> Wanted]
Verify == <<>>
File == [n |-> "f", n2 |-> "f"]
BundleKinds == {"pack"}
Contents == {1, 2}
MaxEdits == 1

(* Films of the whole ledger and of one kind of record; of a window,        *)
(* redacted.                                                                *)
LF == INSTANCE LedgerStudies WITH MaxRecords <- 3, MaxDeaths <- 0

LW == INSTANCE LedgerStudies WITH
        Recorders <- [a |-> Film(0, 1, "any", FALSE), b |-> Film(2, 0, "any", TRUE)],
        Kinds <- {"x"}, maxFilmRecords <- 1, MaxRecords <- 2, MaxTime <- 1

(* Two sessions, three tools, three times of day; one session, a            *)
(* generalised policy.                                                      *)
IA == INSTANCE LedgerStudies WITH MaxRecords <- 3

IB == INSTANCE LedgerStudies WITH
        Tools <- {"read_a", "post"}, Sessions <- ("a" :> [peer |-> "p", key |-> "k"]),
        Times <- {118800, 118830, 118890, 126600}, Generalize <- TRUE, MaxRecords <- 4

(* Two entries of one publisher and an installer; a verifier and an entry   *)
(* of a kind that is refused.                                               *)
KA == INSTANCE LedgerStudies WITH MaxTime <- 1

KB == INSTANCE LedgerStudies WITH
        MaxTime <- 1,
        Publish <- [p |-> Offered("n", 1, 1, "pack"), r |-> Offered("n", 1, 1, "other")],
        Install <- <<>>, Verify <- [v |-> Wanted]

(* A component that a part does not run has no state there.                 *)
brokerIdle ==
    /\ events = 0 /\ torn = 0 /\ prev = 0 /\ ring = 0 /\ bus = 0 /\ clock = 0
    /\ held = 0 /\ unwritten = 0
replyIdle ==
    /\ req = 0 /\ inbox = 0 /\ work = 0 /\ jobs = 0 /\ unacked = 0 /\ replied = 0
mirrorIdle ==
    /\ sub = 0 /\ connects = 0 /\ published = 0 /\ throttled = 0
feedIdle ==
    /\ feedSub = 0 /\ printed = 0 /\ aged = 0 /\ start = 0 /\ kills = 0 /\ pub = 0
    /\ accepted = 0 /\ pipe = 0 /\ ok = 0 /\ fail = 0 /\ gens = 0 /\ fol = 0 /\ handled = 0
viewIdle ==
    /\ segs = 0 /\ half = 0 /\ halves = 0 /\ tail = 0 /\ acc = 0 /\ appender = 0
    /\ ch = 0 /\ batch = 0 /\ worker = 0 /\ closed = 0 /\ delivered = 0 /\ lost = 0
    /\ abandoned = 0 /\ racing = 0 /\ faults = 0 /\ event = 0 /\ hook = 0
cliIdle ==
    /\ cps = 0 /\ anchors = 0 /\ gw = 0 /\ starts = 0 /\ outages = 0 /\ cli = 0
filmIdle ==
    /\ ledger = 0 /\ rec = 0 /\ films = 0 /\ play = 0
insightIdle ==
    /\ buckets = 0 /\ labels = 0 /\ approved = 0 /\ insightLedger = 0
marketIdle ==
    /\ bundle = 0 /\ catalog = 0 /\ issued = 0 /\ cmd = 0 /\ marketLedger = 0
    /\ charged = 0 /\ listed = 0 /\ edits = 0

Init ==
    /\ part \in Parts
    /\ CASE part = "groups" -> G!Init [] part = "stream" -> S!Init [] part = "strict" -> D!Init
         [] part = "unsaved" -> L!Init [] part = "torn" -> T!Init [] OTHER -> brokerIdle
    /\ CASE part = "reply" -> R!ReplyInit [] OTHER -> replyIdle
    /\ CASE part = "mirror" -> BM!MirrorInit [] part = "ring" -> BR!MirrorInit
         [] OTHER -> mirrorIdle
    /\ CASE part = "tail" -> FT!FeedInit [] part = "lines" -> FL!FeedInit [] OTHER -> feedIdle
    /\ CASE part = "board" -> VA!ViewInit [] part = "export" -> VB!ViewInit
         [] part = "alerts" -> VC!ViewInit [] OTHER -> viewIdle
    /\ CASE part = "attest" -> CA!CliInit [] part = "verify" -> CB!CliInit [] OTHER -> cliIdle
    /\ CASE part = "film" -> LF!FilmInit [] part = "window" -> LW!FilmInit [] OTHER -> filmIdle
    /\ CASE part = "learn" -> IA!InsightInit [] part = "general" -> IB!InsightInit
         [] OTHER -> insightIdle
    /\ CASE part = "market" -> KA!MarketInit [] part = "refuse" -> KB!MarketInit
         [] OTHER -> marketIdle
    /\ part \notin {"groups", "stream", "strict", "unsaved", "torn", "mirror", "ring"} =>
         /\ up = 0 /\ retained = 0
    /\ part \notin {"groups", "stream", "strict", "unsaved", "torn", "tail", "lines", "film",
                    "window"} =>
         /\ seq = 0
    /\ part \notin {"groups", "stream", "strict", "unsaved", "torn", "film", "window"} =>
         /\ sealed = 0
    /\ part \notin {"groups", "stream", "strict", "unsaved", "torn", "tail", "lines"} =>
         /\ cursor = 0
    /\ part \notin {"mirror", "ring", "attest", "verify"} =>
         /\ log = 0
    /\ part \notin {"tail", "lines", "board", "export", "alerts"} =>
         /\ dropped = 0
    /\ part \notin {"attest", "verify", "film", "window", "market", "refuse"} =>
         /\ deaths = 0
    /\ part \notin {"learn", "general", "market", "refuse"} =>
         /\ now = 0

Next ==
    \/ /\ UNCHANGED <<part, replyVars, mirrorVars, feedVars, viewVars, cliVars, filmVars,
                     insightVars, marketVars, log, dropped, deaths, now>>
       /\ \/ part = "groups" /\ G!Next
          \/ part = "stream" /\ S!Next
          \/ part = "strict" /\ D!Next
          \/ part = "unsaved" /\ L!Next
          \/ part = "torn" /\ T!Next
    \/ /\ UNCHANGED <<part, brokerVars, mirrorVars, feedVars, viewVars, cliVars, filmVars,
                     insightVars, marketVars, up, seq, sealed, retained, cursor, log, dropped,
                     deaths, now>>
       /\ part = "reply" /\ R!ReplyNext
    \/ /\ UNCHANGED <<part, brokerVars, replyVars, feedVars, viewVars, cliVars, filmVars,
                     insightVars, marketVars, seq, sealed, cursor, dropped, deaths, now>>
       /\ \/ part = "mirror" /\ BM!MirrorNext
          \/ part = "ring" /\ BR!MirrorNext
    \/ /\ UNCHANGED <<part, brokerVars, replyVars, mirrorVars, viewVars, cliVars, filmVars,
                     insightVars, marketVars, up, sealed, retained, log, deaths, now>>
       /\ \/ part = "tail" /\ FT!FeedNext
          \/ part = "lines" /\ FL!FeedNext
    \/ /\ UNCHANGED <<part, brokerVars, replyVars, mirrorVars, feedVars, cliVars, filmVars,
                     insightVars, marketVars, up, seq, sealed, retained, cursor, log, deaths,
                     now>>
       /\ \/ part = "board" /\ VA!ViewNext
          \/ part = "export" /\ VB!ViewNext
          \/ part = "alerts" /\ VC!ViewNext
    \/ /\ UNCHANGED <<part, brokerVars, replyVars, mirrorVars, feedVars, viewVars, filmVars,
                     insightVars, marketVars, up, seq, sealed, retained, cursor, dropped, now>>
       /\ \/ part = "attest" /\ CA!CliNext
          \/ part = "verify" /\ CB!CliNext
    \/ /\ UNCHANGED <<part, brokerVars, replyVars, mirrorVars, feedVars, viewVars, cliVars,
                     insightVars, marketVars, up, retained, cursor, log, dropped, now>>
       /\ \/ part = "film" /\ LF!FilmNext
          \/ part = "window" /\ LW!FilmNext
    \/ /\ UNCHANGED <<part, brokerVars, replyVars, mirrorVars, feedVars, viewVars, cliVars,
                     filmVars, marketVars, up, seq, sealed, retained, cursor, log, dropped,
                     deaths>>
       /\ \/ part = "learn" /\ IA!InsightNext
          \/ part = "general" /\ IB!InsightNext
    \/ /\ UNCHANGED <<part, brokerVars, replyVars, mirrorVars, feedVars, viewVars, cliVars,
                     filmVars, insightVars, up, seq, sealed, retained, cursor, log, dropped>>
       /\ \/ part = "market" /\ KA!MarketNext
          \/ part = "refuse" /\ KB!MarketNext

Spec == Init /\ [][Next]_vars

-----------------------------------------------------------------------------
(* Every event offered to an at-least-once group is acknowledged, in        *)
(* flight, in the backlog or counted as dropped, in one of these places     *)
(* only (closeSubLocked), and held back only while all members are full     *)
(* (Ack, Subscribe); no subscription receives a label it is not cleared     *)
(* for; and after any restart the broker continues its chain, unless it     *)
(* published on after a failed append, and a retained value is the newest   *)
(* of its topic (New, append, ApplyRetained).                               *)
BrokerHolds ==
    /\ part = "groups" => G!TypeOK /\ G!Accounted /\ G!OnePlace /\ G!BacklogMeansBusy
    /\ part = "stream" => S!TypeOK /\ S!Contained /\ S!ChainContinues /\ S!RetainedIsNewest
    /\ part = "strict" => D!TypeOK /\ D!Contained /\ D!ChainContinues /\ D!RetainedIsNewest
    /\ part = "unsaved" => L!TypeOK /\ L!Contained /\ L!ChainContinues /\ L!RetainedIsNewest

(* A durable reader reads the log in order, no number twice unless it read  *)
(* an event whose append failed, and misses an accepted event only when it  *)
(* is told so (Subscribe, offer).                                           *)
ReadsTheLog ==
    [][/\ part = "stream" => S!GapIsReported /\ S!ReadIsNew
       /\ part = "strict" => D!GapIsReported /\ D!ReadIsNew
       /\ part = "unsaved" => L!GapIsReported /\ L!ReadIsNew]_vars

(* A requester takes only the reply to its own request and none falls       *)
(* between publishing and subscribing (cmdRequest); no mirrored event comes *)
(* back to its origin or loses its labels (cmdBusMirror); a feed hands on   *)
(* each event at least once, in order, and counts what it dropped (bus      *)
(* tail, cmdFeed).                                                          *)
ClientsHold ==
    /\ part = "reply" => R!OwnReply /\ R!NoMissedReply
    /\ part = "mirror" => BM!MirrorHolds
    /\ part = "ring" => BR!MirrorHolds
    /\ part = "tail" => FT!FeedsHold
    /\ part = "lines" => FL!FeedsHold

(* What the dashboard, the exporter and the alert sinks say of the ledger   *)
(* is so, unless the dashboard missed a rotation (Tailer, Shipper,          *)
(* notifiers), and the verdicts of `audit verify`, `anchor` and `attest`    *)
(* are about the records they read (cmdAudit). A film is accepted only for  *)
(* what it shows and shows the records it covers (film.go); a proposed      *)
(* policy allows what was allowed, denies what was denied, and the replay   *)
(* agrees (insight); what is installed was listed, verified and paid for    *)
(* (market).                                                                *)
ReadersHold ==
    /\ part = "board" => VA!ViewsHold
    /\ part = "export" => VB!ViewsHold
    /\ part = "alerts" => VC!ViewsHold
    /\ part = "attest" => CA!CliHolds
    /\ part = "verify" => CB!CliHolds
    /\ part = "film" => LF!FilmsHold
    /\ part = "window" => LW!FilmsHold
    /\ part = "learn" => IA!InsightHolds
    /\ part = "general" => IB!InsightHolds
    /\ part = "market" => KA!MarketHolds
    /\ part = "refuse" => KB!MarketHolds

(* What the log holds can be loaded, whatever a crash tore (LoadEvents).    *)
LogLoads ==
    part = "torn" => T!TypeOK /\ T!LogLoads
=============================================================================
