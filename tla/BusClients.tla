----------------------------- MODULE BusClients -----------------------------
(***************************************************************************)
(* What talks to the broker: a requester and its workers, the links that   *)
(* mirror one broker's topics to another, and the stream, publish and      *)
(* follow commands. Each part is a specification of its own, with its own  *)
(* initial state and next-state relation; a behaviour is a behaviour of    *)
(* one of them.                                                            *)
(***************************************************************************)
EXTENDS Integers, SequencesExt, FiniteSets

-----------------------------------------------------------------------------
(* Request/reply over the bus: `meshmcp request` subscribes to its reply   *)
(* topic, publishes the request and waits for the reply that carries its   *)
(* correlation id; a worker subscribes to the request topic, runs a        *)
(* handler per request and publishes the result. The worker is `meshmcp    *)
(* respond` once the hello it writes to its reply pipe has been taken.     *)
CONSTANTS Requesters, Workers,
          Grouped,      \* the workers share one consumer group
          AckMode,      \* respond --ack
          SharedTopic   \* --reply-topic gives all requesters one reply topic

VARIABLES
    req,        \* per requester: how far cmdRequest has come
    inbox,      \* per requester: replies on its reply topic it has not looked at
    work,       \* per worker: "subscribe", "serving", "stopped"
    jobs,       \* per worker: requests delivered to it
    unacked,    \* per worker: requests it has handled without acknowledging
    replied     \* requests some worker has published a reply to

replyVars == <<req, inbox, work, jobs, unacked, replied>>

ReplyInit ==
    /\ req = [q \in Requesters |-> "idle"] /\ inbox = [q \in Requesters |-> {}]
    /\ work = [w \in Workers |-> "subscribe"]
    /\ jobs = [w \in Workers |-> <<>>] /\ unacked = [w \in Workers |-> {}]
    /\ replied = {}

-----------------------------------------------------------------------------
(* cmdRequest.                                                             *)

SubscribeReply(q) ==
    /\ req[q] = "idle"
    /\ req' = [req EXCEPT ![q] = "subscribed"]
    /\ UNCHANGED <<inbox, work, jobs, unacked, replied>>

(* The subscription's session ends before the acknowledgement: cmdRequest  *)
(* goes on and publishes all the same.                                     *)
SubscribeEnds(q) ==
    /\ req[q] = "idle"
    /\ req' = [req EXCEPT ![q] = "deaf"]
    /\ UNCHANGED <<inbox, work, jobs, unacked, replied>>

Serving == {w \in Workers : work[w] = "serving"}

(* (Mutated form: publish before the reply subscription is made.)          *)
PublishFirst(q) ==
    /\ req[q] = "idle" /\ q \notin replied
    /\ \E w \in Serving : jobs[w] = <<>> /\ jobs' = [jobs EXCEPT ![w] = <<q>>]
    /\ UNCHANGED <<req, inbox, work, unacked, replied>>
PublishRequest(q) ==
    /\ req[q] \in {"subscribed", "deaf"}
    /\ req' = [req EXCEPT ![q] = IF @ = "deaf" THEN "unheard" ELSE "waiting"]
    /\ \E to \in SUBSET Serving :
          /\ IF Grouped THEN Cardinality(to) = (IF Serving = {} THEN 0 ELSE 1) ELSE to = Serving
          /\ jobs' = [w \in Workers |-> IF w \in to THEN Append(jobs[w], q) ELSE jobs[w]]
    /\ UNCHANGED <<inbox, work, unacked, replied>>

(* The reply subscription's onLine: only the own correlation id counts.    *)
ReplyReceive(q, corr) ==
    /\ req[q] = "waiting" /\ corr \in inbox[q]
    /\ inbox' = [inbox EXCEPT ![q] = @ \ {corr}]
    /\ req' = IF corr = q THEN [req EXCEPT ![q] = "replied"] ELSE req
    /\ UNCHANGED <<work, jobs, unacked, replied>>

(* The timeout, or an error the broker or the connection reports.          *)
Timeout(q) ==
    /\ req[q] \notin {"replied", "failed"}
    /\ req' = [req EXCEPT ![q] = "failed"]
    /\ UNCHANGED <<inbox, work, jobs, unacked, replied>>

-----------------------------------------------------------------------------
(* cmdRespond.                                                             *)

Moves(w, from, to) == work[w] = from /\ work' = [work EXCEPT ![w] = to]

SubscribeJobs(w) ==
    /\ Moves(w, "subscribe", "serving")
    /\ UNCHANGED <<req, inbox, jobs, unacked, replied>>

Topic(q) == IF SharedTopic THEN Requesters ELSE {q}
Waiting(q) == req[q] \in {"subscribed", "waiting"}

(* handle: a failing handler under --ack neither replies nor acknowledges; *)
(* otherwise its error text is the reply.                                  *)
Handle(w, ok) ==
    /\ work[w] = "serving" /\ jobs[w] # <<>>
    /\ jobs' = [jobs EXCEPT ![w] = Tail(@)]
    /\ LET q == Head(jobs[w])
       IN  IF AckMode /\ ~ok
           THEN /\ unacked' = [unacked EXCEPT ![w] = @ \cup {q}]
                /\ UNCHANGED <<inbox, replied>>
           ELSE /\ replied' = replied \cup {q}
                /\ inbox' = [r \in Requesters |->
                               IF r \in Topic(q) /\ Waiting(r) THEN inbox[r] \cup {q} ELSE inbox[r]]
                /\ UNCHANGED unacked
    /\ UNCHANGED <<req, work>>

(* The worker's session ends; an at-least-once group redelivers what it    *)
(* had not acknowledged.                                                   *)
StopWorker(w) ==
    /\ Moves(w, "serving", "stopped")
    /\ LET left == IF AckMode THEN SetToSeq(unacked[w]) \o jobs[w] ELSE <<>>
       IN  \/ /\ Serving \ {w} # {} /\ Grouped
              /\ \E v \in Serving \ {w} : jobs' = [jobs EXCEPT ![w] = <<>>, ![v] = left \o @]
           \/ /\ (Serving = {w} \/ ~Grouped)
              /\ jobs' = [jobs EXCEPT ![w] = <<>>]
    /\ unacked' = [unacked EXCEPT ![w] = {}]
    /\ UNCHANGED <<req, inbox, replied>>

ReplyNext ==
    \/ \E q \in Requesters : SubscribeReply(q) \/ SubscribeEnds(q) \/ PublishRequest(q) \/ Timeout(q)
                             \/ \E c \in inbox[q] : ReplyReceive(q, c)
    \/ \E w \in Workers : SubscribeJobs(w) \/ StopWorker(w) \/ \E ok \in BOOLEAN : Handle(w, ok)

ReplySpec == ReplyInit /\ [][ReplyNext]_replyVars

-----------------------------------------------------------------------------
(* A requester reports success only for a reply to its own request, also   *)
(* when every requester listens on the same topic.                         *)
OwnReply == \A q \in Requesters : req[q] = "replied" => q \in replied

(* Subscribing before publishing leaves no window: once a reply has been   *)
(* published a subscribed requester has it, had it, or has given up.       *)
NoMissedReply == \A q \in replied : req[q] \in {"replied", "failed", "unheard"} \/ q \in inbox[q]

-----------------------------------------------------------------------------
(***************************************************************************)
(* Brokers that mirror each other's events: runFederation subscribes to a  *)
(* remote broker, drops what is itself a mirror, re-emits the rest, and    *)
(* connects anew after every break (cmd/meshmcp/pubsub.go, the trusted     *)
(* emission of pubsub/broker.go).  What a broker does with one event is    *)
(* module Broker.                                                          *)
(***************************************************************************)
CONSTANTS Brokers,
          Links,      \* <<from, to>>: `to` mirrors `from`
          Topics, Labels,
          Emits,      \* broker -> the labels its own policy adds to mirrors
          Refuses,    \* broker -> topics its policy denies to federation
          MaxEvents, MaxConnects, MaxThrottled,
          Local, NoEvent

VARIABLES log,       \* broker -> its events
          retained,  \* broker -> topic -> last value
          sub,       \* link -> what the remote has queued, <<>> when down
          up,        \* the links that are subscribed
          connects, published, throttled
mirrorVars == <<log, retained, sub, up, connects, published, throttled>>

MirrorInit ==
  /\ log = [b \in Brokers |-> <<>>]
  /\ retained = [b \in Brokers |-> [t \in Topics |-> NoEvent]]
  /\ sub = [l \in Links |-> <<>>] /\ up = {} /\ connects = [l \in Links |-> 0]
  /\ published = 0 /\ throttled = 0

(* applyRetainedLocked.                                                    *)
Applies(r, ev) ==
  [r EXCEPT ![ev.topic] = CASE ev.keep = "set" -> ev [] ev.keep = "del" -> NoEvent [] OTHER -> @]

(* Sealed into the log, kept, and fanned out to the links subscribed here. *)
Emit(b, ev, queues) ==
  /\ log' = [log EXCEPT ![b] = Append(@, ev)]
  /\ retained' = [retained EXCEPT ![b] = Applies(@, ev)]
  /\ sub' = [l \in Links |-> IF l \in up /\ l[1] = b THEN Append(queues[l], ev) ELSE queues[l]]

(* A client's publish at its own broker.                                   *)
MirrorPublish(b, t, ls, keep) ==
  /\ published < MaxEvents /\ published' = published + 1
  /\ Emit(b, [id |-> published + 1, topic |-> t, labels |-> ls, keep |-> keep, origin |-> Local], sub)
  /\ UNCHANGED <<up, connects, throttled>>

(* The subscribe frame asks for no replay, so the retained values come     *)
(* first, oldest first.                                                    *)
Connect(l) ==
  /\ l \notin up /\ connects[l] < MaxConnects
  /\ connects' = [connects EXCEPT ![l] = @ + 1]
  /\ up' = up \cup {l}
  /\ sub' = [sub EXCEPT ![l] = SelectSeq(log[l[1]], LAMBDA e : retained[l[1]][e.topic] = e)]
  /\ UNCHANGED <<log, retained, published, throttled>>
Disconnect(l) ==
  /\ l \in up /\ up' = up \ {l} /\ sub' = [sub EXCEPT ![l] = <<>>]
  /\ UNCHANGED <<log, retained, connects, published, throttled>>

(* onLine: an event that carries an origin is a mirror.                    *)
Original(l, ev) == ev.origin = Local
(* EmitFederated adds this broker's labels for the topic and honours its   *)
(* explicit deny.  (Mutated form: the peer's labels are replaced.)         *)
RelabelOnly(b, ev, from) == [ev EXCEPT !.origin = from, !.labels = Emits[b]]
Mirrored(b, ev, from) == [ev EXCEPT !.origin = from, !.labels = @ \cup Emits[b]]
MirrorReceive(l) ==
  LET ev == Head(sub[l])
      rest == [sub EXCEPT ![l] = Tail(@)]
      here == l[2]
  IN /\ l \in up /\ sub[l] # <<>>
     /\ \/ /\ Original(l, ev) /\ ev.topic \notin Refuses[here]
           /\ Emit(here, Mirrored(here, ev, l[1]), rest) /\ throttled' = throttled
        \/ /\ ~Original(l, ev) \/ ev.topic \in Refuses[here]
           /\ sub' = rest /\ UNCHANGED <<log, retained, throttled>>
        \/ /\ Original(l, ev) /\ throttled < MaxThrottled /\ throttled' = throttled + 1
           /\ sub' = rest /\ UNCHANGED <<log, retained>>
     /\ UNCHANGED <<up, connects, published>>

MirrorNext ==
  \/ \E b \in Brokers, t \in Topics, ls \in SUBSET Labels, k \in {"no", "set", "del"} : MirrorPublish(b, t, ls, k)
  \/ \E l \in Links : Connect(l) \/ Disconnect(l) \/ MirrorReceive(l)

MirrorSpec == MirrorInit /\ [][MirrorNext]_mirrorVars
-----------------------------------------------------------------------------
Copies(b, id) == {i \in DOMAIN log[b] : log[b][i].id = id}
Source(id) == {b \in Brokers : \E i \in Copies(b, id) : log[b][i].origin = Local}

(* Brokers that mirror each other do not loop: an event never comes back   *)
(* to the broker it was published at, and a link re-emits it at most once  *)
(* for every time it subscribed.                                           *)
NoLoop ==
  \A id \in 1..published : \E home \in Source(id) :
    /\ Cardinality(Copies(home, id)) = 1
    /\ \A l \in Links : l[1] = home =>
         Cardinality({i \in Copies(l[2], id) : log[l[2]][i].origin = home}) <= connects[l]
    /\ \A b \in Brokers \ {home} : \A i \in Copies(b, id) : <<home, b>> \in Links /\ log[b][i].origin = home

(* Containment holds across brokers: a mirror has every label of its       *)
(* original and those of the mirroring broker.                             *)
LabelsKept ==
  \A b \in Brokers : \A i \in DOMAIN log[b] : log[b][i].origin # Local =>
    LET o == log[log[b][i].origin][Min(Copies(log[b][i].origin, log[b][i].id))] IN
    o.labels \cup Emits[b] \subseteq log[b][i].labels

(* A retained value follows while the link stays: a topic published at one *)
(* broker only, whose link has been up from the start and has nothing      *)
(* queued, is retained alike at both.                                      *)
OnlyAt(b, t) == \A c \in Brokers \ {b} : \A i \in DOMAIN log[c] : log[c][i].topic = t => log[c][i].origin = b
RetainedFollows ==
  \A l \in up : \A t \in Topics :
    connects[l] = 1 /\ sub[l] = <<>> /\ throttled = 0 /\ OnlyAt(l[1], t) /\ t \notin Refuses[l[2]]
    /\ (\A c \in Brokers : <<c, l[2]>> \in Links => c = l[1])
      => LET x == retained[l[1]][t]
             y == retained[l[2]][t]
         IN x # NoEvent => y # NoEvent /\ y.id = x.id

MirrorHolds == NoLoop /\ LabelsKept /\ RetainedFollows

-----------------------------------------------------------------------------
(***************************************************************************)
(* The command-line ends of the event streams: `subscribe --durable` with  *)
(* its cursor file, `publish --stream` with its acknowledgement counts     *)
(* (cmd/meshmcp/pubsub.go, pubsubwire.go), and followAudit, which tails a  *)
(* ledger across rotations for `air stream` and `air bind`                 *)
(* (airstream.go, airbind.go).                                             *)
(***************************************************************************)
CONSTANTS MaxSeq,     \* events published
          SubQueue, Retain,
          MaxKills,
          Lines,      \* lines `publish --stream` is fed
          MaxUnits,   \* a ledger file's size; a record is two units long
          MaxGens     \* ledger files, by rotation

VARIABLES seq,      \* the broker's last sequence number
          feedSub,      \* the subscriber: [pc, queue, last, cur]
          cursor,   \* its cursor file; 0 = none
          printed, dropped, aged, start, kills,
          pub,      \* the publisher: [at, served, open]
          accepted, pipe, ok, fail,
          gens,     \* sizes of the ledger's files, oldest first
          fol,      \* the follower: [gen, offset]
          handled   \* the lines it handled: <<file, first unit, end>>
feedVars == <<seq, feedSub, cursor, printed, dropped, aged, start, kills, pub, accepted, pipe, ok, fail, gens, fol, handled>>
durVars == <<seq, feedSub, cursor, printed, dropped, aged, start, kills>>
pubVars == <<pub, accepted, pipe, ok, fail>>
folVars == <<gens, fol, handled>>

Off == [pc |-> "off", queue |-> <<>>, last |-> 0, cur |-> 0]
FeedInit ==
  /\ seq = 0 /\ feedSub = Off /\ cursor = 0 /\ printed = {} /\ dropped = {} /\ aged = {}
  /\ start = MaxSeq + 1 /\ kills = 0
  /\ pub = [at |-> 0, served |-> 0, open |-> Lines > 0] /\ accepted = 0 /\ pipe = <<>> /\ ok = 0 /\ fail = 0
  /\ gens = <<0>> /\ fol = [gen |-> 1, offset |-> 0] /\ handled = <<>>
-----------------------------------------------------------------------------
(* An event reaches the subscriber's queue; a full one loses its oldest.   *)
FeedPublish ==
  LET q == Append(feedSub.queue, seq + 1)
      full == Len(feedSub.queue) >= SubQueue
  IN /\ seq < MaxSeq /\ seq' = seq + 1
     /\ IF feedSub.pc = "off" THEN UNCHANGED <<feedSub, dropped>>
        ELSE /\ feedSub' = [feedSub EXCEPT !.queue = IF full THEN Tail(q) ELSE q]
             /\ dropped' = IF full THEN dropped \cup {Head(q)} ELSE dropped
     /\ UNCHANGED <<cursor, printed, aged, start, kills, pubVars, folVars>>

(* cmdSubscribe: resume after the cursor, if there is one.                 *)
Subscribe ==
  LET replay == SelectSeq([i \in 1..seq |-> i], LAMBDA i : i > cursor /\ i > seq - Retain)
      keep == IF Len(replay) > SubQueue THEN SubSeq(replay, Len(replay) - SubQueue + 1, Len(replay)) ELSE replay
  IN /\ feedSub.pc = "off"
     /\ feedSub' = [pc |-> "on", queue |-> IF cursor > 0 THEN keep ELSE <<>>, last |-> cursor, cur |-> 0]
     /\ start' = IF cursor = 0 THEN seq ELSE start
     /\ IF cursor = 0 THEN UNCHANGED <<dropped, aged>>
        ELSE /\ aged' = aged \cup {i \in cursor + 1..seq : i <= seq - Retain}
             /\ dropped' = dropped \cup {i \in ToSet(replay) : i \notin ToSet(keep)}
     /\ UNCHANGED <<seq, cursor, printed, kills, pubVars, folVars>>

(* onLine: write the event out, then the cursor, which only goes forward.  *)
(* (Mutated form: the cursor is saved first.)                              *)
SaveThenWrite ==
  /\ feedSub.pc = "on" /\ feedSub.queue # <<>>
  /\ feedSub' = [feedSub EXCEPT !.pc = "saves", !.queue = Tail(@), !.cur = Head(feedSub.queue)]
  /\ cursor' = Head(feedSub.queue) /\ printed' = printed
  /\ UNCHANGED <<seq, dropped, aged, start, kills, pubVars, folVars>>
WriteOut ==
  /\ feedSub.pc = "on" /\ feedSub.queue # <<>>
  /\ feedSub' = [feedSub EXCEPT !.pc = "saves", !.queue = Tail(@), !.cur = Head(feedSub.queue)]
  /\ printed' = printed \cup {Head(feedSub.queue)}
  /\ UNCHANGED <<seq, cursor, dropped, aged, start, kills, pubVars, folVars>>
WriteCursor ==
  /\ feedSub.pc = "saves"
  /\ IF feedSub.cur > feedSub.last
     THEN feedSub' = [feedSub EXCEPT !.pc = "on", !.last = feedSub.cur] /\ cursor' = feedSub.cur
     ELSE feedSub' = [feedSub EXCEPT !.pc = "on"] /\ cursor' = cursor
  /\ UNCHANGED <<seq, printed, dropped, aged, start, kills, pubVars, folVars>>

(* The subscriber is killed, or its session ends with the broker.          *)
Kill ==
  /\ feedSub.pc # "off" /\ kills < MaxKills /\ kills' = kills + 1
  /\ feedSub' = Off
  /\ UNCHANGED <<seq, cursor, printed, dropped, aged, start, pubVars, folVars>>
-----------------------------------------------------------------------------
(* streamPublish writes a frame; servePub publishes it or not and answers  *)
(* each, if the session still stands; the sink counts the answers it reads. *)
WriteLine ==
  /\ pub.open /\ pub.at < Lines /\ pub' = [pub EXCEPT !.at = @ + 1]
  /\ UNCHANGED <<accepted, pipe, ok, fail, durVars, folVars>>
servePub ==
  /\ pub.served < pub.at /\ pub' = [pub EXCEPT !.served = @ + 1]
  /\ \E good \in BOOLEAN : /\ accepted' = IF good THEN accepted + 1 ELSE accepted
                           /\ pipe' = IF pub.open THEN Append(pipe, good) ELSE pipe
  /\ UNCHANGED <<ok, fail, durVars, folVars>>
(* The broker's end of a connection: what follows is by the hello's role.  *)
serve == Subscribe \/ servePub
CountAck ==
  /\ pub.open /\ pipe # <<>> /\ pipe' = Tail(pipe)
  /\ IF Head(pipe) THEN ok' = ok + 1 /\ fail' = fail ELSE fail' = fail + 1 /\ ok' = ok
  /\ UNCHANGED <<pub, accepted, durVars, folVars>>
(* The session ends, at the end of the input or before: the answers not    *)
(* yet read are gone.                                                      *)
EndStream ==
  /\ pub.open /\ pub' = [pub EXCEPT !.open = FALSE] /\ pipe' = <<>>
  /\ UNCHANGED <<accepted, ok, fail, durVars, folVars>>
-----------------------------------------------------------------------------
(* The ledger grows by half a record at a time and is rotated.             *)
Current == Len(gens)
Grow ==
  /\ gens[Current] < MaxUnits /\ gens' = [gens EXCEPT ![Current] = @ + 1]
  /\ UNCHANGED <<fol, handled, durVars, pubVars>>
Rotate ==
  /\ Current < MaxGens /\ gens[Current] > 0 /\ gens[Current] % 2 = 0 /\ gens' = Append(gens, 0)
  /\ UNCHANGED <<fol, handled, durVars, pubVars>>

(* drain: whole lines are handled and the rest is read again next time.    *)
Drained(size) == size - (size % 2)
LinesFrom(g, offset, end) ==
  [k \in 1..(end \div 2) - (offset \div 2) |->
     LET j == (offset \div 2) + k IN <<g, IF k = 1 THEN offset ELSE 2 * (j - 1), 2 * j>>]

(* A tick: a file smaller than what was read of it is another file.        *)
Poll ==
  LET shrunk == gens[Current] < fol.offset
      g == IF shrunk THEN Current ELSE fol.gen
      o == IF shrunk THEN 0 ELSE fol.offset
      end == Drained(gens[g])
  IN /\ shrunk \/ end > o
     /\ fol' = [gen |-> g, offset |-> IF end > o THEN end ELSE o]
     /\ handled' = IF end > o THEN handled \o LinesFrom(g, o, end) ELSE handled
     /\ UNCHANGED <<gens, durVars, pubVars>>

FeedNext ==
  \/ serve \/ FeedPublish \/ WriteOut \/ WriteCursor \/ Kill
  \/ WriteLine \/ CountAck \/ EndStream
  \/ Grow \/ Rotate \/ Poll

FeedSpec == FeedInit /\ [][FeedNext]_feedVars
-----------------------------------------------------------------------------
(* At least once: every event up to the cursor, from the last subscribe    *)
(* without one, has been written out, unless the broker dropped it for a   *)
(* full queue or reported the replay truncated; so a restart skips nothing *)
(* that was not printed.                                                   *)
AtLeastOnce == \A i \in 1..cursor : i > start => i \in printed \cup dropped \cup aged

(* "published N" counts only what the broker accepted.                     *)
CountsTrue == ok <= accepted /\ ok + fail <= pub.at

(* The follower handles whole records, in the order they were written,     *)
(* each at most once, also across rotations, so no reaction fires twice    *)
(* for a record or for a piece of one.                                     *)
Earlier(x, y) == x[1] < y[1] \/ (x[1] = y[1] /\ x[2] < y[2])
InOrder ==
  /\ \A i \in DOMAIN handled : handled[i][2] % 2 = 0 /\ handled[i][3] = handled[i][2] + 2
  /\ \A i, j \in DOMAIN handled : i < j => Earlier(handled[i], handled[j])

FeedsHold == AtLeastOnce /\ CountsTrue /\ InOrder

=============================================================================
