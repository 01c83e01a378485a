------------------------------- MODULE Broker -------------------------------
(* The publish/subscribe broker: sealing and persisting events, the replay *)
(* ring and retained last-values, fan-out to subscriptions and consumer    *)
(* groups with acknowledgement and redelivery, and a restart from the log. *)
(* Every operation runs under the broker's mutex, so it is one action; the *)
(* readers of the delivery channels run beside it.                         *)
EXTENDS Integers, SequencesExt

CONSTANTS
    Clients,        \* subscribers; Profile gives the options each one asks for
    Profile,        \* [topics, group, ack, bp, capability] per client
    NoGroup,
    Rules,          \* RuleAuthorizer.Rules: [peers, topics, allow, emit, clear, clearAll]
    DefaultAllow,
    Topics,
    Publishes,      \* what may be published: [how, by, topic, labels, retain, ttl]
    SubQueue, MaxSubs, MaxGroupPending, MaxRetainedTopics, Retain,
    MaxEvents,      \* bound: events sealed
    MaxTime,        \* bound: clock ticks
    Faults          \* which of "leave", "crash", "torn", "lost" happen

VARIABLES
    up,             \* the broker process serves
    events,         \* the event log's lines: sealed events and unreadable ones
    torn,           \* the log ends in a record without its newline
    seq, prev,      \* Broker.seq and the hash of the last event
    sealed,         \* number of events ever sealed: an event's hash names it
    ring,
    retained,
    bus,            \* subscriptions and their delivery state
    clock,
    cursor,         \* per ungrouped client: its durable cursor, the highest sequence read
    held,           \* per client: events read and not yet acknowledged
    unwritten       \* history: events sealed whose append failed

vars == <<up, events, torn, seq, prev, sealed, ring, retained, bus, clock, cursor, held, unwritten>>

Groups == {Profile[c].group : c \in Clients} \ {NoGroup}
NoEvent == [hash |-> 0, prev |-> 0, seq |-> 0, topic |-> "", labels |-> {}, retain |-> "no", exp |-> 0]
NoBus == [subs |-> <<>>, ch |-> [c \in Clients |-> <<>>], inflight |-> [c \in Clients |-> {}],
          evicted |-> [c \in Clients |-> 0], truncated |-> [c \in Clients |-> FALSE],
          from |-> [c \in Clients |-> 0],
          rr |-> [g \in Groups |-> 0], pend |-> [g \in Groups |-> <<>>],
          offered |-> 0, acked |-> 0, dropped |-> 0]

-----------------------------------------------------------------------------
(* Authorization (authorizer.go): the first matching rule decides. A       *)
(* capability turns only a default denial into an allowance, and clears no *)
(* label.                                                                  *)

Matching(id, t) == SelectInSeq(Rules, LAMBDA r : id \in r.peers /\ t \in r.topics)

Default(grant) == [allow |-> DefaultAllow \/ grant, emit |-> {}, clear |-> {}, clearAll |-> FALSE]

Decision(id, t, grant) ==
    IF Matching(id, t) = 0 THEN Default(grant) ELSE Rules[Matching(id, t)]

(* A subscription is refused as a whole if any of its topics is, and is    *)
(* cleared for what every one of its topics clears.                        *)
Admitted(c) == \A t \in Profile[c].topics : Decision(c, t, Profile[c].capability).allow

Cleared(c, l) ==
    \A t \in Profile[c].topics :
        LET d == Decision(c, t, Profile[c].capability) IN d.clearAll \/ l \in d.clear

Accepts(c, ev) == ev.topic \in Profile[c].topics /\ \A l \in ev.labels : Cleared(c, l)

(* EmitInternal is trusted; EmitFederated yields only to an explicit local *)
(* denial; both carry at least the labels the local rules stamp.           *)
MayPublish(p) ==
    CASE p.how = "publish" -> Decision(p.by, p.topic, p.capability).allow
      [] p.how = "federated" -> Matching(p.by, p.topic) = 0 \/ Decision(p.by, p.topic, FALSE).allow
      [] OTHER -> TRUE

LabelsOf(p) == p.labels \cup (IF p.how = "internal" THEN {} ELSE Decision(p.by, p.topic, p.capability).emit)

-----------------------------------------------------------------------------
(* Delivery. Each operator maps the delivery state to the next one.        *)

Registered(b, c) == c \in Range(b.subs)
Members(b, g, ev) == SelectSeq(b.subs, LAMBDA c : Profile[c].group = g /\ Accepts(c, ev))
Alive(b, g) == \E c \in Range(b.subs) : Profile[c].group = g
Full(b, c) == Len(b.ch[c]) >= SubQueue
HasRoom(b, c) == ~Full(b, c) /\ (Profile[c].ack => Cardinality(b.inflight[c]) < SubQueue)

Takes(b, c, ev) ==
    [b EXCEPT !.ch[c] = Append(@, ev),
              !.inflight[c] = IF Profile[c].ack THEN @ \cup {ev} ELSE @]

(* The member the round-robin cursor and the members' room select, or 0.   *)
Turn(b, g, ms) ==
    LET n == Len(ms)
        at(i) == ms[((b.rr[g] + i) % n) + 1]
        able == {i \in 0..n - 1 : HasRoom(b, at(i))}
    IN  IF able = {} THEN 0 ELSE ((b.rr[g] + Min(able)) % n) + 1

(* tryPlaceOnGroupLocked. The cursor is kept modulo RRCycle, a multiple of *)
(* every possible number of members.                                       *)
RRCycle == IF Cardinality(Clients) <= 2 THEN 2 ELSE 6
Placeable(b, g, ev) == LET ms == Members(b, g, ev) IN ms # <<>> /\ Turn(b, g, ms) # 0
Advance(b, g, ev) == IF Members(b, g, ev) = <<>> THEN b ELSE [b EXCEPT !.rr[g] = (@ + 1) % RRCycle]
Place(b, g, ev) == Takes(Advance(b, g, ev), Members(b, g, ev)[Turn(b, g, Members(b, g, ev))], ev)

RECURSIVE Drain(_, _)
Drain(b, g) ==
    IF g = NoGroup \/ b.pend[g] = <<>> THEN b
    ELSE LET ev == Head(b.pend[g])
         IN  IF Placeable(b, g, ev)
             THEN Drain([Place(b, g, ev) EXCEPT !.pend[g] = Tail(@)], g)
             ELSE Advance(b, g, ev)

BySeq(S) == SetToSortSeq(S, LAMBDA x, y : x.seq < y.seq)

(* (Mutated forms: the departing member's events are forgotten; they stay  *)
(* with it as well.)                                                       *)
CloseForgets(b, c) ==
    LET b1 == [b EXCEPT !.subs = SelectSeq(@, LAMBDA d : d # c), !.inflight[c] = {}]
    IN  IF Profile[c].group = NoGroup THEN b1 ELSE Drain(b1, Profile[c].group)
(* closeSubLocked: what a departing member had not acknowledged goes back  *)
(* to the front of its group's backlog, unless it was the last member.     *)
Close(b, c) ==
    LET g == Profile[c].group
        b1 == [b EXCEPT !.subs = SelectSeq(@, LAMBDA d : d # c), !.inflight[c] = {}]
        lost == Cardinality(b.inflight[c]) + Len(b.pend[g])
    IN  CASE ~Registered(b, c) \/ g = NoGroup -> b1
          [] g # NoGroup /\ Registered(b, c) /\ Alive(b1, g) ->
                Drain([b1 EXCEPT !.pend[g] = BySeq(b.inflight[c]) \o @], g)
          [] OTHER -> [b1 EXCEPT !.pend[g] = <<>>, !.rr[g] = 0, !.dropped = @ + lost]

(* deliverLocked: a full channel closes the subscription or loses its      *)
(* oldest event; the reader may take one between the two sends.            *)
Deliver(b, c, ev, raced) ==
    CASE ~Registered(b, c) -> b
      [] Registered(b, c) /\ ~Full(b, c) -> [b EXCEPT !.ch[c] = Append(@, ev)]
      [] OTHER ->
           IF Profile[c].bp = "disconnect" THEN Close(b, c)
           ELSE LET q == IF c \in raced THEN Tail(b.ch[c]) ELSE b.ch[c]
                IN  [b EXCEPT !.ch[c] = (IF q = <<>> THEN q ELSE Tail(q)) \o <<ev>>,
                              !.evicted[c] = @ + 1]

(* deliverToGroupLocked with enqueueGroupPendingLocked.                    *)
ToGroup(b, g, ev) ==
    LET ms == Members(b, g, ev)
        isAck == \E c \in Range(ms) : Profile[c].ack
        full == Len(b.pend[g]) >= MaxGroupPending
        b1 == IF isAck THEN [b EXCEPT !.offered = @ + 1] ELSE b
    IN  CASE ms = <<>> -> b
          [] ms # <<>> /\ Placeable(b, g, ev) -> Place(b1, g, ev)
          [] OTHER -> IF isAck
                      THEN [Advance(b1, g, ev) EXCEPT
                               !.pend[g] = (IF full THEN Tail(@) ELSE @) \o <<ev>>,
                               !.dropped = IF full THEN @ + 1 ELSE @]
                      ELSE Deliver(Advance(b1, g, ev), ms[1], ev, {})

Ungrouped(b, ev) == SelectSeq(b.subs, LAMBDA c : Profile[c].group = NoGroup /\ Accepts(c, ev))

FanOut(b, ev, raced) ==
    FoldLeft(LAMBDA x, g : ToGroup(x, g, ev),
             FoldLeft(LAMBDA x, c : Deliver(x, c, ev, raced), b, Ungrouped(b, ev)),
             SetToSeq(Groups))

-----------------------------------------------------------------------------
(* Retention.                                                              *)

RingAdd(r, ev) == IF Retain = 0 THEN r ELSE (IF Len(r) < Retain THEN r ELSE Tail(r)) \o <<ev>>

Expired(ev) == ev.exp # 0 /\ clock > ev.exp
Held(r) == {t \in Topics : r[t] # NoEvent}
Swept(r) == [t \in Topics |-> IF Expired(r[t]) THEN NoEvent ELSE r[t]]

ApplyRetained(r, ev) ==
    LET crowded(x) == x[ev.topic] = NoEvent /\ Cardinality(Held(x)) >= MaxRetainedTopics
        r1 == IF crowded(r) THEN Swept(r) ELSE r
    IN  CASE ev.retain = "del" -> [r EXCEPT ![ev.topic] = NoEvent]
          [] ev.retain = "set" -> IF crowded(r1) THEN r1 ELSE [r1 EXCEPT ![ev.topic] = ev]
          [] OTHER -> r

-----------------------------------------------------------------------------
(* The event log: a record without its newline swallows the next one.      *)

Unreadable == [NoEvent EXCEPT !.hash = -1]
Written(ev) == IF torn THEN events ELSE Append(events, ev)

Readable(es) == SelectSeq(es, LAMBDA e : e # Unreadable)

(* VerifyChain and LoadEvents: only trailing lines may be unreadable.      *)
VerifyChain(es) ==
    \A i \in DOMAIN es : /\ es[i].prev = (IF i = 1 THEN 0 ELSE es[i - 1].hash)
                         /\ i > 1 => es[i].seq > es[i - 1].seq
LoadEvents(es) == /\ \A i, j \in DOMAIN es : i < j /\ es[i] = Unreadable => es[j] = Unreadable
                  /\ VerifyChain(Readable(es))

-----------------------------------------------------------------------------
Init ==
    /\ up = TRUE /\ events = <<>> /\ torn = FALSE
    /\ seq = 0 /\ prev = 0 /\ sealed = 0
    /\ ring = <<>> /\ retained = [t \in Topics |-> NoEvent]
    /\ bus = NoBus /\ clock = 0
    /\ cursor = [c \in Clients |-> 0] /\ held = [c \in Clients |-> {}] /\ unwritten = {}

Sealed(p) ==
    [hash |-> sealed + 1, prev |-> prev, seq |-> seq + 1, topic |-> p.topic, labels |-> LabelsOf(p),
     retain |-> p.retain, exp |-> IF p.retain = "set" /\ p.ttl > 0 THEN clock + p.ttl ELSE 0]

(* The readers of clients in raced take an event while the broker evicts.  *)
Racing(raced) ==
    /\ \A c \in raced : /\ Registered(bus, c) /\ Profile[c].bp = "drop"
                        /\ Profile[c].group = NoGroup /\ Full(bus, c)
    /\ cursor' = [c \in Clients |-> IF c \in raced THEN Head(bus.ch[c]).seq ELSE cursor[c]]

(* PublishOpts, EmitInternal, EmitFederated. fate is what becomes of the   *)
(* appended record: written, refused by the file system, or torn by a      *)
(* crash that also ends the process.                                       *)
Publish(p, fate, raced) ==
    /\ up /\ sealed < MaxEvents /\ MayPublish(p)
    /\ fate \in {"written"} \cup (Faults \cap {"lost", "torn"})
    /\ LET ev == Sealed(p)
       IN  /\ seq' = ev.seq /\ prev' = ev.hash /\ sealed' = sealed + 1
           /\ ring' = RingAdd(ring, ev)
           /\ retained' = ApplyRetained(retained, ev)
           /\ events' = CASE fate = "written" -> Written(ev)
                          [] fate = "lost" -> events
                          [] OTHER -> Written(Unreadable)
           /\ torn' = (fate = "torn" \/ (fate = "lost" /\ torn))
           /\ IF fate = "torn"
              THEN /\ up' = FALSE /\ bus' = NoBus /\ held' = [c \in Clients |-> {}]
                   /\ raced = {} /\ UNCHANGED cursor
              ELSE /\ Racing(raced) /\ (\A c \in raced : Accepts(c, ev))
                   /\ bus' = FanOut(bus, ev, raced) /\ UNCHANGED <<up, held>>
           /\ unwritten' = IF fate = "lost" THEN unwritten \cup {ev} ELSE unwritten
    /\ UNCHANGED clock

(* ring.since, and the retained values of a fresh ungrouped subscription.  *)
(* (Mutated forms: off by one.)                                            *)
SinceAndAt(n) == SelectSeq(ring, LAMBDA e : e.seq >= n)
Since(n) == SelectSeq(ring, LAMBDA e : e.seq > n)
Truncates(n) == ring # <<>> /\ ring[1].seq > n + 1

(* Subscribe with the client's cursor (0 asks for no replay).              *)
Subscribe(c) ==
    LET n == IF Profile[c].group = NoGroup THEN cursor[c] ELSE 0
        fresh == n = 0 /\ Profile[c].group = NoGroup
        live == Swept(retained)
        first == SelectSeq(IF fresh THEN BySeq({live[t] : t \in Held(live)})
                           ELSE IF n > 0 THEN Since(n) ELSE <<>>, LAMBDA e : Accepts(c, e))
        b1 == [bus EXCEPT !.subs = Append(@, c), !.ch[c] = <<>>, !.inflight[c] = {},
                          !.evicted[c] = 0, !.truncated[c] = n > 0 /\ Truncates(n),
                          !.from[c] = IF fresh THEN seq ELSE n]
        b2 == FoldLeft(LAMBDA x, ev : Deliver(x, c, ev, {}), b1, first)
    IN  /\ up /\ ~Registered(bus, c) /\ bus.ch[c] = <<>> /\ Admitted(c)
        /\ Len(bus.subs) < MaxSubs
        /\ bus' = IF Profile[c].ack THEN Drain(b2, Profile[c].group) ELSE b2
        /\ retained' = IF fresh THEN live ELSE retained
        /\ held' = [held EXCEPT ![c] = {}]
        /\ UNCHANGED <<up, events, torn, seq, prev, sealed, ring, clock, cursor, unwritten>>

(* serveSub forwards an event and the client records it. A channel that    *)
(* was closed still yields what it holds.                                  *)
Read(c) ==
    /\ bus.ch[c] # <<>>
    /\ LET ev == Head(bus.ch[c])
       IN  /\ cursor' = [cursor EXCEPT ![c] = IF Profile[c].group = NoGroup /\ ev.seq > @ THEN ev.seq ELSE @]
           /\ held' = [held EXCEPT ![c] = IF Profile[c].ack THEN @ \cup {ev} ELSE @]
    /\ bus' = [bus EXCEPT !.ch[c] = Tail(@)]
    /\ UNCHANGED <<up, events, torn, seq, prev, sealed, ring, retained, clock, unwritten>>

Ack(c, ev) ==
    /\ up /\ ev \in held[c]
    /\ held' = [held EXCEPT ![c] = @ \ {ev}]
    /\ bus' = Drain([bus EXCEPT !.inflight[c] = @ \ {ev},
                                !.acked = IF ev \in bus.inflight[c] THEN @ + 1 ELSE @], Profile[c].group)
    /\ UNCHANGED <<up, events, torn, seq, prev, sealed, ring, retained, clock, cursor, unwritten>>

(* The client's connection ends: what it had not read is gone.             *)
Unsubscribe(c) ==
    /\ "leave" \in Faults /\ up /\ (Registered(bus, c) \/ bus.ch[c] # <<>>)
    /\ bus' = [Close(bus, c) EXCEPT !.ch[c] = <<>>]
    /\ held' = [held EXCEPT ![c] = {}]
    /\ UNCHANGED <<up, events, torn, seq, prev, sealed, ring, retained, clock, cursor, unwritten>>

(* Broker.Close or a crash between two operations: memory is gone.         *)
Stop ==
    /\ "crash" \in Faults /\ up
    /\ up' = FALSE /\ bus' = NoBus /\ held' = [c \in Clients |-> {}]
    /\ UNCHANGED <<events, torn, seq, prev, sealed, ring, retained, clock, cursor, unwritten>>

(* (Mutated form: the chain starts again from its genesis.)                *)
RestartAnew ==
    /\ ~up /\ up' = TRUE /\ seq' = 0 /\ prev' = 0 /\ ring' = <<>>
    /\ retained' = [t \in Topics |-> NoEvent]
    /\ UNCHANGED <<events, torn, sealed, bus, clock, cursor, held, unwritten>>
(* New with the seed LoadEvents returns.                                   *)
Restart ==
    LET seed == Readable(events)
        n == Len(seed)
    IN  /\ ~up /\ LoadEvents(events)
        /\ up' = TRUE
        /\ seq' = (IF n = 0 THEN 0 ELSE seed[n].seq)
        /\ prev' = (IF n = 0 THEN 0 ELSE seed[n].hash)
        /\ ring' = SubSeq(seed, IF n > Retain THEN n - Retain + 1 ELSE 1, n)
        /\ retained' = Swept(FoldLeft(ApplyRetained, [t \in Topics |-> NoEvent], seed))
        /\ UNCHANGED <<events, torn, sealed, bus, clock, cursor, held, unwritten>>

Tick == clock < MaxTime /\ clock' = clock + 1
        /\ UNCHANGED <<up, events, torn, seq, prev, sealed, ring, retained, bus, cursor, held, unwritten>>

Next ==
    \/ \E p \in Publishes, fate \in {"written", "lost", "torn"}, raced \in SUBSET Clients :
          Publish(p, fate, raced)
    \/ \E c \in Clients : Subscribe(c) \/ Read(c) \/ Unsubscribe(c)
    \/ \E c \in Clients : \E ev \in held[c] : Ack(c, ev)
    \/ Stop \/ Restart \/ Tick

Spec == Init /\ [][Next]_vars

-----------------------------------------------------------------------------
Event == [hash : -1..MaxEvents, prev : 0..MaxEvents, seq : 0..MaxEvents, topic : Topics \cup {""},
          labels : SUBSET UNION {r.emit \cup r.clear : r \in Range(Rules)}, retain : {"no", "set", "del"},
          exp : Nat]

(* The broker's state is well formed, and no channel or ring outgrows its  *)
(* configured size.                                                        *)
TypeOK ==
    /\ \A e \in Range(events) \cup Range(ring) \cup Range(retained) : e \in Event
    /\ seq \in 0..MaxEvents /\ prev \in 0..MaxEvents /\ Len(ring) <= Retain
    /\ Range(bus.subs) \subseteq Clients /\ Len(bus.subs) <= MaxSubs
    /\ \A c \in Clients : Len(bus.ch[c]) <= SubQueue /\ Cardinality(bus.inflight[c]) <= SubQueue

(* Every event offered to an at-least-once group is acknowledged, in       *)
(* flight at one member, in the backlog, or counted as dropped: departures *)
(* and overflows lose nothing silently (closeSubLocked,                    *)
(* enqueueGroupPendingLocked).                                             *)
Accounted ==
    up => bus.offered = bus.acked + bus.dropped
                        + MapThenSumSet(LAMBDA c : Cardinality(bus.inflight[c]), Clients)
                        + MapThenSumSet(LAMBDA g : Len(bus.pend[g]), Groups)

(* An unacknowledged event has one place: no two members hold it, and it   *)
(* is not in the backlog while a member does.                              *)
OnePlace ==
    \A c \in Clients : \A ev \in bus.inflight[c] :
        /\ \A d \in Clients \ {c} : ev \notin bus.inflight[d]
        /\ \A g \in Groups : ~Contains(bus.pend[g], ev)

(* A group whose members all want the same topics holds events back only   *)
(* while every member has as many unacknowledged events as it may have.    *)
BacklogMeansBusy ==
    \A g \in Groups : bus.pend[g] # <<>> /\ Cardinality({Profile[c].topics : c \in Clients}) = 1 =>
        \A c \in Range(bus.subs) : Profile[c].group = g => ~HasRoom(bus, c)

(* Nothing reaches a subscription that one of its topics' rules does not   *)
(* clear it for, by fan-out, replay, retained value or redelivery.         *)
Contained == \A c \in Clients : \A ev \in Range(bus.ch[c]) \cup bus.inflight[c] :
                 /\ ev.topic \in Profile[c].topics
                 /\ \A t \in Profile[c].topics : \A l \in ev.labels :
                       LET d == Decision(c, t, Profile[c].capability) IN d.clearAll \/ l \in d.clear

(* What is persisted can be loaded (LoadEvents, EventLog), over any number *)
(* of crashes and restarts.                                                *)
LogLoads == LoadEvents(events)

(* The log loads, and the next event continues its chain and numbering:    *)
(* the broker's sequence number and hash are those of the last event (New).*)
(* Excepted: publish goes on after a failed append, and an event written   *)
(* behind one that was not names a hash the log does not hold (append).    *)
ChainContinues ==
    LET gone == {e.hash : e \in unwritten}
    IN  (\A e \in Range(events) : e.prev \notin gone) =>
            /\ LogLoads
            /\ up /\ ~torn /\ prev \notin gone =>
                  IF events = <<>> THEN seq = 0
                  ELSE Last(events).seq = seq /\ Last(events).hash = prev

Reads(c) == bus.ch[c] # <<>> /\ bus'.ch[c] = Tail(bus.ch[c]) /\ cursor'[c] = Head(bus.ch[c]).seq

(* From its cursor, or from when it first subscribed, a subscriber reads   *)
(* every event it accepts, unless the broker reported a truncated replay   *)
(* or counted an eviction (No silent caps).                                *)
GapIsReported ==
    \A c \in Clients :
        Reads(c) /\ Profile[c].group = NoGroup =>
            \/ bus.truncated[c] \/ bus'.evicted[c] > 0
            \/ \A e \in Range(Readable(events)) :
                  Accepts(c, e) /\ e.seq > cursor[c] /\ e.seq > bus.from[c] => e.seq >= cursor'[c]

(* An ungrouped subscriber reads no event twice, over reconnections and    *)
(* restarts, and in the order of the log. Excepted: the number of an event *)
(* it read whose append failed is given again after a restart (New).       *)
ReadIsNew ==
    \A c \in Clients :
        Profile[c].group = NoGroup /\ bus.ch[c] # <<>> /\ bus'.ch[c] = Tail(bus.ch[c]) /\ bus'.subs = bus.subs =>
            cursor[c] \in {0} \cup {e.seq : e \in unwritten} \/ Head(bus.ch[c]).seq > cursor[c]

(* A retained value is the newest retaining or clearing event of its       *)
(* topic, over restarts.                                                   *)
RetainedIsNewest ==
    up => \A t \in Held(retained) :
        ~\E e \in Range(Readable(events)) :
            e.topic = t /\ e.retain # "no" /\ e.seq > retained[t].seq

=============================================================================
