------------------------------ MODULE Presence ------------------------------
(***************************************************************************)
(* Who is there and what may be asked of them: the registry of nearby      *)
(* nodes, the presence and control endpoint, the home screen, and a steer  *)
(* sent to all who match. Each part is a specification of its own, with    *)
(* its own initial state and next-state relation; a behaviour is a         *)
(* behaviour of one of them.                                               *)
(***************************************************************************)
EXTENDS Integers, FiniteSets, SequencesExt

-----------------------------------------------------------------------------
(***************************************************************************)
(* The Nearby registry of an Air gateway: `air node` keeps a card alive    *)
(* with heartbeats (cmd/meshmcp/airnearby.go), the control endpoint stamps *)
(* it with the transport identity and address (cmd/meshmcp/aircontrol.go,  *)
(* air/presence.go), and `air send` resolves a card and delivers to it     *)
(* through a dialer that looks twice who holds the address                 *)
(* (cmd/meshmcp/airsend.go).  Requests can be lost, handled late or after  *)
(* the node that sent them has gone; mesh addresses change hands.          *)
(***************************************************************************)
CONSTANTS
  Node,      \* function from public keys to [name, ttl, interval]
  Selector,  \* function from senders to [exact, text]: exact is "pubkey:<text>"
  MinTtl, MaxTtl, \* what a requested lifetime is clamped to
  MaxCards,  \* Registry.max
  MaxTime,   \* bound on the clock
  MaxMoves,  \* bound on the addresses that change hands
  MaxLost,   \* bound on the requests lost on the way
  NoOne      \* no key

VARIABLES
  now,    \* the gateway's clock
  cards,  \* Registry.entries: key -> [ip, exp], NoOne's record when absent
  node,   \* where each `air node` is in its loop
  due,    \* when its ticker fires next
  wire,   \* requests on their way or being handled: <<key, "post" | "delete">>
  late,   \* history: nodes one of whose requests was lost, refused or delayed
  refused,\* history: a newcomer was refused while a card had expired
  peerAt, \* the mesh: which key holds each address
  moves,  \* how many addresses changed hands
  snd,    \* each `air send`: [pc, key, ip, peer, seen]
  lost    \* how many requests were lost
nearbyVars == <<now, cards, node, due, wire, late, refused, peerAt, moves, snd, lost>>

NearbyKeys == DOMAIN Node
Senders == DOMAIN Selector
Absent == [ip |-> NoOne, exp |-> 0]
Idle == [pc |-> "idle", key |-> NoOne, ip |-> NoOne, peer |-> NoOne, seen |-> 0]

\* Announcement.Normalized clamps the lifetime a node asks for.
Ttl(k) == IF Node[k].ttl < MinTtl THEN MinTtl ELSE IF Node[k].ttl > MaxTtl THEN MaxTtl ELSE Node[k].ttl

\* cmdAirNode refuses a cadence that is not shorter than the effective lifetime.
Starts(k) == Node[k].interval > 0 /\ Node[k].interval < Ttl(k)

\* Addresses are named after the key that holds them at the start.
NearbyInit ==
  /\ now = 0 /\ cards = [k \in NearbyKeys |-> Absent] /\ node = [k \in NearbyKeys |-> "new"]
  /\ due = [k \in NearbyKeys |-> 0] /\ wire = {} /\ late = {} /\ refused = FALSE
  /\ peerAt = [i \in NearbyKeys |-> i] /\ moves = 0 /\ snd = [s \in Senders |-> Idle] /\ lost = 0

(* (Mutated form: cards are dropped a tick before they expire.)            *)
PrunedEarly(c, t) == [k \in NearbyKeys |-> IF c[k].exp <= t + 1 THEN Absent ELSE c[k]]

\* pruneLocked: a card whose expiry is not after t is deleted.
NearbyPruned(c, t) == [k \in NearbyKeys |-> IF c[k].exp <= t THEN Absent ELSE c[k]]

Held(c) == {k \in NearbyKeys : c[k] # Absent}

\* Upsert takes a card it holds already, and a new one while there is room.
Accepts(k) == LET c == NearbyPruned(cards, now) IN c[k] # Absent \/ Cardinality(Held(c)) < MaxCards

\* The address a request comes from; a node that lost its address cannot ask.
AddressOf(k) == {i \in NearbyKeys : peerAt[i] = k}

\* `air node` announces: once at the start, which must succeed, then on every
\* tick of its ticker.
Post(k) ==
  /\ (node[k] = "new" /\ Starts(k)) \/ (node[k] = "up" /\ now >= due[k])
  /\ AddressOf(k) # {}
  /\ wire' = wire \cup {<<k, "post">>}
  /\ node' = [node EXCEPT ![k] = IF @ = "new" THEN "first" ELSE "beat"]
  /\ due' = [due EXCEPT ![k] = now + Node[k].interval]
  /\ UNCHANGED <<now, cards, late, refused, peerAt, moves, snd, lost>>

\* What the node makes of the answer: a failed first announcement ends it, a
\* failed heartbeat is only printed.
Answered(k, ok) ==
  node' = [node EXCEPT ![k] = CASE @ = "first" -> IF ok THEN "up" ELSE "gone"
                                [] @ = "beat" -> "up"
                                [] OTHER -> @]

\* The gateway handles an announcement: Upsert prunes, then stores the card
\* with the identity and address the transport shows, or refuses it.
NearbyAnnounce(k) ==
  /\ <<k, "post">> \in wire /\ AddressOf(k) # {}
  /\ wire' = wire \ {<<k, "post">>}
  /\ \E ip \in AddressOf(k) :
       cards' = IF Accepts(k)
                  THEN [NearbyPruned(cards, now) EXCEPT ![k] = [ip |-> ip, exp |-> now + Ttl(k)]]
                  ELSE NearbyPruned(cards, now)
  /\ refused' = (refused \/ (~ Accepts(k) /\ Held(NearbyPruned(cards, now)) # Held(cards)))
  /\ late' = IF Accepts(k) THEN late ELSE late \cup {k}
  /\ Answered(k, Accepts(k))
  /\ UNCHANGED <<now, due, peerAt, moves, snd, lost>>

\* The request is lost, or the client gives up on it and it is never handled.
Lose(k) ==
  /\ lost < MaxLost /\ <<k, "post">> \in wire
  /\ wire' = wire \ {<<k, "post">>} /\ lost' = lost + 1 /\ late' = late \cup {k}
  /\ Answered(k, FALSE)
  /\ UNCHANGED <<now, cards, due, refused, peerAt, moves, snd>>

\* Ctrl-C: the node withdraws its card.  A heartbeat it was waiting for is
\* abandoned by the node but may still reach the gateway.
NearbyLeave(k) ==
  /\ node[k] \in {"up", "beat"}
  /\ node' = [node EXCEPT ![k] = "leaving"]
  /\ wire' = wire \cup {<<k, "delete">>}
  /\ late' = late \cup {k}
  /\ UNCHANGED <<now, cards, due, refused, peerAt, moves, snd, lost>>

\* Remove: the gateway deletes the card of the key that asks.
LeaveHandled(k) ==
  /\ <<k, "delete">> \in wire
  /\ wire' = wire \ {<<k, "delete">>}
  /\ cards' = [cards EXCEPT ![k] = Absent]
  /\ node' = [node EXCEPT ![k] = "gone"]
  /\ UNCHANGED <<now, due, late, refused, peerAt, moves, snd, lost>>

\* The withdrawal is lost or times out after three seconds; so does a node
\* that crashes: the TTL is left to expire the card.
LeaveFails(k) ==
  /\ lost < MaxLost /\ node[k] \in {"leaving", "up", "beat", "first"}
  /\ node' = [node EXCEPT ![k] = "gone"] /\ lost' = lost + 1
  /\ wire' = wire \ {<<k, "delete">>} /\ late' = late \cup {k}
  /\ UNCHANGED <<now, cards, due, refused, peerAt, moves, snd>>

\* Time passes; a node is late when its heartbeat waits or is due unsent.
NearbyTick ==
  /\ now < MaxTime /\ now' = now + 1
  /\ late' = late \cup {k \in NearbyKeys : <<k, "post">> \in wire \/ (node[k] = "up" /\ now >= due[k])}
  /\ UNCHANGED <<cards, node, due, wire, refused, peerAt, moves, snd, lost>>

\* The mesh gives an address to another key.
AddressMoves(i, k) ==
  /\ moves < MaxMoves /\ peerAt[i] # k
  /\ peerAt' = [peerAt EXCEPT ![i] = k] /\ moves' = moves + 1 /\ late' = late \cup {peerAt[i]}
  /\ UNCHANGED <<now, cards, node, due, wire, refused, snd, lost>>

(* (Mutated form: a friendly name counts as much as the key.)              *)
MatchesAnyTier(list, sel) == {k \in list : k = sel.text \/ Node[k].name = sel.text}

\* resolvePresenceNode: an explicit key matches the key alone; otherwise the
\* key is tried before the friendly name.
Matches(list, sel) ==
  LET byKey == {k \in list : k = sel.text}
  IN  IF sel.exact \/ byKey # {} THEN byKey ELSE {k \in list : Node[k].name = sel.text}

Goes(s, r) == snd' = [snd EXCEPT ![s] = r]

\* resolveAirInbox: List prunes, and the selector must match one card.
NearbyResolve(s) ==
  /\ snd[s].pc = "idle"
  /\ cards' = NearbyPruned(cards, now)
  /\ LET m == Matches(Held(cards'), Selector[s])
     IN  IF Cardinality(m) = 1
           THEN \E k \in m : Goes(s, [Idle EXCEPT !.pc = "resolved", !.key = k, !.ip = cards'[k].ip])
           ELSE Goes(s, [Idle EXCEPT !.pc = "failed"])
  /\ UNCHANGED <<now, node, due, wire, late, refused, peerAt, moves, lost>>

\* verifyAirPeerAtTarget: the address must belong to the selected key.
Belongs(s) == peerAt[snd[s].ip] = snd[s].key

\* verifiedAirDialer looks before it dials ...
Verify(s) ==
  /\ snd[s].pc = "resolved"
  /\ Goes(s, IF Belongs(s) THEN [snd[s] EXCEPT !.pc = "verified", !.seen = moves]
                           ELSE [snd[s] EXCEPT !.pc = "failed"])
  /\ UNCHANGED <<now, cards, node, due, wire, late, refused, peerAt, moves, lost>>

\* ... dials whoever holds the address at that moment ...
Dial(s) ==
  /\ snd[s].pc = "verified"
  /\ Goes(s, [snd[s] EXCEPT !.pc = "dialled", !.peer = peerAt[snd[s].ip]])
  /\ UNCHANGED <<now, cards, node, due, wire, late, refused, peerAt, moves, lost>>

\* ... and looks again before a byte is written.
NearbyDeliver(s) ==
  /\ snd[s].pc = "dialled"
  /\ Goes(s, [snd[s] EXCEPT !.pc = IF Belongs(s) THEN "sent" ELSE "failed", !.seen = moves - @])
  /\ UNCHANGED <<now, cards, node, due, wire, late, refused, peerAt, moves, lost>>

NearbyNext ==
  \/ \E k \in NearbyKeys : \/ Post(k) \/ NearbyAnnounce(k) \/ Lose(k)
                     \/ NearbyLeave(k) \/ LeaveHandled(k) \/ LeaveFails(k)
  \/ \E s \in Senders : NearbyResolve(s) \/ Verify(s) \/ Dial(s) \/ NearbyDeliver(s)
  \/ \E i, k \in NearbyKeys : AddressMoves(i, k)
  \/ NearbyTick

NearbySpec == NearbyInit /\ [][NearbyNext]_nearbyVars
-----------------------------------------------------------------------------
TypeOK ==
  /\ now \in 0..MaxTime /\ lost \in 0..MaxLost /\ moves \in 0..MaxMoves
  /\ cards \in [NearbyKeys -> [ip : NearbyKeys \cup {NoOne}, exp : Nat]]
  /\ node \in [NearbyKeys -> {"new", "first", "up", "beat", "leaving", "gone"}]
  /\ wire \subseteq NearbyKeys \X {"post", "delete"}
  /\ \A s \in Senders : snd[s].pc \in {"idle", "resolved", "verified", "dialled", "sent", "failed"}

\* A node whose heartbeats arrive is always found: between two of them its
\* card has not expired, because cmdAirNode insists on an interval shorter
\* than the lifetime and pruneLocked deletes a card only when it is over.
StaysListed ==
  \A k \in NearbyKeys : node[k] \in {"up", "beat"} /\ k \notin late => NearbyPruned(cards, now)[k] # Absent

\* A dead node does not keep a newcomer out: Upsert refuses a card only when
\* MaxCards cards are still alive, and the registry never holds more.
RoomForTheLiving == ~ refused /\ Cardinality(Held(cards)) <= MaxCards

\* What is sent reaches the selected identity.  The selector names the key
\* (or a name only that node carries in the list), and the two looks around
\* the dial catch an address that has moved; only one that moved away and
\* back between the looks escapes them.
SentToSelected ==
  \A s \in Senders : snd[s].pc = "sent" =>
    /\ snd[s].peer = snd[s].key \/ snd[s].seen >= 2
    /\ snd[s].key = Selector[s].text
         \/ (~ Selector[s].exact /\ Node[snd[s].key].name = Selector[s].text)

\* The three properties above, of the registry, its nodes and its senders.
NearbyHolds == StaysListed /\ RoomForTheLiving /\ SentToSelected

\* A key given in full finds its node whatever names the others have taken:
\* resolvePresenceNode asks the names only when no key matches.
KeyFirstStep ==
  \A s \in Senders : snd[s].pc = "idle" /\ snd'[s].pc # "idle"
     /\ Selector[s].text \in Held(NearbyPruned(cards, now)) => snd'[s].key = Selector[s].text

-----------------------------------------------------------------------------
(***************************************************************************)
(* The gateway's Air control endpoint (cmd/meshmcp/aircontrol.go): peers   *)
(* list and steer the live sessions of the backends their ACL opens,       *)
(* trigger a move, act on behalf of another through a relay, and announce  *)
(* presence cards (air/presence.go), which are normalised, validated,      *)
(* stamped with the transport's identity and recorded only when they say   *)
(* something new.  Handlers run concurrently with each other, with         *)
(* sessions that come and go, and with a reload of the configuration.      *)
(***************************************************************************)
CONSTANTS
  Peers, Allow,      \* callers, and the endpoint's own allow list
  Relays,            \* OnBehalfAllow: who may name another as the actor
  Acl,               \* backend -> its allow list when the gateway started
  Steerable,         \* backends with a session server
  Announcements,     \* what a node may post: [name, status, labels, ttl, services, activity]
  Address,           \* peer -> the address the transport observes
  DefaultTTL, MinTTL, MaxTTL, MaxLabels, MaxServices, 
  MaxAsks, MaxSessions

VARIABLES
  airCards,      \* the registry: key -> {} or {card}
  posted,     \* handlers between the registry and the ledger: set of [key, changed]
  recorded,   \* key -> allowed announcements in the ledger
  novel,      \* history: key -> how often what a reader sees of the key became something else
  sess,       \* backend -> live sessions
  ask,        \* peer -> the steer or move handler it waits for
  steered,    \* history: set of [session, by]: notifications that reached a backend
  trail,      \* records of steers and moves: set of [key, behalf, backend, session, method, ok]
  airTold,       \* history: set of [session, by, what]
  seen,       \* history: set of [by, backend]: what a listing showed
  asks, opened

controlVars == <<now, airCards, posted, recorded, novel, sess, ask, steered, trail, airTold, seen, asks, opened>>
NoAsk == [pc |-> "idle"]
AirBackends == DOMAIN Acl

(***************************************************************************)
(* Announcement.Normalized and Validate.  A service is [kind, port, proto, *)
(* caps, addr]; kinds, labels and capabilities are numbers here, for the   *)
(* order the code sorts them in.                                           *)
(***************************************************************************)
sortedUnique(s) == SetToSortSeq(ToSet(s), <)

Clamp(t) == LET d == IF t = 0 THEN DefaultTTL ELSE t IN IF d < MinTTL THEN MinTTL ELSE IF d > MaxTTL THEN MaxTTL ELSE d

Normalized(a) ==
  [a EXCEPT !.status = IF @ = "" THEN "available" ELSE @,
            !.ttl = Clamp(@),
            !.labels = sortedUnique(@),
            !.services = SortSeq([i \in DOMAIN @ |-> [@[i] EXCEPT !.proto = IF @ = "" THEN "tcp" ELSE @, !.caps = sortedUnique(@)]],
                                 LAMBDA x, y : x.kind < y.kind)]

ServiceOK(s) == s.port \in 1..65535 /\ s.proto \in {"tcp", "http", "https"} /\ s.addr = ""

ActivityOK(act) == \A x \in act : x.progress \in 0..100

Validate(raw) ==
  LET a == Normalized(raw) IN
  /\ Len(a.labels) <= MaxLabels /\ Len(a.services) <= MaxServices
  /\ \A i, j \in DOMAIN a.services : i # j => a.services[i].kind # a.services[j].kind
  /\ \A i \in DOMAIN a.services : ServiceOK(a.services[i])
  /\ ActivityOK(a.activity)

(***************************************************************************)
(* Registry.Upsert, Remove and pruneLocked.  (Mutated forms: a service     *)
(* that moved to another port is the same card; an expired card is what    *)
(* the new one is compared with.)                                          *)
(***************************************************************************)
samePresenceByKind(x, y) ==
  /\ x.name = y.name /\ x.status = y.status /\ x.labels = y.labels /\ x.ip = y.ip /\ x.activity = y.activity
  /\ Len(x.services) = Len(y.services)
  /\ \A i \in DOMAIN x.services : x.services[i].kind = y.services[i].kind

samePresenceMaterial(x, y) ==
  /\ x.name = y.name /\ x.status = y.status /\ x.labels = y.labels /\ x.ip = y.ip /\ x.activity = y.activity
  /\ Len(x.services) = Len(y.services)
  /\ \A i \in DOMAIN x.services : x.services[i] = y.services[i]

AirPruned(t) == [k \in Peers |-> {c \in airCards[k] : c.exp > t}]

(* Upsert's check: a peer that has a card may replace it, a new one needs  *)
(* a place in the registry.                                                *)
Upserts(cs, k) == cs[k] # {} \/ Cardinality({j \in Peers : cs[j] # {}}) < MaxCards

Stamped(k, raw) ==
  LET a == Normalized(raw) IN
  [name |-> a.name, status |-> a.status, labels |-> a.labels, activity |-> a.activity, ip |-> Address[k], exp |-> now + a.ttl,
   services |-> [i \in DOMAIN a.services |-> [a.services[i] EXCEPT !.addr = Address[k]]]]

(* What a reader of the list sees of a card, whatever order it was posted in; {} when the card has lapsed. *)
View(cs) == {[name |-> c.name, status |-> c.status, labels |-> ToSet(c.labels), activity |-> c.activity, ip |-> c.ip,
              services |-> {[kind |-> s.kind, port |-> s.port, proto |-> s.proto, caps |-> ToSet(s.caps)] : s \in ToSet(c.services)}]
             : c \in {d \in cs : d.exp > now}}

AirAnnounce(k) ==
  /\ k \in Allow /\ asks < MaxAsks /\ asks' = asks + 1
  /\ \E raw \in Announcements :
       IF ~Validate(raw) \/ ~Upserts(AirPruned(now), k)
         THEN airCards' = (IF Validate(raw) THEN AirPruned(now) ELSE airCards) /\ UNCHANGED <<posted, novel>>     \* recorded as refused
         ELSE LET new == Stamped(k, raw)
                  changed == \A c \in AirPruned(now)[k] : ~samePresenceMaterial(c, new) IN
              /\ airCards' = [AirPruned(now) EXCEPT ![k] = {new}]
              /\ posted' = IF changed THEN posted \cup {[key |-> k, n |-> asks']} ELSE posted
              /\ novel' = [novel EXCEPT ![k] = IF View({new}) # View(airCards[k]) THEN @ + 1 ELSE @]
  /\ UNCHANGED <<now, recorded, sess, ask, steered, trail, airTold, seen, opened>>

(* The record of a changed card, after the registry's lock is released. *)
Record(w) ==
  /\ w \in posted /\ posted' = posted \ {w}
  /\ recorded' = [recorded EXCEPT ![w.key] = @ + 1]
  /\ UNCHANGED <<now, airCards, novel, sess, ask, steered, trail, airTold, seen, asks, opened>>

AirLeave(k) ==
  /\ k \in Allow /\ airCards[k] # {}
  /\ airCards' = [airCards EXCEPT ![k] = {}]
  /\ UNCHANGED <<now, posted, recorded, novel, sess, ask, steered, trail, airTold, seen, asks, opened>>

AirTick ==
  /\ now < MaxTime /\ now' = now + 1
  /\ UNCHANGED <<airCards, posted, recorded, novel, sess, ask, steered, trail, airTold, seen, asks, opened>>

(***************************************************************************)
(* Sessions, and the handlers that list, steer and move them: the server   *)
(* is looked up under the lock, then the ACL, then the session itself.     *)
(***************************************************************************)
Opens(b) ==
  /\ b \in Steerable /\ opened < MaxSessions /\ opened' = opened + 1
  /\ sess' = [sess EXCEPT ![b] = @ \cup {opened + 1}]
  /\ UNCHANGED <<now, airCards, posted, recorded, novel, ask, steered, trail, airTold, seen, asks>>

Closes(b, s) ==
  /\ s \in sess[b] /\ sess' = [sess EXCEPT ![b] = @ \ {s}]
  /\ UNCHANGED <<now, airCards, posted, recorded, novel, ask, steered, trail, airTold, seen, asks, opened>>

backendAllows(b, k) == k \in Acl[b]

List(k) ==
  /\ k \in Allow
  /\ seen' = seen \cup {[by |-> k, backend |-> b] : b \in {x \in AirBackends : backendAllows(x, k) /\ sess[x] # {}}}
  /\ UNCHANGED <<now, airCards, posted, recorded, novel, sess, ask, steered, trail, airTold, asks, opened>>

(* onBehalfOf: the header counts only from a peer that may relay.            *)
onBehalfOf(k, ob) == IF k \in Relays THEN ob ELSE "none"

Begin(k, m) ==
  /\ k \in Allow /\ ask[k].pc = "idle" /\ asks < MaxAsks /\ asks' = asks + 1
  /\ \E b \in AirBackends, s \in 1..MaxSessions, ob \in {"none", "user"} :
       ask' = [ask EXCEPT ![k] = [pc |-> "look", backend |-> b, session |-> s, method |-> m, behalf |-> onBehalfOf(k, ob), err |-> "nil", left |-> FALSE]]
  /\ UNCHANGED <<now, airCards, posted, recorded, novel, sess, steered, trail, airTold, seen, opened>>

(* POST /v1/steer and POST /v1/move: both name a backend and a session.    *)
BeginSteer(k) == Begin(k, "steer")
BeginMove(k) == Begin(k, "move")

LookUp(k) ==
  /\ ask[k].pc = "look"
  /\ LET b == ask[k].backend IN
     ask' = [ask EXCEPT ![k].pc = IF b \in Steerable /\ backendAllows(b, k) THEN "act" ELSE "record",
                        ![k].err = IF b \notin Steerable THEN "no backend" ELSE IF ~backendAllows(b, k) THEN "forbidden" ELSE "nil"]
  /\ UNCHANGED <<now, airCards, posted, recorded, novel, sess, steered, trail, airTold, seen, asks, opened>>

Steer(k) ==
  /\ ask[k].pc = "act" /\ ask[k].method = "steer"
  /\ IF ask[k].session \in sess[ask[k].backend]
       THEN /\ steered' = steered \cup {[session |-> ask[k].session, by |-> k]}
            /\ ask' = [ask EXCEPT ![k].pc = "record"]
       ELSE ask' = [ask EXCEPT ![k].pc = "record", ![k].err = "no session"] /\ UNCHANGED steered
  /\ UNCHANGED <<now, airCards, posted, recorded, novel, sess, trail, airTold, seen, asks, opened>>

(* The destination is dialled, then MoveSessionTo: it moves the session, refuses, or the answer is lost after it did. *)
AirMove(k) ==
  /\ ask[k].pc = "act" /\ ask[k].method = "move"
  /\ LET b == ask[k].backend s == ask[k].session IN
     \/ /\ ask' = [ask EXCEPT ![k].pc = "record", ![k].err = IF s \in sess[b] THEN "refused" ELSE "no session"]
        /\ UNCHANGED sess
     \/ /\ ask' = [ask EXCEPT ![k].pc = "record", ![k].err = "dial failed"]
        /\ UNCHANGED sess
     \/ /\ s \in sess[b] /\ sess' = [sess EXCEPT ![b] = @ \ {s}]
        /\ \E e \in {"nil", "unknown"} : ask' = [ask EXCEPT ![k].pc = "record", ![k].err = e, ![k].left = TRUE]
  /\ UNCHANGED <<now, airCards, posted, recorded, novel, steered, trail, airTold, seen, asks, opened>>

(* airAuditFunc, then the answer (moveHTTPStatus).                           *)
airStatus(e) ==
  CASE e = "nil" -> 200 [] e \in {"no backend", "no session"} -> 404 [] e = "forbidden" -> 403
    [] e = "refused" -> 409 [] e \in {"dial failed", "unknown"} -> 502

AirAnswer(k) ==
  /\ ask[k].pc = "record"
  /\ trail' = trail \cup {[key |-> k, behalf |-> ask[k].behalf, backend |-> ask[k].backend, session |-> ask[k].session,
                           method |-> ask[k].method, ok |-> ask[k].err = "nil"]}
  /\ airTold' = airTold \cup {[session |-> ask[k].session, by |-> k, method |-> ask[k].method, status |-> airStatus(ask[k].err), left |-> ask[k].left]}
  /\ ask' = [ask EXCEPT ![k] = NoAsk]
  /\ UNCHANGED <<now, airCards, posted, recorded, novel, sess, steered, seen, asks, opened>>

AirInit ==
  /\ now = 0 /\ airCards = [k \in Peers |-> {}] /\ posted = {}
  /\ recorded = [k \in Peers |-> 0] /\ novel = [k \in Peers |-> 0]
  /\ sess = [b \in AirBackends |-> {}] /\ ask = [k \in Peers |-> NoAsk]
  /\ steered = {} /\ trail = {} /\ airTold = {} /\ seen = {} /\ asks = 0 /\ opened = 0

AirNext ==
  \/ AirTick
  \/ \E k \in Peers : AirAnnounce(k) \/ AirLeave(k) \/ List(k) \/ BeginSteer(k) \/ BeginMove(k) \/ LookUp(k) \/ Steer(k) \/ AirMove(k) \/ AirAnswer(k)
  \/ \E w \in posted : Record(w)
  \/ \E b \in AirBackends : Opens(b) \/ \E s \in sess[b] : Closes(b, s)

AirSpec == AirInit /\ [][AirNext]_controlVars

(***************************************************************************)
(* The ledger has exactly one record for each time what a node announces   *)
(* became something else to a reader, and none for a heartbeat or for the  *)
(* same card in another order ("Material card changes remain               *)
(* attributable"), counting those about to be written.                     *)
(***************************************************************************)
ChangesRecorded == \A k \in Peers : recorded[k] + Cardinality({w \in posted : w.key = k}) = novel[k]

(***************************************************************************)
(* A peer reaches and sees only sessions of backends whose ACL names it;   *)
(* a record says "allow" exactly for what was done, under the key of the   *)
(* peer that connected, and names another as the actor only for a relay    *)
(* (onBehalfOf, gatewayAirControl.steer, airAuditFunc).                    *)
(***************************************************************************)
ControlScoped ==
  /\ \A x \in seen : x.by \in Acl[x.backend]
  /\ \A r \in trail :
       /\ r.ok => r.key \in Acl[r.backend]
       /\ r.behalf # "none" => r.key \in Relays
       /\ r.ok /\ r.method = "steer" => [session |-> r.session, by |-> r.key] \in steered
  /\ \A x \in steered : \E r \in trail \cup {[key |-> k, session |-> ask[k].session, ok |-> TRUE] : k \in {j \in Peers : ask[j].pc = "record"}} :
       r.ok /\ r.key = x.by /\ r.session = x.session

(* A move that is answered "moved" has left; one answered with a conflict has not (moveHTTPStatus). *)
MoveToldTrue ==
  \A t \in airTold :
    /\ t.method = "move" /\ t.status = 200 => t.left
    /\ t.method = "move" /\ t.status = 409 => ~t.left

ControlHolds == ChangesRecorded /\ ControlScoped /\ MoveToldTrue

-----------------------------------------------------------------------------
(***************************************************************************)
(* The Air home view and page.  `air home --watch` polls several sources   *)
(* one after another, folds them into one Home and redraws when its        *)
(* signature changed (cmd/meshmcp/airhome.go, air/home.go).  The page      *)
(* (airserve.go, airresolve.go, air/action.go) serves the same view and    *)
(* sends push, drop and ring for the viewers its ACL names: a logical      *)
(* recipient is resolved to a stamped key and address, dialled, checked    *)
(* and answered with a receipt once the receiver has confirmed.            *)
(***************************************************************************)
CONSTANTS Order,       \* the sources in the order they are read
          Values,      \* what a source may hold
          Blank,       \* a section that was not read
          Window,      \* denyWindow
          MaxChanges, MaxFails, MaxPolls, 
          Action,      \* request -> [kind, viewer, local, logical, to]
          HomeAllow,       \* the viewers the ACL names; {} = any
          Card,        \* selector -> [key, addr, confirms], or absent
          HeldBack        \* address -> the key that holds it at first

VARIABLES truth,   \* source -> what it holds
          up,      \* the sources that answer
          denies,  \* times of the deny records in the ledger
          poll,    \* the poll in progress: [pc, at, home]
          screen,  \* what was drawn last: [home, summary]
          prev,    \* its signature
          last,    \* the home the last finished poll gathered
          polls, changes, fails,
          act,     \* request -> [pc, key, addr, answer]
          homePeerAt,  \* address -> the key that holds it
          landed  \* <<request, key>>: payloads installed
homeVars == <<truth, up, denies, now, poll, screen, prev, last, polls, changes, fails, act, homePeerAt, landed, moves>>
watchVars == <<truth, up, denies, now, poll, screen, prev, last, polls, changes, fails>>
pageVars == <<act, homePeerAt, landed, moves>>

Sources == {Order[i] : i \in DOMAIN Order}
Empty == [s \in Sources |-> Blank]

HomeInit ==
  /\ truth \in [Sources -> Values] /\ up = Sources /\ denies = {} /\ now = 0
  /\ poll = [pc |-> 0, at |-> 0, home |-> Empty]
  /\ screen = [home |-> Empty, pending |-> Blank, denies |-> 0] /\ prev = <<>> /\ last = <<>>
  /\ polls = 0 /\ changes = 0 /\ fails = 0
  /\ act = [a \in DOMAIN Action |-> [pc |-> "new", key |-> Blank, addr |-> Blank, answer |-> "none"]]
  /\ homePeerAt = HeldBack /\ landed = {} /\ moves = 0
-----------------------------------------------------------------------------
(* A source changes, goes away or comes back; a call is denied.            *)
Change(s) ==
  /\ changes < MaxChanges /\ changes' = changes + 1
  /\ \E v \in Values \ {truth[s]} : truth' = [truth EXCEPT ![s] = v]
  /\ UNCHANGED <<up, denies, now, poll, screen, prev, last, polls, fails, pageVars>>
Flip(s) ==
  /\ fails < MaxFails /\ fails' = fails + 1
  /\ up' = IF s \in up THEN up \ {s} ELSE up \cup {s}
  /\ UNCHANGED <<truth, denies, now, poll, screen, prev, last, polls, changes, pageVars>>
Denied ==
  /\ denies' = denies \cup {now} /\ denies' # denies
  /\ UNCHANGED <<truth, up, now, poll, screen, prev, last, polls, changes, fails, pageVars>>
HomeTick ==
  /\ now < MaxTime /\ now' = now + 1
  /\ UNCHANGED <<truth, up, denies, poll, screen, prev, last, polls, changes, fails, pageVars>>

(* gatherHome begins: a home with nothing read and pending unknown.        *)
Gather ==
  /\ poll.pc = 0 /\ polls < MaxPolls /\ polls' = polls + 1
  /\ poll' = [pc |-> 1, at |-> now, home |-> Empty]
  /\ UNCHANGED <<truth, up, denies, now, screen, prev, last, changes, fails, pageVars>>

(* loadPresence, relayPresence, relaySessions, relayCatalog: a source that *)
(* cannot be reached, or answers with anything but a list, yields none.    *)
Loaded(s, old) == IF s \in up THEN truth[s] ELSE old

(* One source is read; one that fails leaves its section as it was.        *)
(* (Mutated form: a failed read counts as an empty section.)               *)
ReadZero ==
  LET s == Order[poll.pc] IN
  /\ poll.pc \in DOMAIN Order
  /\ poll' = [poll EXCEPT !.pc = @ + 1, !.home[s] = IF s \in up THEN truth[s] ELSE CHOOSE v \in Values : TRUE]
  /\ UNCHANGED <<truth, up, denies, now, screen, prev, last, polls, changes, fails, pageVars>>
Read ==
  LET s == Order[poll.pc] IN
  /\ poll.pc \in DOMAIN Order
  /\ poll' = [poll EXCEPT !.pc = @ + 1, !.home[s] = Loaded(s, @)]
  /\ UNCHANGED <<truth, up, denies, now, screen, prev, last, polls, changes, fails, pageVars>>

(* homeReceipts: the ledger tail; only the times of denials matter here.   *)
homeReceipts == denies

(* recentDenies, over the ledger tail the poll has.                        *)
RecentDenies(t) == Cardinality({d \in homeReceipts : d >= t - Window})

(* Signature: every section and the activity tail, not the time.           *)
Signature(h) == <<h, homeReceipts>>

(* watchHome's draw: render only when the signature changed.               *)
Draw ==
  /\ poll.pc = Len(Order) + 1
  /\ poll' = [poll EXCEPT !.pc = 0]
  /\ last' = <<poll.home, RecentDenies(poll.at)>>
  /\ IF Signature(poll.home) # prev
     THEN /\ prev' = Signature(poll.home)
          /\ screen' = [home |-> poll.home, pending |-> poll.home[Order[Len(Order)]],
                        denies |-> RecentDenies(poll.at)]
     ELSE UNCHANGED <<prev, screen>>
  /\ UNCHANGED <<truth, up, denies, now, polls, changes, fails, pageVars>>
-----------------------------------------------------------------------------
At(a, pc) == act[a].pc = pc
Ends(a, answer) == act' = [act EXCEPT ![a].pc = "done", ![a].answer = answer]

(* withWebSecurity, the viewer ACL, and the routes being enabled: actions  *)
(* are wired only when the page names its viewers.                         *)
Permitted(a) == Action[a].local /\ Action[a].viewer \in HomeAllow
Gate(a) ==
  /\ At(a, "new")
  /\ IF Permitted(a) THEN act' = [act EXCEPT ![a].pc = "resolves"] ELSE Ends(a, "refused")
  /\ UNCHANGED <<watchVars, homePeerAt, landed, moves>>

(* resolveActionRecipient, resolveInboxRecipient: a raw address is taken   *)
(* as given; a selector must name one card, with a stamped key and an      *)
(* inbox that confirms.                                                    *)
Resolvable(a) == Action[a].to \in DOMAIN Card /\ Card[Action[a].to].confirms
(* resolveActionTarget: a ring needs only the address of a named card.     *)
RingTarget(a) == Card[Action[a].to].addr

HomeResolve(a) ==
  /\ At(a, "resolves")
  /\ IF ~Action[a].logical
     THEN act' = [act EXCEPT ![a].pc = "sends", ![a].addr = Action[a].to]
     ELSE IF Action[a].kind = "ring" /\ Action[a].to \in DOMAIN Card
     THEN act' = [act EXCEPT ![a].pc = "sends", ![a].addr = RingTarget(a)]
     ELSE IF Resolvable(a)
     THEN act' = [act EXCEPT ![a].pc = "sends", ![a].addr = Card[Action[a].to].addr,
                             ![a].key = Card[Action[a].to].key]
     ELSE Ends(a, "refused")
  /\ UNCHANGED <<watchVars, homePeerAt, landed, moves>>

(* The dial: a confirmed delivery goes through verifiedAirDialer, which    *)
(* refuses an address that another key holds by now; ring and raw          *)
(* deliveries are not checked.                                             *)
Sends(a) == act[a].key # Blank => homePeerAt[act[a].addr] = act[a].key

(* The receiver installs the payload, or not, and the sender learns of it, *)
(* or not.  pushConfirmed waits for the completion report of the receiver, *)
(* raw push returns when the stream has been taken.                        *)
HomeDeliver(a) ==
  /\ At(a, "sends")
  /\ IF ~Sends(a) THEN Ends(a, "error") /\ landed' = landed
     ELSE \E installed, told \in BOOLEAN :
            /\ landed' = IF installed THEN landed \cup {<<a, homePeerAt[act[a].addr]>>} ELSE landed
            /\ Ends(a, IF act[a].key # Blank
                       THEN IF told /\ installed THEN "delivered" ELSE "error"
                       ELSE IF told THEN "sent" ELSE "error")
  /\ UNCHANGED <<watchVars, homePeerAt, moves>>

(* An address comes to belong to another key.                              *)
HomeMove(x) ==
  /\ moves < MaxMoves /\ moves' = moves + 1
  /\ \E k \in {HeldBack[y] : y \in DOMAIN HeldBack} \ {homePeerAt[x]} : homePeerAt' = [homePeerAt EXCEPT ![x] = k]
  /\ UNCHANGED <<watchVars, act, landed>>

HomeNext ==
  \/ \E s \in Sources : Change(s) \/ Flip(s)
  \/ Denied \/ HomeTick
  \/ Gather \/ Read \/ Draw
  \/ \E a \in DOMAIN Action : Gate(a) \/ HomeResolve(a) \/ HomeDeliver(a)
  \/ \E x \in DOMAIN HeldBack : HomeMove(x)

HomeSpec == HomeInit /\ [][HomeNext]_homeVars
-----------------------------------------------------------------------------
(* What is on the screen is what the last poll gathered, section by        *)
(* section, although a poll of the same state draws nothing                *)
(* (air/home.go Signature, airhome.go watchHome).                          *)
ScreenCurrent == last # <<>> /\ poll.pc = 0 => screen.home = last[1]

(* Unknown is not zero: a section is shown only with a value its source    *)
(* had while it answered; the count of held approvals of a server that     *)
(* does not answer stays unknown (gatherHome, assembleHome).               *)
UnknownShown ==
  /\ fails = 0 => \A i \in DOMAIN Order : poll.pc > i => poll.home[Order[i]] # Blank
  /\ changes = 0 => \A s \in Sources : poll.home[s] \in {truth[s], Blank}

(* A receipt is true: the page answers "delivered" only when the payload   *)
(* was installed by the key the receipt names, and sends nothing for a     *)
(* viewer its ACL does not name.                                           *)
ReceiptTrue ==
  \A a \in DOMAIN Action :
    /\ act[a].answer = "delivered" => <<a, act[a].key>> \in landed /\ Card[Action[a].to].confirms
    /\ \A k \in {HeldBack[x] : x \in DOMAIN HeldBack} :
         <<a, k>> \in landed => /\ Action[a].viewer \in HomeAllow
                                /\ act[a].key \in {k, Blank}

HomeHolds == ScreenCurrent /\ UnknownShown /\ ReceiptTrue

-----------------------------------------------------------------------------
(***************************************************************************)
(* Fan-out to a group: `air steer --to group:<name>` asks the gateway for  *)
(* the group's present members and for the live sessions, then steers one  *)
(* member after the other with a request of its own and reports one        *)
(* outcome per member (cmd/meshmcp/air.go, airgroups.go, air/fanout.go);   *)
(* the gateway decides each request by itself (cmd/meshmcp/aircontrol.go). *)
(* Members leave and sessions come and go between any two of these steps,  *)
(* and the answer to a request that was carried out can be lost.           *)
(***************************************************************************)
CONSTANTS
  Cards,      \* sequence of all keys in the order List returns their cards
  Patterns,   \* sequence of the group's patterns, each the set of keys it matches
  MaxMembers, \* maxGroupMembers
  SessionOf,  \* function from session ids to [key, backend]
  Closed,     \* backends whose ACL refuses the caller from some moment on
  MaxChurn   \* bound on members and sessions that come or go

VARIABLES
  present,  \* keys whose cards the registry holds
  live,     \* ids of live sessions
  open,     \* backends whose ACL admits the caller
  pc,       \* where the command is
  roster,   \* the members it was given
  sessions, \* the sessions it was given
  outcome,  \* the FanoutMembers collected so far
  req,      \* the request on its way: the session it names, and the status answered
  fanSteered,  \* history: how often each session received the notification
  churn
fanoutVars == <<present, live, open, pc, roster, sessions, outcome, req, fanSteered, churn, lost>>

FanKeys == Range(Cards)
Ids == DOMAIN SessionOf
FanBackends == {SessionOf[i].backend : i \in Ids}
NoRequest == [id |-> {}, status |-> "none"]

FanInit ==
  /\ present \in SUBSET FanKeys /\ live \in SUBSET Ids /\ open = FanBackends
  /\ pc = "roster" /\ roster = <<>> /\ sessions = {} /\ outcome = <<>> /\ req = NoRequest
  /\ fanSteered = [i \in Ids |-> 0] /\ churn = 0 /\ lost = 0

\* resolveGroupMembers: each present card that some pattern matches, once, in
\* the order of the list.
Members == SelectSeq(Cards, LAMBDA k : k \in present /\ \E p \in Range(Patterns) : k \in p)

\* fetchAirGroup: a group that is too large or has no one present is refused
\* before any member is touched.
FetchGroup ==
  /\ pc = "roster"
  /\ roster' = Members
  /\ pc' = IF Members = <<>> \/ Len(Members) > MaxMembers THEN "refused" ELSE "sessions"
  /\ UNCHANGED <<present, live, open, sessions, outcome, req, fanSteered, churn, lost>>

\* gatewayAirControl.sessions: the live sessions of the backends the caller may see.
Visible == {i \in live : SessionOf[i].backend \in open}

FetchSessions ==
  /\ pc = "sessions"
  /\ sessions' = Visible /\ pc' = "member"
  /\ UNCHANGED <<present, live, open, roster, outcome, req, fanSteered, churn, lost>>

Current == roster[Len(outcome) + 1]
BoundTo(k) == {i \in sessions : SessionOf[i].key = k}
Outcome(status) == outcome' = Append(outcome, [key |-> Current, status |-> status])

\* steerGroupMember goes on only with exactly one session of this identity.
Steers == Cardinality(BoundTo(Current)) = 1

Skip ==
  /\ pc = "member" /\ req = NoRequest /\ Len(outcome) < Len(roster) /\ ~ Steers
  /\ Outcome("skipped")
  /\ UNCHANGED <<present, live, open, pc, roster, sessions, req, fanSteered, churn, lost>>

Send ==
  /\ pc = "member" /\ req = NoRequest /\ Len(outcome) < Len(roster) /\ Steers
  /\ \E i \in BoundTo(Current) : req' = [id |-> {i}, status |-> "sent"]
  /\ UNCHANGED <<present, live, open, pc, roster, sessions, outcome, fanSteered, churn, lost>>

(* (Mutated form: the gateway trusts the list it gave out before.)         *)
VerdictStale(i) == IF i \notin live THEN "missing" ELSE "ok"

\* The gateway's own decision on POST /v1/steer, taken when it handles it.
Verdict(i) == IF SessionOf[i].backend \notin open THEN "forbidden" ELSE IF i \notin live THEN "missing" ELSE "ok"

HandleSteer ==
  /\ req.status = "sent"
  /\ \E i \in req.id :
       /\ req' = [req EXCEPT !.status = Verdict(i)]
       /\ fanSteered' = [fanSteered EXCEPT ![i] = IF Verdict(i) = "ok" THEN @ + 1 ELSE @]
  /\ UNCHANGED <<present, live, open, pc, roster, sessions, outcome, churn, lost>>

\* The connection breaks before the request or its answer got through: the
\* member failed, and the request is not repeated.
LoseAnswer ==
  /\ req.status # "none" /\ lost < MaxLost
  /\ req' = NoRequest /\ lost' = lost + 1
  /\ Outcome("failed")
  /\ UNCHANGED <<present, live, open, pc, roster, sessions, fanSteered, churn>>

\* What the answer's HTTP status makes of the member.
Status(status) == CASE status = "ok" -> "delivered" [] status = "forbidden" -> "denied" [] OTHER -> "failed"

FanAnswer ==
  /\ req.status \notin {"none", "sent"}
  /\ Outcome(Status(req.status)) /\ req' = NoRequest
  /\ UNCHANGED <<present, live, open, pc, roster, sessions, fanSteered, churn, lost>>

Delivered == {n \in DOMAIN outcome : outcome[n].status = "delivered"}

(* (Mutated form: the exit code forgets the members that were skipped.)    *)
ExitOfTried ==
  IF Cardinality(Delivered) = Cardinality({n \in DOMAIN outcome : outcome[n].status # "skipped"}) THEN "exit0"
  ELSE IF Delivered = {} THEN "exit3" ELSE "exit2"

\* reportFanout: 0 when every member was delivered, 3 when none was, else 2.
Exit == IF Cardinality(Delivered) = Len(outcome) THEN "exit0" ELSE IF Delivered = {} THEN "exit3" ELSE "exit2"

Report ==
  /\ pc = "member" /\ Len(outcome) = Len(roster)
  /\ pc' = Exit
  /\ UNCHANGED <<present, live, open, roster, sessions, outcome, req, fanSteered, churn, lost>>

\* Cards appear and expire, sessions start and end, an ACL is tightened.
Churn ==
  /\ churn < MaxChurn /\ churn' = churn + 1
  /\ \/ \E k \in FanKeys : present' = (present \ {k}) \cup ({k} \ present) /\ UNCHANGED <<live, open>>
     \/ \E i \in Ids : live' = (live \ {i}) \cup ({i} \ live) /\ UNCHANGED <<present, open>>
     \/ \E b \in Closed \cap open : open' = open \ {b} /\ UNCHANGED <<present, live>>
  /\ UNCHANGED <<pc, roster, sessions, outcome, req, fanSteered, lost>>

FanNext ==
  \/ FetchGroup \/ FetchSessions \/ Skip \/ Send \/ HandleSteer
  \/ LoseAnswer \/ FanAnswer \/ Report \/ Churn

FanSpec == FanInit /\ [][FanNext]_fanoutVars
-----------------------------------------------------------------------------
\* The report is true of every member: a member is called delivered only if
\* its one session got the notification, whatever else happened between the
\* roster and its turn; a session got it at most once, and only on behalf of
\* the member it is bound to; and a session that got it belongs to a member
\* called delivered, or to one that failed because the answer was lost.
ReportTrue ==
  /\ \A n \in DOMAIN outcome :
       LET got == {i \in BoundTo(outcome[n].key) : fanSteered[i] > 0}
       IN  /\ outcome[n].key = roster[n]
           /\ outcome[n].status = "delivered" => Cardinality(got) = 1
           /\ outcome[n].status \in {"skipped", "denied"} => got = {}
           /\ outcome[n].status = "failed" /\ got # {} => lost > 0
  /\ \A i \in Ids : fanSteered[i] <= 1 /\ (fanSteered[i] = 1 => SessionOf[i].key \in Range(roster))

\* The exit code is true of the group: 0 says that every member of the roster
\* was reached, 3 that none is known to have been, and a group that was
\* refused was not touched at all.
ExitTrue ==
  /\ pc = "exit0" => \A k \in Range(roster) : \E i \in BoundTo(k) : fanSteered[i] = 1
  /\ pc = "exit3" => Cardinality({i \in Ids : fanSteered[i] > 0}) <= lost
  /\ pc = "refused" => \A i \in Ids : fanSteered[i] = 0

FanoutHolds == ReportTrue /\ ExitTrue

\* No request is carried out that the gateway's rules forbid at that moment:
\* the list of sessions the command was given earlier carries no right.
GovernedStep ==
  \A i \in Ids : fanSteered'[i] > fanSteered[i] => i \in live /\ SessionOf[i].backend \in open

=============================================================================
