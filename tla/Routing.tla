------------------------------ MODULE Routing -------------------------------
(***************************************************************************)
(* The ways to a backend that is elsewhere: the router over replicas, the  *)
(* client of a remote MCP server with its rotating token, and the relay in *)
(* front of gateways that cannot be dialled. Each part is a specification  *)
(* of its own, with its own initial state and next-state relation; a       *)
(* behaviour is a behaviour of one of them.                                *)
(***************************************************************************)
EXTENDS Integers, Sequences, FiniteSets

-----------------------------------------------------------------------------
(* One upstream of the aggregating router for one downstream client          *)
(* (cmd/meshmcp/router.go): calls are spread over interchangeable replicas   *)
(* under the pool's mutex, fail over around dead ones, and are repeated      *)
(* after they were sent only when that is safe.                              *)
CONSTANTS
    Kind,          \* caller -> "read" (safe to repeat), "tool", "retry" (a tool in retry_tools)
    Denied,        \* callers whose tool the router's policy denies
    Delegates,     \* the upstream has an audience pin and the router a delegation key
    NReplicas, MaxFlaps, Free

VARIABLES
    rep,           \* replica.client ("nil", "open", "dead") and whether it is cooling down
    live,          \* the replica's process can be reached (external)
    next, mu,      \* upstreamPool.next and mu
    registered,    \* the tools of the upstream were discovered
    call,          \* each call: [pc, tries, at, key, result]
    asked,         \* what the replicas received and ran: <<caller, replica, "got" or "ran">>
    phase,         \* of handleRouterConn: "discover", "serve", "left", "closed"
    tick,          \* a health tick that waits for the mutex
    flaps

routerVars == <<rep, live, next, mu, registered, call, asked, phase, tick, flaps>>
pool == <<rep, next>>

Callers == DOMAIN Kind
Replicas == 0..(NReplicas - 1)

RouterInit ==
    /\ rep = [r \in Replicas |-> [client |-> "nil", cool |-> FALSE]]
    /\ live \in [Replicas -> BOOLEAN]
    /\ next = 0 /\ mu = Free /\ registered = FALSE
    /\ call = [k \in Callers |-> [pc |-> "idle", tries |-> 0, at |-> 0, key |-> FALSE, result |-> "none"]]
    /\ asked = <<>> /\ phase = "discover" /\ tick = FALSE /\ flaps = 0

-----------------------------------------------------------------------------
(* upstreamPool.get: an existing client as it is; none in the cooldown; or  *)
(* dial and initialize, which fails for any reason and always when the      *)
(* replica is down.                                                          *)
Gets(r) ==
    CASE rep[r].client # "nil" -> {rep[r]}
      [] rep[r].client = "nil" /\ rep[r].cool -> {rep[r]}
      [] OTHER -> {[client |-> "nil", cool |-> TRUE]} \cup
                  (IF live[r] THEN {[client |-> "open", cool |-> FALSE]} ELSE {})

(* markDown.                                                                 *)
Down == [client |-> "nil", cool |-> TRUE]

(* upstreamPool.any, for discovery: replicas in turn until one is connected. *)
RouterDiscover ==
    /\ phase = "discover"
    /\ \E r \in Replicas, g \in [Replicas -> UNION {Gets(q) : q \in Replicas}], ok \in BOOLEAN :
          LET tried == IF ok THEN 0..((r - next) % NReplicas) ELSE Replicas
              Nth(i) == (next + i) % NReplicas
          IN  /\ \A i \in tried : g[Nth(i)] \in Gets(Nth(i))
              /\ \A i \in tried : g[Nth(i)].client # "nil" <=> (ok /\ Nth(i) = r)
              /\ rep' = [q \in Replicas |-> IF \E i \in tried : Nth(i) = q THEN g[q] ELSE rep[q]]
              /\ next' = (next + Cardinality(tried)) % NReplicas
              /\ registered' = ok
    /\ phase' = "serve"
    /\ UNCHANGED <<live, mu, call, asked, tick, flaps>>

(* The proxy tool's handler: the router's own policy first.                 *)
Enforce(k) ==
    /\ phase # "discover" /\ registered /\ phase = "serve"
    /\ call[k].pc = "idle"
    /\ call' = [call EXCEPT ![k] = IF k \in Denied THEN [@ EXCEPT !.pc = "done", !.result = "denied"]
                                   ELSE [@ EXCEPT !.pc = "lock"]]
    /\ UNCHANGED <<rep, live, next, mu, registered, asked, phase, tick, flaps>>

(* safeToRetryAfterDispatch and retryEligibleToolCall: a listed tool may be *)
(* repeated when an idempotency key could be attached.                      *)
(* (Mutated form: whatever was sent may be.)                                *)
RetryableAlways(k) == TRUE
Retryable(k) == Kind[k] = "read" \/ (Kind[k] = "retry" /\ call[k].key)

(* call: under the mutex until it returns; one delegation token and one     *)
(* idempotency key per logical call; no token, no call.                     *)
Lock(k) ==
    /\ call[k].pc = "lock" /\ mu = Free
    /\ \/ /\ mu' = k
          /\ \E key \in BOOLEAN :
                call' = [call EXCEPT ![k].pc = "pick", ![k].key = key]
       \/ /\ Delegates /\ Kind[k] # "read" /\ UNCHANGED mu
          /\ call' = [call EXCEPT ![k].pc = "done", ![k].result = "unminted"]
    /\ UNCHANGED <<rep, live, next, registered, asked, phase, tick, flaps>>

Settle(k, r) ==
    /\ mu' = Free
    /\ call' = [call EXCEPT ![k].pc = "done", ![k].result = r]

(* One turn of the loop: the next replica, which get connects or not.       *)
(* (Mutated form: the turn passes on only when the replica answers.)        *)
PickSticky(k) ==
    /\ call[k].pc = "pick" /\ call[k].tries < NReplicas
    /\ \E g \in Gets(next) :
          /\ rep' = [rep EXCEPT ![next] = g]
          /\ call' = [call EXCEPT ![k].tries = @ + 1, ![k].at = next,
                                  ![k].pc = IF g.client = "nil" THEN "pick" ELSE "send"]
    /\ UNCHANGED <<live, next, mu, registered, asked, phase, tick, flaps>>
Pick(k) ==
    /\ call[k].pc = "pick" /\ call[k].tries < NReplicas
    /\ next' = (next + 1) % NReplicas
    /\ \E g \in Gets(next) :
          /\ rep' = [rep EXCEPT ![next] = g]
          /\ call' = [call EXCEPT ![k].tries = @ + 1, ![k].at = next,
                                  ![k].pc = IF g.client = "nil" THEN "pick" ELSE "send"]
    /\ UNCHANGED <<live, mu, registered, asked, phase, tick, flaps>>

Exhausted(k) ==
    /\ call[k].pc = "pick" /\ call[k].tries = NReplicas
    /\ Settle(k, "failed")
    /\ UNCHANGED <<rep, live, next, registered, asked, phase, tick, flaps>>

(* The request leaves on the client's connection and reaches the replica.   *)
Send(k) ==
    /\ call[k].pc = "send" /\ rep[call[k].at].client = "open" /\ live[call[k].at]
    /\ asked' = Append(asked, <<k, call[k].at, "got">>)
    /\ call' = [call EXCEPT ![k].pc = "sent"]
    /\ UNCHANGED <<rep, live, next, mu, registered, phase, tick, flaps>>

(* The replica runs it (external).                                           *)
Runs(k) ==
    /\ call[k].pc = "sent" /\ live[call[k].at]
    /\ asked' = Append(asked, <<k, call[k].at, "ran">>)
    /\ call' = [call EXCEPT ![k].pc = "ran"]
    /\ UNCHANGED <<rep, live, next, mu, registered, phase, tick, flaps>>

(* An answer, or an error of the application: the replica is healthy.       *)
Answer(k) ==
    /\ call[k].pc \in {"sent", "ran"} /\ rep[call[k].at].client = "open"
    /\ Settle(k, IF call[k].pc = "ran" THEN "ok" ELSE "rpcError")
    /\ UNCHANGED <<rep, live, next, registered, asked, phase, tick, flaps>>

(* A transport error after the request was handed over: the replica is      *)
(* marked down, and only what is safe to repeat goes to the next one.       *)
Breaks(k) ==
    /\ call[k].pc \in {"send", "sent", "ran"} /\ rep[call[k].at].client # "open"
    /\ rep' = [rep EXCEPT ![call[k].at] = Down]
    /\ IF Retryable(k)
         THEN call' = [call EXCEPT ![k].pc = "pick"] /\ UNCHANGED mu
         ELSE Settle(k, "ambiguous")
    /\ UNCHANGED <<live, next, registered, asked, phase, tick, flaps>>

-----------------------------------------------------------------------------
(* runHealth: a tick, then healthCheck under the mutex.                     *)
Tick ==
    /\ phase = "serve" /\ ~tick
    /\ tick' = TRUE
    /\ UNCHANGED <<rep, live, next, mu, registered, call, asked, phase, flaps>>

HealthCheck ==
    /\ tick /\ mu = Free
    /\ \E g \in [Replicas -> UNION {Gets(q) : q \in Replicas}] :
          (\A r \in Replicas : g[r] \in Gets(r)) /\ rep' = g
    /\ tick' = FALSE
    /\ UNCHANGED <<live, next, mu, registered, call, asked, phase, flaps>>

(* The client leaves; the cleanup stops the health checks and closes the    *)
(* pool.  Handlers that still run are not waited for.                       *)
ClientLeaves ==
    /\ phase = "serve"
    /\ phase' = "left"
    /\ UNCHANGED <<rep, live, next, mu, registered, call, asked, tick, flaps>>

CloseAll ==
    /\ phase = "left" /\ mu = Free
    /\ rep' = [r \in Replicas |-> [rep[r] EXCEPT !.client = "nil"]]
    /\ phase' = "closed"
    /\ UNCHANGED <<live, next, mu, registered, call, asked, tick, flaps>>

(* A replica dies with its connections, or comes back; a cooldown ends; a   *)
(* connection breaks while the replica lives on (external).                 *)
Flap(r) ==
    /\ flaps < MaxFlaps
    /\ flaps' = flaps + 1
    /\ \/ live' = [live EXCEPT ![r] = ~@]
       \/ UNCHANGED live
    /\ rep' = [rep EXCEPT ![r].client = IF @ = "open" THEN "dead" ELSE @]
    /\ UNCHANGED <<next, mu, registered, call, asked, phase, tick>>

CoolEnds(r) ==
    /\ rep[r].cool
    /\ rep' = [rep EXCEPT ![r].cool = FALSE]
    /\ UNCHANGED <<live, next, mu, registered, call, asked, phase, tick, flaps>>

CallStep(k) ==
    Enforce(k) \/ Lock(k) \/ Pick(k) \/ Exhausted(k) \/ Send(k) \/ Runs(k) \/ Answer(k) \/ Breaks(k)

RouterNext ==
    \/ RouterDiscover \/ Tick \/ HealthCheck \/ ClientLeaves \/ CloseAll
    \/ \E k \in Callers : CallStep(k)
    \/ \E r \in Replicas : Flap(r) \/ CoolEnds(r)

-----------------------------------------------------------------------------
Count(k, r, e) == Len(SelectSeq(asked, LAMBDA x : x = <<k, r, e>>))
RanAnywhere(k) == Len(SelectSeq(asked, LAMBDA x : x[1] = k /\ x[3] = "ran"))

(* The pool's cursor stays on a replica, one call holds the mutex, and a    *)
(* replica in its cooldown has no client.                                    *)
TypeOK ==
    /\ next \in Replicas
    /\ \A r \in Replicas : rep[r].client \in {"nil", "open", "dead"} /\ (rep[r].cool => rep[r].client = "nil")
    /\ \A k \in Callers : call[k].pc \in {"pick", "send", "sent", "ran"} <=> mu = k

(* A tool call that the operator did not list as retry-safe runs at most    *)
(* once over all replicas, and when its caller is told that no replica could *)
(* be reached, or that it was denied, it has run nowhere: only the           *)
(* ambiguous answer leaves that open (call).                                 *)
ToolOnce ==
    \A k \in Callers :
        /\ Kind[k] = "tool" => RanAnywhere(k) <= 1
        /\ (Kind[k] = "tool" /\ call[k].result \in {"failed", "denied", "unminted", "rpcError"}) => RanAnywhere(k) = 0
        /\ call[k].result = "ok" => RanAnywhere(k) >= 1

(* One logical call is presented to one replica at most once, however it    *)
(* fails over: its delegation token is single-use there, and a second       *)
(* presentation would be refused as a replay (the loop over p.next).        *)
OncePerReplica ==
    \A k \in Callers, r \in Replicas : Count(k, r, "got") <= 1

RouterHolds == ToolOnce /\ OncePerReplica

-----------------------------------------------------------------------------
(* The outbound OAuth and DPoP client of "remote" backends                  *)
(* (cmd/meshmcp/remotebackend.go): one client per backend shared by all of  *)
(* its mesh connections; discovery on the first challenge; one access       *)
(* token, refreshed with a token the authorization server rotates; one      *)
(* retry for a nonce; the rotated token written back to the secrets file,   *)
(* which several backends may share.                                        *)
CONSTANTS
    BackendOf,       \* request -> its backend
    MaxRotations,    \* bound on what the authorization server issues
    MaxExpiries, MaxCrashes,
    Idle

VARIABLES
    known,           \* tokenEndpoint has been discovered
    tok,             \* remoteClient.tok: [access, fresh, refresh]
    remoteMu,              \* remoteClient.mu
    file,            \* the secrets file: backend -> refresh token
    rot,             \* rotateSecretInFile in progress: the copy that was read
    cur,             \* the refresh token the server would accept (external)
    req,             \* each request: [pc, used, nonce, sends, ran]
    lost,            \* a token answer did not arrive, or a crash came before the file was written
    spent, expiries, crashes

remoteVars == <<known, tok, remoteMu, file, rot, cur, req, lost, spent, expiries, crashes>>

Requests == DOMAIN BackendOf
Backends == {BackendOf[r] : r \in Requests}
NoTok(t) == [access |-> 0, fresh |-> FALSE, refresh |-> t]
Fresh == [pc |-> "new", used |-> 0, nonce |-> FALSE, sends |-> 0, ran |-> 0]

RemoteInit ==
    /\ known = [b \in Backends |-> FALSE] /\ remoteMu = [b \in Backends |-> Idle]
    /\ tok = [b \in Backends |-> NoTok(1)] /\ file = [b \in Backends |-> 1]
    /\ rot = [b \in Backends |-> Idle] /\ cur = [b \in Backends |-> 1]
    /\ req = [r \in Requests |-> Fresh]
    /\ lost = [b \in Backends |-> FALSE] /\ spent = FALSE /\ expiries = 0 /\ crashes = 0

At(r, pc) == req[r].pc = pc /\ UNCHANGED <<expiries, crashes>>
RemoteGoes(r, pc) == req' = [req EXCEPT ![r].pc = pc]

-----------------------------------------------------------------------------
(* resourceCall: without a token endpoint, the request itself is sent       *)
(* unauthenticated to provoke the challenge; a server that does not         *)
(* challenge has served it.                                                  *)
Start(r) ==
    /\ At(r, "new")
    /\ RemoteGoes(r, IF known[BackendOf[r]] THEN "ensure" ELSE "probe")
    /\ UNCHANGED <<known, tok, remoteMu, file, rot, cur, lost, spent>>

Probe(r) ==
    /\ At(r, "probe")
    /\ \/ req' = [req EXCEPT ![r].pc = "done", ![r].ran = @ + 1]
       \/ RemoteGoes(r, "discover")
       \/ RemoteGoes(r, "done")
    /\ UNCHANGED <<known, tok, remoteMu, file, rot, cur, lost, spent>>

(* discover, under the mutex: the candidates of the resource's and of the   *)
(* server's metadata in turn (getJSON), to a token endpoint or an error.    *)
RemoteDiscover(r) ==
    /\ At(r, "discover") /\ remoteMu[BackendOf[r]] = Idle
    /\ \/ known' = [known EXCEPT ![BackendOf[r]] = TRUE] /\ RemoteGoes(r, "ensure")
       \/ RemoteGoes(r, "done") /\ UNCHANGED known
    /\ UNCHANGED <<tok, remoteMu, file, rot, cur, lost, spent>>

(* ensureToken: the mutex is held until there is a token or an error.       *)
(* (Mutated form: the token is looked at before the mutex is taken.)        *)
EnsureUnlocked(r) ==
    LET b == BackendOf[r] IN
    /\ At(r, "ensure")
    /\ req' = [req EXCEPT ![r].pc = IF tok[b].access # 0 /\ tok[b].fresh THEN "call"
                                    ELSE IF tok[b].refresh # 0 THEN "refresh" ELSE "grant",
                          ![r].used = tok[b].refresh]
    /\ UNCHANGED <<known, tok, remoteMu, file, rot, cur, lost, spent>>
Ensure(r) ==
    LET b == BackendOf[r]
        held == tok[b].access # 0 /\ tok[b].fresh
    IN /\ At(r, "ensure") /\ remoteMu[b] = Idle
       /\ remoteMu' = IF held THEN remoteMu ELSE [remoteMu EXCEPT ![b] = r]
       /\ req' = [req EXCEPT ![r].pc = IF held THEN "call"
                                       ELSE IF tok[b].refresh # 0 THEN "refresh" ELSE "grant",
                             ![r].used = tok[b].refresh]
       /\ UNCHANGED <<known, tok, file, rot, cur, lost, spent>>

(* fetchToken and postToken with the refresh token: an answer of the        *)
(* server, which rotates the token it accepts; a refusal; or a transport    *)
(* error, after which it may have rotated.  A challenge for a nonce is      *)
(* answered once and ends in one of these.  The fallback is a fresh grant.  *)
(* `spent` notes that a token was presented which the server had rotated    *)
(* out although its answer was received.                                    *)
Refresh(r) ==
    LET b == BackendOf[r] IN
    /\ At(r, "refresh")
    /\ spent' = (spent \/ (req[r].used # cur[b] /\ ~lost[b]))
    /\ \/ /\ req[r].used = cur[b] /\ cur[b] < MaxRotations
          /\ cur' = [cur EXCEPT ![b] = @ + 1]
          /\ \/ RemoteGoes(r, "apply") /\ UNCHANGED lost
             \/ RemoteGoes(r, "grant") /\ lost' = [lost EXCEPT ![b] = TRUE]
       \/ req[r].used = cur[b] /\ req' = [req EXCEPT ![r].pc = "apply", ![r].used = cur[b]] /\ UNCHANGED <<cur, lost>>
       \/ RemoteGoes(r, "grant") /\ UNCHANGED <<cur, lost>>
    /\ UNCHANGED <<known, tok, remoteMu, file, rot>>

(* The client credentials grant; its answer may carry a refresh token.      *)
Grant(r) ==
    LET b == BackendOf[r] IN
    /\ At(r, "grant")
    /\ \/ /\ cur[b] < MaxRotations /\ cur' = [cur EXCEPT ![b] = @ + 1]
          /\ lost' = [lost EXCEPT ![b] = FALSE] /\ RemoteGoes(r, "apply") /\ UNCHANGED <<tok, remoteMu>>
       \/ tok' = [tok EXCEPT ![b].access = 1, ![b].fresh = TRUE] /\ remoteMu' = [remoteMu EXCEPT ![b] = Idle]
          /\ RemoteGoes(r, "call") /\ UNCHANGED <<cur, lost>>
       \/ RemoteGoes(r, "done") /\ remoteMu' = [remoteMu EXCEPT ![b] = Idle] /\ UNCHANGED <<tok, cur, lost>>
    /\ UNCHANGED <<known, file, rot, spent>>

(* applyTokenResponse: the memory first, then the file, still under the     *)
(* mutex of this backend; a failed write is logged.                         *)
Apply(r) ==
    LET b == BackendOf[r] IN
    /\ At(r, "apply")
    /\ tok' = [tok EXCEPT ![b] = [access |-> 1, fresh |-> TRUE, refresh |-> cur[b]]]
    /\ rot' = [rot EXCEPT ![b] = [file EXCEPT ![b] = cur[b]]]
    /\ RemoteGoes(r, "persist")
    /\ UNCHANGED <<known, remoteMu, file, cur, lost, spent>>

(* rotateSecretInFile: the whole file as it was read, with one entry set,   *)
(* replaces it by a rename; an error is only logged.                        *)
Persist(r) ==
    LET b == BackendOf[r] IN
    /\ At(r, "persist")
    /\ file' \in {rot[b], file}
    /\ rot' = [rot EXCEPT ![b] = Idle] /\ remoteMu' = [remoteMu EXCEPT ![b] = Idle]
    /\ RemoteGoes(r, "call")
    /\ UNCHANGED <<known, tok, cur, lost, spent>>

(* authenticatedCall: the token and nonce of this moment; served, refused,  *)
(* failed, or challenged for a nonce, which is answered once with the same  *)
(* body.  A challenged request was not served.                              *)
Call(r) ==
    /\ At(r, "call")
    /\ \/ \E served \in BOOLEAN :
             req' = [req EXCEPT ![r].pc = "done", ![r].sends = @ + 1, ![r].ran = @ + IF served THEN 1 ELSE 0]
       \/ /\ ~req[r].nonce
          /\ req' = [req EXCEPT ![r].nonce = TRUE, ![r].sends = @ + 1]
    /\ UNCHANGED <<known, tok, remoteMu, file, rot, cur, lost, spent>>

-----------------------------------------------------------------------------
Expire(b) ==
    /\ expiries < MaxExpiries /\ tok[b].fresh
    /\ expiries' = expiries + 1
    /\ tok' = [tok EXCEPT ![b].fresh = FALSE]
    /\ UNCHANGED <<known, remoteMu, file, rot, cur, req, lost, spent, crashes>>

(* The gateway stops and starts again: buildRemoteClient reads the file.    *)
Restart ==
    /\ crashes < MaxCrashes
    /\ crashes' = crashes + 1
    /\ known' = [b \in Backends |-> FALSE] /\ remoteMu' = [b \in Backends |-> Idle]
    /\ tok' = [b \in Backends |-> NoTok(file[b])]
    /\ rot' = [b \in Backends |-> Idle]
    /\ lost' = [b \in Backends |-> lost[b] \/ file[b] # cur[b]]
    /\ req' = [r \in Requests |-> IF req[r].pc = "new" THEN req[r] ELSE [req[r] EXCEPT !.pc = "done"]]
    /\ UNCHANGED <<file, cur, spent, expiries>>

RequestStep(r) ==
    Start(r) \/ Probe(r) \/ RemoteDiscover(r) \/ Ensure(r) \/ Refresh(r) \/ Grant(r) \/ Apply(r) \/ Persist(r) \/ Call(r)

RemoteNext ==
    \/ \E r \in Requests : RequestStep(r)
    \/ \E b \in Backends : Expire(b)
    \/ Restart

-----------------------------------------------------------------------------
(* A mesh request is served by the remote server at most once, and sent to  *)
(* it with credentials at most twice: only a nonce challenge is answered    *)
(* again (resourceCall, authenticatedCall).                                 *)
ServedOnce == \A r \in Requests : req[r].ran <= 1 /\ req[r].sends <= 2

(* Concurrent requests never present a refresh token that the server has    *)
(* rotated out and answered for: some servers revoke the whole family on    *)
(* that (ensureToken holds the mutex through the exchange and the store).   *)
NoReuse == ~spent

(* Without a crash, when no exchange is under way and no answer was lost,   *)
(* the token in memory is the one the server accepts.                       *)
MemoryCurrent ==
    \A b \in Backends : remoteMu[b] = Idle /\ ~lost[b] => tok[b].refresh = cur[b]

RemoteHolds == ServedOnce /\ NoReuse /\ MemoryCurrent

-----------------------------------------------------------------------------
(* The public relay (beacon/): gateways behind NAT keep a control           *)
(* connection each, registered under the label of their key; a public       *)
(* connection is routed by the label in its SNI, announced to the gateway   *)
(* with OPEN, and spliced with the data connection the gateway dials back.  *)
(* s.mu guards the maps only: every handler reads them, lets go and acts.   *)
CONSTANTS
    LabelOf,         \* control connection -> the label of its key
    Wants,           \* public connection -> the label in its SNI
    Values,          \* ACME challenge values a gateway publishes
    MaxGateways, MaxPending, MaxPerLabel, MaxTXT,
    Nobody

VARIABLES
    ctl,             \* control connection: [pc, open]; pc is its handler's, open the socket's
    gateways,        \* label -> registered control connection, or Nobody
    txt,             \* label -> values published under _acme-challenge
    pub,             \* public connection: [pc, gw]
    pending, perLabel,
    opens,           \* OPEN frames a tunnel has not read: <<control, public>>
    data             \* data connection of a public one: where it is

relayVars == <<ctl, gateways, txt, pub, pending, perLabel, opens, data>>

Controls == DOMAIN LabelOf
Publics == DOMAIN Wants
Labels == {LabelOf[g] : g \in Controls} \cup {Wants[p] : p \in Publics}
Registered == {l \in Labels : gateways[l] # Nobody}

RelayInit ==
    /\ ctl = [g \in Controls |-> [pc |-> "dial", open |-> TRUE]]
    /\ gateways = [l \in Labels |-> Nobody] /\ txt = [l \in Labels |-> {}]
    /\ pub = [p \in Publics |-> [pc |-> "hello", gw |-> Nobody]]
    /\ pending = {} /\ perLabel = [l \in Labels |-> 0]
    /\ opens = {} /\ data = [p \in Publics |-> "none"]

-----------------------------------------------------------------------------
(* handleRegister, once the signature over the nonce has verified.  The     *)
(* newest registration of a key wins and closes the one it replaces; a new  *)
(* label needs room.                                                         *)
Register(g) ==
    LET l == LabelOf[g]
        old == gateways[l]
    IN /\ ctl[g].pc = "dial"
       /\ \/ /\ old = Nobody /\ Cardinality(Registered) >= MaxGateways
             /\ ctl' = [ctl EXCEPT ![g] = [pc |-> "gone", open |-> FALSE]]
             /\ UNCHANGED gateways
          \/ /\ old # Nobody \/ Cardinality(Registered) < MaxGateways
             /\ gateways' = [gateways EXCEPT ![l] = g]
             /\ ctl' = [h \in Controls |->
                          IF h = g THEN [pc |-> "ok", open |-> TRUE]
                          ELSE IF h = old THEN [ctl[h] EXCEPT !.open = FALSE] ELSE ctl[h]]
       /\ UNCHANGED <<txt, pub, pending, perLabel, opens, data>>

(* The OK line: written, or the handler leaves.                             *)
Confirm(g) ==
    /\ ctl[g].pc = "ok"
    /\ ctl' = [ctl EXCEPT ![g].pc = IF ctl[g].open THEN "read" ELSE "leave"]
    /\ UNCHANGED <<gateways, txt, pub, pending, perLabel, opens, data>>

(* A control frame off the socket, also one sent before it was closed; the  *)
(* handler acts on it afterwards.                                           *)
ReadFrame(g, v) ==
    /\ ctl[g].pc = "read" /\ ctl[g].open
    /\ ctl' = [ctl EXCEPT ![g] = [pc |-> v, open |-> TRUE]]
    /\ UNCHANGED <<gateways, txt, pub, pending, perLabel, opens, data>>

(* setTXT: under the gateway's own name, once each, and no more than eight. *)
SetTXT(g) ==
    LET l == LabelOf[g]
    IN /\ ctl[g].pc \in Values
       /\ IF Cardinality(txt[l]) >= MaxTXT THEN UNCHANGED txt
          ELSE txt' = [txt EXCEPT ![l] = @ \cup {ctl[g].pc}]
       /\ ctl' = [ctl EXCEPT ![g].pc = "read"]
       /\ UNCHANGED <<gateways, pub, pending, perLabel, opens, data>>

ClearTXT(g, v) ==
    /\ ctl[g].pc = "read" /\ ctl[g].open /\ v \in txt[LabelOf[g]]
    /\ txt' = [txt EXCEPT ![LabelOf[g]] = @ \ {v}]
    /\ UNCHANGED <<ctl, gateways, pub, pending, perLabel, opens, data>>

(* The read loop ends with its socket; the tunnel's Close does that too.    *)
TunnelCloses(g) ==
    /\ ctl[g].pc \in {"ok", "read"} /\ ctl[g].open
    /\ ctl' = [ctl EXCEPT ![g].open = FALSE]
    /\ UNCHANGED <<gateways, txt, pub, pending, perLabel, opens, data>>

ReadFails(g) ==
    /\ ctl[g].pc = "read" /\ ~ctl[g].open
    /\ ctl' = [ctl EXCEPT ![g].pc = "leave"]
    /\ UNCHANGED <<gateways, txt, pub, pending, perLabel, opens, data>>

(* deregister: only what this connection registered.                        *)
(* (Mutated form: whatever the label holds.)                                *)
DeregisterLabel(g) ==
    /\ ctl[g].pc = "leave"
    /\ gateways' = [gateways EXCEPT ![LabelOf[g]] = Nobody]
    /\ txt' = [txt EXCEPT ![LabelOf[g]] = {}]
    /\ ctl' = [ctl EXCEPT ![g] = [pc |-> "gone", open |-> FALSE]]
    /\ UNCHANGED <<pub, pending, perLabel, opens, data>>
Deregister(g) ==
    /\ ctl[g].pc = "leave"
    /\ IF gateways[LabelOf[g]] = g
       THEN /\ gateways' = [gateways EXCEPT ![LabelOf[g]] = Nobody]
            /\ txt' = [txt EXCEPT ![LabelOf[g]] = {}]
       ELSE UNCHANGED <<gateways, txt>>
    /\ ctl' = [ctl EXCEPT ![g] = [pc |-> "gone", open |-> FALSE]]
    /\ UNCHANGED <<pub, pending, perLabel, opens, data>>

-----------------------------------------------------------------------------
(* handlePublicConn.                                                        *)
RelayGoes(p, pc) == pub' = [pub EXCEPT ![p].pc = pc]

Route(p) ==
    /\ pub[p].pc = "hello"
    /\ pub' = [pub EXCEPT ![p] = IF gateways[Wants[p]] = Nobody THEN [pc |-> "closed", gw |-> Nobody]
                                 ELSE [pc |-> "routed", gw |-> gateways[Wants[p]]]]
    /\ UNCHANGED <<ctl, gateways, txt, pending, perLabel, opens, data>>

Room(p) == Cardinality(pending) < MaxPending /\ perLabel[Wants[p]] < MaxPerLabel

Await(p) ==
    /\ pub[p].pc = "routed"
    /\ IF Room(p)
       THEN /\ pending' = pending \cup {p}
            /\ perLabel' = [perLabel EXCEPT ![Wants[p]] = @ + 1] /\ RelayGoes(p, "open")
       ELSE RelayGoes(p, "closed") /\ UNCHANGED <<pending, perLabel>>
    /\ UNCHANGED <<ctl, gateways, txt, opens, data>>

(* removePendingLocked.                                                      *)
RemovePending(p) ==
    /\ pending' = pending \ {p}
    /\ perLabel' = IF p \in pending THEN [perLabel EXCEPT ![Wants[p]] = @ - 1] ELSE perLabel

Open(p) ==
    LET g == pub[p].gw
    IN /\ pub[p].pc = "open"
       /\ IF ctl[g].open
          THEN opens' = opens \cup {<<g, p>>} /\ RelayGoes(p, "wait") /\ UNCHANGED <<pending, perLabel>>
          ELSE RelayGoes(p, "closed") /\ RemovePending(p) /\ UNCHANGED opens
       /\ UNCHANGED <<ctl, gateways, txt, data>>

(* The tunnel's openData: dials back with the id; or the dial fails.        *)
OpenData(g, p) ==
    /\ <<g, p>> \in opens
    /\ opens' = opens \ {<<g, p>>}
    /\ \E d \in {"sent", "none"} : data' = [data EXCEPT ![p] = d]
    /\ UNCHANGED <<ctl, gateways, txt, pub, pending, perLabel>>

(* handleData: takes the waiter out under the lock, hands over after it.    *)
DataArrives(p) ==
    /\ data[p] = "sent"
    /\ IF p \in pending
       THEN data' = [data EXCEPT ![p] = "taken"] /\ RemovePending(p)
       ELSE data' = [data EXCEPT ![p] = "closed"] /\ UNCHANGED <<pending, perLabel>>
    /\ UNCHANGED <<ctl, gateways, txt, pub, opens>>

DataHandedOver(p) ==
    /\ data[p] = "taken" /\ data' = [data EXCEPT ![p] = "handed"]
    /\ UNCHANGED <<ctl, gateways, txt, pub, pending, perLabel, opens>>

Splice(p) ==
    /\ pub[p].pc = "wait" /\ data[p] = "handed"
    /\ data' = [data EXCEPT ![p] = "spliced"] /\ RelayGoes(p, "spliced")
    /\ UNCHANGED <<ctl, gateways, txt, pending, perLabel, opens>>

(* dataWait over.  A waiter that is gone already means that a connection    *)
(* comes through the channel, and is closed there.                          *)
(* (Mutated form: the channel is left alone.)                               *)
DataWaitForgets(p) ==
    /\ pub[p].pc = "wait" /\ RemovePending(p) /\ RelayGoes(p, "closed")
    /\ UNCHANGED <<ctl, gateways, txt, opens, data>>
DataWait(p) ==
    /\ pub[p].pc = "wait" /\ RemovePending(p)
    /\ RelayGoes(p, IF p \in pending THEN "closed" ELSE "drain")
    /\ UNCHANGED <<ctl, gateways, txt, opens, data>>

Drain(p) ==
    /\ pub[p].pc = "drain" /\ data[p] = "handed"
    /\ data' = [data EXCEPT ![p] = "closed"] /\ RelayGoes(p, "closed")
    /\ UNCHANGED <<ctl, gateways, txt, pending, perLabel, opens>>

Gateway(g) ==
    \/ Register(g) \/ Confirm(g) \/ SetTXT(g) \/ TunnelCloses(g) \/ ReadFails(g) \/ Deregister(g)
    \/ \E v \in Values : ReadFrame(g, v) \/ ClearTXT(g, v)

Visitor(p) ==
    \/ Route(p) \/ Await(p) \/ Open(p) \/ Splice(p) \/ DataWait(p) \/ Drain(p)
    \/ DataArrives(p) \/ DataHandedOver(p)

RelayNext ==
    \/ \E g \in Controls : Gateway(g) \/ \E p \in Publics : OpenData(g, p)
    \/ \E p \in Publics : Visitor(p)

RelaySpec == RelayInit /\ [][RelayNext]_relayVars

-----------------------------------------------------------------------------
(* A gateway whose control connection is up and confirmed is the one its    *)
(* label routes to, unless its tunnel has just gone: the handler of a       *)
(* connection that was replaced takes nothing down with it.                 *)
Reachable == \A g \in Controls : ctl[g].open /\ ctl[g].pc \in {"ok", "read"} => gateways[LabelOf[g]] = g

(* The waiters are within both limits, and the count of a label is the      *)
(* number of its waiters whichever way each of them left.                   *)
WaitersCounted ==
    /\ Cardinality(pending) <= MaxPending
    /\ \A l \in Labels : perLabel[l] = Cardinality({p \in pending : Wants[p] = l})

(* No data connection is left in a channel that nobody reads, also when it  *)
(* arrives as the wait for it ends; and none is spliced but with the public *)
(* connection it was dialled for.                                           *)
NoneLeftOpen ==
    \A p \in Publics :
        /\ pub[p].pc = "closed" => data[p] \notin {"taken", "handed", "spliced"}
        /\ pub[p].pc = "spliced" => data[p] = "spliced" /\ LabelOf[pub[p].gw] = Wants[p]

RelayHolds == Reachable /\ WaitersCounted /\ NoneLeftOpen

(* Every public connection is spliced or closed in the end: the wait is     *)
(* bounded, and one that finds its waiter taken is handed a connection.     *)
Served(p) == pub[p].pc \in {"spliced", "closed"}

=============================================================================
