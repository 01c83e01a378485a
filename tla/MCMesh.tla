------------------------------- MODULE MCMesh -------------------------------
(* Small instances of presence and control: nearby and air cards, the home  *)
(* screen, fan-out, the control plane and control room, proofs of           *)
(* possession, capability chains, single sign-on groups, consents,          *)
(* federation, the gateway daemon and the edge server. "part" selects one   *)
(* instance; a run of this module checks all that Parts names.              *)
EXTENDS Integers, Sequences, FiniteSets, TLC

CONSTANTS r1, r2, nil, nobody, Parts

VARIABLES part, now, cards, node, due, wire, late, refused, peerAt, moves, snd, lost, airCards,
          posted, recorded, novel, sess, ask, steered, trail, airTold, seen, asks, opened,
          truth, up, denies, poll, screen, prev, last, polls, changes, fails, act, homePeerAt,
          landed, present, live, open, pc, roster, sessions, outcome, req, fanSteered, churn,
          acl, byKey, policies, entries, chain, torn, cursor, fallback, unwritten, minted,
          acted, crashes, auditFails, lostAnswers, pool, made, mu, call, breaks, launches,
          launch, viewers, turned, proof, jtis, nonces, issued, offered, accepted, shows,
          restarts, tok, ran, ids, chains, honest, revoked, spentIds, chainRan, presents,
          pinned, binds, attest, told, shown, inForce, attests, pairs, pairFile, grants,
          grantFile, cli, given, spent, served, reg, man, locks, store, deleted, ledger,
          archives, conn, usage, file, at, cfg, ports, loops, registered, eng, flushes,
          applied, hup, undecided, unsealed, edits, calls, edgeCfg, proc, keyFile, keys, port,
          tokens, edgeLedger, acked, faults, starts

nearbyVars == <<cards, node, due, wire, refused, peerAt, snd>>
airVars == <<airCards, posted, recorded, novel, sess, ask, steered, trail, airTold, asks,
    opened>>
homeVars == <<truth, up, denies, poll, screen, prev, last, polls, changes, act, homePeerAt>>
fanVars == <<present, live, roster, sessions, outcome, fanSteered, churn>>
planeVars == <<byKey, policies, entries, chain, torn, cursor, fallback, unwritten, acted,
    auditFails, lostAnswers>>
roomVars == <<pool, made, mu, breaks, launches, launch, viewers, turned>>
possessVars == <<proof, jtis, nonces, issued, offered, accepted, shows, tok, ran>>
chainVars == <<ids, chains, honest, revoked, spentIds, chainRan, presents>>
ssoVars == <<pinned, binds, attest, told, shown, inForce, attests>>
consentVars == <<pairs, pairFile, grants, grantFile, cli, given, spent, served>>
fedVars == <<reg, man, locks, deleted, archives, conn, usage>>
gatewayVars == <<file, at, cfg, ports, loops, registered, eng, flushes, applied, hup,
    undecided, unsealed, edits, calls>>
edgeVars == <<edgeCfg, proc, keyFile, keys, port, tokens, edgeLedger, acked, faults, starts>>
vars == <<part, nearbyVars, airVars, homeVars, fanVars, planeVars, roomVars, possessVars,
    chainVars, ssoVars, consentVars, fedVars, gatewayVars, edgeVars, now, late, moves, lost,
    seen, fails, landed, open, pc, req, acl, minted, crashes, call, restarts, store, ledger>>

Never == [x \in {} |-> 0]
Lease(n, t, i) == [name |-> n, ttl |-> t, interval |-> i]
Offering(k, q, c) == [kind |-> k, port |-> q, proto |-> "", caps |-> c, addr |-> ""]
Announced == [name |-> "n", status |-> "", labels |-> <<2, 1>>, ttl |-> 1,
              services |-> <<Offering(2, 80, <<>>), Offering(1, 81, <<1>>)>>, activity |-> {}]
SomeAnnouncements ==
    {Announced,
     [Announced EXCEPT !.labels = <<1, 2, 1>>, !.status = "available"],
     [Announced EXCEPT !.services = <<Offering(1, 81, <<1, 1>>), Offering(2, 80, <<>>)>>],
     [Announced EXCEPT !.services = <<Offering(2, 82, <<>>), Offering(1, 81, <<1>>)>>],
     [Announced EXCEPT !.activity = {[id |-> 1, progress |-> 50]}, !.ttl = 9],
     [Announced EXCEPT !.services = <<Offering(2, 80, <<>>), Offering(2, 81, <<>>)>>]}
Asks(k, v, g, t) == [kind |-> k, viewer |-> v, local |-> TRUE, logical |-> g, to |-> t]

(* Constants of Presence, where an instance does not say otherwise.         *)
Node == ("a" :> Lease("x", 2, 1) @@ "b" :> Lease("a", 4, 2) @@ "c" :> Lease("c", 4, 3))
Selector == Never
MinTtl == 2
MaxTtl == 3
MaxCards == 1
MaxTime == 4
MaxMoves == 0
MaxLost == 1
NoOne == nil
Peers == {"a", "b"}
Allow == {"a", "b"}
Relays == {}
Acl == Never
Steerable == {}
Announcements == SomeAnnouncements
Address == [a |-> "a", b |-> "b"]
DefaultTTL == 2
MinTTL == 2
MaxTTL == 3
MaxLabels == 2
MaxServices == 2
MaxAsks == 3
MaxSessions == 0
Order == <<"nearby", "pending">>
Values == {0, 1}
Blank == nil
Window == 1
MaxChanges == 1
MaxFails == 1
MaxPolls == 2
Action == Never
HomeAllow == {"v"}
Card == [n |-> [key |-> "k", addr |-> "x", confirms |-> TRUE], o |-> [key |-> "k", addr |-> "x", confirms |-> FALSE]]
HeldBack == [x |-> "k", y |-> "m"]
Cards == <<"a", "b", "c">>
Patterns == <<{"a", "b"}, {"b"}>>
MaxMembers == 2
SessionOf == [s1 |-> [key |-> "a", backend |-> "x"], s2 |-> [key |-> "b", backend |-> "y"], s3 |-> [key |-> "b", backend |-> "x"]]
Closed == {"x"}
MaxChurn == 2

(* Three nodes renew their cards in a registry of one; a sender selects one *)
(* of two nodes while addresses change hands.                               *)
NA == INSTANCE Presence

NB == INSTANCE Presence WITH
        Node <- ("a" :> Lease("x", 2, 1) @@ "b" :> Lease("a", 4, 2)), MaxCards <- 2,
        Selector <- [s |-> [exact |-> FALSE, text |-> "a"]], MaxTime <- 1, MaxMoves <- 2,
        MaxLost <- 0

(* Announcements that differ in part; steers of sessions, on behalf of      *)
(* another and not.                                                         *)
AA == INSTANCE Presence WITH MaxTime <- 3

AB == INSTANCE Presence WITH
        Relays <- {"b"}, Acl <- [x |-> {"a", "b"}, y |-> {"b"}, z |-> {"a"}],
        Steerable <- {"x", "y"}, Announcements <- {}, MaxTime <- 0, MaxAsks <- 2,
        MaxSessions <- 1

(* The screen over two sources that change and fail; four requests while an *)
(* address changes hands.                                                   *)
HA == INSTANCE Presence WITH MaxTime <- 2

HB == INSTANCE Presence WITH
        Action <- [a |-> Asks("push", "v", TRUE, "n"), b |-> Asks("drop", "w", FALSE, "y"),
         c |-> Asks("ring", "v", TRUE, "n"), d |-> Asks("push", "v", TRUE, "o")],
        MaxChanges <- 0, MaxFails <- 0, MaxPolls <- 0, MaxTime <- 0, MaxMoves <- 2

(* A group of two patterns over three members, of which one may have more   *)
(* than one session.                                                        *)
FO == INSTANCE Presence

Tenants == [t1 |-> [k1 |-> {"admin"}, k2 |-> {"pread", "pwrite"}], t2 |-> [k3 |-> {"admin"}]]
SharedKey == [Tenants EXCEPT !.t2 = [k3 |-> {"admin"}, k1 |-> {"admin"}]]
SharedDir == [t1 |-> Tenants.t1, T1 |-> Tenants.t2]
Req(k, o, b) == [key |-> k, op |-> o, name |-> "n", body |-> b]

(* Constants of Control, where an instance does not say otherwise.          *)
ACLs == {Tenants, SharedKey, SharedDir}
Folded == [t1 |-> "t1", t2 |-> "t2", T1 |-> "t1"]
Request == [a |-> Req("k1", "put", "good"), b |-> Req("k2", "put", "bad"),
         c |-> Req("k3", "enroll", "x"), d |-> Req("k3", "get", "x")]
Valid == {"good"}
Admin == "admin"
MaxCrashes == 1
MaxAuditFails == 1
MaxLostAnswers == 1
RoomRequest == [a |-> [op |-> "call", target |-> "t", admitted |-> TRUE],
         b |-> [op |-> "list", target |-> "t", admitted |-> TRUE],
         d |-> [op |-> "call", target |-> "u", admitted |-> TRUE]]
MaxTargets == 1
Launchers == {}
MaxLaunches == 1
MaxBreaks == 3
Viewers == {}
MaxViewers == 2
presenceTTL == 1
Free == nil

(* Policies put and read by two tenants; enrolments and the registry.       *)
PA == INSTANCE Control

PB == INSTANCE Control WITH
        Request <- [a |-> Req("k1", "register", "good"), b |-> Req("k2", "enroll", "bad"), c |-> Req("k3", "put", "good"),
         d |-> Req("k4", "lookup", "x"), e |-> Req("k1", "enroll", "x")],
        MaxAuditFails <- 0, MaxCrashes <- 2

(* Three calls over a pool of one target whose connections break; two       *)
(* launches of one allowed and three viewers of two.                        *)
RA == INSTANCE Control WITH MaxTime <- 0

RB == INSTANCE Control WITH
        RoomRequest <- Never, Launchers <- {"x", "y"}, MaxBreaks <- 0,
        Viewers <- {"v", "w", "z"}

Subject == [issuer |-> "i", signed |-> TRUE, aud |-> TRUE, nbf |-> 0, exp |-> 3]
Details(as, ds) == [actions |-> as, datatypes |-> ds, locations |-> {"b"}]
Holders == [h |-> [drift |-> 1, subject |-> Subject,
                   details |-> <<Details({"a", "a*"}, {"c*"}), Details({"z*"}, {})>>],
            k |-> [drift |-> -1, subject |-> [Subject EXCEPT !.exp = 2],
                   details |-> <<Details({"a", "z"}, {"c"})>>]]
Globbed == ("a" :> {"a"}) @@ ("z" :> {"z"}) @@ ("a*" :> {"a", "aa"}) @@ ("z*" :> {"z", "zz"})
           @@ ("c" :> {"c"}) @@ ("c*" :> {"c", "cc"}) @@ ("none" :> {})
           @@ ("*" :> {"a", "z", "aa", "zz", "c", "cc"})
OnBehalf(t, l) == [caller |-> "u", router |-> "r", tool |-> t, args |-> 1, life |-> l]
Shows(i, t, x) == [token |-> i, router |-> "r", tool |-> t, args |-> x]
Claim(s, ts, cs, o, n, x, k) ==
    [sub |-> s, aud |-> "b", tools |-> ts, corpora |-> cs, one |-> o, nbf |-> n, exp |-> x, del |-> k]
Ruling(o, n) == [outcome |-> o, rule |-> n]
Token(a, i, k, b, d, n, x, gs) ==
    [alg |-> a, iss |-> i, kid |-> k, by |-> b, aud |-> d, nbf |-> n, exp |-> x, groups |-> gs]

(* Constants of Credentials, where an instance does not say otherwise.      *)
Holder == Holders
MaxAge == 2
Skew == 1
NonceTTL == 2
RequireNonce == FALSE
OrgOf == [i |-> "o"]
Granted == [o |-> [tools |-> {"a", "z*"}, corpora |-> {"c"}]]
Matches == Globbed
Globs == {"a*", "z*", "c*", "*"}
Star == "*"
DenyAll == "none"
Delegated == Never
Shown == Never
Permits == [u |-> {"x"}, r |-> {"x", "y"}]
MaxLife == 2
MaxProofs == 1
MaxShows == 3
MaxRestarts == 1
Roots == {Claim("p", {"a*"}, {"c"}, FALSE, 0, 2, "k")}
Kids == {Claim("q", {"a"}, {"c"}, FALSE, 0, 2, "k"), Claim("q", {"*"}, {"c"}, FALSE, 0, 1, nil),
         Claim("q", {"a"}, {}, FALSE, 0, 1, nil)}
Trusted == {"A"}
NoKey == nil
Tools == {"a", "z"}
Backends == {"b"}
Verdicts == {Ruling("deny", -1)}
Required == FALSE
maxDelegationChain == 3
MaxLifetime == 2
MaxIds == 4
MaxPresents == 1
MaxRevokes == 1
Config == <<[issuer |-> "idp", alg |-> "ES256", keys |-> [k1 |-> "e1", k2 |-> "e2"],
           type |-> [e1 |-> "ES256", e2 |-> "ES256"]],
         [issuer |-> "old", alg |-> "RS256", keys |-> ("" :> "r1"), type |-> [r1 |-> "RS256"]]>>
Audience == "mesh"
Tokens == {Token("ES256", "idp", "k1", "e1", {"mesh"}, 0, 3, {"ops"}),
         Token("ES256", "idp", "", "e2", {"mesh", "x"}, 0, 5, {"ops", "dev"}),
         Token("RS256", "old", "", "r1", {"mesh"}, 2, 9, {"dev"}),
         Token("RS256", "old", "", "r1", {"mesh"}, 0, 0, {"dev"})}
PeerKeys == {"p", "q", ""}
FQDN == [k \in {"p", "q", ""} |-> k]
Static == <<>>
BindTTLMax == 2
MaxBindings == 1
maxOIDCGroupsPerToken == 4
MaxAttests == 2

(* Two holders with clocks that drift; one that must answer a nonce;        *)
(* delegated calls.                                                         *)
PO == INSTANCE Credentials

PN == INSTANCE Credentials WITH
        RequireNonce <- TRUE, MaxProofs <- 2, MaxTime <- 2,
        Holder <- [x \in {"h"} |-> Holders.h]

PD == INSTANCE Credentials WITH
        Delegated <- [d |-> OnBehalf("x", 0), e |-> OnBehalf("y", 1)],
        Shown <- [p |-> Shows("d", "x", 1), q |-> Shows("d", "x", 2), s |-> Shows("e", "y", 1)],
        Holder <- Never

(* Chains of delegated capabilities; one-use capabilities whose calls       *)
(* overlap.                                                                 *)
CA == INSTANCE Credentials WITH Peers <- {"q"}, MaxTime <- 1

CB == INSTANCE Credentials WITH
        Roots <- {Claim("p", {"a"}, {}, TRUE, 0, 2, nil), Claim("p", {"a"}, {}, TRUE, 1, 3, nil)},
        Peers <- {"p"}, Tools <- {"a"},
        Verdicts <- {Ruling("deny", -1), Ruling("allow", 0), Ruling("deny", 1), Ruling("cosign", 1)},
        MaxIds <- 1, MaxTime <- 3, MaxPresents <- 3

(* Two issuers, a table of one binding and tokens of both.                  *)
SG == INSTANCE Credentials

(* Constants of Trust, where an instance does not say otherwise.            *)
Corpora == {"c"}
Wide == "w"
Requests == <<[peer |-> "p", corpus |-> "c"]>>
MaxPending == 1
MaxDenied == 1
MaxOnce == 1
Lost == nil
Registering == {r1, r2}
Managing == <<[op |-> "put", internal |-> FALSE], [op |-> "delete", internal |-> FALSE]>>
MaxClients == 1
Peer == "o"
Grant == [o |-> {"t"}]
Upstream == {}
MaxCrossings == 2
MaxRotations == 2
Provisioned == nil
Nobody == nobody

(* Two peers with failing saves and restarts; a device that is revoked      *)
(* meanwhile; two requests that one grant may tip.                          *)
CO == INSTANCE Trust WITH Peers <- {"p", "q"}

CR == INSTANCE Trust WITH MaxRestarts <- 0, Peers <- {"p"}, MaxFails <- 0, Lost <- "p"

CT == INSTANCE Trust WITH
        Requests <- <<[peer |-> "p", corpus |-> "c"], [peer |-> "p", corpus |-> "c"]>>,
        Peers <- {"p"}

(* Two registrations of one allowed while a client is managed; requests for *)
(* the provisioned client; crossings over rotations, of a known             *)
(* organisation and of none.                                                *)
FR == INSTANCE Trust

FM == INSTANCE Trust WITH
        Registering <- {r1},
        Managing <- <<[op |-> "get", internal |-> TRUE], [op |-> "delete", internal |-> TRUE]>>

FX == INSTANCE Trust WITH Registering <- {}, Managing <- Never, Upstream <- {"t", "u"}

FS == INSTANCE Trust WITH Registering <- {}, Managing <- Never, Peer <- "x", Upstream <- {"t"}

Stdio == [name |-> "a", port |-> 1, kind |-> "stdio", allow |-> {}, policy |-> "none", caps |-> "none",
          resumable |-> FALSE, store |-> "none", mode |-> "", failover |-> "", sweep |-> 0, move |-> 0,
          grants |-> FALSE, has |-> {}, ok |-> TRUE]
Mover == [Stdio EXCEPT !.resumable = TRUE, !.store = "file", !.move = 3, !.grants = TRUE, !.policy = "allow"]
Web == [Stdio EXCEPT !.name = "b", !.port = 2, !.kind = "http", !.caps = "required"]
Serving(bs, q, ps, h) ==
    [backends |-> bs, control |-> [port |-> q, allow |-> ps], shared |-> h, oidc |-> FALSE]
Versions ==
    <<Serving(<<Mover, Web>>, 4, {"p"}, FALSE),
      Serving(<<[Stdio EXCEPT !.allow = {"p"}, !.policy = "deny"], [Web EXCEPT !.allow = {"q"}]>>,
              0, {}, TRUE),
      Serving(<<[Stdio EXCEPT !.policy = "deny", !.ok = FALSE], Web>>, 4, {"p"}, FALSE),
      Serving(<<Mover, [Web EXCEPT !.port = 3, !.caps = "none"]>>, 4, {"p"}, FALSE),
      Serving(<<[Stdio EXCEPT !.allow = {"q"}], [Web EXCEPT !.caps = "none"]>>, 0, {}, FALSE)>>
EdgeBase == [listen |-> "public", beacon |-> "none", behind |-> FALSE, files |-> "both", acme |-> "none",
             mode |-> "", iats |-> 0, access |-> 0, refresh |-> 0, defaultAllow |-> FALSE, autogen |-> TRUE]
WaysIn == [listen : {"none", "loopback", "public"}, beacon : {"none", "bare", "auto", "autoNoMail"},
           behind : BOOLEAN, files : {"none", "one", "both"}, acme : {"none", "covers", "other"},
           mode : {""}, iats : {0}, access : {0}, refresh : {0}, defaultAllow : {FALSE}, autogen : {TRUE}]
Lifetimes == [listen : {"public"}, beacon : {"none"}, behind : {FALSE}, files : {"both"}, acme : {"none"},
              mode : {"", "token", "other"}, iats : {0, 1}, access : 0..3, refresh : 0..3,
              defaultAllow : BOOLEAN, autogen : BOOLEAN]

(* Constants of Daemons, where an instance does not say otherwise.          *)
First == 1
MaxEdits == 2
MaxCalls == 2
Taken == {}
Procs == {"p"}
Configs == WaysIn \cup Lifetimes
MaxKeys == 1
MaxTokens == 0
MaxRecords == 0
MaxRequests == 1
MaxFaults == 1
MaxStarts == 2

(* A configuration that is edited to others, some of which do not load.     *)
GW == INSTANCE Daemons WITH Config <- Versions, Peers <- {"p"}

(* Every way in; keys, records and crashes; two processes on one directory. *)
EA == INSTANCE Daemons WITH MaxTTL <- 2, DefaultTTL <- [access |-> 1, refresh |-> 3]

EB == INSTANCE Daemons WITH
        MaxTTL <- 2, DefaultTTL <- [access |-> 1, refresh |-> 3],
        Configs <- {EdgeBase, [EdgeBase EXCEPT !.files = "none", !.beacon = "auto"]},
        MaxKeys <- 2, MaxTokens <- 2, MaxRecords <- 2, MaxRequests <- 2, MaxFaults <- 2,
        MaxStarts <- 3

EC == INSTANCE Daemons WITH
        Procs <- {"p", "q"}, MaxTTL <- 2, DefaultTTL <- [access |-> 1, refresh |-> 3],
        Configs <- {EdgeBase}, MaxKeys <- 2, MaxFaults <- 0, MaxStarts <- 3

(* A component that a part does not run has no state there.                 *)
nearbyIdle ==
    /\ cards = 0 /\ node = 0 /\ due = 0 /\ wire = 0 /\ refused = 0 /\ peerAt = 0
    /\ snd = 0
airIdle ==
    /\ airCards = 0 /\ posted = 0 /\ recorded = 0 /\ novel = 0 /\ sess = 0 /\ ask = 0
    /\ steered = 0 /\ trail = 0 /\ airTold = 0 /\ asks = 0 /\ opened = 0
homeIdle ==
    /\ truth = 0 /\ up = 0 /\ denies = 0 /\ poll = 0 /\ screen = 0 /\ prev = 0
    /\ last = 0 /\ polls = 0 /\ changes = 0 /\ act = 0 /\ homePeerAt = 0
fanIdle ==
    /\ present = 0 /\ live = 0 /\ roster = 0 /\ sessions = 0 /\ outcome = 0
    /\ fanSteered = 0 /\ churn = 0
planeIdle ==
    /\ byKey = 0 /\ policies = 0 /\ entries = 0 /\ chain = 0 /\ torn = 0 /\ cursor = 0
    /\ fallback = 0 /\ unwritten = 0 /\ acted = 0 /\ auditFails = 0 /\ lostAnswers = 0
roomIdle ==
    /\ pool = 0 /\ made = 0 /\ mu = 0 /\ breaks = 0 /\ launches = 0 /\ launch = 0
    /\ viewers = 0 /\ turned = 0
possessIdle ==
    /\ proof = 0 /\ jtis = 0 /\ nonces = 0 /\ issued = 0 /\ offered = 0
    /\ accepted = 0 /\ shows = 0 /\ tok = 0 /\ ran = 0
chainIdle ==
    /\ ids = 0 /\ chains = 0 /\ honest = 0 /\ revoked = 0 /\ spentIds = 0
    /\ chainRan = 0 /\ presents = 0
ssoIdle ==
    /\ pinned = 0 /\ binds = 0 /\ attest = 0 /\ told = 0 /\ shown = 0 /\ inForce = 0
    /\ attests = 0
consentIdle ==
    /\ pairs = 0 /\ pairFile = 0 /\ grants = 0 /\ grantFile = 0 /\ cli = 0
    /\ given = 0 /\ spent = 0 /\ served = 0
fedIdle ==
    /\ reg = 0 /\ man = 0 /\ locks = 0 /\ deleted = 0 /\ archives = 0 /\ conn = 0
    /\ usage = 0
gatewayIdle ==
    /\ file = 0 /\ at = 0 /\ cfg = 0 /\ ports = 0 /\ loops = 0 /\ registered = 0
    /\ eng = 0 /\ flushes = 0 /\ applied = 0 /\ hup = 0 /\ undecided = 0 /\ unsealed = 0
    /\ edits = 0 /\ calls = 0
edgeIdle ==
    /\ edgeCfg = 0 /\ proc = 0 /\ keyFile = 0 /\ keys = 0 /\ port = 0 /\ tokens = 0
    /\ edgeLedger = 0 /\ acked = 0 /\ faults = 0 /\ starts = 0

Init ==
    /\ part \in Parts
    /\ CASE part = "nearby" -> NA!NearbyInit [] part = "select" -> NB!NearbyInit
         [] OTHER -> nearbyIdle
    /\ CASE part = "cards" -> AA!AirInit [] part = "steer" -> AB!AirInit [] OTHER -> airIdle
    /\ CASE part = "watch" -> HA!HomeInit [] part = "page" -> HB!HomeInit [] OTHER -> homeIdle
    /\ CASE part = "fanout" -> FO!FanInit [] OTHER -> fanIdle
    /\ CASE part = "put" -> PA!PlaneInit [] part = "enroll" -> PB!PlaneInit
         [] OTHER -> planeIdle
    /\ CASE part = "pool" -> RA!RoomInit [] part = "viewers" -> RB!RoomInit
         [] OTHER -> roomIdle
    /\ CASE part = "proof" -> PO!ProofInit [] part = "nonce" -> PN!ProofInit
         [] part = "behalf" -> PD!ProofInit [] OTHER -> possessIdle
    /\ CASE part = "chain" -> CA!ChainInit [] part = "oneuse" -> CB!ChainInit
         [] OTHER -> chainIdle
    /\ CASE part = "sso" -> SG!SsoInit [] OTHER -> ssoIdle
    /\ CASE part = "consent" -> CO!ConsentInit [] part = "revoke" -> CR!ConsentInit
         [] part = "tipped" -> CT!ConsentInit [] OTHER -> consentIdle
    /\ CASE part = "register" -> FR!FedInit [] part = "manage" -> FM!FedInit
         [] part = "cross" -> FX!FedInit [] part = "stranger" -> FS!FedInit [] OTHER -> fedIdle
    /\ CASE part = "gateway" -> GW!GatewayInit [] OTHER -> gatewayIdle
    /\ CASE part = "ways" -> EA!EdgeInit [] part = "edge" -> EB!EdgeInit
         [] part = "shared" -> EC!EdgeInit [] OTHER -> edgeIdle
    /\ part \notin {"nearby", "select", "cards", "steer", "watch", "page", "pool", "viewers",
         "proof", "nonce", "behalf", "chain", "oneuse", "sso"} =>
         /\ now = 0
    /\ part \notin {"nearby", "select", "ways", "edge", "shared"} =>
         /\ late = 0
    /\ part \notin {"nearby", "select", "watch", "page"} =>
         /\ moves = 0
    /\ part \notin {"nearby", "select", "fanout"} =>
         /\ lost = 0
    /\ part \notin {"cards", "steer", "proof", "nonce", "behalf"} =>
         /\ seen = 0
    /\ part \notin {"watch", "page", "consent", "revoke", "tipped"} =>
         /\ fails = 0
    /\ part \notin {"watch", "page", "register", "manage", "cross", "stranger"} =>
         /\ landed = 0
    /\ part \notin {"fanout", "pool", "viewers", "gateway"} =>
         /\ open = 0
    /\ part \notin {"fanout", "gateway"} =>
         /\ pc = 0
    /\ part \notin {"fanout", "put", "enroll", "proof", "nonce", "behalf"} =>
         /\ req = 0
    /\ part \notin {"put", "enroll", "gateway"} =>
         /\ acl = 0
    /\ part \notin {"put", "enroll", "proof", "nonce", "behalf"} =>
         /\ minted = 0
    /\ part \notin {"put", "enroll", "register", "manage", "cross", "stranger"} =>
         /\ crashes = 0
    /\ part \notin {"pool", "viewers", "chain", "oneuse", "consent", "revoke", "tipped"} =>
         /\ call = 0
    /\ part \notin {"proof", "nonce", "behalf", "consent", "revoke", "tipped"} =>
         /\ restarts = 0
    /\ part \notin {"register", "manage", "cross", "stranger", "ways", "edge", "shared"} =>
         /\ store = 0
    /\ part \notin {"register", "manage", "cross", "stranger", "gateway"} =>
         /\ ledger = 0

Next ==
    \/ /\ UNCHANGED <<part, airVars, homeVars, fanVars, planeVars, roomVars, possessVars,
                     chainVars, ssoVars, consentVars, fedVars, gatewayVars, edgeVars, seen,
                     fails, landed, open, pc, req, acl, minted, crashes, call, restarts, store,
                     ledger>>
       /\ \/ part = "nearby" /\ NA!NearbyNext
          \/ part = "select" /\ NB!NearbyNext
    \/ /\ UNCHANGED <<part, nearbyVars, homeVars, fanVars, planeVars, roomVars, possessVars,
                     chainVars, ssoVars, consentVars, fedVars, gatewayVars, edgeVars, late,
                     moves, lost, fails, landed, open, pc, req, acl, minted, crashes, call,
                     restarts, store, ledger>>
       /\ \/ part = "cards" /\ AA!AirNext
          \/ part = "steer" /\ AB!AirNext
    \/ /\ UNCHANGED <<part, nearbyVars, airVars, fanVars, planeVars, roomVars, possessVars,
                     chainVars, ssoVars, consentVars, fedVars, gatewayVars, edgeVars, late,
                     lost, seen, open, pc, req, acl, minted, crashes, call, restarts, store,
                     ledger>>
       /\ \/ part = "watch" /\ HA!HomeNext
          \/ part = "page" /\ HB!HomeNext
    \/ /\ UNCHANGED <<part, nearbyVars, airVars, homeVars, planeVars, roomVars, possessVars,
                     chainVars, ssoVars, consentVars, fedVars, gatewayVars, edgeVars, now,
                     late, moves, seen, fails, landed, acl, minted, crashes, call, restarts,
                     store, ledger>>
       /\ part = "fanout" /\ FO!FanNext
    \/ /\ UNCHANGED <<part, nearbyVars, airVars, homeVars, fanVars, roomVars, possessVars,
                     chainVars, ssoVars, consentVars, fedVars, gatewayVars, edgeVars, now,
                     late, moves, lost, seen, fails, landed, open, pc, call, restarts, store,
                     ledger>>
       /\ \/ part = "put" /\ PA!PlaneNext
          \/ part = "enroll" /\ PB!PlaneNext
    \/ /\ UNCHANGED <<part, nearbyVars, airVars, homeVars, fanVars, planeVars, possessVars,
                     chainVars, ssoVars, consentVars, fedVars, gatewayVars, edgeVars, late,
                     moves, lost, seen, fails, landed, pc, req, acl, minted, crashes, restarts,
                     store, ledger>>
       /\ \/ part = "pool" /\ RA!RoomNext
          \/ part = "viewers" /\ RB!RoomNext
    \/ /\ UNCHANGED <<part, nearbyVars, airVars, homeVars, fanVars, planeVars, roomVars,
                     chainVars, ssoVars, consentVars, fedVars, gatewayVars, edgeVars, late,
                     moves, lost, fails, landed, open, pc, acl, crashes, call, store, ledger>>
       /\ \/ part = "proof" /\ PO!ProofNext
          \/ part = "nonce" /\ PN!ProofNext
          \/ part = "behalf" /\ PD!ProofNext
    \/ /\ UNCHANGED <<part, nearbyVars, airVars, homeVars, fanVars, planeVars, roomVars,
                     possessVars, ssoVars, consentVars, fedVars, gatewayVars, edgeVars, late,
                     moves, lost, seen, fails, landed, open, pc, req, acl, minted, crashes,
                     restarts, store, ledger>>
       /\ \/ part = "chain" /\ CA!ChainNext
          \/ part = "oneuse" /\ CB!ChainNext
    \/ /\ UNCHANGED <<part, nearbyVars, airVars, homeVars, fanVars, planeVars, roomVars,
                     possessVars, chainVars, consentVars, fedVars, gatewayVars, edgeVars, late,
                     moves, lost, seen, fails, landed, open, pc, req, acl, minted, crashes,
                     call, restarts, store, ledger>>
       /\ part = "sso" /\ SG!SsoNext
    \/ /\ UNCHANGED <<part, nearbyVars, airVars, homeVars, fanVars, planeVars, roomVars,
                     possessVars, chainVars, ssoVars, fedVars, gatewayVars, edgeVars, now,
                     late, moves, lost, seen, landed, open, pc, req, acl, minted, crashes,
                     store, ledger>>
       /\ \/ part = "consent" /\ CO!ConsentNext
          \/ part = "revoke" /\ CR!ConsentNext
          \/ part = "tipped" /\ CT!ConsentNext
    \/ /\ UNCHANGED <<part, nearbyVars, airVars, homeVars, fanVars, planeVars, roomVars,
                     possessVars, chainVars, ssoVars, consentVars, gatewayVars, edgeVars, now,
                     late, moves, lost, seen, fails, open, pc, req, acl, minted, call,
                     restarts>>
       /\ \/ part = "register" /\ FR!FedNext
          \/ part = "manage" /\ FM!FedNext
          \/ part = "cross" /\ FX!FedNext
          \/ part = "stranger" /\ FS!FedNext
    \/ /\ UNCHANGED <<part, nearbyVars, airVars, homeVars, fanVars, planeVars, roomVars,
                     possessVars, chainVars, ssoVars, consentVars, fedVars, edgeVars, now,
                     late, moves, lost, seen, fails, landed, req, minted, crashes, call,
                     restarts, store>>
       /\ part = "gateway" /\ GW!GatewayNext
    \/ /\ UNCHANGED <<part, nearbyVars, airVars, homeVars, fanVars, planeVars, roomVars,
                     possessVars, chainVars, ssoVars, consentVars, fedVars, gatewayVars, now,
                     moves, lost, seen, fails, landed, open, pc, req, acl, minted, crashes,
                     call, restarts, ledger>>
       /\ \/ part = "ways" /\ EA!EdgeNext
          \/ part = "edge" /\ EB!EdgeNext
          \/ part = "shared" /\ EC!EdgeNext

Spec == Init /\ [][Next]_vars

-----------------------------------------------------------------------------
(* A node that renews in time stays listed, a registry is full only of the  *)
(* living, and what is sent goes to the node selected (Registry, air send); *)
(* changes are recorded and a steer stays within its caller's backends      *)
(* (control endpoints); the screen shows what the last poll gathered        *)
(* (Home); a fan-out reports what happened to each member (cmdFanout).      *)
PresenceHolds ==
    /\ part = "nearby" => NA!TypeOK /\ NA!NearbyHolds
    /\ part = "select" => NB!TypeOK /\ NB!NearbyHolds
    /\ part = "cards" => AA!ControlHolds
    /\ part = "steer" => AB!ControlHolds
    /\ part = "watch" => HA!HomeHolds
    /\ part = "page" => HB!HomeHolds
    /\ part = "fanout" => FO!FanoutHolds

(* A nonce is spent once, a proof, a delegated token and a one-use          *)
(* capability once until they expire (a request that stalls past the expiry *)
(* is the exception), what is minted stays within what was granted, chains  *)
(* only narrow and honest ones verify (dpop, Capability); a group is in     *)
(* force only for whom a token was shown (SSO); stored consents match       *)
(* memory and a once-grant is spent once (GrantStore); a client quota holds *)
(* and deleted clients stay deleted (DCR), crossings are metered (Meter).   *)
CredentialsHold ==
    /\ part = "proof" => PO!PossessionHolds
    /\ part = "nonce" => PN!PossessionHolds
    /\ part = "behalf" => PD!PossessionHolds
    /\ part = "chain" => CA!CapabilityHolds
    /\ part = "oneuse" => CB!CapabilityHolds
    /\ part = "sso" => SG!SsoHolds
    /\ part = "consent" => CO!ConsentsHold
    /\ part = "revoke" => CR!ConsentsHold
    /\ part = "tipped" => CT!ConsentsHold
    /\ part = "register" => FR!FederationHolds
    /\ part = "manage" => FM!FederationHolds
    /\ part = "cross" => FX!FederationHolds
    /\ part = "stranger" => FS!FederationHolds


(* A name selects a node only when no key matches (resolve), and every      *)
(* member a fan-out steers is one its caller's backends admit at that       *)
(* moment (handleSteer).                                                    *)
MeshSteps ==
    [][/\ part = "nearby" => NA!KeyFirstStep
       /\ part = "select" => NB!KeyFirstStep
       /\ part = "fanout" => FO!GovernedStep]_vars
=============================================================================
