------------------------------- MODULE Trust --------------------------------
(***************************************************************************)
(* Who was let in: pairings and grants given by the user of a node, and    *)
(* clients and crossings between organisations. Each part is a             *)
(* specification of its own, with its own initial state and next-state     *)
(* relation; a behaviour is a behaviour of one of them.                    *)
(***************************************************************************)
EXTENDS Integers, FiniteSets, SequencesExt, FiniteSetsExt

-----------------------------------------------------------------------------
(* What an operator consents to, and how it is spent: the paired store      *)
(* (air/pairing.go), the grant store (air/grant.go), the bridge that folds  *)
(* grants into a knowledge request (cmd/meshmcp/airkggrant.go), and the     *)
(* revoke-device command (cmd/meshmcp/revokedevice.go), which opens the     *)
(* same two files from a process of its own.  A store is a memory image     *)
(* under a mutex that every mutation writes to its file, by a temporary     *)
(* file and a rename; so each method is one step.                           *)
CONSTANTS
    Peers,           \* public keys
    Corpora,         \* corpora; also the scopes a request can ask for
    Wide,            \* a scope that covers every corpus
    Requests,        \* request -> [peer, corpus]
    MaxPending,      \* DefaultPendingMax and DefaultGrantPendingMax
    MaxDenied,       \* maxDeniedRemembered
    MaxFails, MaxOnce, MaxRestarts,
    Lost             \* the peer revoke-device is run for, or a value that is no peer

VARIABLES
    pairs, pairFile,     \* PairedStore: [pending, paired, denied], and its file
    grants, grantFile,   \* GrantStore: [scope, asks], and its file
    call,                \* each request: [pc, base, all]
    cli,                 \* revoke-device: [pc, pairs, grants]
    given, spent,        \* once-grants written and consumed, by peer
    served,              \* requests a once-grant tipped, by peer
    fails, restarts

consentVars == <<pairs, pairFile, grants, grantFile, call, cli, given, spent, served, fails, restarts>>

Scopes == Corpora \cup {Wide}
Keys == Peers \X Scopes
Covers(s, c) == s \in {Wide, c}
ConsentAllowed(scopes, c) == \E s \in scopes : Covers(s, c)
NoPairs == [pending |-> {}, paired |-> {}, denied |-> <<>>]
NoGrants == [scope |-> [k \in Keys |-> "none"], asks |-> {}]
Granted(g) == {k \in Keys : g.scope[k] # "none"}

ConsentInit ==
    /\ pairs = NoPairs /\ pairFile = NoPairs
    /\ grants = NoGrants /\ grantFile = NoGrants
    /\ call = [r \in DOMAIN Requests |-> [pc |-> "new", base |-> {}, all |-> {}]]
    /\ cli = [pc |-> IF Lost \in Peers THEN "pair" ELSE "off", pairs |-> NoPairs, grants |-> NoGrants]
    /\ given = [p \in Peers |-> 0] /\ spent = given /\ served = given
    /\ fails = 0 /\ restarts = 0

-----------------------------------------------------------------------------
(* persistLocked of either store and what the mutator does around it: the   *)
(* new image in memory and in the file; or an error, the file as it was and *)
(* the memory rolled back.                                                   *)
PersistPairs(new, rolled) ==
    \/ pairs' = new /\ pairFile' = new /\ UNCHANGED fails
    \/ fails < MaxFails /\ fails' = fails + 1 /\ pairs' = rolled /\ UNCHANGED pairFile

PersistGrants(new) ==
    \/ grants' = new /\ grantFile' = new /\ UNCHANGED fails
    \/ fails < MaxFails /\ fails' = fails + 1 /\ UNCHANGED <<grants, grantFile>>

(* OpenPairedStore and OpenGrantStore: an approval supersedes a pending     *)
(* entry, either supersedes a denial, a grant supersedes an ask.            *)
LoadPairs(f) ==
    LET pend == f.pending \ f.paired
    IN [pending |-> pend, paired |-> f.paired,
        denied |-> SelectSeq(f.denied, LAMBDA p : p \notin pend \cup f.paired)]
LoadGrants(f) == [f EXCEPT !.asks = @ \ Granted(f)]

-----------------------------------------------------------------------------
(* PairedStore.Request: recognized and pending peers are left alone; a full *)
(* queue is an error; a fresh request supersedes a denial.                  *)
PairRequest(p) ==
    /\ p \notin pairs.paired \cup pairs.pending
    /\ Cardinality(pairs.pending) < MaxPending
    /\ PersistPairs([pairs EXCEPT !.pending = @ \cup {p}, !.denied = SelectSeq(@, LAMBDA q : q # p)], pairs)
    /\ UNCHANGED <<grants, grantFile, call, cli, given, spent, served, restarts>>

(* PairedStore.Approve: only what is pending.                               *)
Approve(p) ==
    /\ p \in pairs.pending
    /\ PersistPairs([pairs EXCEPT !.paired = @ \cup {p}, !.pending = @ \ {p}], pairs)
    /\ UNCHANGED <<grants, grantFile, call, cli, given, spent, served, restarts>>

(* PairedStore.Deny: the oldest denials beyond the cap are dropped, and a   *)
(* failed write does not bring those back.                                   *)
Evicted(denied) == SubSeq(denied, Len(denied) - MaxDenied + 1, Len(denied))
DenyIn(s, p) ==
    LET d == Append(s.denied, p)
    IN [s EXCEPT !.pending = @ \ {p}, !.denied = IF Len(d) > MaxDenied THEN Evicted(d) ELSE d]
Deny(p) ==
    /\ p \in pairs.pending
    /\ PersistPairs(DenyIn(pairs, p),
                    [pairs EXCEPT !.denied = SelectSeq(DenyIn(pairs, p).denied, LAMBDA q : q # p)])
    /\ UNCHANGED <<grants, grantFile, call, cli, given, spent, served, restarts>>

(* PairedStore.Revoke.                                                       *)
Revoke(p) ==
    /\ p \in pairs.paired
    /\ PersistPairs([pairs EXCEPT !.paired = @ \ {p}], pairs)
    /\ UNCHANGED <<grants, grantFile, call, cli, given, spent, served, restarts>>

-----------------------------------------------------------------------------
(* GrantStore.Add, for a persistent or a single-use grant, by the operator's *)
(* handler: it replaces a grant for the same scope and resolves the ask.    *)
Add(k, kind) ==
    /\ kind = "once" => given[k[1]] < MaxOnce
    /\ PersistGrants([scope |-> [grants.scope EXCEPT ![k] = kind], asks |-> grants.asks \ {k}])
    /\ given' = IF kind = "once" /\ fails' = fails THEN [given EXCEPT ![k[1]] = @ + 1] ELSE given
    /\ UNCHANGED <<pairs, pairFile, call, cli, spent, served, restarts>>

(* GrantStore.Remove and GrantStore.DropOpportunity.                        *)
RemoveGrant(k) ==
    /\ k \in Granted(grants)
    /\ PersistGrants([grants EXCEPT !.scope[k] = "none"])
    /\ UNCHANGED <<pairs, pairFile, call, cli, given, spent, served, restarts>>
DropOpportunity(k) ==
    /\ k \in grants.asks
    /\ PersistGrants([grants EXCEPT !.asks = @ \ {k}])
    /\ UNCHANGED <<pairs, pairFile, call, cli, given, spent, served, restarts>>

-----------------------------------------------------------------------------
(* corporaForRequest: ScopesFor is a snapshot; the request is then allowed  *)
(* by what stands, tipped by a single-use grant, or denied.                 *)
Goes(r, pc) == call' = [call EXCEPT ![r].pc = pc]
Resolve(r) ==
    LET q == Requests[r]
        held(kind) == {s \in Scopes : grants.scope[<<q.peer, s>>] = kind}
        base == held("always")
        all == base \cup held("once")
    IN /\ call[r].pc = "new"
       /\ call' = [call EXCEPT ![r] =
             [pc |-> IF ConsentAllowed(base, q.corpus) THEN "done"
                     ELSE IF ConsentAllowed(all, q.corpus) THEN "consume" ELSE "recognize",
              base |-> base, all |-> all]]
       /\ UNCHANGED <<pairs, pairFile, grants, grantFile, cli, given, spent, served, fails, restarts>>

(* GrantStore.ConsumeOnceMatching: one matching single-use grant that is    *)
(* still there, if any.  The bridge notes its error or its failure to find  *)
(* one nowhere: the request goes on with the snapshot.                      *)
(* (Mutated form: the grant is taken out of the memory alone.)              *)
Matching(r) == {s \in Scopes : grants.scope[<<Requests[r].peer, s>>] = "once" /\ Covers(s, Requests[r].corpus)}
ConsumeOnceInMemory(r, p) ==
    /\ \/ \E s \in Matching(r) :
             /\ grants' = [grants EXCEPT !.scope[<<p, s>>] = "none"]
             /\ spent' = [spent EXCEPT ![p] = @ + 1] /\ UNCHANGED <<grantFile, fails>>
       \/ Matching(r) = {} /\ UNCHANGED <<grants, grantFile, fails, spent>>
ConsumeOnceMatching(r, p) ==
    \/ /\ Matching(r) # {}
       /\ \E s \in Matching(r) :
             /\ Cardinality(Matching(r)) = 2 => s = Wide
             /\ PersistGrants([grants EXCEPT !.scope[<<p, s>>] = "none"])
             /\ spent' = IF fails' = fails THEN [spent EXCEPT ![p] = @ + 1] ELSE spent
    \/ Matching(r) = {} /\ UNCHANGED <<grants, grantFile, fails, spent>>
Consume(r) ==
    LET p == Requests[r].peer IN
    /\ call[r].pc = "consume"
    /\ ConsumeOnceMatching(r, p)
    /\ Goes(r, "done") /\ served' = [served EXCEPT ![p] = @ + 1]
    /\ UNCHANGED <<pairs, pairFile, cli, given, restarts>>

(* A denied request of a recognized peer becomes an ask; Record looks again *)
(* whether the scope was granted meanwhile.                                  *)
Recognize(r) ==
    /\ call[r].pc = "recognize"
    /\ Goes(r, IF Requests[r].peer \in pairs.paired THEN "record" ELSE "denied")
    /\ UNCHANGED <<pairs, pairFile, grants, grantFile, cli, given, spent, served, fails, restarts>>
Records(k) == k \notin Granted(grants) \cup grants.asks /\ Cardinality(grants.asks) < MaxPending
Record(r) ==
    LET k == <<Requests[r].peer, Requests[r].corpus>> IN
    /\ call[r].pc = "record" /\ Goes(r, "denied")
    /\ IF Records(k) THEN PersistGrants([grants EXCEPT !.asks = @ \cup {k}])
       ELSE UNCHANGED <<grants, grantFile, fails>>
    /\ UNCHANGED <<pairs, pairFile, cli, given, spent, served, restarts>>

-----------------------------------------------------------------------------
(* revoke-device: the pairing is opened, changed and written; then each     *)
(* grant store is opened and written once for every grant of the identity   *)
(* and every ask.  The rows it prints are "done" when nothing failed.       *)
CliOpensPairs ==
    /\ cli.pc = "pair" /\ cli' = [cli EXCEPT !.pc = "revoke", !.pairs = LoadPairs(pairFile)]
    /\ UNCHANGED <<pairs, pairFile, grants, grantFile, call, given, spent, served, fails, restarts>>
CliRevokes ==
    LET s == cli.pairs IN
    /\ cli.pc = "revoke"
    /\ pairFile' = IF Lost \in s.paired THEN [s EXCEPT !.paired = @ \ {Lost}]
                   ELSE IF Lost \in s.pending THEN DenyIn(s, Lost) ELSE pairFile
    /\ cli' = [cli EXCEPT !.pc = "grant"]
    /\ UNCHANGED <<pairs, grants, grantFile, call, given, spent, served, fails, restarts>>
CliOpensGrants ==
    /\ cli.pc = "grant" /\ cli' = [cli EXCEPT !.pc = "remove", !.grants = LoadGrants(grantFile)]
    /\ UNCHANGED <<pairs, pairFile, grants, grantFile, call, given, spent, served, fails, restarts>>
CliRemoves ==
    LET g == cli.grants
        kept == [g EXCEPT !.scope = [k \in Keys |-> IF k[1] = Lost THEN "none" ELSE g.scope[k]],
                          !.asks = {k \in g.asks : k[1] # Lost}]
    IN /\ cli.pc = "remove"
       /\ grantFile' = IF kept = g THEN grantFile ELSE kept
       /\ cli' = [cli EXCEPT !.pc = "done"]
       /\ UNCHANGED <<pairs, pairFile, grants, call, given, spent, served, fails, restarts>>

(* The serving process starts again from the two files; a request that was  *)
(* being answered is gone.                                                   *)
Restart ==
    /\ restarts < MaxRestarts /\ restarts' = restarts + 1
    /\ pairs' = LoadPairs(pairFile) /\ grants' = LoadGrants(grantFile)
    /\ call' = [r \in DOMAIN Requests |-> IF call[r].pc \in {"consume", "recognize", "record"}
                                          THEN [call[r] EXCEPT !.pc = "denied"] ELSE call[r]]
    /\ UNCHANGED <<pairFile, grantFile, cli, given, spent, served, fails>>

(* The routes of the control endpoint; the three after the request are for  *)
(* operators, as are those of the grants.                                   *)
pairMutation(p) == Approve(p) \/ Deny(p) \/ Revoke(p)
pairControlHandler(p) == PairRequest(p) \/ pairMutation(p)
grantMutation(k) == Add(k, "once") \/ Add(k, "always") \/ RemoveGrant(k) \/ DropOpportunity(k)

ConsentNext ==
    \/ \E p \in Peers : pairControlHandler(p)
    \/ \E k \in Keys : grantMutation(k)
    \/ \E r \in DOMAIN Requests : Resolve(r) \/ Consume(r) \/ Recognize(r) \/ Record(r)
    \/ CliOpensPairs \/ CliRevokes \/ CliOpensGrants \/ CliRemoves
    \/ Restart

Spec == ConsentInit /\ [][ConsentNext]_consentVars

-----------------------------------------------------------------------------
(* What the stores hold: a peer is in one of the three sets, and what is    *)
(* granted is not asked for, whatever is decided while a denied request is  *)
(* on its way to becoming an ask; the queues keep their bounds.             *)
Disjoint ==
    /\ pairs.pending \cap pairs.paired = {}
    /\ \A i \in DOMAIN pairs.denied : pairs.denied[i] \notin pairs.pending \cup pairs.paired
    /\ Len(pairs.denied) <= MaxDenied /\ Cardinality(pairs.pending) <= MaxPending
    /\ grants.asks \cap Granted(grants) = {} /\ Cardinality(grants.asks) <= MaxPending

(* While no other process writes them, the files say what the memory says:  *)
(* a mutation that failed is undone, so what an operator was told is what a *)
(* restart brings back.  Only a denial evicted by a mutation that failed    *)
(* may be in the file alone.                                                 *)
FilesMatch ==
    cli.pc \in {"off", "pair", "revoke"} =>
        /\ pairs.pending = pairFile.pending /\ pairs.paired = pairFile.paired
        /\ ToSet(pairs.denied) \subseteq ToSet(pairFile.denied)
        /\ grants = grantFile

(* A single-use grant is consumed once, over failed writes and restarts.    *)
SpentOnce == cli.pc = "off" => \A p \in Peers : spent[p] <= given[p]

ConsentsHold == Disjoint /\ FilesMatch /\ SpentOnce

(* A single-use grant lets one request through: "consume exactly the one    *)
(* that authorizes THIS corpus/op, so a second attempt is denied again"     *)
(* (cmd/meshmcp/airkggrant.go:81-82).                                       *)
OneRequestPerOnceGrant == \A p \in Peers : served[p] <= given[p]

(* When revoke-device has said that the identity is revoked, the gateway    *)
(* does not recognize it: the command "severs every trust relationship a    *)
(* peer identity holds with this gateway" (cmd/meshmcp/revokedevice.go:18). *)
RevokedIsUnrecognized == cli.pc = "done" => Lost \notin pairs.paired

-----------------------------------------------------------------------------
(* The boundary between two organisations (federation/): dynamic client     *)
(* registration with its per-key locks, quota and fail-closed audit         *)
(* (dcr.go); the exchange of a partner's token for a grant (exchange.go);   *)
(* the boundary that admits and records crossings (boundary.go and          *)
(* cmd/meshmcp/federate.go); and the metering that replays the ledger while *)
(* it rotates (meter.go, cmd/meshmcp/federateusage.go).                     *)
CONSTANTS
    Registering,     \* registration requests
    Managing,        \* management request -> [op, internal]: what it does, and whether it is for the provisioned client
    MaxClients,      \* InitialAccessToken.MaxClients
    MaxCrashes,
    Peer,            \* the organisation the caller's identity maps to, or a value in no grant
    Grant,           \* organisation -> the tools it is granted
    Upstream,        \* the tools the upstream lists
    MaxCrossings, MaxRotations,
    Provisioned, Nobody

VARIABLES
    reg,             \* handleRegister: [pc, n]
    man,             \* handleManage: [pc, client, rec]
    locks,           \* keyedLocks: key -> the request that holds it
    store,           \* the client records on disk
    landed,          \* clients whose registration is in the audit log
    deleted,         \* clients a DELETE has answered 204 for
    crashes,
    ledger,          \* the crossing records of the active file
    archives,        \* the sealed segments
    conn,            \* a boundary connection: [pc, tools]
    usage            \* federate usage: [pc, segments, counted, due]

storeVars == <<store, landed, deleted>>
meterVars == <<ledger, archives, conn, usage>>

Clients == Registering \cup {Provisioned}
LockKeys == {"issuer"} \cup Clients
Idle == [pc |-> "new", client |-> Nobody, name |-> 0]

FedInit ==
    /\ reg = [r \in Registering |-> "new"] /\ man = [m \in DOMAIN Managing |-> Idle]
    /\ locks = [k \in LockKeys |-> Nobody]
    /\ store = [c \in Clients |-> IF c = Provisioned THEN 1 ELSE 0]
    /\ landed = {} /\ deleted = {} /\ crashes = 0
    /\ ledger = {} /\ archives = <<>> /\ conn = [pc |-> "new", tools |-> {}]
    /\ usage = [pc |-> "new", segments |-> 0, counted |-> {}, due |-> {}]

(* keyedLocks.lock and its unlock.                                          *)
Locks(k, x) == locks[k] = Nobody /\ locks' = [locks EXCEPT ![k] = x]
Unlocks(k) == locks' = [locks EXCEPT ![k] = Nobody]

-----------------------------------------------------------------------------
(* handleRegister: the token and its scope are looked at first; then, under *)
(* the issuer's lock, the live records are counted, the record audited and  *)
(* only then written.  A request is named by the client it creates.         *)
RegisterLocks(r) ==
    /\ reg[r] = "new" /\ Locks("issuer", r)
    /\ reg' = [reg EXCEPT ![r] = "count"]
    /\ UNCHANGED <<man, storeVars, crashes, meterVars>>

(* liveCountForIssuer scans the directory; the provisioned client names no  *)
(* issuer.                                                                   *)
LiveCount == Cardinality({c \in Registering : store[c] # 0})
Counts(r) ==
    /\ reg[r] = "count"
    /\ IF LiveCount >= MaxClients THEN reg' = [reg EXCEPT ![r] = "refused"] /\ Unlocks("issuer")
       ELSE reg' = [reg EXCEPT ![r] = "audit"] /\ UNCHANGED locks
    /\ UNCHANGED <<man, storeVars, crashes, meterVars>>

AuditsRegistration(r) ==
    /\ reg[r] = "audit"
    /\ \/ landed' = landed \cup {r} /\ reg' = [reg EXCEPT ![r] = "write"] /\ UNCHANGED locks
       \/ reg' = [reg EXCEPT ![r] = "refused"] /\ Unlocks("issuer") /\ UNCHANGED landed
    /\ UNCHANGED <<man, store, deleted, crashes, meterVars>>

(* (Mutated form: the record is written while the audit record is on its    *)
(* way.)                                                                     *)
WritesClientEarly(r) ==
    /\ reg[r] \in {"audit", "write"} /\ store[r] = 0
    /\ store' = [store EXCEPT ![r] = 1]
    /\ reg' = [reg EXCEPT ![r] = IF @ = "write" THEN "created" ELSE @]
    /\ IF reg[r] = "write" THEN Unlocks("issuer") ELSE UNCHANGED locks
    /\ UNCHANGED <<man, landed, deleted, crashes, meterVars>>
WritesClient(r) ==
    /\ reg[r] = "write"
    /\ \/ store' = [store EXCEPT ![r] = 1] /\ reg' = [reg EXCEPT ![r] = "created"]
       \/ reg' = [reg EXCEPT ![r] = "refused"] /\ UNCHANGED store
    /\ Unlocks("issuer")
    /\ UNCHANGED <<man, landed, deleted, crashes, meterVars>>

-----------------------------------------------------------------------------
(* handleManage by the holder of the client's registration token: under the *)
(* client's lock, the record is loaded and checked, the change audited, the *)
(* file replaced or removed.                                                 *)
(* (Mutated form: the lock is taken after the record was loaded.)           *)
load(c) == store[c]
ManagedBy(m, c) == (c = Provisioned) = Managing[m].internal
Loads(m, c) ==
    /\ man[m].pc = "new" /\ ManagedBy(m, c)
    /\ locks[c] = Nobody
    /\ IF load(c) # 0 THEN Locks(c, m) ELSE UNCHANGED locks
    /\ man' = [man EXCEPT ![m] = [pc |-> IF load(c) # 0 THEN "audit" ELSE "done", client |-> c, name |-> load(c)]]
    /\ UNCHANGED <<reg, storeVars, crashes, meterVars>>

ManageEnds(m) == man' = [man EXCEPT ![m].pc = "done"] /\ Unlocks(man[m].client)

(* A GET answers; a DELETE of the provisioned client is refused before the  *)
(* audit; a failed append refuses the rest.                                 *)
Refuses(m) == Managing[m].op = "get" \/ (Managing[m].op = "delete" /\ man[m].client = Provisioned)
AuditsManage(m) ==
    /\ man[m].pc = "audit"
    /\ \/ ManageEnds(m)
       \/ ~Refuses(m) /\ man' = [man EXCEPT ![m].pc = "change"] /\ UNCHANGED locks
    /\ UNCHANGED <<reg, storeVars, crashes, meterVars>>

Changes(m) ==
    LET c == man[m].client IN
    /\ man[m].pc = "change" /\ ManageEnds(m)
    /\ IF Managing[m].op = "put"
       THEN store' = [store EXCEPT ![c] = 2] /\ UNCHANGED deleted
       ELSE \/ store[c] # 0 /\ store' = [store EXCEPT ![c] = 0] /\ deleted' = deleted \cup {c}
            \/ UNCHANGED <<store, deleted>>
    /\ UNCHANGED <<reg, landed, crashes, meterVars>>

(* The process dies: its requests and locks are gone, the records stay.     *)
Crash ==
    /\ crashes < MaxCrashes /\ crashes' = crashes + 1
    /\ reg' = [r \in Registering |-> IF reg[r] = "new" THEN "new" ELSE "gone"]
    /\ man' = [m \in DOMAIN Managing |-> IF man[m].pc = "new" THEN Idle ELSE [man[m] EXCEPT !.pc = "done"]]
    /\ locks' = [k \in LockKeys |-> Nobody]
    /\ UNCHANGED <<storeVars, meterVars>>

-----------------------------------------------------------------------------
(* buildBoundaryServer: a connection advertises the upstream's tools that   *)
(* the organisation is granted (Allowed), and checks and records each call  *)
(* again before it is relayed (Check).                                      *)
FedAllowed(org, tool) == org \in DOMAIN Grant /\ tool \in Grant[org]
Advertise ==
    /\ conn.pc = "new"
    /\ conn' = [pc |-> "serve", tools |-> {t \in Upstream : FedAllowed(Peer, t)}]
    /\ UNCHANGED <<reg, man, locks, storeVars, crashes, ledger, archives, usage>>
Sealed(n) == UNION {archives[i] : i \in 1..n}
NextRecord == Cardinality(ledger \cup Sealed(Len(archives))) + 1
record(t, allow) == ledger' = ledger \cup {[n |-> NextRecord, org |-> Peer, tool |-> t, allow |-> allow]}
Crosses(t) ==
    /\ conn.pc = "serve" /\ t \in conn.tools /\ NextRecord <= MaxCrossings
    /\ record(t, FedAllowed(Peer, t))
    /\ UNCHANGED <<reg, man, locks, storeVars, crashes, archives, conn, usage>>

(* The ledger's sink seals the active file when it is full.                 *)
Rotate ==
    /\ Len(archives) < MaxRotations /\ ledger # {}
    /\ archives' = Append(archives, ledger) /\ ledger' = {}
    /\ UNCHANGED <<reg, man, locks, storeVars, crashes, conn, usage>>

-----------------------------------------------------------------------------
(* cmdFederateUsage: the segments are listed (auditSegmentPaths), then      *)
(* opened in that order, the active file last, and replayed                 *)
(* (AggregateUsage), each record of each file counting once.                *)
AggregateUsage(sealed, active) == [n |-> Cardinality(sealed) + Cardinality(active), of |-> sealed \cup active]
ListSegments ==
    /\ usage.pc = "new"
    /\ usage' = [usage EXCEPT !.pc = "open", !.segments = Len(archives), !.due = Sealed(Len(archives)) \cup ledger]
    /\ UNCHANGED <<reg, man, locks, storeVars, crashes, ledger, archives, conn>>
OpenSegments ==
    /\ usage.pc = "open"
    /\ usage' = [usage EXCEPT !.pc = "done", !.counted = AggregateUsage(Sealed(usage.segments), ledger)]
    /\ UNCHANGED <<reg, man, locks, storeVars, crashes, ledger, archives, conn>>

FedNext ==
    \/ \E r \in Registering : RegisterLocks(r) \/ Counts(r) \/ AuditsRegistration(r) \/ WritesClient(r)
    \/ \E m \in DOMAIN Managing : (\E c \in Clients : Loads(m, c)) \/ AuditsManage(m) \/ Changes(m)
    \/ Crash
    \/ Advertise \/ (\E t \in Upstream : Crosses(t)) \/ Rotate
    \/ ListSegments \/ OpenSegments

-----------------------------------------------------------------------------
(* However many registrations run at once, no more clients are live under   *)
(* an initial access token than its quota.                                  *)
Quota == LiveCount <= MaxClients

(* What was deleted stays deleted, also when an update of the same client   *)
(* was on its way; and the provisioned client cannot be deleted.            *)
StaysDeleted == (\A c \in deleted : store[c] = 0) /\ store[Provisioned] # 0

(* No client is registered without a landed audit record.                   *)
AuditedFirst == \A r \in Registering : store[r] # 0 => r \in landed

(* Only what an organisation is granted crosses, and a usage report counts  *)
(* no crossing twice however the ledger rotates under it.                   *)
Metered ==
    /\ \A x \in ledger \cup Sealed(Len(archives)) : x.allow /\ Peer \in DOMAIN Grant /\ x.tool \in Grant[Peer]
    /\ usage.pc = "done" => usage.counted.n = Cardinality(usage.counted.of)

FederationHolds == Quota /\ StaysDeleted /\ AuditedFirst /\ Metered

(* A report misses no crossing that was in the ledger when it began: "a     *)
(* billing window must never silently under-count because the ledger        *)
(* rotated" (cmd/meshmcp/federateusage.go:23).                              *)
CountsAll == usage.pc = "done" => usage.due \subseteq usage.counted.of

=============================================================================
