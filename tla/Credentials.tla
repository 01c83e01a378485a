---------------------------- MODULE Credentials -----------------------------
(***************************************************************************)
(* What a caller shows for itself: proofs of possession and delegated      *)
(* tokens, chains of capabilities, and the groups of a single sign-on      *)
(* token. Each part is a specification of its own, with its own initial    *)
(* state and next-state relation; a behaviour is a behaviour of one of     *)
(* them.                                                                   *)
(***************************************************************************)
EXTENDS Integers, FiniteSets, Sequences

-----------------------------------------------------------------------------
(***************************************************************************)
(* Credentials that may be used once, over time: DPoP proofs at the        *)
(* federation token exchange (policy/dpopsign.go, federation/exchange.go)  *)
(* and the tokens a router presents on behalf of a caller                  *)
(* (policy/delegation.go, delegation_wire.go).  What was used is kept in   *)
(* memory until it can no longer be fresh, then evicted; a restart forgets *)
(* it.  Requests are answered concurrently: the clock is read first, the   *)
(* store is asked afterwards.                                              *)
(***************************************************************************)
CONSTANTS Holder,        \* key holder -> [drift, subject, details]: its clock's drift, what it asks for
          MaxAge, Skew,  \* dpopMaxAge, dpopFreshnessSkew
          NonceTTL, RequireNonce,
          OrgOf,         \* pinned issuer -> org; absent = not mapped
          Granted,       \* org -> [tools, corpora]: sets of patterns
          Matches,       \* pattern -> the names it matches
          Globs,         \* the patterns with a wildcard
          Star,           \* the pattern that matches all
          DenyAll,       \* the corpus pattern that matches nothing
          Delegated,     \* token -> [caller, router, tool, args, life]
          Shown,         \* request -> [token, router, tool, args]: what an upstream is shown
          Permits,       \* identity -> the tools its policy allows
          MaxLife,       \* maxDelegationLifetime
          MaxProofs,     \* proofs a holder makes (bound)
          MaxShows,      \* requests (bound)
          MaxTime, MaxRestarts

VARIABLES now,
          proof,     \* the proofs made: sequence of [by, iat, nonce]
          req,       \* requests in progress: [proof or show, now, step]
          jtis,      \* proof -> expiry
          nonces,    \* nonce -> expiry; a nonce is its number, 0 is none
          issued,    \* nonces issued
          offered,   \* holder -> the nonce it was challenged with
          accepted,  \* proof -> [fresh, stale]: times accepted since the start while still fresh, and later
          minted,    \* capabilities minted: [org, aud, tools, corpora]
          shows, restarts,
          tok,       \* token -> [iat, exp], or <<>>
          seen,      \* token -> expiry
          ran        \* requests that were carried out: <<request, its number, token was past its expiry>>
possessionVars == <<now, proof, req, jtis, nonces, issued, offered, accepted, minted, shows, restarts, tok, seen, ran>>
dpopVars == <<proof, req, jtis, nonces, issued, offered, accepted, minted>>
delegVars == <<tok, seen, ran>>

Nothing == [x \in {} |-> 0]

ProofInit ==
  /\ now = 0 /\ proof = <<>> /\ req = {} /\ jtis = Nothing /\ nonces = Nothing /\ issued = 0
  /\ offered = [h \in DOMAIN Holder |-> 0] /\ accepted = Nothing /\ minted = {}
  /\ shows = 0 /\ restarts = 0
  /\ tok = Nothing /\ seen = Nothing /\ ran = {}

(* Entries whose expiry has passed are dropped before every use.           *)
(* (Mutated form: an entry goes at its expiry, not after it.)              *)
KeptEarly(store, t) == [k \in {x \in DOMAIN store : t < store[x]} |-> store[k]]
Kept(store, t) == [k \in {x \in DOMAIN store : t <= store[x]} |-> store[k]]
With(store, k, e) == [x \in DOMAIN store \cup {k} |-> IF x = k THEN e ELSE store[x]]
Without(store, k) == [x \in DOMAIN store \ {k} |-> store[x]]
-----------------------------------------------------------------------------
(* DPoPSigner.Proof: a fresh jti, the holder's own clock, and the nonce it *)
(* was last challenged with.                                               *)
Proof(h) ==
  /\ Cardinality({i \in DOMAIN proof : proof[i].by = h}) < MaxProofs
  /\ proof' = Append(proof, [by |-> h, iat |-> now + Holder[h].drift, nonce |-> offered[h]])
  /\ UNCHANGED <<now, req, jtis, nonces, issued, offered, accepted, minted, shows, restarts, delegVars>>

(* A proof reaches the exchange, for the first time or again: the handler  *)
(* reads the clock.                                                        *)
Arrive(i) ==
  /\ shows < MaxShows /\ shows' = shows + 1
  /\ req' = req \cup {[proof |-> i, now |-> now, step |-> "checks"]}
  /\ UNCHANGED <<now, proof, jtis, nonces, issued, offered, accepted, minted, restarts, delegVars>>

Fresh(p, t) == t - p.iat <= MaxAge /\ t - p.iat >= -Skew

Refuse(r) == req' = req \ {r} /\ UNCHANGED accepted
Advance(r, s) == req' = (req \ {r}) \cup {[r EXCEPT !.step = s]}

(* Verify up to the nonce: the structural checks and freshness, then       *)
(* ConsumeNonce where one is required.  Without a valid nonce the answer   *)
(* carries a new one (handleExchange, IssueChallengeNonce).                *)
Check(r) ==
  LET p == proof[r.proof] ns == Kept(nonces, r.now) IN
  /\ r.step = "checks"
  /\ IF ~Fresh(p, r.now) THEN Refuse(r) /\ UNCHANGED <<nonces, issued, offered>>
     ELSE IF ~RequireNonce THEN Advance(r, "jti") /\ UNCHANGED <<nonces, issued, offered, accepted>>
     ELSE IF p.nonce \in DOMAIN ns
     THEN Advance(r, "jti") /\ nonces' = Without(ns, p.nonce) /\ UNCHANGED <<issued, offered, accepted>>
     ELSE /\ Refuse(r) /\ issued' = issued + 1
          /\ nonces' = With(ns, issued + 1, r.now + NonceTTL)
          /\ offered' = [offered EXCEPT ![p.by] = issued + 1]
  /\ UNCHANGED <<now, proof, jtis, minted, shows, restarts, delegVars>>

(* How long a used jti must be remembered: the longest a proof accepted    *)
(* now can stay fresh, which counts the skew it may have been early by.    *)
FreshUntil(t) == t + MaxAge + Skew

(* The history of acceptances: a request that stalled is one the proof had *)
(* gone stale for by the time the store was asked.                         *)
Counted(i) ==
  LET a == IF i \in DOMAIN accepted THEN accepted[i] ELSE [fresh |-> 0, stale |-> 0]
  IN  With(accepted, i, IF now - proof[i].iat <= MaxAge THEN [a EXCEPT !.fresh = @ + 1] ELSE [a EXCEPT !.stale = @ + 1])

(* UseJTI, with the reading of the clock the request began with.           *)
UseJTI(r) ==
  LET used == Kept(jtis, r.now) IN
  /\ r.step = "jti"
  /\ IF r.proof \in DOMAIN used
     THEN Refuse(r) /\ jtis' = used
     ELSE /\ jtis' = With(used, r.proof, FreshUntil(r.now))
          /\ accepted' = Counted(r.proof)
          /\ Advance(r, "grant")
  /\ UNCHANGED <<now, proof, nonces, issued, offered, minted, shows, restarts, delegVars>>
-----------------------------------------------------------------------------
(* validateSubjectToken: pinned issuer and its signature, audience, window.*)
ValidSubject(s, t) ==
  /\ s.issuer \in DOMAIN OrgOf /\ s.signed /\ s.aud
  /\ t < s.exp /\ s.nbf <= t

(* unionAuthDetails over the decoded entries.                              *)
Union(es, f) == UNION {es[i][f] : i \in DOMAIN es}

(* intersectGranted: a pattern the org's grants hold as it stands, or a    *)
(* plain name one of them matches.                                         *)
Intersect(asked, granted) ==
  {a \in asked : \E g \in granted :
     g = Star \/ g = a \/ (a \notin Globs /\ Matches[a] \subseteq Matches[g])}

(* clampCorpora: no corpus means none, where an empty list would mean all. *)
(* (Mutated form: the empty list is passed on.)                            *)
ClampNothing(cs) == cs
Clamp(cs) == IF cs = {} THEN {DenyAll} ELSE cs

(* The rest of handleExchange.                                             *)
Exchange(r) ==
  LET h == Holder[proof[r.proof].by]
      es == h.details
      org == OrgOf[h.subject.issuer]
      tools == Intersect(Union(es, "actions"), Granted[org].tools)
      corpora == Clamp(Intersect(Union(es, "datatypes"), Granted[org].corpora))
      places == Union(es, "locations")
  IN
  /\ r.step = "grant"
  /\ req' = req \ {r}
  /\ minted' = IF /\ ValidSubject(h.subject, r.now)
                  /\ Cardinality(places) = 1
                  /\ Union(es, "actions") # {} /\ tools # {}
               THEN minted \cup {[org |-> org, aud |-> places, tools |-> tools, corpora |-> corpora]}
               ELSE minted
  /\ UNCHANGED <<now, proof, jtis, nonces, issued, offered, accepted, shows, restarts, delegVars>>
-----------------------------------------------------------------------------
(* IssueDelegation: the lifetime is clamped to the maximum.                *)
IssueDelegation(d) ==
  /\ d \notin DOMAIN tok
  /\ tok' = With(tok, d, [iat |-> now, exp |-> now + IF Delegated[d].life > MaxLife \/ Delegated[d].life = 0
                                                   THEN MaxLife ELSE Delegated[d].life])
  /\ UNCHANGED <<now, dpopVars, shows, restarts, seen, ran>>

(* VerifyDelegation without its last step: the token is for this router,   *)
(* tool and arguments, and not past its expiry.                            *)
ProofBound(s, t) ==
  LET d == Delegated[s.token] IN
  /\ s.router = d.router /\ s.tool = d.tool /\ s.args = d.args
  /\ t <= tok[s.token].exp

(* Use, the last step of it.                                               *)
Use(d, t) == d \notin DOMAIN Kept(seen, t)

(* AuthorizeDelegated: the router's own decision and the caller's.         *)
Authorize(s) == s.tool \in Permits[s.router] /\ s.tool \in Permits[Delegated[s.token].caller]

(* A call with a token reaches the upstream: the verifier reads the clock. *)
Show(q) ==
  /\ Shown[q].token \in DOMAIN tok /\ shows < MaxShows /\ shows' = shows + 1
  /\ req' = req \cup {[show |-> q, no |-> shows, now |-> now, step |-> "token"]}
  /\ UNCHANGED <<now, proof, jtis, nonces, issued, offered, accepted, minted, restarts, delegVars>>

(* applyDelegation: the token is checked, and used up, whatever the        *)
(* router's own decision was.  A call that runs is one more in "ran".      *)
Apply(r) ==
  /\ r.step = "token"
  /\ LET s == Shown[r.show]
         good == ProofBound(s, r.now) /\ Use(s.token, r.now)
     IN
     /\ seen' = IF ~ProofBound(s, r.now) THEN seen
                ELSE IF Use(s.token, r.now) THEN With(Kept(seen, r.now), s.token, tok[s.token].exp)
                ELSE Kept(seen, r.now)
     /\ ran' = IF good /\ Authorize(s) THEN ran \cup {<<r.show, r.no, now > tok[s.token].exp>>} ELSE ran
  /\ req' = req \ {r}
  /\ UNCHANGED <<now, proof, jtis, nonces, issued, offered, accepted, minted, shows, restarts, tok>>
-----------------------------------------------------------------------------
(* Time passes; a request may stall between its reading of the clock and   *)
(* the store for as long as it likes.                                      *)
ProofTick ==
  /\ now < MaxTime /\ now' = now + 1
  /\ UNCHANGED <<dpopVars, shows, restarts, delegVars>>

(* A restart clears both stores; what is in flight is lost.                *)
Restart ==
  /\ restarts < MaxRestarts /\ restarts' = restarts + 1
  /\ jtis' = Nothing /\ nonces' = Nothing /\ seen' = Nothing /\ req' = {}
  /\ accepted' = Nothing /\ ran' = {}
  /\ UNCHANGED <<now, proof, issued, offered, minted, shows, tok>>

Answer(r) == Check(r) \/ UseJTI(r) \/ Exchange(r) \/ Apply(r)

ProofNext ==
  \/ \E h \in DOMAIN Holder : Proof(h)
  \/ \E i \in DOMAIN proof : Arrive(i)
  \/ \E r \in req : Answer(r)
  \/ \E d \in DOMAIN Delegated : IssueDelegation(d)
  \/ \E q \in DOMAIN Shown : Show(q)
  \/ ProofTick
  \/ Restart

ProofSpec == ProofInit /\ [][ProofNext]_possessionVars
-----------------------------------------------------------------------------
(* Between two restarts a proof is accepted once while it is fresh,        *)
(* although what was used is evicted and the holder's clock may run ahead  *)
(* by the skew (dpopsign.go Verify, UseJTI, evictExpired).  The exception  *)
(* the code leaves: a request that read the clock while the proof was      *)
(* fresh and reaches UseJTI only after another request, with a later       *)
(* reading, has evicted the jti is accepted a second time (Verify passes   *)
(* its one reading of the clock on to the store).                          *)
ProofOnce == \A i \in DOMAIN accepted : accepted[i].fresh <= 1

(* A nonce admits one proof: proofs that carry the same one are not both   *)
(* accepted (ConsumeNonce).                                                *)
NonceOnce ==
  RequireNonce => \A i, j \in DOMAIN accepted : proof[i].nonce = proof[j].nonce => i = j

(* What an exchange mints lies within the org's grants, name by name; it   *)
(* is for one backend, and never unrestricted as to corpora                *)
(* (exchange.go intersectGranted, clampCorpora).                           *)
MintedWithin ==
  \A m \in minted :
    /\ \A f \in {"tools", "corpora"} :
         UNION {Matches[p] : p \in m[f]} \subseteq UNION {Matches[g] : g \in Granted[m.org][f]}
    /\ m.corpora # {}

(* A delegated call runs once per token until the token has expired, and   *)
(* only where both the caller and the router may make it                   *)
(* (VerifyDelegation, AuthorizeDelegated).  A call that read the clock in  *)
(* time and comes to MemNonceStore.Use after the expiry is the exception:  *)
(* the nonce may have been dropped by then.                                *)
DelegatedOnce ==
  /\ \A x, y \in ran : Shown[x[1]].token = Shown[y[1]].token /\ ~x[3] /\ ~y[3] => x = y
  /\ \A x \in ran : LET s == Shown[x[1]] IN
       s.tool \in Permits[s.router] \cap Permits[Delegated[s.token].caller]

PossessionHolds == ProofOnce /\ NonceOnce /\ MintedWithin /\ DelegatedOnce

-----------------------------------------------------------------------------
(***************************************************************************)
(* Capabilities (policy/capability.go) and the sub-grants a holder mints   *)
(* from them offline (policy/capability_delegation.go): a chain of signed  *)
(* claims, leaf first, that the gateway verifies back to a pinned          *)
(* authority when it is presented.  A holder's delegate key can sign any   *)
(* claims at all; DelegateCapability is what an honest holder uses.        *)
(***************************************************************************)
CONSTANTS Roots,        \* claims the authority may be asked to issue
          Kids,         \* claims a holder may want for a sub-grant
          Trusted,      \* pinned authority keys
          NoKey,        \* no delegate key
          Peers, Tools, Backends,
          Verdicts,     \* what the policy said: [outcome, rule]
          Required,     \* the backend requires a capability
          maxDelegationChain, MaxLifetime,
          MaxIds, MaxPresents, MaxRevokes

VARIABLES 
          ids,       \* ids given out
          chains,    \* the tokens there are: sequences of claims, leaf first
          honest,    \* those minted by IssueCapability and DelegateCapability
          revoked,   \* what was revoked: <<"id", id>>, <<"sub", subject>>
          spentIds,      \* the replay cache: id -> expiry
          call,      \* the calls between their verification and Consume
          chainRan,       \* calls that went through
          presents
capabilityVars == <<now, ids, chains, honest, revoked, spentIds, call, chainRan, presents>>

ChainInit ==
  /\ now = 0 /\ ids = 0 /\ chains = {} /\ honest = {} /\ revoked = {}
  /\ spentIds = [x \in {} |-> 0] /\ call = {} /\ chainRan = {} /\ presents = 0
-----------------------------------------------------------------------------
Names(ps) == UNION {Matches[p] : p \in ps}

(* An empty list of corpora restricts nothing (AllowsCorpus).              *)
AllowsCorpus(c, n) == c.corpora = {} \/ n \in Names(c.corpora)

(* withinScope and scopeSubset: a wildcard is inherited verbatim or not at *)
(* all, a plain name may come from a wildcard.                             *)
(* (Mutated form: a wildcard that shares a name with the parent's passes.) *)
WithinOverlap(e, ps) == \E p \in ps : Matches[e] \cap Matches[p] # {}
Within(e, ps) == e \in ps \/ (e \notin Globs /\ \E p \in ps : Matches[e] \subseteq Matches[p])
ScopeSubset(child, parent) == child # {} /\ \A e \in child : Within(e, parent)

(* checkNarrower.                                                          *)
Narrower(child, parent) ==
  /\ ~parent.one /\ parent.del # NoKey
  /\ child.aud = parent.aud /\ child.exp <= parent.exp
  /\ ScopeSubset(child.tools, parent.tools)
  /\ parent.corpora # {} => ScopeSubset(child.corpora, parent.corpora)

(* validateDelegatePub and the lifetime checks of both minting paths.      *)
Mintable(c) ==
  /\ c.tools # {} /\ (c.del # NoKey => ~c.one)
  /\ c.exp > now /\ c.exp - now <= MaxLifetime

Made(c, k) == [id |-> ids + 1, sub |-> c.sub, aud |-> c.aud, tools |-> c.tools, corpora |-> c.corpora,
               one |-> c.one, nbf |-> c.nbf, exp |-> c.exp, iat |-> now, del |-> c.del, key |-> k]

(* IssueCapability by the authority k.                                     *)
Issue(c, k) ==
  /\ ids < MaxIds /\ Mintable(c)
  /\ ids' = ids + 1
  /\ chains' = chains \cup {<<Made(c, k)>>} /\ honest' = honest \cup {<<Made(c, k)>>}
  /\ UNCHANGED <<now, revoked, spentIds, call, chainRan, presents>>

(* The depth DelegateCapability allows, counted over the parent's chain.   *)
DepthOK(ch) == Len(ch) < maxDelegationChain

(* DelegateCapability with the parent's delegate key.                      *)
Delegate(ch, c) ==
  /\ ids < MaxIds /\ Head(ch).del # NoKey /\ DepthOK(ch)
  /\ Mintable(c)
  /\ Narrower(Made(c, Head(ch).del), Head(ch))
  /\ LET new == <<Made(c, Head(ch).del)>> \o ch IN
     chains' = chains \cup {new} /\ honest' = IF ch \in honest THEN honest \cup {new} ELSE honest
  /\ ids' = ids + 1
  /\ UNCHANGED <<now, revoked, spentIds, call, chainRan, presents>>

(* A holder signs claims of its own making, with none of the checks.       *)
Sign(ch, c) ==
  /\ ids < MaxIds /\ Head(ch).del # NoKey
  /\ ids' = ids + 1 /\ chains' = chains \cup {<<Made(c, Head(ch).del)>> \o ch}
  /\ UNCHANGED <<now, honest, revoked, spentIds, call, chainRan, presents>>
-----------------------------------------------------------------------------
(* The times, revocations of one link.                                     *)
Live(c, t) ==
  /\ c.exp - c.iat <= MaxLifetime
  /\ t >= c.nbf /\ t < c.exp
  /\ <<"id", c.id>> \notin revoked /\ <<"sub", c.sub>> \notin revoked

(* verifyDelegated looks at every link for times and revocation.           *)
AllLive(ch, t) == \A i \in DOMAIN ch : Live(ch[i], t)

(* Every link is narrower than its parent and signed under the key the     *)
(* parent names.                                                           *)
Linked(ch) ==
  \A i \in 1..(Len(ch) - 1) : Narrower(ch[i], ch[i + 1]) /\ ch[i].key = ch[i + 1].del

(* verifyClaims and verifyDelegated: who presents it, where and for what.  *)
Verifies(ch, peer, backend, tool, t) ==
  LET leaf == Head(ch) IN
  /\ Len(ch) <= maxDelegationChain
  /\ ch[Len(ch)].key \in Trusted
  /\ Linked(ch) /\ AllLive(ch, t)
  /\ leaf.sub = peer /\ leaf.aud = backend /\ tool \in Names(leaf.tools)

(* FoldCapability: an explicit deny and a cosign stand; otherwise a valid  *)
(* capability allows, and an invalid one denies.                           *)
Folded(v, ok) ==
  IF ~ok THEN "deny"
  ELSE IF v.outcome = "cosign" THEN "cosign"
  ELSE IF v.outcome = "deny" /\ v.rule # -1 THEN "deny"
  ELSE "allow"

(* Whether the grant decides: only then is a single-use one consumed.      *)
LoadBearing(c, v) == c.one /\ (Required \/ v.outcome # "allow")

(* A call carries a token; its verification.                               *)
Present(ch, peer, b, t, v) ==
  /\ presents < MaxPresents /\ presents' = presents + 1
  /\ LET ok == Verifies(ch, peer, b, t, now)
         x == [chain |-> ch, peer |-> peer, backend |-> b, tool |-> t, verdict |-> v, at |-> now, no |-> presents,
               dead |-> {<<"id", ch[i].id>> : i \in DOMAIN ch} \cap revoked, late |-> FALSE]
     IN /\ call' = IF Folded(v, ok) = "allow" /\ LoadBearing(Head(ch), v) THEN call \cup {x} ELSE call
        /\ chainRan' = IF Folded(v, ok) = "allow" /\ ~LoadBearing(Head(ch), v) THEN chainRan \cup {x} ELSE chainRan
  /\ UNCHANGED <<now, ids, chains, honest, revoked, spentIds>>

(* Consume, with the clock read again but the expiry not: the cache drops  *)
(* what has expired, and a call whose grant expired since it was verified  *)
(* goes through ("late").                                                  *)
Consume(x) ==
  LET c == Head(x.chain)
      kept == [i \in {j \in DOMAIN spentIds : now <= spentIds[j]} |-> spentIds[i]]
  IN
  /\ call' = call \ {x}
  /\ IF c.id \in DOMAIN kept THEN chainRan' = chainRan /\ spentIds' = kept
     ELSE /\ chainRan' = chainRan \cup {[x EXCEPT !.late = now > c.exp]}
          /\ spentIds' = [i \in DOMAIN kept \cup {c.id} |-> IF i = c.id THEN c.exp ELSE kept[i]]
  /\ UNCHANGED <<now, ids, chains, honest, revoked, presents>>

Revoke(r) ==
  /\ Cardinality(revoked) < MaxRevokes /\ r \notin revoked
  /\ revoked' = revoked \cup {r}
  /\ UNCHANGED <<now, ids, chains, honest, spentIds, call, chainRan, presents>>

ChainTick ==
  /\ now < MaxTime /\ now' = now + 1
  /\ UNCHANGED <<ids, chains, honest, revoked, spentIds, call, chainRan, presents>>

ChainNext ==
  \/ \E c \in Roots, k \in Trusted : Issue(c, k)
  \/ \E ch \in chains, c \in Kids : Delegate(ch, c) \/ Sign(ch, c)
  \/ \E ch \in chains, p \in Peers, b \in Backends, t \in Tools, v \in Verdicts : Present(ch, p, b, t, v)
  \/ \E x \in call : Consume(x)
  \/ \E i \in 1..ids : Revoke(<<"id", i>>)
  \/ \E p \in Peers : Revoke(<<"sub", p>>)
  \/ ChainTick

ChainSpec == ChainInit /\ [][ChainNext]_capabilityVars
-----------------------------------------------------------------------------
(* No chain grants more than its links: a call that ran on a capability    *)
(* lies, for every ancestor, within its tools, its backend, its corpora    *)
(* and its time, and no link was revoked when it was presented, whatever   *)
(* the holders signed (verifyDelegated, checkNarrower).                    *)
Attenuates ==
  \A x \in chainRan : \A i \in DOMAIN x.chain :
    LET c == x.chain[i] IN
    /\ x.tool \in Names(c.tools) /\ x.backend = c.aud
    /\ \A n \in Names(DOMAIN Matches) : AllowsCorpus(Head(x.chain), n) => AllowsCorpus(c, n)
    /\ x.at < c.exp /\ x.dead = {}

(* What an honest holder mints is good: a chain made by IssueCapability    *)
(* and DelegateCapability verifies for its subject, for a tool it names,   *)
(* as long as every link is live.  A link's depth, scope and lifetime are  *)
(* judged alike when it is minted and when it is presented.                *)
HonestVerifies ==
  \A ch \in honest :
    (\A i \in DOMAIN ch : Live(ch[i], now))
    => \A t \in Names(Head(ch).tools) : Verifies(ch, Head(ch).sub, Head(ch).aud, t, now)

(* A single-use capability that decided a call does so once, as long as    *)
(* it has not expired (Consume).  A call that was verified in time and     *)
(* consumes the grant after its expiry is the exception: the replay cache  *)
(* has dropped the first use, and Consume does not look at the expiry.     *)
UsedOnce ==
  \A x, y \in chainRan :
    /\ Head(x.chain).id = Head(y.chain).id /\ Head(x.chain).one
    /\ x.verdict.outcome # "allow" /\ y.verdict.outcome # "allow"
    /\ ~x.late /\ ~y.late
    => x = y

CapabilityHolds == Attenuates /\ HonestVerifies /\ UsedOnce

-----------------------------------------------------------------------------
(***************************************************************************)
(* Single sign-on groups: a peer posts an OpenID token to the gateway      *)
(* (cmd/meshmcp/sso.go), the gateway verifies it offline against pinned    *)
(* issuers (policy/oidc.go, validateOIDC of cmd/meshmcp/config.go) and     *)
(* binds the token's groups to the peer's transport key for a bounded time *)
(* (policy/ssogroups.go); policy rules ask for the groups on every call.   *)
(*                                                                         *)
(* A token is a record [alg, iss, kid, by, aud, nbf, exp, groups]: `by` is *)
(* the key that really signed it, "none" a signature of no pinned key.     *)
(***************************************************************************)
CONSTANTS
  Config,      \* sequence of issuers: [issuer, alg, keys (kid -> key), type (key -> alg)]
  Audience, Tokens, PeerKeys, FQDN, Static,
  BindTTLMax, MaxBindings, maxOIDCGroupsPerToken,
  MaxAttests

VARIABLES
  pinned,     \* issuer -> [alg, keys]; <<>> when the configuration is refused
  binds,      \* transport key -> [groups, exp]
  attest,     \* the attestation between the handler's two readings of the clock
  told,       \* history: key -> the last [token, exp] it was told is bound
  shown,      \* history: the pairs [key, token, at] that were posted
  inForce,    \* history: [key, group, at] of every group check that held
  attests

ssoVars == <<now, pinned, binds, attest, told, shown, inForce, attests>>

NoToken == [alg |-> "", iss |-> "", kid |-> "", by |-> "none", aud |-> {}, nbf |-> 0, exp |-> 0, groups |-> {}]
Resting == [key |-> "", token |-> NoToken, verified |-> FALSE]

(***************************************************************************)
(* validateOIDC and resolveOIDCKeys: every issuer once, with an accepted   *)
(* algorithm and keys of its type, or the gateway does not start.          *)
(***************************************************************************)
Algs == {"ES256", "RS256"}

keyMatchesAlg(c) == \A kid \in DOMAIN c.keys : c.type[c.keys[kid]] = c.alg

validateOIDC ==
  /\ Audience # "" /\ Config # <<>>
  /\ \A i, k \in DOMAIN Config : i # k => Config[i].issuer # Config[k].issuer
  /\ \A i \in DOMAIN Config : Config[i].alg \in Algs /\ DOMAIN Config[i].keys # {} /\ keyMatchesAlg(Config[i])

Resolved ==
  [iss \in {Config[i].issuer : i \in DOMAIN Config} |->
     LET c == CHOOSE i \in DOMAIN Config : Config[i].issuer = iss IN [alg |-> Config[c].alg, keys |-> Config[c].keys]]

(***************************************************************************)
(* keyFor: the key a token names, or, when it names none, the issuer's     *)
(* unnamed or only key.                                                    *)
(***************************************************************************)
keyFor(iss, kid) ==
  IF kid # "" THEN {iss.keys[x] : x \in DOMAIN iss.keys \cap {kid}}
  ELSE IF "" \in DOMAIN iss.keys THEN {iss.keys[""]}
  ELSE IF Cardinality(DOMAIN iss.keys) = 1 THEN {iss.keys[x] : x \in DOMAIN iss.keys}
  ELSE {}

(* Verify.  (Mutated form: only the expiry is looked at.) *)
InTimeUntil(t) == t.exp # 0 /\ now < t.exp

InTime(t) == t.exp # 0 /\ now < t.exp /\ (t.nbf # 0 => now >= t.nbf)

Verify(t) ==
  /\ t.alg \in Algs /\ t.iss \in DOMAIN pinned /\ t.alg = pinned[t.iss].alg
  /\ t.by \in keyFor(pinned[t.iss], t.kid)
  /\ Audience \in t.aud
  /\ InTime(t)

(* extractGroupsClaim keeps at most a fixed number of groups. *)
Groups(t) ==
  LET fits == {s \in SUBSET t.groups : Cardinality(s) <= maxOIDCGroupsPerToken}
  IN  CHOOSE s \in fits : \A x \in fits : Cardinality(x) <= Cardinality(s)

(***************************************************************************)
(* The handler: a peer without a transport key is refused; the clock is    *)
(* read once to verify and again for the ceiling of the binding.           *)
(***************************************************************************)
Start ==
  /\ pinned = <<>> /\ validateOIDC /\ pinned' = Resolved
  /\ UNCHANGED <<now, binds, attest, told, shown, inForce, attests>>

Attest(k, t) ==
  /\ pinned # <<>> /\ attest = Resting /\ attests < MaxAttests
  /\ attests' = attests + 1 /\ shown' = shown \cup {[key |-> k, token |-> t, at |-> now]}
  /\ attest' = IF k # "" /\ Verify(t) THEN [key |-> k, token |-> t, verified |-> TRUE] ELSE Resting
  /\ UNCHANGED <<now, pinned, binds, told, inForce>>

Expiry(t) == IF BindTTLMax > 0 /\ t.exp > now + BindTTLMax THEN now + BindTTLMax ELSE t.exp

Swept(b) == [k \in {x \in DOMAIN b : now < b[x].exp} |-> b[k]]

SsoBound(b, k, g, exp) == [x \in DOMAIN b \cup {k} |-> IF x = k THEN [groups |-> g, exp |-> exp] ELSE b[x]]

(* Bind: at the cap the expired bindings go first; a full table keeps the newcomer out. *)
Bind(k, g, exp) ==
  IF k \in DOMAIN binds \/ Cardinality(DOMAIN binds) < MaxBindings THEN SsoBound(binds, k, g, exp)
  ELSE IF Cardinality(DOMAIN Swept(binds)) < MaxBindings THEN SsoBound(Swept(binds), k, g, exp)
  ELSE Swept(binds)

BindNow ==
  /\ attest # Resting
  /\ LET exp == Expiry(attest.token)
     IN  /\ binds' = Bind(attest.key, Groups(attest.token), exp)
         /\ told' = [told EXCEPT ![attest.key] = [token |-> attest.token, exp |-> exp]]
  /\ attest' = Resting
  /\ UNCHANGED <<now, pinned, shown, inForce, attests>>

(***************************************************************************)
(* InGroup, asked by the engine of every backend: the configured members   *)
(* of the group, or the binding of the key.                                *)
(***************************************************************************)
InSSO(k, g) == k \in DOMAIN binds /\ now < binds[k].exp /\ g \in binds[k].groups

InStatic(k, g) == g \in DOMAIN Static /\ (k \in Static[g] \/ FQDN[k] \in Static[g])

Ask(k, g) ==
  /\ pinned # <<>> /\ k # ""
  /\ inForce' = IF InStatic(k, g) \/ InSSO(k, g) THEN inForce \cup {[key |-> k, group |-> g, at |-> now]} ELSE inForce
  /\ binds' = IF ~InStatic(k, g) /\ k \in DOMAIN binds /\ now >= binds[k].exp THEN [x \in DOMAIN binds \ {k} |-> binds[x]] ELSE binds
  /\ UNCHANGED <<now, pinned, attest, told, shown, attests>>

SsoTick ==
  /\ now < MaxTime /\ now' = now + 1
  /\ UNCHANGED <<pinned, binds, attest, told, shown, inForce, attests>>

AllGroups == UNION {t.groups : t \in Tokens} \cup DOMAIN Static

SsoInit ==
  /\ now = 1 /\ pinned = <<>> /\ binds = <<>> /\ attest = Resting /\ shown = {} /\ inForce = {} /\ attests = 0
  /\ told = [k \in PeerKeys |-> [token |-> NoToken, exp |-> 0]]

SsoNext ==
  \/ Start \/ SsoTick \/ BindNow
  \/ \E k \in PeerKeys : (\E t \in Tokens : Attest(k, t)) \/ \E g \in AllGroups : Ask(k, g)

SsoSpec == SsoInit /\ [][SsoNext]_ssoVars

(***************************************************************************)
(* A group check holds only for a configured member, or for a key that     *)
(* itself posted a token which a key pinned for the token's issuer signed, *)
(* which is meant for this gateway, and which has not expired by the time  *)
(* of the check.                                                           *)
(***************************************************************************)
Attributed ==
  \A g \in inForce :
    InStatic(g.key, g.group)
    \/ \E s \in shown :
         /\ s.key = g.key /\ g.group \in s.token.groups /\ s.at <= g.at
         /\ s.token.nbf <= s.at /\ g.at < s.token.exp
         /\ Audience \in s.token.aud
         /\ \E i \in DOMAIN Config : Config[i].issuer = s.token.iss /\ \E kid \in DOMAIN Config[i].keys : Config[i].keys[kid] = s.token.by
                                     /\ (s.token.kid = "" => Cardinality(DOMAIN Config[i].keys) = 1 \/ kid = "")

(* The table never outgrows its bound. *)
TableBounded == Cardinality(DOMAIN binds) <= MaxBindings

SsoHolds == Attributed /\ TableBounded

(***************************************************************************)
(* What the answer says: "bound", until the time it names.  A table that   *)
(* is full of live bindings keeps the newcomer out, who is told "bound"    *)
(* all the same.                                                           *)
(***************************************************************************)
BoundIsBound == \A k \in PeerKeys : attest = Resting /\ now < told[k].exp => \A g \in Groups(told[k].token) : InSSO(k, g)

=============================================================================
