----------------------------- MODULE PolicyGate -----------------------------
(* What happens to a tools/call between a peer and a backend: the policy    *)
(* engine (policy/engine.go) with its rate buckets, the approvals that      *)
(* release held calls (approval_token.go, cosign.go, pending.go and the     *)
(* approver's endpoints in cmd/meshmcp/approvals.go), single-use            *)
(* capabilities (capability.go, delegation.go), session labels              *)
(* (httpsession.go), the audit record and the forwarding (filter.go,        *)
(* httppolicy.go).  Which rule matches a call is given by Rules, per policy *)
(* version; a call is what the rules and the approvals tell apart.  Time is *)
(* in ticks; a bucket counts Per-ths of a token.                            *)
EXTENDS Integers, FiniteSets

CONSTANTS
    Calls,                \* call -> [tool, args, sess, cap]
    Rules,                \* version -> tool -> [allow, cosign, emit, block, max]
    DefaultAllow,
    Bound,                \* request-bound approvals (approval_signing_key)
    FailClosed,
    ApprovalTTL, CapExp, IdleTTL, Per,
    perPeer,              \* sessions of the peer whose labels are kept
    MaxTime, MaxAsked,    \* bounds: ticks, requests to the approver's endpoints
    None

VARIABLES
    pol, ph,              \* Engine.pol and Engine.ph, as versions
    bucket,               \* tool -> [tokens, last]
    labels,               \* session -> [set, seen]
    pend,                 \* pending-*.json: tool -> [args, pol, at]
    appr,                 \* approval-*.json: <<tool, args>> -> [pol, exp]
    cosigned,             \* cosign-*.json: tool -> when it was granted
    seen,                 \* MemNonceStore: capabilities used
    trail,                \* calls with an audit record
    hd,                   \* call -> its handler
    opr, asked,           \* the approver's request, and how many there were
    now,
    granted,              \* history: approvals granted per <<tool, args>>
    flowed                \* history: session -> labels of calls forwarded in it

gateVars == <<pol, ph, bucket, labels, pend, appr, cosigned, seen, trail, hd, opr, asked, now,
              granted, flowed>>

Ids == DOMAIN Calls
Tools == {Calls[c].tool : c \in Ids}
Sessions == {Calls[c].sess : c \in Ids}
Key(c) == <<Calls[c].tool, Calls[c].args>>
Keys == {Key(c) : c \in Ids}
Fresh == [pc |-> "new", out |-> "none", rule |-> FALSE, pol |-> 0, snap |-> {}, owed |-> {}, late |-> FALSE]
AtRest == [pc |-> "idle", tool |-> None, shown |-> None, rec |-> None]

Init ==
    /\ pol = 1 /\ ph = 1 /\ now = 0 /\ asked = 0
    /\ bucket = [t \in Tools |-> None] /\ labels = [s \in Sessions |-> None]
    /\ pend = [t \in Tools |-> None] /\ appr = [k \in Keys |-> None]
    /\ cosigned = [t \in Tools |-> None] /\ seen = {} /\ trail = {}
    /\ hd = [c \in Ids |-> Fresh] /\ opr = AtRest
    /\ granted = [k \in Keys |-> 0] /\ flowed = [s \in Sessions |-> {}]

files == <<pend, appr, cosigned>>
At(c, pc) == hd[c].pc = pc /\ UNCHANGED <<pol, ph, now, opr, asked, granted>>
Goes(c, pc, out) == hd' = [hd EXCEPT ![c].pc = pc, ![c].out = out]

-----------------------------------------------------------------------------
(* httpSessionStore.ensure with its sweep, and the snapshot of the labels:  *)
(* a session that cannot be tracked is refused, none is evicted for it.     *)
(* (Mutated form: room is made by evicting another session's labels.)       *)
Stale(s) == labels[s] # None /\ now - labels[s].seen > IdleTTL
Swept == [s \in Sessions |-> IF Stale(s) THEN None ELSE labels[s]]
Kept == [s \in Sessions |-> IF Stale(s) THEN {} ELSE flowed[s]]
Tracked == {s \in Sessions : Swept[s] # None}
Ensure(c) ==
    LET s == Calls[c].sess
        old == IF Swept[s] = None THEN {} ELSE Swept[s].set
        full == Swept[s] = None /\ Cardinality(Tracked) >= perPeer
    IN /\ At(c, "new")
       /\ labels' = IF full THEN Swept ELSE [Swept EXCEPT ![s] = [set |-> old, seen |-> now]]
       /\ hd' = IF full THEN [hd EXCEPT ![c].pc = "done", ![c].out = "deny"]
                ELSE [hd EXCEPT ![c].pc = "decide", ![c].snap = old, ![c].owed = Kept[s]]
       /\ flowed' = Kept
       /\ UNCHANGED <<bucket, files, seen, trail>>

(* allowRate's refill, by the time gone by and up to the bucket's size.     *)
(* (Mutated form: any time gone by fills the bucket again.)                 *)
FilledWhole(t, max) ==
    IF bucket[t] = None \/ now > bucket[t].last THEN max * Per ELSE bucket[t].tokens
Filled(t, max) ==
    LET grown == bucket[t].tokens + (now - bucket[t].last) * max
    IN IF bucket[t] = None \/ grown > max * Per THEN max * Per ELSE grown

(* decideTool up to the co-signature: no rule and the default, a rule that  *)
(* denies, a label it forbids, its rate, and its allow.                     *)
Decide(c) ==
    LET t == Calls[c].tool
        matched == t \in DOMAIN Rules[pol]
        r == Rules[pol][t]
        clear == r.allow /\ r.block \cap hd[c].snap = {}
        left == Filled(t, r.max)
        taken == r.max > 0 /\ left >= Per
        Out(pc, out) == hd' = [hd EXCEPT ![c].pc = pc, ![c].out = out, ![c].pol = pol, ![c].rule = matched]
    IN /\ At(c, "decide")
       /\ \/ ~matched /\ Out("cap", IF DefaultAllow THEN "allow" ELSE "deny") /\ UNCHANGED bucket
          \/ matched /\ ~clear /\ Out("cap", "deny") /\ UNCHANGED bucket
          \/ /\ matched /\ clear /\ r.max > 0
             /\ bucket' = [bucket EXCEPT ![t] = [tokens |-> IF taken THEN left - Per ELSE left, last |-> now]]
             /\ IF taken THEN Out(IF r.cosign THEN "cosign" ELSE "cap", "allow") ELSE Out("cap", "deny")
          \/ /\ matched /\ clear /\ r.max = 0 /\ UNCHANGED bucket
             /\ Out(IF r.cosign THEN "cosign" ELSE "cap", "allow")
       /\ UNCHANGED <<labels, files, seen, trail, flowed>>

(* FileCosign.Approved, where approvals are not bound to requests.          *)
Approved(c) ==
    LET g == cosigned[Calls[c].tool] IN
    /\ At(c, "cosign") /\ ~Bound
    /\ Goes(c, "cap", IF g # None /\ now - g <= ApprovalTTL THEN "allow" ELSE "cosign")
    /\ UNCHANGED <<bucket, labels, files, seen, trail, flowed>>

(* ConsumeApproval: the approval's file is claimed by renaming it away,     *)
(* then checked against the policy's hash of this moment and its expiry.    *)
ConsumeApproval(c) ==
    LET a == appr[Key(c)] IN
    /\ At(c, "cosign") /\ Bound
    /\ appr' = [appr EXCEPT ![Key(c)] = None]
    /\ Goes(c, "cap", IF a # None /\ a.pol = ph /\ now <= a.exp THEN "allow" ELSE "cosign")
    /\ UNCHANGED <<bucket, labels, pend, cosigned, seen, trail, flowed>>

(* FoldCapability: an invalid token denies; a valid one lifts a default     *)
(* deny, never a rule's deny or a hold.  Where it decided it is used up     *)
(* before the record is written (Consume, MemNonceStore.Use); delegation    *)
(* and hooks run in between, for any time, and the expiry is not checked    *)
(* again.                                                                   *)
FoldCapability(c) ==
    /\ At(c, "cap")
    /\ LET presented == Calls[c].cap # 0
           lifts == presented /\ now < CapExp /\ hd[c].out = "deny" /\ ~hd[c].rule
       IN IF lifts THEN Goes(c, "use", "allow")
          ELSE Goes(c, "audit", IF presented /\ now >= CapExp THEN "deny" ELSE hd[c].out)
    /\ UNCHANGED <<bucket, labels, files, seen, trail, flowed>>

(* (Mutated form: a used capability is forgotten at its last tick.)         *)
RememberedShort == IF now >= CapExp THEN {} ELSE seen
Remembered == IF now > CapExp THEN {} ELSE seen
Consume(c) ==
    /\ At(c, "use")
    /\ seen' = Remembered \cup {Calls[c].cap}
    /\ hd' = [hd EXCEPT ![c].pc = "audit", ![c].late = now > CapExp,
                        ![c].out = IF Calls[c].cap \in Remembered THEN "deny" ELSE "allow"]
    /\ UNCHANGED <<bucket, labels, files, trail, flowed>>

-----------------------------------------------------------------------------
(* The record comes before the forwarding.  When it cannot be written, a    *)
(* fail-closed log denies an allowed call; of a held one, the filter denies *)
(* it and the HTTP enforcer still puts it on record.                        *)
(* (Mutated form: a failed write denies nothing.)                           *)
AuditedLenient(c) ==
    /\ At(c, "audit") /\ Goes(c, "act", hd[c].out)
    /\ trail' \in {trail, trail \cup {c}}
    /\ UNCHANGED <<bucket, labels, files, seen, flowed>>
Audited(c) ==
    /\ At(c, "audit")
    /\ \/ trail' = trail \cup {c} /\ Goes(c, "act", hd[c].out)
       \/ /\ \/ FailClosed /\ Goes(c, "act", "deny")
             \/ (~FailClosed \/ hd[c].out # "allow") /\ Goes(c, "act", hd[c].out)
          /\ UNCHANGED trail
    /\ UNCHANGED <<bucket, labels, files, seen, flowed>>

Emits(c) == IF hd[c].rule THEN Rules[hd[c].pol][Calls[c].tool].emit ELSE {}

(* addLabels on a session that is still tracked, then the backend's write.  *)
AddLabels(c) ==
    LET s == Calls[c].sess IN
    IF labels[s] = None \/ Emits(c) = {} THEN labels
    ELSE [labels EXCEPT ![s] = [set |-> @.set \cup Emits(c), seen |-> now]]
Forward(c) ==
    /\ At(c, "act") /\ hd[c].out = "allow" /\ Goes(c, "done", "allow")
    /\ labels' = AddLabels(c)
    /\ flowed' = IF labels[Calls[c].sess] = None THEN flowed
                 ELSE [flowed EXCEPT ![Calls[c].sess] = @ \cup Emits(c)]
    /\ UNCHANGED <<bucket, files, seen, trail>>

(* A held call is recorded for the approver, in its tool's one file.        *)
Refuse(c) ==
    /\ At(c, "act") /\ hd[c].out # "allow" /\ Goes(c, "done", hd[c].out)
    /\ pend' = IF hd[c].out # "cosign" THEN pend
               ELSE [pend EXCEPT ![Calls[c].tool] = [args |-> Calls[c].args, pol |-> ph, at |-> now]]
    /\ UNCHANGED <<bucket, labels, appr, cosigned, seen, trail, flowed>>

(* DELETE of a session, and a reload: the policy is stored, then its hash.  *)
Drop(s) ==
    /\ labels[s] # None
    /\ labels' = [labels EXCEPT ![s] = None] /\ flowed' = [flowed EXCEPT ![s] = {}]
    /\ UNCHANGED <<pol, ph, bucket, files, seen, trail, hd, opr, asked, now, granted>>
SetPolicy ==
    /\ \/ pol = ph /\ pol + 1 \in DOMAIN Rules /\ pol' = pol + 1 /\ UNCHANGED ph
       \/ pol # ph /\ ph' = pol /\ UNCHANGED pol
    /\ UNCHANGED <<bucket, labels, files, seen, trail, hd, opr, asked, now, granted, flowed>>

-----------------------------------------------------------------------------
Approver(pc) == opr.pc = pc /\ UNCHANGED <<pol, ph, bucket, labels, seen, trail, hd, now, flowed>>

(* FilePending.Get: a record older than its TTL is none.                    *)
Held(t) == IF pend[t] # None /\ now - pend[t].at <= ApprovalTTL THEN pend[t] ELSE None

(* /v1/pending shows a held call; the approver answers to what it showed.   *)
List(t) ==
    /\ Approver("idle") /\ asked < MaxAsked /\ asked' = asked + 1 /\ Held(t) # None
    /\ opr' = [AtRest EXCEPT !.pc = "decide", !.tool = t, !.shown = Held(t)]
    /\ UNCHANGED <<files, granted>>

(* /v1/approve: the call on record must be the one that was shown.          *)
(* (Mutated form: what is on record is approved, whatever was shown.)       *)
Same(a, b) == a.args = b.args /\ a.pol = b.pol
Approve ==
    LET p == Held(opr.tool) IN
    /\ Approver("decide")
    /\ opr' = IF ~Bound THEN [opr EXCEPT !.pc = "grant"]
              ELSE IF p = None \/ ~Same(p, opr.shown) THEN AtRest
              ELSE [opr EXCEPT !.pc = "mint", !.rec = p]
    /\ UNCHANGED <<files, asked, granted>>

(* FileApprovalStore.Grant puts the token in place by a rename; `granted`   *)
(* counts it for the arguments that were shown.                             *)
Mint ==
    /\ Approver("mint")
    /\ appr' = [appr EXCEPT ![<<opr.tool, opr.rec.args>>] = [pol |-> opr.rec.pol, exp |-> now + ApprovalTTL]]
    /\ granted' = [granted EXCEPT ![<<opr.tool, opr.shown.args>>] = @ + 1]
    /\ opr' = [opr EXCEPT !.pc = "grant"]
    /\ UNCHANGED <<pend, cosigned, asked>>
Grant ==
    /\ Approver("grant") /\ cosigned' = [cosigned EXCEPT ![opr.tool] = now]
    /\ opr' = [opr EXCEPT !.pc = "clear"]
    /\ UNCHANGED <<pend, appr, asked, granted>>
Deny ==
    /\ Approver("decide") /\ cosigned' = [cosigned EXCEPT ![opr.tool] = None]
    /\ opr' = [opr EXCEPT !.pc = "clear"]
    /\ UNCHANGED <<pend, appr, asked, granted>>
Clear ==
    /\ Approver("clear") /\ opr' = AtRest
    /\ pend' = [pend EXCEPT ![opr.tool] = None]
    /\ UNCHANGED <<appr, cosigned, asked, granted>>

Tick ==
    /\ now < MaxTime /\ now' = now + 1
    /\ UNCHANGED <<pol, ph, bucket, labels, files, seen, trail, hd, opr, asked, granted, flowed>>

Handle(c) ==
    \/ Ensure(c) \/ Decide(c) \/ Approved(c) \/ ConsumeApproval(c) \/ FoldCapability(c)
    \/ Consume(c) \/ Audited(c) \/ Forward(c) \/ Refuse(c)
Next ==
    \/ \E c \in Ids : Handle(c)
    \/ \E t \in Tools : List(t)
    \/ \E s \in Sessions : Drop(s)
    \/ Approve \/ Mint \/ Grant \/ Deny \/ Clear \/ SetPolicy \/ Tick

-----------------------------------------------------------------------------
Forwarded == {c \in Ids : hd[c].pc = "done" /\ hd[c].out = "allow"}
RuleOf(c) == Rules[hd[c].pol][Calls[c].tool]

(* Buckets are never overdrawn, the hash follows its policy, and no more    *)
(* sessions are tracked than the limit (engine.go, httpsession.go).         *)
TypeOK ==
    /\ ph \in {pol, pol - 1}
    /\ \A t \in Tools : bucket[t] # None => bucket[t].tokens >= 0
    /\ Cardinality({s \in Sessions : labels[s] # None}) <= perPeer

(* A request-bound approval releases at most one call, and one with the     *)
(* arguments that the approver was shown (ConsumeApproval, /v1/approve).    *)
OneCallPerApproval ==
    Bound => \A k \in Keys :
        Cardinality({c \in Forwarded : Key(c) = k /\ hd[c].rule /\ RuleOf(c).cosign}) <= granted[k]

(* A single-use capability lets one call through, to its last tick          *)
(* (FoldCapability, Consume, MemNonceStore.Use), and further ones only if   *)
(* they were verified before its expiry and consumed it after: "a second    *)
(* Consume of the same jti fails" (policy/capability.go:250) does not hold  *)
(* of those, since the store has forgotten the jti by then.                 *)
CapabilityUsedOnce ==
    ~DefaultAllow => \A c, e \in Forwarded :
        /\ Calls[c].cap = Calls[e].cap /\ ~hd[c].rule /\ ~hd[e].rule
        /\ ~hd[c].late /\ ~hd[e].late
        => c = e

(* With a fail-closed log nothing is forwarded without its record           *)
(* (Filter.handleToolCall, httpEnforcer.decide).                            *)
AuditedFirst == FailClosed => Forwarded \subseteq trail

(* A call that arrives in a session after a labelled call was forwarded in  *)
(* it is not forwarded under a rule that blocks the label, until the        *)
(* session is deleted or has idled away (ensure, snapshot, addLabels).      *)
LabelsStick == \A c \in Forwarded : hd[c].rule => RuleOf(c).block \cap hd[c].owed = {}

(* What a rate rule let through never exceeds the bucket and what has       *)
(* dripped into it since (allowRate).                                       *)
RateKept ==
    \A t \in DOMAIN Rules[1] \cap Tools : Rules[1][t].max > 0 =>
        Cardinality({c \in Forwarded : Calls[c].tool = t}) * Per <= Rules[1][t].max * (Per + now)

GateHolds ==
    OneCallPerApproval /\ CapabilityUsedOnce /\ AuditedFirst /\ LabelsStick /\ RateKept
=============================================================================
