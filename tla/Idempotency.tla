---------------------------- MODULE Idempotency ----------------------------
(***************************************************************************)
(* At-most-once tool execution (mcp/idempotency.go): the middleware loop   *)
(* of every keyed tools/call and the in-memory ClaimStore behind it.       *)
(*                                                                         *)
(* A call is one run of the middleware for a conveyed key.  It reads the   *)
(* clock, and only then takes the store's lock: the two are separate       *)
(* steps, so a call may present a stale "now".  A winner runs the handler, *)
(* reads the clock again and completes its claim.                          *)
(*                                                                         *)
(* A recorded outcome is the call that produced it, or Uncached when it    *)
(* was too large to store.  Time is a counter; MaxTime bounds it.          *)
(***************************************************************************)
EXTENDS Integers, FiniteSets, Sequences

CONSTANTS
    Calls,      \* dispatches of logical calls (retries included)
    ToolOf,     \* ToolOf[c]: the tool call c names
    KeyOf,      \* KeyOf[c]: the key call c conveys in _meta
    TTL,        \* claim lifetime, in ticks
    Cap,        \* memClaimCap: live claims the store holds
    MaxTime,    \* bound on the clock
    StartBy,    \* bound: no call arrives after this time
    NoClaim     \* "the store has no entry"

(* The store's key: the conveyed key, scoped to the called tool.           *)
UnscopedKey(c) == KeyOf[c]
claimKey(c) == <<ToolOf[c], KeyOf[c]>>

Keys == {claimKey(c) : c \in Calls}
Uncached == "uncached"
Outcomes == Calls \cup {Uncached}

ASSUME TimeAssumption == TTL \in Nat \ {0} /\ MaxTime \in Nat /\ StartBy \in Nat /\ Cap \in Nat \ {0}
ASSUME CallAssumption == IsFiniteSet(Calls) /\ Uncached \notin Calls

VARIABLES
    clock,      \* time.Now()
    claims,     \* MemClaimStore.claims
    pc,         \* where each call is in the middleware
    seen,       \* the "now" each call read last
    claimed,    \* the expiry the call passed to its last Claim
    answer,     \* what the call returned
    runs        \* history: per key, the executions in the order they started

vars == <<clock, claims, pc, seen, claimed, answer, runs>>

Pending(t) == [expiry |-> t, done |-> FALSE, result |-> Uncached]
ClaimType == [expiry : Nat, done : BOOLEAN, result : Outcomes]
RunType == [call : Calls, start : Nat, expiry : Nat]
ASSUME NoClaimAssumption == NoClaim \notin ClaimType
PCs == {"idle", "claim", "exec", "ran", "complete", "wait", "returned"}
NoAnswer == "none"
Refused == "refused"
Cancelled == "cancelled"
Answers == Outcomes \cup {NoAnswer, Refused, Cancelled}
ASSUME AnswerAssumption == {NoAnswer, Refused, Cancelled} \cap Calls = {}

TypeOK ==
    /\ clock \in Nat
    /\ claims \in [Keys -> ClaimType \cup {NoClaim}]
    /\ pc \in [Calls -> PCs]
    /\ seen \in [Calls -> Nat]
    /\ claimed \in [Calls -> Nat]
    /\ answer \in [Calls -> Answers]
    /\ runs \in [Keys -> Seq(RunType)]

Init ==
    /\ clock = 0
    /\ claims = [k \in Keys |-> NoClaim]
    /\ pc = [c \in Calls |-> "idle"]
    /\ seen = [c \in Calls |-> 0]
    /\ claimed = [c \in Calls |-> 0]
    /\ answer = [c \in Calls |-> NoAnswer]
    /\ runs = [k \in Keys |-> <<>>]

Tick ==
    /\ clock < MaxTime
    /\ clock' = clock + 1
    /\ UNCHANGED <<claims, pc, seen, claimed, answer, runs>>

(* now := time.Now(); expiry := now.Add(ttl): the loop head, before the    *)
(* store is asked.                                                         *)
ReadNowBackdated(c) ==
    /\ pc[c] = "wait" \/ (pc[c] = "idle" /\ clock <= StartBy)
    /\ pc' = [pc EXCEPT ![c] = "claim"]
    /\ seen' = [seen EXCEPT ![c] = clock]
    /\ claimed' = [claimed EXCEPT ![c] = clock - TTL]
    /\ UNCHANGED <<clock, claims, answer, runs>>
ReadNow(c) ==
    /\ pc[c] = "wait" \/ (pc[c] = "idle" /\ clock <= StartBy)
    /\ pc' = [pc EXCEPT ![c] = "claim"]
    /\ seen' = [seen EXCEPT ![c] = clock]
    /\ claimed' = [claimed EXCEPT ![c] = clock + TTL]
    /\ UNCHANGED <<clock, claims, answer, runs>>

(* The opportunistic eviction at the head of Claim, over every key.        *)
EvictAtExpiry(now, k) ==
    IF claims[k] # NoClaim /\ now >= claims[k].expiry THEN NoClaim ELSE claims[k]
EvictOnlyDone(now, k) ==
    IF claims[k] # NoClaim /\ claims[k].done /\ now > claims[k].expiry
    THEN NoClaim ELSE claims[k]
EvictAt(now, k) ==
    IF claims[k] # NoClaim /\ now > claims[k].expiry THEN NoClaim ELSE claims[k]

Evicted(now) == [k \in Keys |-> EvictAt(now, k)]

Live(m) == {k \in Keys : m[k] # NoClaim}

(* MemClaimStore.Claim for the first claimant: the handler will run.       *)
ClaimWon(c) ==
    LET k == claimKey(c)
        kept == Evicted(seen[c])
    IN  /\ pc[c] = "claim"
        /\ kept[k] = NoClaim
        /\ Cardinality(Live(kept)) < Cap
        /\ claims' = [kept EXCEPT ![k] = Pending(claimed[c])]
        /\ pc' = [pc EXCEPT ![c] = "exec"]
        /\ runs' = [runs EXCEPT ![k] =
                      Append(@, [call |-> c, start |-> clock, expiry |-> claimed[c]])]
        /\ UNCHANGED <<clock, seen, claimed, answer>>

(* A full store answers with an error; the middleware fails closed.        *)
ClaimRefused(c) ==
    LET kept == Evicted(seen[c])
    IN  /\ pc[c] = "claim"
        /\ kept[claimKey(c)] = NoClaim
        /\ Cardinality(Live(kept)) >= Cap
        /\ claims' = kept
        /\ pc' = [pc EXCEPT ![c] = "returned"]
        /\ answer' = [answer EXCEPT ![c] = Refused]
        /\ UNCHANGED <<clock, seen, claimed, runs>>

(* The key is claimed: a done claim answers with the recorded outcome, a   *)
(* pending one makes the call wait and poll.                               *)
ClaimLost(c) ==
    LET k == claimKey(c)
        kept == Evicted(seen[c])
    IN  /\ pc[c] = "claim"
        /\ kept[k] # NoClaim
        /\ claims' = kept
        /\ pc' = [pc EXCEPT ![c] = IF kept[k].done THEN "returned" ELSE "wait"]
        /\ answer' = [answer EXCEPT ![c] = IF kept[k].done THEN kept[k].result ELSE @]
        /\ UNCHANGED <<clock, seen, claimed, runs>>

(* ctx.Done() while waiting for the first claimant.                        *)
CancelWait(c) ==
    /\ pc[c] = "wait"
    /\ pc' = [pc EXCEPT ![c] = "returned"]
    /\ answer' = [answer EXCEPT ![c] = Cancelled]
    /\ UNCHANGED <<clock, claims, seen, claimed, runs>>

(* The handler returns, fails or panics (recovered): an outcome either way.*)
HandlerReturns(c) ==
    /\ pc[c] = "exec"
    /\ pc' = [pc EXCEPT ![c] = "ran"]
    /\ UNCHANGED <<clock, claims, seen, claimed, answer, runs>>

(* time.Now() is evaluated as the argument of Complete, before its lock.   *)
ReadNowForComplete(c) ==
    /\ pc[c] = "ran"
    /\ pc' = [pc EXCEPT ![c] = "complete"]
    /\ seen' = [seen EXCEPT ![c] = clock]
    /\ UNCHANGED <<clock, claims, claimed, answer, runs>>

(* The claim generation Complete may finish: present, pending, with this   *)
(* expiry, and not expired at the presented time.                          *)
Completable(claim, expiry, now) ==
    /\ claim # NoClaim
    /\ ~claim.done
    /\ claim.expiry = expiry
    /\ now <= claim.expiry

(* MemClaimStore.Complete and the return to the winner.  An oversized      *)
(* outcome is recorded as Uncached, but the winner still gets its own.     *)
Complete(c) ==
    LET k == claimKey(c)
    IN  /\ pc[c] = "complete"
        /\ \E r \in {c, Uncached} :
             claims' = [claims EXCEPT ![k] =
                          IF Completable(@, claimed[c], seen[c])
                          THEN [@ EXCEPT !.done = TRUE, !.result = r] ELSE @]
        /\ pc' = [pc EXCEPT ![c] = "returned"]
        /\ answer' = [answer EXCEPT ![c] = c]
        /\ UNCHANGED <<clock, seen, claimed, runs>>

Next ==
    \/ Tick
    \/ \E c \in Calls :
         \/ ReadNow(c) \/ ClaimWon(c) \/ ClaimRefused(c) \/ ClaimLost(c)
         \/ CancelWait(c) \/ HandlerReturns(c) \/ ReadNowForComplete(c) \/ Complete(c)

Spec == Init /\ [][Next]_vars

(* The clock advances and the scheduler runs every goroutine that is not   *)
(* inside the tool handler; nothing is assumed of the handler itself.      *)
Fairness ==
    /\ WF_vars(Tick)
    /\ \A c \in Calls : WF_vars(ReadNow(c) \/ ClaimWon(c) \/ ClaimRefused(c)
                                \/ ClaimLost(c) \/ ReadNowForComplete(c) \/ Complete(c))

FairSpec == Spec /\ Fairness

-----------------------------------------------------------------------------
(* At-most-once per claim: a second execution of a key never starts before *)
(* the claim of an earlier one has expired, whatever clock value the       *)
(* racing duplicates presented to Claim (mcp/idempotency.go:269-286).      *)
AtMostOncePerClaim ==
    \A k \in Keys : \A i, j \in 1..Len(runs[k]) :
        i < j => runs[k][j].start > runs[k][i].expiry

(* A call is answered with its own outcome or with that of a call to the   *)
(* same tool with the same key that really ran: key K on tool A never      *)
(* answers a call to tool B that carries K (mcp/idempotency.go:26-31).     *)
ReplayAnswersSameCall ==
    \A c \in Calls : answer[c] \in Calls =>
        /\ ToolOf[answer[c]] = ToolOf[c] /\ KeyOf[answer[c]] = KeyOf[c]
        /\ pc[answer[c]] \in {"complete", "returned"}

(* A recorded terminal outcome is immutable: the claim holding it can only *)
(* disappear or be replaced by a new pending claim, and only once the      *)
(* clock has passed its expiry.                                            *)
OutcomeImmutable ==
    [][\A k \in Keys : claims[k] # NoClaim /\ claims[k].done =>
          \/ claims'[k] = claims[k]
          \/ clock > claims[k].expiry
             /\ (claims'[k] = NoClaim \/ ~claims'[k].done)]_vars

(* A duplicate waiting on a pending claim stops waiting, even when the     *)
(* handler of the first claimant never returns: the claim completes or     *)
(* its TTL lapses and the waiter claims the key itself.                    *)
WaiterResolves ==
    \A c \in Calls : pc[c] = "wait" ~> pc[c] \in {"exec", "ran", "complete", "returned"}
=============================================================================
