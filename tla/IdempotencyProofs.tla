------------------------- MODULE IdempotencyProofs -------------------------
(***************************************************************************)
(* At-most-once execution for any number of calls, any TTL and any store   *)
(* capacity.  AtMostOncePerClaim is not inductive by itself: a run's claim *)
(* must be known to stay in the store until the clock has passed its       *)
(* expiry, and no call may present a clock value from the future.          *)
(***************************************************************************)
EXTENDS Idempotency, TLAPS

(* No call presents a future time; an execution's claim is in the store or *)
(* has expired.                                                            *)
ClaimGuardsRun ==
    /\ \A c \in Calls : seen[c] <= clock
    /\ \A k \in Keys : \A i \in 1..Len(runs[k]) :
         \/ clock > runs[k][i].expiry
         \/ /\ i = Len(runs[k])
            /\ claims[k] # NoClaim
            /\ claims[k].expiry = runs[k][i].expiry

IInv == TypeOK /\ ClaimGuardsRun /\ AtMostOncePerClaim

(* A leaf that names no prover is for Zenon. *)
USE Zenon

LEMMA InitIInv == Init => IInv
BY SMT, TimeAssumption DEF Init, IInv, TypeOK, ClaimGuardsRun, AtMostOncePerClaim, PCs, Answers, NoAnswer

(* Eviction only forgets claims, and only ones the presented time passed.  *)
LEMMA EvictedKeeps ==
    ASSUME TypeOK, NEW now \in Nat
    PROVE  /\ Evicted(now) \in [Keys -> ClaimType \cup {NoClaim}]
           /\ \A k \in Keys :
                \/ Evicted(now)[k] = claims[k]
                \/ /\ Evicted(now)[k] = NoClaim
                   /\ claims[k] # NoClaim
                   /\ now > claims[k].expiry
BY DEF TypeOK, Evicted, EvictAt

(* Every step keeps the variables in their types.                          *)
LEMMA TypeStep == TypeOK /\ [Next]_vars => TypeOK'
<1> SUFFICES ASSUME TypeOK, [Next]_vars PROVE TypeOK'
    BY SMT
<1> USE TimeAssumption, CallAssumption
<1>k. \A c \in Calls : claimKey(c) \in Keys
    BY DEF Keys
<1>1. CASE Tick
    BY SMT, <1>1 DEF Tick, TypeOK
<1>2. ASSUME NEW c \in Calls, ReadNow(c) PROVE TypeOK'
    BY SMT, <1>2 DEF ReadNow, TypeOK, PCs
<1>3. ASSUME NEW c \in Calls, ClaimWon(c) PROVE TypeOK'
  <2>1. Evicted(seen[c]) \in [Keys -> ClaimType \cup {NoClaim}]
    BY EvictedKeeps DEF TypeOK
  <2>2. Pending(claimed[c]) \in ClaimType
    BY DEF TypeOK, Pending, ClaimType, Outcomes
  <2>3. claims' \in [Keys -> ClaimType \cup {NoClaim}]
    BY <1>3, <2>1, <2>2, <1>k DEF ClaimWon
  <2>4. runs' \in [Keys -> Seq(RunType)]
    BY SMT, <1>3, <1>k DEF ClaimWon, TypeOK, RunType
  <2> QED
    BY <1>3, <2>3, <2>4 DEF ClaimWon, TypeOK, PCs
<1>4. ASSUME NEW c \in Calls, ClaimRefused(c) PROVE TypeOK'
  <2>1. claims' \in [Keys -> ClaimType \cup {NoClaim}]
    BY <1>4, EvictedKeeps DEF ClaimRefused, TypeOK
  <2> QED
    BY <1>4, <2>1 DEF ClaimRefused, TypeOK, PCs, Answers
<1>5. ASSUME NEW c \in Calls, ClaimLost(c) PROVE TypeOK'
  <2>1. claims' \in [Keys -> ClaimType \cup {NoClaim}]
    BY <1>5, EvictedKeeps DEF ClaimLost, TypeOK
  <2>2. answer' \in [Calls -> Answers]
    BY <1>5, <2>1, <1>k, NoClaimAssumption DEF ClaimLost, TypeOK, Answers, ClaimType
  <2> QED
    BY <1>5, <2>1, <2>2 DEF ClaimLost, TypeOK, PCs
<1>6. ASSUME NEW c \in Calls, CancelWait(c) PROVE TypeOK'
    BY <1>6 DEF CancelWait, TypeOK, PCs, Answers
<1>7. ASSUME NEW c \in Calls, HandlerReturns(c) PROVE TypeOK'
    BY <1>7 DEF HandlerReturns, TypeOK, PCs
<1>8. ASSUME NEW c \in Calls, ReadNowForComplete(c) PROVE TypeOK'
    BY <1>8 DEF ReadNowForComplete, TypeOK, PCs
<1>9. ASSUME NEW c \in Calls, Complete(c) PROVE TypeOK'
  <2>1. claims' \in [Keys -> ClaimType \cup {NoClaim}]
    <3>1. PICK r \in {c, Uncached} :
            claims' = [claims EXCEPT ![claimKey(c)] =
                         IF Completable(@, claimed[c], seen[c])
                         THEN [@ EXCEPT !.done = TRUE, !.result = r] ELSE @]
      BY <1>9 DEF Complete
    <3>2. r \in Outcomes
      BY DEF Outcomes
    <3>3. ASSUME NEW x \in ClaimType PROVE [x EXCEPT !.done = TRUE, !.result = r] \in ClaimType
      BY <3>2 DEF ClaimType
    <3> QED
      BY <3>1, <3>3, <1>k DEF TypeOK, Completable
  <2> QED
    BY <1>9, <2>1 DEF Complete, TypeOK, PCs, Answers, Outcomes
<1>10. CASE UNCHANGED vars
    BY <1>10 DEF vars, TypeOK
<1> QED
    BY <1>1, <1>2, <1>3, <1>4, <1>5, <1>6, <1>7, <1>8, <1>9, <1>10 DEF Next

(* Every step keeps at-most-once and the claim that guards each run.       *)
LEMMA GuardStep == IInv /\ [Next]_vars => (ClaimGuardsRun /\ AtMostOncePerClaim)'
<1> SUFFICES ASSUME IInv, [Next]_vars PROVE (ClaimGuardsRun /\ AtMostOncePerClaim)'
    BY SMT
<1> USE TimeAssumption DEF IInv
<1>k. \A c \in Calls : claimKey(c) \in Keys
    BY DEF Keys
<1>t. \A k \in Keys : \A i \in 1..Len(runs[k]) : runs[k][i].expiry \in Nat
  <2>1. ASSUME NEW k \in Keys, NEW i \in 1..Len(runs[k]) PROVE runs[k][i] \in RunType
    BY SMT DEF TypeOK
  <2> QED
    BY <2>1 DEF RunType
<1>e. ASSUME NEW c \in Calls, claims' = Evicted(seen[c]), UNCHANGED <<clock, seen, runs>>
      PROVE (ClaimGuardsRun /\ AtMostOncePerClaim)'
  <2>1. seen[c] \in Nat
    BY DEF TypeOK
  <2>2. \A k \in Keys : \/ claims'[k] = claims[k]
                        \/ /\ claims'[k] = NoClaim
                           /\ claims[k] # NoClaim
                           /\ clock > claims[k].expiry
    BY SMT, <1>e, <2>1, EvictedKeeps, NoClaimAssumption DEF TypeOK, ClaimGuardsRun, ClaimType
  <2> QED
    BY SMT, <1>e, <2>2 DEF ClaimGuardsRun, AtMostOncePerClaim
<1>1. CASE Tick
  <2>1. clock \in Nat /\ \A c \in Calls : seen[c] \in Nat
    BY DEF TypeOK
  <2> QED
    BY SMT, <1>1, <1>t, <2>1 DEF Tick, ClaimGuardsRun, AtMostOncePerClaim
<1>2. ASSUME NEW c \in Calls, ReadNow(c) PROVE (ClaimGuardsRun /\ AtMostOncePerClaim)'
    BY SMT, <1>2 DEF ReadNow, TypeOK, ClaimGuardsRun, AtMostOncePerClaim
<1>3. ASSUME NEW c \in Calls, ClaimWon(c) PROVE (ClaimGuardsRun /\ AtMostOncePerClaim)'
  <2> DEFINE key == claimKey(c)
             run == [call |-> c, start |-> clock, expiry |-> claimed[c]]
  <2>1. seen[c] \in Nat /\ key \in Keys
    BY <1>k DEF TypeOK
  <2>2. \A k \in Keys : \/ Evicted(seen[c])[k] = claims[k]
                        \/ /\ Evicted(seen[c])[k] = NoClaim
                           /\ claims[k] # NoClaim
                           /\ clock > claims[k].expiry
    BY SMT, <2>1, EvictedKeeps, NoClaimAssumption DEF TypeOK, ClaimGuardsRun, ClaimType
  <2>3. \A i \in 1..Len(runs[key]) : clock > runs[key][i].expiry
    BY <1>3, <2>1, <2>2 DEF ClaimWon, TypeOK, ClaimGuardsRun
  <2>4. /\ runs[key] \in Seq(RunType) /\ run \in RunType
        /\ runs'[key] = Append(runs[key], run)
        /\ \A k \in Keys \ {key} : runs'[k] = runs[k]
    BY <1>3, <2>1 DEF ClaimWon, TypeOK, RunType
  <2>5. /\ claims'[key] = Pending(claimed[c])
        /\ \A k \in Keys \ {key} : claims'[k] = Evicted(seen[c])[k]
    BY <1>3, <2>1, EvictedKeeps DEF ClaimWon
  <2>6. claims'[key] # NoClaim /\ claims'[key].expiry = run.expiry
    <3>1. Pending(claimed[c]) \in ClaimType
      BY DEF Pending, TypeOK, ClaimType, Outcomes
    <3>2. Pending(claimed[c]).expiry = claimed[c]
      BY DEF Pending
    <3> QED
      BY <2>5, <3>1, <3>2, NoClaimAssumption
  <2>7. /\ Len(runs'[key]) = Len(runs[key]) + 1
        /\ runs'[key][Len(runs[key]) + 1] = run
        /\ \A i \in 1..Len(runs[key]) : runs'[key][i] = runs[key][i]
    BY SMT, <2>4
  <2>8. clock' = clock /\ seen' = seen
    BY <1>3 DEF ClaimWon
  <2>a. Len(runs[key]) \in Nat
    BY SMT, <2>4
  <2>9. ASSUME NEW k \in Keys, NEW i \in 1..Len(runs'[k])
        PROVE  \/ clock' > runs'[k][i].expiry
               \/ /\ i = Len(runs'[k])
                  /\ claims'[k] # NoClaim
                  /\ claims'[k].expiry = runs'[k][i].expiry
    <3>1. CASE k = key
      <4>1. i \in 1..Len(runs[key]) \/ i = Len(runs[key]) + 1
        BY SMT, <3>1, <2>7, <2>a
      <4>2. CASE i \in 1..Len(runs[key])
        BY <3>1, <4>2, <2>3, <2>7, <2>8
      <4>3. CASE i = Len(runs[key]) + 1
        BY <3>1, <4>3, <2>6, <2>7
      <4> QED
        BY <4>1, <4>2, <4>3
    <3>2. CASE k # key
      BY SMT, <3>2, <2>2, <2>4, <2>5, <2>8 DEF ClaimGuardsRun
    <3> QED BY <3>1, <3>2
  <2>10. ClaimGuardsRun'
    BY <2>8, <2>9 DEF ClaimGuardsRun
  <2>11. ASSUME NEW k \in Keys, NEW i \in 1..Len(runs'[k]), NEW j \in 1..Len(runs'[k]), i < j
         PROVE  runs'[k][j].start > runs'[k][i].expiry
    <3>1. CASE k = key
      <4>1. i \in 1..Len(runs[key]) /\ runs'[k][i] = runs[key][i]
        BY SMT, <3>1, <2>11, <2>7, <2>a
      <4>2. CASE j = Len(runs[key]) + 1
        BY SMT, <4>1, <4>2, <3>1, <2>3, <2>7
      <4>3. CASE j # Len(runs[key]) + 1
        <5>1. j \in 1..Len(runs[key]) /\ runs'[k][j] = runs[key][j]
          BY SMT, <4>3, <3>1, <2>7, <2>a
        <5> QED
          BY <4>1, <5>1, <2>11, <2>1 DEF AtMostOncePerClaim
      <4> QED BY <4>2, <4>3
    <3>2. CASE k # key
      BY <3>2, <2>11, <2>4 DEF AtMostOncePerClaim
    <3> QED BY <3>1, <3>2
  <2> QED
    BY <2>10, <2>11 DEF AtMostOncePerClaim
<1>4. ASSUME NEW c \in Calls, ClaimRefused(c) PROVE (ClaimGuardsRun /\ AtMostOncePerClaim)'
    BY <1>4, <1>e DEF ClaimRefused
<1>5. ASSUME NEW c \in Calls, ClaimLost(c) PROVE (ClaimGuardsRun /\ AtMostOncePerClaim)'
    BY <1>5, <1>e DEF ClaimLost
<1>6. ASSUME NEW c \in Calls, CancelWait(c) \/ HandlerReturns(c)
      PROVE (ClaimGuardsRun /\ AtMostOncePerClaim)'
    BY SMT, <1>6 DEF CancelWait, HandlerReturns, ClaimGuardsRun, AtMostOncePerClaim
<1>7. ASSUME NEW c \in Calls, ReadNowForComplete(c) PROVE (ClaimGuardsRun /\ AtMostOncePerClaim)'
    BY SMT, <1>7 DEF ReadNowForComplete, TypeOK, ClaimGuardsRun, AtMostOncePerClaim
<1>8. ASSUME NEW c \in Calls, Complete(c) PROVE (ClaimGuardsRun /\ AtMostOncePerClaim)'
  <2>1. ASSUME NEW x \in ClaimType, NEW r \in Outcomes
        PROVE  LET y == [x EXCEPT !.done = TRUE, !.result = r]
               IN  y # NoClaim /\ y.expiry = x.expiry
    BY NoClaimAssumption DEF ClaimType
  <2>2. PICK r \in Outcomes :
          claims' = [claims EXCEPT ![claimKey(c)] =
                       IF Completable(@, claimed[c], seen[c])
                       THEN [@ EXCEPT !.done = TRUE, !.result = r] ELSE @]
    BY <1>8 DEF Complete, Outcomes
  <2>3. \A k \in Keys : claims[k] # NoClaim =>
          claims'[k] # NoClaim /\ claims'[k].expiry = claims[k].expiry
    BY <2>1, <2>2, <1>k DEF TypeOK
  <2> QED
    BY <1>8, <2>3 DEF Complete, ClaimGuardsRun, AtMostOncePerClaim
<1>9. CASE UNCHANGED vars
    BY <1>9 DEF vars, ClaimGuardsRun, AtMostOncePerClaim
<1> QED
    BY <1>1, <1>2, <1>3, <1>4, <1>5, <1>6, <1>7, <1>8, <1>9 DEF Next

(* What replays rest on: an outcome in the store is that of a call with    *)
(* this tool and key which has returned, and so are the answers.           *)
OutcomesOwn ==
    /\ \A k \in Keys : claims[k] # NoClaim /\ claims[k].result \in Calls =>
         claimKey(claims[k].result) = k /\ pc[claims[k].result] = "returned"
    /\ \A c \in Calls : answer[c] \in Calls =>
         claimKey(answer[c]) = claimKey(c) /\ pc[answer[c]] = "returned"

(* A call that has returned stays so, and a step that leaves answers and   *)
(* stored outcomes as they are, or forgets some, keeps them owned.         *)
LEMMA OwnKept ==
    ASSUME TypeOK, OutcomesOwn,
           \A c \in Calls : pc[c] = "returned" => pc'[c] = "returned",
           answer' = answer,
           \A k \in Keys : claims'[k] # NoClaim => claims[k] # NoClaim /\ claims'[k].result = claims[k].result
    PROVE  OutcomesOwn'
BY DEF OutcomesOwn, TypeOK

(* Every step keeps stored outcomes and answers owned by their call.       *)
LEMMA OwnStep == TypeOK /\ OutcomesOwn /\ [Next]_vars => OutcomesOwn'
<1> SUFFICES ASSUME TypeOK, OutcomesOwn, [Next]_vars PROVE OutcomesOwn'
    BY SMT
<1> USE CallAssumption
<1>k. \A c \in Calls : claimKey(c) \in Keys
    BY DEF Keys
<1>e. ASSUME NEW c \in Calls
      PROVE  \A k \in Keys : Evicted(seen[c])[k] # NoClaim =>
               claims[k] # NoClaim /\ Evicted(seen[c])[k] = claims[k]
    BY EvictedKeeps DEF TypeOK
<1>1. CASE Tick
    BY <1>1, OwnKept DEF Tick
<1>2. ASSUME NEW c \in Calls, ReadNow(c) PROVE OutcomesOwn'
    BY <1>2, OwnKept DEF ReadNow, TypeOK
<1>3. ASSUME NEW c \in Calls, ClaimWon(c) PROVE OutcomesOwn'
  <2>1. Pending(claimed[c]).result \notin Calls
    BY DEF Pending
  <2>2. \A k \in Keys : claims'[k] # NoClaim /\ claims'[k].result \in Calls =>
          claims[k] # NoClaim /\ claims'[k] = claims[k]
    BY <1>3, <1>e, <1>k, <2>1, EvictedKeeps DEF ClaimWon, TypeOK
  <2>3. /\ answer' = answer
        /\ \A d \in Calls : pc[d] = "returned" => pc'[d] = "returned"
    BY <1>3 DEF ClaimWon, TypeOK
  <2> QED
    BY <2>2, <2>3 DEF OutcomesOwn
<1>4. ASSUME NEW c \in Calls, ClaimRefused(c) PROVE OutcomesOwn'
  <2>1. \A d \in Calls : answer'[d] = answer[d] \/ (d = c /\ answer'[d] = Refused)
    BY <1>4 DEF ClaimRefused, TypeOK
  <2>2. \A d \in Calls : pc[d] = "returned" => pc'[d] = "returned"
    BY <1>4 DEF ClaimRefused, TypeOK
  <2> QED
    BY SMT, <1>4, <1>e, <2>1, <2>2, AnswerAssumption DEF ClaimRefused, OutcomesOwn
<1>5. ASSUME NEW c \in Calls, ClaimLost(c) PROVE OutcomesOwn'
  <2>1. \A d \in Calls : pc[d] = "returned" => pc'[d] = "returned"
    BY <1>5 DEF ClaimLost, TypeOK
  <2>2. \A k \in Keys : claims'[k] # NoClaim => claims[k] # NoClaim /\ claims'[k] = claims[k]
    BY <1>5, <1>e DEF ClaimLost
  <2>3. claims[claimKey(c)] # NoClaim /\ Evicted(seen[c])[claimKey(c)] = claims[claimKey(c)]
    BY <1>5, <1>e, <1>k DEF ClaimLost
  <2>4. \A d \in Calls : answer'[d] = answer[d] \/ (d = c /\ answer'[d] = claims[claimKey(c)].result)
    BY <1>5, <2>3 DEF ClaimLost, TypeOK
  <2> QED
    BY SMT, <2>1, <2>2, <2>3, <2>4, <1>k DEF OutcomesOwn
<1>6. ASSUME NEW c \in Calls, CancelWait(c) PROVE OutcomesOwn'
  <2>1. \A d \in Calls : answer'[d] = answer[d] \/ (d = c /\ answer'[d] = Cancelled)
    BY <1>6 DEF CancelWait, TypeOK
  <2>2. \A d \in Calls : pc[d] = "returned" => pc'[d] = "returned"
    BY <1>6 DEF CancelWait, TypeOK
  <2> QED
    BY <1>6, <2>1, <2>2, AnswerAssumption DEF CancelWait, OutcomesOwn
<1>7. ASSUME NEW c \in Calls, HandlerReturns(c) \/ ReadNowForComplete(c) PROVE OutcomesOwn'
    BY <1>7, OwnKept DEF HandlerReturns, ReadNowForComplete, TypeOK
<1>8. ASSUME NEW c \in Calls, Complete(c) PROVE OutcomesOwn'
  <2>1. PICK r \in {c, Uncached} :
          claims' = [claims EXCEPT ![claimKey(c)] =
                       IF Completable(@, claimed[c], seen[c])
                       THEN [@ EXCEPT !.done = TRUE, !.result = r] ELSE @]
    BY <1>8 DEF Complete
  <2>2. ASSUME NEW x \in ClaimType PROVE [x EXCEPT !.done = TRUE, !.result = r].result = r
    BY DEF ClaimType
  <2>3. \A k \in Keys : \/ claims'[k] = claims[k]
                        \/ k = claimKey(c) /\ claims'[k].result = r
    BY <2>1, <2>2, <1>k DEF TypeOK, Completable
  <2>4. /\ pc'[c] = "returned"
        /\ \A d \in Calls : pc[d] = "returned" => pc'[d] = "returned"
        /\ \A d \in Calls : answer'[d] = answer[d] \/ (d = c /\ answer'[d] = c)
    BY <1>8 DEF Complete, TypeOK
  <2> QED
    BY <2>3, <2>4 DEF OutcomesOwn
<1>9. CASE UNCHANGED vars
    BY <1>9 DEF vars, OutcomesOwn
<1> QED
    BY <1>1, <1>2, <1>3, <1>4, <1>5, <1>6, <1>7, <1>8, <1>9 DEF Next

(* For every set of calls, TTL and capacity, an execution of a key never   *)
(* starts before the claim of an earlier execution of it has expired:      *)
(* MemClaimStore.Claim decides first execution atomically, and a stale     *)
(* "now" can only make it forget less.                                     *)
THEOREM AtMostOnce == Spec => []AtMostOncePerClaim
<1>1. IInv /\ [Next]_vars => IInv'
    BY TypeStep, GuardStep DEF IInv
<1>2. IInv => AtMostOncePerClaim
    BY DEF IInv
<1> QED
    BY InitIInv, <1>1, <1>2, PTL DEF Spec

(* The store and the middleware stay well formed for every set of calls,   *)
(* TTL and capacity; in particular Complete never invents an outcome.      *)
THEOREM IdempotencyTyping == Spec => []TypeOK
<1>1. Init => TypeOK
    BY InitIInv DEF IInv
<1> QED
    BY <1>1, TypeStep, PTL DEF Spec

(* Whatever races on the store, a call is answered with its own outcome or *)
(* with that of a call to the same tool with the same key which has run:   *)
(* claimKey scopes the conveyed key to the tool, and Complete records only *)
(* what its own handler produced.                                          *)
THEOREM ReplaysOwn == Spec => []ReplayAnswersSameCall
<1>1. Init => TypeOK /\ OutcomesOwn
    BY SMT, InitIInv, AnswerAssumption DEF IInv, Init, OutcomesOwn
<1>2. TypeOK /\ OutcomesOwn /\ [Next]_vars => (TypeOK /\ OutcomesOwn)'
    BY TypeStep, OwnStep
<1>3. OutcomesOwn => ReplayAnswersSameCall
    BY DEF OutcomesOwn, ReplayAnswersSameCall, claimKey
<1> QED
    BY <1>1, <1>2, <1>3, PTL DEF Spec

(* A recorded outcome leaves the store only when the clock has passed its  *)
(* expiry, and then gives way to nothing or to a pending claim: Claim      *)
(* evicts by a time that is never ahead of the clock, and Complete touches *)
(* only pending claims.                                                    *)
THEOREM OutcomesStay == Spec => OutcomeImmutable
<1> DEFINE Stays == \A k \in Keys : claims[k] # NoClaim /\ claims[k].done =>
                      \/ claims'[k] = claims[k]
                      \/ clock > claims[k].expiry
                         /\ (claims'[k] = NoClaim \/ ~claims'[k].done)
<1>1. IInv /\ [Next]_vars => [Stays]_vars
  <2> SUFFICES ASSUME IInv, Next PROVE Stays
    BY SMT
  <2> USE DEF IInv
  <2>k. \A c \in Calls : claimKey(c) \in Keys
    BY DEF Keys
  <2>e. ASSUME NEW c \in Calls
        PROVE  \A k \in Keys : \/ Evicted(seen[c])[k] = claims[k]
                               \/ Evicted(seen[c])[k] = NoClaim /\ clock > claims[k].expiry
    <3>1. seen[c] \in Nat /\ seen[c] <= clock /\ clock \in Nat
      BY DEF TypeOK, ClaimGuardsRun
    <3>2. \A k \in Keys : claims[k] # NoClaim => claims[k].expiry \in Nat
      BY DEF TypeOK, ClaimType
    <3> QED
      BY SMT, <3>1, <3>2, EvictedKeeps
  <2>1. CASE Tick
    BY <2>1 DEF Tick
  <2>2. ASSUME NEW c \in Calls, ClaimWon(c) PROVE Stays
    <3>1. Evicted(seen[c]) \in [Keys -> ClaimType \cup {NoClaim}]
      BY EvictedKeeps DEF TypeOK
    <3>2. \A k \in Keys : \/ claims'[k] = Evicted(seen[c])[k]
                          \/ /\ Evicted(seen[c])[k] = NoClaim
                             /\ claims'[k] = Pending(claimed[c])
      BY <2>2, <2>k, <3>1 DEF ClaimWon
    <3>3. ~Pending(claimed[c]).done
      BY DEF Pending
    <3> QED
      BY <2>e, <3>2, <3>3
  <2>3. ASSUME NEW c \in Calls, ClaimRefused(c) \/ ClaimLost(c) PROVE Stays
    BY SMT, <2>3, <2>e DEF ClaimRefused, ClaimLost
  <2>4. ASSUME NEW c \in Calls,
               ReadNow(c) \/ CancelWait(c) \/ HandlerReturns(c) \/ ReadNowForComplete(c)
        PROVE  Stays
    BY <2>4 DEF ReadNow, CancelWait, HandlerReturns, ReadNowForComplete
  <2>5. ASSUME NEW c \in Calls, Complete(c) PROVE Stays
    BY <2>5, <2>k DEF Complete, Completable, TypeOK
  <2> QED
    BY <2>1, <2>2, <2>3, <2>4, <2>5 DEF Next
<1>2. IInv /\ [Next]_vars => IInv'
    BY TypeStep, GuardStep DEF IInv
<1> QED
    BY InitIInv, <1>1, <1>2, PTL DEF Spec, OutcomeImmutable
=============================================================================
