----------------------------- MODULE LeaseStore -----------------------------
(***************************************************************************)
(* The lease half of the session store (session/store.go, MemStore; the    *)
(* PostgreSQL store in pgstore/lease.go makes the same decisions inside a  *)
(* row-locked transaction).  One record is kept per session; every         *)
(* operation below is one atomic step of the store.                        *)
(*                                                                         *)
(* A record is [owner, gen, lease, ver, ident]: the owning gateway         *)
(* instance, the fencing generation, how its expiry compares with the      *)
(* clock, the version of the checkpointed session state, and whether the   *)
(* checkpoint carries the creator's identity (a freshly acquired record    *)
(* does not until the first SaveIfOwned).                                  *)
(***************************************************************************)
EXTENDS Integers

CONSTANTS
    Gateways,   \* gateway instances (a restarted gateway is a new instance)
    Nobody,     \* the empty owner of a released lease
    NoRec       \* "no record for this session"

(* now < LeaseExpiry; expired; expired for longer than sweepMargin (2 TTL).*)
LeaseStates == {"live", "lapsed", "stale"}

Record == [owner : Gateways \cup {Nobody}, gen : Nat, lease : LeaseStates,
           ver : Nat, ident : BOOLEAN]

ASSUME StoreAssumption == NoRec \notin Record /\ Nobody \notin Gateways

FreshRecord(g) ==
    [owner |-> g, gen |-> 1, lease |-> "live", ver |-> 0, ident |-> FALSE]

(* AcquireLease: refuses a live lease of another owner and a moved         *)
(* generation.                                                             *)
canAcquire(cur, g, expectedGen) ==
    IF cur = NoRec THEN expectedGen = 0
    ELSE /\ ~(cur.lease = "live" /\ cur.owner # g)
         /\ cur.gen = expectedGen

(* TakeoverLease: the generation compare-and-swap alone decides.           *)
canTakeover(cur, expectedGen) ==
    IF cur = NoRec THEN expectedGen = 0 ELSE cur.gen = expectedGen

(* What both grants write: the state is kept, the generation moves on.     *)
(* (Mutated form: the generation does not move.)                           *)
GrantKeepingGeneration(cur, g) ==
    IF cur = NoRec THEN FreshRecord(g)
    ELSE [cur EXCEPT !.owner = g, !.lease = "live"]
Grant(cur, g) ==
    IF cur = NoRec THEN FreshRecord(g)
    ELSE [cur EXCEPT !.owner = g, !.gen = @ + 1, !.lease = "live"]

(* The fence shared by RenewLease, ReleaseLease and SaveIfOwned.           *)
(* (Mutated form: an older generation passes.)                             *)
HoldsByGenerationAtLeast(cur, g, gen) == cur # NoRec /\ cur.gen >= gen
Holds(cur, g, gen) == cur # NoRec /\ cur.owner = g /\ cur.gen = gen

Renewed(cur) == [cur EXCEPT !.lease = "live"]

Released(cur) == [cur EXCEPT !.owner = Nobody, !.lease = "stale"]

Saved(cur, ver) == [cur EXCEPT !.ver = ver, !.ident = TRUE]

(* DeleteIfOwner compares the owner and nothing else.                      *)
(* (Mutated forms: it compares nothing; a released record is deleted too.) *)
DeletesReleased(cur, g) == cur # NoRec /\ cur.owner \in {g, Nobody}
DeletesAlways(cur, g) == cur # NoRec
DeletesIfOwner(cur, g) == cur # NoRec /\ cur.owner = g

(* adoptable: the sweep's eligibility test on a listed record.             *)
(* (Mutated form: only a released session is.)                             *)
AdoptsReleasedOnly(cur, g) == cur # NoRec /\ cur.ident /\ cur.owner = Nobody
adoptable(cur, g) ==
    /\ cur # NoRec /\ cur.ident /\ cur.owner # g
    /\ cur.owner = Nobody \/ cur.lease = "stale"
=============================================================================
