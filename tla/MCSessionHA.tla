---------------------------- MODULE MCSessionHA ----------------------------
(* Small instances of SessionHA for TLC: two gateways and the events one   *)
(* question is about. "part" selects an instance; a run explores all those *)
(* that Parts names, and checks the properties on each.                    *)
EXTENDS SessionHA, TLC

CONSTANTS a, b, Parts

VARIABLE part

Pair == {a, b}
PairSymmetry == Permutations(Pair)

(* A roaming client, renewals and every end of a session.                  *)
Roam == INSTANCE SessionHA WITH MaxVer <- 0, Events <- {"roam", "renew", "peerClose", "backendExit"}
(* Roaming with progress to save over a store and a backend that may fail. *)
Fault == INSTANCE SessionHA WITH Events <- {"roam", "storeError", "spawnError"}
(* The standby sweep with crashes, the reaper and clean shutdowns.         *)
Standby == INSTANCE SessionHA WITH
              Events <- {"sweep", "reap", "crash", "spawnError", "overflow", "shutdown"}
(* A client that moves and moves on, under the renewal heartbeat.          *)
Fenced == INSTANCE SessionHA WITH MaxVer <- 0, Events <- {"roam", "renew"}
(* An owner that crashes, under the standby sweep.                         *)
Orphan == INSTANCE SessionHA WITH MaxVer <- 0, MaxGen <- 3, Events <- {"sweep", "crash"}
(* A client that comes back while the reaper's timer fires.                *)
Reap == INSTANCE SessionHA WITH MaxVer <- 0, MaxHandles <- 2, Events <- {"roam", "reap"}

MCInit == part \in Parts /\ IF part = "orphan" THEN Orphan!Init ELSE Init
MCNext ==
    /\ UNCHANGED part
    /\ \/ part = "roam" /\ Roam!Next
       \/ part = "faults" /\ Fault!Next
       \/ part = "standby" /\ Standby!Next
       \/ part = "fenced" /\ Fenced!Next
       \/ part = "orphan" /\ Orphan!Next
       \/ part = "reap" /\ Reap!Next
MCSpec == MCInit /\ [][MCNext]_<<part, vars>>

(* The fairness of SessionHA, for the instance that runs.                  *)
In(x) == part = x /\ UNCHANGED part
MCFair ==
    /\ MCSpec
    /\ WF_<<part, vars>>(In("orphan") /\ Orphan!LeaseLapses)
    /\ \A g \in Pair :
          /\ WF_<<part, vars>>(In("fenced") /\ Fenced!Attaching(g))
          /\ WF_<<part, vars>>(In("fenced") /\ Fenced!Maintaining(g))
          /\ WF_<<part, vars>>(In("orphan") /\ Orphan!Attaching(g))
          /\ WF_<<part, vars>>(In("orphan") /\ Orphan!Maintaining(g))
          /\ \A why \in {"renew", "end"} : WF_<<part, vars>>(In("fenced") /\ Fenced!RemovingFor(g, why))
    /\ \A i \in 0..2 : WF_<<part, vars>>(In("fenced") /\ Fenced!CheckpointSave(i))
    /\ \A i \in 0..3 : WF_<<part, vars>>(In("orphan") /\ Orphan!CheckpointSave(i))

-----------------------------------------------------------------------------
(* Under the sweep checkpointed progress never goes back: an adoption      *)
(* loads the record again once the previous owner is fenced (adopt).       *)
SweepNeverRegresses == [][part = "standby" => ~Regresses]_<<part, vars>>

(* A superseded session object leaves its gateway's map (renewOnce).       *)
FencedLeaves == part = "fenced" => Fenced!FencedYields

(* A checkpointed session whose owner crashed is owned again, or over      *)
(* (sweepOnce, adopt).                                                     *)
OrphanRescued == part = "orphan" => Orphan!OrphanAdopted
=============================================================================
