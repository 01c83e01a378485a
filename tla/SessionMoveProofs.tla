------------------------- MODULE SessionMoveProofs -------------------------
(***************************************************************************)
(* What SessionMove promises, for every bound on generations, messages and *)
(* moves, in both migration modes and under every choice of events: the    *)
(* state is well formed, one grant wins one lease, no warm backend is left *)
(* behind, the destination serves from the last state saved, and wherever  *)
(* its client redials the session stays resumable, unless a gateway takes  *)
(* it that had not settled what it knew of it.                             *)
(***************************************************************************)
EXTENDS SessionMove, TLAPS

(* Two gateways of the fleet, and room for one generation.                 *)
Fleet == Src \in Gateways /\ Dst \in Gateways /\ Src # Dst /\ MaxGen \in Nat /\ MaxGen > 0

Ends == {Src, Dst}
Records == {r \in Record : r.gen \in Gens}
Objects == [gw : Gateways \cup {Nobody}, ver : Nat, inbox : Nat, armed : BOOLEAN]
Attaches == [pc : {"idle", "load", "take"}, ps : Records \cup {NoRec}, tries : Nat]
CtlPlaces == {"none", "read", "spawn", "authorize", "cas", "check", "load", "promote"}

(* The state of the store and of the gateways is well formed.              *)
StoreShape ==
    /\ rec \in Records \cup {NoRec}
    /\ obj \in [Gens -> Objects]
    /\ live \in [Ends -> 0..MaxGen]
    /\ removes \in [Ends -> [take : Nat, delete : Nat]]
    /\ att \in [Ends -> Attaches]
    /\ \A g \in Ends : att[g].pc = "take" => att[g].ps # NoRec

(* So is the state of the move.                                            *)
MoveShape ==
    /\ ctl \in [pc : CtlPlaces, prepared : BOOLEAN, ps : Records \cup {NoRec}, gen : 0..MaxGen]
    /\ ctl.pc \in {"spawn", "promote"} => ctl.ps # NoRec
    /\ warm \in 0..MaxGen
    /\ mv \in [pc : {"idle", "prepare", "failed", "final", "commit", "done", "unknown", "dead"},
               gen : 0..MaxGen, tries : Nat]
    /\ wire \in [open : BOOLEAN, dst : {"", "prepare", "commit", "abort"},
                 src : {"", "ready", "refuse", "committed", "cas_lost"}]
    /\ client \in Gens \cup {Off, Lost, Arriving}
    /\ grants \in 0..1 /\ moved \in Nat

Shape == StoreShape /\ MoveShape

(* A grant is unused, in the hand of the commit that consumed it, or has   *)
(* moved the session.                                                      *)
InHand == IF ctl.pc = "cas" THEN 1 ELSE 0
GrantSpent == moved + grants + InHand <= 1

(* A warm entry has a handler that will claim it or drop it.               *)
WarmAttended ==
    /\ warm # 0 => ctl.prepared /\ ctl.pc \in {"read", "spawn"}
    /\ mv.pc = "idle" => ctl.pc = "none"

MoveInv == Shape /\ GrantSpent /\ WarmAttended

(* The order of the move's frames: READY, the freeze and COMMIT find a     *)
(* handler that has parked its warm backend and reads on.                  *)
Frames ==
    /\ wire.open /\ (wire.src = "ready" \/ mv.pc = "final" \/ wire.dst = "commit") =>
           ctl.prepared /\ ctl.pc = "read"
    /\ wire.dst = "prepare" => ctl.pc \in {"read", "none"}
    /\ wire.dst = "prepare" \/ ctl.pc = "spawn" => wire.src = "" /\ mv.pc # "final"
    /\ wire.dst = "commit" => wire.src # "ready" /\ mv.pc # "final"
    /\ mv.pc = "final" => wire.src = ""

(* A gateway has one object of the session, the one its map names, and the *)
(* owner's is of the generation the record says.                           *)
Placed ==
    /\ \A g \in Ends, i \in Gens : obj[i].gw = g <=> live[g] = i
    /\ \A g \in Ends : att[g].pc # "idle" => live[g] = 0
    /\ \A g \in Ends : rec.owner = g /\ live[g] # 0 => live[g] = rec.gen

(* A removal is pending only where the record's owner is not.              *)
RemovedElsewhere == \A g \in Ends : removes[g] # NoRemoval => rec.owner # g

(* A commit that has won holds the lease or has lost it to the source, and *)
(* the place of the object it will register is free.                       *)
Won ==
    Winning => /\ ctl.gen \in Gens /\ obj[ctl.gen].gw = Nobody /\ live[Dst] = 0
               /\ rec.owner = Dst => rec.gen = ctl.gen

(* The source saves for the last time what it owns, and once the           *)
(* destination has the session, or says so, the source does not.           *)
GivenUp ==
    /\ mv.pc = "final" /\ rec.owner = Src => mv.gen = rec.gen
    /\ Moving /\ (Winning \/ wire.src = "committed" \/ (ctl.prepared /\ live[Dst] # 0)) =>
           rec.owner # Src

(* All this while no reaper has ended the session and no gateway has taken *)
(* it before it had settled what it knew of it.                            *)
Quietly == ~expired /\ ~overtaken
InOrder == rec # NoRec /\ Placed /\ RemovedElsewhere /\ Won /\ GivenUp
Kept == Quietly => InOrder

(* What the destination knows of the record while a commit is under way.   *)
Committing == ctl.pc \in {"authorize", "cas", "load", "promote"}

(* No object is ahead of the record, and neither is what the destination   *)
(* has read of it; a commit whose generation is the record's has the       *)
(* session's place on the destination to itself, and what it loaded after  *)
(* it won the lease is what the record still says.                         *)
Behind ==
    rec # NoRec =>
        /\ \A i \in Gens : i > rec.gen => obj[i].gw = Nobody
        /\ warm <= rec.gen
        /\ ctl.pc = "spawn" => ctl.ps.gen <= rec.gen
        /\ Committing => ctl.gen <= rec.gen
        /\ Committing /\ ctl.gen = rec.gen => live[Dst] = 0
        /\ ctl.pc \in {"load", "promote"} /\ ctl.gen = rec.gen => obj[rec.gen].gw # Dst
        /\ ctl.pc = "promote" /\ Holds(rec, Dst, ctl.gen) => ctl.ps.ver = rec.ver
-----------------------------------------------------------------------------
(* A leaf that names no prover is for Zenon. *)
USE Zenon
(* NoRec is no record.                                                     *)
LEMMA RecordFacts ==
    /\ NoRec \notin Records
    /\ Nobody \notin Gateways
    /\ \A r \in Records : /\ r \in Record /\ r.gen \in Gens /\ r.ver \in Nat
                          /\ r.owner \in Gateways \cup {Nobody}
BY StoreAssumption DEF Records, Record

LEMMA SavedRecord ==
    ASSUME NEW r \in Records, NEW v \in Nat
    PROVE  /\ Saved(r, v) \in Records
           /\ Saved(r, v).gen = r.gen /\ Saved(r, v).owner = r.owner /\ Saved(r, v).ver = v
BY DEF Records, Record, Saved

LEMMA GrantedRecord ==
    ASSUME Fleet, NEW r \in Records, NEW g \in Ends, r.gen < MaxGen
    PROVE  /\ Grant(r, g) \in Records
           /\ Grant(r, g).gen = r.gen + 1 /\ Grant(r, g).owner = g /\ Grant(r, g).ver = r.ver
<1>1. r # NoRec BY RecordFacts
<1>2. Grant(r, g) = [r EXCEPT !.owner = g, !.gen = @ + 1, !.lease = "live"] BY <1>1 DEF Grant
<1>3. r \in Record /\ r.gen \in Gens BY DEF Records
<1>4. r.gen + 1 \in Gens BY SMT, <1>3 DEF Gens, Fleet
<1>5. r.gen + 1 \in Nat BY SMT, <1>3 DEF Gens, Fleet
<1>6. g \in Gateways BY DEF Fleet, Ends
<1> QED BY <1>2, <1>3, <1>4, <1>5, <1>6 DEF Records, Record, LeaseStates

LEMMA RemovalAsked ==
    ASSUME StoreShape, NEW g, removes' = AskRemove(g)
    PROVE  /\ removes' \in [Ends -> [take : Nat, delete : Nat]]
           /\ \A h \in Ends : h # g => removes'[h] = removes[h]
<1>1. removes' = [removes EXCEPT ![g].take = @ + 1] BY DEF AskRemove
<1>2. \A h \in Ends : removes[h].take \in Nat /\ removes[h].take + 1 \in Nat BY SMT DEF StoreShape
<1>3. removes' \in [Ends -> [take : Nat, delete : Nat]] BY <1>1, <1>2 DEF StoreShape
<1>4. \A h \in Ends : h # g => removes'[h] = removes[h] BY <1>1 DEF StoreShape
<1> QED BY <1>3, <1>4

(* A checkpoint leaves the lease as it is; it writes the version if the    *)
(* lease is held, and asks for the session's removal otherwise.            *)
LEMMA Checkpointed ==
    ASSUME StoreShape, NEW g, NEW i, NEW v, Checkpoint(g, i, v), Holds(rec, g, i) => v \in Nat
    PROVE  /\ rec' \in Records \cup {NoRec}
           /\ rec = NoRec => rec' = NoRec
           /\ rec # NoRec => rec' # NoRec /\ rec'.gen = rec.gen /\ rec'.owner = rec.owner
           /\ ~Holds(rec, g, i) => rec' = rec
           /\ removes' \in [Ends -> [take : Nat, delete : Nat]]
           /\ Holds(rec, g, i) => removes' = removes
           /\ \A h \in Ends : h # g => removes'[h] = removes[h]
<1>1. CASE Holds(rec, g, i)
  <2>1. rec \in Records /\ rec # NoRec BY <1>1 DEF StoreShape, Holds
  <2>2. rec' = Saved(rec, v) /\ removes' = removes BY <1>1 DEF Checkpoint
  <2> QED BY <1>1, <2>1, <2>2, SavedRecord, RecordFacts DEF StoreShape
<1>2. CASE ~Holds(rec, g, i)
  <2>1. rec' = rec /\ removes' = AskRemove(g) BY <1>2 DEF Checkpoint
  <2> QED BY SMT, <1>2, <2>1, RemovalAsked DEF StoreShape
<1> QED BY <1>1, <1>2
(* The steps of the move that touch neither the store nor a gateway's      *)
(* sessions.                                                               *)
Quiet ==
    \/ MoveRefused \/ Freeze \/ MoveReadFails \/ MoveAgain \/ CtlPrepare \/ CtlWarm \/ CtlClaim
    \/ CtlAuthorize \/ CtlCheck \/ CtlLoad \/ CtlEnds \/ ConnDrops \/ ConnLost

LEMMA QuietSteps == Quiet => UNCHANGED <<rec, obj, live, removes, att, up, moved, expired, overtaken>>
BY DEF Quiet, MoveRefused, Freeze, MoveReadFails, MoveAgain, CtlPrepare, CtlWarm, CtlClaim,
    CtlAuthorize, CtlCheck, CtlLoad, CtlEnds, ConnDrops, ConnLost

(* The number of a session on a gateway names an object.                   *)
LEMMA LiveObject ==
    ASSUME Fleet, StoreShape, NEW g \in Ends, live[g] # 0
    PROVE  live[g] \in Gens /\ obj[live[g]].ver \in Nat
<1>1. live[g] \in 0..MaxGen BY DEF StoreShape
<1>2. live[g] \in Gens BY SMT, <1>1 DEF Gens, Fleet
<1> QED BY <1>2 DEF StoreShape, Objects

LEMMA HeldObject ==
    ASSUME StoreShape, NEW g, NEW i, Holds(rec, g, i)
    PROVE  i \in Gens /\ obj[i].ver \in Nat
<1>1. rec \in Records /\ rec.gen = i BY DEF StoreShape, Holds
<1>2. i \in Gens BY <1>1, RecordFacts
<1> QED BY <1>2 DEF StoreShape, Objects

LEMMA Registered ==
    ASSUME Fleet, StoreShape, NEW g \in Ends, NEW i \in 0..MaxGen, NEW v \in Nat, NEW a \in BOOLEAN,
           Registers(g, i, v, a)
    PROVE  obj' \in [Gens -> Objects] /\ live' \in [Ends -> 0..MaxGen]
<1>1. g \in Gateways BY DEF Fleet, Ends
<1> QED BY <1>1 DEF StoreShape, Registers, Objects

LEMMA IdleAttach == NoAtt \in Attaches /\ NoAtt.pc = "idle"
BY DEF NoAtt, Attaches

LEMMA InitShape == ASSUME Fleet, Init PROVE Shape
<1>1. rec \in Records
  BY SMT DEF Init, Fleet, Records, Record, LeaseStates, Gens
<1>2. obj \in [Gens -> Objects] BY DEF Init, Fleet, Gone, Objects, Gens
<1>3. live \in [Ends -> 0..MaxGen] BY SMT DEF Init, Fleet, Ends
<1>4. removes \in [Ends -> [take : Nat, delete : Nat]] BY DEF Init, Ends, NoRemoval
<1>5. att \in [Ends -> Attaches] /\ \A g \in Ends : att[g].pc = "idle" BY DEF Init, Ends, NoAtt, Attaches
<1>6. StoreShape BY <1>1, <1>2, <1>3, <1>4, <1>5 DEF StoreShape
<1>7. /\ ctl \in [pc : CtlPlaces, prepared : BOOLEAN, ps : Records \cup {NoRec}, gen : 0..MaxGen]
      /\ ctl.pc = "none"
  BY SMT DEF Init, NoCtl, CtlPlaces, Fleet
<1>8. client \in Gens BY SMT DEF Init, Gens, Fleet
<1>9. /\ warm = 0 /\ grants = 1 /\ moved = 0
      /\ mv = [pc |-> "idle", gen |-> 0, tries |-> 1]
      /\ wire = [open |-> FALSE, dst |-> "", src |-> ""]
  BY DEF Init, NoWire
<1>10. 0 \in 0..MaxGen /\ 1 \in 0..1 BY SMT DEF Fleet
<1>11. MoveShape BY <1>7, <1>8, <1>9, <1>10 DEF MoveShape
<1> QED BY <1>6, <1>11 DEF Shape

LEMMA NextStoreShape == ASSUME Fleet, Shape, [Next]_vars PROVE StoreShape'
<1> USE DEF Shape
<1>1. CASE UNCHANGED vars BY <1>1 DEF vars, StoreShape
<1>2. CASE Quiet BY <1>2, QuietSteps DEF StoreShape
<1>3. CASE MoveBegin
  <2>1. Checkpoint(Src, live[Src], obj[live[Src]].ver) /\ UNCHANGED <<obj, live, att>>
    BY <1>3 DEF MoveBegin
  <2>2. rec' \in Records \cup {NoRec} /\ removes' \in [Ends -> [take : Nat, delete : Nat]]
    BY <2>1, HeldObject, Checkpointed
  <2> QED BY <2>1, <2>2 DEF StoreShape
<1>4. CASE FinalCheckpoint
  <2>1. Checkpoint(Src, mv.gen, obj[mv.gen].ver) /\ UNCHANGED <<obj, live, att>>
    BY <1>4 DEF FinalCheckpoint
  <2>2. rec' \in Records \cup {NoRec} /\ removes' \in [Ends -> [take : Nat, delete : Nat]]
    BY <2>1, HeldObject, Checkpointed
  <2> QED BY <2>1, <2>2 DEF StoreShape
<1>5. CASE Yield
  <2>1. removes' = AskRemove(Src) /\ UNCHANGED <<rec, obj, live, att>> BY <1>5 DEF Yield
  <2>2. removes' \in [Ends -> [take : Nat, delete : Nat]] BY <2>1, RemovalAsked
  <2> QED BY <2>1, <2>2 DEF StoreShape
<1>6. CASE CtlTakeover
  <2>1. rec' \in Records \cup {NoRec} BY <1>6, GrantedRecord DEF CtlTakeover, StoreShape, Ends
  <2> QED BY <1>6, <2>1 DEF CtlTakeover, StoreShape
<1>7. CASE CtlPromote
  <2>1. ctl.ps.ver \in Nat /\ ctl.gen \in 0..MaxGen BY <1>7, RecordFacts DEF CtlPromote, MoveShape
  <2>2. rec' \in Records \cup {NoRec} /\ removes' \in [Ends -> [take : Nat, delete : Nat]]
    BY <1>7, <2>1, Checkpointed DEF CtlPromote
  <2>3. obj' \in [Gens -> Objects] /\ live' \in [Ends -> 0..MaxGen]
    BY <1>7, <2>1, Registered DEF CtlPromote, Ends
  <2> QED BY <1>7, <2>2, <2>3 DEF CtlPromote, StoreShape
<1>8. CASE Receive
  <2>1. /\ client \in Gens /\ obj' = [obj EXCEPT ![client].inbox = @ + 1]
        /\ UNCHANGED <<rec, live, removes, att>>
    BY <1>8 DEF Receive
  <2>2. obj[client].inbox + 1 \in Nat BY SMT, <2>1 DEF StoreShape, Objects
  <2>3. obj' \in [Gens -> Objects] BY <2>1, <2>2 DEF StoreShape, Objects
  <2> QED BY <2>1, <2>3 DEF StoreShape
<1>9. ASSUME NEW g \in Ends, AttachKnown(g) PROVE StoreShape'
  BY <1>9 DEF AttachKnown, StoreShape, Objects
<1>10. ASSUME NEW g \in Ends, AttachLoad(g) PROVE StoreShape'
  <2>1. UNCHANGED <<rec, obj, live, removes>> BY <1>10 DEF AttachLoad
  <2>2. CASE rec = NoRec
    <3>1. att' = [att EXCEPT ![g] = NoAtt] BY <1>10, <2>2 DEF AttachLoad
    <3> QED BY <2>1, <3>1, IdleAttach DEF StoreShape
  <2>3. CASE rec # NoRec
    <3>1. att' = [att EXCEPT ![g] = [@ EXCEPT !.pc = "take", !.ps = rec]]
      BY <1>10, <2>3 DEF AttachLoad
    <3>2. att' \in [Ends -> Attaches] BY <2>1, <3>1 DEF StoreShape, Attaches
    <3>3. \A h \in Ends : att'[h].pc = "take" => att'[h].ps # NoRec
      BY <2>3, <3>1 DEF StoreShape, Attaches
    <3> QED BY <2>1, <3>2, <3>3 DEF StoreShape
  <2> QED BY <2>2, <2>3
<1>11. ASSUME NEW g \in Ends, AttachTake(g) PROVE StoreShape'
  <2>1. CASE canTakeover(rec, att[g].ps.gen) /\ rec # NoRec
    <3>1. /\ rec.gen < MaxGen /\ rec' = Saved(Grant(rec, g), att[g].ps.ver)
          /\ Registers(g, rec.gen + 1, att[g].ps.ver, FALSE)
          /\ att' = [att EXCEPT ![g] = NoAtt] /\ UNCHANGED removes
      BY <1>11, <2>1 DEF AttachTake
    <3>2. rec \in Records /\ rec.gen \in Gens /\ att[g].ps.ver \in Nat
      BY <1>11, <2>1, RecordFacts DEF AttachTake, StoreShape, Attaches
    <3>3. rec' \in Records BY <3>1, <3>2, GrantedRecord, SavedRecord
    <3>4. rec.gen + 1 \in 0..MaxGen BY SMT, <3>1, <3>2 DEF Gens, Fleet
    <3>5. obj' \in [Gens -> Objects] /\ live' \in [Ends -> 0..MaxGen]
      BY <3>1, <3>2, <3>4, Registered
    <3> QED BY <3>1, <3>3, <3>5, IdleAttach DEF StoreShape
  <2>2. CASE ~(canTakeover(rec, att[g].ps.gen) /\ rec # NoRec)
    <3>1. UNCHANGED <<rec, obj, live, removes>> BY <1>11, <2>2 DEF AttachTake
    <3>2. \/ att' = [att EXCEPT ![g] = NoAtt]
          \/ att' = [att EXCEPT ![g] = [NoAtt EXCEPT !.pc = "load", !.tries = att[g].tries + 1]]
      BY <1>11, <2>2 DEF AttachTake
    <3>3. att[g].tries + 1 \in Nat BY SMT DEF StoreShape, Attaches
    <3>4. /\ [NoAtt EXCEPT !.pc = "load", !.tries = att[g].tries + 1] \in Attaches
          /\ [NoAtt EXCEPT !.pc = "load", !.tries = att[g].tries + 1].pc = "load"
      BY <3>3 DEF NoAtt, Attaches
    <3> QED BY <3>1, <3>2, <3>4, IdleAttach DEF StoreShape
  <2> QED BY <2>1, <2>2
<1>12. ASSUME NEW g \in Ends, RenewFenced(g) PROVE StoreShape'
  <2>1. removes' = AskRemove(g) /\ UNCHANGED <<rec, obj, live, att>> BY <1>12 DEF RenewFenced
  <2>2. removes' \in [Ends -> [take : Nat, delete : Nat]] BY <2>1, RemovalAsked
  <2> QED BY <2>1, <2>2 DEF StoreShape
<1>13. ASSUME NEW g \in Ends, Reap(g) PROVE StoreShape'
  <2>1. /\ obj' = [obj EXCEPT ![live[g]].armed = FALSE] /\ removes' = AskRemove(g)
        /\ UNCHANGED <<rec, live, att>>
    BY <1>13 DEF Reap
  <2>2. obj' \in [Gens -> Objects] BY <2>1 DEF StoreShape, Objects
  <2>3. removes' \in [Ends -> [take : Nat, delete : Nat]] BY <2>1, RemovalAsked
  <2> QED BY <2>1, <2>2, <2>3 DEF StoreShape
<1>14. ASSUME NEW g \in Ends, RemoveTakes(g) PROVE StoreShape'
  <2>1. obj' \in [Gens -> Objects] BY <1>14 DEF RemoveTakes, StoreShape, Objects, Gone
  <2>2. live' \in [Ends -> 0..MaxGen] BY SMT, <1>14 DEF RemoveTakes, StoreShape, Fleet
  <2>3. removes' \in [Ends -> [take : Nat, delete : Nat]] BY SMT, <1>14 DEF RemoveTakes, StoreShape
  <2> QED BY <1>14, <2>1, <2>2, <2>3 DEF RemoveTakes, StoreShape
<1>15. ASSUME NEW g \in Ends, RemoveDeletes(g) PROVE StoreShape'
  BY SMT, <1>15 DEF RemoveDeletes, StoreShape
<1>16. ASSUME NEW g \in Ends, Crash(g) PROVE StoreShape'
  BY SMT, <1>16 DEF Crash, StoreShape, Objects, Gone, NoAtt, NoRemoval, Attaches, Fleet
<1>17. ASSUME NEW i \in Gens, Dispatch(i) PROVE StoreShape'
  <2>1. obj' \in [Gens -> Objects] BY SMT, <1>17 DEF Dispatch, StoreShape, Objects
  <2>2. obj[i].ver + 1 \in Nat BY SMT DEF StoreShape, Objects
  <2>3. rec' \in Records \cup {NoRec} /\ removes' \in [Ends -> [take : Nat, delete : Nat]]
    BY <1>17, <2>2, Checkpointed DEF Dispatch
  <2> QED BY <1>17, <2>1, <2>3 DEF Dispatch, StoreShape
<1> QED
  BY <1>1, <1>2, <1>3, <1>4, <1>5, <1>6, <1>7, <1>8, <1>9, <1>10, <1>11, <1>12, <1>13, <1>14,
     <1>15, <1>16, <1>17 DEF Next, Quiet, Ends
LEMMA NoGeneration == ASSUME Fleet PROVE 0 \in 0..MaxGen
BY SMT DEF Fleet

LEMMA FreshCtl ==
    ASSUME Fleet
    PROVE  /\ NoCtl \in [pc : CtlPlaces, prepared : BOOLEAN, ps : Records \cup {NoRec}, gen : 0..MaxGen]
           /\ NoCtl.pc = "none" /\ NoCtl.prepared = FALSE
           /\ [NoCtl EXCEPT !.pc = "read"]
                \in [pc : CtlPlaces, prepared : BOOLEAN, ps : Records \cup {NoRec}, gen : 0..MaxGen]
           /\ [NoCtl EXCEPT !.pc = "read"].pc = "read"
           /\ [NoCtl EXCEPT !.pc = "read"].prepared = FALSE
BY NoGeneration DEF NoCtl, CtlPlaces

(* An answer leaves the frames well formed, and is the one the source will *)
(* read unless an earlier one is still there or the connection is closed.  *)
LEMMA Answered ==
    ASSUME MoveShape, NEW f \in {"refuse", "ready", "committed", "cas_lost"}, Answer(f)
    PROVE  /\ wire' \in [open : BOOLEAN, dst : {"", "prepare", "commit", "abort"},
                         src : {"", "ready", "refuse", "committed", "cas_lost"}]
           /\ wire'.src \in {wire.src, f} /\ (~wire.open => wire'.src = wire.src)
           /\ wire'.dst = "" /\ wire'.open = wire.open
<1>1. wire' = [wire EXCEPT !.dst = "", !.src = IF @ = "" /\ wire.open THEN f ELSE @] BY DEF Answer
<1>2. CASE wire.src = "" /\ wire.open
  <2>1. wire' = [wire EXCEPT !.dst = "", !.src = f] BY <1>1, <1>2
  <2>2. wire'.src = f /\ wire'.dst = "" /\ wire'.open = wire.open BY <2>1 DEF MoveShape
  <2> QED BY <1>2, <2>1, <2>2 DEF MoveShape
<1>3. CASE ~(wire.src = "" /\ wire.open)
  <2>1. wire' = [wire EXCEPT !.dst = "", !.src = wire.src] BY <1>1, <1>3
  <2>2. wire'.src = wire.src /\ wire'.dst = "" /\ wire'.open = wire.open BY <2>1 DEF MoveShape
  <2> QED BY <2>1, <2>2 DEF MoveShape
<1> QED BY <1>2, <1>3

(* The three groups of variables the steps of the move change.             *)
CtlShape ==
    /\ ctl \in [pc : CtlPlaces, prepared : BOOLEAN, ps : Records \cup {NoRec}, gen : 0..MaxGen]
    /\ ctl.pc \in {"spawn", "promote"} => ctl.ps # NoRec
    /\ warm \in 0..MaxGen /\ grants \in 0..1 /\ moved \in Nat
SourceShape ==
    mv \in [pc : {"idle", "prepare", "failed", "final", "commit", "done", "unknown", "dead"},
            gen : 0..MaxGen, tries : Nat]
WireShape ==
    wire \in [open : BOOLEAN, dst : {"", "prepare", "commit", "abort"},
              src : {"", "ready", "refuse", "committed", "cas_lost"}]
ClientShape == client \in Gens \cup {Off, Lost, Arriving}

LEMMA MoveShapeParts == MoveShape <=> CtlShape /\ SourceShape /\ WireShape /\ ClientShape
BY DEF MoveShape, CtlShape, SourceShape, WireShape, ClientShape

LEMMA NextCtlShape == ASSUME Fleet, Shape, [Next]_vars PROVE CtlShape'
<1>0. CtlShape /\ StoreShape /\ MoveShape BY MoveShapeParts DEF Shape
<1>1. CASE UNCHANGED <<ctl, warm, grants, moved>> BY <1>0, <1>1 DEF CtlShape
<1>2. CASE MoveBegin BY <1>0, <1>2, FreshCtl DEF MoveBegin, CtlShape
<1>3. CASE CtlPrepare BY <1>0, <1>3 DEF CtlPrepare, CtlShape, CtlPlaces, StoreShape
<1>4. CASE CtlWarm
  <2>1. ctl.ps.gen \in 0..MaxGen BY SMT, <1>0, <1>4, RecordFacts DEF CtlWarm, CtlShape, Gens, Fleet
  <2>2. warm' \in 0..MaxGen BY <1>0, <1>4, <2>1 DEF CtlWarm, CtlShape
  <2>3. \/ ctl' = [ctl EXCEPT !.pc = "read"]
        \/ ctl' = [ctl EXCEPT !.pc = "read", !.prepared = TRUE]
    BY <1>4 DEF CtlWarm
  <2>4. /\ ctl' \in [pc : CtlPlaces, prepared : BOOLEAN, ps : Records \cup {NoRec}, gen : 0..MaxGen]
        /\ ctl'.pc = "read"
    BY <1>0, <2>3 DEF CtlShape, CtlPlaces
  <2> QED BY <1>0, <1>4, <2>2, <2>4 DEF CtlWarm, CtlShape
<1>5. CASE CtlClaim
  <2>1. \/ ctl' = NoCtl \/ ctl' = [NoCtl EXCEPT !.pc = "read"]
        \/ ctl' = [ctl EXCEPT !.pc = "authorize", !.gen = warm]
    BY <1>5 DEF CtlClaim, Committed, CommitFails
  <2>2. /\ ctl' \in [pc : CtlPlaces, prepared : BOOLEAN, ps : Records \cup {NoRec}, gen : 0..MaxGen]
        /\ ctl'.pc \notin {"spawn", "promote"}
    BY <1>0, <2>1, FreshCtl DEF CtlShape, CtlPlaces
  <2>3. warm' = 0 /\ UNCHANGED <<grants, moved>> BY <1>5 DEF CtlClaim
  <2> QED BY <1>0, <2>2, <2>3, NoGeneration DEF CtlShape
<1>6. CASE CtlAuthorize
  <2>1. \/ ctl' = [NoCtl EXCEPT !.pc = "read"] /\ grants' = grants
        \/ ctl' = [ctl EXCEPT !.pc = "cas"] /\ grants' = grants - 1 /\ grants # 0
    BY <1>6 DEF CtlAuthorize, CommitFails
  <2>2. grants' \in 0..1 BY SMT, <1>0, <2>1 DEF CtlShape
  <2>3. /\ ctl' \in [pc : CtlPlaces, prepared : BOOLEAN, ps : Records \cup {NoRec}, gen : 0..MaxGen]
        /\ ctl'.pc \notin {"spawn", "promote"}
    BY <1>0, <2>1, FreshCtl DEF CtlShape, CtlPlaces
  <2> QED BY <1>0, <1>6, <2>2, <2>3 DEF CtlAuthorize, CtlShape
<1>7. CASE CtlTakeover
  <2>1. CASE canTakeover(rec, ctl.gen) /\ rec # NoRec
    <3>1. /\ rec.gen < MaxGen /\ moved' = moved + 1 /\ UNCHANGED <<warm, grants>>
          /\ ctl' = [ctl EXCEPT !.pc = "load", !.gen = rec.gen + 1]
      BY <1>7, <2>1 DEF CtlTakeover
    <3>2. rec.gen \in Gens BY <1>0, <2>1, RecordFacts DEF StoreShape
    <3>3. rec.gen + 1 \in 0..MaxGen BY SMT, <3>1, <3>2 DEF Gens, Fleet
    <3>4. /\ ctl' \in [pc : CtlPlaces, prepared : BOOLEAN, ps : Records \cup {NoRec}, gen : 0..MaxGen]
          /\ ctl'.pc = "load"
      BY <1>0, <3>1, <3>3 DEF CtlShape, CtlPlaces
    <3>5. moved' \in Nat BY SMT, <1>0, <3>1 DEF CtlShape
    <3> QED BY <1>0, <3>1, <3>4, <3>5 DEF CtlShape
  <2>2. CASE ~(canTakeover(rec, ctl.gen) /\ rec # NoRec)
    BY <1>0, <1>7, <2>2 DEF CtlTakeover, CtlShape, CtlPlaces
  <2> QED BY <2>1, <2>2
<1>8. CASE CtlCheck BY <1>0, <1>8, FreshCtl DEF CtlCheck, Committed, CommitFails, CtlShape
<1>9. CASE CtlLoad
  <2>1. \/ ctl' = [NoCtl EXCEPT !.pc = "read"]
        \/ rec # NoRec /\ ctl' = [ctl EXCEPT !.pc = "promote", !.ps = rec]
    BY <1>9 DEF CtlLoad, CommitFails
  <2>2. /\ ctl' \in [pc : CtlPlaces, prepared : BOOLEAN, ps : Records \cup {NoRec}, gen : 0..MaxGen]
        /\ ctl'.pc \in {"spawn", "promote"} => ctl'.ps # NoRec
    BY <1>0, <2>1, FreshCtl DEF CtlShape, CtlPlaces, StoreShape
  <2> QED BY <1>0, <1>9, <2>2 DEF CtlLoad, CtlShape
<1>10. CASE CtlPromote BY <1>0, <1>10, FreshCtl DEF CtlPromote, Committed, CtlShape
<1>11. CASE CtlEnds
  <2>1. warm' \in 0..MaxGen BY <1>0, <1>11, NoGeneration DEF CtlEnds, CtlShape
  <2> QED BY <1>0, <1>11, <2>1, FreshCtl DEF CtlEnds, CtlShape
<1>12. ASSUME NEW g \in Ends, Crash(g) PROVE CtlShape'
  <2>1. warm' \in 0..MaxGen BY <1>0, <1>12, NoGeneration DEF Crash, CtlShape
  <2> QED BY <1>0, <1>12, <2>1, FreshCtl DEF Crash, CtlShape
<1>13. CASE [Next]_vars /\ ~UNCHANGED <<ctl, warm, grants, moved>>
  <2>1. \/ MoveBegin \/ CtlPrepare \/ CtlWarm \/ CtlClaim \/ CtlAuthorize \/ CtlTakeover \/ CtlCheck
        \/ CtlLoad \/ CtlPromote \/ CtlEnds \/ \E g \in Ends : Crash(g)
    BY <1>13 DEF Next, vars, Ends, MoveRefused, Freeze, FinalCheckpoint, Yield, MoveReadFails, MoveAgain,
        ConnDrops, ConnLost, Receive, AttachKnown, AttachLoad, AttachTake, RenewFenced, Reap,
        RemoveTakes, RemoveDeletes, Dispatch
  <2> QED BY <2>1, <1>2, <1>3, <1>4, <1>5, <1>6, <1>7, <1>8, <1>9, <1>10, <1>11, <1>12
<1> QED BY <1>1, <1>13
LEMMA NextSourceShape == ASSUME Fleet, Shape, [Next]_vars PROVE SourceShape'
<1>0. SourceShape /\ StoreShape BY MoveShapeParts DEF Shape
<1>1. CASE UNCHANGED mv BY <1>0, <1>1 DEF SourceShape
<1>2. live[Src] \in 0..MaxGen BY <1>0 DEF StoreShape, Ends
<1>3. CASE MoveBegin BY <1>0, <1>2, <1>3 DEF MoveBegin, SourceShape
<1>4. CASE \E pc \in {"failed", "final", "commit", "done", "unknown", "dead"} : mv' = [mv EXCEPT !.pc = pc]
  BY <1>0, <1>4 DEF SourceShape
<1>5. CASE Freeze
  <2>1. mv' = [mv EXCEPT !.pc = "failed"] \/ mv' = [mv EXCEPT !.pc = "final", !.gen = live[Src]]
    BY <1>5 DEF Freeze
  <2> QED BY <1>0, <1>2, <2>1 DEF SourceShape
<1>6. CASE MoveAgain
  <2>1. mv' = [mv EXCEPT !.pc = "idle", !.tries = @ + 1] BY <1>6 DEF MoveAgain
  <2>2. mv.tries + 1 \in Nat BY SMT, <1>0 DEF SourceShape
  <2> QED BY <1>0, <2>1, <2>2 DEF SourceShape
<1>7. CASE MoveRefused \/ FinalCheckpoint \/ Yield \/ MoveReadFails
  <2>1. \E pc \in {"failed", "commit", "done", "unknown"} : mv' = [mv EXCEPT !.pc = pc]
    BY <1>7 DEF MoveRefused, FinalCheckpoint, Yield, MoveReadFails, SourceTo
  <2> QED BY <2>1, <1>4
<1>8. ASSUME NEW g \in Ends, Crash(g) PROVE SourceShape'
  <2>1. mv' = [mv EXCEPT !.pc = "dead"] \/ UNCHANGED mv BY <1>8 DEF Crash
  <2> QED BY <2>1, <1>1, <1>4
<1>9. CASE [Next]_vars /\ ~UNCHANGED mv
  <2>1. \/ MoveBegin \/ Freeze \/ MoveAgain \/ MoveRefused \/ FinalCheckpoint \/ Yield \/ MoveReadFails
        \/ \E g \in Ends : Crash(g)
    BY <1>9 DEF Next, vars, Ends, CtlPrepare, CtlWarm, CtlClaim, CtlAuthorize, CtlTakeover, CtlCheck, CtlLoad,
        CtlPromote, CtlEnds, ConnDrops, ConnLost, Receive, AttachKnown, AttachLoad, AttachTake, RenewFenced,
        Reap, RemoveTakes, RemoveDeletes, Dispatch
  <2> QED BY <2>1, <1>3, <1>5, <1>6, <1>7, <1>8
<1> QED BY <1>1, <1>9

(* The destination's steps either answer or leave what the source reads.   *)
LEMMA CtlAnswers ==
    ASSUME MoveShape, \/ CtlPrepare \/ CtlWarm \/ CtlClaim \/ CtlAuthorize \/ CtlTakeover \/ CtlCheck
                      \/ CtlLoad \/ CtlPromote \/ CtlEnds
    PROVE  \/ \E f \in {"refuse", "ready", "committed", "cas_lost"} : Answer(f)
           \/ wire' = [wire EXCEPT !.dst = ""]
           \/ wire' = [wire EXCEPT !.open = FALSE, !.dst = ""]
           \/ UNCHANGED wire
BY DEF CtlPrepare, CtlWarm, CtlClaim, CtlAuthorize, CtlTakeover, CtlCheck, CtlLoad, CtlPromote, CtlEnds,
    Committed, CommitFails

LEMMA NextWireShape == ASSUME Fleet, Shape, [Next]_vars PROVE WireShape'
<1>0. WireShape /\ MoveShape BY MoveShapeParts DEF Shape
<1>1. CASE UNCHANGED wire BY <1>0, <1>1 DEF WireShape
<1>2. CASE MoveBegin BY <1>2 DEF MoveBegin, WireShape
<1>3. CASE MoveAgain BY <1>3 DEF MoveAgain, WireShape, NoWire
<1>4. CASE \/ CtlPrepare \/ CtlWarm \/ CtlClaim \/ CtlAuthorize \/ CtlTakeover \/ CtlCheck \/ CtlLoad
           \/ CtlPromote \/ CtlEnds
  <2>1. \/ \E f \in {"refuse", "ready", "committed", "cas_lost"} : Answer(f)
        \/ wire' = [wire EXCEPT !.dst = ""]
        \/ wire' = [wire EXCEPT !.open = FALSE, !.dst = ""]
        \/ UNCHANGED wire
    BY <1>0, <1>4, CtlAnswers
  <2>2. ASSUME NEW f \in {"refuse", "ready", "committed", "cas_lost"}, Answer(f) PROVE WireShape'
    BY <1>0, <2>2, Answered DEF WireShape
  <2>3. CASE wire' = [wire EXCEPT !.dst = ""] BY <1>0, <2>3 DEF WireShape
  <2>4. CASE wire' = [wire EXCEPT !.open = FALSE, !.dst = ""] BY <1>0, <2>4 DEF WireShape
  <2> QED BY <2>1, <2>2, <2>3, <2>4, <1>1
<1>5. CASE MoveRefused BY <1>0, <1>5 DEF MoveRefused, WireShape
<1>6. CASE Freeze BY <1>0, <1>6 DEF Freeze, WireShape
<1>7. CASE FinalCheckpoint BY <1>0, <1>7 DEF FinalCheckpoint, WireShape
<1>8. CASE Yield BY <1>0, <1>8 DEF Yield, WireShape
<1>9. CASE ConnDrops
  <2>1. PICK d \in {"", wire.dst}, f \in {"", wire.src} : wire' = [open |-> FALSE, dst |-> d, src |-> f]
    BY <1>9 DEF ConnDrops
  <2> QED BY <1>0, <2>1 DEF WireShape
<1>10. ASSUME NEW g \in Ends, Crash(g) PROVE WireShape' BY <1>0, <1>10 DEF Crash, WireShape
<1>11. CASE [Next]_vars /\ ~UNCHANGED wire
  <2>1. \/ MoveBegin \/ MoveAgain \/ MoveRefused \/ Freeze \/ FinalCheckpoint \/ Yield \/ ConnDrops
        \/ CtlPrepare \/ CtlWarm \/ CtlClaim \/ CtlAuthorize \/ CtlTakeover \/ CtlCheck \/ CtlLoad
        \/ CtlPromote \/ CtlEnds
        \/ \E g \in Ends : Crash(g)
    BY <1>11 DEF Next, vars, Ends, MoveReadFails, ConnLost, Receive, AttachKnown, AttachLoad, AttachTake,
        RenewFenced, Reap, RemoveTakes, RemoveDeletes, Dispatch
  <2> QED BY <2>1, <1>2, <1>3, <1>4, <1>5, <1>6, <1>7, <1>8, <1>9, <1>10
<1> QED BY <1>1, <1>11

LEMMA NextClientShape == ASSUME Fleet, Shape, [Next]_vars PROVE ClientShape'
<1>0. ClientShape /\ StoreShape BY MoveShapeParts DEF Shape
<1>1. CASE client' \in {client, Off, Lost, Arriving} BY <1>0, <1>1 DEF ClientShape
<1>2. ASSUME NEW g \in Ends, AttachKnown(g) PROVE ClientShape'
  BY <1>0, <1>2, LiveObject DEF AttachKnown, ClientShape
<1>3. ASSUME NEW g \in Ends, AttachTake(g) PROVE ClientShape'
  <2>1. CASE rec # NoRec /\ rec.gen < MaxGen /\ client' = rec.gen + 1
    <3>1. rec.gen \in Gens BY <1>0, <2>1, RecordFacts DEF StoreShape
    <3>2. client' \in Gens BY SMT, <2>1, <3>1 DEF Gens, Fleet
    <3> QED BY <3>2 DEF ClientShape
  <2>2. CASE client' \in {client, Lost} BY <2>2, <1>1
  <2> QED BY <1>3, <2>1, <2>2 DEF AttachTake
<1>4. CASE [Next]_vars /\ client' \notin {client, Off, Lost, Arriving}
  <2>1. \E g \in Ends : AttachKnown(g) \/ AttachTake(g)
    BY <1>4 DEF Next, vars, Ends, MoveBegin, MoveRefused, Freeze, FinalCheckpoint, Yield, MoveReadFails,
        MoveAgain, CtlPrepare, CtlWarm, CtlClaim, CtlAuthorize, CtlTakeover, CtlCheck, CtlLoad, CtlPromote,
        CtlEnds, ConnDrops, ConnLost, Receive, AttachLoad, RenewFenced, Reap, RemoveTakes, RemoveDeletes,
        Crash, Dispatch
  <2> QED BY <2>1, <1>2, <1>3
<1> QED BY <1>1, <1>4

LEMMA NextShape == ASSUME Fleet, Shape, [Next]_vars PROVE Shape'
<1>1. StoreShape' BY NextStoreShape
<1>2. CtlShape' /\ SourceShape' /\ WireShape' /\ ClientShape'
  BY NextCtlShape, NextSourceShape, NextWireShape, NextClientShape
<1>3. MoveShape' BY <1>2 DEF MoveShape, CtlShape, SourceShape, WireShape, ClientShape
<1> QED BY <1>1, <1>3 DEF Shape
-----------------------------------------------------------------------------
LEMMA NextGrantSpent == ASSUME Fleet, Shape, GrantSpent, [Next]_vars PROVE GrantSpent'
<1>0. moved \in Nat /\ grants \in 0..1 /\ moved + grants + InHand <= 1
      /\ InHand = IF ctl.pc = "cas" THEN 1 ELSE 0
  BY DEF Shape, MoveShape, GrantSpent, InHand
<1>1. CASE UNCHANGED <<ctl, grants, moved>> BY <1>1 DEF GrantSpent, InHand
<1>2. CASE UNCHANGED <<grants, moved>> /\ ctl'.pc # "cas" BY SMT, <1>0, <1>2 DEF GrantSpent, InHand
<1>3. CASE MoveBegin \/ CtlPrepare \/ CtlWarm \/ CtlClaim \/ CtlCheck \/ CtlLoad \/ CtlPromote \/ CtlEnds
  <2>1. UNCHANGED <<grants, moved>>
    BY <1>3 DEF MoveBegin, CtlPrepare, CtlWarm, CtlClaim, CtlCheck, CtlLoad, CtlPromote, CtlEnds
  <2>2. \/ UNCHANGED ctl
        \/ ctl' = NoCtl \/ ctl' = [NoCtl EXCEPT !.pc = "read"]
        \/ ctl' = [ctl EXCEPT !.pc = "spawn", !.ps = rec]
        \/ ctl' = [ctl EXCEPT !.pc = "read"]
        \/ ctl' = [ctl EXCEPT !.pc = "read", !.prepared = TRUE]
        \/ ctl' = [ctl EXCEPT !.pc = "authorize", !.gen = warm]
        \/ ctl' = [ctl EXCEPT !.pc = "promote", !.ps = rec]
    BY <1>3 DEF MoveBegin, CtlPrepare, CtlWarm, CtlClaim, CtlCheck, CtlLoad, CtlPromote, CtlEnds,
        Committed, CommitFails
  <2>3. UNCHANGED ctl \/ ctl'.pc # "cas" BY <2>2, FreshCtl DEF Shape, MoveShape
  <2> QED BY <2>1, <2>3, <1>1, <1>2
<1>4. CASE CtlAuthorize
  <2>1. UNCHANGED moved /\ ctl.pc = "authorize" BY <1>4 DEF CtlAuthorize
  <2>2. \/ ctl' = [NoCtl EXCEPT !.pc = "read"] /\ UNCHANGED grants
        \/ grants' = grants - 1
    BY <1>4 DEF CtlAuthorize, CommitFails
  <2>3. CASE ctl' = [NoCtl EXCEPT !.pc = "read"] /\ UNCHANGED grants BY <2>1, <2>3, <1>2, FreshCtl
  <2>4. CASE grants' = grants - 1 BY SMT, <1>0, <2>1, <2>4 DEF GrantSpent, InHand
  <2> QED BY <2>2, <2>3, <2>4
<1>5. CASE CtlTakeover
  <2>1. UNCHANGED grants /\ ctl.pc = "cas" /\ moved' \in {moved, moved + 1} BY <1>5 DEF CtlTakeover
  <2>2. \/ ctl' = [ctl EXCEPT !.pc = "load", !.gen = rec.gen + 1] \/ ctl' = [ctl EXCEPT !.pc = "check"]
    BY <1>5 DEF CtlTakeover
  <2>3. ctl'.pc # "cas" BY <2>2 DEF Shape, MoveShape
  <2>4. InHand = 1 /\ InHand' = 0 BY <2>1, <2>3 DEF InHand
  <2>5. CASE moved' = moved + 1 BY SMT, <1>0, <2>1, <2>4, <2>5 DEF GrantSpent
  <2>6. CASE moved' = moved BY SMT, <1>0, <2>1, <2>4, <2>6 DEF GrantSpent
  <2> QED BY <2>1, <2>5, <2>6
<1>6. ASSUME NEW g \in Ends, Crash(g) PROVE GrantSpent'
  <2>1. UNCHANGED <<grants, moved>> /\ ctl' \in {ctl, NoCtl} BY <1>6 DEF Crash
  <2> QED BY <2>1, <1>1, <1>2, FreshCtl
<1>7. CASE [Next]_vars /\ ~UNCHANGED <<ctl, grants, moved>>
  <2>1. \/ MoveBegin \/ CtlPrepare \/ CtlWarm \/ CtlClaim \/ CtlAuthorize \/ CtlTakeover \/ CtlCheck
        \/ CtlLoad \/ CtlPromote \/ CtlEnds \/ \E g \in Ends : Crash(g)
    BY <1>7 DEF Next, vars, Ends, MoveRefused, Freeze, FinalCheckpoint, Yield, MoveReadFails, MoveAgain,
        ConnDrops, ConnLost, Receive, AttachKnown, AttachLoad, AttachTake, RenewFenced, Reap,
        RemoveTakes, RemoveDeletes, Dispatch
  <2> QED BY <2>1, <1>3, <1>4, <1>5, <1>6
<1> QED BY <1>1, <1>7

LEMMA NextWarmAttended == ASSUME Fleet, Shape, WarmAttended, [Next]_vars PROVE WarmAttended'
<1>1. CASE UNCHANGED <<warm, ctl>> /\ (mv'.pc = "idle" => mv.pc = "idle" \/ ctl.pc = "none")
  BY <1>1 DEF WarmAttended
<1>2. CASE warm' = 0 /\ (mv'.pc = "idle" => ctl'.pc = "none") BY <1>2 DEF WarmAttended
<1>3. CASE MoveBegin
  <2>1. mv.pc = "idle" /\ warm' = warm /\ mv' = [mv EXCEPT !.pc = "prepare", !.gen = live[Src]]
    BY <1>3 DEF MoveBegin
  <2>2. warm = 0 BY <2>1 DEF WarmAttended
  <2>3. mv'.pc = "prepare" BY <2>1 DEF Shape, MoveShape
  <2> QED BY <2>1, <2>2, <2>3, <1>2
<1>4. CASE MoveRefused \/ Freeze \/ FinalCheckpoint \/ Yield \/ MoveReadFails
  <2>1. /\ UNCHANGED <<warm, ctl>>
        /\ \/ mv' = [mv EXCEPT !.pc = "final", !.gen = live[Src]]
           \/ \E pc \in {"failed", "commit", "done", "unknown"} : mv' = [mv EXCEPT !.pc = pc]
    BY <1>4 DEF MoveRefused, Freeze, FinalCheckpoint, Yield, MoveReadFails, SourceTo
  <2>2. mv'.pc # "idle" BY <2>1 DEF Shape, MoveShape
  <2> QED BY <2>1, <2>2, <1>1
<1>5. CASE MoveAgain BY <1>5, <1>1 DEF MoveAgain
<1>6. CASE CtlPrepare
  <2>1. ctl.pc = "read" /\ UNCHANGED <<warm, mv>> BY <1>6 DEF CtlPrepare
  <2>2. UNCHANGED ctl \/ ctl' = [ctl EXCEPT !.pc = "spawn", !.ps = rec] BY <1>6 DEF CtlPrepare
  <2> QED BY <2>1, <2>2 DEF WarmAttended, Shape, MoveShape
<1>7. CASE CtlWarm
  <2>1. ctl.pc = "spawn" /\ UNCHANGED mv BY <1>7 DEF CtlWarm
  <2>2. \/ ctl' = [ctl EXCEPT !.pc = "read"] /\ UNCHANGED warm
        \/ ctl' = [ctl EXCEPT !.pc = "read", !.prepared = TRUE]
    BY <1>7 DEF CtlWarm
  <2> QED BY <2>1, <2>2 DEF WarmAttended, Shape, MoveShape
<1>8. CASE CtlClaim BY <1>8, <1>2 DEF CtlClaim, WarmAttended
<1>9. CASE CtlAuthorize \/ CtlTakeover \/ CtlCheck \/ CtlLoad \/ CtlPromote
  <2>1. ctl.pc \in {"authorize", "cas", "check", "load", "promote"} /\ UNCHANGED <<warm, mv>>
    BY <1>9 DEF CtlAuthorize, CtlTakeover, CtlCheck, CtlLoad, CtlPromote
  <2>2. warm = 0 /\ mv.pc # "idle" BY <2>1 DEF WarmAttended
  <2> QED BY <2>1, <2>2, <1>2
<1>10. CASE CtlEnds
  <2>1. ctl.pc = "read" /\ UNCHANGED mv /\ warm' = IF ctl.prepared THEN 0 ELSE warm BY <1>10 DEF CtlEnds
  <2>2. warm' = 0 BY <2>1 DEF WarmAttended
  <2> QED BY <2>1, <2>2, <1>2 DEF WarmAttended
<1>11. ASSUME NEW g \in Ends, Crash(g) PROVE WarmAttended'
  <2>1. CASE g = Dst
    <3>1. warm' = 0 /\ ctl' = NoCtl BY <1>11, <2>1 DEF Crash
    <3> QED BY <3>1, <1>2, FreshCtl
  <2>2. CASE g # Dst
    <3>1. UNCHANGED <<warm, ctl>> /\ mv' = [mv EXCEPT !.pc = "dead"] BY <1>11, <2>2 DEF Crash, Ends
    <3>2. mv'.pc = "dead" BY <3>1 DEF Shape, MoveShape
    <3> QED BY <3>1, <3>2, <1>1
  <2> QED BY <2>1, <2>2
<1>12. CASE [Next]_vars /\ ~UNCHANGED <<warm, ctl, mv>>
  <2>1. \/ MoveBegin \/ MoveRefused \/ Freeze \/ FinalCheckpoint \/ Yield \/ MoveReadFails \/ MoveAgain
        \/ CtlPrepare \/ CtlWarm \/ CtlClaim \/ CtlAuthorize \/ CtlTakeover \/ CtlCheck
        \/ CtlLoad \/ CtlPromote \/ CtlEnds \/ \E g \in Ends : Crash(g)
    BY <1>12 DEF Next, vars, Ends, ConnDrops, ConnLost, Receive, AttachKnown, AttachLoad, AttachTake,
        RenewFenced, Reap, RemoveTakes, RemoveDeletes, Dispatch
  <2> QED BY <2>1, <1>3, <1>4, <1>5, <1>6, <1>7, <1>8, <1>9, <1>10, <1>11
<1>13. CASE UNCHANGED <<warm, ctl, mv>> BY <1>13 DEF WarmAttended
<1> QED BY <1>12, <1>13

LEMMA InitMoveInv == ASSUME Fleet, Init PROVE MoveInv
<1>1. Shape BY InitShape
<1>2. moved = 0 /\ grants = 1 /\ warm = 0 /\ ctl = NoCtl BY DEF Init
<1>3. GrantSpent BY SMT, <1>2, FreshCtl DEF GrantSpent, InHand
<1>4. WarmAttended BY <1>2, FreshCtl DEF WarmAttended
<1> QED BY <1>1, <1>3, <1>4 DEF MoveInv

LEMMA NextMoveInv == ASSUME Fleet, MoveInv, [Next]_vars PROVE MoveInv'
BY NextShape, NextGrantSpent, NextWarmAttended DEF MoveInv

LEMMA MoveInvariance == ASSUME Fleet PROVE Spec => []MoveInv
<1>1. Init => MoveInv BY InitMoveInv
<1>2. MoveInv /\ [Next]_vars => MoveInv' BY NextMoveInv
<1> QED BY <1>1, <1>2, PTL DEF Spec
-----------------------------------------------------------------------------
(* What the steps do to Behind.  A step that leaves the lease, and adds no *)
(* object, keeps it: if it leaves the commit alone and the state the       *)
(* commit has loaded, or if it ends the commit.                            *)
SameLease == rec' # NoRec => rec # NoRec /\ rec'.gen = rec.gen /\ rec'.owner = rec.owner

LEMMA CommitLeftAlone ==
    ASSUME Behind, SameLease, UNCHANGED <<warm, ctl>>,
           live'[Dst] \in {live[Dst], 0},
           \A i \in Gens : obj'[i].gw \in {obj[i].gw, Nobody},
           rec # NoRec => rec.gen \in Gens, Nobody # Dst,
           rec' # NoRec /\ ctl.pc = "promote" /\ Holds(rec, Dst, ctl.gen) => rec'.ver = rec.ver
    PROVE  Behind'
BY DEF Behind, SameLease, Committing, Holds

LEMMA CommitEnded ==
    ASSUME Fleet, Shape, Behind, SameLease, warm' \in {warm, 0}, ctl'.pc \in {"none", "read", "check"},
           \A i \in Gens : rec # NoRec /\ i > rec.gen => obj'[i].gw \in {obj[i].gw, Nobody}
    PROVE  Behind'
<1>1. SUFFICES ASSUME rec' # NoRec
               PROVE  (\A i \in Gens : i > rec'.gen => obj'[i].gw = Nobody) /\ warm' <= rec'.gen
  BY DEF Behind, Committing
<1>2. rec # NoRec /\ rec'.gen = rec.gen BY <1>1 DEF SameLease
<1>3. rec.gen \in Gens BY <1>2, RecordFacts DEF Shape, StoreShape
<1>4. 0 <= rec.gen BY SMT, <1>3 DEF Gens, Fleet
<1> QED BY <1>2, <1>4 DEF Behind

LEMMA SameObjects == ASSUME UNCHANGED <<rec, obj>> PROVE SameLease /\ \A i \in Gens : obj'[i].gw = obj[i].gw
BY DEF SameLease

(* The objects after a step that changes one of them, or removes some.     *)
LEMMA ObjectsKept ==
    ASSUME Shape, \/ UNCHANGED obj
                  \/ Receive
                  \/ \E g \in Ends : AttachKnown(g) \/ Reap(g) \/ RemoveTakes(g) \/ Crash(g)
                  \/ \E i \in Gens : Dispatch(i)
    PROVE  \A i \in Gens : obj'[i].gw \in {obj[i].gw, Nobody}
<1>0. obj \in [Gens -> Objects] BY DEF Shape, StoreShape
<1>1. CASE Receive BY <1>0, <1>1 DEF Receive, Objects
<1>2. ASSUME NEW g \in Ends, AttachKnown(g) PROVE \A i \in Gens : obj'[i].gw \in {obj[i].gw, Nobody}
  BY <1>0, <1>2 DEF AttachKnown, Objects
<1>3. ASSUME NEW g \in Ends, Reap(g) PROVE \A i \in Gens : obj'[i].gw \in {obj[i].gw, Nobody}
  BY <1>0, <1>3 DEF Reap, Objects
<1>4. ASSUME NEW g \in Ends, RemoveTakes(g) PROVE \A i \in Gens : obj'[i].gw \in {obj[i].gw, Nobody}
  BY <1>0, <1>4 DEF RemoveTakes, Objects, Gone
<1>5. ASSUME NEW g \in Ends, Crash(g) PROVE \A i \in Gens : obj'[i].gw \in {obj[i].gw, Nobody}
  BY <1>0, <1>5 DEF Crash, Objects, Gone
<1>6. ASSUME NEW j \in Gens, Dispatch(j) PROVE \A i \in Gens : obj'[i].gw \in {obj[i].gw, Nobody}
  <2>1. obj' = [obj EXCEPT ![j].inbox = @ - 1, ![j].ver = @ + 1] BY <1>6 DEF Dispatch
  <2>2. obj' = [obj EXCEPT ![j] = [obj[j] EXCEPT !.inbox = @ - 1, !.ver = @ + 1]] BY <1>0, <2>1
  <2>3. [obj[j] EXCEPT !.inbox = @ - 1, !.ver = @ + 1].gw = obj[j].gw BY <1>0 DEF Objects
  <2> QED BY <1>0, <2>2, <2>3
<1> QED BY <1>1, <1>2, <1>3, <1>4, <1>5, <1>6

LEMMA NextBehind == ASSUME Fleet, Shape, Behind, [Next]_vars PROVE Behind'
<1>0. StoreShape /\ MoveShape /\ Nobody # Dst /\ Src # Dst /\ Dst \in Ends
  BY RecordFacts DEF Shape, Fleet, Ends
<1>1. rec # NoRec => rec \in Records /\ rec.gen \in Gens BY <1>0, RecordFacts DEF StoreShape
<1>20. warm \in Nat /\ ctl.gen \in Nat
  <2>1. warm \in 0..MaxGen /\ ctl.gen \in 0..MaxGen BY <1>0 DEF MoveShape
  <2> QED BY SMT, <2>1 DEF Fleet
<1>2. ASSUME UNCHANGED <<rec, warm, ctl>>, live'[Dst] \in {live[Dst], 0},
             \A i \in Gens : obj'[i].gw \in {obj[i].gw, Nobody}
      PROVE  Behind'
  <2>1. SameLease /\ (rec # NoRec => rec.gen \in Gens) BY <1>1, <1>2 DEF SameLease
  <2> QED BY <1>0, <1>2, <2>1, CommitLeftAlone
<1>3. CASE \/ MoveRefused \/ Freeze \/ Yield \/ MoveReadFails \/ MoveAgain \/ ConnDrops \/ ConnLost
           \/ UNCHANGED vars
  <2>1. UNCHANGED <<rec, obj, live, warm, ctl>>
    BY <1>3 DEF MoveRefused, Freeze, Yield, MoveReadFails, MoveAgain, ConnDrops, ConnLost, vars
  <2> QED BY <2>1, <1>2
<1>4. CASE Receive
  <2>1. UNCHANGED <<rec, live, warm, ctl>> BY <1>4 DEF Receive
  <2> QED BY <2>1, <1>2, <1>4, ObjectsKept
<1>5. ASSUME NEW g \in Ends, AttachKnown(g) \/ AttachLoad(g) \/ RenewFenced(g) \/ Reap(g) \/ RemoveTakes(g)
      PROVE  Behind'
  <2>1. UNCHANGED <<rec, warm, ctl>> /\ (UNCHANGED live \/ live' = [live EXCEPT ![g] = 0])
    BY <1>5 DEF AttachKnown, AttachLoad, RenewFenced, Reap, RemoveTakes
  <2>2. live'[Dst] \in {live[Dst], 0} BY <1>0, <2>1 DEF StoreShape
  <2>3. UNCHANGED obj \/ AttachKnown(g) \/ Reap(g) \/ RemoveTakes(g)
    BY <1>5 DEF AttachLoad, RenewFenced
  <2>4. \A i \in Gens : obj'[i].gw \in {obj[i].gw, Nobody} BY <2>3, ObjectsKept
  <2> QED BY <2>1, <2>2, <2>4, <1>2
<1>6. ASSUME NEW g \in Ends, RemoveDeletes(g) PROVE Behind'
  <2>1. UNCHANGED <<obj, live, warm, ctl>> /\ rec' \in {rec, NoRec} BY <1>6 DEF RemoveDeletes
  <2>2. CASE rec' = rec BY <2>1, <2>2, <1>2
  <2>3. CASE rec' = NoRec BY <2>3 DEF Behind
  <2> QED BY <2>1, <2>2, <2>3
<1>7. CASE FinalCheckpoint
  <2>1. /\ Checkpoint(Src, mv.gen, obj[mv.gen].ver)
        /\ UNCHANGED <<obj, live, warm, ctl>>
    BY <1>7 DEF FinalCheckpoint
  <2>2. SameLease /\ (~Holds(rec, Src, mv.gen) => rec' = rec)
    BY <1>0, <2>1, HeldObject, Checkpointed DEF SameLease
  <2>3. Holds(rec, Dst, ctl.gen) => rec' = rec BY <1>0, <2>2 DEF Holds
  <2>4. live'[Dst] \in {live[Dst], 0} /\ \A i \in Gens : obj'[i].gw \in {obj[i].gw, Nobody} BY <2>1
  <2> QED BY <1>0, <1>1, <2>1, <2>2, <2>3, <2>4, CommitLeftAlone
<1>8. ASSUME NEW i \in Gens, Dispatch(i) PROVE Behind'
  <2>1. Checkpoint(obj[i].gw, i, obj[i].ver + 1) /\ UNCHANGED <<live, warm, ctl>> BY <1>8 DEF Dispatch
  <2>2. obj[i].ver + 1 \in Nat BY SMT, <1>0 DEF StoreShape, Objects
  <2>3. SameLease /\ (~Holds(rec, obj[i].gw, i) => rec' = rec)
    BY <1>0, <2>1, <2>2, Checkpointed DEF SameLease
  <2>4. ctl.pc = "promote" /\ Holds(rec, Dst, ctl.gen) => rec' = rec
    BY <2>3 DEF Holds, Behind
  <2>5. \A j \in Gens : obj'[j].gw \in {obj[j].gw, Nobody} BY <1>8, ObjectsKept
  <2>6. live'[Dst] \in {live[Dst], 0} /\ UNCHANGED <<warm, ctl>> BY <2>1
  <2> QED BY <1>0, <1>1, <2>3, <2>4, <2>5, <2>6, CommitLeftAlone
<1>9. CASE MoveBegin
  <2>1. /\ Checkpoint(Src, live[Src], obj[live[Src]].ver) /\ UNCHANGED <<obj, warm>>
        /\ ctl' = [NoCtl EXCEPT !.pc = "read"]
    BY <1>9 DEF MoveBegin
  <2>2. SameLease BY <1>0, <2>1, HeldObject, Checkpointed DEF SameLease
  <2> QED BY <2>1, <2>2, FreshCtl, CommitEnded
<1>10. CASE CtlPrepare
  <2>1. ctl.pc = "read" /\ UNCHANGED <<rec, obj, live, warm>> BY <1>10 DEF CtlPrepare
  <2>2. CASE rec = NoRec BY <2>1, <2>2 DEF Behind
  <2>3. CASE rec # NoRec
    <3>1. ctl' = [ctl EXCEPT !.pc = "spawn", !.ps = rec] BY <1>10, <2>3 DEF CtlPrepare
    <3>2. ctl'.pc = "spawn" /\ ctl'.ps = rec BY <1>0, <3>1 DEF MoveShape
    <3>3. rec.gen <= rec.gen BY SMT, <1>1, <2>3 DEF Gens, Fleet
    <3> QED BY <2>1, <3>2, <3>3 DEF Behind, Committing
  <2> QED BY <2>2, <2>3
<1>11. CASE CtlWarm
  <2>1. ctl.pc = "spawn" /\ UNCHANGED <<rec, obj, live>> BY <1>11 DEF CtlWarm
  <2>2. /\ ctl' = [ctl EXCEPT !.pc = "read"] \/ ctl' = [ctl EXCEPT !.pc = "read", !.prepared = TRUE]
        /\ warm' \in {warm, ctl.ps.gen}
    BY <1>11 DEF CtlWarm
  <2>3. ctl'.pc = "read" BY <1>0, <2>2 DEF MoveShape
  <2> QED BY <2>1, <2>2, <2>3 DEF Behind, Committing
<1>12. CASE CtlClaim
  <2>1. ctl.pc = "read" /\ warm' = 0 /\ UNCHANGED <<rec, obj, live>> BY <1>12 DEF CtlClaim
  <2>2. CASE live[Dst] = 0 /\ ctl' = [ctl EXCEPT !.pc = "authorize", !.gen = warm]
    <3>1. ctl'.pc = "authorize" /\ ctl'.gen = warm BY <1>0, <2>2 DEF MoveShape
    <3>2. rec # NoRec => 0 <= rec.gen BY SMT, <1>1 DEF Gens, Fleet
    <3> QED BY <2>1, <2>2, <3>1, <3>2 DEF Behind, Committing
  <2>3. CASE ctl' = NoCtl \/ ctl' = [NoCtl EXCEPT !.pc = "read"]
    BY <2>1, <2>3, FreshCtl, SameObjects, CommitEnded
  <2> QED BY <1>12, <2>2, <2>3 DEF CtlClaim, Committed, CommitFails
<1>13. CASE CtlAuthorize
  <2>1. ctl.pc = "authorize" /\ UNCHANGED <<rec, obj, live, warm>> BY <1>13 DEF CtlAuthorize
  <2>2. CASE ctl' = [ctl EXCEPT !.pc = "cas"]
    <3>1. ctl'.pc = "cas" /\ ctl'.gen = ctl.gen BY <1>0, <2>2 DEF MoveShape
    <3> QED BY <2>1, <3>1 DEF Behind, Committing
  <2>3. CASE ctl' = [NoCtl EXCEPT !.pc = "read"] BY <2>1, <2>3, FreshCtl, SameObjects, CommitEnded
  <2> QED BY <1>13, <2>2, <2>3 DEF CtlAuthorize, CommitFails
<1>14. CASE CtlTakeover
  <2>1. ctl.pc = "cas" /\ UNCHANGED <<obj, live, warm>> BY <1>14 DEF CtlTakeover
  <2>2. CASE canTakeover(rec, ctl.gen) /\ rec # NoRec
    <3>1. /\ rec.gen < MaxGen /\ rec' = Grant(rec, Dst) /\ rec.gen = ctl.gen
          /\ ctl' = [ctl EXCEPT !.pc = "load", !.gen = rec.gen + 1]
      BY <1>14, <2>2 DEF CtlTakeover, canTakeover
    <3>2. rec'.gen = rec.gen + 1 BY <1>1, <2>2, <3>1, GrantedRecord DEF Ends
    <3>3. ctl'.pc = "load" /\ ctl'.gen = rec.gen + 1 BY <1>0, <3>1 DEF MoveShape
    <3>4. live'[Dst] = 0 BY <2>1, <2>2, <3>1 DEF Behind, Committing
    <3>5. rec.gen \in Nat /\ rec.gen + 1 \in Gens BY SMT, <1>1, <2>2, <3>1 DEF Gens, Fleet
    <3>6. \A i \in Gens : i > rec.gen => obj'[i].gw = Nobody BY <2>1, <2>2 DEF Behind
    <3>7. \A i \in Gens : i > rec'.gen => i > rec.gen BY SMT, <3>2, <3>5 DEF Gens, Fleet
    <3>11. warm' = warm /\ warm <= rec.gen BY <2>1, <2>2 DEF Behind
    <3>8. warm' <= rec'.gen BY SMT, <1>20, <3>2, <3>5, <3>11
    <3>9. rec.gen + 1 > rec.gen /\ rec.gen + 1 <= rec.gen + 1 BY SMT, <3>5
    <3>10. obj'[rec'.gen].gw # Dst BY <1>0, <3>2, <3>5, <3>6, <3>9
    <3> QED BY <3>2, <3>3, <3>4, <3>6, <3>7, <3>8, <3>9, <3>10 DEF Behind, Committing
  <2>3. CASE ctl' = [ctl EXCEPT !.pc = "check"] /\ UNCHANGED rec
    <3>1. ctl'.pc = "check" BY <1>0, <2>3 DEF MoveShape
    <3> QED BY <2>1, <2>3, <3>1, SameObjects, CommitEnded
  <2> QED BY <1>14, <2>2, <2>3 DEF CtlTakeover
<1>15. CASE CtlCheck \/ CtlEnds
  <2>1. /\ UNCHANGED <<rec, obj>> /\ warm' \in {warm, 0}
        /\ ctl' = NoCtl \/ ctl' = [NoCtl EXCEPT !.pc = "read"]
    BY <1>15 DEF CtlCheck, CtlEnds, Committed, CommitFails
  <2> QED BY <2>1, FreshCtl, SameObjects, CommitEnded
<1>16. CASE CtlLoad
  <2>1. ctl.pc = "load" /\ UNCHANGED <<rec, obj, live, warm>> BY <1>16 DEF CtlLoad
  <2>2. CASE ctl' = [ctl EXCEPT !.pc = "promote", !.ps = rec]
    <3>1. ctl'.pc = "promote" /\ ctl'.gen = ctl.gen /\ ctl'.ps = rec BY <1>0, <2>2 DEF MoveShape
    <3> QED BY <2>1, <3>1 DEF Behind, Committing, Holds
  <2>3. CASE ctl' = [NoCtl EXCEPT !.pc = "read"] BY <2>1, <2>3, FreshCtl, SameObjects, CommitEnded
  <2> QED BY <1>16, <2>2, <2>3 DEF CtlLoad, CommitFails
<1>17. CASE CtlPromote
  <2>1. /\ ctl.pc = "promote" /\ ctl' = NoCtl /\ UNCHANGED warm
        /\ Checkpoint(Dst, ctl.gen, ctl.ps.ver)
        /\ obj' = [obj EXCEPT ![ctl.gen] = [gw |-> Dst, ver |-> ctl.ps.ver, inbox |-> 0, armed |-> TRUE]]
    BY <1>17 DEF CtlPromote, Committed, Registers
  <2>2. ctl.ps.ver \in Nat BY <1>0, <2>1, RecordFacts DEF MoveShape
  <2>3. SameLease BY <1>0, <2>1, <2>2, Checkpointed DEF SameLease
  <2>4. \A i \in Gens : rec # NoRec /\ i > rec.gen => i # ctl.gen
    <3>1. rec # NoRec => ctl.gen <= rec.gen BY <2>1 DEF Behind, Committing
    <3> QED BY SMT, <1>1, <1>20, <3>1 DEF Gens, Fleet
  <2>5. \A i \in Gens : rec # NoRec /\ i > rec.gen => obj'[i].gw = obj[i].gw BY <1>0, <2>1, <2>4 DEF StoreShape
  <2> QED BY <2>1, <2>3, <2>5, FreshCtl, CommitEnded
<1>18. ASSUME NEW g \in Ends, AttachTake(g) PROVE Behind'
  <2>1. UNCHANGED <<warm, ctl>> BY <1>18 DEF AttachTake
  <2>2. CASE canTakeover(rec, att[g].ps.gen) /\ rec # NoRec
    <3>1. /\ rec.gen < MaxGen /\ rec' = Saved(Grant(rec, g), att[g].ps.ver)
          /\ obj' = [obj EXCEPT ![rec.gen + 1] =
                        [gw |-> g, ver |-> att[g].ps.ver, inbox |-> 0, armed |-> FALSE]]
      BY <1>18, <2>2 DEF AttachTake, Registers
    <3>2. att[g].ps.ver \in Nat BY <1>0, <1>18, RecordFacts DEF AttachTake, StoreShape, Attaches
    <3>11. Grant(rec, g) \in Records /\ Grant(rec, g).gen = rec.gen + 1 BY <1>1, <2>2, <3>1, GrantedRecord
    <3>3. rec'.gen = rec.gen + 1 BY <3>1, <3>2, <3>11, SavedRecord
    <3>4. rec.gen \in Nat /\ rec.gen + 1 \in Gens BY SMT, <1>1, <2>2, <3>1 DEF Gens, Fleet
    <3>5. \A i \in Gens : i > rec'.gen => i > rec.gen /\ i # rec.gen + 1 BY SMT, <3>3, <3>4 DEF Gens, Fleet
    <3>6. \A i \in Gens : i > rec'.gen => obj'[i].gw = Nobody
      BY <1>0, <2>2, <3>1, <3>5 DEF Behind, StoreShape
    <3>12. warm' = warm /\ warm <= rec.gen BY <2>1, <2>2 DEF Behind
    <3>7. warm' <= rec'.gen BY SMT, <1>20, <3>3, <3>4, <3>12
    <3>8. ctl.pc = "spawn" => ctl.ps.gen \in Gens BY <1>0, RecordFacts DEF MoveShape
    <3>9. ctl.pc = "spawn" => ctl.ps.gen <= rec'.gen
      <4>1. ctl.pc = "spawn" => ctl.ps.gen <= rec.gen BY <2>2 DEF Behind
      <4> QED BY SMT, <3>3, <3>4, <3>8, <4>1 DEF Gens, Fleet
    <3>10. Committing => ctl.gen <= rec'.gen /\ ctl.gen # rec'.gen
      <4>1. Committing => ctl.gen <= rec.gen BY <2>2 DEF Behind
      <4> QED BY SMT, <1>20, <3>3, <3>4, <4>1
    <3> QED BY <2>1, <3>6, <3>7, <3>9, <3>10 DEF Behind, Committing, Holds
  <2>3. CASE UNCHANGED <<rec, obj, live>> BY <2>1, <2>3, <1>2
  <2> QED BY <1>18, <2>2, <2>3 DEF AttachTake
<1>19. ASSUME NEW g \in Ends, Crash(g) PROVE Behind'
  <2>1. UNCHANGED rec /\ live' = [live EXCEPT ![g] = 0] BY <1>19 DEF Crash
  <2>2. \A i \in Gens : obj'[i].gw \in {obj[i].gw, Nobody} BY <1>19, ObjectsKept
  <2>3. CASE UNCHANGED <<warm, ctl>>
    <3>1. live'[Dst] \in {live[Dst], 0} BY <1>0, <2>1 DEF StoreShape
    <3> QED BY <2>1, <2>2, <2>3, <3>1, <1>2
  <2>4. CASE warm' = 0 /\ ctl' = NoCtl
    <3>1. SameLease BY <2>1 DEF SameLease
    <3> QED BY <2>2, <2>4, <3>1, FreshCtl, CommitEnded
  <2> QED BY <1>19, <2>3, <2>4 DEF Crash
<1> QED
  BY <1>3, <1>4, <1>5, <1>6, <1>7, <1>8, <1>9, <1>10, <1>11, <1>12, <1>13, <1>14, <1>15, <1>16, <1>17,
     <1>18, <1>19 DEF Next, Ends
LEMMA InitBehind == ASSUME Fleet, Init PROVE Behind
<1>1. rec.gen = 1 /\ warm = 0 /\ ctl = NoCtl BY DEF Init
<1>2. \A i \in Gens : i > 1 => obj[i].gw = Nobody BY SMT DEF Init, Gone, Gens
<1>3. ctl.pc = "none" BY <1>1, FreshCtl
<1> QED BY SMT, <1>1, <1>2, <1>3 DEF Behind, Committing

-----------------------------------------------------------------------------
(* The order of the frames.                                                *)

LEMMA NextFrames == ASSUME Fleet, MoveInv, Frames, [Next]_vars PROVE Frames'
<1> USE DEF Frames
<1>0. MoveShape /\ WarmAttended BY DEF MoveInv, Shape
<1>1. CASE UNCHANGED <<wire, mv, ctl>> BY <1>1
<1>2. CASE MoveBegin BY <1>0, <1>2 DEF MoveBegin, MoveShape, NoCtl
<1>3. CASE MoveRefused BY <1>0, <1>3 DEF MoveRefused, SourceTo, MoveShape
<1>4. CASE Freeze BY <1>0, <1>4 DEF Freeze, MoveShape
<1>5. CASE FinalCheckpoint BY <1>0, <1>5 DEF FinalCheckpoint, MoveShape
<1>6. CASE Yield BY <1>0, <1>6 DEF Yield, SourceTo, MoveShape
<1>7. CASE MoveReadFails BY <1>0, <1>7 DEF MoveReadFails, SourceTo, MoveShape
<1>8. CASE MoveAgain BY <1>0, <1>8 DEF MoveAgain, MoveShape, NoWire
<1>9. CASE CtlPrepare
  <2>1. ctl.pc = "read" /\ wire.dst = "prepare" /\ UNCHANGED mv BY <1>9 DEF CtlPrepare
  <2>2. CASE rec = NoRec
    <3>1. Answer("refuse") /\ UNCHANGED ctl BY <1>9, <2>2 DEF CtlPrepare
    <3> QED BY <1>0, <2>1, <3>1, Answered
  <2>3. CASE rec # NoRec
    <3>1. ctl' = [ctl EXCEPT !.pc = "spawn", !.ps = rec] /\ wire' = [wire EXCEPT !.dst = ""]
      BY <1>9, <2>3 DEF CtlPrepare
    <3> QED BY <1>0, <2>1, <3>1 DEF MoveShape
  <2> QED BY <2>2, <2>3
<1>10. CASE CtlWarm
  <2>1. ctl.pc = "spawn" /\ UNCHANGED mv BY <1>10 DEF CtlWarm
  <2>2. wire.src = "" /\ mv.pc # "final" BY <2>1
  <2>3. CASE Answer("refuse") /\ ctl' = [ctl EXCEPT !.pc = "read"]
    <3>1. wire'.src \in {"", "refuse"} /\ wire'.dst = "" BY <1>0, <2>2, <2>3, Answered
    <3> QED BY <1>0, <2>1, <2>2, <2>3, <3>1 DEF MoveShape
  <2>4. CASE Answer("ready") /\ ctl' = [ctl EXCEPT !.pc = "read", !.prepared = TRUE]
    <3>1. wire'.src \in {"", "ready"} /\ wire'.dst = "" BY <1>0, <2>2, <2>4, Answered
    <3>2. ctl'.pc = "read" /\ ctl'.prepared BY <1>0, <2>4 DEF MoveShape
    <3> QED BY <2>1, <2>2, <3>1, <3>2
  <2> QED BY <1>10, <2>3, <2>4 DEF CtlWarm
<1>11. CASE CtlClaim
  <2>1. ctl.pc = "read" /\ wire.dst = "commit" /\ UNCHANGED mv BY <1>11 DEF CtlClaim
  <2>2. mv.pc # "final" /\ wire.src # "ready" BY <2>1
  <2>3. CASE Committed \/ CommitFails
    <3>1. PICK f \in {"committed", "cas_lost"} : Answer(f) BY <2>3 DEF Committed, CommitFails
    <3>2. wire'.src \in {wire.src, f} /\ wire'.dst = "" BY <1>0, <3>1, Answered
    <3>3. ctl'.pc \in {"none", "read"} BY <2>3, FreshCtl DEF Committed, CommitFails
    <3> QED BY <2>1, <2>2, <3>1, <3>2, <3>3
  <2>4. CASE ctl' = [ctl EXCEPT !.pc = "authorize", !.gen = warm] /\ wire' = [wire EXCEPT !.dst = ""]
    BY <1>0, <2>1, <2>2, <2>4 DEF MoveShape
  <2> QED BY <1>11, <2>3, <2>4 DEF CtlClaim
<1>12. CASE CtlAuthorize BY <1>0, <1>12 DEF CtlAuthorize, CommitFails, Answer, MoveShape, NoCtl
<1>13. CASE CtlTakeover BY <1>0, <1>13 DEF CtlTakeover, MoveShape
<1>14. CASE CtlCheck
  <2>1. ctl.pc = "check" /\ UNCHANGED mv BY <1>14 DEF CtlCheck
  <2>2. PICK f \in {"committed", "cas_lost"} : Answer(f) BY <1>14 DEF CtlCheck, Committed, CommitFails
  <2>3. wire'.src \in {wire.src, f} /\ wire'.dst = "" /\ wire'.open = wire.open BY <1>0, <2>2, Answered
  <2>4. ctl'.pc \in {"none", "read"} BY <1>14, FreshCtl DEF CtlCheck, Committed, CommitFails
  <2>5. wire.open => mv.pc # "final" /\ wire.src # "ready" BY <2>1
  <2>6. mv.pc = "final" => ~wire.open BY <2>5
  <2> QED BY <1>0, <2>1, <2>2, <2>3, <2>4, <2>5, <2>6, Answered
<1>15. CASE CtlLoad BY <1>0, <1>15 DEF CtlLoad, CommitFails, Answer, MoveShape, NoCtl
<1>16. CASE CtlPromote BY <1>0, <1>16 DEF CtlPromote, Committed, Answer, MoveShape, NoCtl
<1>17. CASE CtlEnds BY <1>0, <1>17 DEF CtlEnds, MoveShape, NoCtl
<1>18. CASE ConnDrops
  <2>1. UNCHANGED <<mv, ctl>> BY <1>18 DEF ConnDrops
  <2>2. PICK d \in {"", wire.dst}, s \in {"", wire.src} : wire' = [open |-> FALSE, dst |-> d, src |-> s]
    BY <1>18 DEF ConnDrops
  <2>3. wire'.open = FALSE /\ wire'.dst \in {"", wire.dst} /\ wire'.src \in {"", wire.src} BY <2>2
  <2> QED BY <2>1, <2>3
<1>19. ASSUME NEW g \in Ends, Crash(g) PROVE Frames' BY <1>0, <1>19 DEF Crash, MoveShape, NoCtl
<1>20. CASE [Next]_vars /\ ~UNCHANGED <<wire, mv, ctl>>
  <2>1. \/ MoveBegin \/ MoveRefused \/ Freeze \/ FinalCheckpoint \/ Yield \/ MoveReadFails \/ MoveAgain
        \/ CtlPrepare \/ CtlWarm \/ CtlClaim \/ CtlAuthorize \/ CtlTakeover \/ CtlCheck
        \/ CtlLoad \/ CtlPromote \/ CtlEnds \/ ConnDrops \/ \E g \in Ends : Crash(g)
    BY <1>20 DEF Next, vars, Ends, ConnLost, Receive, AttachKnown, AttachLoad, AttachTake,
        RenewFenced, Reap, RemoveTakes, RemoveDeletes, Dispatch
  <2> QED BY <2>1, <1>2, <1>3, <1>4, <1>5, <1>6, <1>7, <1>8, <1>9, <1>10, <1>11, <1>12, <1>13, <1>14,
             <1>15, <1>16, <1>17, <1>18, <1>19
<1> QED BY <1>1, <1>20

-----------------------------------------------------------------------------
(* Where the session is.                                                   *)
SameOwner == rec'.owner = rec.owner /\ rec'.gen = rec.gen

(* What a step leaves of it that registers no object and takes no lease.   *)
LEMMA StillPlaced ==
    ASSUME Placed, SameOwner, UNCHANGED live, \A i \in Gens : obj'[i].gw = obj[i].gw,
           \A g \in Ends : att'[g].pc # "idle" => att[g].pc # "idle" \/ live[g] = 0
    PROVE  Placed'
<1>1. ASSUME NEW g \in Ends, NEW i \in Gens PROVE obj'[i].gw = g <=> live'[g] = i
  <2>1. obj[i].gw = g <=> live[g] = i BY DEF Placed
  <2> QED BY <2>1
<1>2. \A g \in Ends : att'[g].pc # "idle" => live'[g] = 0 BY DEF Placed
<1>3. \A g \in Ends : rec'.owner = g /\ live'[g] # 0 => live'[g] = rec'.gen BY DEF Placed, SameOwner
<1> QED BY <1>1, <1>2, <1>3 DEF Placed

LEMMA StillWon ==
    ASSUME Won, SameOwner, Winning' => Winning /\ ctl'.gen = ctl.gen, live'[Dst] \in {live[Dst], 0},
           \A i \in Gens : obj'[i].gw \in {obj[i].gw, Nobody}
    PROVE  Won'
BY DEF Won, SameOwner

LEMMA StillGivenUp ==
    ASSUME GivenUp, SameOwner, mv'.pc = "final" => mv.pc = "final" /\ mv'.gen = mv.gen,
           Moving' => Moving, Winning' => Winning, wire'.src = "committed" => wire.src = "committed",
           ctl'.prepared => ctl.prepared, live'[Dst] \in {live[Dst], 0}
    PROVE  GivenUp'
BY DEF GivenUp, SameOwner

(* A checkpoint under the generation the owner's record says is not fenced *)
(* and one of another gateway asks for its removal there.                  *)
LEMMA StillElsewhere ==
    ASSUME StoreShape, rec # NoRec, RemovedElsewhere, NEW g, NEW i, NEW v, Checkpoint(g, i, v),
           Holds(rec, g, i) => v \in Nat, g \in Ends /\ rec.owner = g => rec.gen = i
    PROVE  rec' # NoRec /\ SameOwner /\ RemovedElsewhere'
<1>1. rec' # NoRec /\ SameOwner BY Checkpointed DEF SameOwner
<1>2. CASE Holds(rec, g, i)
  <2>1. UNCHANGED removes BY <1>2, Checkpointed
  <2> QED BY <1>1, <2>1 DEF RemovedElsewhere, SameOwner
<1>3. CASE ~Holds(rec, g, i)
  <2>1. g \in Ends => rec.owner # g BY <1>3 DEF Holds
  <2>3. removes' = AskRemove(g) BY <1>3 DEF Checkpoint
  <2>2. \A h \in Ends : h # g => removes'[h] = removes[h] BY SMT, <2>3, RemovalAsked
  <2> QED BY <1>1, <2>1, <2>2 DEF RemovedElsewhere, SameOwner
<1> QED BY <1>2, <1>3

(* A gateway that has no object of the session registers one.              *)
LEMMA NowPlaced ==
    ASSUME Fleet, StoreShape, Placed, NEW g \in Ends, NEW i \in Gens, NEW v, NEW a, Registers(g, i, v, a),
           obj[i].gw = Nobody, live[g] = 0, att'[g].pc = "idle", \A h \in Ends : h # g => att'[h] = att[h],
           rec'.owner = g => rec'.gen = i, \A h \in Ends : h # g /\ rec'.owner = h => SameOwner
    PROVE  Placed'
<1>0. Nobody \notin Ends /\ 0 \notin Gens
  <2>1. Nobody \notin Ends BY RecordFacts DEF Fleet, Ends
  <2>2. 0 \notin Gens BY SMT DEF Gens, Fleet
  <2> QED BY <2>1, <2>2
<1>1. obj'[i].gw = g /\ \A j \in Gens : j # i => obj'[j] = obj[j] BY DEF Registers, StoreShape
<1>2. live'[g] = i /\ \A h \in Ends : h # g => live'[h] = live[h] BY DEF Registers, StoreShape
<1>3. ASSUME NEW h \in Ends, NEW j \in Gens PROVE obj'[j].gw = h <=> live'[h] = j
  <2>1. obj[j].gw = h <=> live[h] = j BY <1>3 DEF Placed
  <2>2. CASE j = i
    <3>1. live[h] # i BY <1>0, <2>1, <2>2
    <3> QED BY <1>1, <1>2, <2>2, <3>1
  <2>3. CASE j # i
    <3>1. obj'[j].gw = obj[j].gw BY <1>1, <2>3
    <3>2. CASE h = g BY <1>0, <1>2, <2>1, <2>3, <3>1, <3>2
    <3>3. CASE h # g BY <1>2, <2>1, <3>1, <3>3
    <3> QED BY <3>2, <3>3
  <2> QED BY <2>2, <2>3
<1>4. ASSUME NEW h \in Ends, att'[h].pc # "idle" PROVE live'[h] = 0
  <2>1. h # g /\ att'[h] = att[h] /\ live'[h] = live[h] BY <1>2, <1>4
  <2> QED BY <1>4, <2>1 DEF Placed
<1>5. \A h \in Ends : rec'.owner = h /\ live'[h] # 0 => live'[h] = rec'.gen
  BY <1>2 DEF Placed, SameOwner
<1> QED BY <1>3, <1>4, <1>5 DEF Placed

(* A gateway that is not the owner drops its object.                       *)
LEMMA NoLongerPlaced ==
    ASSUME Fleet, StoreShape, Placed, NEW g \in Ends, UNCHANGED rec, live' = [live EXCEPT ![g] = 0],
           \A i \in Gens : obj'[i].gw = IF obj[i].gw = g THEN Nobody ELSE obj[i].gw,
           \A h \in Ends : att'[h].pc # "idle" => att[h].pc # "idle"
    PROVE  Placed'
<1>0. Nobody \notin Ends /\ 0 \notin Gens
  <2>1. Nobody \notin Ends BY RecordFacts DEF Fleet, Ends
  <2>2. 0 \notin Gens BY SMT DEF Gens, Fleet
  <2> QED BY <2>1, <2>2
<1>1. live'[g] = 0 /\ \A h \in Ends : h # g => live'[h] = live[h] BY DEF StoreShape
<1>2. ASSUME NEW h \in Ends, NEW j \in Gens PROVE obj'[j].gw = h <=> live'[h] = j
  <2>1. obj[j].gw = h <=> live[h] = j BY <1>2 DEF Placed
  <2>2. CASE h = g BY <1>0, <1>1, <2>2
  <2>3. CASE h # g BY <1>0, <1>1, <2>1, <2>3
  <2> QED BY <2>2, <2>3
<1>3. \A h \in Ends : att'[h].pc # "idle" => live'[h] = 0 BY <1>1 DEF Placed
<1>4. \A h \in Ends : rec'.owner = h /\ live'[h] # 0 => live'[h] = rec'.gen BY <1>1 DEF Placed
<1> QED BY <1>2, <1>3, <1>4 DEF Placed

(* The steps that change an object and leave it where it is.               *)
LEMMA SameHosts ==
    ASSUME StoreShape, Receive \/ (\E g \in Ends : AttachKnown(g)) \/ \E i \in Gens : Dispatch(i)
    PROVE  \A i \in Gens : obj'[i].gw = obj[i].gw
<1>0. obj \in [Gens -> Objects] BY DEF StoreShape
<1>1. CASE Receive BY <1>0, <1>1 DEF Receive, Objects
<1>2. ASSUME NEW g \in Ends, AttachKnown(g) PROVE \A i \in Gens : obj'[i].gw = obj[i].gw
  BY <1>0, <1>2 DEF AttachKnown, Objects
<1>3. ASSUME NEW j \in Gens, Dispatch(j) PROVE \A i \in Gens : obj'[i].gw = obj[i].gw
  <2>1. obj' = [obj EXCEPT ![j].inbox = @ - 1, ![j].ver = @ + 1] BY <1>3 DEF Dispatch
  <2>2. obj' = [obj EXCEPT ![j] = [obj[j] EXCEPT !.inbox = @ - 1, !.ver = @ + 1]] BY <1>0, <2>1
  <2>3. [obj[j] EXCEPT !.inbox = @ - 1, !.ver = @ + 1].gw = obj[j].gw BY <1>0 DEF Objects
  <2> QED BY <1>0, <2>2, <2>3
<1> QED BY <1>1, <1>2, <1>3

(* The source's steps.                                                     *)
LEMMA SourceInOrder ==
    ASSUME Fleet, MoveInv, InOrder,
           \/ MoveBegin \/ MoveRefused \/ Freeze \/ FinalCheckpoint \/ Yield \/ MoveReadFails \/ MoveAgain
    PROVE  InOrder'
<1>0. /\ StoreShape /\ MoveShape /\ Src \in Ends /\ Dst \in Ends
      /\ rec # NoRec /\ Placed /\ RemovedElsewhere /\ Won /\ GivenUp
  BY DEF MoveInv, Shape, InOrder, Ends
<1>1. ASSUME SameOwner, UNCHANGED <<obj, live, att, ctl>> PROVE Placed' /\ Won'
  <2>1. Placed' BY <1>0, <1>1, StillPlaced
  <2>2. Won' BY <1>0, <1>1, StillWon DEF Winning
  <2> QED BY <2>1, <2>2
<1>2. ASSUME UNCHANGED <<rec, obj, live, att, ctl, removes>>, GivenUp' PROVE InOrder'
  BY <1>0, <1>1, <1>2 DEF InOrder, RemovedElsewhere, SameOwner
<1>3. CASE MoveRefused \/ MoveReadFails \/ MoveAgain
  <2>1. /\ UNCHANGED <<rec, obj, live, att, ctl, removes>>
        /\ \/ \E pc \in {"failed", "unknown"} : mv' = [mv EXCEPT !.pc = pc]
           \/ mv' = [mv EXCEPT !.pc = "idle", !.tries = @ + 1]
    BY <1>3 DEF MoveRefused, MoveReadFails, MoveAgain, SourceTo
  <2>2. mv'.pc \in {"failed", "unknown", "idle"} BY <1>0, <2>1 DEF MoveShape
  <2>3. GivenUp' BY <2>2 DEF GivenUp, Moving
  <2> QED BY <1>2, <2>1, <2>3
<1>4. CASE Freeze
  <2>1. UNCHANGED <<rec, obj, live, att, ctl, removes>> /\ mv.pc = "prepare" BY <1>4 DEF Freeze
  <2>2. wire'.src = "" BY <1>0, <1>4 DEF Freeze, MoveShape
  <2>3. CASE mv' = [mv EXCEPT !.pc = "failed"]
    <3>1. mv'.pc = "failed" BY <1>0, <2>3 DEF MoveShape
    <3> QED BY <1>2, <2>1, <3>1 DEF GivenUp, Moving
  <2>4. CASE live[Src] # 0 /\ mv' = [mv EXCEPT !.pc = "final", !.gen = live[Src]]
    <3>1. mv'.pc = "final" /\ mv'.gen = live[Src] BY <1>0, <2>4 DEF MoveShape
    <3>2. rec.owner = Src => live[Src] = rec.gen BY <1>0, <2>4 DEF Placed
    <3>3. Moving /\ wire'.src # "committed" BY <2>1, <2>2 DEF Moving
    <3>4. GivenUp' BY <1>0, <2>1, <3>1, <3>2, <3>3 DEF GivenUp, Winning
    <3> QED BY <1>2, <2>1, <3>4
  <2> QED BY <1>4, <2>3, <2>4 DEF Freeze
<1>5. CASE MoveBegin
  <2>1. /\ Checkpoint(Src, live[Src], obj[live[Src]].ver) /\ UNCHANGED <<obj, live, att>> /\ live[Src] # 0
        /\ mv' = [mv EXCEPT !.pc = "prepare", !.gen = live[Src]] /\ ctl' = [NoCtl EXCEPT !.pc = "read"]
        /\ wire' = [open |-> TRUE, dst |-> "prepare", src |-> ""]
    BY <1>5 DEF MoveBegin
  <2>2. rec.owner = Src => rec.gen = live[Src] BY <1>0, <2>1 DEF Placed
  <2>3. rec' # NoRec /\ SameOwner /\ RemovedElsewhere' BY <1>0, <2>1, <2>2, HeldObject, StillElsewhere
  <2>4. ctl'.pc = "read" /\ ~ctl'.prepared BY <2>1, FreshCtl
  <2>5. mv'.pc = "prepare" /\ wire'.src = "" BY <1>0, <2>1 DEF MoveShape
  <2>6. Placed' BY <1>0, <2>1, <2>3, StillPlaced
  <2>7. Won' /\ GivenUp' BY <2>4, <2>5 DEF Won, GivenUp, Winning
  <2> QED BY <2>3, <2>6, <2>7 DEF InOrder
<1>6. CASE FinalCheckpoint
  <2>1. /\ mv.pc = "final" /\ Checkpoint(Src, mv.gen, obj[mv.gen].ver) /\ UNCHANGED <<obj, live, att, ctl>>
        /\ \E pc \in {"commit", "failed"} : mv' = [mv EXCEPT !.pc = pc]
        /\ wire' = [wire EXCEPT !.dst = "commit"] \/ wire' = wire
    BY <1>6 DEF FinalCheckpoint
  <2>2. rec.owner = Src => rec.gen = mv.gen BY <1>0, <2>1 DEF GivenUp
  <2>3. rec' # NoRec /\ SameOwner /\ RemovedElsewhere' BY <1>0, <2>1, <2>2, HeldObject, StillElsewhere
  <2>4. mv'.pc # "final" /\ wire'.src = wire.src BY <1>0, <2>1 DEF MoveShape
  <2>5. Moving BY <2>1 DEF Moving
  <2>6. GivenUp' BY <1>0, <2>1, <2>3, <2>4, <2>5, StillGivenUp DEF Winning
  <2> QED BY <1>1, <2>1, <2>3, <2>6 DEF InOrder
<1>7. CASE Yield
  <2>1. /\ mv.pc = "commit" /\ wire.src = "committed" /\ UNCHANGED <<rec, obj, live, att, ctl>>
        /\ removes' = AskRemove(Src) /\ mv' = [mv EXCEPT !.pc = "done"]
    BY <1>7 DEF Yield, SourceTo
  <2>2. rec.owner # Src BY <1>0, <2>1 DEF GivenUp, Moving
  <2>3. \A h \in Ends : h # Src => removes'[h] = removes[h] BY SMT, <1>0, <2>1, RemovalAsked
  <2>4. RemovedElsewhere' BY <1>0, <2>1, <2>2, <2>3 DEF RemovedElsewhere
  <2>5. mv'.pc = "done" BY <1>0, <2>1 DEF MoveShape
  <2>6. GivenUp' BY <2>5 DEF GivenUp, Moving
  <2>7. SameOwner BY <2>1 DEF SameOwner
  <2> QED BY <1>0, <1>1, <2>1, <2>4, <2>6, <2>7 DEF InOrder
<1> QED BY <1>3, <1>4, <1>5, <1>6, <1>7

(* The destination's steps that take no lease and register no object.      *)
LEMMA HandlerInOrder ==
    ASSUME Fleet, MoveInv, Frames, InOrder,
           \/ CtlPrepare \/ CtlWarm \/ CtlClaim \/ CtlAuthorize \/ CtlCheck \/ CtlLoad \/ CtlEnds
           \/ ConnDrops \/ ConnLost
    PROVE  InOrder'
<1>0. /\ StoreShape /\ MoveShape /\ Src \in Ends /\ Dst \in Ends /\ Src # Dst
      /\ rec # NoRec /\ Placed /\ RemovedElsewhere /\ Won /\ GivenUp
  BY DEF MoveInv, Shape, InOrder, Ends, Fleet
<1>1. UNCHANGED <<rec, obj, live, removes, att, mv>>
  BY DEF CtlPrepare, CtlWarm, CtlClaim, CtlAuthorize, CtlCheck, CtlLoad, CtlEnds, ConnDrops, ConnLost
<1>2. SameOwner /\ Placed' /\ RemovedElsewhere' /\ rec' # NoRec
  BY <1>0, <1>1, StillPlaced DEF SameOwner, RemovedElsewhere
<1>3. ASSUME Winning' => Winning /\ ctl'.gen = ctl.gen, GivenUp' PROVE InOrder'
  BY <1>0, <1>1, <1>2, <1>3, StillWon DEF InOrder
<1>4. ASSUME Winning' => Winning /\ ctl'.gen = ctl.gen, wire'.src = "committed" => wire.src = "committed",
             ctl'.prepared => ctl.prepared \/ live[Dst] = 0
      PROVE  InOrder'
  <2>1. GivenUp' BY <1>0, <1>1, <1>4 DEF GivenUp, Moving
  <2> QED BY <1>3, <1>4, <2>1
<1>5. ASSUME CommitFails PROVE InOrder'
  <2>1. ctl' = [NoCtl EXCEPT !.pc = "read"] /\ Answer("cas_lost") BY <1>5 DEF CommitFails
  <2>2. ctl'.pc = "read" /\ ~ctl'.prepared BY <2>1, FreshCtl
  <2>3. wire'.src \in {wire.src, "cas_lost"} BY <1>0, <2>1, Answered
  <2> QED BY <1>4, <2>2, <2>3 DEF Winning
<1>6. ASSUME Committed, wire.open /\ Moving => rec.owner # Src PROVE InOrder'
  <2>1. ctl' = NoCtl /\ Answer("committed") BY <1>6 DEF Committed
  <2>2. ctl'.pc = "none" /\ ~ctl'.prepared BY <2>1, FreshCtl
  <2>3. CASE wire.open
    <3>1. GivenUp' BY <1>0, <1>1, <1>6, <2>2, <2>3 DEF GivenUp, Moving, Winning
    <3> QED BY <1>3, <2>2, <3>1 DEF Winning
  <2>4. CASE ~wire.open
    <3>1. wire'.src = wire.src BY <1>0, <2>1, <2>4, Answered
    <3> QED BY <1>4, <2>2, <3>1 DEF Winning
  <2> QED BY <2>3, <2>4
<1>7. CASE CtlPrepare
  <2>1. /\ UNCHANGED ctl \/ ctl' = [ctl EXCEPT !.pc = "spawn", !.ps = rec]
        /\ Answer("refuse") \/ wire' = [wire EXCEPT !.dst = ""]
    BY <1>7 DEF CtlPrepare
  <2>2. ctl'.prepared = ctl.prepared /\ (Winning' => UNCHANGED ctl) BY <1>0, <2>1 DEF MoveShape, Winning
  <2>3. wire'.src \in {wire.src, "refuse"}
    <3>1. CASE Answer("refuse") BY <1>0, <3>1, Answered
    <3>2. CASE wire' = [wire EXCEPT !.dst = ""] BY <1>0, <3>2 DEF MoveShape
    <3> QED BY <2>1, <3>1, <3>2
  <2> QED BY <1>4, <2>2, <2>3 DEF Winning
<1>8. CASE CtlWarm
  <2>1. CASE Answer("refuse") /\ ctl' = [ctl EXCEPT !.pc = "read"]
    <3>1. ctl'.prepared = ctl.prepared /\ ctl'.pc = "read" BY <1>0, <2>1 DEF MoveShape
    <3>2. wire'.src \in {wire.src, "refuse"} BY <1>0, <2>1, Answered
    <3> QED BY <1>4, <3>1, <3>2 DEF Winning
  <2>2. CASE live[Dst] = 0 /\ Answer("ready") /\ ctl' = [ctl EXCEPT !.pc = "read", !.prepared = TRUE]
    <3>1. ctl'.pc = "read" BY <1>0, <2>2 DEF MoveShape
    <3>2. wire'.src \in {wire.src, "ready"} BY <1>0, <2>2, Answered
    <3> QED BY <1>4, <2>2, <3>1, <3>2 DEF Winning
  <2> QED BY <1>8, <2>1, <2>2 DEF CtlWarm
<1>9. CASE CtlClaim
  <2>1. CASE live[Dst] # 0 /\ Committed
    <3>1. wire.dst = "commit" BY <1>9 DEF CtlClaim
    <3>2. wire.open => ctl.prepared BY <3>1 DEF Frames
    <3>3. wire.open /\ Moving => rec.owner # Src BY <1>0, <2>1, <3>2 DEF GivenUp
    <3> QED BY <1>6, <2>1, <3>3
  <2>2. CASE ctl' = [ctl EXCEPT !.pc = "authorize", !.gen = warm] /\ wire' = [wire EXCEPT !.dst = ""]
    <3>1. ctl'.pc = "authorize" /\ ctl'.prepared = ctl.prepared /\ wire'.src = wire.src
      BY <1>0, <2>2 DEF MoveShape
    <3> QED BY <1>4, <3>1 DEF Winning
  <2> QED BY <1>5, <1>9, <2>1, <2>2 DEF CtlClaim
<1>10. CASE CtlAuthorize
  <2>1. CASE ctl' = [ctl EXCEPT !.pc = "cas"] /\ UNCHANGED wire
    <3>1. ctl'.pc = "cas" /\ ctl'.prepared = ctl.prepared BY <1>0, <2>1 DEF MoveShape
    <3> QED BY <1>4, <2>1, <3>1 DEF Winning
  <2> QED BY <1>5, <1>10, <2>1 DEF CtlAuthorize
<1>11. CASE CtlCheck BY <1>0, <1>5, <1>6, <1>11 DEF CtlCheck
<1>12. CASE CtlLoad
  <2>1. ctl.pc = "load" /\ ctl' = [ctl EXCEPT !.pc = "promote", !.ps = rec] /\ UNCHANGED wire
    BY <1>0, <1>12 DEF CtlLoad
  <2>2. ctl'.gen = ctl.gen /\ ctl'.prepared = ctl.prepared BY <1>0, <2>1 DEF MoveShape
  <2> QED BY <1>4, <2>1, <2>2 DEF Winning
<1>13. CASE CtlEnds
  <2>1. ctl' = NoCtl /\ wire'.src = wire.src BY <1>0, <1>13 DEF CtlEnds, MoveShape
  <2> QED BY <1>4, <2>1, FreshCtl DEF Winning
<1>14. CASE ConnDrops
  <2>1. UNCHANGED ctl BY <1>14 DEF ConnDrops
  <2>2. PICK d \in {"", wire.dst}, s \in {"", wire.src} : wire' = [open |-> FALSE, dst |-> d, src |-> s]
    BY <1>14 DEF ConnDrops
  <2>3. wire'.src \in {"", wire.src} BY <2>2
  <2> QED BY <1>4, <2>1, <2>3 DEF Winning
<1>15. CASE ConnLost BY <1>4, <1>15 DEF ConnLost, Winning
<1> QED BY <1>7, <1>8, <1>9, <1>10, <1>11, <1>12, <1>13, <1>14, <1>15

(* The commit's compare-and-swap, and the promotion of what it won.        *)
LEMMA CommitInOrder ==
    ASSUME Fleet, MoveInv, Behind, InOrder, Quietly', CtlTakeover \/ CtlPromote
    PROVE  InOrder'
<1>0. /\ StoreShape /\ MoveShape /\ Src \in Ends /\ Dst \in Ends /\ Src # Dst
      /\ rec # NoRec /\ Placed /\ RemovedElsewhere /\ Won /\ GivenUp
  BY DEF MoveInv, Shape, InOrder, Ends, Fleet
<1>1. rec \in Records /\ rec.gen \in Gens BY <1>0, RecordFacts DEF StoreShape
<1>2. CASE CtlTakeover
  <2>1. ctl.pc = "cas" /\ UNCHANGED <<obj, live, removes, att, mv, wire>> BY <1>2 DEF CtlTakeover
  <2>2. CASE canTakeover(rec, ctl.gen)
    <3>1. /\ rec.gen < MaxGen /\ rec' = Grant(rec, Dst) /\ rec.gen = ctl.gen
          /\ ctl' = [ctl EXCEPT !.pc = "load", !.gen = rec.gen + 1]
          /\ overtaken' = (overtaken \/ removes[Dst] # NoRemoval)
      BY <1>0, <1>2, <2>2 DEF CtlTakeover, canTakeover
    <3>2. rec' \in Records /\ rec'.gen = rec.gen + 1 /\ rec'.owner = Dst BY <1>0, <1>1, <3>1, GrantedRecord
    <3>3. rec' # NoRec BY <3>2, RecordFacts
    <3>4. ctl'.gen = rec.gen + 1 BY <1>0, <3>1 DEF MoveShape
    <3>5. live[Dst] = 0 BY <1>0, <2>1, <3>1 DEF Behind, Committing
    <3>6. rec.gen + 1 \in Gens /\ rec.gen + 1 > rec.gen BY SMT, <1>1, <3>1 DEF Gens, Fleet
    <3>7. obj[rec.gen + 1].gw = Nobody BY <1>0, <3>6 DEF Behind
    <3>8. Placed'
      <4>1. \A g \in Ends : rec'.owner = g /\ live'[g] # 0 => live'[g] = rec'.gen BY <2>1, <3>2, <3>5
      <4> QED BY <1>0, <2>1, <4>1 DEF Placed
    <3>9. removes[Dst] = NoRemoval BY <3>1 DEF Quietly
    <3>10. RemovedElsewhere' BY <2>1, <3>2, <3>9 DEF RemovedElsewhere
    <3>11. Won' BY <2>1, <3>2, <3>4, <3>5, <3>6, <3>7 DEF Won
    <3>12. GivenUp' BY <1>0, <3>2 DEF GivenUp
    <3> QED BY <3>3, <3>8, <3>10, <3>11, <3>12 DEF InOrder
  <2>3. CASE ~canTakeover(rec, ctl.gen)
    <3>1. ctl' = [ctl EXCEPT !.pc = "check"] /\ UNCHANGED rec BY <1>2, <2>3 DEF CtlTakeover
    <3>2. ctl'.pc = "check" /\ ctl'.prepared = ctl.prepared BY <1>0, <3>1 DEF MoveShape
    <3>3. ~Winning' /\ SameOwner BY <3>1, <3>2 DEF Winning, SameOwner
    <3>4. Placed' BY <1>0, <2>1, <3>3, StillPlaced
    <3>5. GivenUp' BY <1>0, <2>1, <3>2, <3>3, StillGivenUp DEF Moving
    <3> QED BY <1>0, <2>1, <3>1, <3>3, <3>4, <3>5 DEF InOrder, RemovedElsewhere, Won
  <2> QED BY <2>2, <2>3
<1>3. CASE CtlPromote
  <2>1. /\ ctl.pc = "promote" /\ att[Dst].pc = "idle" /\ ctl' = NoCtl /\ UNCHANGED <<att, mv>>
        /\ Registers(Dst, ctl.gen, ctl.ps.ver, TRUE)
        /\ Checkpoint(Dst, ctl.gen, ctl.ps.ver)
    BY <1>3 DEF CtlPromote, Committed, MuFree
  <2>2. /\ ctl.gen \in Gens /\ obj[ctl.gen].gw = Nobody /\ live[Dst] = 0
        /\ rec.owner = Dst => rec.gen = ctl.gen
    BY <1>0, <2>1 DEF Won, Winning
  <2>3. ctl.ps.ver \in Nat BY <1>0, <2>1, RecordFacts DEF MoveShape
  <2>4. rec' # NoRec /\ SameOwner /\ RemovedElsewhere' BY <1>0, <2>1, <2>2, <2>3, StillElsewhere
  <2>5. att'[Dst].pc = "idle" /\ \A h \in Ends : h # Dst => att'[h] = att[h] BY <2>1
  <2>6. rec'.owner = Dst => rec'.gen = ctl.gen BY <2>2, <2>4 DEF SameOwner
  <2>7. Placed' BY <1>0, <2>1, <2>2, <2>4, <2>5, <2>6, NowPlaced
  <2>8. Won' BY <2>1, FreshCtl DEF Won, Winning
  <2>9. Moving => rec.owner # Src BY <1>0, <2>1 DEF GivenUp, Winning
  <2>10. GivenUp' BY <1>0, <2>1, <2>4, <2>9 DEF GivenUp, Moving, SameOwner
  <2> QED BY <2>4, <2>7, <2>8, <2>10 DEF InOrder
<1> QED BY <1>2, <1>3

(* An attach, at every point of it.                                        *)
LEMMA AttachInOrder ==
    ASSUME Fleet, MoveInv, Behind, InOrder, Quietly', NEW g \in Ends,
           AttachKnown(g) \/ AttachLoad(g) \/ AttachTake(g)
    PROVE  InOrder'
<1>0. /\ StoreShape /\ MoveShape /\ Src \in Ends /\ Dst \in Ends /\ Src # Dst
      /\ rec # NoRec /\ Placed /\ RemovedElsewhere /\ Won /\ GivenUp
  BY DEF MoveInv, Shape, InOrder, Ends, Fleet
<1>1. rec \in Records /\ rec.gen \in Gens BY <1>0, RecordFacts DEF StoreShape
<1>2. UNCHANGED <<removes, ctl, mv, wire>> BY DEF AttachKnown, AttachLoad, AttachTake
<1>3. ASSUME UNCHANGED <<rec, live>>, \A i \in Gens : obj'[i].gw = obj[i].gw,
             \A h \in Ends : att'[h].pc # "idle" => att[h].pc # "idle" \/ live[h] = 0
      PROVE  InOrder'
  <2>1. SameOwner BY <1>3 DEF SameOwner
  <2>2. Placed' BY <1>0, <1>3, <2>1, StillPlaced
  <2>3. Won' BY <1>0, <1>2, <1>3, <2>1, StillWon DEF Winning
  <2>4. GivenUp' BY <1>0, <1>2, <1>3, <2>1, StillGivenUp DEF Winning, Moving
  <2> QED BY <1>0, <1>2, <1>3, <2>2, <2>3, <2>4 DEF InOrder, RemovedElsewhere
<1>4. CASE AttachKnown(g)
  <2>1. UNCHANGED <<rec, live, att>> BY <1>4 DEF AttachKnown
  <2> QED BY <1>0, <1>3, <1>4, <2>1, SameHosts
<1>5. CASE AttachLoad(g)
  <2>1. UNCHANGED <<rec, obj, live>> /\ \E a : att' = [att EXCEPT ![g] = a] BY <1>5 DEF AttachLoad
  <2>2. live[g] = 0
    <3>1. live[g] = 0 \/ att[g].pc = "load" BY <1>5 DEF AttachLoad
    <3> QED BY <1>0, <3>1 DEF Placed
  <2>3. \A h \in Ends : h # g => att'[h] = att[h] BY <1>0, <2>1 DEF StoreShape
  <2> QED BY <1>3, <2>1, <2>2, <2>3
<1>6. CASE AttachTake(g) /\ ~canTakeover(rec, att[g].ps.gen)
  <2>1. UNCHANGED <<rec, obj, live>> /\ (\E a : att' = [att EXCEPT ![g] = a]) /\ att[g].pc = "take"
    BY <1>6 DEF AttachTake
  <2>2. \A h \in Ends : h # g => att'[h] = att[h] BY <1>0, <2>1 DEF StoreShape
  <2> QED BY <1>3, <2>1, <2>2
<1>7. CASE AttachTake(g) /\ canTakeover(rec, att[g].ps.gen)
  <2>1. /\ rec.gen < MaxGen /\ rec' = Saved(Grant(rec, g), att[g].ps.ver)
        /\ Registers(g, rec.gen + 1, att[g].ps.ver, FALSE)
        /\ att[g].pc = "take" /\ att' = [att EXCEPT ![g] = NoAtt]
        /\ overtaken' = (overtaken \/ Unsettled(g))
    BY <1>0, <1>7 DEF AttachTake
  <2>2. att[g].ps.ver \in Nat BY <1>0, <2>1, RecordFacts DEF StoreShape, Attaches
  <2>3. Grant(rec, g) \in Records /\ Grant(rec, g).gen = rec.gen + 1 /\ Grant(rec, g).owner = g
    BY <1>1, <2>1, GrantedRecord
  <2>4. rec' \in Records /\ rec'.gen = rec.gen + 1 /\ rec'.owner = g BY <2>1, <2>2, <2>3, SavedRecord
  <2>5. rec' # NoRec BY <2>4, RecordFacts
  <2>6. ~Unsettled(g) BY <2>1 DEF Quietly
  <2>7. rec.gen + 1 \in Gens /\ rec.gen + 1 > rec.gen BY SMT, <1>1, <2>1 DEF Gens, Fleet
  <2>8. obj[rec.gen + 1].gw = Nobody BY <1>0, <2>7 DEF Behind
  <2>9. live[g] = 0 BY <1>0, <2>1 DEF Placed
  <2>10. att'[g].pc = "idle" /\ \A h \in Ends : h # g => att'[h] = att[h]
    BY <1>0, <2>1, IdleAttach DEF StoreShape
  <2>11. Placed' BY <1>0, <2>1, <2>4, <2>7, <2>8, <2>9, <2>10, NowPlaced
  <2>12. RemovedElsewhere' BY <1>2, <2>4, <2>6 DEF RemovedElsewhere, Unsettled
  <2>13. Won'
    <3>1. SUFFICES ASSUME Winning PROVE Won' BY <1>2 DEF Won, Winning
    <3>2. g # Dst BY <2>6, <3>1 DEF Unsettled
    <3>3. ctl.gen \in Gens /\ obj[ctl.gen].gw = Nobody /\ live[Dst] = 0 BY <1>0, <3>1 DEF Won
    <3>4. ctl.gen <= rec.gen BY <1>0, <3>1 DEF Behind, Committing, Winning
    <3>5. ctl.gen # rec.gen + 1 BY SMT, <1>1, <3>3, <3>4 DEF Gens, Fleet
    <3>6. obj'[ctl.gen] = obj[ctl.gen] /\ live'[Dst] = live[Dst]
      BY <1>0, <2>1, <3>2, <3>3, <3>5 DEF Registers, StoreShape
    <3> QED BY <1>2, <2>4, <3>2, <3>3, <3>6 DEF Won
  <2>14. GivenUp'
    <3>1. CASE g = Src
      <4>1. ~Moving BY <2>6, <3>1 DEF Unsettled
      <4> QED BY <1>2, <4>1 DEF GivenUp, Moving
    <3>2. CASE g # Src BY <2>4, <3>2 DEF GivenUp
    <3> QED BY <3>1, <3>2
  <2> QED BY <2>5, <2>11, <2>12, <2>13, <2>14 DEF InOrder
<1> QED BY <1>4, <1>5, <1>6, <1>7

(* Whatever ends an object, and what its client sends.                     *)
LEMMA LifeInOrder ==
    ASSUME Fleet, MoveInv, InOrder, Quietly',
           \/ Receive \/ \E i \in Gens : Dispatch(i)
           \/ \E g \in Ends : RenewFenced(g) \/ Reap(g) \/ RemoveTakes(g) \/ RemoveDeletes(g) \/ Crash(g)
    PROVE  InOrder'
<1>0. /\ StoreShape /\ MoveShape /\ Shape /\ Src \in Ends /\ Dst \in Ends /\ Src # Dst
      /\ rec # NoRec /\ Placed /\ RemovedElsewhere /\ Won /\ GivenUp /\ Nobody \notin Ends
  BY RecordFacts DEF MoveInv, Shape, InOrder, Ends, Fleet
<1>1. ASSUME SameOwner, UNCHANGED <<live, att, ctl, mv, wire>>, \A i \in Gens : obj'[i].gw = obj[i].gw
      PROVE  Placed' /\ Won' /\ GivenUp'
  <2>1. Placed' BY <1>0, <1>1, StillPlaced
  <2>2. Won' BY <1>0, <1>1, StillWon DEF Winning
  <2>3. GivenUp' BY <1>0, <1>1, StillGivenUp DEF Winning, Moving
  <2> QED BY <2>1, <2>2, <2>3
<1>2. CASE Receive
  <2>1. UNCHANGED <<rec, live, removes, att, ctl, mv, wire>> BY <1>2 DEF Receive
  <2>2. SameOwner /\ RemovedElsewhere' BY <1>0, <2>1 DEF SameOwner, RemovedElsewhere
  <2> QED BY <1>0, <1>1, <1>2, <2>1, <2>2, SameHosts DEF InOrder
<1>3. ASSUME NEW i \in Gens, Dispatch(i) PROVE InOrder'
  <2>1. Checkpoint(obj[i].gw, i, obj[i].ver + 1) /\ UNCHANGED <<live, att, ctl, mv, wire>>
    BY <1>3 DEF Dispatch
  <2>2. obj[i].ver + 1 \in Nat BY SMT, <1>0 DEF StoreShape, Objects
  <2>3. i # 0 BY SMT DEF Gens, Fleet
  <2>4. ASSUME NEW g \in Ends, obj[i].gw = g, rec.owner = g PROVE rec.gen = i
    <3>1. live[g] = i BY <1>0, <2>4 DEF Placed
    <3> QED BY <1>0, <2>3, <2>4, <3>1 DEF Placed
  <2>5. obj[i].gw \in Ends /\ rec.owner = obj[i].gw => rec.gen = i BY <2>4
  <2>6. rec' # NoRec /\ SameOwner /\ RemovedElsewhere' BY <1>0, <2>1, <2>2, <2>5, StillElsewhere
  <2> QED BY <1>0, <1>1, <1>3, <2>1, <2>6, SameHosts DEF InOrder
<1>4. ASSUME NEW g \in Ends, RenewFenced(g) PROVE InOrder'
  <2>1. /\ removes' = AskRemove(g) /\ UNCHANGED <<rec, obj, live, att, ctl, mv, wire>>
        /\ live[g] # 0 /\ ~Holds(rec, g, live[g])
    BY <1>4 DEF RenewFenced
  <2>2. rec.owner # g BY <1>0, <2>1 DEF Placed, Holds
  <2>3. \A h \in Ends : h # g => removes'[h] = removes[h] BY SMT, <1>0, <2>1, RemovalAsked
  <2>4. SameOwner /\ RemovedElsewhere' BY <1>0, <2>1, <2>2, <2>3 DEF SameOwner, RemovedElsewhere
  <2> QED BY <1>0, <1>1, <2>1, <2>4 DEF InOrder
<1>5. ASSUME NEW g \in Ends, Reap(g) PROVE FALSE BY <1>5 DEF Reap, Quietly
<1>6. ASSUME NEW g \in Ends, RemoveTakes(g) PROVE InOrder'
  <2>1. /\ removes[g].take > 0 /\ UNCHANGED <<rec, att, ctl, mv, wire>> /\ live' = [live EXCEPT ![g] = 0]
        /\ obj' = IF live[g] = 0 THEN obj ELSE [obj EXCEPT ![live[g]] = Gone]
        /\ \E r : removes' = [removes EXCEPT ![g] = r]
    BY <1>6 DEF RemoveTakes
  <2>2. removes[g] # NoRemoval BY SMT, <2>1 DEF NoRemoval
  <2>3. rec.owner # g BY <1>0, <2>2 DEF RemovedElsewhere
  <2>4. SameOwner BY <2>1 DEF SameOwner
  <2>5. \A h \in Ends : h # g => removes'[h] = removes[h] BY <1>0, <2>1 DEF StoreShape
  <2>6. RemovedElsewhere' BY <1>0, <2>1, <2>3, <2>5 DEF RemovedElsewhere
  <2>7. ASSUME NEW i \in Gens PROVE obj'[i].gw = IF obj[i].gw = g THEN Nobody ELSE obj[i].gw
    <3>1. obj[i].gw = g <=> live[g] = i BY <1>0 DEF Placed
    <3>2. i # 0 BY SMT DEF Gens, Fleet
    <3>3. CASE live[g] = i BY <1>0, <2>1, <3>1, <3>2, <3>3 DEF StoreShape, Gone
    <3>4. CASE live[g] # i BY <1>0, <2>1, <3>1, <3>4 DEF StoreShape
    <3> QED BY <3>3, <3>4
  <2>8. Placed' BY <1>0, <2>1, <2>7, NoLongerPlaced
  <2>9. live'[Dst] \in {live[Dst], 0} BY <1>0, <2>1 DEF StoreShape
  <2>10. Won' BY <1>0, <2>1, <2>4, <2>7, <2>9, StillWon DEF Winning
  <2>11. GivenUp' BY <1>0, <2>1, <2>4, <2>9, StillGivenUp DEF Winning, Moving
  <2> QED BY <1>0, <2>1, <2>6, <2>8, <2>10, <2>11 DEF InOrder
<1>7. ASSUME NEW g \in Ends, RemoveDeletes(g) PROVE InOrder'
  <2>1. /\ removes[g].delete > 0 /\ UNCHANGED <<obj, live, att, ctl, mv, wire>>
        /\ rec' = IF DeletesIfOwner(rec, g) THEN NoRec ELSE rec
        /\ removes' = [removes EXCEPT ![g].delete = @ - 1]
    BY <1>7 DEF RemoveDeletes
  <2>2. removes[g] # NoRemoval BY SMT, <2>1 DEF NoRemoval
  <2>3. rec.owner # g BY <1>0, <2>2 DEF RemovedElsewhere
  <2>4. rec' = rec BY <2>1, <2>3 DEF DeletesIfOwner
  <2>5. \A h \in Ends : h # g => removes'[h] = removes[h] BY <1>0, <2>1 DEF StoreShape
  <2>6. SameOwner /\ RemovedElsewhere' BY <1>0, <2>3, <2>4, <2>5 DEF SameOwner, RemovedElsewhere
  <2> QED BY <1>0, <1>1, <2>1, <2>4, <2>6 DEF InOrder
<1>8. ASSUME NEW g \in Ends, Crash(g) PROVE InOrder'
  <2>1. /\ UNCHANGED rec /\ live' = [live EXCEPT ![g] = 0] /\ att' = [att EXCEPT ![g] = NoAtt]
        /\ removes' = [removes EXCEPT ![g] = NoRemoval]
        /\ obj' = [i \in Gens |-> IF obj[i].gw = g THEN Gone ELSE obj[i]]
        /\ wire' = [wire EXCEPT !.open = FALSE]
        /\ ctl' \in {ctl, NoCtl} /\ (mv' = [mv EXCEPT !.pc = "dead"] \/ UNCHANGED mv)
    BY <1>8 DEF Crash
  <2>2. SameOwner BY <2>1 DEF SameOwner
  <2>3. RemovedElsewhere' BY <1>0, <2>1 DEF RemovedElsewhere, StoreShape
  <2>4. \A i \in Gens : obj'[i].gw = IF obj[i].gw = g THEN Nobody ELSE obj[i].gw BY <2>1 DEF Gone
  <2>5. \A h \in Ends : att'[h].pc # "idle" => att[h].pc # "idle" BY <1>0, <2>1, IdleAttach DEF StoreShape
  <2>6. Placed' BY <1>0, <2>1, <2>4, <2>5, NoLongerPlaced
  <2>7. live'[Dst] \in {live[Dst], 0} /\ wire'.src = wire.src BY <1>0, <2>1 DEF StoreShape, MoveShape
  <2>8. (Winning' => Winning /\ ctl'.gen = ctl.gen) /\ (ctl'.prepared => ctl.prepared)
    BY <2>1, FreshCtl DEF Winning
  <2>9. (mv'.pc = "final" => mv.pc = "final" /\ mv'.gen = mv.gen) /\ (Moving' => Moving)
    BY <1>0, <2>1 DEF Moving, MoveShape
  <2>10. Won' BY <1>0, <2>2, <2>4, <2>7, <2>8, StillWon
  <2>11. GivenUp' BY <1>0, <2>2, <2>7, <2>8, <2>9, StillGivenUp
  <2> QED BY <1>0, <2>1, <2>3, <2>6, <2>10, <2>11 DEF InOrder
<1> QED BY <1>2, <1>3, <1>4, <1>5, <1>6, <1>7, <1>8

LEMMA NextKept == ASSUME Fleet, MoveInv, Frames, Behind, Kept, [Next]_vars PROVE Kept'
<1>1. SUFFICES ASSUME Quietly' PROVE InOrder' BY DEF Kept
<1>2. CASE UNCHANGED vars
  BY <1>1, <1>2 DEF vars, Kept, Quietly, InOrder, Placed, RemovedElsewhere, Won, Winning, GivenUp, Moving
<1>3. CASE Next
  <2>1. Quietly
    <3>1. expired => expired'
      BY <1>3 DEF Next, MoveBegin, MoveRefused, Freeze, FinalCheckpoint, Yield, MoveReadFails,
        MoveAgain, CtlPrepare, CtlWarm, CtlClaim, CtlAuthorize, CtlTakeover, CtlCheck, CtlLoad, CtlPromote,
        CtlEnds, ConnDrops, ConnLost, Receive, AttachKnown, AttachLoad, AttachTake, RenewFenced, Reap,
        RemoveTakes, RemoveDeletes, Crash, Dispatch
    <3>2. overtaken => overtaken'
      BY <1>3 DEF Next, MoveBegin, MoveRefused, Freeze, FinalCheckpoint, Yield, MoveReadFails,
        MoveAgain, CtlPrepare, CtlWarm, CtlClaim, CtlAuthorize, CtlTakeover, CtlCheck, CtlLoad, CtlPromote,
        CtlEnds, ConnDrops, ConnLost, Receive, AttachKnown, AttachLoad, AttachTake, RenewFenced, Reap,
        RemoveTakes, RemoveDeletes, Crash, Dispatch
    <3> QED BY <1>1, <3>1, <3>2 DEF Quietly
  <2>2. InOrder BY <2>1 DEF Kept
  <2> QED BY <1>1, <1>3, <2>2, SourceInOrder, HandlerInOrder, CommitInOrder, AttachInOrder, LifeInOrder
          DEF Next, Ends
<1> QED BY <1>2, <1>3

LEMMA InitKept == ASSUME Fleet, Init PROVE Frames /\ Kept
<1>1. mv.pc = "idle" /\ wire.src = "" /\ wire.dst = "" /\ ctl = NoCtl /\ ~wire.open BY DEF Init, NoWire
<1>2. ctl.pc = "none" BY <1>1, FreshCtl
<1>3. Frames BY <1>1, <1>2 DEF Frames
<1>4. Won /\ GivenUp BY <1>1, <1>2 DEF Won, GivenUp, Winning, Moving
<1>5. rec # NoRec
  <2>1. rec.gen \in Gens /\ rec \in Record BY SMT DEF Init, Fleet, Record, LeaseStates, Gens
  <2> QED BY <2>1, StoreAssumption
<1>6. RemovedElsewhere BY DEF Init, RemovedElsewhere, Ends
<1>7. Placed
  <2>1. ASSUME NEW g \in Ends, NEW i \in Gens PROVE obj[i].gw = g <=> live[g] = i
    <3>1. Nobody # Src /\ Nobody # Dst /\ Src # Dst BY RecordFacts DEF Fleet
    <3>2. i # 0 BY SMT DEF Gens, Fleet
    <3>3. live[Src] = 1 /\ live[Dst] = 0 BY <3>1 DEF Init
    <3>4. obj[i].gw = IF i = 1 THEN Src ELSE Nobody BY DEF Init, Gone
    <3> QED BY <3>1, <3>2, <3>3, <3>4 DEF Ends
  <2>2. \A g \in Ends : att[g].pc = "idle" BY IdleAttach DEF Init, Ends
  <2>3. rec.owner = Src /\ rec.gen = 1 /\ live[Src] = 1 BY DEF Init
  <2> QED BY <2>1, <2>2, <2>3 DEF Placed
<1> QED BY <1>3, <1>4, <1>5, <1>6, <1>7 DEF Kept, InOrder
-----------------------------------------------------------------------------
(* Well-formedness: on any two gateways and under any bounds the record,   *)
(* the session maps of both servers, the warm entry and the client's place *)
(* stay well formed (MoveSessionTo, ServeMoveControl, attach, remove).     *)
THEOREM MoveTyping == ASSUME Fleet PROVE Spec => []TypeOK
<1>1. MoveInv => TypeOK
  <2>1. SUFFICES ASSUME MoveInv PROVE TypeOK OBVIOUS
  <2>2. rec \in Record \cup {NoRec} BY <2>1, RecordFacts DEF MoveInv, Shape, StoreShape
  <2>3. live \in [{Src, Dst} -> 0..MaxGen] BY <2>1 DEF MoveInv, Shape, StoreShape, Ends
  <2> QED BY <2>1, <2>2, <2>3 DEF MoveInv, Shape, MoveShape, TypeOK
<1> QED BY <1>1, MoveInvariance, PTL

(* One single-use grant moves the session at most once, however often the  *)
(* move is retried, the connection drops or a gateway crashes: CommitMove  *)
(* consumes the grant before its one compare-and-swap.                     *)
THEOREM OneMove == ASSUME Fleet PROVE Spec => []OneMovePerGrant
<1>1. MoveInv => OneMovePerGrant
  <2>1. SUFFICES ASSUME MoveInv PROVE OneMovePerGrant OBVIOUS
  <2>2. moved \in Nat /\ grants \in 0..1 /\ InHand \in {0, 1} /\ moved + grants + InHand <= 1
    BY <2>1 DEF MoveInv, Shape, MoveShape, GrantSpent, InHand
  <2> QED BY SMT, <2>2 DEF OneMovePerGrant
<1> QED BY <1>1, MoveInvariance, PTL

(* No warm backend is left behind: when ServeMoveControl has returned, by  *)
(* a commit, an abort, a dropped connection or a crash, the destination    *)
(* holds no warming entry.                                                 *)
THEOREM NoneStranded == ASSUME Fleet PROVE Spec => []NothingStranded
<1>1. MoveInv => NothingStranded BY DEF MoveInv, WarmAttended, NothingStranded
<1> QED BY <1>1, MoveInvariance, PTL

(* "Resumable by exactly one": whatever crashes or drops, however often    *)
(* the move is retried and wherever the client redials, only a reaper ends *)
(* the session, unless a gateway takes it while it still removes it, moves *)
(* it away or has a commit of its own to register (DeleteIfOwner goes by   *)
(* the owner alone).                                                       *)
THEOREM Resumable == ASSUME Fleet PROVE Spec => []AlwaysResumable
<1>1. Init => Behind /\ Frames /\ Kept BY InitBehind, InitKept
<1>2. MoveInv /\ (Behind /\ Frames /\ Kept) /\ [Next]_vars => (Behind /\ Frames /\ Kept)'
  <2>1. MoveInv /\ Behind /\ [Next]_vars => Behind' BY NextBehind DEF MoveInv
  <2> QED BY <2>1, NextFrames, NextKept
<1>3. Kept => AlwaysResumable BY DEF Kept, InOrder, Quietly, AlwaysResumable
<1> QED BY <1>1, <1>2, <1>3, MoveInvariance, PTL DEF Spec

(* What CommitMove promotes, while it still holds the lease it won, is the *)
(* last state saved: neither the source nor a roaming client's attach can  *)
(* have written the record between the second load and the promotion.      *)
THEOREM FinalStatePromoted == ASSUME Fleet PROVE Spec => [][PromotesFinalState]_vars
<1>1. Init => Behind BY InitBehind
<1>2. MoveInv /\ Behind /\ [Next]_vars => Behind' BY NextBehind DEF MoveInv
<1>3. MoveInv /\ Behind /\ [Next]_vars => [PromotesFinalState]_vars
  <2>1. SUFFICES ASSUME MoveInv, Behind, Next, ctl.pc = "promote", live'[Dst] # live[Dst], att' = att,
                        Holds(rec, Dst, ctl.gen)
                 PROVE  obj'[ctl.gen].ver >= rec.ver
    BY DEF PromotesFinalState
  <2>2. /\ rec # NoRec /\ rec.gen = ctl.gen /\ live[Dst] = 0 /\ ctl.ps.ver = rec.ver
    BY <2>1 DEF Behind, Committing, Holds
  <2>3. StoreShape /\ rec \in Records /\ Dst \in Ends BY <2>1, <2>2 DEF MoveInv, Shape, StoreShape, Ends
  <2>4. ctl.gen \in Gens /\ rec.ver \in Nat BY <2>2, <2>3, RecordFacts
  <2>5. CASE CtlPromote
    <3>1. obj' = [obj EXCEPT ![ctl.gen] = [gw |-> Dst, ver |-> ctl.ps.ver, inbox |-> 0, armed |-> TRUE]]
      BY <2>5 DEF CtlPromote, Registers
    <3>2. obj'[ctl.gen].ver = rec.ver BY <2>2, <2>3, <2>4, <3>1 DEF StoreShape
    <3> QED BY SMT, <2>4, <3>2
  <2>6. ASSUME NEW g \in Ends, AttachTake(g) PROVE FALSE
    <3>1. UNCHANGED live \/ att' = [att EXCEPT ![g] = NoAtt] BY <2>6 DEF AttachTake
    <3>2. att[g].pc = "take" BY <2>6 DEF AttachTake
    <3>3. att' = [att EXCEPT ![g] = NoAtt] => att'[g] = NoAtt BY <2>3 DEF StoreShape
    <3> QED BY <2>1, <3>1, <3>2, <3>3, IdleAttach
  <2>7. ASSUME NEW g \in Ends, RemoveTakes(g) \/ Crash(g) PROVE FALSE
    <3>1. live' = [live EXCEPT ![g] = 0] BY <2>7 DEF RemoveTakes, Crash
    <3>2. live'[Dst] = live[Dst] BY <2>2, <2>3, <3>1 DEF StoreShape
    <3> QED BY <2>1, <3>2
  <2>8. ~UNCHANGED live BY <2>1
  <2>9. CtlPromote \/ \E g \in Ends : AttachTake(g) \/ RemoveTakes(g) \/ Crash(g)
    BY <2>1, <2>8 DEF Next, Ends, MoveBegin, MoveRefused, Freeze, FinalCheckpoint, Yield, MoveReadFails,
        MoveAgain, CtlPrepare, CtlWarm, CtlClaim, CtlAuthorize, CtlTakeover, CtlCheck, CtlLoad,
        CtlEnds, ConnDrops, ConnLost, Receive, AttachKnown, AttachLoad, RenewFenced, Reap, RemoveDeletes,
        Dispatch
  <2> QED BY <2>5, <2>6, <2>7, <2>9
<1> QED BY <1>1, <1>2, <1>3, MoveInvariance, PTL DEF Spec
=============================================================================
