---------------------------- MODULE SessionMove ----------------------------
(***************************************************************************)
(* The deliberate move of one live session from gateway Src to gateway Dst *)
(* (session/move.go): prepare, ready, freeze, commit, yield, over a        *)
(* control connection that may drop, beside the session's own life: its    *)
(* client reattaches, sends and loses its connection, gateways crash, a    *)
(* fenced gateway removes its session.                                     *)
(*                                                                         *)
(* A session object is named by the lease generation it was created under. *)
(* A checkpoint is one step here; SessionHA takes it apart.                *)
(***************************************************************************)
EXTENDS LeaseStore, FiniteSets

CONSTANTS Src, Dst,
          Handshake,        \* migration mode: MigrateHandshake, else MigrateBackend
          TakeoverAttempts,
          MaxGen, MaxVer,   \* bounds: generations granted, messages received
          MaxMoves,         \* bound: moves attempted
          Events            \* "roam", and the faults considered

VARIABLES
    rec,        \* the session's record in the store
    obj,        \* session objects by generation: where, state, input not dispatched
    live,       \* Server.sessions[id] of each gateway (0: no entry)
    removes,    \* calls of Server.remove in progress
    att,        \* the attach in progress on each gateway (it holds s.mu)
    warm,       \* Dst's warming entry: the generation seen at prepare, or 0
    ctl,        \* ServeMoveControl on Dst
    mv,         \* MoveSessionTo on Src
    wire,       \* the control connection: one frame each way
    client,     \* Off, Arriving, Lost, or the generation it is attached to
    up,
    grants,     \* single-use move grants not yet consumed
    moved,      \* history: commits that won the lease
    expired,    \* history: a reaper ended the session
    overtaken   \* history: a lease taken by a gateway that had not settled an earlier one

vars == <<rec, obj, live, removes, att, warm, ctl, mv, wire, client, up, grants, moved, expired,
          overtaken>>

Gens == 1..MaxGen
Off == 0
Arriving == MaxGen + 1
Lost == MaxGen + 2
Gone == [gw |-> Nobody, ver |-> 0, inbox |-> 0, armed |-> FALSE]
NoAtt == [pc |-> "idle", ps |-> NoRec, tries |-> 0]
NoCtl == [pc |-> "none", prepared |-> FALSE, ps |-> NoRec, gen |-> 0]
NoWire == [open |-> FALSE, dst |-> "", src |-> ""]

(* Gateway g is still at work on the session as it knows it: it removes    *)
(* it, moves it away, or has won it and not registered it yet.             *)
NoRemoval == [take |-> 0, delete |-> 0]
Moving == mv.pc \in {"prepare", "final", "commit"}
Winning == ctl.pc \in {"load", "promote"}
Unsettled(g) == removes[g] # NoRemoval \/ (g = Src /\ Moving) \/ (g = Dst /\ Winning)

Init ==
    /\ rec = [owner |-> Src, gen |-> 1, lease |-> "live", ver |-> 0, ident |-> TRUE]
    /\ obj = [i \in Gens |-> IF i = 1 THEN [Gone EXCEPT !.gw = Src] ELSE Gone]
    /\ live = [g \in {Src, Dst} |-> IF g = Src THEN 1 ELSE 0]
    /\ removes = [g \in {Src, Dst} |-> NoRemoval]
    /\ att = [g \in {Src, Dst} |-> NoAtt]
    /\ warm = 0 /\ ctl = NoCtl /\ wire = NoWire
    /\ mv = [pc |-> "idle", gen |-> 0, tries |-> 1]
    /\ client = 1 /\ up = [g \in {Src, Dst} |-> TRUE]
    /\ grants = 1 /\ moved = 0 /\ expired = FALSE /\ overtaken = FALSE

-----------------------------------------------------------------------------
MuFree(g) == up[g] /\ att[g].pc = "idle"

AskRemove(g) == [removes EXCEPT ![g].take = @ + 1]

(* checkpoint: SaveIfOwned under the object's generation; a fenced gateway *)
(* starts a goroutine that removes the session id.                         *)
Checkpoint(g, i, ver) ==
    /\ rec' = IF Holds(rec, g, i) THEN Saved(rec, ver) ELSE rec
    /\ removes' = IF Holds(rec, g, i) THEN removes ELSE AskRemove(g)

(* registerResumed: the object replaces whatever the map holds.            *)
Registers(g, i, ver, armed) ==
    /\ obj' = [obj EXCEPT ![i] = [gw |-> g, ver |-> ver, inbox |-> 0, armed |-> armed]]
    /\ live' = [live EXCEPT ![g] = i]

-----------------------------------------------------------------------------
(* The source: MoveSessionTo.                                              *)

MoveBegin ==
    /\ mv.pc = "idle" /\ MuFree(Src) /\ up[Dst] /\ live[Src] # 0
    /\ Checkpoint(Src, live[Src], obj[live[Src]].ver)
    /\ mv' = [mv EXCEPT !.pc = "prepare", !.gen = live[Src]]
    /\ wire' = [open |-> TRUE, dst |-> "prepare", src |-> ""]
    /\ ctl' = [NoCtl EXCEPT !.pc = "read"]
    /\ UNCHANGED <<obj, live, att, warm, client, up, grants, moved, expired, overtaken>>

SourceTo(pc) == mv' = [mv EXCEPT !.pc = pc]

(* The destination refused, or could not commit: the source serves on.     *)
MoveRefused ==
    /\ up[Src] /\ \/ mv.pc = "prepare" /\ wire.src = "refuse"
                  \/ mv.pc = "commit" /\ wire.src = "cas_lost"
    /\ SourceTo("failed")
    /\ wire' = [wire EXCEPT !.open = FALSE, !.src = ""]
    /\ UNCHANGED <<rec, obj, live, removes, att, warm, ctl, client, up, grants, moved, expired, overtaken>>

(* FreezeForMove up to drainForMove: the client is detached; a session     *)
(* with undispatched input is refused in handshake mode.                   *)
Freeze ==
    LET i == live[Src]
        refuse == i = 0 \/ (i # 0 /\ Handshake /\ obj[i].inbox > 0)
    IN  /\ mv.pc = "prepare" /\ wire.src = "ready" /\ MuFree(Src)
        /\ client' = IF i # 0 /\ client = i THEN Off ELSE client
        /\ mv' = IF refuse THEN [mv EXCEPT !.pc = "failed"] ELSE [mv EXCEPT !.pc = "final", !.gen = i]
        /\ wire' = [wire EXCEPT !.src = "", !.dst = IF refuse THEN "abort" ELSE ""]
        /\ UNCHANGED <<rec, obj, live, removes, att, warm, ctl, up, grants, moved, expired, overtaken>>

(* The final checkpoint, then COMMIT.                                      *)
FinalCheckpoint ==
    /\ mv.pc = "final" /\ up[Src]
    /\ Checkpoint(Src, mv.gen, obj[mv.gen].ver)
    /\ mv' = [mv EXCEPT !.pc = IF wire.open THEN "commit" ELSE "failed"]
    /\ wire' = IF wire.open THEN [wire EXCEPT !.dst = "commit"] ELSE wire
    /\ UNCHANGED <<obj, live, att, warm, ctl, client, up, grants, moved, expired, overtaken>>

(* YieldAfterMove.                                                         *)
Yield ==
    /\ mv.pc = "commit" /\ wire.src = "committed" /\ up[Src]
    /\ SourceTo("done")
    /\ removes' = AskRemove(Src)
    /\ wire' = [wire EXCEPT !.src = ""]
    /\ UNCHANGED <<rec, obj, live, att, warm, ctl, client, up, grants, moved, expired, overtaken>>

(* The connection ended before the answer came: after COMMIT the outcome   *)
(* is unknown and the source keeps the session until it is fenced.         *)
MoveReadFails ==
    /\ up[Src] /\ mv.pc \in {"prepare", "commit"} /\ ~wire.open /\ wire.src = ""
    /\ SourceTo(IF mv.pc = "commit" THEN "unknown" ELSE "failed")
    /\ UNCHANGED <<rec, obj, live, removes, att, warm, ctl, wire, client, up, grants, moved, expired, overtaken>>

(* The operator tries again.                                               *)
MoveAgain ==
    /\ mv.tries < MaxMoves /\ mv.pc \in {"failed", "unknown"} /\ ctl.pc = "none"
    /\ mv' = [mv EXCEPT !.pc = "idle", !.tries = @ + 1] /\ wire' = NoWire
    /\ UNCHANGED <<rec, obj, live, removes, att, warm, ctl, client, up, grants, moved, expired, overtaken>>

-----------------------------------------------------------------------------
(* The destination: ServeMoveControl with PrepareMove, CommitMove and      *)
(* AbortMove.                                                              *)

Answer(frame) == wire' = [wire EXCEPT !.dst = "", !.src = IF @ = "" /\ wire.open THEN frame ELSE @]

CtlPrepare ==
    /\ ctl.pc = "read" /\ wire.dst = "prepare"
    /\ IF rec = NoRec
       THEN Answer("refuse") /\ UNCHANGED ctl
       ELSE /\ ctl' = [ctl EXCEPT !.pc = "spawn", !.ps = rec]
            /\ wire' = [wire EXCEPT !.dst = ""]
    /\ UNCHANGED <<rec, obj, live, removes, att, warm, mv, client, up, grants, moved, expired, overtaken>>

(* PrepareMove has spawned the backend and parks it under s.mu.            *)
CtlWarm ==
    /\ ctl.pc = "spawn" /\ MuFree(Dst)
    /\ IF live[Dst] # 0
       THEN Answer("refuse") /\ ctl' = [ctl EXCEPT !.pc = "read"] /\ UNCHANGED warm
       ELSE /\ warm' = ctl.ps.gen /\ Answer("ready")
            /\ ctl' = [ctl EXCEPT !.pc = "read", !.prepared = TRUE]
    /\ UNCHANGED <<rec, obj, live, removes, att, mv, client, up, grants, moved, expired, overtaken>>

(* The handler answers a COMMIT and returns, or goes on reading.           *)
Committed == Answer("committed") /\ ctl' = NoCtl
CommitFails == Answer("cas_lost") /\ ctl' = [NoCtl EXCEPT !.pc = "read"]

(* CommitMove claims the warm entry under s.mu.                            *)
CtlClaim ==
    /\ ctl.pc = "read" /\ wire.dst = "commit" /\ MuFree(Dst)
    /\ warm' = 0
    /\ IF live[Dst] # 0 THEN Committed
       ELSE IF warm = 0 THEN CommitFails
       ELSE /\ ctl' = [ctl EXCEPT !.pc = "authorize", !.gen = warm]
            /\ wire' = [wire EXCEPT !.dst = ""]
    /\ UNCHANGED <<rec, obj, live, removes, att, mv, client, up, grants, moved, expired, overtaken>>

(* (Mutated form: the grant is checked and not consumed.)                  *)
AuthorizeOnly ==
    /\ ctl.pc = "authorize" /\ up[Dst] /\ ctl' = [ctl EXCEPT !.pc = "cas"]
    /\ UNCHANGED <<rec, obj, live, removes, att, warm, mv, wire, client, up, grants, moved, expired, overtaken>>
(* authorize: ConsumeMoveGrant.                                            *)
CtlAuthorize ==
    /\ ctl.pc = "authorize" /\ up[Dst]
    /\ IF grants = 0 THEN CommitFails /\ UNCHANGED grants
       ELSE grants' = grants - 1 /\ ctl' = [ctl EXCEPT !.pc = "cas"] /\ UNCHANGED wire
    /\ UNCHANGED <<rec, obj, live, removes, att, warm, mv, client, up, moved, expired, overtaken>>

(* The one compare-and-swap; a lost one is looked into afterwards.         *)
CtlTakeover ==
    /\ ctl.pc = "cas" /\ up[Dst]
    /\ IF canTakeover(rec, ctl.gen) /\ rec # NoRec
       THEN /\ rec.gen < MaxGen
            /\ overtaken' = (overtaken \/ removes[Dst] # NoRemoval)
            /\ rec' = Grant(rec, Dst) /\ moved' = moved + 1
            /\ ctl' = [ctl EXCEPT !.pc = "load", !.gen = rec.gen + 1]
       ELSE ctl' = [ctl EXCEPT !.pc = "check"] /\ UNCHANGED <<rec, moved, overtaken>>
    /\ UNCHANGED <<obj, live, removes, att, warm, mv, wire, client, up, grants, expired>>

CtlCheck ==
    /\ ctl.pc = "check" /\ up[Dst]
    /\ IF rec # NoRec /\ rec.owner = Dst THEN Committed ELSE CommitFails
    /\ UNCHANGED <<rec, obj, live, removes, att, warm, mv, client, up, grants, moved, expired, overtaken>>

(* The source is fenced: its final checkpoint is read. (ReleaseLease of a  *)
(* record that is gone does nothing.)                                      *)
CtlLoad ==
    /\ ctl.pc = "load" /\ up[Dst]
    /\ IF rec = NoRec THEN CommitFails
       ELSE ctl' = [ctl EXCEPT !.pc = "promote", !.ps = rec] /\ UNCHANGED wire
    /\ UNCHANGED <<rec, obj, live, removes, att, warm, mv, client, up, grants, moved, expired, overtaken>>

CtlPromote ==
    /\ ctl.pc = "promote" /\ MuFree(Dst)
    /\ Registers(Dst, ctl.gen, ctl.ps.ver, TRUE)
    /\ Checkpoint(Dst, ctl.gen, ctl.ps.ver)
    /\ Committed
    /\ UNCHANGED <<att, warm, mv, client, up, grants, moved, expired, overtaken>>

(* An ABORT frame, or the connection's end: AbortMove.                     *)
CtlEnds ==
    /\ ctl.pc = "read" /\ (wire.dst = "abort" \/ (~wire.open /\ wire.dst = ""))
    /\ warm' = IF ctl.prepared THEN 0 ELSE warm
    /\ ctl' = NoCtl /\ wire' = [wire EXCEPT !.open = FALSE, !.dst = ""]
    /\ UNCHANGED <<rec, obj, live, removes, att, mv, client, up, grants, moved, expired, overtaken>>

ConnDrops ==
    /\ "drop" \in Events /\ wire.open
    /\ \E d \in {"", wire.dst}, s \in {"", wire.src} : wire' = [open |-> FALSE, dst |-> d, src |-> s]
    /\ UNCHANGED <<rec, obj, live, removes, att, warm, ctl, mv, client, up, grants, moved, expired, overtaken>>

-----------------------------------------------------------------------------
(* The session's own life (session/server.go).                             *)

(* Where the client redials: to a gateway that has the session, and with   *)
(* "roam" to either.                                                       *)
Redials(g) == live[g] # 0 \/ "roam" \in Events

AttachKnown(g) ==
    /\ client = Off /\ MuFree(g) /\ live[g] # 0
    /\ client' = live[g]
    /\ obj' = [obj EXCEPT ![live[g]].armed = FALSE]
    /\ UNCHANGED <<rec, live, removes, att, warm, ctl, mv, wire, up, grants, moved, expired, overtaken>>

(* attach of an unknown id, under s.mu throughout: Load, then rehydrate;   *)
(* no record is a terminal rejection, a lost race is tried again.          *)
AttachLoad(g) ==
    /\ \/ client = Off /\ Redials(g) /\ MuFree(g) /\ live[g] = 0
       \/ up[g] /\ att[g].pc = "load"
    /\ IF rec = NoRec
       THEN client' = Lost /\ att' = [att EXCEPT ![g] = NoAtt]
       ELSE /\ client' = Arriving
            /\ att' = [att EXCEPT ![g] = [@ EXCEPT !.pc = "take", !.ps = rec]]
    /\ UNCHANGED <<rec, obj, live, removes, warm, ctl, mv, wire, up, grants, moved, expired, overtaken>>

AttachTake(g) ==
    /\ att[g].pc = "take" /\ up[g]
    /\ IF canTakeover(rec, att[g].ps.gen) /\ rec # NoRec
       THEN /\ rec.gen < MaxGen
            /\ rec' = Saved(Grant(rec, g), att[g].ps.ver)
            /\ Registers(g, rec.gen + 1, att[g].ps.ver, FALSE)
            /\ overtaken' = (overtaken \/ Unsettled(g))
            /\ client' = rec.gen + 1 /\ att' = [att EXCEPT ![g] = NoAtt]
       ELSE /\ IF att[g].tries + 1 < TakeoverAttempts
               THEN /\ att' = [att EXCEPT ![g] = [NoAtt EXCEPT !.pc = "load", !.tries = att[g].tries + 1]]
                    /\ UNCHANGED client
               ELSE client' = Lost /\ att' = [att EXCEPT ![g] = NoAtt]
            /\ UNCHANGED <<rec, obj, live, overtaken>>
    /\ UNCHANGED <<removes, warm, ctl, mv, wire, up, grants, moved, expired>>

ConnLost ==
    /\ client \in Gens /\ client' = Off
    /\ UNCHANGED <<rec, obj, live, removes, att, warm, ctl, mv, wire, up, grants, moved, expired, overtaken>>

Receive ==
    /\ client \in Gens /\ obj[client].ver + obj[client].inbox < MaxVer
    /\ obj' = [obj EXCEPT ![client].inbox = @ + 1]
    /\ UNCHANGED <<rec, live, removes, att, warm, ctl, mv, wire, client, up, grants, moved, expired, overtaken>>

(* pump: a message goes to the backend, then a checkpoint is taken.        *)
Dispatch(i) ==
    /\ obj[i].inbox > 0
    /\ obj' = [obj EXCEPT ![i].inbox = @ - 1, ![i].ver = @ + 1]
    /\ Checkpoint(obj[i].gw, i, obj[i].ver + 1)
    /\ UNCHANGED <<live, att, warm, ctl, mv, wire, client, up, grants, moved, expired, overtaken>>

(* renewOnce finds that another generation owns the session.               *)
RenewFenced(g) ==
    /\ up[g] /\ live[g] # 0 /\ ~Holds(rec, g, live[g]) /\ removes[g].take = 0
    /\ removes' = AskRemove(g)
    /\ UNCHANGED <<rec, obj, live, att, warm, ctl, mv, wire, client, up, grants, moved, expired, overtaken>>

Reap(g) ==
    /\ "reap" \in Events /\ up[g] /\ live[g] # 0 /\ obj[live[g]].armed
    /\ obj' = [obj EXCEPT ![live[g]].armed = FALSE]
    /\ removes' = AskRemove(g) /\ expired' = TRUE
    /\ UNCHANGED <<rec, live, att, warm, ctl, mv, wire, client, up, grants, moved, overtaken>>

RemoveTakes(g) ==
    LET i == live[g]
    IN  /\ removes[g].take > 0 /\ MuFree(g)
        /\ live' = [live EXCEPT ![g] = 0]
        /\ obj' = IF i = 0 THEN obj ELSE [obj EXCEPT ![i] = Gone]
        /\ client' = IF i # 0 /\ client = i THEN Off ELSE client
        /\ removes' = [removes EXCEPT ![g] = [take |-> @.take - 1, delete |-> @.delete + IF i = 0 THEN 0 ELSE 1]]
        /\ UNCHANGED <<rec, att, warm, ctl, mv, wire, up, grants, moved, expired, overtaken>>

RemoveDeletes(g) ==
    /\ up[g] /\ removes[g].delete > 0
    /\ removes' = [removes EXCEPT ![g].delete = @ - 1]
    /\ rec' = IF DeletesIfOwner(rec, g) THEN NoRec ELSE rec
    /\ UNCHANGED <<obj, live, att, warm, ctl, mv, wire, client, up, grants, moved, expired, overtaken>>

Crash(g) ==
    /\ "crash" \in Events /\ up = [h \in {Src, Dst} |-> TRUE]
    /\ up' = [up EXCEPT ![g] = FALSE]
    /\ obj' = [i \in Gens |-> IF obj[i].gw = g THEN Gone ELSE obj[i]]
    /\ live' = [live EXCEPT ![g] = 0] /\ att' = [att EXCEPT ![g] = NoAtt]
    /\ removes' = [removes EXCEPT ![g] = NoRemoval]
    /\ client' = IF (client \in Gens /\ obj[client].gw = g) \/ att[g].pc # "idle" THEN Off ELSE client
    /\ warm' = IF g = Dst THEN 0 ELSE warm
    /\ ctl' = IF g = Dst THEN NoCtl ELSE ctl
    /\ mv' = IF g = Src THEN [mv EXCEPT !.pc = "dead"] ELSE mv
    /\ wire' = [wire EXCEPT !.open = FALSE]
    /\ UNCHANGED <<rec, grants, moved, expired, overtaken>>

Next ==
    \/ MoveBegin \/ MoveRefused \/ Freeze \/ FinalCheckpoint \/ Yield \/ MoveReadFails \/ MoveAgain
    \/ CtlPrepare \/ CtlWarm \/ CtlClaim \/ CtlAuthorize \/ CtlTakeover \/ CtlCheck \/ CtlLoad
    \/ CtlPromote \/ CtlEnds \/ ConnDrops \/ ConnLost \/ Receive
    \/ \E g \in {Src, Dst} : \/ AttachKnown(g) \/ AttachLoad(g) \/ AttachTake(g) \/ RenewFenced(g)
                             \/ Reap(g) \/ RemoveTakes(g) \/ RemoveDeletes(g) \/ Crash(g)
    \/ \E i \in Gens : Dispatch(i)

Spec == Init /\ [][Next]_vars

-----------------------------------------------------------------------------
(* The record, the maps and the client are well formed.                    *)
TypeOK ==
    /\ rec \in Record \cup {NoRec} /\ live \in [{Src, Dst} -> 0..MaxGen]
    /\ warm \in 0..MaxGen /\ client \in Gens \cup {Off, Lost, Arriving}
    /\ grants \in 0..1 /\ moved \in Nat

(* "Resumable by exactly one": at no point of a move, whatever crashes and *)
(* wherever the client redials, is the session without a record from which *)
(* it can be resumed; only a reaper ends it. Excepted: a gateway that      *)
(* takes the session while it is Unsettled deletes, when it comes to       *)
(* settle, the record it took (CommitMove registers over a session that    *)
(* was rehydrated after its compare-and-swap; remove and YieldAfterMove go *)
(* by the session's id, DeleteIfOwner by the owner).                       *)
AlwaysResumable == rec = NoRec => expired \/ overtaken

(* One single-use grant lets one commit win the lease, over retries and    *)
(* dropped connections (ConsumeMoveGrant).                                 *)
OneMovePerGrant == moved + grants <= 1

(* What the destination begins to serve from, while it holds the lease, is *)
(* the last state the source saved, not the one it was warmed with.        *)
PromotesFinalState ==
    ctl.pc = "promote" /\ live'[Dst] # live[Dst] /\ att' = att /\ Holds(rec, Dst, ctl.gen) =>
        obj'[ctl.gen].ver >= rec.ver

(* "An interrupted move never strands a warm backend": once the handler of *)
(* the control connection has returned no warm entry is left.              *)
NothingStranded == ctl.pc = "none" => warm = 0
=============================================================================
