----------------------------- MODULE SessionHA -----------------------------
(***************************************************************************)
(* One resumable session served by a fleet of gateways that share a lease  *)
(* store (session/server.go, session/failover.go): open, reattach and      *)
(* rehydrate, checkpoints, the renewal heartbeat, the standby sweep, the   *)
(* TTL reaper, teardown, clean shutdown and crashes.                       *)
(*                                                                         *)
(* A *incarnation* is one serverSession object.  It is named by the lease  *)
(* generation it was created under, which no other incarnation shares;     *)
(* incarnation 0 is the degraded session that never got a lease.  sessions *)
(* is the in-memory map by session id, so it may come to hold a newer      *)
(* incarnation than the one a slow goroutine of the gateway still refers   *)
(* to: exactly those goroutines (handleExit, the reaper's callback, the    *)
(* pumps, a fenced checkpoint's remove) are steps of their own here.       *)
(*                                                                         *)
(* The checkpointed state is represented by its receive cursor, ver; what  *)
(* was received and not yet written to the backend is the inbox.  Time     *)
(* appears only as the lapse of a lease: the code's safety argument does   *)
(* not use timing.  The one client is the session's creator.               *)
(***************************************************************************)
EXTENDS LeaseStore, FiniteSets

CONSTANTS
    TakeoverAttempts,  \* attach's bound on lost takeover races
    MaxGen,            \* bound: generations granted
    MaxVer,            \* bound: messages the session receives
    MaxHandles,        \* bound: Handles counted active on one incarnation
    Events             \* timers, client moves and faults a run considers

ASSUME BoundAssumption ==
    /\ TakeoverAttempts \in Nat \ {0} /\ MaxGen \in Nat \ {0}
    /\ MaxVer \in Nat /\ MaxHandles \in Nat \ {0}

Gens == 0..MaxGen
None == -1

VARIABLES
    rec,        \* the session's record in the store
    granted,    \* history: generations granted so far
    written,    \* history: the generation whose SaveIfOwned succeeded last
    inc,        \* incarnations, by generation
    sessions,   \* Server.sessions[id] of each gateway
    att,        \* the attach in progress on each gateway (it holds s.mu)
    ckpt,       \* the checkpoint in progress of each incarnation (ckptMu)
    maint,      \* the maintenance goroutine: renewOnce / sweepOnce
    removes,    \* calls of Server.remove in progress on each gateway
    drain,      \* Shutdown's progress
    client,     \* the session's client
    up          \* gateway process state

vars == <<rec, granted, written, inc, sessions, att, ckpt, maint, removes,
          drain, client, up>>

NoInc == [gw |-> Nobody, life |-> "gone", ver |-> 0, inbox |-> 0,
          active |-> 0, pumping |-> 0, leaving |-> 0, reaper |-> "off", pump |-> "done"]
NoCkpt == [ver |-> 0, by |-> "none"]
Idle == [pc |-> "idle", ps |-> NoRec, gen |-> 0, tries |-> 0]

Incarnation ==
    [gw : Gateways \cup {Nobody}, life : {"open", "closed", "gone"}, ver : Nat, inbox : Nat,
     active : Int, pumping : Nat, leaving : Nat, reaper : {"off", "armed", "fired"},
     pump : {"read", "ckpt", "done"}]
Checkpoint == [ver : Nat, by : {"none", "pump", "ack", "resume", "shutdown"}]
Steps == {"idle", "load", "take", "spawn", "save", "renew", "yield", "claim",
          "reload", "register", "release"}
Progress == [pc : Steps, ps : Record \cup {NoRec}, gen : Nat, tries : Nat]
Removal == [of : Gens, why : {"reap", "renew", "end"},
            pc : {"lock", "close", "delete"}, sess : Gens \cup {None}]
Draining == [pc : {"no", "save", "close", "release", "done"}, of : Gens \cup {None}]
ClientState == [st : {"new", "out", "arriving", "on", "done", "dead"},
                gw : Gateways \cup {Nobody}, at : Gens \cup {None}]

TypeOK ==
    /\ rec \in Record \cup {NoRec}
    /\ granted \in Nat /\ written \in Nat
    /\ inc \in [Gens -> Incarnation]
    /\ sessions \in [Gateways -> Gens \cup {None}]
    /\ att \in [Gateways -> Progress]
    /\ ckpt \in [Gens -> Checkpoint]
    /\ maint \in [Gateways -> Progress]
    /\ removes \in [Gateways -> SUBSET Removal]
    /\ drain \in [Gateways -> Draining]
    /\ client \in ClientState
    /\ up \in [Gateways -> {"up", "stopping", "down"}]

ClientIs(st, g, i) == [st |-> st, gw |-> g, at |-> i]

Init ==
    /\ rec = NoRec /\ granted = 0 /\ written = 0
    /\ inc = [i \in Gens |-> NoInc]
    /\ sessions = [g \in Gateways |-> None]
    /\ att = [g \in Gateways |-> Idle]
    /\ ckpt = [i \in Gens |-> NoCkpt]
    /\ maint = [g \in Gateways |-> Idle]
    /\ removes = [g \in Gateways |-> {}]
    /\ drain = [g \in Gateways |-> [pc |-> "no", of |-> None]]
    /\ client = ClientIs("new", Nobody, None)
    /\ up = [g \in Gateways |-> "up"]

-----------------------------------------------------------------------------
Alive(g) == up[g] # "down"
Running(i) == inc[i].gw # Nobody

(* s.mu is held by attach across its store calls, and by adopt across the  *)
(* first checkpoint of the session it registers.                           *)
MuFree(g) == Alive(g) /\ att[g].pc = "idle" /\ maint[g].pc # "save"

(* The serverSession that attach or registerResumed publishes, pumps       *)
(* started.                                                                *)
NewInc(g, ver, active, pumping) ==
    [gw |-> g, life |-> "open", ver |-> ver, inbox |-> 0,
     active |-> active, pumping |-> pumping, leaving |-> 0, reaper |-> "off", pump |-> "read"]

(* Progress of attach, renewOnce and sweepOnce: the next step, the record  *)
(* loaded or listed, the generation granted or snapshotted.                *)
At(x, pc) == [x EXCEPT !.pc = pc]
AtWith(x, pc, ps) == [x EXCEPT !.pc = pc, !.ps = ps]
AtGen(x, pc, gen) == [x EXCEPT !.pc = pc, !.gen = gen]
Retrying(x) == [x EXCEPT !.pc = "load", !.tries = @ + 1]

(* What happens to a serverSession x: its endpoint closes, its backend is  *)
(* closed too, a Handle attaches, a pump reads, writes, or a Handle ends.  *)
(* remove and Shutdown stop the reaper of a session they took out of the   *)
(* map; an armed reaper means that no Handle is left to look at it again.  *)
Closed(x) == [x EXCEPT !.life = IF @ = "open" THEN "closed" ELSE @]
Gone(x) == [x EXCEPT !.life = "gone"]
Attached(x) == [x EXCEPT !.reaper = "off", !.active = @ + 1, !.pumping = @ + 1]
Received(x) == [x EXCEPT !.ver = @ + 1, !.inbox = @ + 1]
Dispatched(x) == [x EXCEPT !.inbox = @ - 1, !.pump = "ckpt"]
PumpReturned(x) == [x EXCEPT !.pumping = @ - 1]
Leaving(x) == [x EXCEPT !.pumping = @ - 1, !.leaving = @ + 1]
Exited(x, present) ==
    [x EXCEPT !.leaving = @ - 1, !.active = @ - 1,
              !.reaper = IF present /\ x.active <= 1 /\ @ = "off" THEN "armed" ELSE @]
Serving(x) == [x EXCEPT !.pumping = @ + 1]
Armed(x) == [x EXCEPT !.reaper = "armed"]
Fired(x) == [x EXCEPT !.reaper = "fired"]
Disarmed(x) == [x EXCEPT !.reaper = IF @ = "armed" THEN "off" ELSE @]
PumpGoes(x, to) == [x EXCEPT !.pump = to]

Superseded(i) == i > 0 /\ (rec = NoRec \/ rec.gen # i)

(* A goroutine of incarnation i calls remove(id): its reaper's callback,   *)
(* the renewal heartbeat, or one that saw its end (a pump, a closed        *)
(* Handle's exit, a fenced checkpoint).                                    *)
Call(i, why) == [of |-> i, why |-> why, pc |-> "lock", sess |-> None]
Ask(i, why) == [removes EXCEPT ![inc[i].gw] = @ \cup {Call(i, why)}]

(* The client's side of a rejected attach is terminal (session/client.go). *)
Reject == client' = ClientIs("dead", Nobody, None)

Arriving(g) == client.st = "arriving" /\ client.gw = g

-----------------------------------------------------------------------------
(* The client. *)

(* attach with a zero id: spawn, AcquireLease at generation 0, register.   *)
(* A store error serves the session without a lease.                       *)
Open(g) ==
    /\ client.st = "new" /\ up[g] = "up" /\ MuFree(g)
    /\ \/ /\ canAcquire(rec, g, 0)
          /\ rec' = Grant(rec, g) /\ granted' = 1
          /\ inc' = [inc EXCEPT ![1] = NewInc(g, 0, 1, 1)]
          /\ sessions' = [sessions EXCEPT ![g] = 1]
          /\ client' = ClientIs("on", g, 1)
       \/ /\ "storeError" \in Events
          /\ inc' = [inc EXCEPT ![0] = NewInc(g, 0, 1, 1)]
          /\ sessions' = [sessions EXCEPT ![g] = 0]
          /\ client' = ClientIs("on", g, 0)
          /\ UNCHANGED <<rec, granted>>
    /\ UNCHANGED <<written, att, ckpt, maint, removes, drain, up>>

(* The transport drops; the server's Handle may notice much later.         *)
ConnLost ==
    /\ "roam" \in Events /\ client.st = "on"
    /\ client' = ClientIs("out", Nobody, None)
    /\ UNCHANGED <<rec, granted, written, inc, sessions, att, ckpt, maint,
                   removes, drain, up>>

(* A gateway's accept loop takes the redialled connection.                 *)
Dial(g) ==
    /\ "roam" \in Events /\ client.st = "out" /\ up[g] = "up" /\ granted < MaxGen
    /\ client' = ClientIs("arriving", g, None)
    /\ UNCHANGED <<rec, granted, written, inc, sessions, att, ckpt, maint,
                   removes, drain, up>>

(* A CLOSE frame closes the endpoint; the Handle's exit will remove it.    *)
PeerClose ==
    /\ "peerClose" \in Events
    /\ client.st = "on" /\ inc[client.at].pumping > 0
    /\ inc' = [inc EXCEPT ![client.at] = Closed(@)]
    /\ client' = ClientIs("done", Nobody, None)
    /\ UNCHANGED <<rec, granted, written, sessions, att, ckpt, maint, removes,
                   drain, up>>

-----------------------------------------------------------------------------
(* attach with a session id. *)

(* The id is in the map: stop the reaper, count one more Handle.           *)
AttachKnown(g) ==
    LET i == sessions[g]
    IN  /\ Arriving(g) /\ MuFree(g) /\ i # None
        /\ inc[i].active < MaxHandles
        /\ inc' = [inc EXCEPT ![i] = Attached(@)]
        /\ client' = ClientIs("on", g, i)
        /\ UNCHANGED <<rec, granted, written, sessions, att, ckpt, maint,
                       removes, drain, up>>

(* It is not: the takeover loop starts, with s.mu held to its end.         *)
AttachUnknown(g) ==
    /\ Arriving(g) /\ MuFree(g) /\ sessions[g] = None
    /\ att' = [att EXCEPT ![g] = At(@, "load")]
    /\ UNCHANGED <<rec, granted, written, inc, sessions, ckpt, maint, removes,
                   drain, client, up>>

(* Load, and the creator check on what it returned.  A Load error is read  *)
(* as "no record".                                                         *)
AttachLoad(g) ==
    /\ att[g].pc = "load"
    /\ \/ /\ rec # NoRec /\ rec.ident
          /\ att' = [att EXCEPT ![g] = AtWith(@, "take", rec)]
          /\ UNCHANGED client
       \/ /\ \/ rec = NoRec
             \/ rec # NoRec /\ ~rec.ident
             \/ "storeError" \in Events
          /\ att' = [att EXCEPT ![g] = Idle]
          /\ Reject
    /\ UNCHANGED <<rec, granted, written, inc, sessions, ckpt, maint, removes,
                   drain, up>>

(* rehydrate's TakeoverLease, on the generation that was loaded.           *)
AttachTake(g) ==
    /\ att[g].pc = "take"
    /\ \/ /\ canTakeover(rec, att[g].ps.gen) /\ granted < MaxGen
          /\ rec' = Grant(rec, g) /\ granted' = granted + 1
          /\ att' = [att EXCEPT ![g] = AtGen(@, "spawn", Grant(rec, g).gen)]
          /\ UNCHANGED client
       \/ /\ ~canTakeover(rec, att[g].ps.gen)
          /\ att[g].tries + 1 < TakeoverAttempts
          /\ att' = [att EXCEPT ![g] = Retrying(@)]
          /\ UNCHANGED <<rec, granted, client>>
       \/ /\ \/ ~canTakeover(rec, att[g].ps.gen) /\ att[g].tries + 1 >= TakeoverAttempts
             \/ "storeError" \in Events
          /\ att' = [att EXCEPT ![g] = Idle] /\ Reject
          /\ UNCHANGED <<rec, granted>>
    /\ UNCHANGED <<written, inc, sessions, ckpt, maint, removes, drain, up>>

(* registerResumed: publish the session, start the first checkpoint.       *)
Register(g, i, ver, handles) ==
    /\ inc' = [inc EXCEPT ![i] = NewInc(g, ver, handles, 0)]
    /\ sessions' = [sessions EXCEPT ![g] = i]
    /\ ckpt' = [ckpt EXCEPT ![i] = [ver |-> ver, by |-> "resume"]]

(* resumeFromPersisted with the record loaded before the takeover.  A      *)
(* failed spawn rejects the client and leaves the lease taken.             *)
AttachSpawn(g) ==
    /\ att[g].pc = "spawn"
    /\ \/ /\ Register(g, att[g].gen, att[g].ps.ver, 1)
          /\ att' = [att EXCEPT ![g] = At(@, "save")]
          /\ UNCHANGED client
       \/ /\ "spawnError" \in Events
          /\ att' = [att EXCEPT ![g] = Idle] /\ Reject
          /\ UNCHANGED <<inc, sessions, ckpt>>
    /\ UNCHANGED <<rec, granted, written, maint, removes, drain, up>>

-----------------------------------------------------------------------------
(* The pumps and checkpoints of a registered incarnation. *)

(* pumpReader: a DATA frame advances the receive cursor and is acknowledged *)
(* and buffered for the backend.  A Handle may still read what its client   *)
(* sent before it roamed away.                                              *)
Receive(i) ==
    /\ Running(i) /\ inc[i].life = "open" /\ inc[i].pumping > 0 /\ inc[i].ver < MaxVer
    /\ inc' = [inc EXCEPT ![i] = Received(@)]
    /\ UNCHANGED <<rec, granted, written, sessions, att, ckpt, maint, removes,
                   drain, client, up>>

(* (Mutated form: the pump forgets to check that Inbound gave it anything.)*)
DispatchUnchecked(i) ==
    /\ Running(i) /\ inc[i].pump = "read" /\ inc[i].life # "gone"
    /\ inc' = [inc EXCEPT ![i] = Dispatched(@)]
    /\ UNCHANGED <<rec, granted, written, sessions, att, ckpt, maint, removes,
                   drain, client, up>>

(* peer -> backend: one buffered message is written to the backend, also   *)
(* after the endpoint closed (the loop's select may prefer Inbound to      *)
(* Done).  The loop then checkpoints before it takes the next message.     *)
Dispatch(i) ==
    /\ Running(i) /\ inc[i].pump = "read" /\ inc[i].life # "gone" /\ inc[i].inbox > 0
    /\ inc' = [inc EXCEPT ![i] = Dispatched(@)]
    /\ UNCHANGED <<rec, granted, written, sessions, att, ckpt, maint, removes,
                   drain, client, up>>

(* What the client sees of a CLOSE frame sent by sendClose.                *)
ClientMaySeeClose(i) ==
    \/ /\ inc[i].life = "open" /\ client.st = "on" /\ client.at = i
       /\ client' = ClientIs("done", Nobody, None)
    \/ UNCHANGED client

(* The backend is gone and the write fails, or the message would overflow  *)
(* the replay log: the endpoint is closed and the session id removed.      *)
DispatchFails(i) ==
    /\ Running(i) /\ inc[i].pump = "read" /\ inc[i].inbox > 0
    /\ inc[i].life = "gone" \/ "overflow" \in Events
    /\ inc' = [inc EXCEPT ![i] = PumpGoes(Closed(@), "done")]
    /\ removes' = Ask(i, "end")
    /\ ClientMaySeeClose(i)
    /\ UNCHANGED <<rec, granted, written, sessions, att, ckpt, maint, drain, up>>

(* checkpoint takes ckptMu and snapshots.  The ack trigger needs a live    *)
(* connection; a session without a lease never writes.                     *)
CheckpointBegin(i, by) ==
    /\ Running(i) /\ i > 0 /\ ckpt[i] = NoCkpt
    /\ \/ by = "pump" /\ inc[i].pump = "ckpt"
       \/ by = "ack" /\ inc[i].life = "open" /\ inc[i].pumping > 0
       \/ by = "shutdown" /\ drain[inc[i].gw] = [pc |-> "save", of |-> i]
    /\ ckpt' = [ckpt EXCEPT ![i] = [ver |-> inc[i].ver, by |-> by]]
    /\ UNCHANGED <<rec, granted, written, inc, sessions, att, maint, removes,
                   drain, client, up>>

(* What the goroutine that called checkpoint does next: the pump reads on, *)
(* attach answers its client, adopt arms the reaper, Shutdown goes on.     *)
CheckpointReturns(i) ==
    LET g == inc[i].gw
        by == ckpt[i].by
        attaching == by = "resume" /\ att[g].pc = "save"
        adopting == by = "resume" /\ maint[g].pc = "save"
    IN  /\ ckpt' = [ckpt EXCEPT ![i] = NoCkpt]
        /\ inc' = [inc EXCEPT ![i] = IF by = "pump" THEN PumpGoes(@, "read")
                                    ELSE IF adopting THEN Armed(@)
                                    ELSE IF attaching THEN Serving(@)
                                    ELSE @]
        /\ att' = IF attaching THEN [att EXCEPT ![g] = Idle] ELSE att
        /\ client' = IF attaching THEN ClientIs("on", g, i) ELSE client
        /\ maint' = IF adopting THEN [maint EXCEPT ![g] = Idle] ELSE maint
        /\ drain' = IF by = "shutdown" THEN [drain EXCEPT ![g] = [pc |-> "close", of |-> i]]
                    ELSE drain

(* (Mutated form: the checkpoint writes the record anew when it is gone.)  *)
CheckpointUpserts(i) ==
    /\ Running(i) /\ ckpt[i] # NoCkpt
    /\ rec' = IF rec = NoRec /\ i = granted
              THEN [owner |-> inc[i].gw, gen |-> i, lease |-> "live", ver |-> ckpt[i].ver, ident |-> TRUE]
              ELSE IF Holds(rec, inc[i].gw, i) THEN Saved(rec, ckpt[i].ver) ELSE rec
    /\ CheckpointReturns(i)
    /\ UNCHANGED <<granted, written, removes, sessions, up>>
(* SaveIfOwned: the state is saved, or the incarnation is fenced and a     *)
(* goroutine is started to remove the session id, or the store fails and   *)
(* nothing happens.                                                        *)
CheckpointSave(i) ==
    /\ Running(i) /\ ckpt[i] # NoCkpt
    /\ \/ /\ Holds(rec, inc[i].gw, i)
          /\ rec' = Saved(rec, ckpt[i].ver) /\ written' = i
          /\ UNCHANGED removes
       \/ /\ ~Holds(rec, inc[i].gw, i)
          /\ removes' = Ask(i, "end")
          /\ UNCHANGED <<rec, written>>
       \/ /\ "storeError" \in Events
          /\ UNCHANGED <<rec, written, removes>>
    /\ CheckpointReturns(i)
    /\ UNCHANGED <<granted, sessions, up>>

(* Without a lease checkpoint returns at once.                             *)
CheckpointDegraded ==
    /\ Running(0) /\ inc[0].pump = "ckpt"
    /\ inc' = [inc EXCEPT ![0] = PumpGoes(@, "read")]
    /\ UNCHANGED <<rec, granted, written, sessions, att, ckpt, maint, removes,
                   drain, client, up>>

(* The backend ends by itself: its reader closes the endpoint with a CLOSE *)
(* frame, which the client may or may not see, and removes the session id. *)
BackendExits(i) ==
    /\ "backendExit" \in Events /\ Running(i) /\ inc[i].life # "gone"
    /\ inc' = [inc EXCEPT ![i] = Gone(@)]
    /\ removes' = Ask(i, "end")
    /\ ClientMaySeeClose(i)
    /\ UNCHANGED <<rec, granted, written, sessions, att, ckpt, maint, drain, up>>

-----------------------------------------------------------------------------
(* Detaching, reaping, tearing down. *)

(* A Handle's pump ends: its connection is gone, or the endpoint closed.   *)
(* handleExit of a closed session calls remove; else it goes on to s.mu.   *)
HandleReturns(i) ==
    /\ Running(i) /\ inc[i].pumping > 0
    /\ \/ inc[i].life # "open"
       \/ inc[i].pumping > (IF client.st = "on" /\ client.at = i THEN 1 ELSE 0)
    /\ IF inc[i].life = "open"
       THEN /\ inc' = [inc EXCEPT ![i] = Leaving(@)]
            /\ UNCHANGED removes
       ELSE /\ inc' = [inc EXCEPT ![i] = PumpReturned(@)]
            /\ removes' = Ask(i, "end")
    /\ UNCHANGED <<rec, granted, written, sessions, att, ckpt, maint, drain,
                   client, up>>

(* Under s.mu: the last Handle arms the reaper if the id is in the map.    *)
HandleExit(i) ==
    /\ Running(i) /\ inc[i].leaving > 0 /\ MuFree(inc[i].gw)
    /\ inc' = [inc EXCEPT ![i] = Exited(@, sessions[inc[i].gw] # None)]
    /\ UNCHANGED <<rec, granted, written, sessions, att, ckpt, maint, removes,
                   drain, client, up>>

(* The TTL passes: the timer's goroutine calls remove(id).                 *)
ReaperFires(i) ==
    /\ "reap" \in Events /\ Running(i) /\ inc[i].reaper = "armed"
    /\ inc' = [inc EXCEPT ![i] = Fired(@)]
    /\ removes' = Ask(i, "reap")
    /\ UNCHANGED <<rec, granted, written, sessions, att, ckpt, maint, drain,
                   client, up>>

(* remove: take whatever session the id names out of the map ...           *)
RemoveTakes(g, r) ==
    /\ r \in removes[g] /\ r.pc = "lock" /\ MuFree(g)
    /\ IF sessions[g] = None
       THEN /\ removes' = [removes EXCEPT ![g] = @ \ {r}]
            /\ UNCHANGED <<inc, sessions>>
       ELSE /\ removes' = [removes EXCEPT ![g] =
                   (@ \ {r}) \cup {[r EXCEPT !.pc = "close", !.sess = sessions[g]]}]
            /\ inc' = [inc EXCEPT ![sessions[g]] = Disarmed(@)]
            /\ sessions' = [sessions EXCEPT ![g] = None]
    /\ UNCHANGED <<rec, granted, written, att, ckpt, maint, drain, client, up>>

(* ... close its endpoint and backend, which may make the backend's reader *)
(* call remove(id) in turn ...                                             *)
RemoveCloses(g, r) ==
    LET next == (removes[g] \ {r}) \cup {[r EXCEPT !.pc = "delete"]}
    IN  /\ r \in removes[g] /\ r.pc = "close"
        /\ inc' = [inc EXCEPT ![r.sess] = Gone(@)]
        /\ \/ removes' = [removes EXCEPT ![g] = next]
           \/ /\ inc[r.sess].life # "gone"
              /\ removes' = [removes EXCEPT ![g] = next \cup {Call(r.sess, "end")}]
        /\ UNCHANGED <<rec, granted, written, sessions, att, ckpt, maint, drain,
                       client, up>>

(* ... and DeleteIfOwner its record.                                       *)
RemoveDeletes(g, r) ==
    /\ r \in removes[g] /\ r.pc = "delete"
    /\ \/ rec' = IF DeletesIfOwner(rec, g) THEN NoRec ELSE rec
       \/ "storeError" \in Events /\ UNCHANGED rec
    /\ removes' = [removes EXCEPT ![g] = @ \ {r}]
    /\ UNCHANGED <<granted, written, inc, sessions, att, ckpt, maint, drain,
                   client, up>>

-----------------------------------------------------------------------------
(* Lease maintenance: one goroutine per gateway, until Shutdown joins it.  *)

MaintenanceFree(g) == Alive(g) /\ drain[g].pc = "no" /\ maint[g].pc = "idle"

(* renewOnce: snapshot under s.mu, then the store call outside it.         *)
RenewBegin(g) ==
    /\ "renew" \in Events
    /\ MaintenanceFree(g) /\ MuFree(g) /\ sessions[g] > 0
    /\ maint' = [maint EXCEPT ![g] = AtGen(@, "renew", sessions[g])]
    /\ UNCHANGED <<rec, granted, written, inc, sessions, att, ckpt, removes,
                   drain, client, up>>

(* (Mutated form: a fenced renewal is handled like a store error.)         *)
RenewRetains(g) ==
    /\ maint[g].pc = "renew"
    /\ rec' = IF Holds(rec, g, maint[g].gen) THEN Renewed(rec) ELSE rec
    /\ maint' = [maint EXCEPT ![g] = Idle]
    /\ UNCHANGED <<granted, written, inc, sessions, att, ckpt, removes, drain,
                   client, up>>

RenewLease(g) ==
    LET gen == maint[g].gen
    IN  /\ maint[g].pc = "renew"
        /\ \/ /\ Holds(rec, g, gen)
              /\ rec' = Renewed(rec)
              /\ maint' = [maint EXCEPT ![g] = Idle]
              /\ UNCHANGED removes
           \/ /\ ~Holds(rec, g, gen)
              /\ removes' = Ask(gen, "renew")
              /\ maint' = [maint EXCEPT ![g] = At(@, "yield")]
              /\ UNCHANGED rec
           \/ /\ "storeError" \in Events
              /\ maint' = [maint EXCEPT ![g] = Idle]
              /\ UNCHANGED <<rec, removes>>
        /\ UNCHANGED <<granted, written, inc, sessions, att, ckpt, drain, client,
                       up>>

(* renewOnce calls remove itself and returns when it has.                  *)
RenewYielded(g) ==
    /\ maint[g].pc = "yield" /\ \A r \in removes[g] : r.why # "renew"
    /\ maint' = [maint EXCEPT ![g] = Idle]
    /\ UNCHANGED <<rec, granted, written, inc, sessions, att, ckpt, removes,
                   drain, client, up>>

(* sweepOnce: List and adoptable.                                          *)
SweepBegin(g) ==
    /\ "sweep" \in Events
    /\ MaintenanceFree(g) /\ adoptable(rec, g)
    /\ maint' = [maint EXCEPT ![g] = AtWith(@, "claim", rec)]
    /\ UNCHANGED <<rec, granted, written, inc, sessions, att, ckpt, removes,
                   drain, client, up>>

(* adopt: AcquireLease on the listed generation; give up silently.         *)
SweepClaim(g) ==
    /\ maint[g].pc = "claim"
    /\ \/ /\ canAcquire(rec, g, maint[g].ps.gen) /\ granted < MaxGen
          /\ rec' = Grant(rec, g) /\ granted' = granted + 1
          /\ maint' = [maint EXCEPT ![g] = AtGen(@, "reload", Grant(rec, g).gen)]
       \/ /\ ~canAcquire(rec, g, maint[g].ps.gen) \/ "storeError" \in Events
          /\ maint' = [maint EXCEPT ![g] = Idle]
          /\ UNCHANGED <<rec, granted>>
    /\ UNCHANGED <<written, inc, sessions, att, ckpt, removes, drain, client, up>>

(* adopt's re-Load, now that the previous owner is fenced.  (Mutated form: *)
(* resume from the copy List returned.)                                    *)
SweepKeepsListed(g) ==
    /\ maint[g].pc = "reload"
    /\ maint' = [maint EXCEPT ![g] = At(@, "register")]
    /\ UNCHANGED <<rec, granted, written, inc, sessions, att, ckpt, removes,
                   drain, client, up>>
SweepReload(g) ==
    /\ maint[g].pc = "reload"
    /\ \/ /\ rec # NoRec /\ rec.ident
          /\ maint' = [maint EXCEPT ![g] = AtWith(@, "register", rec)]
       \/ /\ rec = NoRec \/ (rec # NoRec /\ ~rec.ident) \/ "storeError" \in Events
          /\ maint' = [maint EXCEPT ![g] = At(@, "release")]
    /\ UNCHANGED <<rec, granted, written, inc, sessions, att, ckpt, removes,
                   drain, client, up>>

(* Under s.mu: yield to a session that is there already, else resume.      *)
SweepRegister(g) ==
    /\ maint[g].pc = "register" /\ MuFree(g)
    /\ \/ /\ sessions[g] = None
          /\ Register(g, maint[g].gen, maint[g].ps.ver, 0)
          /\ maint' = [maint EXCEPT ![g] = At(@, "save")]
       \/ /\ sessions[g] # None \/ "spawnError" \in Events
          /\ maint' = [maint EXCEPT ![g] = At(@, "release")]
          /\ UNCHANGED <<inc, sessions, ckpt>>
    /\ UNCHANGED <<rec, granted, written, att, removes, drain, client, up>>

SweepRelease(g) ==
    /\ maint[g].pc = "release"
    /\ \/ rec' = IF Holds(rec, g, maint[g].gen) THEN Released(rec) ELSE rec
       \/ "storeError" \in Events /\ UNCHANGED rec
    /\ maint' = [maint EXCEPT ![g] = Idle]
    /\ UNCHANGED <<granted, written, inc, sessions, att, ckpt, removes, drain,
                   client, up>>

-----------------------------------------------------------------------------
(* Shutdown and crashes. *)

(* The stop channel and the listener close: no connection is accepted any  *)
(* more, but one that was accepted may still be on its way into attach.    *)
ShutdownBegin(g) ==
    /\ "shutdown" \in Events /\ up[g] = "up"
    /\ up' = [up EXCEPT ![g] = "stopping"]
    /\ UNCHANGED <<rec, granted, written, inc, sessions, att, ckpt, maint,
                   removes, drain, client>>

(* Join the maintenance goroutine, then empty the map under s.mu.          *)
DrainTakes(g) ==
    LET i == sessions[g]
    IN  /\ IF i = None
           THEN /\ drain' = [drain EXCEPT ![g].pc = "done"]
                /\ UNCHANGED inc
           ELSE /\ drain' = [drain EXCEPT ![g] =
                       [pc |-> IF i > 0 THEN "save" ELSE "close", of |-> i]]
                /\ inc' = [inc EXCEPT ![i] = Disarmed(@)]
        /\ sessions' = [sessions EXCEPT ![g] = None]
        /\ UNCHANGED <<rec, granted, written, att, ckpt, maint, removes, client, up>>
(* (Mutated form: the maintenance goroutine is not joined.) *)
DrainWithoutJoin(g) ==
    /\ up[g] = "stopping" /\ drain[g].pc = "no" /\ MuFree(g)
    /\ DrainTakes(g)
ShutdownDrain(g) ==
    /\ up[g] = "stopping" /\ drain[g].pc = "no" /\ maint[g].pc = "idle" /\ MuFree(g)
    /\ DrainTakes(g)

(* After the final checkpoint: closeWith, which quiesces the pumps ...     *)
ShutdownCloses(g) ==
    /\ drain[g].pc = "close"
    /\ inc' = [inc EXCEPT ![drain[g].of] = Closed(@)]
    /\ drain' = [drain EXCEPT ![g].pc = "release"]
    /\ UNCHANGED <<rec, granted, written, sessions, att, ckpt, maint, removes,
                   client, up>>

(* ... then ReleaseLease, and close the backend.                           *)
ShutdownReleases(g) ==
    LET i == drain[g].of
    IN  /\ drain[g].pc = "release"
        /\ \/ rec' = IF i > 0 /\ Holds(rec, g, i) THEN Released(rec) ELSE rec
           \/ "storeError" \in Events /\ UNCHANGED rec
        /\ inc' = [inc EXCEPT ![i] = Gone(@)]
        /\ removes' \in {removes, Ask(i, "end")}
        /\ drain' = [drain EXCEPT ![g].pc = "done"]
        /\ UNCHANGED <<granted, written, sessions, att, ckpt, maint, client, up>>

(* The process is gone, and with it every goroutine and session it had.    *)
Dies(g) ==
    /\ up' = [up EXCEPT ![g] = "down"]
    /\ inc' = [i \in Gens |-> IF inc[i].gw = g THEN NoInc ELSE inc[i]]
    /\ ckpt' = [i \in Gens |-> IF inc[i].gw = g THEN NoCkpt ELSE ckpt[i]]
    /\ sessions' = [sessions EXCEPT ![g] = None]
    /\ att' = [att EXCEPT ![g] = Idle]
    /\ maint' = [maint EXCEPT ![g] = Idle]
    /\ removes' = [removes EXCEPT ![g] = {}]
    /\ drain' = [drain EXCEPT ![g] = [pc |-> "done", of |-> None]]
    /\ client' = IF client.gw = g THEN ClientIs("out", Nobody, None) ELSE client
    /\ UNCHANGED <<rec, granted, written>>

Exit(g) == drain[g].pc = "done" /\ up[g] = "stopping" /\ Dies(g)

Crash(g) == "crash" \in Events /\ Alive(g) /\ Dies(g)

(* Time passes the lease's expiry, and later the sweep margin.  Only the   *)
(* sweep reads the expiry of a lease.                                      *)
LeaseLapses ==
    /\ "sweep" \in Events /\ rec # NoRec /\ rec.lease # "stale"
    /\ rec' = [rec EXCEPT !.lease = IF @ = "live" THEN "lapsed" ELSE "stale"]
    /\ UNCHANGED <<granted, written, inc, sessions, att, ckpt, maint, removes,
                   drain, client, up>>

-----------------------------------------------------------------------------
Attaching(g) ==
    \/ AttachKnown(g) \/ AttachUnknown(g) \/ AttachLoad(g) \/ AttachTake(g) \/ AttachSpawn(g)
Maintaining(g) ==
    \/ RenewBegin(g) \/ RenewLease(g) \/ RenewYielded(g)
    \/ SweepBegin(g) \/ SweepClaim(g) \/ SweepReload(g) \/ SweepRegister(g) \/ SweepRelease(g)
ShuttingDown(g) ==
    \/ ShutdownDrain(g) \/ ShutdownCloses(g) \/ ShutdownReleases(g) \/ Exit(g)
RemovingFor(g, why) ==
    \E r \in removes[g] :
        r.why = why /\ (RemoveTakes(g, r) \/ RemoveCloses(g, r) \/ RemoveDeletes(g, r))
Removing(g) == \E why \in {"reap", "renew", "end"} : RemovingFor(g, why)
Pumping(i) ==
    \/ Receive(i) \/ Dispatch(i) \/ DispatchFails(i)
    \/ \E by \in {"pump", "ack", "shutdown"} : CheckpointBegin(i, by)
    \/ CheckpointSave(i)
Detaching(i) == HandleReturns(i) \/ HandleExit(i) \/ ReaperFires(i)

Next ==
    \/ ConnLost \/ PeerClose \/ CheckpointDegraded \/ LeaseLapses
    \/ \E g \in Gateways :
          Open(g) \/ Dial(g) \/ Attaching(g) \/ Maintaining(g) \/ Removing(g)
          \/ ShutdownBegin(g) \/ ShuttingDown(g) \/ Crash(g)
    \/ \E i \in Gens : Pumping(i) \/ BackendExits(i) \/ Detaching(i)

Spec == Init /\ [][Next]_vars

-----------------------------------------------------------------------------
(* Properties *)

(* The generation in the store is the last one granted, no session object  *)
(* has a later one, and the object of the newest generation runs on the    *)
(* gateway the record names, unless the lease was released: what a         *)
(* superseded gateway still runs can be told from it by generation alone.  *)
NewestGenerationOwns ==
    /\ rec # NoRec => rec.gen = granted
    /\ \A i \in Gens : Running(i) => i <= granted
    /\ Running(granted) /\ granted > 0 /\ rec # NoRec =>
          rec.owner \in {inc[granted].gw, Nobody}

(***************************************************************************)
(* The whole protocol implements the abstract ownership of one session:    *)
(* every store step of every goroutine on every gateway is a grant, a      *)
(* write by the current owner, a release, a deletion by the owner, or      *)
(* invisible.                                                              *)
(***************************************************************************)
Own == INSTANCE Ownership WITH
    epoch <- granted,
    holder <- IF rec = NoRec THEN Nobody ELSE rec.owner,
    writer <- written,
    ended <- granted > 0 /\ rec = NoRec
ImplementsOwnership == Own!Spec

(* SaveIfOwned's fence: once a generation has written the record, no       *)
(* checkpoint of an earlier generation is ever saved, however long its     *)
(* gateway was paused between snapshot and store write.                    *)
WritesInGenerationOrder == [][written' >= written]_vars

(* A deleted session stays deleted: no late checkpoint, renewal, takeover  *)
(* or adoption brings its record back.                                     *)
DeletedStaysDeleted == [][granted > 0 /\ rec = NoRec => rec' = NoRec]_vars

(* "A reaper on a superseded gateway never deletes a session another       *)
(* gateway resumed": the gateway whose remove deletes the record is the    *)
(* one that runs the newest session object, if any gateway does.           *)
DeleteSparesOtherGateways ==
    [][\A g \in Gateways :
          rec # NoRec /\ rec' = NoRec /\ removes'[g] # removes[g] /\ Running(granted)
             => inc[granted].gw = g]_vars

(* "Shutdown hands every live session off": when a process ends after      *)
(* Shutdown returned it leaves no lease in its own name, but of a session  *)
(* that was being removed at that very moment.                             *)
ShutdownHandsOff ==
    [][\A g \in Gateways :
          drain[g].pc = "done" /\ Alive(g) /\ up'[g] = "down" /\ rec # NoRec /\ rec.owner = g
             => \E r \in removes[g] : r.sess = rec.gen]_vars

(* A step that moves the stored cursor of the session back.                *)
Regresses == rec # NoRec /\ rec' # NoRec /\ rec'.ver < rec.ver
NeverRegresses == [][~Regresses]_vars

(* The reaper takes a session out of the map only when no Handle serves it.*)
NeverReapedWhileAttached ==
    \A g \in Gateways : \A r \in removes[g] :
        r.why = "reap" /\ r.pc = "close" => inc[r.sess].pumping = 0

(***************************************************************************)
(* Fairness: goroutines run, timers fire, the store answers and messages   *)
(* that have arrived are read.  Weak fairness of each goroutine is enough; *)
(* nothing is assumed of the client or of faults.                          *)
(***************************************************************************)
Fairness ==
    /\ WF_vars(LeaseLapses)
    /\ \A g \in Gateways :
          /\ WF_vars(Attaching(g)) /\ WF_vars(Maintaining(g)) /\ WF_vars(ShuttingDown(g))
          /\ \A why \in {"reap", "renew", "end"} : WF_vars(RemovingFor(g, why))
    /\ \A i \in Gens :
          WF_vars(CheckpointSave(i)) /\ WF_vars(CheckpointBegin(i, "shutdown"))
FairSpec == Spec /\ Fairness

(* A superseded incarnation does not keep the session id forever: the      *)
(* renewal heartbeat (or a fenced checkpoint) takes it out of the map.     *)
Stale(g) == sessions[g] # None /\ Superseded(sessions[g])
FencedYields == \A g \in Gateways : Stale(g) ~> ~Stale(g)

(* The standby promise: a checkpointed session whose owner died is         *)
(* eventually owned by a live gateway again, or over.                      *)
OrphanAdopted ==
    rec # NoRec /\ rec.ident /\ rec.owner # Nobody /\ ~Alive(rec.owner)
       ~> \/ rec = NoRec
          \/ rec.owner # Nobody /\ Alive(rec.owner)
          \/ \A g \in Gateways : up[g] # "up"
          \/ granted = MaxGen
=============================================================================
