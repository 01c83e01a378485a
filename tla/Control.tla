------------------------------ MODULE Control -------------------------------
(***************************************************************************)
(* The two control services: the plane that enrols gateways and hands out  *)
(* policy, and the room that pools connections, launches tools and counts  *)
(* its viewers. Each part is a specification of its own, with its own      *)
(* initial state and next-state relation; a behaviour is a behaviour of    *)
(* one of them.                                                            *)
(***************************************************************************)
EXTENDS FiniteSets, Sequences, Integers

-----------------------------------------------------------------------------
(***************************************************************************)
(* The control plane (control/ and cmd/meshmcp/control.go): mesh peers     *)
(* read and write policies, the service registry and enrolment keys over   *)
(* HTTP.  The peer's WireGuard key decides its tenant and its roles; every *)
(* tenant has a directory for each store and a hash-chained audit log of   *)
(* its own, opened lazily and seeded from its last record.                 *)
(*                                                                         *)
(* The model has the loading of the access list, the handlers of several   *)
(* requests at once, os.WriteFile as truncation and writing, the           *)
(* management API whose answer may be lost, failing audit writes, and      *)
(* crashes at any step with the restart that follows.  HTTP statuses,      *)
(* body limits and name syntax are left out.                               *)
(***************************************************************************)
CONSTANTS
  ACLs,         \* access lists an operator may write: tenant -> [key -> set of roles]
  Folded,       \* the directory a tenant id names on a case-insensitive file system
  Request,      \* caller -> [key, op, name, body]
  Valid,        \* the policy bodies ValidatePolicy accepts
  Admin,        \* the role that implies every other
  MaxCrashes, MaxAuditFails, MaxLostAnswers

VARIABLES
  acl,       \* the access list in force, or "none" while the process is down
  byKey,     \* TenantSet.byKey
  policies,  \* <<directory, name>> -> the file's content
  entries,   \* the registry files: <<directory, name>>
  chain,     \* directory -> the records in its audit file
  torn,      \* the directories whose audit file ends in half a record
  cursor,    \* tenant -> the sequence number its open AuditLog is at
  fallback,  \* the records that went to the fallback sink
  unwritten, \* requests whose allow record could not be written
  req,       \* caller -> [pc, tenant, got]
  minted,    \* the requests the management API has minted a key for
  acted,     \* [list, key, tenant]: which key has changed which tenant's stores, and under which list
  crashes, auditFails, lostAnswers

planeVars == <<acl, byKey, policies, entries, chain, torn, cursor, fallback, unwritten, req, minted,
                 acted, crashes, auditFails, lostAnswers>>

PlaneCallers == DOMAIN Request
Tenants == UNION {DOMAIN a : a \in ACLs}
Dirs == {Folded[t] : t \in Tenants}
Names == {Request[c].name : c \in PlaneCallers}
Idle == [pc |-> "idle", tenant |-> "none", got |-> "none"]

(***************************************************************************)
(* The access list.  A list is refused when two tenants would share a      *)
(* directory or a key is granted under two tenants.                        *)
(***************************************************************************)
Loads(a) ==
  /\ \A t \in DOMAIN a : DOMAIN a[t] # {}
  /\ \A s, t \in DOMAIN a : s # t =>
       /\ Folded[s] # Folded[t]
       /\ DOMAIN a[s] \cap DOMAIN a[t] = {}

(***************************************************************************)
(* The index from key to tenant.  It is filled while ranging over a map,   *)
(* so where a key had two tenants either could come last.                  *)
(***************************************************************************)
Indexes(a) ==
  LET keys == UNION {DOMAIN a[t] : t \in DOMAIN a}
  IN  {f \in [keys -> DOMAIN a] : \A k \in keys : k \in DOMAIN a[f[k]]}

RoleOf(op) ==
  CASE op = "enroll" -> "issue"
    [] op \in {"register", "deregister"} -> "rwrite"
    [] op = "lookup" -> "rread"
    [] op = "put" -> "pwrite"
    [] op = "get" -> "pread"

HasRole(t, k, role) ==
  /\ t \in DOMAIN acl /\ k \in DOMAIN acl[t]
  /\ {role, Admin} \cap acl[t][k] # {}

TenantFor(k) == IF k \in DOMAIN byKey THEN byKey[k] ELSE "none"

(***************************************************************************)
(* AuditLog.Append on a tenant's log.  The log is opened on first use and  *)
(* kept: its cursor continues from the last record of the file, which      *)
(* LastLink refuses if a line of it does not parse.  A whole record        *)
(* without its newline parses, and the next one is written onto its line.  *)
(***************************************************************************)
Rec(n, c, what, line) == [seq |-> n, who |-> c, what |-> what, line |-> line]

Onto(d) == chain[d] # <<>> /\ chain[d][Len(chain[d])].line = "bare"

AddTo(d, r) ==
  IF Onto(d) THEN Append([chain[d] EXCEPT ![Len(chain[d])].line = "shared"], [r EXCEPT !.line = "shared"])
  ELSE Append(chain[d], r)

Open(t) == IF cursor[t] = 0 THEN Len(chain[Folded[t]]) + 1 ELSE cursor[t]

Readable(t) ==
  \/ cursor[t] # 0
  \/ /\ Folded[t] \notin torn
     /\ \A i \in DOMAIN chain[Folded[t]] : chain[Folded[t]][i].line # "shared"

Append1(t, c, what) ==
  IF Readable(t)
  THEN /\ chain' = [chain EXCEPT ![Folded[t]] = AddTo(Folded[t], Rec(Open(t), c, what, "own"))]
       /\ cursor' = [cursor EXCEPT ![t] = Open(t) + 1]
       /\ UNCHANGED fallback
  ELSE fallback' = fallback \cup {<<c, what>>} /\ UNCHANGED <<chain, cursor>>

(***************************************************************************)
(* Start: cmdControl loads the list or refuses to run.  A restart finds    *)
(* the files and nothing else; the operator may have edited the list.      *)
(***************************************************************************)
Start ==
  /\ acl = <<>>
  /\ \E a \in ACLs :
       /\ Loads(a)
       /\ acl' = a
       /\ byKey' \in Indexes(a)
  /\ UNCHANGED <<policies, entries, chain, torn, cursor, fallback, unwritten, req, minted, acted, crashes, auditFails, lostAnswers>>

Up == acl # <<>>

(***************************************************************************)
(* authorize: resolve the tenant from the key, check the role, record the  *)
(* verdict.  The record of an allow precedes the operation; a record the   *)
(* log cannot write is given up.                                           *)
(***************************************************************************)
Authorize(c) ==
  LET k == Request[c].key
      t == TenantFor(k)
      ok == t # "none" /\ HasRole(t, k, RoleOf(Request[c].op))
  IN  /\ Up /\ req[c].pc = "idle"
      /\ req' = [req EXCEPT ![c].pc = IF ok THEN "allowed" ELSE "denied", ![c].tenant = t]
      /\ \/ /\ t = "none"
            /\ fallback' = fallback \cup {<<c, "deny">>}
            /\ UNCHANGED <<chain, cursor, unwritten, auditFails>>
         \/ /\ t # "none"
            /\ Append1(t, c, IF ok THEN "allow" ELSE "deny")
            /\ UNCHANGED <<unwritten, auditFails>>
         \/ /\ t # "none" /\ Readable(t) /\ auditFails < MaxAuditFails
            /\ auditFails' = auditFails + 1
            /\ unwritten' = unwritten \cup {c}
            /\ cursor' = [cursor EXCEPT ![t] = Open(t)]
            /\ UNCHANGED <<chain, fallback>>
      /\ UNCHANGED <<acl, byKey, policies, entries, torn, minted, acted, crashes, lostAnswers>>

Dir(c) == Folded[req[c].tenant]
At(c, pc, ops) == Up /\ req[c].pc = pc /\ Request[c].op \in ops
Acts(c) == acted' = acted \cup {[list |-> acl, key |-> Request[c].key, tenant |-> req[c].tenant]}
Done(c, got) == req' = [req EXCEPT ![c].pc = "done", ![c].got = got]

(***************************************************************************)
(* handlePolicy.  PUT validates before it touches the store; WriteFile     *)
(* truncates the file and then fills it.                                   *)
(***************************************************************************)
PutBegin(c) ==
  /\ At(c, "allowed", {"put"})
  /\ IF Request[c].body \in Valid
     THEN /\ policies' = [policies EXCEPT ![<<Dir(c), Request[c].name>>] = "torn"]
          /\ req' = [req EXCEPT ![c].pc = "writing"]
          /\ Acts(c)
     ELSE Done(c, "invalid") /\ UNCHANGED <<policies, acted>>
  /\ UNCHANGED <<acl, byKey, entries, chain, torn, cursor, fallback, unwritten, minted, crashes, auditFails, lostAnswers>>

PutEnd(c) ==
  /\ At(c, "writing", {"put"})
  /\ policies' = [policies EXCEPT ![<<Dir(c), Request[c].name>>] = Request[c].body]
  /\ Done(c, "stored")
  /\ UNCHANGED <<acl, byKey, entries, chain, torn, cursor, fallback, unwritten, minted, acted, crashes, auditFails, lostAnswers>>

Get(c) ==
  /\ At(c, "allowed", {"get"})
  /\ Done(c, policies[<<Dir(c), Request[c].name>>])
  /\ UNCHANGED <<acl, byKey, policies, entries, chain, torn, cursor, fallback, unwritten, minted, acted, crashes, auditFails, lostAnswers>>

(***************************************************************************)
(* handleRegistry: Register, Deregister and Lookup each hold the mutex of  *)
(* the one FileRegistry a tenant has.                                      *)
(***************************************************************************)
Registry(c) ==
  /\ At(c, "allowed", {"register", "deregister", "lookup"})
  /\ LET op == Request[c].op
         e == <<Dir(c), Request[c].name>>
     IN  /\ entries' = CASE op = "register" -> entries \cup {e} [] op = "deregister" -> entries \ {e} [] OTHER -> entries
         /\ IF op = "lookup" THEN UNCHANGED acted ELSE Acts(c)
         /\ Done(c, IF op = "lookup" /\ e \in entries THEN "found" ELSE "ok")
  /\ UNCHANGED <<acl, byKey, policies, chain, torn, cursor, fallback, unwritten, minted, crashes, auditFails, lostAnswers>>

(***************************************************************************)
(* handleEnroll: the tenant's enroller shares the tenant's log; where that *)
(* log cannot be opened the request fails before a key is asked for.       *)
(***************************************************************************)
CanEnroll(c) == Readable(req[c].tenant)

EnrollAsk(c) ==
  /\ At(c, "allowed", {"enroll"})
  /\ IF CanEnroll(c)
     THEN \E reached \in BOOLEAN :
            /\ minted' = IF reached THEN minted \cup {c} ELSE minted
            /\ req' = [req EXCEPT ![c].pc = IF reached THEN "minted" ELSE "refused"]
            /\ cursor' = [cursor EXCEPT ![req[c].tenant] = Open(req[c].tenant)]
     ELSE Done(c, "error") /\ UNCHANGED <<minted, cursor>>
  /\ UNCHANGED <<acl, byKey, policies, entries, chain, torn, fallback, unwritten, acted, crashes, auditFails, lostAnswers>>

(* (Mutated form: the key is handed out before its record is written.) *)
EnrollAnswerFirst(c) ==
  /\ At(c, "minted", {"enroll"})
  /\ Done(c, "key")
  /\ UNCHANGED <<acl, byKey, policies, entries, chain, torn, cursor, fallback, unwritten, minted, acted, crashes, auditFails, lostAnswers>>

EnrollAnswer(c) ==
  /\ \/ /\ At(c, "minted", {"enroll"})
        /\ Append1(req[c].tenant, c, "issued") /\ Acts(c)
        /\ Done(c, "key")
        /\ UNCHANGED lostAnswers
     \/ /\ At(c, "minted", {"enroll"}) /\ lostAnswers < MaxLostAnswers
        /\ lostAnswers' = lostAnswers + 1
        /\ Append1(req[c].tenant, c, "deny")
        /\ Done(c, "error")
        /\ UNCHANGED acted
     \/ /\ At(c, "refused", {"enroll"})
        /\ Append1(req[c].tenant, c, "deny")
        /\ Done(c, "error")
        /\ UNCHANGED <<acted, lostAnswers>>
  /\ UNCHANGED <<acl, byKey, policies, entries, torn, unwritten, minted, crashes, auditFails>>

(***************************************************************************)
(* The process dies: its requests, logs and index are gone.  A record      *)
(* being appended, to an open log or to one opened for it, may be left in  *)
(* half or without its newline.                                            *)
(***************************************************************************)
Crash ==
  /\ Up /\ crashes < MaxCrashes
  /\ crashes' = crashes + 1
  /\ acl' = <<>> /\ byKey' = <<>>
  /\ cursor' = [t \in Tenants |-> 0]
  /\ req' = [c \in PlaneCallers |-> IF req[c].pc \in {"done", "idle", "denied"} THEN req[c] ELSE [req[c] EXCEPT !.pc = "died"]]
  /\ \/ UNCHANGED <<torn, chain>>
     \/ \E t \in DOMAIN acl :
          /\ Readable(t)
          /\ \/ torn' = torn \cup {Folded[t]} /\ UNCHANGED chain
             \/ /\ chain' = [chain EXCEPT ![Folded[t]] = AddTo(Folded[t], Rec(Open(t), "died", "deny", "bare"))]
                /\ UNCHANGED torn
  /\ UNCHANGED <<policies, entries, fallback, unwritten, minted, acted, auditFails, lostAnswers>>

PlaneInit ==
  /\ acl = <<>> /\ byKey = <<>>
  /\ policies = [f \in Dirs \X Names |-> "none"] /\ entries = {}
  /\ chain = [d \in Dirs |-> <<>>] /\ torn = {} /\ cursor = [t \in Tenants |-> 0]
  /\ fallback = {} /\ unwritten = {}
  /\ req = [c \in PlaneCallers |-> Idle]
  /\ minted = {} /\ acted = {}
  /\ crashes = 0 /\ auditFails = 0 /\ lostAnswers = 0

PlaneNext ==
  \/ Start \/ Crash
  \/ \E c \in PlaneCallers : \/ Authorize(c) \/ PutBegin(c) \/ PutEnd(c) \/ Get(c) \/ Registry(c)
                        \/ EnrollAsk(c) \/ EnrollAnswer(c)

PlaneSpec == PlaneInit /\ [][PlaneNext]_planeVars

(***************************************************************************)
(* Every tenant's audit file is one chain: whatever requests interleave,   *)
(* whichever of authorize and the enroller opens the log first, and after  *)
(* every restart, its records are numbered 1, 2, 3, ..., those that share  *)
(* a line after a crash included (openTenantAudit: "a restart continues    *)
(* the SAME chain rather than resetting to a duplicate genesis").          *)
(***************************************************************************)
OneChain == \A d \in Dirs : \A i \in 1 .. Len(chain[d]) : chain[d][i].seq = i

(***************************************************************************)
(* As long as the access list stays what it is, and across restarts, a key *)
(* changes the stores of one tenant only and a directory is changed for    *)
(* one tenant only (newTenantSet: "a key belongs to exactly one tenant").  *)
(***************************************************************************)
Isolated ==
  \A x, y \in acted : x.list = y.list /\ (x.key = y.key \/ Folded[x.tenant] = Folded[y.tenant]) => x.tenant = y.tenant

(***************************************************************************)
(* A policy file that is whole holds a body ValidatePolicy accepted.       *)
(***************************************************************************)
OnlyValidated == \A f \in DOMAIN policies : policies[f] \in Valid \cup {"none", "torn"}

(***************************************************************************)
(* Whatever a request has changed or been given was recorded first: its    *)
(* allow is in the caller's tenant's chain, in the fallback sink, or is    *)
(* the one whose write failed; and a key reaches a caller only after       *)
(* "issued" was recorded in the same place.  Excepted: the record that is  *)
(* written onto one a crash left without its newline is in the file, on a  *)
(* line that does not parse (openTenantAudit adds no newline).             *)
(***************************************************************************)
Noted(c, what) ==
  \/ <<c, what>> \in fallback
  \/ \E i \in 1 .. Len(chain[Dir(c)]) :
       LET r == chain[Dir(c)][i]
       IN  /\ r.who = c /\ r.what = what
           /\ r.line = "own" \/ (i > 1 /\ chain[Dir(c)][i - 1].who = "died")

Recorded ==
  \A c \in PlaneCallers :
    /\ req[c].pc \in {"allowed", "writing", "minted", "done"} => Noted(c, "allow") \/ c \in unwritten
    /\ req[c].got = "key" => Noted(c, "issued")
    /\ req[c].pc \notin {"idle", "denied"} =>
         \E a \in ACLs : /\ req[c].tenant \in DOMAIN a /\ Request[c].key \in DOMAIN a[req[c].tenant]
                         /\ {RoleOf(Request[c].op), Admin} \cap a[req[c].tenant][Request[c].key] # {}

PlaneHolds == OneChain /\ Isolated /\ OnlyValidated /\ Recorded

-----------------------------------------------------------------------------
(***************************************************************************)
(* The operator front ends: the control room (cmd/meshmcp/room.go) and     *)
(* the MCP control app (cmd/meshmcp/mcpapp.go).  Both answer requests      *)
(* concurrently and drive backends through one pool of reused clients,     *)
(* guarded by a mutex that client() holds while it dials.  The app also    *)
(* launches agents up to a cap, and the room keeps a roster of viewers     *)
(* that beat.                                                              *)
(***************************************************************************)
CONSTANTS RoomRequest,      \* caller -> [op, target, admitted]
          MaxTargets,   \* targets the pool may hold
          Launchers,    \* concurrent air_launch calls
          MaxLaunches,  \* agents one app may launch
          MaxBreaks,    \* connections that die (bound)
          Viewers, MaxViewers, presenceTTL,
          MaxTime,      \* clock bound
          Free          \* the mutex with no holder, a target with no client

VARIABLES pool,      \* target -> the pooled client, or Free
          open,      \* clients whose connection is up
          made,      \* clients dialled so far; a client is its number
          mu,        \* the pool's mutex
          call,      \* caller -> [pc, client, dead]: dead = it failed because its connection was gone
          breaks,
          launches,  \* the app's counter
          launch,    \* launcher -> its place
          viewers,   \* viewer -> lastSeen; absent = -1
          turned,    \* viewers refused although the roster had room
          now
roomVars == <<pool, open, made, mu, call, breaks, launches, launch, viewers, turned, now>>
poolVars == <<pool, open, made, mu, call, breaks>>
launchVars == <<launches, launch>>
viewerVars == <<viewers, turned, now>>

RoomCallers == DOMAIN RoomRequest
Targets == {RoomRequest[c].target : c \in RoomCallers}

RoomInit ==
  /\ pool = [t \in Targets |-> Free] /\ open = {} /\ made = 0 /\ mu = Free
  /\ call = [c \in RoomCallers |-> [pc |-> "new", client |-> 0, dead |-> FALSE]] /\ breaks = 0
  /\ launches = 0 /\ launch = [l \in Launchers |-> "new"]
  /\ viewers = [v \in Viewers |-> -1] /\ turned = {} /\ now = 0
-----------------------------------------------------------------------------
(* The guard in front of every handler: a loopback host, an allowed        *)
(* origin and, for what drives a backend, the room's token.                *)
Admitted(c) == RoomRequest[c].admitted

Pooled == {t \in Targets : pool[t] # Free}

(* client(), its locked part up to the dial.  The mutex stays held while   *)
(* the new client dials and initializes.                                   *)
Client(c) ==
  LET t == RoomRequest[c].target IN
  /\ call[c].pc = "new" /\ Admitted(c) /\ mu = Free
  /\ call' = [call EXCEPT ![c] =
       IF pool[t] # Free THEN [@ EXCEPT !.pc = "asks", !.client = pool[t]]
       ELSE IF Cardinality(Pooled) >= MaxTargets THEN [@ EXCEPT !.pc = "refused"]
       ELSE [@ EXCEPT !.pc = "dials"]]
  /\ mu' = IF call'[c].pc = "dials" THEN c ELSE Free
  /\ UNCHANGED <<pool, open, made, breaks, launchVars, viewerVars>>

(* The dial and Initialize succeed: the client is put in the pool.         *)
Dialled(c) ==
  /\ call[c].pc = "dials"
  /\ made' = made + 1
  /\ open' = open \cup {made'}
  /\ pool' = [pool EXCEPT ![RoomRequest[c].target] = made']
  /\ call' = [call EXCEPT ![c].pc = "asks", ![c].client = made']
  /\ mu' = Free
  /\ UNCHANGED <<breaks, launchVars, viewerVars>>

(* Dial or Initialize fails; a client that was made is closed again.       *)
DialFails(c) ==
  /\ call[c].pc = "dials" /\ breaks < MaxBreaks
  /\ breaks' = breaks + 1
  /\ call' = [call EXCEPT ![c].pc = "refused"] /\ mu' = Free
  /\ UNCHANGED <<pool, open, made, launchVars, viewerVars>>

(* The backend goes away, or closes a connection.                          *)
Break(i) ==
  /\ i \in open /\ breaks < MaxBreaks
  /\ open' = open \ {i} /\ breaks' = breaks + 1
  /\ UNCHANGED <<pool, made, mu, call, launchVars, viewerVars>>

(* A call is answered: with a result or with the backend's refusal.        *)
Answered(c) ==
  /\ call[c].pc = "asks" /\ call[c].client \in open
  /\ call' = [call EXCEPT ![c].pc = "done"]
  /\ UNCHANGED <<pool, open, made, mu, breaks, launchVars, viewerVars>>

(* Who drops its client on an error: every listing and every tool of the   *)
(* app on any error, the room's call only on one that speaks of a closed   *)
(* connection.                                                             *)
Drops(c) == RoomRequest[c].op = "list" \/ call[c].client \notin open

Failed(c) ==
  /\ call[c].pc = "asks"
  /\ call[c].client \in open => breaks < MaxBreaks
  /\ breaks' = IF call[c].client \in open THEN breaks + 1 ELSE breaks
  /\ call' = [call EXCEPT ![c].pc = IF Drops(c) THEN "drops" ELSE "failed",
                           ![c].dead = call[c].client \notin open]
  /\ UNCHANGED <<pool, open, made, mu, launchVars, viewerVars>>

(* drop(): closes and forgets whichever client the pool holds by now.      *)
Drop(c) ==
  LET t == RoomRequest[c].target IN
  /\ call[c].pc = "drops" /\ mu = Free
  /\ open' = open \ {pool[t]} /\ pool' = [pool EXCEPT ![t] = Free]
  /\ call' = [call EXCEPT ![c].pc = "failed"]
  /\ UNCHANGED <<made, mu, breaks, launchVars, viewerVars>>
-----------------------------------------------------------------------------
(* air_launch: the counter goes up first and comes down again when the cap *)
(* is passed or the agent could not be spawned.                            *)
(* (Mutated form: the cap is read before the counter goes up.)             *)
ReserveLate(l) ==
  /\ launch[l] = "new"
  /\ launch' = [launch EXCEPT ![l] = IF launches < MaxLaunches THEN "spawns" ELSE "refused"]
  /\ UNCHANGED <<launches, poolVars, viewerVars>>
Reserve(l) ==
  /\ launch[l] = "new"
  /\ launches' = launches + 1
  /\ launch' = [launch EXCEPT ![l] = IF launches' > MaxLaunches THEN "over" ELSE "spawns"]
  /\ UNCHANGED <<poolVars, viewerVars>>

GiveBack(l) ==
  /\ launch[l] \in {"over", "spawns"}
  /\ launches' = launches - 1
  /\ launch' = [launch EXCEPT ![l] = "refused"]
  /\ UNCHANGED <<poolVars, viewerVars>>

Spawned(l) ==
  /\ launch[l] = "spawns"
  /\ launch' = [launch EXCEPT ![l] = "running"]
  /\ UNCHANGED <<launches, poolVars, viewerVars>>
-----------------------------------------------------------------------------
Swept == [v \in Viewers |-> IF viewers[v] # -1 /\ now - viewers[v] > presenceTTL
                            THEN -1 ELSE viewers[v]]
Listed(vs) == {v \in Viewers : vs[v] # -1}
Living == {v \in Viewers : viewers[v] # -1 /\ now - viewers[v] <= presenceTTL}

(* handlePresence: sweep, then a newcomer needs room; a viewer the roster  *)
(* knows is refreshed whatever the count.                                  *)
Presence(v) ==
  LET fits == Swept[v] # -1 \/ Cardinality(Listed(Swept)) < MaxViewers IN
  /\ viewers' = IF fits THEN [Swept EXCEPT ![v] = now] ELSE Swept
  /\ turned' = IF fits THEN turned ELSE turned \cup {<<v, Living>>}
  /\ UNCHANGED <<now, poolVars, launchVars>>

(* viewerRoster sweeps as well.                                            *)
Roster ==
  /\ viewers' = Swept /\ viewers' # viewers
  /\ UNCHANGED <<turned, now, poolVars, launchVars>>

Tick ==
  /\ now < MaxTime /\ now' = now + 1
  /\ UNCHANGED <<viewers, turned, poolVars, launchVars>>

Calling(c) == Client(c) \/ Dialled(c) \/ DialFails(c) \/ Answered(c) \/ Failed(c) \/ Drop(c)
Launching(l) == Reserve(l) \/ GiveBack(l) \/ Spawned(l)

RoomNext ==
  \/ \E c \in RoomCallers : Calling(c)
  \/ \E i \in open : Break(i)
  \/ \E l \in Launchers : Launching(l)
  \/ \E v \in Viewers : Presence(v)
  \/ Roster
  \/ Tick

RoomSpec == RoomInit /\ [][RoomNext]_roomVars
-----------------------------------------------------------------------------
(* One client per target and none lost: the pool stays within its cap, and *)
(* every connection that is up is the one its target's entry names, so     *)
(* nothing client() opened can be left without a way to close it.          *)
OnePooled ==
  /\ Cardinality(Pooled) <= MaxTargets
  /\ open \subseteq {pool[t] : t \in Pooled}

(* A dead client does not stay: once a call on it has failed and returned, *)
(* the pool no longer hands that client out.                               *)
DeadForgotten ==
  \A c \in RoomCallers : call[c].pc = "failed" /\ call[c].dead
                     => pool[RoomRequest[c].target] # call[c].client

(* The launch cap holds however launches overlap, and the counter never    *)
(* falls below the agents that run.                                        *)
LaunchesCapped ==
  /\ Cardinality({l \in Launchers : launch[l] = "running"}) <= MaxLaunches
  /\ launches >= Cardinality({l \in Launchers : launch[l] = "running"})

(* A newcomer is turned away only by living viewers.                       *)
TurnedByTheLiving == \A t \in turned : Cardinality(t[2]) >= MaxViewers

(* The front ends' promises together (room.go and mcpapp.go: client, drop, *)
(* toolAirLaunch, handlePresence).                                         *)
RoomHolds == OnePooled /\ DeadForgotten /\ LaunchesCapped /\ TurnedByTheLiving

=============================================================================
