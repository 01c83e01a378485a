------------------------------ MODULE Daemons -------------------------------
(***************************************************************************)
(* The two daemons from start to stop: the gateway with its reloads and    *)
(* its shutdown, and the edge server with its keys, its listeners and its  *)
(* restarts. Each part is a specification of its own, with its own initial *)
(* state and next-state relation; a behaviour is a behaviour of one of     *)
(* them.                                                                   *)
(***************************************************************************)
EXTENDS Integers, Sequences, FiniteSets

-----------------------------------------------------------------------------
(* The gateway process (cmd/meshmcp/serve.go, config.go, acl.go,             *)
(* httppolicy.go, registry/registry.go): a configuration is loaded and       *)
(* checked, every backend gets its listener, its ledger, its engine and an   *)
(* accept loop; SIGHUP loads the file again and swaps policies and admission *)
(* lists under the running loops; a signal, or a start that fails half way,  *)
(* takes everything down.                                                    *)
CONSTANTS
    Config,               \* version -> configuration, among them some that do not load
    First,                \* the version the process is started with
    Peers,
    MaxEdits,             \* bound on edits of the file
    MaxCalls,             \* bound on calls
    Taken                 \* ports another process of the mesh peer already holds

VARIABLES
    file,                 \* the version on disk
    pc,                   \* cmdServe: "load", "listen", "serve", "stop", "wait", "flush", "done"
    at,                   \* the backend the start-up loop is at
    cfg,                  \* the version that was loaded
    ports,                \* open listeners
    loops,                \* accept loops that wg waits for
    registered,           \* names in the file registry
    acl, eng,             \* per backend: the admission list, the engine's policy or "none"
    ledger, flushes,      \* per backend: "none", "shared" or "own"; auditLogs
    applied,              \* the version whose policies and lists are in force
    hup,                  \* reloadPolicies: [pc, ver, at]
    open,                 \* sessions <<peer, backend>>
    undecided,            \* backends that served a call no engine decided
    unsealed,             \* ledgers with records from before the shutdown, not yet sealed
    edits, calls

gatewayVars == <<file, pc, at, cfg, ports, loops, registered, acl, eng, ledger, flushes,
                 applied, hup, open, undecided, unsealed, edits, calls>>
runVars == <<registered, acl, eng, ledger, flushes>>
useVars == <<open, undecided, unsealed, calls>>

Control == "control"
Backends(c) == Config[c].backends
Names(c) == {Backends(c)[i].name : i \in DOMAIN Backends(c)}
NamesEver == UNION {Names(c) : c \in DOMAIN Config}
Named(c, n) == CHOOSE b \in {Backends(c)[i] : i \in DOMAIN Backends(c)} : b.name = n

-----------------------------------------------------------------------------
(* loadConfig.  A backend is [name, port, kind, allow, policy, caps,         *)
(* resumable, store, mode, failover, sweep, move, grants, has, ok]: "ok"     *)
(* says that each of its fields parses by itself, "has" names the optional   *)
(* blocks it carries.                                                        *)
Governs(b) == b.policy # "none" \/ b.caps # "none"
KindOK(b) == (b.resumable => b.kind = "stdio") /\ (b.store # "none" => b.resumable)
             /\ ("wrapper" \in b.has => b.kind = "stdio")
SessionOK(b) ==
    /\ b.failover = "standby" => b.resumable /\ b.store = "pg"
    /\ b.sweep # 0 => b.failover = "standby" /\ b.sweep >= 5
MoveOK(b) ==
    IF b.move # 0 THEN b.resumable /\ b.store # "none" /\ b.mode # "full" /\ b.grants
    ELSE ~b.grants
GovernanceOK(b) ==
    /\ b.has \cap {"dlp", "shadow"} # {} => b.kind = "stdio" /\ b.policy # "none"
    /\ b.has \cap {"cosign", "checkpoints"} # {} => b.policy # "none"
    /\ "approval" \in b.has => "cosign" \in b.has
CapabilitiesOK(b) ==
    /\ b.caps = "optional" => b.policy = "deny"
    /\ "delegation" \in b.has => b.kind = "stdio" /\ b.policy # "none"
    /\ "secrets" \in b.has => b.policy # "none"
AuditOK(b) == ("checkpoints" \in b.has => "signkey" \in b.has) /\ ("anchor" \in b.has => "checkpoints" \in b.has)
BackendOK(b) == b.ok /\ b.port # 0 /\ KindOK(b) /\ SessionOK(b) /\ MoveOK(b) /\ GovernanceOK(b)
                /\ CapabilitiesOK(b) /\ AuditOK(b)

(* The map "seen" holds the ports of the backends before this one, their    *)
(* move ports included, and at last the control port is looked up in it.    *)
Seen(bs, i) == {bs[j].port : j \in 1..(i - 1)} \cup ({bs[j].move : j \in 1..(i - 1)} \ {0})
PortsOK(bs) ==
    \A i \in DOMAIN bs :
        /\ bs[i].port \notin Seen(bs, i)
        /\ bs[i].move # 0 => bs[i].move \notin Seen(bs, i) \cup {bs[i].port}
        /\ \A j \in 1..(i - 1) : bs[i].name # bs[j].name
ControlOK(c) ==
    LET k == Config[c].control IN
    /\ k.port # 0 => k.port \notin Seen(Backends(c), Len(Backends(c)) + 1) /\ k.allow # {}
    /\ Config[c].oidc => k.port # 0
Loads(c) ==
    /\ Backends(c) # <<>> /\ PortsOK(Backends(c)) /\ ControlOK(c)
    /\ \A i \in DOMAIN Backends(c) : BackendOK(Backends(c)[i])

-----------------------------------------------------------------------------
GatewayInit ==
    /\ file = First /\ pc = "load" /\ at = 1 /\ cfg = First /\ ports = {} /\ loops = {}
    /\ registered = {} /\ acl = [n \in NamesEver |-> {}] /\ eng = [n \in NamesEver |-> "none"]
    /\ ledger = [n \in NamesEver |-> "none"] /\ flushes = {} /\ applied = First
    /\ hup = [pc |-> "idle", ver |-> First, at |-> 0]
    /\ open = {} /\ undecided = {} /\ unsealed = {} /\ edits = 0 /\ calls = 0

(* cmdServe up to the backends: an unloadable file ends it; the backends     *)
(* are put into the registry, the shared ledger is opened.                   *)
Load ==
    /\ pc = "load"
    /\ IF Loads(file)
         THEN /\ pc' = "listen" /\ cfg' = file /\ applied' = file /\ registered' = Names(file)
              /\ acl' = [n \in NamesEver |-> IF n \in Names(file) THEN Named(file, n).allow ELSE {}]
              /\ flushes' = IF Config[file].shared THEN {"shared"} ELSE {}
         ELSE pc' = "done" /\ UNCHANGED <<cfg, applied, registered, acl, flushes>>
    /\ UNCHANGED <<file, at, ports, loops, eng, ledger, hup, useVars, edits>>

(* resolveBackendAudit.                                                      *)
Ledger(b) == IF ~Governs(b) THEN "none" ELSE IF Config[cfg].shared THEN "shared" ELSE "own"
(* backendFactory and newHTTPEnforcer: capabilities alone get an engine that *)
(* denies by default.                                                        *)
Engine(b) == IF b.policy # "none" THEN b.policy ELSE IF b.caps # "none" THEN "deny" ELSE "none"
Ports(b) == {b.port} \cup (IF b.move # 0 THEN {b.move} ELSE {})

(* A start that fails: the listeners opened so far are closed and the loops *)
(* waited for.  (Mutated form: they are not waited for.)                    *)
AbandonNow == pc' = "done" /\ ports' = {} /\ registered' = {}
Abandon == pc' = "stop" /\ UNCHANGED <<ports, registered>>

(* One backend: listener, move listener and grant store, ledger, engine or  *)
(* remote client, and its goroutine.  Anything but the goroutine may fail.  *)
StartBackend ==
    LET b == Backends(cfg)[at] IN
    /\ pc = "listen" /\ at <= Len(Backends(cfg))
    /\ \/ /\ Ports(b) \cap (ports \cup Taken) = {}
          /\ ports' = ports \cup Ports(b) /\ loops' = loops \cup {b.name} /\ at' = at + 1
          /\ ledger' = [ledger EXCEPT ![b.name] = Ledger(b)] /\ eng' = [eng EXCEPT ![b.name] = Engine(b)]
          /\ flushes' = IF Ledger(b) = "own" THEN flushes \cup {b.name} ELSE flushes
          /\ UNCHANGED <<pc, registered>>
       \/ Abandon /\ UNCHANGED <<loops, at, ledger, eng, flushes>>
    /\ UNCHANGED <<file, cfg, acl, applied, hup, useVars, edits>>
StartControl ==
    LET k == Config[cfg].control IN
    /\ pc = "listen" /\ at > Len(Backends(cfg))
    /\ \/ k.port = 0 /\ pc' = "serve" /\ UNCHANGED <<ports, loops, registered>>
       \/ /\ k.port # 0 /\ k.port \notin ports \cup Taken /\ pc' = "serve"
          /\ ports' = ports \cup {k.port} /\ loops' = loops \cup {Control} /\ UNCHANGED registered
       \/ k.port # 0 /\ Abandon /\ UNCHANGED loops
    /\ UNCHANGED <<file, at, cfg, acl, eng, ledger, flushes, applied, hup, useVars, edits>>

-----------------------------------------------------------------------------
(* An accept loop admits a peer by the list in force (acl.allows: an empty  *)
(* one admits every peer) and leaves the session to a goroutine of its own. *)
Admits(n, p) == acl[n] = {} \/ p \in acl[n]
Admit(p, n) ==
    /\ n \in loops \ {Control} /\ Named(cfg, n).port \in ports
    /\ <<p, n>> \notin open /\ Admits(n, p) /\ open' = open \cup {<<p, n>>}
    /\ UNCHANGED <<file, pc, at, cfg, ports, loops, runVars, applied, hup, undecided, unsealed, edits, calls>>
(* A call: decided by the engine the sessions share, and recorded.  After   *)
(* cmdServe returned there is no process.                                    *)
Call(p, n) ==
    /\ <<p, n>> \in open /\ calls < MaxCalls /\ calls' = calls + 1 /\ pc # "done"
    /\ undecided' = IF eng[n] = "none" THEN undecided \cup {n} ELSE undecided
    /\ unsealed' = IF pc \in {"listen", "serve"} /\ ledger[n] # "none"
                   THEN unsealed \cup {IF ledger[n] = "own" THEN n ELSE "shared"} ELSE unsealed
    /\ UNCHANGED <<file, pc, at, cfg, ports, loops, runVars, applied, hup, open, edits>>
Hangup(p, n) ==
    /\ <<p, n>> \in open /\ open' = open \ {<<p, n>>}
    /\ UNCHANGED <<file, pc, at, cfg, ports, loops, runVars, applied, hup, undecided, unsealed, edits, calls>>

-----------------------------------------------------------------------------
Edit(c) ==
    /\ edits < MaxEdits /\ edits' = edits + 1 /\ c # file /\ file' = c
    /\ UNCHANGED <<pc, at, cfg, ports, loops, runVars, applied, hup, useVars>>

(* reloadPolicies: a file that does not load changes nothing; otherwise     *)
(* each backend of it that runs gets its new list and, if it has an engine, *)
(* its new policy, and the control lists come last.                         *)
Hup ==
    /\ pc = "serve" /\ hup.pc = "idle" /\ Loads(file)
    /\ hup' = [pc |-> "swap", ver |-> file, at |-> 1]
    /\ UNCHANGED <<file, pc, at, cfg, ports, loops, runVars, applied, useVars, edits>>
Swaps(b) ==
    /\ acl' = IF b.name \in Names(cfg) THEN [acl EXCEPT ![b.name] = b.allow] ELSE acl
    /\ eng' = IF b.name \in Names(cfg) /\ eng[b.name] # "none"
              THEN [eng EXCEPT ![b.name] = IF b.policy = "none" THEN "deny" ELSE b.policy] ELSE eng
Swap ==
    /\ hup.pc = "swap" /\ hup.at <= Len(Backends(hup.ver)) /\ Swaps(Backends(hup.ver)[hup.at])
    /\ hup' = [hup EXCEPT !.at = @ + 1]
    /\ UNCHANGED <<file, pc, at, cfg, ports, loops, registered, ledger, flushes, applied, useVars, edits>>
Swapped ==
    /\ hup.pc = "swap" /\ hup.at > Len(Backends(hup.ver))
    /\ hup' = [hup EXCEPT !.pc = "idle"] /\ applied' = hup.ver
    /\ UNCHANGED <<file, pc, at, cfg, ports, loops, runVars, useVars, edits>>

-----------------------------------------------------------------------------
(* The signal, handled by the goroutine that reloads; then listeners are    *)
(* closed one by one, the loops waited for, the ledgers sealed, and the     *)
(* deferred calls take the backends out of the registry.                    *)
GatewaySignal ==
    /\ pc = "serve" /\ hup.pc = "idle" /\ pc' = "stop"
    /\ UNCHANGED <<file, at, cfg, ports, loops, runVars, applied, hup, useVars, edits>>
CloseListener(q) ==
    /\ pc = "stop" /\ q \in ports /\ ports' = ports \ {q}
    /\ UNCHANGED <<file, pc, at, cfg, loops, runVars, applied, hup, useVars, edits>>
(* An accept loop returns when its listeners are closed (serveResumable     *)
(* waits for the loop of the move listener).                                *)
LoopEnds(n) ==
    /\ n \in loops /\ loops' = loops \ {n}
    /\ (IF n = Control THEN {Config[cfg].control.port} ELSE Ports(Named(cfg, n))) \cap ports = {}
    /\ UNCHANGED <<file, pc, at, cfg, ports, runVars, applied, hup, useVars, edits>>
Wait ==
    /\ pc = "stop" /\ ports = {} /\ loops = {} /\ pc' = "flush"
    /\ UNCHANGED <<file, at, cfg, ports, loops, runVars, applied, hup, useVars, edits>>
Sealed == flushes
Flush ==
    /\ pc = "flush" /\ pc' = "done" /\ registered' = {}
    /\ unsealed' = IF at > Len(Backends(cfg)) THEN unsealed \ Sealed ELSE unsealed
    /\ UNCHANGED <<file, at, cfg, ports, loops, acl, eng, ledger, flushes, applied, hup, open, undecided, edits, calls>>

Shutdown == (\E q \in ports : CloseListener(q)) \/ (\E n \in loops : LoopEnds(n)) \/ Wait \/ Flush
GatewayNext ==
    \/ Load \/ StartBackend \/ StartControl \/ Hup \/ Swap \/ Swapped \/ GatewaySignal \/ Shutdown
    \/ \E c \in DOMAIN Config : Edit(c)
    \/ \E p \in Peers, n \in NamesEver : Admit(p, n) \/ Call(p, n) \/ Hangup(p, n)

-----------------------------------------------------------------------------
(* Whatever cmdServe returns from, it leaves nothing behind: no listener,   *)
(* no accept loop, no entry in the registry.                                *)
LeavesNothing == pc = "done" => ports = {} /\ loops = {} /\ registered = {}

(* A configuration that loads never competes with itself for a port, and    *)
(* a move listener has the store and the grants behind it ("Config          *)
(* validation guarantees move_port => resumable + session_store +           *)
(* move_grant_store", serve.go:225-226).                                    *)
StartsAsLoaded ==
    pc = "listen" =>
        /\ at <= Len(Backends(cfg)) => Ports(Backends(cfg)[at]) \cap ports = {}
        /\ at > Len(Backends(cfg)) => Config[cfg].control.port \notin ports
        /\ \A i \in 1..(at - 1) : Backends(cfg)[i].move # 0 => Backends(cfg)[i].store # "none" /\ Backends(cfg)[i].grants

(* A backend with a policy or with capabilities serves no call that no      *)
(* engine decided, over stdio, HTTP or remote (backendFactory,              *)
(* newHTTPEnforcer).                                                        *)
AllDecided == \A n \in undecided : ~Governs(Named(cfg, n))

(* Between reloads, what is in force is what the last file that loaded says,*)
(* for the lists of every running backend and the policy of every engine    *)
(* (reloadPolicies: "a config that no longer loads (a bad edit) leaves every*)
(* running policy and ACL untouched").                                      *)
InForce ==
    (pc = "serve" /\ hup.pc = "idle") =>
        /\ Loads(applied)
        /\ \A n \in Names(cfg) \cap Names(applied) :
              /\ acl[n] = Named(applied, n).allow
              /\ eng[n] # "none" => eng[n] = (IF Named(applied, n).policy = "none" THEN "deny" ELSE Named(applied, n).policy)

(* A clean shutdown seals every record made before it, in whichever ledger  *)
(* (cmdServe, resolveBackendAudit).                                         *)
RecordsSealed == pc = "done" /\ at > Len(Backends(cfg)) => unsealed = {}

GatewayHolds == LeavesNothing /\ StartsAsLoaded /\ AllDecided /\ InForce /\ RecordsSealed

-----------------------------------------------------------------------------
(***************************************************************************)
(* The life of a `meshmcp edge` process: which configurations are accepted *)
(* (edge/config.go), what is opened before it listens (cmd/meshmcp/edge.go,*)
(* edge/server.go, edge/acme.go, edge/audit.go), the signing key it may    *)
(* generate, the records it stores (edge/store.go), its ways in (own TLS,  *)
(* a beacon tunnel, plain HTTP behind a front), the orderly stop with its  *)
(* ten seconds, and crashes and restarts on the same state directory.      *)
(***************************************************************************)
CONSTANTS
  Procs,        \* edge processes started on one state directory
  Configs,      \* the configurations an operator may write
  MaxTTL,       \* maxAccessTokenTTL
  DefaultTTL,   \* [access, refresh]
  MaxKeys, MaxTokens, MaxRecords, MaxRequests, MaxFaults, MaxStarts

VARIABLES
  edgeCfg,        \* the configuration file
  proc,       \* process -> [pc, key, tls, open, cut]
  keyFile,    \* NoKey, TornKey or the number of a key
  keys,       \* keys generated so far
  port,       \* the process that has the listening port, or "free"
  tokens,     \* history: the keys that signed a token
  edgeLedger,     \* the audit ledger: a sequence of "rec" and "torn"
  store,      \* the record of one client: [file, tmp]: its version (or Torn), and the process about to replace it
  acked,      \* history: the newest version confirmed to a caller
  late,       \* history: an orderly stop ran out of its ten seconds
  faults, starts

edgeVars == <<edgeCfg, proc, keyFile, keys, port, tokens, edgeLedger, store, acked, late, faults, starts>>
Off == [pc |-> "off", key |-> 0, tls |-> "none", open |-> 0, cut |-> 0]
Serving(p) == proc[p].pc = "serving"
NoKey == 0
TornKey == MaxKeys + 1
Torn == MaxTokens + 1

(***************************************************************************)
(* Config.withDefaults and Validate.  listen: none, loopback, public;      *)
(* beacon: none, bare, auto, autoNoMail; files: none, one, both; acme:     *)
(* none, covers, other (does not list the host of public_url).             *)
(***************************************************************************)
withDefaults(c) ==
  [c EXCEPT !.mode = IF @ = "" THEN "open-approval" ELSE @,
            !.access = IF @ = 0 THEN DefaultTTL.access ELSE @,
            !.refresh = IF @ = 0 THEN DefaultTTL.refresh ELSE @]

hasFiles(c) == c.files # "none"
hasAuto(c) == c.beacon \in {"auto", "autoNoMail"}

BeaconOK(c) == ~c.behind /\ c.acme = "none" /\ hasFiles(c) # hasAuto(c) /\ c.beacon # "autoNoMail"

BehindFrontOK(c) == ~hasFiles(c) /\ c.acme = "none" /\ c.listen = "loopback"


OwnTLSOK(c) ==
  /\ hasFiles(c) # (c.acme # "none")
  /\ hasFiles(c) => c.files = "both"
  /\ c.acme # "none" => c.acme = "covers"

IngressOK(c) ==
  CASE c.beacon # "none" -> BeaconOK(c)
    [] c.beacon = "none" /\ c.behind -> BehindFrontOK(c)
    [] OTHER -> OwnTLSOK(c)

Validate(raw) ==
  LET c == withDefaults(raw) IN
  /\ c.listen # "none" \/ c.beacon # "none"
  /\ IngressOK(c)
  /\ \/ c.mode = "open-approval"
     \/ c.mode = "token" /\ c.iats > 0
  /\ c.access <= MaxTTL /\ c.refresh >= c.access
  /\ ~c.defaultAllow

(***************************************************************************)
(* cmdEdge up to edge.New.  In beacon mode the key must exist already: the *)
(* public name is derived from it.                                         *)
(***************************************************************************)
Ends(p, q) == proc' = [proc EXCEPT ![p] = q]
To(p, stage) == Ends(p, [proc[p] EXCEPT !.pc = stage])
Keeps == UNCHANGED <<edgeCfg, keys, tokens, store, acked, late>>

Start(p) ==
  /\ proc[p].pc = "off" /\ starts < MaxStarts /\ starts' = starts + 1
  /\ IF edgeCfg.beacon = "none" THEN To(p, "new")
     ELSE IF keyFile \in {NoKey, TornKey} THEN To(p, "failed")
     ELSE Ends(p, [Off EXCEPT !.pc = "dial", !.key = keyFile])
  /\ UNCHANGED <<keyFile, port, edgeLedger, faults>> /\ Keeps

(* beacon.Dial: it fails, or the name it assigns is another one. *)
DialBeacon(p) ==
  /\ proc[p].pc = "dial"
  /\ \/ To(p, "new") /\ UNCHANGED faults
     \/ faults < MaxFaults /\ faults' = faults + 1 /\ To(p, "failed")
  /\ UNCHANGED <<keyFile, port, edgeLedger, starts>> /\ Keeps

(***************************************************************************)
(* edge.New: validate, load or generate the key, open the ledger and the   *)
(* stores.                                                                 *)
(***************************************************************************)
Generates == keyFile = NoKey /\ edgeCfg.autogen

LoadSigner(p) ==
  /\ proc[p].pc = "new"
  /\ IF ~Validate(edgeCfg) THEN To(p, "failed")
     ELSE IF proc[p].key # 0 THEN To(p, "ledger")
     ELSE IF Generates THEN To(p, "generate")
     ELSE IF keyFile \in {NoKey, TornKey} THEN To(p, "failed")
     ELSE Ends(p, [proc[p] EXCEPT !.pc = "ledger", !.key = keyFile])
  /\ UNCHANGED <<keyFile, port, edgeLedger, faults, starts>> /\ Keeps

(* os.WriteFile truncates the file, then fills it.                         *)
SaveSignerOpen(p) ==
  /\ proc[p].pc = "generate" /\ keys < MaxKeys
  /\ keys' = keys + 1
  /\ \/ keyFile' = TornKey /\ Ends(p, [proc[p] EXCEPT !.pc = "save", !.key = keys']) /\ UNCHANGED faults
     \/ /\ faults < MaxFaults /\ faults' = faults + 1
        /\ To(p, "failed") /\ UNCHANGED keyFile
  /\ UNCHANGED <<edgeCfg, port, tokens, edgeLedger, store, acked, late, starts>>

SaveSigner(p) ==
  /\ proc[p].pc = "save"
  /\ \/ keyFile' = proc[p].key /\ To(p, "ledger") /\ UNCHANGED faults
     \/ /\ faults < MaxFaults /\ faults' = faults + 1
        /\ To(p, "failed") /\ UNCHANGED keyFile
  /\ UNCHANGED <<port, edgeLedger, starts>> /\ Keeps

(* seedEdgeAudit drops an incomplete last record and refuses any other break. *)
Repaired == IF edgeLedger # <<>> /\ edgeLedger[Len(edgeLedger)] = "torn" THEN SubSeq(edgeLedger, 1, Len(edgeLedger) - 1) ELSE edgeLedger

openAuditLedger(p) ==
  /\ proc[p].pc = "ledger"
  /\ edgeLedger' = Repaired
  /\ IF \E i \in 1..(Len(edgeLedger) - 1) : edgeLedger[i] = "torn" THEN To(p, "failed") ELSE To(p, "stores")
  /\ UNCHANGED <<keyFile, port, faults, starts>> /\ Keeps

(* The rest of New: the stores of clients, requests, codes and tokens are  *)
(* opened; a replay store that is configured has to be supplied.           *)
OpenStores(p) ==
  /\ proc[p].pc = "stores"
  /\ \/ To(p, "tls") /\ UNCHANGED faults
     \/ faults < MaxFaults /\ faults' = faults + 1 /\ To(p, "failed")
  /\ UNCHANGED <<keyFile, port, edgeLedger, starts>> /\ Keeps

(***************************************************************************)
(* buildTLSConfig: "auto" through the beacon's DNS, the operator's files,  *)
(* or ACME; an ACME block that is not there would be dereferenced.         *)
(***************************************************************************)
TlsOf(c) ==
  CASE c.beacon # "none" /\ hasAuto(c) -> "auto"
    [] ~(c.beacon # "none" /\ hasAuto(c)) /\ hasFiles(c) -> IF c.files = "both" THEN "files" ELSE "broken"
    [] OTHER -> IF c.acme = "none" THEN "nil" ELSE "acme"

buildTLSConfig(p) ==
  /\ proc[p].pc = "tls"
  /\ \/ /\ edgeCfg.behind /\ edgeCfg.beacon = "none"
        /\ Ends(p, [proc[p] EXCEPT !.pc = "listen", !.tls = "plain"]) /\ UNCHANGED faults
     \/ /\ ~(edgeCfg.behind /\ edgeCfg.beacon = "none")
        /\ Ends(p, [proc[p] EXCEPT !.tls = TlsOf(edgeCfg),
                                   !.pc = IF TlsOf(edgeCfg) = "nil" THEN "panic" ELSE IF TlsOf(edgeCfg) = "broken" THEN "failed"
                                          ELSE "listen"])
        /\ UNCHANGED faults
     \/ /\ TlsOf(edgeCfg) \in {"auto", "acme"} /\ ~edgeCfg.behind       \* ManageSync fails or times out
        /\ faults < MaxFaults /\ faults' = faults + 1 /\ To(p, "failed")
  /\ UNCHANGED <<keyFile, port, edgeLedger, starts>> /\ Keeps

(* net.Listen, or the tunnel that is open already. *)
Listen(p) ==
  /\ proc[p].pc = "listen"
  /\ IF edgeCfg.beacon = "none" /\ port # "free"
       THEN To(p, "failed") /\ UNCHANGED port
       ELSE To(p, "serving") /\ port' = IF edgeCfg.beacon = "none" THEN p ELSE port
  /\ UNCHANGED <<keyFile, edgeLedger, faults, starts>> /\ Keeps

(***************************************************************************)
(* What the open edge does: requests come and go, one may be answered with *)
(* a token, and a record or a line of the ledger is written.               *)
(***************************************************************************)
Request(p) ==
  /\ Serving(p) /\ proc[p].open < MaxRequests
  /\ Ends(p, [proc[p] EXCEPT !.open = @ + 1])
  /\ UNCHANGED <<keyFile, port, edgeLedger, faults, starts>> /\ Keeps

Respond(p) ==
  /\ proc[p].pc \in {"serving", "stopping"} /\ proc[p].open > (IF store.tmp = p THEN 1 ELSE 0)
  /\ Ends(p, [proc[p] EXCEPT !.open = @ - 1])
  /\ tokens' = tokens \cup {proc[p].key}
  /\ UNCHANGED <<edgeCfg, keyFile, keys, port, edgeLedger, store, acked, late, faults, starts>>

AppendRecord(p) ==
  /\ Serving(p) /\ proc[p].open > 0 /\ Len(edgeLedger) < MaxRecords
  /\ edgeLedger' = Append(edgeLedger, "rec")
  /\ UNCHANGED <<proc, keyFile, port, faults, starts>> /\ Keeps

(* writeAtomicJSON: a temporary file, synced, then renamed.                  *)
WriteTmp(p) ==
  /\ Serving(p) /\ proc[p].open > 0 /\ acked < MaxTokens /\ store.tmp = "none"
  /\ store' = [store EXCEPT !.tmp = p]
  /\ UNCHANGED <<edgeCfg, proc, keyFile, keys, port, tokens, edgeLedger, acked, late, faults, starts>>

Rename(p) ==
  /\ proc[p].pc \in {"serving", "stopping"} /\ proc[p].open > 0 /\ store.tmp = p
  /\ store' = [file |-> acked + 1, tmp |-> "none"] /\ acked' = acked + 1
  /\ UNCHANGED <<edgeCfg, proc, keyFile, keys, port, tokens, edgeLedger, late, faults, starts>>

(***************************************************************************)
(* The signal: Shutdown closes the listener and waits for the requests in  *)
(* flight, ten seconds at most.  (Mutated form: it does not wait.)         *)
(***************************************************************************)
Forgets(p) == store' = [store EXCEPT !.tmp = IF @ = p THEN "none" ELSE @]   \* a temporary file left behind is never read
Frees(p) == port' = IF port = p THEN "free" ELSE port

EdgeSignal(p) ==
  /\ Serving(p) /\ To(p, "stopping") /\ Frees(p)
  /\ UNCHANGED <<keyFile, edgeLedger, faults, starts>> /\ Keeps

Stopped(p) == proc[p].open = 0

Stop(p) ==
  /\ proc[p].pc = "stopping" /\ Stopped(p)
  /\ Ends(p, [proc[p] EXCEPT !.pc = "stopped", !.cut = proc[p].open])
  /\ Forgets(p)
  /\ UNCHANGED <<edgeCfg, keyFile, keys, port, tokens, edgeLedger, acked, late, faults, starts>>

TimesOut(p) ==
  /\ proc[p].pc = "stopping" /\ proc[p].open > 0
  /\ Ends(p, [proc[p] EXCEPT !.pc = "stopped", !.cut = proc[p].open]) /\ late' = TRUE
  /\ Forgets(p)
  /\ UNCHANGED <<edgeCfg, keyFile, keys, port, tokens, edgeLedger, acked, faults, starts>>

(* The process dies anywhere, perhaps in the middle of a line of the ledger. *)
Crash(p) ==
  /\ proc[p].pc \notin {"off", "failed", "stopped", "panic"}
  /\ faults < MaxFaults /\ faults' = faults + 1
  /\ Ends(p, Off) /\ Frees(p)
  /\ \/ UNCHANGED edgeLedger
     \/ Serving(p) /\ Len(edgeLedger) < MaxRecords /\ edgeLedger' = Append(edgeLedger, "torn")
  /\ Forgets(p)
  /\ UNCHANGED <<edgeCfg, keyFile, keys, tokens, acked, late, starts>>

Restart(p) ==
  /\ proc[p].pc \in {"failed", "stopped"} /\ starts < MaxStarts
  /\ Ends(p, Off)
  /\ UNCHANGED <<keyFile, port, edgeLedger, faults, starts>> /\ Keeps

EdgeInit ==
  /\ edgeCfg \in Configs
  /\ proc = [p \in Procs |-> Off]
  /\ keys \in {0, 1} /\ keyFile = keys       \* no key yet, or one the operator made
  /\ port = "free" /\ tokens = {} /\ edgeLedger = <<>>
  /\ store = [file |-> 0, tmp |-> "none"] /\ acked = 0 /\ late = FALSE
  /\ faults = 0 /\ starts = 0

EdgeNext ==
  \E p \in Procs :
    \/ Start(p) \/ DialBeacon(p) \/ LoadSigner(p) \/ SaveSignerOpen(p) \/ SaveSigner(p) \/ openAuditLedger(p)
    \/ OpenStores(p) \/ buildTLSConfig(p) \/ Listen(p) \/ Request(p) \/ Respond(p) \/ AppendRecord(p) \/ WriteTmp(p) \/ Rename(p)
    \/ EdgeSignal(p) \/ Stop(p) \/ TimesOut(p) \/ Crash(p) \/ Restart(p)

Spec == EdgeInit /\ [][EdgeNext]_edgeVars

Sources(c) == {s \in {"files", "auto", "acme"} :
  CASE s = "files" -> c.files # "none" [] s = "auto" -> c.beacon = "auto" [] s = "acme" -> c.acme # "none"}

(***************************************************************************)
(* Whatever configuration it was given, an edge that serves does so in     *)
(* exactly one way: plain HTTP only behind a front and only on loopback,   *)
(* otherwise TLS from the one source that is configured, which covers the  *)
(* public host; and it never gets to a certificate source that is not      *)
(* there (Config.Validate against buildTLSConfig and Run).                 *)
(***************************************************************************)
OneWayIn ==
  \A p \in Procs :
    /\ proc[p].pc # "panic"
    /\ Serving(p) =>
         /\ proc[p].tls = "plain" => edgeCfg.listen = "loopback" /\ edgeCfg.behind
         /\ proc[p].tls # "plain" => ~edgeCfg.behind /\ Cardinality(Sources(edgeCfg)) = 1
         /\ proc[p].tls \in {"plain", "files", "auto", "acme"}
         /\ proc[p].tls = "acme" => edgeCfg.acme = "covers"

(***************************************************************************)
(* A token outlives the process that signed it: whatever edge serves later *)
(* on the same directory verifies it with the same key, a key generated at *)
(* the first start and a crash while saving it included                    *)
(* (loadOrGenerateSigner, SaveSigner).                                     *)
(***************************************************************************)
TokensVerify == \A p \in Procs : Serving(p) => \A k \in tokens : k = proc[p].key

(***************************************************************************)
(* After any crash the ledger still reads as whole records, except perhaps *)
(* its last line, and the record of a client is the newest confirmed one   *)
(* (seedEdgeAudit, writeAtomicJSON).                                       *)
(***************************************************************************)
StateWhole ==
  /\ \A i \in 1..(Len(edgeLedger) - 1) : edgeLedger[i] = "rec"
  /\ store.file = acked

(* A request is cut off only by a crash or by a stop that took its ten seconds (Run, Shutdown). *)
CutOnlyLate == \A p \in Procs : proc[p].cut > 0 => late

EdgeLifeHolds == OneWayIn /\ TokensVerify /\ StateWhole /\ CutOnlyLate

=============================================================================
