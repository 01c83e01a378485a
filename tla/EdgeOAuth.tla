------------------------------ MODULE EdgeOAuth ------------------------------
(* The OAuth side of the edge (edge/register.go, authorize.go, token.go and *)
(* their file stores): registration with its quota, authorization requests  *)
(* that an operator decides, single-use codes, and refresh tokens that      *)
(* rotate within a family.  A record is a file, read and written whole.     *)
(* The keyed locks are those of one process; the operator's commands are    *)
(* another process and do not share them.  What a request presents beside   *)
(* a code or token (client_id, redirect_uri, verifier) matches or does not. *)
EXTENDS Integers, FiniteSets

CONSTANTS
    Clients, Reqs,
    Handlers, Proc,       \* requests in progress, and the daemon each runs in
    Mode, Quota,          \* "open-approval" | "token"; MaxPending resp. MaxClients
    Grace,                \* refreshReplayGrace
    TTL,                  \* AuthzPendingTTL, codeTTL and RefreshTokenTTL
    Stored,               \* clients whose tokens an earlier daemon left
    Does,                 \* the operations this instance considers
    MaxCodes, MaxTokens, MaxTime, MaxDecisions,
    Nil

VARIABLES
    clientRec,            \* clients/: client -> status
    authz,                \* authz/: request -> record
    codes,                \* codes/: number -> record, Nil once claimed
    access, refresh,      \* tokens/: number -> record
    issued, minted,       \* codes and token sets issued so far
    hnd,                  \* requests in progress
    opr,                  \* the operator's command
    time,
    approvals,            \* history: approvals written for a request
    given,                \* history: codes returned for a request
    redeemed,             \* history: <<code, family>> returned by the token endpoint
    rotations,            \* history: <<token, successor>> returned
    swept,                \* families and clients whose tokens were revoked
    decisions

edgeVars == <<clientRec, authz, codes, access, refresh, issued, minted, hnd, opr, time,
              approvals, given, redeemed, rotations, swept, decisions>>
stores == <<clientRec, authz, codes, access, refresh>>
history == <<approvals, given, redeemed, rotations, swept, decisions>>

Tokens == 1..MaxTokens
Idle == [pc |-> "idle", key |-> 0, rec |-> Nil, n |-> 0, todo |-> {}]
Token(c, f) == [client |-> c, family |-> f, rotated |-> 0, at |-> 0, exp |-> time + TTL]

Init ==
    /\ clientRec = [c \in Clients |-> IF c \in Stored THEN "approved" ELSE "absent"]
    /\ authz = [r \in Reqs |-> Nil] /\ codes = [k \in 1..MaxCodes |-> Nil]
    /\ time = 0 /\ minted = Cardinality(Stored) /\ issued = 0
    /\ refresh = [t \in Tokens |-> IF t <= minted THEN Token(CHOOSE c \in Stored : TRUE, t) ELSE Nil]
    /\ access = refresh
    /\ hnd = [i \in Handlers |-> Idle] /\ opr = Idle
    /\ approvals = [r \in Reqs |-> 0] /\ given = [r \in Reqs |-> 0]
    /\ redeemed = {} /\ rotations = {} /\ swept = {} /\ decisions = 0

Step(i, pc) == hnd' = [hnd EXCEPT ![i].pc = pc]
Done(i) == hnd' = [hnd EXCEPT ![i] = Idle]
(* keyedLocks: another request of this process is between pcs on the key.  *)
Locked(i, pcs, key) ==
    \E j \in Handlers \ {i} : Proc[j] = Proc[i] /\ hnd[j].pc \in pcs /\ hnd[j].key = key
Wait(i) == hnd[i].pc = "idle" /\ UNCHANGED <<time, opr>>
At(i, pc) == hnd[i].pc = pc /\ UNCHANGED <<time, opr>>

-----------------------------------------------------------------------------
(* handleRegister: the quota is checked and the record created under one   *)
(* lock; a registration that cannot be audited is revoked.                 *)
Counted == {c \in Clients : IF Mode = "token" THEN clientRec[c] # "absent" ELSE clientRec[c] = "pending"}
QuotaFree == Cardinality(Counted) < Quota

RegCount(i) ==
    /\ "register" \in Does /\ Wait(i) /\ ~Locked(i, {"create"}, 0) /\ QuotaFree
    /\ Step(i, "create")
    /\ UNCHANGED <<stores, issued, minted, history>>

RegCreate(i) ==
    /\ At(i, "create")
    /\ \E c \in Clients :
        /\ clientRec[c] = "absent"
        /\ clientRec' = [clientRec EXCEPT ![c] = IF Mode = "token" THEN "approved" ELSE "pending"]
        /\ hnd' = [hnd EXCEPT ![i].pc = "audit", ![i].key = c]
    /\ UNCHANGED <<authz, codes, access, refresh, issued, minted, history>>

RegAudit(i) ==
    /\ At(i, "audit")
    /\ Done(i)
    /\ \/ UNCHANGED clientRec
       \/ clientRec' = [clientRec EXCEPT ![hnd[i].key] = "revoked"]
    /\ UNCHANGED <<authz, codes, access, refresh, issued, minted, history>>

(* handleManage: DELETE with the registration token.                       *)
Deregister(i, c) ==
    /\ "register" \in Does /\ Wait(i) /\ clientRec[c] # "absent"
    /\ clientRec' = [clientRec EXCEPT ![c] = "revoked"]
    /\ UNCHANGED <<authz, codes, access, refresh, issued, minted, hnd, history>>

-----------------------------------------------------------------------------
(* handleAuthorize records a request of an approved client.                *)
Authorize(i, r, c) ==
    /\ "authorize" \in Does /\ Wait(i) /\ clientRec[c] = "approved" /\ authz[r] = Nil
    /\ authz' = [authz EXCEPT ![r] = [client |-> c, status |-> "pending", exp |-> time + TTL]]
    /\ UNCHANGED <<clientRec, codes, access, refresh, issued, minted, hnd, history>>

(* handleAuthorizeStatus, under the request's lock: the first poll that    *)
(* finds it approved issues the code and completes it.  All other polls    *)
(* only answer.                                                            *)
Poll(i, r) ==
    /\ Wait(i) /\ ~Locked(i, {"issue", "complete"}, r)
    /\ authz[r] # Nil /\ authz[r].status = "approved"
    /\ hnd' = [hnd EXCEPT ![i].pc = "issue", ![i].key = r, ![i].rec = authz[r]]
    /\ UNCHANGED <<stores, issued, minted, history>>

PollIssue(i) ==
    /\ At(i, "issue")
    /\ \/ /\ issued < MaxCodes /\ issued' = issued + 1
          /\ codes' = [codes EXCEPT ![issued'] = [client |-> hnd[i].rec.client, exp |-> time + TTL]]
          /\ Step(i, "complete")
       \/ Done(i) /\ UNCHANGED <<codes, issued>>
    /\ UNCHANGED <<clientRec, authz, access, refresh, minted, history>>

PollComplete(i) ==
    /\ At(i, "complete")
    /\ authz' = [authz EXCEPT ![hnd[i].key] = [hnd[i].rec EXCEPT !.status = "completed"]]
    /\ given' = [given EXCEPT ![hnd[i].key] = @ + 1]
    /\ Done(i)
    /\ UNCHANGED <<clientRec, codes, access, refresh, issued, minted,
                   approvals, redeemed, rotations, swept, decisions>>

-----------------------------------------------------------------------------
(* tokenFromCode: the code is claimed by renaming its file, then checked,  *)
(* then a token set of a new family is minted.                             *)
CodeRead(i, k) ==
    /\ Wait(i) /\ codes[k] # Nil /\ ~Locked(i, {"claim"}, k)
    /\ hnd' = [hnd EXCEPT ![i].pc = "claim", ![i].key = k, ![i].rec = codes[k]]
    /\ UNCHANGED <<stores, issued, minted, history>>

CodeClaim(i) ==
    /\ At(i, "claim")
    /\ IF codes[hnd[i].key] # Nil
         THEN codes' = [codes EXCEPT ![hnd[i].key] = Nil] /\ Step(i, "check")
         ELSE Done(i) /\ UNCHANGED codes
    /\ UNCHANGED <<clientRec, authz, access, refresh, issued, minted, history>>

CodeCheck(i) ==
    /\ At(i, "check")
    /\ \E matches \in BOOLEAN :
        IF matches /\ time <= hnd[i].rec.exp /\ clientRec[hnd[i].rec.client] = "approved"
          THEN Step(i, "mint")
          ELSE Done(i)
    /\ UNCHANGED <<stores, issued, minted, history>>

(* mintTokenSet: the access token, then the refresh token; either write    *)
(* may fail.                                                               *)
Family(i) == IF "family" \in DOMAIN hnd[i].rec THEN hnd[i].rec.family ELSE hnd[i].n
MintAccess(i) ==
    /\ At(i, "mint")
    /\ \/ /\ minted < MaxTokens /\ minted' = minted + 1
          /\ hnd' = [hnd EXCEPT ![i].pc = "mint2", ![i].n = minted']
          /\ access' = [access EXCEPT ![minted'] =
                           Token(hnd[i].rec.client, IF "family" \in DOMAIN hnd[i].rec THEN hnd[i].rec.family ELSE minted')]
       \/ Done(i) /\ UNCHANGED <<access, minted>>
    /\ UNCHANGED <<clientRec, authz, codes, refresh, issued, history>>

MintRefresh(i) ==
    /\ At(i, "mint2")
    /\ \/ /\ refresh' = [refresh EXCEPT ![hnd[i].n] = Token(hnd[i].rec.client, Family(i))]
          /\ IF "family" \in DOMAIN hnd[i].rec
               THEN Step(i, "mark") /\ UNCHANGED redeemed
               ELSE Done(i) /\ redeemed' = redeemed \cup {<<hnd[i].key, Family(i)>>}
       \/ Done(i) /\ UNCHANGED <<refresh, redeemed>>
    /\ UNCHANGED <<clientRec, authz, codes, access, issued, minted,
                   approvals, given, rotations, swept, decisions>>

-----------------------------------------------------------------------------
(* tokenFromRefresh: read, lock the token, read again; a token that was    *)
(* rotated is refused, and past the grace its family is revoked.           *)
RefreshRead(i, t) ==
    /\ Wait(i) /\ refresh[t] # Nil /\ time <= refresh[t].exp
    /\ hnd' = [hnd EXCEPT ![i].pc = "lock", ![i].key = t, ![i].rec = refresh[t]]
    /\ UNCHANGED <<stores, issued, minted, history>>

Rotating == {"mint", "mint2", "mark"}
Files(f) == {t \in Tokens : \/ access[t] # Nil /\ access[t].family = f
                            \/ refresh[t] # Nil /\ refresh[t].family = f}

(* (Mutated form: what was read before the lock is trusted.)               *)
RefreshTrusting(i) ==
    /\ At(i, "lock") /\ ~Locked(i, Rotating, hnd[i].key)
    /\ IF hnd[i].rec.rotated = 0 /\ clientRec[hnd[i].rec.client] = "approved"
         THEN Step(i, "mint")
         ELSE Done(i)
    /\ UNCHANGED <<stores, issued, minted, history>>
RefreshLocked(i) ==
    LET t == hnd[i].key rec == refresh[t] IN
    /\ At(i, "lock") /\ ~Locked(i, Rotating, t)
    /\ \/ /\ rec # Nil /\ rec.rotated = 0 /\ clientRec[rec.client] = "approved"
          /\ hnd' = [hnd EXCEPT ![i].pc = "mint", ![i].rec = rec]
          /\ UNCHANGED swept
       \/ /\ \/ rec = Nil
             \/ rec # Nil /\ rec.rotated # 0 /\ time - rec.at <= Grace
             \/ rec # Nil /\ rec.rotated = 0 /\ clientRec[rec.client] # "approved"
          /\ Done(i) /\ UNCHANGED swept
       \/ /\ rec # Nil /\ rec.rotated # 0 /\ time - rec.at > Grace
          /\ hnd' = [hnd EXCEPT ![i].pc = "sweep", ![i].todo = Files(rec.family)]
          /\ swept' = swept \cup {rec.family}
    /\ UNCHANGED <<stores, issued, minted, approvals, given, redeemed, rotations, decisions>>

(* markRotated writes the copy read under the lock, then the new set is    *)
(* returned.                                                               *)
Mark(i) ==
    /\ At(i, "mark")
    /\ Done(i)
    /\ \/ /\ refresh' = [refresh EXCEPT ![hnd[i].key] = [hnd[i].rec EXCEPT !.rotated = hnd[i].n, !.at = time]]
          /\ rotations' = rotations \cup {<<hnd[i].key, hnd[i].n>>}
       \/ UNCHANGED <<refresh, rotations>>
    /\ UNCHANGED <<clientRec, authz, codes, access, issued, minted,
                   approvals, given, redeemed, swept, decisions>>

(* revokeFamily and revokeClient remove the files of a listing one by one. *)
Remove(t) == /\ access' = [access EXCEPT ![t] = Nil]
             /\ refresh' = [refresh EXCEPT ![t] = Nil]
Sweep(i) ==
    /\ At(i, "sweep")
    /\ IF hnd[i].todo = {}
         THEN Done(i) /\ UNCHANGED <<access, refresh>>
         ELSE \E t \in hnd[i].todo : Remove(t) /\ hnd' = [hnd EXCEPT ![i].todo = @ \ {t}]
    /\ UNCHANGED <<clientRec, authz, codes, issued, minted, history>>

-----------------------------------------------------------------------------
(* `meshmcp edge clients|authz approve|deny`: read the record, write it    *)
(* back with the new status.                                               *)
OperatorReads ==
    /\ opr.pc = "idle" /\ decisions < MaxDecisions /\ decisions' = decisions + 1
    /\ \/ \E c \in Clients, to \in {"approved", "denied"} :
            /\ clientRec[c] \notin {"absent", "revoked"}
            /\ opr' = [opr EXCEPT !.pc = "client", !.key = c, !.rec = to]
       \/ \E r \in Reqs, to \in {"approved", "denied"} :
            /\ authz[r] # Nil
            /\ opr' = [opr EXCEPT !.pc = "authz", !.key = r, !.rec = [authz[r] EXCEPT !.status = to]]
    /\ UNCHANGED <<stores, issued, minted, hnd, time, approvals, given, redeemed, rotations, swept>>

OperatorWrites ==
    /\ opr.pc \in {"client", "authz"} /\ opr' = Idle
    /\ IF opr.pc = "client"
         THEN clientRec' = [clientRec EXCEPT ![opr.key] = opr.rec] /\ UNCHANGED <<authz, approvals>>
         ELSE /\ authz' = [authz EXCEPT ![opr.key] = opr.rec] /\ UNCHANGED clientRec
              /\ approvals' = [approvals EXCEPT ![opr.key] = @ + IF opr.rec.status = "approved" THEN 1 ELSE 0]
    /\ UNCHANGED <<codes, access, refresh, issued, minted, hnd, time, given, redeemed, rotations, swept, decisions>>

(* RevokeClientState: the status first, then every token of the client.    *)
OperatorRevokes(c) ==
    /\ "revoke" \in Does /\ opr.pc = "idle" /\ clientRec[c] \notin {"absent", "revoked"}
    /\ clientRec' = [clientRec EXCEPT ![c] = "revoked"]
    /\ opr' = [opr EXCEPT !.pc = "list", !.key = c]
    /\ UNCHANGED <<authz, codes, access, refresh, issued, minted, hnd, time, history>>
OperatorLists ==
    /\ opr.pc = "list"
    /\ LET mine == {t \in Tokens : \/ access[t] # Nil /\ access[t].client = opr.key
                                   \/ refresh[t] # Nil /\ refresh[t].client = opr.key}
       IN opr' = [opr EXCEPT !.pc = "remove", !.todo = mine]
    /\ swept' = swept \cup Tokens
    /\ UNCHANGED <<stores, issued, minted, hnd, time, approvals, given, redeemed, rotations, decisions>>
OperatorRemoves ==
    /\ opr.pc = "remove"
    /\ IF opr.todo = {}
         THEN opr' = Idle /\ UNCHANGED <<access, refresh>>
         ELSE \E t \in opr.todo : Remove(t) /\ opr' = [opr EXCEPT !.todo = @ \ {t}]
    /\ UNCHANGED <<clientRec, authz, codes, issued, minted, hnd, time, history>>

(* A daemon dies and is started again: its requests are gone.              *)
Crash(i) ==
    /\ "crash" \in Does /\ hnd[i].pc # "idle"
    /\ hnd' = [j \in Handlers |-> IF Proc[j] = Proc[i] THEN Idle ELSE hnd[j]]
    /\ UNCHANGED <<stores, issued, minted, opr, time, history>>

Tick == time < MaxTime /\ time' = time + 1 /\ UNCHANGED <<stores, issued, minted, hnd, opr, history>>

Registering(i) == RegCount(i) \/ RegCreate(i) \/ RegAudit(i) \/ \E c \in Clients : Deregister(i, c)
Authorizing(i) == \/ \E r \in Reqs : Poll(i, r) \/ \E c \in Clients : Authorize(i, r, c)
                  \/ PollIssue(i) \/ PollComplete(i)
Exchanging(i) == \/ \E k \in 1..MaxCodes : CodeRead(i, k)
                 \/ CodeClaim(i) \/ CodeCheck(i) \/ MintAccess(i) \/ MintRefresh(i)
Refreshing(i) == \/ \E t \in Tokens : RefreshRead(i, t)
                 \/ RefreshLocked(i) \/ Mark(i) \/ Sweep(i)
Operator == OperatorReads \/ OperatorWrites \/ OperatorLists \/ OperatorRemoves \/ \E c \in Clients : OperatorRevokes(c)

Next == \/ Tick \/ Operator
        \/ \E i \in Handlers : Registering(i) \/ Authorizing(i) \/ Exchanging(i) \/ Refreshing(i) \/ Crash(i)

-----------------------------------------------------------------------------
(* The records are well formed.                                            *)
TypeOK ==
    /\ clientRec \in [Clients -> {"absent", "pending", "approved", "denied", "revoked"}]
    /\ \A r \in Reqs : authz[r] = Nil \/ authz[r].status \in {"pending", "approved", "denied", "completed"}
    /\ \A t \in Tokens : (access[t] # Nil \/ refresh[t] # Nil) => t <= minted

(* However many registrations race, the quota holds (handleRegister).      *)
QuotaHolds == Cardinality(Counted) <= Quota

(* "the single authorization code": one approval returns at most one code, *)
(* however many pages poll (handleAuthorizeStatus).                        *)
OneCodePerApproval == \A r \in Reqs : given[r] <= approvals[r]

(* "exactly one token exchange can redeem a code even across processes"    *)
(* (codeStore): a code yields one family.                                  *)
OneFamilyPerCode == \A x, y \in redeemed : x[1] = y[1] => x = y

(* Retries of one refresh return one successor (tokenFromRefresh).         *)
OneSuccessor == \A x, y \in rotations : x[1] = y[1] => x = y

(* A failed or interrupted rotation leaves the family a token that still   *)
(* works: the successor is stored before the predecessor is marked.        *)
FamilyUsable ==
    \A f \in (1..Cardinality(Stored) \cup {x[2] : x \in redeemed}) \ swept :
        \E t \in Tokens : refresh[t] # Nil /\ refresh[t].family = f /\ refresh[t].rotated = 0

TokensSingleUse == QuotaHolds /\ OneCodePerApproval /\ OneFamilyPerCode /\ OneSuccessor /\ FamilyUsable
=============================================================================
