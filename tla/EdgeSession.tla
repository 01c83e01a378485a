----------------------------- MODULE EdgeSession -----------------------------
(* The edge's Streamable-HTTP sessions (edge/session.go, mcp.go, bridge.go): *)
(* POST initialize opens a session with a backend connection of its own,     *)
(* later requests are resolved to it, a GET attaches an event stream, DELETE *)
(* and the revocation of a client end it.  A session is bound to the client  *)
(* and the token family that made it.  The stream's channel is taken under   *)
(* the session's mutex, but used after it is released.                       *)
EXTENDS Integers, Sequences, FiniteSets

CONSTANTS
    Users,                \* [client, family] pairs that hold an access token
    Requests,             \* requests in progress
    perLimit, bufLimit,   \* MaxSessionsPerClient, MaxSSEBufferMsgs
    MaxSessions, MaxStreams, MaxNotes,
    Nobody

VARIABLES
    sessions,             \* session -> [by, bridge, sse, routed], Nobody before it exists
    byID,                 \* sessionTable.byID: the sessions a request can find
    streams,              \* channel -> [of, open, buf]
    rq,                   \* requests in progress
    note,                 \* the backend's notification being routed, per session
    notes,                \* notifications sent so far
    revoked,              \* clients whose status is no longer approved
    newest,               \* history: the last GET that attached, per session
    panicked              \* a send on a closed channel has ended the daemon

sessVars == <<sessions, byID, streams, rq, note, notes, revoked, newest, panicked>>

Sess == 1..MaxSessions
Chans == 1..MaxStreams
Free == [pc |-> "idle", by |-> Nobody, s |-> 0, ch |-> 0, left |-> {}]

Init ==
    /\ sessions = [s \in Sess |-> Nobody] /\ byID = {} /\ streams = [c \in Chans |-> Nobody]
    /\ rq = [r \in Requests |-> Free] /\ note = [s \in Sess |-> [pc |-> "idle", ch |-> 0]]
    /\ notes = 0 /\ revoked = {} /\ newest = [s \in Sess |-> Nobody] /\ panicked = FALSE

Unused(f) == CHOOSE x \in DOMAIN f : f[x] = Nobody /\ \A y \in DOMAIN f : y < x => f[y] # Nobody
HasUnused(f) == \E x \in DOMAIN f : f[x] = Nobody

(* authenticate: the token exists and its client is approved.              *)
Authentic(u) == u.client \notin revoked

(* mcpPost with initialize: authenticate.                                  *)
Authenticate(r) ==
    /\ rq[r].pc = "idle"
    /\ \E u \in Users : Authentic(u) /\ rq' = [rq EXCEPT ![r] = [Free EXCEPT !.pc = "dial", !.by = u]]
    /\ UNCHANGED <<sessions, byID, streams, note, notes, revoked, newest, panicked>>

(* resolveSession for initialize: dial a bridge only this request knows of *)
(* (newBridge), then create under the table lock; over the limit the       *)
(* connection is closed again.                                             *)
Initialize(r) ==
    LET s == Unused(sessions)
        mine == {x \in byID : sessions[x].by.client = rq[r].by.client}
        room == Cardinality(mine) < perLimit
    IN  /\ rq[r].pc = "dial" /\ HasUnused(sessions)
        /\ sessions' = [sessions EXCEPT ![s] = [by |-> rq[r].by, sse |-> 0, routed |-> FALSE,
                                                bridge |-> IF room THEN "open" ELSE "closed"]]
        /\ byID' = IF room THEN byID \cup {s} ELSE byID
        /\ rq' = [rq EXCEPT ![r] = Free]
        /\ UNCHANGED <<streams, note, notes, revoked, newest, panicked>>

(* resolveSession: the session is this client's and this family's.         *)
(* (Mutated form: any family of the client.)                               *)
FindsByClient(u, s) == s \in byID /\ sessions[s].by.client = u.client
Finds(u, s) == s \in byID /\ sessions[s].by = u

(* mcpPost and mcpGet with a session id; the DELETE compares the client.   *)
Resolve(r, what) ==
    /\ rq[r].pc = "idle"
    /\ \E u \in Users, s \in Sess :
        /\ Authentic(u)
        /\ IF what = "delete" THEN s \in byID /\ sessions[s].by.client = u.client ELSE Finds(u, s)
        /\ rq' = [rq EXCEPT ![r] = [Free EXCEPT !.pc = what, !.by = u, !.s = s]]
    /\ UNCHANGED <<sessions, byID, streams, note, notes, revoked, newest, panicked>>

(* bridge.forward: the answer, or an error if the bridge has been closed.  *)
Forward(r) ==
    /\ rq[r].pc = "post" /\ rq' = [rq EXCEPT ![r] = Free]
    /\ UNCHANGED <<sessions, byID, streams, note, notes, revoked, newest, panicked>>

-----------------------------------------------------------------------------
Close(c) == IF c = 0 THEN streams ELSE [streams EXCEPT ![c].open = FALSE]

(* attachStream: under the session's mutex the old channel is closed and a *)
(* new one takes its place; then the notifications are routed.             *)
Attach(r) ==
    LET s == rq[r].s  c == Unused(streams) IN
    /\ rq[r].pc = "get" /\ HasUnused(streams)
    /\ streams' = [Close(sessions[s].sse) EXCEPT ![c] = [of |-> s, open |-> TRUE, buf |-> <<>>]]
    /\ sessions' = [sessions EXCEPT ![s].sse = c]
    /\ rq' = [rq EXCEPT ![r].pc = "route", ![r].ch = c]
    /\ newest' = [newest EXCEPT ![s] = r]
    /\ UNCHANGED <<byID, note, notes, revoked, panicked>>
Route(r) ==
    /\ rq[r].pc = "route"
    /\ sessions' = [sessions EXCEPT ![rq[r].s].routed = TRUE]
    /\ rq' = [rq EXCEPT ![r].pc = "loop"]
    /\ UNCHANGED <<byID, streams, note, notes, revoked, newest, panicked>>

(* mcpGet's loop: write what arrives; leave when the channel is closed,    *)
(* the client goes away or the token expires.                              *)
Receive(r) ==
    /\ rq[r].pc = "loop" /\ streams[rq[r].ch].buf # <<>>
    /\ streams' = [streams EXCEPT ![rq[r].ch].buf = Tail(@)]
    /\ UNCHANGED <<sessions, byID, rq, note, notes, revoked, newest, panicked>>
Replaced(r) ==
    /\ rq[r].pc = "loop" /\ ~streams[rq[r].ch].open /\ streams[rq[r].ch].buf = <<>>
    /\ rq' = [rq EXCEPT ![r].pc = "detach"]
    /\ UNCHANGED <<sessions, byID, streams, note, notes, revoked, newest, panicked>>
GoesAway(r) ==
    /\ rq[r].pc = "loop" /\ streams[rq[r].ch].open
    /\ rq' = [rq EXCEPT ![r].pc = "detach"]
    /\ UNCHANGED <<sessions, byID, streams, note, notes, revoked, newest, panicked>>

(* The first of the sessions in left is ended (detachStream, then          *)
(* bridge.close), in any order; without one the request is over.           *)
Ends(left) == IF left = {} THEN {Free}
              ELSE {[Free EXCEPT !.pc = "end", !.s = s, !.left = left \ {s}] : s \in left}

(* detachStream, deferred by every GET and called for every session that   *)
(* is deleted: close whatever channel the session has, then stop routing.  *)
Detach(r) ==
    LET s == rq[r].s IN
    /\ rq[r].pc \in {"detach", "end"}
    /\ streams' = Close(sessions[s].sse)
    /\ sessions' = [sessions EXCEPT ![s].sse = 0]
    /\ rq' = [rq EXCEPT ![r].pc = IF @ = "end" THEN "end2" ELSE "detach2"]
    /\ UNCHANGED <<byID, note, notes, revoked, newest, panicked>>
Unroute(r) ==
    LET s == rq[r].s IN
    /\ rq[r].pc \in {"detach2", "end2"}
    /\ sessions' = [sessions EXCEPT ![s].routed = FALSE,
                                    ![s].bridge = IF rq[r].pc = "end2" THEN "closed" ELSE @]
    /\ \E after \in Ends(rq[r].left) : rq' = [rq EXCEPT ![r] = after]
    /\ UNCHANGED <<byID, streams, note, notes, revoked, newest, panicked>>

(* sessionTable.delete: the entry goes under the lock, the rest follows.   *)
Delete(r) ==
    /\ rq[r].pc = "delete"
    /\ byID' = byID \ {rq[r].s}
    /\ \E after \in Ends(byID \cap {rq[r].s}) : rq' = [rq EXCEPT ![r] = after]
    /\ UNCHANGED <<sessions, streams, note, notes, revoked, newest, panicked>>

(* Server.RevokeClient: the status, then deleteClient: every entry of the  *)
(* client goes under the lock, then each session is ended in turn.         *)
RevokeClient(r, c) ==
    /\ rq[r].pc = "idle" /\ c \notin revoked /\ revoked' = revoked \cup {c}
    /\ rq' = [rq EXCEPT ![r].pc = "revoke", ![r].by = [client |-> c, family |-> 0]]
    /\ UNCHANGED <<sessions, byID, streams, note, notes, newest, panicked>>
DeleteClient(r) ==
    LET victims == {s \in byID : sessions[s].by.client = rq[r].by.client} IN
    /\ rq[r].pc = "revoke" /\ byID' = byID \ victims
    /\ \E after \in Ends(victims) : rq' = [rq EXCEPT ![r] = after]
    /\ UNCHANGED <<sessions, streams, note, notes, revoked, newest, panicked>>

-----------------------------------------------------------------------------
(* The bridge's read loop hands a notification to the handler that is      *)
(* installed; enqueue takes the channel under the mutex and sends after    *)
(* it.  A full buffer drops the event.                                     *)
Notify(s) ==
    /\ sessions[s] # Nobody /\ sessions[s].routed /\ note[s].pc = "idle" /\ notes < MaxNotes
    /\ notes' = notes + 1 /\ note' = [note EXCEPT ![s].pc = "take"]
    /\ UNCHANGED <<sessions, byID, streams, rq, revoked, newest, panicked>>
Take(s) ==
    /\ note[s].pc = "take"
    /\ note' = [note EXCEPT ![s] = IF sessions[s].sse = 0 THEN [pc |-> "idle", ch |-> 0]
                                   ELSE [pc |-> "send", ch |-> sessions[s].sse]]
    /\ UNCHANGED <<sessions, byID, streams, rq, notes, revoked, newest, panicked>>
Enqueue(s) ==
    LET c == note[s].ch IN
    /\ note[s].pc = "send" /\ note' = [note EXCEPT ![s] = [pc |-> "idle", ch |-> 0]]
    /\ panicked' = (panicked \/ ~streams[c].open)
    /\ streams' = IF streams[c].open /\ Len(streams[c].buf) < bufLimit
                    THEN [streams EXCEPT ![c].buf = Append(@, notes)] ELSE streams
    /\ UNCHANGED <<sessions, byID, rq, notes, revoked, newest>>

Streaming(r) == Attach(r) \/ Route(r) \/ Receive(r) \/ Replaced(r) \/ GoesAway(r) \/ Detach(r) \/ Unroute(r)
Next ==
    /\ ~panicked
    /\ \/ \E r \in Requests :
              \/ Authenticate(r) \/ Initialize(r) \/ \E what \in {"post", "get", "delete"} : Resolve(r, what)
              \/ Forward(r) \/ Streaming(r) \/ Delete(r) \/ DeleteClient(r)
              \/ \E u \in Users : RevokeClient(r, u.client)
       \/ \E s \in Sess : Notify(s) \/ Take(s) \/ Enqueue(s)

-----------------------------------------------------------------------------
(* The session table is well formed.                                       *)
TypeOK ==
    /\ \A s \in byID : sessions[s] # Nobody
    /\ \A c \in Chans : streams[c] # Nobody => Len(streams[c].buf) <= bufLimit

(* A session serves its client and family only, at most one of its streams *)
(* is open, and a backend connection outlives its table entry only while   *)
(* the request that took the entry out is still ending the session.        *)
SessionsContained ==
    /\ \A r \in Requests : rq[r].pc = "post" => sessions[rq[r].s].by = rq[r].by
    /\ \A c, d \in Chans :
        streams[c] # Nobody /\ streams[d] # Nobody /\ streams[c].open /\ streams[d].open
            /\ streams[c].of = streams[d].of => c = d
    /\ \A s \in Sess : sessions[s] # Nobody /\ sessions[s].bridge = "open" /\ s \notin byID
            => \E r \in Requests : \/ rq[r].s = s /\ rq[r].pc \in {"end", "end2"}
                                  \/ s \in rq[r].left

(* "A second GET replaces the first (spec MAY)" (edge/session.go:139-140): *)
(* the stream of the newest GET stays until that GET ends or the session   *)
(* does.                                                                   *)
NewestStreamStays ==
    \A s \in byID : \A r \in Requests :
        newest[s] = r /\ rq[r].s = s /\ rq[r].pc = "loop" => sessions[s].sse = rq[r].ch
=============================================================================
