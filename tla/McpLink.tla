------------------------------- MODULE McpLink -------------------------------
(* An MCP client and a server on one connection (mcpclient/client.go,        *)
(* tasks.go; mcp/server.go, session.go, middleware.go): calls matched to     *)
(* answers by id and dispatched each in a goroutine of its own; requests of  *)
(* the server to the client; tools run as tasks (mcp/tasks.go) and the       *)
(* client that waits for one; subscriptions (mcp/subscriptions.go).  What a  *)
(* side writes is read in order by the other side's read loop.               *)
EXTENDS Integers, Sequences, FiniteSets

CONSTANTS
    Kind,                 \* caller -> "tool", "ask", "task", "wait", "cancel", "steer", "listen", or a
                          \* notification: "unlisten" (of the listen request), "forget" (of the task)
    CtxEnds,              \* callers whose context may end
    Ends,                 \* how the client may leave: a subset of {"close", "half"}
    AskEnds,              \* a handler's context may end while it asks the client
    Limit,                \* LimitConcurrency
    steerBuffer, MaxPolls, MaxChanges, MaxIds,
    NoCall

VARIABLES
    in, out,              \* all that the client and the server have written
    inAt, outAt,          \* how much of it its reader has consumed
    cl,                   \* each caller: [pc, op, id, ch, s, polls, told]
    nextID, pend,         \* Client.nextID, Client.pending
    conn,                 \* "open", "half" (the client writes no more), "closed", "finished"
    gor,                  \* the server's goroutine of each request: [pc, k, reads]
    reqSeq, pendS,        \* Server.reqSeq, Server.pending
    inb,                  \* requests of the server that the client is serving
    task,                 \* taskManager.tasks: [status, ctx, steer, id]
    subs, closing,        \* Server.subs; taken by closeAllSubscriptions and not yet told
    serving,              \* Serve has not returned
    ev                    \* a list change being delivered: [todo, n]

client == <<cl, nextID, pend, inb>>
server == <<gor, reqSeq, pendS, task, subs, closing, serving, ev>>

Callers == DOMAIN Kind
Notes == {"unlisten", "forget"}
Ids == 1..MaxIds
Terminal == {"completed", "failed", "cancelled"}

Init ==
    /\ in = <<>> /\ out = <<>> /\ inAt = 0 /\ outAt = 0
    /\ cl = [k \in Callers |-> [pc |-> "idle", op |-> IF Kind[k] = "wait" THEN "get" ELSE Kind[k],
                                id |-> 0, ch |-> "empty", s |-> "none", polls |-> 0, told |-> FALSE]]
    /\ nextID = 0 /\ pend = [i \in Ids |-> NoCall] /\ conn = "open"
    /\ gor = [i \in Ids |-> [pc |-> "none", k |-> NoCall, read |-> 0]]
    /\ reqSeq = 0 /\ pendS = [i \in Ids |-> 0] /\ inb = {}
    /\ task = <<>> /\ subs = {} /\ closing = {} /\ serving = TRUE /\ ev = [todo |-> {}, n |-> 0]

(* A line on the wire: what it is, its id, the call it is about, a status.   *)
Msg(t, i, k, s) == [t |-> t, id |-> i, k |-> k, s |-> s]
(* outConn.send: errors are ignored by every sender but Request.             *)
Sends(m) == out' = IF conn \in {"open", "half"} THEN Append(out, m) ELSE out

-----------------------------------------------------------------------------
(* Client.Call: an id and a channel under the mutex, then the request is    *)
(* written, then the first of answer, end of context, end of connection.    *)
NewId == nextID + 1
Register(k) ==
    /\ cl[k].pc = "idle" /\ cl[k].op \notin Notes
    /\ nextID' = NewId /\ pend' = [pend EXCEPT ![NewId] = k]
    /\ cl' = [cl EXCEPT ![k].pc = "write", ![k].id = NewId, ![k].ch = "empty"]
    /\ UNCHANGED <<in, out, inAt, outAt, conn, inb, server>>
Write(k) ==
    /\ cl[k].pc = "write"
    /\ IF conn = "open"
         THEN /\ in' = Append(in, Msg("req", cl[k].id, k, cl[k].op)) /\ UNCHANGED pend
              /\ cl' = [cl EXCEPT ![k].pc = "wait"]
         ELSE /\ pend' = [pend EXCEPT ![cl[k].id] = NoCall] /\ UNCHANGED in
              /\ cl' = [cl EXCEPT ![k].pc = "failed"]
    /\ UNCHANGED <<out, inAt, outAt, nextID, conn, inb, server>>

(* WaitTask asks again while the task works, up to MaxPolls times, and asks *)
(* for the result of one that completed or failed.                          *)
Answered(k) ==
    LET c == cl[k] IN
    /\ c.pc = "wait" /\ c.ch = "full"
    /\ cl' = [cl EXCEPT ![k] =
         IF c.op # "get" THEN [c EXCEPT !.pc = "done"]
         ELSE IF c.s \in {"completed", "failed"} THEN [c EXCEPT !.pc = "idle", !.op = "result"]
         ELSE IF c.s = "working" THEN [c EXCEPT !.pc = "pause", !.polls = @ + 1]
         ELSE [c EXCEPT !.pc = "failed"]]
    /\ UNCHANGED <<in, out, inAt, outAt, nextID, pend, conn, inb, server>>
PollAgain(k) ==
    /\ cl[k].pc = "pause"
    /\ cl' = [cl EXCEPT ![k].pc = IF cl[k].polls = MaxPolls THEN "failed" ELSE "idle"]
    /\ UNCHANGED <<in, out, inAt, outAt, nextID, pend, conn, inb, server>>
PauseEnds(k) ==
    /\ cl[k].pc = "pause" /\ k \in CtxEnds
    /\ in' = IF conn = "open" THEN Append(in, Msg("note", 0, k, "forget")) ELSE in
    /\ cl' = [cl EXCEPT ![k].pc = "ended", ![k].told = TRUE]
    /\ UNCHANGED <<out, inAt, outAt, nextID, pend, conn, inb, server>>
CtxDone(k) ==
    /\ cl[k].pc = "wait" /\ k \in CtxEnds /\ cl' = [cl EXCEPT ![k].pc = "ended"]
    /\ UNCHANGED <<in, out, inAt, outAt, nextID, pend, conn, inb, server>>
ConnDone(k) ==
    /\ cl[k].pc = "wait"
    /\ cl[k].ch = "closed" \/ conn = "finished"
    /\ cl' = [cl EXCEPT ![k].pc = "failed"]
    /\ UNCHANGED <<in, out, inAt, outAt, nextID, pend, conn, inb, server>>

(* Client.Notify: notifications/cancelled with a request id or a task id.   *)
Notify(k) ==
    /\ cl[k].pc = "idle" /\ cl[k].op \in Notes /\ cl' = [cl EXCEPT ![k].pc = "done"]
    /\ in' = IF conn = "open" THEN Append(in, Msg("note", 0, k, cl[k].op)) ELSE in
    /\ UNCHANGED <<out, inAt, outAt, nextID, pend, conn, inb, server>>

(* readLoop: an answer goes to its channel, a request of the server to a    *)
(* goroutine of its own, a notification to the callback.                    *)
ReadAnswer ==
    LET m == out[outAt + 1]  k == pend[m.id] IN
    /\ conn \in {"open", "half"} /\ outAt < Len(out) /\ outAt' = outAt + 1
    /\ IF m.t = "answer" /\ k # NoCall
         THEN /\ cl' = [cl EXCEPT ![k].ch = IF m.k = k THEN "full" ELSE "other", ![k].s = m.s]
              /\ pend' = [pend EXCEPT ![m.id] = NoCall]
         ELSE UNCHANGED <<cl, pend>>
    /\ inb' = IF m.t = "request" THEN inb \cup {m.id} ELSE inb
    /\ UNCHANGED <<in, out, inAt, nextID, conn, server>>
ServeInbound(r) ==
    /\ r \in inb /\ inb' = inb \ {r}
    /\ in' = IF conn = "open" THEN Append(in, Msg("resp", r, NoCall, "none")) ELSE in
    /\ UNCHANGED <<out, inAt, outAt, cl, nextID, pend, conn, server>>

(* Close, or the end of the client's input; finish, when the read loop ends.*)
Leave(how) ==
    /\ how \in Ends /\ conn = "open" /\ conn' = (IF how = "half" THEN "half" ELSE "closed")
    /\ UNCHANGED <<in, out, inAt, outAt, client, server>>
Released == [k \in Callers |-> IF cl[k].id # 0 /\ pend[cl[k].id] = k THEN [cl[k] EXCEPT !.ch = "closed"] ELSE cl[k]]
Finish ==
    /\ conn = "closed" /\ conn' = "finished" /\ cl' = Released /\ pend' = [i \in Ids |-> NoCall]
    /\ UNCHANGED <<in, out, inAt, outAt, nextID, inb, server>>

-----------------------------------------------------------------------------
(* The server.  A goroutine's step keeps what the client and the read loop  *)
(* hold.                                                                    *)
Step(i, from, to) ==
    /\ gor[i].pc = from /\ gor' = [gor EXCEPT ![i].pc = to]
    /\ UNCHANGED <<in, inAt, outAt, client, conn, closing, serving>>
Answer(i, s) == Sends(Msg("answer", i, gor[i].k, s))
CancelTask(t) == task' = [task EXCEPT ![t].ctx = "ended"]

(* Serve's loop: a request starts a goroutine, a response releases the      *)
(* handler that waits for it, a cancellation ends a subscription or a task. *)
(* (Mutated form: it reads on only when its handlers have returned.)        *)
MayReadAlone == serving /\ \A i \in Ids : gor[i].pc \notin {"run", "asking", "asked"}
MayRead == serving
CloseSubscription(i) == subs' = subs \ {i} /\ Sends(Msg("answer", i, gor[i].k, "complete"))
HandleNotification(m) ==
    CASE m.s = "unlisten" /\ subs # {} -> UNCHANGED task /\ \E i \in subs : CloseSubscription(i)
      [] m.s = "forget" /\ task # <<>> -> UNCHANGED <<subs, out>> /\ \E t \in DOMAIN task : CancelTask(t)
      [] OTHER -> UNCHANGED <<subs, out, task>>
RouteResponse(m) ==
    /\ pendS' = [pendS EXCEPT ![m.id] = 0]
    /\ gor' = IF pendS[m.id] = 0 THEN gor ELSE [gor EXCEPT ![pendS[m.id]].pc = "run"]
Serve ==
    LET m == in[inAt + 1] IN
    /\ MayRead /\ inAt < Len(in) /\ inAt' = inAt + 1
    /\ \/ /\ m.t = "req" /\ gor' = [gor EXCEPT ![m.id] = [pc |-> m.s, k |-> m.k, read |-> 0]]
          /\ UNCHANGED <<pendS, task, subs, out>>
       \/ m.t = "note" /\ HandleNotification(m) /\ UNCHANGED <<gor, pendS>>
       \/ m.t = "resp" /\ RouteResponse(m) /\ UNCHANGED <<task, subs, out>>
    /\ UNCHANGED <<in, outAt, client, conn, reqSeq, closing, serving, ev>>

(* Serve returns at the end of the input and closes all subscriptions; then *)
(* the process of a stdio server ends, and with it every goroutine.         *)
ServeEnds ==
    /\ serving /\ conn # "open" /\ inAt = Len(in)
    /\ serving' = FALSE /\ closing' = subs /\ subs' = {}
    /\ UNCHANGED <<in, out, inAt, outAt, client, conn, gor, reqSeq, pendS, task, ev>>
CloseEach(i) ==
    /\ i \in closing /\ closing' = closing \ {i} /\ Sends(Msg("answer", i, gor[i].k, "complete"))
    /\ UNCHANGED <<in, inAt, outAt, client, conn, gor, reqSeq, pendS, task, subs, serving, ev>>
Exit ==
    /\ ~serving /\ closing = {} /\ conn = "half" /\ conn' = "closed"
    /\ gor' = [i \in Ids |-> [pc |-> "none", k |-> NoCall, read |-> 0]] /\ subs' = {} /\ ev' = [ev EXCEPT !.todo = {}]
    /\ UNCHANGED <<in, out, inAt, outAt, client, reqSeq, pendS, task, closing, serving>>

(* callTool behind LimitConcurrency: a permit is held while the handler     *)
(* runs.  A handler answers at once, or first asks the client.              *)
(* (Mutated form: a permit is not given back.)                              *)
RunningLeaked == {i \in Ids : gor[i].k # NoCall /\ gor[i].pc \notin {"tool", "ask"}}
Running == {i \in Ids : gor[i].pc \in {"run", "asking", "asked", "work"}}
CallTool(i) ==
    /\ Cardinality(Running) < Limit
    /\ Step(i, "tool", "run") \/ Step(i, "ask", "asking")
    /\ UNCHANGED <<out, reqSeq, pendS, task, subs, ev>>
Return(i) ==
    /\ Step(i, "run", "none") /\ Answer(i, "ok")
    /\ UNCHANGED <<reqSeq, pendS, task, subs, ev>>

(* Server.Request: an id and a channel, the request, the answer or the end  *)
(* of the context.  Nothing makes that end come: it is Serve's own context, *)
(* unless the optional Timeout middleware bounds it.                        *)
Request(i) ==
    /\ reqSeq' = reqSeq + 1
    /\ IF conn \in {"open", "half"}
         THEN Step(i, "asking", "asked") /\ pendS' = [pendS EXCEPT ![reqSeq'] = i]
              /\ Sends(Msg("request", reqSeq', NoCall, "none"))
         ELSE Step(i, "asking", "run") /\ UNCHANGED <<out, pendS>>
    /\ UNCHANGED <<task, subs, ev>>
RequestEnds(i) ==
    /\ AskEnds /\ Step(i, "asked", "run") /\ pendS' = [r \in Ids |-> IF pendS[r] = i THEN 0 ELSE pendS[r]]
    /\ UNCHANGED <<out, reqSeq, task, subs, ev>>

-----------------------------------------------------------------------------
(* taskManager.start: the task is registered, its handle sent, and only then*)
(* its handler started.  (Mutated form: the handler runs before that.)      *)
Start(i) ==
    /\ Step(i, "task", "handle")
    /\ task' = Append(task, [status |-> "working", ctx |-> "live", steer |-> 0, id |-> i])
    /\ UNCHANGED <<out, reqSeq, pendS, subs, ev>>
SendHandle(i) ==
    /\ Step(i, "handle", "spawned") /\ Answer(i, "working")
    /\ UNCHANGED <<reqSeq, pendS, task, subs, ev>>
Begin(i) ==
    /\ Cardinality(Running) < Limit /\ Step(i, "spawned", "work")
    /\ UNCHANGED <<out, reqSeq, pendS, task, subs, ev>>
WorkingEarly == {"handle", "work"}
Working == {"work"}
TaskOf(i) == CHOOSE t \in DOMAIN task : task[t].id = i
(* The handler may report progress and read what it is steered by.          *)
Progress(i) ==
    /\ gor[i].pc \in Working /\ gor[i].read = 0 /\ gor' = [gor EXCEPT ![i].read = 1]
    /\ Sends(Msg("progress", i, gor[i].k, "none")) /\ task' = [task EXCEPT ![TaskOf(i)].steer = 0]
    /\ UNCHANGED <<in, inAt, outAt, client, conn, reqSeq, pendS, subs, closing, serving, ev>>
(* Its outcome: a context that ended wins over what the handler returned.   *)
Outcome(t) == IF task[t].ctx = "ended" THEN {"cancelled"} ELSE {"completed", "failed"}
End(i) ==
    /\ \/ Step(i, "work", "tell")
       \/ Step(i, "spawned", "tell") /\ task[TaskOf(i)].ctx = "ended"      \* no permit came
    /\ \E s \in Outcome(TaskOf(i)) : task' = [task EXCEPT ![TaskOf(i)].status = s, ![TaskOf(i)].ctx = "ended"]
    /\ UNCHANGED <<out, reqSeq, pendS, subs, ev>>
TellStatus(i) ==
    /\ Step(i, "tell", "none") /\ Sends(Msg("status", i, gor[i].k, task[TaskOf(i)].status))
    /\ UNCHANGED <<reqSeq, pendS, task, subs, ev>>

(* tasks/get, result, cancel and steer, of a task or of none.               *)
(* (Mutated form: cancelling sets the status.)                              *)
TaskCancelNow(t) == task' = [task EXCEPT ![t].ctx = "ended", ![t].status = "cancelled"]
TaskCancel(t) == CancelTask(t)
TaskGet(i) ==
    /\ Step(i, "get", "none") \/ Step(i, "result", "none")
    /\ IF task = <<>> THEN Answer(i, "unknown") ELSE \E t \in DOMAIN task : Answer(i, task[t].status)
    /\ UNCHANGED <<reqSeq, pendS, task, subs, ev>>
TaskChange(i) ==
    /\ Step(i, "cancel", "none")
    /\ IF task = <<>> THEN Answer(i, "unknown") /\ UNCHANGED task
       ELSE Answer(i, "cancelled") /\ \E t \in DOMAIN task : TaskCancel(t)
    /\ UNCHANGED <<reqSeq, pendS, subs, ev>>
(* steer reads the status under the task's mutex and queues after it.       *)
SteerCheck(i) ==
    /\ IF task # <<>> /\ \E t \in DOMAIN task : task[t].status = "working"
         THEN Step(i, "steer", "queue") /\ UNCHANGED out
         ELSE Step(i, "steer", "none") /\ Answer(i, "notready")
    /\ UNCHANGED <<reqSeq, pendS, task, subs, ev>>
Room(t) == task[t].steer < steerBuffer
SteerQueue(i) ==
    /\ Step(i, "queue", "none")
    /\ \E t \in DOMAIN task :
         IF Room(t) THEN task' = [task EXCEPT ![t].steer = @ + 1] /\ Answer(i, "steered")
         ELSE UNCHANGED task /\ Answer(i, "busy")
    /\ UNCHANGED <<reqSeq, pendS, subs, ev>>

-----------------------------------------------------------------------------
(* handleListen: registered under the mutex, then acknowledged; the request *)
(* stays open.  An id that is in the map is refused.                        *)
Listen(i) ==
    /\ Step(i, "listen", "ack") /\ subs' = subs \cup {i}
    /\ UNCHANGED <<out, reqSeq, pendS, task, ev>>
Acknowledge(i) ==
    /\ Step(i, "ack", "open") /\ Sends(Msg("ack", i, gor[i].k, "none"))
    /\ UNCHANGED <<reqSeq, pendS, task, subs, ev>>

(* deliverListChanged: the matching subscriptions are gathered under the    *)
(* mutex, then notified one by one.                                         *)
Changed ==
    /\ ev.todo = {} /\ ev.n < MaxChanges /\ subs # {} /\ ev' = [todo |-> subs, n |-> ev.n + 1]
    /\ UNCHANGED <<in, out, inAt, outAt, client, conn, gor, reqSeq, pendS, task, subs, closing, serving>>
Deliver(i) ==
    /\ i \in ev.todo /\ ev' = [ev EXCEPT !.todo = @ \ {i}] /\ Sends(Msg("event", i, gor[i].k, "none"))
    /\ UNCHANGED <<in, inAt, outAt, client, conn, gor, reqSeq, pendS, task, subs, closing, serving>>

Dispatch(i) ==
    \/ CallTool(i) \/ Return(i) \/ Request(i) \/ RequestEnds(i)
    \/ Start(i) \/ SendHandle(i) \/ Begin(i) \/ Progress(i) \/ End(i) \/ TellStatus(i)
    \/ TaskGet(i) \/ TaskChange(i) \/ SteerCheck(i) \/ SteerQueue(i)
    \/ Listen(i) \/ Acknowledge(i) \/ Deliver(i) \/ CloseEach(i)
Caller(k) == Register(k) \/ Write(k) \/ Answered(k) \/ PollAgain(k) \/ ConnDone(k) \/ Notify(k)
ClientLoop == ReadAnswer \/ Finish \/ \E r \in Ids : ServeInbound(r)
ServerLoop == Serve \/ ServeEnds \/ Exit
Next ==
    \/ ClientLoop \/ ServerLoop \/ Changed \/ \E how \in {"close", "half"} : Leave(how)
    \/ \E k \in Callers : Caller(k) \/ CtxDone(k) \/ PauseEnds(k)
    \/ \E i \in Ids : Dispatch(i)

-----------------------------------------------------------------------------
Sent(t, i) == {n \in 1..Len(out) : out[n].t = t /\ out[n].id = i}

(* What waits in a task's steer buffer fits; a task that ended has released *)
(* its context; a handler holds one of the Limit permits (tasks.go,         *)
(* middleware.go).                                                          *)
TypeOK ==
    /\ nextID \in 0..MaxIds /\ reqSeq \in 0..MaxIds /\ conn \in {"open", "half", "closed", "finished"}
    /\ \A t \in DOMAIN task : /\ task[t].steer <= steerBuffer
                              /\ task[t].status \in Terminal => task[t].ctx = "ended"
    /\ Cardinality({i \in Ids : gor[i].pc \in {"run", "asking", "asked", "work"}}) <= Limit

(* What a call receives is the answer to its own request, whatever is       *)
(* outstanding, given up or late, and each request is answered once         *)
(* (Call, readLoop, dispatch, closeSubscription).                           *)
OwnAnswer ==
    /\ \A k \in Callers : cl[k].ch # "other"
    /\ \A i \in Ids : Cardinality(Sent("answer", i)) <= 1

(* "the task's progress notifications can never precede its handle"         *)
(* (mcp/tasks.go:70): nor does the notification of its status.              *)
HandleFirst ==
    \A i \in Ids : \A n \in Sent("progress", i) \cup Sent("status", i) :
        \E h \in Sent("answer", i) : h < n

LinkHolds == OwnAnswer /\ HandleFirst

(* A task that has ended stays as it ended (start, taskCancel).             *)
TaskFinal ==
    \A t \in DOMAIN task : task[t].status \in Terminal => task'[t].status = task[t].status

(* "The acknowledgment is the first message on the stream"                  *)
(* (mcp/subscriptions.go:96).                                               *)
AckFirst ==
    \A i \in Ids : \A n \in Sent("event", i) \cup {m \in Sent("answer", i) : out[m].s = "complete"} :
        \E a \in Sent("ack", i) : a < n

(* "If ctx is cancelled it sends a best-effort notifications/cancelled      *)
(* carrying the task ID" (mcpclient/tasks.go:111-112).                      *)
CancelTold == \A k \in Callers : Kind[k] = "wait" /\ cl[k].pc = "ended" => cl[k].told

(* A call that was written returns, although no handler's context ever      *)
(* ends: the server reads on while handlers wait for the client, permits    *)
(* come back, and the end of the connection releases every caller (Serve,   *)
(* LimitConcurrency, finish).                                               *)
Waits(k) == Kind[k] # "listen" /\ cl[k].pc = "wait"
=============================================================================
