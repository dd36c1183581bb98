--------------------------------- MODULE Rpc ---------------------------------
(***************************************************************************)
(* The RPC path: the MCP server's tool calls, the client they share, the   *)
(* connections of the daemon, and the daemon's exits and restarts.         *)
(*                                                                         *)
(* toffee-mcp keeps one client in a mutex; every tool call takes it, sends *)
(* one request and waits.  The client's reader task hands each response to *)
(* the waiter with its id.  In the daemon one task per connection selects  *)
(* over the shutdown channel, the next request line and the next           *)
(* notification.  A connection that goes away fails its waiters, and       *)
(* call_with_retry then connects again and repeats the call once.          *)
(*                                                                         *)
(* Connections are numbered in the order they are made and never reused.   *)
(* What a line holds is left out; that it can be cut in two, and that a    *)
(* request or an answer can be longer than MAX_LINE_BYTES however often    *)
(* the call is repeated, is not.                                           *)
(***************************************************************************)
EXTENDS Integers, Sequences, FiniteSets

CONSTANTS
    Tools,       \* concurrent MCP tool calls
    Method,      \* the method each of them calls
    MaxConns,    \* bound: connections ever made
    MaxLong,     \* bound: calls with a line that is too long
    MaxFaults    \* bound: notifications, daemon exits, and those calls

\* DaemonHandler: methods that change the store when they succeed.
Mutating == {"append_event", "record_feedback", "add_memory", "forget_memory"}

\* DaemonHandler: methods that only read it.
Queries == {"list_memories", "get_memory", "search_memory", "read_context"}

\* Methods whose answers hold memories, and may be longer than a frame may be.
Telling == Queries \cup {"add_memory"}

\* method_names: of those the daemon understands, the ones with an MCP tool.
Methods == Mutating \cup Queries

ASSUME RpcAssumption ==
    /\ IsFiniteSet(Tools)
    /\ Method \in [Tools -> Methods]
    /\ MaxConns \in Nat
    /\ MaxLong \in Nat
    /\ MaxFaults \in Nat

VARIABLES
    call,      \* per tool call: where it is and what it holds
    client,    \* per connection: the client's end
    task,      \* per connection: the daemon's end
    cached,    \* Inner.client of toffee-mcp: a connection, or 0
    nconns,    \* connections made
    up,        \* the daemon runs
    stopping,  \* the shutdown message was sent
    faults,    \* bounded events so far
    size,      \* per tool call: which of its lines are longer than they may be
    effects,   \* history, per tool call: times its method took effect
    losses,    \* history, per tool call: connections it saw lost
    hasty      \* history: a connection was made to a daemon that was stopping

env == <<up, stopping, faults, size>>
history == <<effects, losses, hasty>>
vars == <<call, client, task, cached, nconns, env, history>>

Conns == 1..MaxConns

\* RpcError, as it reaches the caller.
Errors == {"invalid_params", "not_found", "internal"}

\* The responses.  Notifications, and the error with a null id, are passed over by
\* the reader and left out.
Frames == [kind : {"response", "big", "none"}, id : Nat,
           of : Tools \cup {"none"}, outcome : {"ok", "none"} \cup Errors]
NoFrame == [kind |-> "none", id |-> 0, of |-> "none", outcome |-> "none"]

\* conn and id: the client the call holds and its request id there; answer: the
\* response handed to its oneshot; result: what the agent was told.
Calls ==
    [pc : {"client", "insert", "write", "wait", "invalidate", "returned"},
     attempt : 1..2, conn : 0..MaxConns, id : Nat, answer : Frames,
     result : {"none", "ok", "invalid", "unreachable", "lost"} \cup Errors]

\* waiting: ids with a waiter; replies: frames on their way to the reader; endId:
\* history, nextId when the reader left its loop.
Clients == [reader : {"none", "running", "ended", "dropped"}, nextId : Nat,
            waiting : SUBSET Nat, replies : Seq(Frames), endId : Nat]
NewClient(r) == [reader |-> r, nextId |-> 1, waiting |-> {}, replies |-> <<>>,
                 endId |-> 0]
NoClient == NewClient("none")
DroppedClient == NewClient("dropped")

\* sent: the request lines written, read: how many of them are consumed; torn:
\* the first bytes of the next one are lost; busy: the response in the making;
\* notes: notifications queued.  History, noted: notifications written, served:
\* the places in sent of the lines dispatched.
Requests == [id : Nat, of : Tools]
ConnTasks == [state : {"none", "running", "closed"}, sent : Seq(Requests),
              read : Nat, torn : BOOLEAN, busy : Frames, notes : Nat,
              noted : Nat, served : Seq(Nat)]
NewTask(s) == [state |-> s, sent |-> <<>>, read |-> 0, torn |-> FALSE,
               busy |-> NoFrame, notes |-> 0, noted |-> 0, served |-> <<>>]
NoTask == NewTask("none")
ClosedTask == NewTask("closed")

\* A call's lines fit, its request is too long, or its answer may be.
Sizes == {"fits", "request", "answer"}

TypeOK ==
    /\ call \in [Tools -> Calls]
    /\ client \in [Conns -> Clients]
    /\ task \in [Conns -> ConnTasks]
    /\ \A c \in Conns : task[c].read <= Len(task[c].sent)
    /\ nconns \in 0..MaxConns
    /\ cached \in 0..nconns
    /\ up \in BOOLEAN /\ stopping \in BOOLEAN
    /\ faults \in 0..MaxFaults
    /\ size \in [Tools -> Sizes]
    /\ effects \in [Tools -> 0..2]
    /\ losses \in [Tools -> 0..2]
    /\ hasty \in BOOLEAN

\* Calls with a line that is, or may be, too long.
Long == {t \in Tools : size[t] # "fits"}

Init ==
    /\ call = [t \in Tools |-> [pc |-> "client", attempt |-> 1, conn |-> 0,
                                id |-> 0, answer |-> NoFrame, result |-> "none"]]
    /\ client = [c \in Conns |-> NoClient]
    /\ task = [c \in Conns |-> NoTask]
    /\ cached = 0
    /\ nconns = 0
    /\ up = TRUE
    /\ stopping = FALSE
    /\ faults = 0
    /\ size \in [Tools -> Sizes]
    /\ \A t \in Tools : size[t] = "answer" => Method[t] \in Telling
    /\ Cardinality(Long) <= MaxLong
    /\ effects = [t \in Tools |-> 0]
    /\ losses = [t \in Tools |-> 0]
    /\ hasty = FALSE

Fault == faults + Cardinality(Long) < MaxFaults /\ faults' = faults + 1

-----------------------------------------------------------------------------
(* A tool call of toffee-mcp.                                              *)

\* Drop for Client, run by whoever lets go of a client last: given the clients
\* cl, those no call and not the cache holds any more stop reading, and what
\* was on its way to them is gone.
DropUnheld(cl) ==
    client' = [c \in Conns |->
        IF /\ cl[c].reader # "none"
           /\ cached' # c
           /\ \A t \in Tools : call'[t].conn # c
        THEN DroppedClient
        ELSE cl[c]]

\* Call t returns r to the agent, its locals are dropped.
Return(t, r) ==
    call' = [call EXCEPT ![t] =
        [pc |-> "returned", attempt |-> @.attempt, conn |-> 0, id |-> 0,
         answer |-> NoFrame, result |-> r]]

\* A missing scope, or a kind, actor or feedback kind that does not parse, is
\* refused before the client is touched.
Reject(t) ==
    /\ call[t].pc = "client"
    /\ call[t].attempt = 1
    /\ Return(t, "invalid")
    /\ UNCHANGED <<client, task, cached, nconns, env, history>>

\* ToffeeMcp::client: the cached client is taken whatever its state.
TakeClient(t) ==
    /\ call[t].pc = "client"
    /\ cached # 0
    /\ cached' = cached
    /\ call' = [call EXCEPT ![t].pc = "insert", ![t].conn = cached]
    /\ DropUnheld(client)
    /\ UNCHANGED <<task, nconns, env, history>>

\* Client::connect_with and wrap, under the mutex.  The connection waits in the
\* listener's backlog until serve accepts it, which nobody can tell from a task
\* that has not read yet; the client's reader task starts.  A daemon that is
\* stopping still listens until serve sees the shutdown.
Connect(t) ==
    /\ call[t].pc = "client"
    /\ cached = 0
    /\ up
    /\ nconns < MaxConns
    /\ nconns' = nconns + 1
    /\ cached' = nconns + 1
    /\ call' = [call EXCEPT ![t].pc = "insert", ![t].conn = nconns + 1]
    /\ task' = [task EXCEPT ![nconns + 1].state = "running"]
    /\ DropUnheld([client EXCEPT ![nconns + 1].reader = "running"])
    /\ hasty' = (hasty \/ stopping)
    /\ UNCHANGED <<env, effects, losses>>

\* No daemon came up before the connect timeout.
ConnectFails(t) ==
    /\ call[t].pc = "client"
    /\ cached = 0
    /\ ~up \/ stopping
    /\ cached' = cached
    /\ Return(t, "unreachable")
    /\ DropUnheld(client)
    /\ UNCHANGED <<task, nconns, env, history>>

\* A bug: next_id is read and not advanced.
InsertSameId(t) ==
    LET c == call[t].conn IN
    /\ call[t].pc = "insert"
    /\ call' = [call EXCEPT ![t].pc = "write", ![t].id = client[c].nextId]
    /\ client' = [client EXCEPT ![c].waiting = @ \cup {client[c].nextId}]
    /\ UNCHANGED <<task, cached, nconns, env, history>>

\* Client::call takes an id and registers its waiter.
Insert(t) ==
    LET c == call[t].conn IN
    /\ call[t].pc = "insert"
    /\ call' = [call EXCEPT ![t].pc = "write", ![t].id = client[c].nextId]
    /\ client' = [client EXCEPT ![c].waiting = @ \cup {client[c].nextId},
                                ![c].nextId = @ + 1]
    /\ UNCHANGED <<task, cached, nconns, env, history>>

\* framing::write_message under the writer lock; the daemon's end is open.
Write(t) ==
    LET c == call[t].conn IN
    /\ call[t].pc = "write"
    /\ task[c].state = "running"
    /\ call' = [call EXCEPT ![t].pc = "wait"]
    /\ task' = [task EXCEPT ![c].sent = Append(@, [id |-> call[t].id, of |-> t])]
    /\ UNCHANGED <<client, cached, nconns, env, history>>

\* A bug: the first loss is reported to the agent.
LoseAtOnce(t, cl) ==
    /\ losses' = [losses EXCEPT ![t] = @ + 1]
    /\ cached' = cached
    /\ Return(t, "lost")
    /\ DropUnheld(cl)
    /\ UNCHANGED <<task, nconns, env, effects, hasty>>

\* The match of call_with_retry on Closed or Io: once more, then give up.
Lose(t, cl) ==
    /\ losses' = [losses EXCEPT ![t] = @ + 1]
    /\ cached' = cached
    /\ IF call[t].attempt = 1
       THEN call' = [call EXCEPT ![t].pc = "invalidate"]
       ELSE Return(t, "lost")
    /\ DropUnheld(cl)
    /\ UNCHANGED <<task, nconns, env, effects, hasty>>

\* The daemon's end is closed: the waiter is removed and Io is returned.
WriteFails(t) ==
    LET c == call[t].conn IN
    /\ call[t].pc = "write"
    /\ task[c].state = "closed"
    /\ Lose(t, [client EXCEPT ![c].waiting = @ \ {call[t].id}])

\* rx.await yields Closed: the reader dropped the sender.
Closed(t) ==
    /\ call[t].pc = "wait"
    /\ call[t].answer = NoFrame
    /\ call[t].id \notin client[call[t].conn].waiting
    /\ Lose(t, client)

\* A bug: the call is repeated after an error answer too.
AnsweredRetries(t) ==
    /\ call[t].pc = "wait"
    /\ call[t].answer # NoFrame
    /\ cached' = cached
    /\ IF call[t].answer.outcome # "ok" /\ call[t].attempt = 1
       THEN call' = [call EXCEPT ![t].pc = "invalidate"]
       ELSE Return(t, call[t].answer.outcome)
    /\ DropUnheld(client)
    /\ UNCHANGED <<task, nconns, env, history>>

\* rx.await yields the response; an error response is final.
Answered(t) ==
    /\ call[t].pc = "wait"
    /\ call[t].answer # NoFrame
    /\ cached' = cached
    /\ Return(t, call[t].answer.outcome)
    /\ DropUnheld(client)
    /\ UNCHANGED <<task, nconns, env, history>>

\* invalidate_client drops whatever is cached, then client() is asked again.
Invalidate(t) ==
    /\ call[t].pc = "invalidate"
    /\ cached' = 0
    /\ call' = [call EXCEPT ![t].pc = "client", ![t].attempt = 2, ![t].id = 0,
                            ![t].answer = NoFrame]
    /\ DropUnheld(client)
    /\ UNCHANGED <<task, nconns, env, history>>

-----------------------------------------------------------------------------
(* The client's reader task: reader_loop.                                  *)

\* A response goes to the waiter with its id, if there is one.
ReadFrame(c) ==
    /\ client[c].reader = "running"
    /\ client[c].replies # <<>>
    /\ Head(client[c].replies).kind # "big"
    /\ LET f == Head(client[c].replies)
       IN  /\ client' = [client EXCEPT ![c].replies = Tail(@),
                                       ![c].waiting = @ \ {f.id}]
           /\ IF f.id \in client[c].waiting
              THEN \E t \in Tools :
                       /\ call[t].conn = c /\ call[t].id = f.id
                       /\ call' = [call EXCEPT ![t].answer = f]
              ELSE call' = call
    /\ UNCHANGED <<task, cached, nconns, env, history>>

\* The loop is left on a frame longer than MAX_LINE_BYTES or at the end of the
\* stream.
LoopEnds(c) ==
    /\ client[c].reader = "running"
    /\ IF client[c].replies = <<>> THEN task[c].state = "closed"
                                   ELSE Head(client[c].replies).kind = "big"

\* A bug: the outstanding requests are not failed.
EndReaderNoDrain(c) ==
    /\ LoopEnds(c)
    /\ client' = [client EXCEPT ![c].reader = "ended", ![c].replies = <<>>,
                                ![c].endId = client[c].nextId]
    /\ UNCHANGED <<call, task, cached, nconns, env, history>>

\* After the loop the outstanding requests are failed.  What is in the stream is
\* read by nobody.
EndReader(c) ==
    /\ LoopEnds(c)
    /\ client' = [client EXCEPT ![c].reader = "ended", ![c].waiting = {},
                                ![c].replies = <<>>, ![c].endId = client[c].nextId]
    /\ UNCHANGED <<call, task, cached, nconns, env, history>>

-----------------------------------------------------------------------------
(* The daemon's connection task: handle_connection.                        *)

\* The task is at its select!.
Selecting(c) == task[c].state = "running" /\ task[c].busy = NoFrame

\* What the handler of a method may answer.
Outcomes(m) ==
    CASE m = "append_event" -> {"ok", "internal"}
      [] m = "add_memory" -> {"ok", "invalid_params", "internal"}
      [] m \in {"record_feedback", "forget_memory", "get_memory"} ->
             {"ok", "not_found", "internal"}
      [] m \in Queries \ {"get_memory"} -> {"ok", "internal"}

\* The effect of one execution of call t with outcome o: a handler may fail
\* before or after its first change.
Effect(t, o) ==
    \/ o # "ok" /\ UNCHANGED effects
    \/ /\ o \in {"ok", "internal"}
       /\ effects' = IF Method[t] \in Mutating
                     THEN [effects EXCEPT ![t] = @ + 1] ELSE effects

\* The next line is there as a whole.
LineReady(c) == ~task[c].torn /\ task[c].read < Len(task[c].sent)

\* The request in it.
NextLine(c) == task[c].sent[task[c].read + 1]

\* dispatch runs the handler of the next request.  Its answer is still to be
\* written.
Dispatch(c) ==
    /\ Selecting(c)
    /\ LineReady(c)
    /\ LET r == NextLine(c)
       IN  /\ size[r.of] # "request"
           /\ \E o \in Outcomes(Method[r.of]), k \in {"response", "big"} :
                  /\ k = "big" => size[r.of] = "answer" /\ o = "ok"
                  /\ task' = [task EXCEPT ![c].read = @ + 1,
                        ![c].served = Append(@, task[c].read + 1),
                        ![c].busy = [kind |-> k, id |-> r.id, of |-> r.of,
                                     outcome |-> o]]
                  /\ Effect(r.of, o)
    /\ UNCHANGED <<call, client, cached, nconns, env, losses, hasty>>

\* A response is written towards the client of connection c, if somebody reads.
Push(c, f) ==
    client' = IF client[c].reader = "running"
              THEN [client EXCEPT ![c].replies = Append(@, f)]
              ELSE client

\* write_message of the response.
Reply(c) ==
    /\ task[c].state = "running"
    /\ task[c].busy # NoFrame
    /\ Push(c, task[c].busy)
    /\ task' = [task EXCEPT ![c].busy = NoFrame]
    /\ UNCHANGED <<call, cached, nconns, env, history>>

\* An error with a null id is written and the connection is closed.
Refuse(c) ==
    /\ task' = [task EXCEPT ![c] = ClosedTask]
    /\ UNCHANGED <<call, client, cached, nconns, env, history>>

\* read_message fails on a line longer than MAX_LINE_BYTES.
RefuseLong(c) ==
    /\ Selecting(c)
    /\ LineReady(c)
    /\ size[NextLine(c).of] = "request"
    /\ Refuse(c)

\* The rest of a torn line holds more than its newline, and does not parse.
ReadTorn(c) ==
    /\ Selecting(c)
    /\ task[c].torn
    /\ Refuse(c)

\* Only the newline of a torn line is left: read_message passes over it as over
\* a blank line, and the connection goes on without the request.
SkipBlank(c) ==
    /\ Selecting(c)
    /\ task[c].torn
    /\ task' = [task EXCEPT ![c].read = @ + 1, ![c].torn = FALSE]
    /\ UNCHANGED <<call, client, cached, nconns, env, history>>

\* A bug: each read starts with a new BufReader, and the lines the last one held
\* are lost with it.
SendNotificationLosesBuffer(c) ==
    /\ Selecting(c)
    /\ task[c].notes > 0
    /\ \E n \in task[c].read..Len(task[c].sent) :
           task' = [task EXCEPT ![c].notes = @ - 1, ![c].noted = @ + 1, ![c].read = n]
    /\ UNCHANGED <<call, client, cached, nconns, env, history>>

\* The notification branch wins: the frame is written, and the read_message
\* future is dropped together with the bytes of the next line it had read.
SendNotification(c) ==
    /\ Selecting(c)
    /\ task[c].notes > 0
    /\ \E b \in {task[c].torn, task[c].read < Len(task[c].sent)} :
           task' = [task EXCEPT ![c].notes = @ - 1, ![c].noted = @ + 1,
                                ![c].torn = b]
    /\ UNCHANGED <<call, client, cached, nconns, env, history>>

\* write_message fails: the client was dropped.  A write just before its stream is
\* closed still succeeds.
TaskWriteFails(c) ==
    /\ task[c].state = "running"
    /\ task[c].busy # NoFrame \/ task[c].notes > 0
    /\ client[c].reader = "dropped"
    /\ task' = [task EXCEPT ![c] = ClosedTask]
    /\ UNCHANGED <<call, client, cached, nconns, env, history>>

\* read_message returns None: the client was dropped and nothing is left.
ServerEof(c) ==
    /\ Selecting(c)
    /\ client[c].reader = "dropped"
    /\ task[c].read = Len(task[c].sent)
    /\ task' = [task EXCEPT ![c] = ClosedTask]
    /\ UNCHANGED <<call, client, cached, nconns, env, history>>

\* The shutdown branch wins, or serve ended with the connection in its backlog:
\* lines not yet read stay unanswered.  Nobody owes this: a task spawned after
\* the broadcast has a receiver that never gets it.
CloseOnShutdown(c) ==
    /\ stopping
    /\ Selecting(c)
    /\ task' = [task EXCEPT ![c] = ClosedTask]
    /\ UNCHANGED <<call, client, cached, nconns, env, history>>

-----------------------------------------------------------------------------
(* The daemon around it.                                                   *)

\* Inner::emit: every connection task with a receiver gets the notification.
Emit ==
    /\ up
    /\ Fault
    /\ task' = [c \in Conns |->
           IF task[c].state = "running" THEN [task[c] EXCEPT !.notes = @ + 1]
                                        ELSE task[c]]
    /\ UNCHANGED <<call, client, cached, nconns, up, stopping, size, history>>

\* The shutdown message is broadcast.
Shutdown ==
    /\ up /\ ~stopping
    /\ Fault
    /\ stopping' = TRUE
    /\ UNCHANGED <<call, client, task, cached, nconns, up, size, history>>

\* The process ends, killed or at the end of run: connection tasks are dropped
\* where they are, responses in the making included.
Exit ==
    /\ up
    /\ IF stopping THEN faults' = faults ELSE Fault
    /\ up' = FALSE
    /\ stopping' = FALSE
    /\ task' = [c \in Conns |-> IF task[c].state = "none" THEN NoTask
                                                          ELSE ClosedTask]
    /\ UNCHANGED <<call, client, cached, nconns, size, history>>

\* A daemon is started, by the client's auto-spawn or by the user.
Start ==
    /\ ~up
    /\ up' = TRUE
    /\ UNCHANGED <<call, client, task, cached, nconns, stopping, faults, size,
                   history>>

-----------------------------------------------------------------------------
CallStep(t) ==
    \/ TakeClient(t) \/ Connect(t) \/ ConnectFails(t) \/ Insert(t) \/ Write(t)
    \/ WriteFails(t) \/ Answered(t) \/ Closed(t) \/ Invalidate(t)

ReaderStep(c) == ReadFrame(c) \/ EndReader(c)

TaskStep(c) ==
    \/ Dispatch(c) \/ Reply(c) \/ RefuseLong(c) \/ ReadTorn(c) \/ SkipBlank(c)
    \/ SendNotification(c) \/ TaskWriteFails(c) \/ ServerEof(c)

Next ==
    \/ \E t \in Tools : Reject(t) \/ CallStep(t)
    \/ \E c \in Conns : ReaderStep(c) \/ TaskStep(c) \/ CloseOnShutdown(c)
    \/ Emit \/ Shutdown \/ Exit \/ Start

Spec == Init /\ [][Next]_vars

\* Tokio schedules every call, reader and connection task.  Nothing is owed by
\* whoever stops or starts the daemon.
FairSpec ==
    /\ Spec
    /\ \A t \in Tools : WF_vars(CallStep(t))
    /\ \A c \in Conns : WF_vars(ReaderStep(c)) /\ WF_vars(TaskStep(c))

-----------------------------------------------------------------------------
(* What a caller is promised.                                              *)

\* A response reaches the call it answers: what a tool reports was computed for
\* its own request, across shared clients, reconnects and late answers
\* (Client::call, reader_loop).
OwnAnswer ==
    \A t \in Tools : call[t].answer # NoFrame => call[t].answer.of = t

\* A connection executes its request lines in the order they were written, none
\* twice, and passes over at most one of them for each notification it wrote
\* (handle_connection: the select! drops what read_message had of one line, and
\* no more).
RequestsInOrder ==
    \A c \in Conns :
        LET k == task[c] IN
        /\ \A i, j \in DOMAIN k.served : i < j => k.served[i] < k.served[j]
        /\ k.read <= Len(k.served) + k.noted

\* A tool call takes effect at most once more than it lost connections: it is
\* repeated after a loss and never after an answer (call_with_retry).
RepeatedOnlyAfterLoss ==
    \A t \in Tools : effects[t] <= 1 + losses[t]

\* One fault is never visible to the agent: a kill or shutdown of the daemon, or
\* a request line torn by a notification, makes no call report a lost connection,
\* whoever shares the client, as long as all lines fit and nobody connects to a
\* daemon that is stopping (call_with_retry, ToffeeMcp::client,
\* invalidate_client).  A line that is too long is so again when the call is
\* repeated, and fails the calls that share its client.
OneFaultHidden ==
    faults <= 1 /\ ~hasty /\ (\A t \in Tools : size[t] = "fits")
        => \A t \in Tools : call[t].result # "lost"

\* Call t waits on a client whose reader left the loop, on a frame that is too
\* long, before the call registered there.
Unheard(t) ==
    /\ call[t].pc = "wait"
    /\ call[t].conn # 0
    /\ client[call[t].conn].reader = "ended"
    /\ call[t].id >= client[call[t].conn].endId

\* Call t waits for the answer to a line that was read and not executed: a
\* notification tore it down to the newline.
PassedOver(t) ==
    LET k == task[call[t].conn] IN
    /\ call[t].pc = "wait"
    /\ call[t].conn # 0
    /\ \E i \in 1..k.read :
           /\ k.sent[i].id = call[t].id
           /\ \A j \in DOMAIN k.served : k.served[j] # i

\* Every tool call returns, with an answer or an error, unless it waits for ever
\* for a reader that has gone or for a line that was passed over (reader_loop
\* fails the outstanding requests, call_with_retry gives up after the second
\* loss; Client::call has no timeout).
CallsReturn ==
    \A t \in Tools :
        (call[t].pc = "client") ~>
            \/ call[t].pc = "returned"
            \/ [](Unheard(t) \/ PassedOver(t))

\* The same without the excuses: what "Get a live client, reconnecting if the
\* previous one died" promises of every call.
CallsAlwaysReturn ==
    \A t \in Tools : (call[t].pc = "client") ~> (call[t].pc = "returned")
=============================================================================
