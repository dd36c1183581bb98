------------------------------ MODULE RpcProofs ------------------------------
(***************************************************************************)
(* Proofs about the RPC path, for any number of tool calls, connections    *)
(* and faults.                                                             *)
(***************************************************************************)
EXTENDS Rpc, FiniteSetTheorems, TLAPS

\* TypeOK without the bounds on the two counters, which are what CountInv is for.
Typed ==
    /\ call \in [Tools -> Calls]
    /\ client \in [Conns -> Clients]
    /\ task \in [Conns -> ConnTasks]
    /\ \A c \in Conns : task[c].read <= Len(task[c].sent)
    /\ nconns \in 0..MaxConns
    /\ cached \in 0..nconns
    /\ up \in BOOLEAN /\ stopping \in BOOLEAN
    /\ faults \in 0..MaxFaults
    /\ size \in [Tools -> Sizes]
    /\ effects \in [Tools -> Nat]
    /\ losses \in [Tools -> Nat]
    /\ hasty \in BOOLEAN

\* Client c was made and is not dropped.
Alive(c) == client[c].reader \in {"running", "ended"}

\* Clients that are cached or held by a call are alive, connections not made yet
\* are blank, and a call has an id from Insert until it gives up the connection.
HoldInv ==
    /\ cached # 0 => Alive(cached)
    /\ \A t \in Tools :
           /\ call[t].conn <= nconns
           /\ call[t].conn # 0 => Alive(call[t].conn)
           /\ call[t].pc \in {"insert", "write", "wait"} => call[t].conn # 0
           /\ call[t].pc \in {"client", "insert"} => call[t].id = 0
           /\ call[t].pc \in {"write", "wait"} => call[t].id # 0
    /\ \A c \in Conns : c > nconns => client[c] = NoClient /\ task[c] = NoTask

\* Ids of a client are given out once.
IdInv ==
    /\ \A c \in Conns : Alive(c) => client[c].nextId > 0
    /\ \A t \in Tools : call[t].conn # 0 => call[t].id < client[call[t].conn].nextId
    /\ \A t, u \in Tools :
           call[t].conn # 0 /\ call[t].conn = call[u].conn
              /\ call[t].id # 0 /\ call[t].id = call[u].id => t = u

\* Request or answer f of connection c belongs to the call that holds its id.
Owned(c, f) ==
    /\ f.id \in 1..(client[c].nextId - 1)
    /\ \A t \in Tools : call[t].conn = c /\ call[t].id = f.id => f.of = t

\* So do all lines and frames on their way.
FrameInv ==
    \A c \in Conns : Alive(c) =>
        /\ \A i \in DOMAIN task[c].sent : Owned(c, task[c].sent[i])
        /\ task[c].busy # NoFrame => Owned(c, task[c].busy)
        /\ \A i \in DOMAIN client[c].replies : Owned(c, client[c].replies[i])

\* Connection task k served lines it has read, in order; all but one for each
\* notification it wrote, the line that is torn counted with those passed over.
Ordered(k) ==
    /\ k.torn => k.read < Len(k.sent)
    /\ k.read + (IF k.torn THEN 1 ELSE 0) <= Len(k.served) + k.noted
    /\ \A i \in DOMAIN k.served : k.served[i] <= k.read
    /\ \A i, j \in DOMAIN k.served : i < j => k.served[i] < k.served[j]

ServedInv == \A c \in Conns : Ordered(task[c])

\* The lines of call t that wait to be read.
Unread(t) ==
    {l \in Conns \X Nat :
        /\ l[2] \in (task[l[1]].read + 1)..Len(task[l[1]].sent)
        /\ task[l[1]].sent[l[2]].of = t}

\* Lines call t has written, at most.
Written(t) ==
    IF call[t].pc \in {"client", "insert", "write"} THEN call[t].attempt - 1
                                                    ELSE call[t].attempt

\* A line takes effect once, when it is read,
LinesCounted(t) ==
    /\ IsFiniteSet(Unread(t))
    /\ effects[t] + Cardinality(Unread(t)) <= Written(t)

\* and a second one is written only after a loss.
LossesCounted(t) ==
    /\ call[t].pc # "returned" =>
           losses[t] = IF call[t].attempt = 2 \/ call[t].pc = "invalidate" THEN 1 ELSE 0
    /\ call[t].pc = "invalidate" => call[t].attempt = 1
    /\ call[t].pc = "returned" => losses[t] <= 2 /\ Written(t) <= 1 + losses[t]

CountInv == \A t \in Tools : LinesCounted(t) /\ LossesCounted(t)

\* A connection task moves, or the daemon's shutdown closes it.
TaskMoves(c) == TaskStep(c) \/ CloseOnShutdown(c)

IInv == Typed /\ HoldInv /\ IdInv /\ FrameInv /\ OwnAnswer /\ ServedInv /\ CountInv

-----------------------------------------------------------------------------
(* Blank records, and letting go of clients.                               *)

\* The blank frames, clients and tasks are well typed.
LEMMA BlankTyped ==
    /\ NoFrame \in Frames
    /\ NoClient \in Clients /\ DroppedClient \in Clients
    /\ NoTask \in ConnTasks /\ ClosedTask \in ConnTasks
<1>1. NoFrame \in Frames
  BY DEF NoFrame, Frames
<1>4. NoClient \in Clients /\ DroppedClient \in Clients
  BY DEF NoClient, DroppedClient, NewClient, Clients
<1>5. NoTask \in ConnTasks /\ ClosedTask \in ConnTasks
  BY <1>1 DEF NoTask, ClosedTask, NewTask, ConnTasks
<1> QED
  BY <1>1, <1>4, <1>5

\* Dropping clients keeps the state well typed.
LEMMA DropTyped ==
    ASSUME NEW cl \in [Conns -> Clients], DropUnheld(cl)
    PROVE  client' \in [Conns -> Clients]
BY BlankTyped DEF DropUnheld

\* A client that is alive afterwards was left alone, and one that is still held
\* is not dropped.
LEMMA DropKeeps ==
    ASSUME NEW cl \in [Conns -> Clients], DropUnheld(cl), NEW c \in Conns
    PROVE  /\ Alive(c)' => client'[c] = cl[c]
           /\ cached' = c \/ (\E t \in Tools : call'[t].conn = c) => client'[c] = cl[c]
           /\ cl[c] = NoClient => client'[c] = NoClient
<1>1. DroppedClient.reader = "dropped" /\ NoClient.reader = "none"
  BY DEF DroppedClient, NoClient, NewClient
<1> QED
  BY <1>1 DEF DropUnheld, Alive

\* A call that returns stays well typed.
LEMMA ReturnTyped ==
    ASSUME call \in [Tools -> Calls], NEW t \in Tools,
           NEW r \in {"none", "ok", "invalid", "unreachable", "lost"} \cup Errors,
           Return(t, r)
    PROVE  call' \in [Tools -> Calls]
<1>1. call[t].attempt \in 1..2
  BY DEF Calls
<1>2. [pc |-> "returned", attempt |-> call[t].attempt, conn |-> 0, id |-> 0,
       answer |-> NoFrame, result |-> r] \in Calls
  BY <1>1, BlankTyped, RpcAssumption DEF Calls
<1> QED
  BY <1>2 DEF Return

-----------------------------------------------------------------------------
(* Type correctness.                                                       *)

\* A task that changes and reads no more than was sent, stays well typed.
LEMMA TaskTyped ==
    ASSUME task \in [Conns -> ConnTasks], NEW c \in Conns, NEW r \in ConnTasks,
           \A d \in Conns : task[d].read <= Len(task[d].sent),
           r.read <= Len(r.sent), task' = [task EXCEPT ![c] = r]
    PROVE  /\ task' \in [Conns -> ConnTasks]
           /\ \A d \in Conns : task'[d].read <= Len(task'[d].sent)
OBVIOUS

\* A fault is counted, up to the bound.
LEMMA FaultTyped ==
    ASSUME Typed, Fault
    PROVE  faults' = faults + 1 /\ faults' \in 0..MaxFaults
<1>1. Cardinality(Long) \in Nat
  <2>1. Long \subseteq Tools
    BY DEF Long
  <2> QED
    BY <2>1, RpcAssumption, FS_Subset, FS_CardinalityType
<1> QED
  BY <1>1, RpcAssumption DEF Fault, Typed

LEMMA TypedInit == Init => Typed
<1> SUFFICES ASSUME Init PROVE Typed
  OBVIOUS
<1>1. call \in [Tools -> Calls]
  BY BlankTyped, RpcAssumption DEF Init, Calls
<1>2. /\ client \in [Conns -> Clients]
      /\ task \in [Conns -> ConnTasks]
      /\ \A c \in Conns : task[c].read <= Len(task[c].sent)
  BY BlankTyped DEF Init, NoTask, NewTask
<1>3. /\ nconns \in 0..MaxConns /\ cached \in 0..nconns /\ faults \in 0..MaxFaults
      /\ effects \in [Tools -> Nat] /\ losses \in [Tools -> Nat]
      /\ size \in [Tools -> Sizes]
  BY RpcAssumption DEF Init
<1>4. up \in BOOLEAN /\ stopping \in BOOLEAN /\ hasty \in BOOLEAN
  BY DEF Init
<1> QED
  BY <1>1, <1>2, <1>3, <1>4 DEF Typed

\* The steps of the tool calls keep the state well typed.
LEMMA TypedCall ==
    ASSUME Typed, HoldInv, NEW t \in Tools, Reject(t) \/ CallStep(t)
    PROVE  Typed'
<1> USE DEF env, history
<1>0. /\ call[t] \in Calls
      /\ call[t].pc \in {"insert", "write", "wait"} => call[t].conn \in Conns
      /\ MaxConns \in Nat /\ cached \in 0..MaxConns
      /\ call \in [Tools -> Calls] /\ client \in [Conns -> Clients]
  BY RpcAssumption DEF Typed, HoldInv, Calls, Conns
<1>1. CASE Reject(t)
  BY <1>1, ReturnTyped DEF Reject, Typed
<1>2. CASE TakeClient(t)
  <2>1. call' \in [Tools -> Calls]
    BY <1>0, <1>2 DEF TakeClient, Typed, Calls
  <2> QED
    BY <1>2, <2>1, DropTyped DEF TakeClient, Typed
<1>3. CASE Connect(t)
  <2>0. nconns + 1 \in Conns
    BY <1>3, <1>0 DEF Connect, Typed, Conns
  <2>1. call' = [call EXCEPT ![t].pc = "insert", ![t].conn = nconns + 1]
    BY <1>3 DEF Connect
  <2>1a. call' \in [Tools -> Calls]
    <3>1. nconns + 1 \in 0..MaxConns
      BY <1>0, <2>0 DEF Conns
    <3> QED
      BY <1>0, <2>1, <3>1 DEF Calls
  <2>2. task' \in [Conns -> ConnTasks] /\ \A c \in Conns : task'[c].read <= Len(task'[c].sent)
    <3> DEFINE n == nconns + 1
    <3>1. n \in Conns /\ task' = [task EXCEPT ![n].state = "running"]
      BY <1>3, <2>0 DEF Connect
    <3> HIDE DEF n
    <3>0. task \in [Conns -> ConnTasks] /\ \A d \in Conns : task[d].read <= Len(task[d].sent)
      BY DEF Typed
    <3>2. task[n] \in ConnTasks /\ task[n].read <= Len(task[n].sent)
      BY <3>0, <3>1
    <3> DEFINE e == [task[n] EXCEPT !.state = "running"]
    <3>3. e \in ConnTasks /\ e.read <= Len(e.sent)
      BY <3>2 DEF ConnTasks
    <3>4. task' = [task EXCEPT ![n] = e]
      BY <3>0, <3>1
    <3> HIDE DEF e
    <3> QED
      BY <3>0, <3>1, <3>3, <3>4, TaskTyped
  <2>3. [client EXCEPT ![nconns + 1].reader = "running"] \in [Conns -> Clients]
    BY <2>0 DEF Typed, Clients
  <2>4. client' \in [Conns -> Clients]
    BY <1>3, <2>3, DropTyped DEF Connect
  <2>5. hasty' \in BOOLEAN
    BY <1>3, Zenon DEF Connect
  <2> QED
    BY <1>0, <1>3, <2>0, <2>1a, <2>2, <2>4, <2>5 DEF Connect, Typed, Conns
<1>4. CASE ConnectFails(t)
  BY <1>4, ReturnTyped, DropTyped DEF ConnectFails, Typed
<1>5. CASE Insert(t)
  <2>0. client[call[t].conn].nextId \in Nat
    BY <1>0, <1>5 DEF Insert, Typed, Clients
  <2>1. call' \in [Tools -> Calls]
    <3> DEFINE n == client[call[t].conn].nextId
    <3>1. n \in Nat /\ call' = [call EXCEPT ![t].pc = "write", ![t].id = n]
      BY <2>0, <1>5 DEF Insert
    <3> HIDE DEF n
    <3> QED
      BY <1>0, <3>1 DEF Calls
  <2>2. client' \in [Conns -> Clients]
    <3> DEFINE c == call[t].conn
    <3>1. /\ c \in Conns
          /\ client[c].waiting \cup {client[c].nextId} \in SUBSET Nat
          /\ client[c].nextId + 1 \in Nat
      BY <1>0, <1>5, <2>0 DEF Insert, Clients
    <3>2. client' = [client EXCEPT ![c].waiting = @ \cup {client[c].nextId},
                                   ![c].nextId = client[c].nextId + 1]
      BY <1>0, <1>5, <3>1 DEF Insert, Clients
    <3> DEFINE w == client[c].waiting \cup {client[c].nextId}
               n == client[c].nextId + 1
    <3>3. w \in SUBSET Nat /\ n \in Nat
      BY <3>1
    <3>4. client' = [client EXCEPT ![c].waiting = w, ![c].nextId = n]
      BY <3>2
    <3> HIDE DEF c, w, n
    <3> QED
      BY <1>0, <3>1, <3>3, <3>4 DEF Clients
  <2> QED
    BY <1>5, <2>1, <2>2 DEF Insert, Typed
<1>6. CASE Write(t)
  <2>1. call' \in [Tools -> Calls]
    BY <1>0, <1>6 DEF Write, Typed, Calls
  <2>2. [id |-> call[t].id, of |-> t] \in Requests
    BY <1>0 DEF Calls, Requests
  <2>3. task' = [task EXCEPT ![call[t].conn].sent = Append(@, [id |-> call[t].id, of |-> t])]
    BY <1>6 DEF Write
  <2>4. /\ task[call[t].conn].sent \in Seq(Requests)
        /\ Append(task[call[t].conn].sent, [id |-> call[t].id, of |-> t]) \in Seq(Requests)
        /\ Len(Append(task[call[t].conn].sent, [id |-> call[t].id, of |-> t]))
              = Len(task[call[t].conn].sent) + 1
    BY <1>0, <1>6, <2>2 DEF Write, Typed, ConnTasks
  <2>5. task' \in [Conns -> ConnTasks]
    <3> DEFINE c == call[t].conn
               s == Append(task[c].sent, [id |-> call[t].id, of |-> t])
    <3>1. s \in Seq(Requests) /\ task' = [task EXCEPT ![c].sent = s]
      BY <2>3, <2>4
    <3> HIDE DEF c, s
    <3> QED
      BY <3>1 DEF Typed, ConnTasks
  <2>6. \A c \in Conns : task'[c].read <= Len(task'[c].sent)
    BY <2>3, <2>4 DEF Typed, ConnTasks
  <2> QED
    BY <1>6, <2>1, <2>5, <2>6 DEF Write, Typed
<1>7. ASSUME NEW cl \in [Conns -> Clients], Lose(t, cl) PROVE Typed'
  <2>1. call' \in [Tools -> Calls]
    <3>1. CASE Return(t, "lost")
      BY <3>1, ReturnTyped DEF Typed
    <3>2. CASE call' = [call EXCEPT ![t].pc = "invalidate"]
      BY <1>0, <3>2 DEF Typed, Calls
    <3> QED
      BY <1>7, <3>1, <3>2 DEF Lose
  <2>2. losses' \in [Tools -> Nat]
    BY <1>7 DEF Lose, Typed
  <2> QED
    BY <1>7, <2>1, <2>2, DropTyped DEF Lose, Typed
<1>8. CASE WriteFails(t)
  <2>1. [client EXCEPT ![call[t].conn].waiting = @ \ {call[t].id}] \in [Conns -> Clients]
    BY <1>0, <1>8 DEF WriteFails, Typed, Clients
  <2> QED
    BY <1>7, <1>8, <2>1 DEF WriteFails
<1>9. CASE Closed(t)
  BY <1>7, <1>9 DEF Closed, Typed
<1>10. CASE Answered(t)
  <2>1. call[t].answer.outcome \in {"ok", "none"} \cup Errors
    BY <1>0 DEF Calls, Frames
  <2> QED
    BY <1>10, <2>1, ReturnTyped, DropTyped DEF Answered, Typed
<1>11. CASE Invalidate(t)
  <2>0. call' = [call EXCEPT ![t].pc = "client", ![t].attempt = 2, ![t].id = 0,
                             ![t].answer = NoFrame]
    BY <1>11 DEF Invalidate
  <2>1. call' \in [Tools -> Calls]
    <3>1. 2 \in 1..2 /\ 0 \in Nat
      OBVIOUS
    <3> QED
      BY <1>0, <2>0, <3>1, BlankTyped DEF Calls
  <2> QED
    BY <1>11, <2>1, DropTyped DEF Invalidate, Typed
<1> QED
  BY <1>1, <1>2, <1>3, <1>4, <1>5, <1>6, <1>8, <1>9, <1>10, <1>11 DEF CallStep

\* The reader task keeps the state well typed.
LEMMA TypedReader ==
    ASSUME Typed, NEW c \in Conns, ReaderStep(c)
    PROVE  Typed'
<1> USE DEF env, history
<1>0. /\ call \in [Tools -> Calls] /\ client \in [Conns -> Clients]
      /\ client[c].waiting \in SUBSET Nat /\ client[c].replies \in Seq(Frames)
  BY DEF Typed, Clients
<1>1. CASE ReadFrame(c)
  <2> DEFINE f == Head(client[c].replies)
  <2>1. /\ f \in Frames /\ Tail(client[c].replies) \in Seq(Frames)
        /\ client[c].waiting \ {f.id} \in SUBSET Nat
    BY <1>0, <1>1 DEF ReadFrame
  <2>2. client' = [client EXCEPT ![c].replies = Tail(@), ![c].waiting = @ \ {f.id}]
    BY <1>1 DEF ReadFrame
  <2>3. call' = call \/ \E t \in Tools : call' = [call EXCEPT ![t].answer = f]
    BY <1>1 DEF ReadFrame
  <2> HIDE DEF f
  <2>4. call' \in [Tools -> Calls]
    <3>1. f \in Frames
      BY <2>1
    <3>2. ASSUME NEW t \in Tools, call' = [call EXCEPT ![t].answer = f]
          PROVE  call' \in [Tools -> Calls]
      <4>1. [call[t] EXCEPT !.answer = f] \in Calls
        BY <1>0, <3>1 DEF Calls
      <4> QED
        BY <1>0, <3>2, <4>1
    <3> QED
      BY <1>0, <2>3, <3>2
  <2>5. client' \in [Conns -> Clients]
    BY <1>0, <2>1, <2>2 DEF Clients
  <2> QED
    BY <1>1, <2>4, <2>5 DEF ReadFrame, Typed
<1>2. CASE EndReader(c)
  <2>1. client' \in [Conns -> Clients]
    <3> DEFINE r == [client[c] EXCEPT !.reader = "ended", !.waiting = {},
                                      !.replies = <<>>, !.endId = client[c].nextId]
    <3>1. client[c].nextId \in Nat /\ <<>> \in Seq(Frames) /\ {} \in SUBSET Nat
      BY <1>0 DEF Clients
    <3>2. client[c] \in Clients
      BY <1>0
    <3>3. r \in Clients
      BY <3>1, <3>2 DEF Clients
    <3>4. client' = [client EXCEPT ![c] = r]
      BY <1>2 DEF EndReader
    <3> HIDE DEF r
    <3> QED
      BY <1>0, <3>3, <3>4
  <2> QED
    BY <1>2, <2>1 DEF EndReader, Typed
<1> QED
  BY <1>1, <1>2 DEF ReaderStep

\* A frame that is pushed keeps the clients well typed.
LEMMA PushTyped ==
    ASSUME client \in [Conns -> Clients], NEW c \in Conns, NEW f \in Frames, Push(c, f)
    PROVE  client' \in [Conns -> Clients]
<1>1. client[c].replies \in Seq(Frames)
  BY DEF Clients
<1>2. Append(client[c].replies, f) \in Seq(Frames)
  BY <1>1
<1> QED
  BY <1>2 DEF Push, Clients

\* A closed task has read nothing.
LEMMA ClosedReads == ClosedTask.read <= Len(ClosedTask.sent)
BY DEF ClosedTask, NewTask

\* The five ways a connection task ends.
Ends(c) ==
    \/ RefuseLong(c) \/ ReadTorn(c) \/ TaskWriteFails(c) \/ ServerEof(c)
    \/ CloseOnShutdown(c)

\* They leave everything else alone; a task ends on a line that is too long or
\* torn, on a client that is gone, or when the daemon stops.
LEMMA EndsShape ==
    ASSUME NEW c \in Conns, Ends(c)
    PROVE  /\ task[c].state = "running"
           /\ task' = [task EXCEPT ![c] = ClosedTask]
           /\ UNCHANGED <<call, client, cached, nconns, env, history>>
           /\ \/ LineReady(c) /\ size[NextLine(c).of] = "request"
              \/ task[c].torn \/ client[c].reader = "dropped" \/ stopping
BY DEF Ends, RefuseLong, ReadTorn, Refuse, TaskWriteFails, ServerEof, CloseOnShutdown,
       Selecting

\* The connection tasks keep the state well typed.
LEMMA TypedTask ==
    ASSUME Typed, ServedInv, NEW c \in Conns, TaskMoves(c)
    PROVE  Typed'
<1> USE DEF env, history
<1>0. /\ task \in [Conns -> ConnTasks] /\ client \in [Conns -> Clients]
      /\ \A d \in Conns : task[d].read <= Len(task[d].sent)
      /\ task[c].sent \in Seq(Requests) /\ task[c].read \in Nat
      /\ task[c].served \in Seq(Nat) /\ task[c].busy \in Frames /\ task[c].notes \in Nat
      /\ task[c].noted \in Nat
  BY DEF Typed, ConnTasks
<1>1. CASE Dispatch(c)
  <2> DEFINE r == NextLine(c)
  <2>1. task[c].read + 1 <= Len(task[c].sent) /\ r \in Requests
    BY <1>0, <1>1 DEF Dispatch, LineReady, NextLine
  <2>2. r.id \in Nat /\ r.of \in Tools
    BY <2>1 DEF Requests
  <2>3. PICK o \in Outcomes(Method[r.of]), k \in {"response", "big"} :
          /\ task' = [task EXCEPT ![c].read = @ + 1,
                ![c].served = Append(@, task[c].read + 1),
                ![c].busy = [kind |-> k, id |-> r.id, of |-> r.of, outcome |-> o]]
          /\ Effect(r.of, o)
    BY <1>1 DEF Dispatch
  <2> HIDE DEF r
  <2>4. o \in {"ok"} \cup Errors
    <3>1. Method[r.of] \in Mutating \cup Queries
      BY <2>2, RpcAssumption DEF Methods
    <3> QED
      BY <2>3, <3>1 DEF Outcomes, Errors, Mutating, Queries
  <2>5. /\ [kind |-> k, id |-> r.id, of |-> r.of, outcome |-> o] \in Frames
        /\ Append(task[c].served, task[c].read + 1) \in Seq(Nat)
        /\ task[c].read + 1 \in Nat
    BY <1>0, <2>2, <2>4 DEF Frames
  <2>6. task' \in [Conns -> ConnTasks]
    <3> DEFINE n == task[c].read + 1
               s == Append(task[c].served, n)
               b == [kind |-> k, id |-> r.id, of |-> r.of, outcome |-> o]
    <3>1. /\ n \in Nat /\ s \in Seq(Nat) /\ b \in Frames
          /\ task' = [task EXCEPT ![c].read = n, ![c].served = s, ![c].busy = b]
      BY <2>3, <2>5
    <3>2. task \in [Conns -> ConnTasks]
      BY <1>0
    <3> DEFINE e == [task[c] EXCEPT !.read = n, !.served = s, !.busy = b]
    <3>3. task' = [task EXCEPT ![c] = e]
      BY <3>1, <3>2, Zenon
    <3> HIDE DEF n, s, b
    <3>4. e \in ConnTasks
      <4>1. task[c] \in ConnTasks
        BY <3>2
      <4> QED
        BY <3>1, <4>1 DEF ConnTasks
    <3> HIDE DEF e
    <3> QED
      BY <3>2, <3>3, <3>4
  <2>7. \A d \in Conns : task'[d].read <= Len(task'[d].sent)
    <3>1. task'[c].read = task[c].read + 1 /\ task'[c].sent = task[c].sent
      BY <1>0, <2>3 DEF ConnTasks
    <3>2. \A d \in Conns \ {c} : task'[d] = task[d]
      BY <1>0, <2>3
    <3> QED
      BY <1>0, <2>1, <3>1, <3>2
  <2>8. effects' \in [Tools -> Nat]
    BY <2>2, <2>3 DEF Effect, Typed
  <2> QED
    BY <1>1, <2>6, <2>7, <2>8 DEF Dispatch, Typed
<1>2. CASE Reply(c)
  <2>1. client' \in [Conns -> Clients]
    BY <1>0, <1>2, PushTyped DEF Reply
  <2>2. task' \in [Conns -> ConnTasks]
    BY <1>0, <1>2, BlankTyped DEF Reply, ConnTasks
  <2>3. \A d \in Conns : task'[d].read = task[d].read /\ task'[d].sent = task[d].sent
    BY <1>0, <1>2 DEF Reply, ConnTasks
  <2> QED
    BY <1>0, <1>2, <2>1, <2>2, <2>3 DEF Reply, Typed
<1>3. CASE SkipBlank(c)
  <2> DEFINE n == task[c].read + 1
             e == [task[c] EXCEPT !.read = n, !.torn = FALSE]
  <2>1. n \in Nat /\ n <= Len(task[c].sent) /\ FALSE \in BOOLEAN
    BY <1>0, <1>3 DEF SkipBlank, ServedInv, Ordered
  <2>2. task' = [task EXCEPT ![c] = e]
    BY <1>0, <1>3, Zenon DEF SkipBlank
  <2> HIDE DEF n
  <2>3. e \in ConnTasks /\ e.read = n /\ e.sent = task[c].sent
    <3>1. task[c] \in ConnTasks
      BY <1>0
    <3> QED
      BY <2>1, <3>1 DEF ConnTasks
  <2> HIDE DEF e
  <2>4. /\ task' \in [Conns -> ConnTasks]
        /\ \A d \in Conns : task'[d].read <= Len(task'[d].sent)
    BY <1>0, <2>1, <2>2, <2>3, TaskTyped
  <2> QED
    BY <1>3, <2>4 DEF SkipBlank, Typed
<1>4. CASE SendNotification(c)
  <2>2. PICK b \in BOOLEAN : task' = [task EXCEPT ![c].notes = @ - 1,
                                             ![c].noted = @ + 1, ![c].torn = b]
    <3>1. task[c].torn \in BOOLEAN
      BY <1>0, Zenon DEF ConnTasks
    <3>2. (task[c].read < Len(task[c].sent)) \in BOOLEAN
      OBVIOUS
    <3> QED
      BY <1>4, <3>1, <3>2, Zenon DEF SendNotification
  <2>3. task[c].notes - 1 \in Nat /\ task[c].noted + 1 \in Nat
    BY <1>0, <1>4 DEF SendNotification
  <2>4. task' \in [Conns -> ConnTasks]
    <3> DEFINE n == task[c].notes - 1
               m == task[c].noted + 1
    <3>1. /\ n \in Nat /\ m \in Nat
          /\ task' = [task EXCEPT ![c].notes = n, ![c].noted = m, ![c].torn = b]
      BY <2>2, <2>3
    <3>2. task \in [Conns -> ConnTasks] /\ b \in BOOLEAN
      BY <1>0, <2>2
    <3> DEFINE e == [task[c] EXCEPT !.notes = n, !.noted = m, !.torn = b]
    <3>3. task' = [task EXCEPT ![c] = e]
      BY <3>1, <3>2, Zenon
    <3> HIDE DEF n, m
    <3>4. e \in ConnTasks
      <4>1. task[c] \in ConnTasks
        BY <3>2
      <4> QED
        BY <3>1, <3>2, <4>1, Zenon DEF ConnTasks
    <3> HIDE DEF e
    <3> QED
      BY <3>2, <3>3, <3>4
  <2>5. \A d \in Conns : task'[d].read = task[d].read /\ task'[d].sent = task[d].sent
    BY <1>0, <2>2, Zenon DEF ConnTasks
  <2> QED
    BY <1>0, <1>4, <2>4, <2>5 DEF SendNotification, Typed
<1>5. CASE Ends(c)
  <2>1. /\ task' = [task EXCEPT ![c] = ClosedTask]
        /\ UNCHANGED <<call, client, cached, nconns, env, history>>
    BY <1>5, EndsShape
  <2>2. /\ task' \in [Conns -> ConnTasks]
        /\ \A d \in Conns : task'[d].read <= Len(task'[d].sent)
    BY <1>0, <2>1, TaskTyped, BlankTyped, ClosedReads
  <2> QED
    BY <2>1, <2>2 DEF Typed
<1> QED
  BY <1>1, <1>2, <1>3, <1>4, <1>5 DEF TaskMoves, TaskStep, Ends

\* The daemon's own steps keep the state well typed.
LEMMA TypedDaemon ==
    ASSUME Typed, Emit \/ Shutdown \/ Exit \/ Start
    PROVE  Typed'
<1> USE DEF env, history
<1>0. /\ task \in [Conns -> ConnTasks]
      /\ \A d \in Conns : task[d].read <= Len(task[d].sent)
      /\ faults \in 0..MaxFaults
  BY DEF Typed
<1>1. CASE Emit
  <2>1. \A d \in Conns : task[d].notes + 1 \in Nat
    BY <1>0 DEF ConnTasks
  <2>2. \A d \in Conns : [task[d] EXCEPT !.notes = @ + 1] \in ConnTasks
    BY <1>0, <2>1 DEF ConnTasks
  <2>3. task' \in [Conns -> ConnTasks]
    BY <1>0, <1>1, <2>2 DEF Emit
  <2>4. \A d \in Conns : task'[d].read = task[d].read /\ task'[d].sent = task[d].sent
    BY <1>0, <1>1 DEF Emit, ConnTasks
  <2>5. faults' \in 0..MaxFaults
    BY <1>1, FaultTyped DEF Emit
  <2> QED
    BY <1>0, <1>1, <2>3, <2>4, <2>5 DEF Emit, Typed
<1>2. CASE Shutdown
  <2>1. faults' \in 0..MaxFaults
    BY <1>2, FaultTyped DEF Shutdown
  <2> QED
    BY <1>2, <2>1 DEF Shutdown, Typed
<1>3. CASE Exit
  <2>1. faults' \in 0..MaxFaults
    BY <1>0, <1>3, FaultTyped DEF Exit
  <2>2. task' \in [Conns -> ConnTasks]
    BY <1>3, BlankTyped DEF Exit
  <2>3. \A d \in Conns : task'[d].read <= Len(task'[d].sent)
    BY <1>3 DEF Exit, NoTask, ClosedTask, NewTask
  <2> QED
    BY <1>3, <2>1, <2>2, <2>3 DEF Exit, Typed
<1>4. CASE Start
  BY <1>4 DEF Start, Typed
<1> QED
  BY <1>1, <1>2, <1>3, <1>4

LEMMA TypedStep == Typed /\ HoldInv /\ ServedInv /\ [Next]_vars => Typed'
<1> SUFFICES ASSUME Typed, HoldInv, ServedInv, [Next]_vars PROVE Typed'
  OBVIOUS
<1>1. CASE UNCHANGED vars
  BY <1>1 DEF vars, env, history, Typed
<1> QED
  BY <1>1, TypedCall, TypedReader, TypedTask, TypedDaemon DEF Next, TaskMoves

-----------------------------------------------------------------------------
(* Who holds which client.                                                 *)

\* After a drop, what is held is alive if it was before the drop.
LEMMA HeldAlive ==
    ASSUME NEW cl \in [Conns -> Clients], DropUnheld(cl), cached' \in 0..MaxConns,
           \A u \in Tools : call'[u].conn \in 0..MaxConns,
           \A c \in Conns : (cached' = c \/ \E u \in Tools : call'[u].conn = c)
               => cl[c].reader \in {"running", "ended"}
    PROVE  /\ cached' # 0 => client'[cached'].reader \in {"running", "ended"}
           /\ \A u \in Tools : call'[u].conn # 0
                => client'[call'[u].conn].reader \in {"running", "ended"}
<1>1. cached' # 0 => client'[cached'] = cl[cached']
  BY RpcAssumption, DropKeeps DEF Conns
<1>2. \A u \in Tools : call'[u].conn # 0 => client'[call'[u].conn] = cl[call'[u].conn]
  BY RpcAssumption, DropKeeps DEF Conns
<1> QED
  BY <1>1, <1>2, RpcAssumption DEF Conns

\* A step of call t that drops unheld clients out of cl, which differs from the
\* clients before in no reader that was alive, keeps the clients in order.
LEMMA HoldDrop ==
    ASSUME Typed, Typed', HoldInv, NEW t \in Tools, NEW cl \in [Conns -> Clients],
           DropUnheld(cl), cached' \in {0, cached},
           \A u \in Tools \ {t} : call'[u] = call[u],
           call'[t].conn \in {0, call[t].conn, cached},
           \A c \in Conns : cl[c].reader = client[c].reader,
           \A c \in Conns : client[c] = NoClient => cl[c] = NoClient,
           UNCHANGED <<task, nconns>>
    PROVE  /\ cached' # 0 => Alive(cached)'
           /\ \A u \in Tools : call'[u].conn <= nconns /\ (call'[u].conn # 0 => Alive(call[u].conn)')
           /\ \A c \in Conns : c > nconns' => client'[c] = NoClient /\ task'[c] = NoTask
<1>1. /\ cached' \in 0..MaxConns /\ nconns \in 0..MaxConns /\ MaxConns \in Nat
      /\ cached \in 0..nconns
      /\ \A u \in Tools : call'[u].conn \in 0..MaxConns /\ call[u].conn \in 0..MaxConns
  BY RpcAssumption DEF Typed, Calls
<1>2. \A c \in Conns : (cached' = c \/ \E u \in Tools : call'[u].conn = c)
          => cl[c].reader \in {"running", "ended"}
  BY <1>1 DEF HoldInv, Alive, Conns
<1>3. /\ cached' # 0 => client'[cached'].reader \in {"running", "ended"}
      /\ \A u \in Tools : call'[u].conn # 0
            => client'[call'[u].conn].reader \in {"running", "ended"}
  BY <1>1, <1>2, HeldAlive
<1>4. \A u \in Tools : call'[u].conn <= nconns
  BY <1>1 DEF HoldInv
<1>5. \A c \in Conns : c > nconns' => client'[c] = NoClient /\ task'[c] = NoTask
  BY DropKeeps DEF HoldInv
<1> QED
  BY <1>3, <1>4, <1>5 DEF Alive

LEMMA HoldInit == Init => HoldInv
BY DEF Init, HoldInv, Conns

\* The steps of the tool calls.
LEMMA HoldCall ==
    ASSUME Typed, Typed', HoldInv, IdInv, NEW t \in Tools, Reject(t) \/ CallStep(t)
    PROVE  HoldInv'
<1> USE DEF env, history
<1>0. /\ call \in [Tools -> Calls] /\ client \in [Conns -> Clients]
      /\ call[t].pc \in {"insert", "write", "wait"} => call[t].conn \in Conns
      /\ MaxConns \in Nat /\ nconns \in 0..MaxConns
      /\ \A u \in Tools : call[u].conn \in 0..MaxConns
  BY RpcAssumption DEF Typed, HoldInv, Calls, Conns
<1>1. ASSUME NEW r, Return(t, r) PROVE
        /\ \A u \in Tools \ {t} : call'[u] = call[u]
        /\ call'[t].conn = 0 /\ call'[t].pc = "returned"
  BY <1>0, <1>1 DEF Return
<1>2. CASE Reject(t)
  BY <1>0, <1>1, <1>2 DEF Reject, HoldInv, Alive
<1>3. ASSUME NEW cl \in [Conns -> Clients], DropUnheld(cl), cached' \in {0, cached},
             \A u \in Tools \ {t} : call'[u] = call[u],
             call'[t].conn \in {0, call[t].conn, cached},
             \A c \in Conns : cl[c].reader = client[c].reader,
             \A c \in Conns : client[c] = NoClient => cl[c] = NoClient,
             UNCHANGED <<task, nconns>>,
             call'[t].pc \in {"insert", "write", "wait"} => call'[t].conn # 0,
             call'[t].pc \in {"client", "insert"} => call'[t].id = 0,
             call'[t].pc \in {"write", "wait"} => call'[t].id # 0
      PROVE  HoldInv'
  BY <1>3, HoldDrop DEF HoldInv
<1>4. CASE TakeClient(t)
  BY <1>0, <1>3, <1>4 DEF TakeClient, HoldInv, Calls
<1>5. CASE Connect(t)
  <2>1. /\ nconns + 1 \in Conns /\ cached' = nconns + 1 /\ nconns' = nconns + 1 /\ cached = 0
        /\ call'[t].conn = nconns + 1 /\ call'[t].pc = "insert" /\ call'[t].id = call[t].id
        /\ call[t].pc = "client"
        /\ \A u \in Tools \ {t} : call'[u] = call[u]
        /\ \A c \in Conns : c # nconns + 1 => task'[c] = task[c]
    BY <1>0, <1>5 DEF Connect, Typed, Conns, Calls
  <2> DEFINE cl == [client EXCEPT ![nconns + 1].reader = "running"]
  <2>2. /\ cl \in [Conns -> Clients] /\ cl[nconns + 1].reader = "running"
        /\ \A c \in Conns : c # nconns + 1 => cl[c] = client[c]
        /\ DropUnheld(cl)
    <3>1. DropUnheld(cl)
      BY <1>5 DEF Connect
    <3>2. cl \in [Conns -> Clients]
      BY <1>0, <2>1 DEF Clients
    <3>3. cl[nconns + 1].reader = "running" /\ \A c \in Conns : c # nconns + 1 => cl[c] = client[c]
      BY <1>0, <2>1 DEF Clients
    <3> QED
      BY <3>1, <3>2, <3>3
  <2> HIDE DEF cl
  <2>3. \A c \in Conns : (cached' = c \/ \E u \in Tools : call'[u].conn = c)
          => cl[c].reader \in {"running", "ended"}
    BY <1>0, <2>1, <2>2 DEF HoldInv, Alive, Conns
  <2>4. /\ cached' # 0 => client'[cached'].reader \in {"running", "ended"}
        /\ \A u \in Tools : call'[u].conn # 0
              => client'[call'[u].conn].reader \in {"running", "ended"}
    <3>1. /\ cached' \in 0..MaxConns
          /\ \A u \in Tools : call'[u].conn \in 0..MaxConns
      BY <1>0, <2>1 DEF Conns
    <3>2. cached' # 0 => client'[cached'].reader \in {"running", "ended"}
      BY <2>2, <2>3, <3>1, HeldAlive DEF Conns
    <3>3. ASSUME NEW u \in Tools, call'[u].conn # 0
          PROVE  client'[call'[u].conn].reader \in {"running", "ended"}
      BY <2>2, <2>3, <3>1, <3>3, HeldAlive DEF Conns
    <3> QED
      BY <3>2, <3>3
  <2>5. \A c \in Conns : c > nconns' => client'[c] = NoClient /\ task'[c] = NoTask
    BY <1>0, <2>1, <2>2, DropKeeps DEF HoldInv, Conns
  <2>6. \A u \in Tools : call'[u].conn <= nconns'
    BY <1>0, <2>1 DEF HoldInv
  <2>7. \A u \in Tools :
           /\ call'[u].pc \in {"insert", "write", "wait"} => call'[u].conn # 0
           /\ call'[u].pc \in {"client", "insert"} => call'[u].id = 0
           /\ call'[u].pc \in {"write", "wait"} => call'[u].id # 0
    BY <1>0, <2>1 DEF HoldInv
  <2> QED
    BY <2>4, <2>5, <2>6, <2>7 DEF HoldInv, Alive
<1>6. CASE ConnectFails(t)
  BY <1>0, <1>1, <1>3, <1>6 DEF ConnectFails
<1>7. CASE Insert(t)
  <2> DEFINE c == call[t].conn
  <2>1. /\ c \in Conns /\ client[c].nextId \in Nat /\ client[c].nextId > 0
        /\ call'[t].conn = c /\ call'[t].pc = "write" /\ call'[t].id = client[c].nextId
        /\ \A u \in Tools \ {t} : call'[u] = call[u]
        /\ UNCHANGED <<task, cached, nconns>>
    BY <1>0, <1>7 DEF Insert, Calls, Clients, HoldInv, IdInv
  <2>2. /\ \A d \in Conns : client'[d].reader = client[d].reader
        /\ \A d \in Conns : d # c => client'[d] = client[d]
    BY <1>0, <1>7, <2>1 DEF Insert, Clients
  <2>3. c <= nconns
    BY DEF HoldInv
  <2>4. \A u \in Tools :
           /\ call'[u].pc \in {"insert", "write", "wait"} => call'[u].conn # 0
           /\ call'[u].pc \in {"client", "insert"} => call'[u].id = 0
           /\ call'[u].pc \in {"write", "wait"} => call'[u].id # 0
           /\ call'[u].conn = call[u].conn
    BY <1>0, <2>1 DEF HoldInv, Conns
  <2>5. cached # 0 => cached \in Conns
    BY <1>0 DEF Typed, Conns
  <2>6. \A d \in Conns : client'[d].reader = client[d].reader
    BY <2>2
  <2> HIDE DEF c
  <2>7. cached' # 0 => Alive(cached)'
    BY <2>1, <2>5, <2>6 DEF HoldInv, Alive
  <2>8. \A u \in Tools : call'[u].conn <= nconns' /\ (call'[u].conn # 0 => Alive(call[u].conn)')
    BY <1>0, <2>1, <2>4, <2>6 DEF HoldInv, Alive, Conns
  <2>9. \A d \in Conns : d > nconns' => client'[d] = NoClient /\ task'[d] = NoTask
    BY <1>0, <2>1, <2>2, <2>3 DEF HoldInv, Conns
  <2> QED
    BY <2>4, <2>7, <2>8, <2>9 DEF HoldInv
<1>8. CASE Write(t)
  <2>1. /\ call'[t].conn = call[t].conn /\ call'[t].pc = "wait" /\ call'[t].id = call[t].id
        /\ call[t].pc = "write"
        /\ \A u \in Tools \ {t} : call'[u] = call[u]
        /\ \A c \in Conns : c # call[t].conn => task'[c] = task[c]
        /\ UNCHANGED <<client, cached, nconns>>
    BY <1>0, <1>8 DEF Write, Calls, Typed
  <2> QED
    BY <1>0, <2>1 DEF HoldInv, Alive, Conns
<1>9. ASSUME NEW cl \in [Conns -> Clients], Lose(t, cl),
             \A c \in Conns : cl[c].reader = client[c].reader,
             \A c \in Conns : client[c] = NoClient => cl[c] = NoClient
      PROVE  HoldInv'
  <2>1. /\ DropUnheld(cl) /\ cached' = cached /\ UNCHANGED <<task, nconns>>
        /\ Return(t, "lost") \/ call' = [call EXCEPT ![t].pc = "invalidate"]
    BY <1>9 DEF Lose
  <2>2. CASE Return(t, "lost")
    BY <1>1, <1>3, <1>9, <2>1, <2>2
  <2>3. CASE call' = [call EXCEPT ![t].pc = "invalidate"]
    <3>1. /\ \A u \in Tools \ {t} : call'[u] = call[u]
          /\ call'[t].conn = call[t].conn /\ call'[t].pc = "invalidate"
      BY <1>0, <2>3 DEF Calls
    <3> QED
      BY <1>3, <1>9, <2>1, <3>1
  <2> QED
    BY <2>1, <2>2, <2>3
<1>10. CASE WriteFails(t)
  <2> DEFINE c == call[t].conn
             cl == [client EXCEPT ![c].waiting = @ \ {call[t].id}]
  <2>1. c \in Conns /\ Lose(t, cl)
    BY <1>0, <1>10 DEF WriteFails
  <2>2. /\ cl \in [Conns -> Clients]
        /\ \A d \in Conns : cl[d].reader = client[d].reader
        /\ \A d \in Conns : d # c => cl[d] = client[d]
    BY <1>0, <2>1 DEF Clients
  <2>3. client[c] # NoClient
    BY <2>1 DEF HoldInv, Alive, NoClient, NewClient, Conns
  <2> HIDE DEF c, cl
  <2> QED
    BY <1>9, <2>1, <2>2, <2>3
<1>11. CASE Closed(t)
  BY <1>0, <1>9, <1>11 DEF Closed
<1>12. CASE Answered(t)
  BY <1>0, <1>1, <1>3, <1>12 DEF Answered
<1>13. CASE Invalidate(t)
  <2>1. /\ \A u \in Tools \ {t} : call'[u] = call[u]
        /\ call'[t].conn = call[t].conn /\ call'[t].pc = "client" /\ call'[t].id = 0
    BY <1>0, <1>13 DEF Invalidate, Calls
  <2> QED
    BY <1>0, <1>3, <1>13, <2>1 DEF Invalidate
<1> QED
  BY <1>2, <1>4, <1>5, <1>6, <1>7, <1>8, <1>10, <1>11, <1>12, <1>13 DEF CallStep

\* A reader moves no call and hands out no id; what it leaves to be read was there.
LEMMA ReaderShape ==
    ASSUME Typed, NEW c \in Conns, ReaderStep(c)
    PROVE  /\ \A u \in Tools : /\ call'[u].conn = call[u].conn /\ call'[u].id = call[u].id
                               /\ call'[u].pc = call[u].pc
                               /\ call'[u].attempt = call[u].attempt
           /\ Alive(c)
           /\ \A d \in Conns \ {c} : client'[d] = client[d]
           /\ client'[c].reader \in {"running", "ended"}
           /\ client'[c].nextId = client[c].nextId
           /\ \A i \in DOMAIN client'[c].replies : \E j \in DOMAIN client[c].replies :
                  client'[c].replies[i] = client[c].replies[j]
           /\ UNCHANGED <<task, cached, nconns, effects, losses>>
<1> USE DEF env, history
<1>0. /\ call \in [Tools -> Calls] /\ client \in [Conns -> Clients]
      /\ client[c].replies \in Seq(Frames)
  BY DEF Typed, Clients
<1>1. CASE ReadFrame(c)
  <2> DEFINE s == Tail(client[c].replies)
             w == client[c].waiting \ {Head(client[c].replies).id}
  <2>1. /\ client[c].reader = "running" /\ client[c].replies # <<>>
        /\ client' = [client EXCEPT ![c].replies = s, ![c].waiting = w]
        /\ UNCHANGED <<task, cached, nconns, effects, losses>>
    BY <1>0, <1>1 DEF ReadFrame, Clients
  <2>2. \A i \in DOMAIN s : i + 1 \in DOMAIN client[c].replies /\ s[i] = client[c].replies[i + 1]
    BY <1>0, <2>1
  <2>3. call' = call \/ \E t \in Tools, f \in Frames : call' = [call EXCEPT ![t].answer = f]
    <3>1. Head(client[c].replies) \in Frames
      BY <1>0, <2>1
    <3> QED
      BY <1>1, <3>1 DEF ReadFrame
  <2>4. \A u \in Tools : /\ call'[u].conn = call[u].conn /\ call'[u].id = call[u].id
                         /\ call'[u].pc = call[u].pc
                         /\ call'[u].attempt = call[u].attempt
    <3>1. ASSUME NEW x \in Tools, NEW f \in Frames, call' = [call EXCEPT ![x].answer = f],
                 NEW u \in Tools
          PROVE  /\ call'[u].conn = call[u].conn /\ call'[u].id = call[u].id
                 /\ call'[u].pc = call[u].pc /\ call'[u].attempt = call[u].attempt
      <4>1. call'[u] = IF u = x THEN [call[x] EXCEPT !.answer = f] ELSE call[u]
        BY <1>0, <3>1
      <4> QED
        BY <1>0, <4>1 DEF Calls
    <3> QED
      BY <2>3, <3>1
  <2> HIDE DEF s, w
  <2>5. /\ \A d \in Conns \ {c} : client'[d] = client[d]
        /\ client'[c].reader = "running"
        /\ client'[c].nextId = client[c].nextId
        /\ client'[c].replies = s
    BY <1>0, <2>1 DEF Clients
  <2>6. \A i \in DOMAIN client'[c].replies : \E j \in DOMAIN client[c].replies :
           client'[c].replies[i] = client[c].replies[j]
    BY <2>2, <2>5
  <2> QED
    BY <2>1, <2>4, <2>5, <2>6 DEF Alive
<1>2. CASE EndReader(c)
  <2>1. /\ client[c].reader = "running"
        /\ client' = [client EXCEPT ![c].reader = "ended", ![c].waiting = {},
                         ![c].replies = <<>>, ![c].endId = client[c].nextId]
        /\ UNCHANGED <<call, task, cached, nconns, effects, losses>>
    BY <1>2 DEF EndReader, LoopEnds
  <2>2. /\ \A d \in Conns \ {c} : client'[d] = client[d]
        /\ client'[c].reader = "ended"
        /\ client'[c].nextId = client[c].nextId
        /\ client'[c].replies = <<>>
    BY <1>0, <2>1 DEF Clients
  <2>3. \A i \in DOMAIN client'[c].replies : \E j \in DOMAIN client[c].replies :
           client'[c].replies[i] = client[c].replies[j]
    BY <2>2
  <2>4. /\ Alive(c)
        /\ UNCHANGED <<call, task, cached, nconns, effects, losses>>
    BY <2>1 DEF Alive
  <2> QED
    BY <2>2, <2>3, <2>4
<1> QED
  BY <1>1, <1>2 DEF ReaderStep

\* A pushed frame comes last.
LEMMA PushShape ==
    ASSUME client \in [Conns -> Clients], NEW c \in Conns, NEW f \in Frames, Push(c, f)
    PROVE  /\ \A d \in Conns \ {c} : client'[d] = client[d]
           /\ client'[c].reader = client[c].reader
           /\ client'[c].nextId = client[c].nextId
           /\ \A i \in DOMAIN client'[c].replies :
                  \/ i \in DOMAIN client[c].replies /\ client'[c].replies[i] = client[c].replies[i]
                  \/ client'[c].replies[i] = f
<1>1. client[c].replies \in Seq(Frames)
  BY DEF Clients
<1> DEFINE s == Append(client[c].replies, f)
<1>2. \A i \in DOMAIN s : \/ i \in DOMAIN client[c].replies /\ s[i] = client[c].replies[i]
                          \/ s[i] = f
  BY <1>1
<1>3. client' = client \/ client' = [client EXCEPT ![c].replies = s]
  BY DEF Push
<1> HIDE DEF s
<1>4. CASE client' = [client EXCEPT ![c].replies = s]
  BY <1>2, <1>4 DEF Clients
<1> QED
  BY <1>3, <1>4

\* A connection task that does anything runs; calls and readers stay.
LEMMA TaskShape ==
    ASSUME Typed, NEW c \in Conns, TaskMoves(c)
    PROVE  /\ task[c].state = "running"
           /\ \A d \in Conns \ {c} : task'[d] = task[d] /\ client'[d] = client[d]
           /\ client'[c].reader = client[c].reader
           /\ client'[c].nextId = client[c].nextId
           /\ UNCHANGED <<call, cached, nconns, losses>>
<1> USE DEF env, history
<1>0. /\ task \in [Conns -> ConnTasks] /\ client \in [Conns -> Clients]
      /\ task[c].busy \in Frames
  BY DEF Typed, ConnTasks
<1>1. CASE Dispatch(c)
  <2>1. \E r : task' = [task EXCEPT ![c] = r]
    BY <1>0, <1>1, Zenon DEF Dispatch
  <2> QED
    BY <1>0, <1>1, <2>1 DEF Dispatch, Selecting
<1>2. CASE Reply(c)
  BY <1>0, <1>2, PushShape DEF Reply
<1>3. CASE SkipBlank(c)
  BY <1>0, <1>3 DEF SkipBlank, Selecting
<1>4. CASE SendNotification(c)
  <2>1. PICK b : task' = [task EXCEPT ![c].notes = @ - 1, ![c].noted = @ + 1,
                                      ![c].torn = b]
    BY <1>4 DEF SendNotification
  <2> QED
    BY <1>0, <1>4, <2>1 DEF SendNotification, Selecting
<1>5. CASE Ends(c)
  BY <1>0, <1>5, EndsShape
<1> QED
  BY <1>1, <1>2, <1>3, <1>4, <1>5 DEF TaskMoves, TaskStep, Ends

\* The daemon's own steps touch neither calls nor clients.
LEMMA DaemonShape ==
    ASSUME Typed, Emit \/ Shutdown \/ Exit \/ Start
    PROVE  /\ \A d \in Conns : task[d] = NoTask => task'[d] = NoTask
           /\ UNCHANGED <<call, client, cached, nconns, effects, losses>>
<1> USE DEF env, history
<1>1. NoTask.state = "none"
  BY DEF NoTask, NewTask
<1> QED
  BY <1>1 DEF Emit, Shutdown, Exit, Start

LEMMA HoldStep ==
    ASSUME Typed, Typed', HoldInv, IdInv, [Next]_vars
    PROVE  HoldInv'
<1>0. /\ cached \in 0..nconns /\ nconns \in 0..MaxConns /\ MaxConns \in Nat
      /\ \A u \in Tools : call[u].conn \in 0..MaxConns
  BY RpcAssumption DEF Typed, Calls
<1>1. ASSUME NEW c \in Conns, ReaderStep(c) PROVE HoldInv'
  <2>1. client[c] # NoClient
    BY <1>1, ReaderShape DEF Alive, NoClient, NewClient
  <2>2. /\ \A d \in Conns : Alive(d) => client'[d].reader \in {"running", "ended"}
        /\ \A d \in Conns : client[d] = NoClient => client'[d] = NoClient
    BY <1>1, <2>1, ReaderShape DEF Alive
  <2>3. /\ \A u \in Tools : /\ call'[u].conn = call[u].conn /\ call'[u].id = call[u].id
                            /\ call'[u].pc = call[u].pc
        /\ UNCHANGED <<task, cached, nconns>>
    BY <1>1, ReaderShape
  <2> QED
    BY <1>0, <2>2, <2>3 DEF HoldInv, Alive, Conns
<1>2. ASSUME NEW c \in Conns, TaskMoves(c) PROVE HoldInv'
  <2>1. task[c] # NoTask
    BY <1>2, TaskShape DEF NoTask, NewTask
  <2>2. /\ \A d \in Conns : client'[d].reader = client[d].reader
        /\ \A d \in Conns \ {c} : client'[d] = client[d] /\ task'[d] = task[d]
        /\ UNCHANGED <<call, cached, nconns>>
    BY <1>2, TaskShape
  <2> QED
    BY <1>0, <2>1, <2>2 DEF HoldInv, Alive, Conns
<1>3. CASE Emit \/ Shutdown \/ Exit \/ Start
  BY <1>3, DaemonShape DEF HoldInv, Alive
<1>4. CASE UNCHANGED vars
  BY <1>4 DEF vars, HoldInv, Alive
<1> QED
  BY <1>1, <1>2, <1>3, <1>4, HoldCall DEF Next, TaskMoves

-----------------------------------------------------------------------------
(* Ids and whose they are.                                                 *)

\* A connection as it is when it is made.
FreshConn(c) ==
    /\ client[c].nextId = 1
    /\ client[c].replies = <<>>
    /\ task[c].sent = <<>>
    /\ task[c].busy = NoFrame

\* A step of call t other than Insert and Write takes no id and sends nothing.
LEMMA CallShape ==
    ASSUME Typed, HoldInv, NEW t \in Tools, Reject(t) \/ CallStep(t),
           ~Insert(t), ~Write(t)
    PROVE  /\ \A u \in Tools \ {t} : call'[u] = call[u]
           /\ \/ call'[t].id = 0
              \/ call'[t].id = call[t].id /\ call'[t].conn = call[t].conn
           /\ call'[t].answer \in {NoFrame, call[t].answer}
           /\ \A c \in Conns : Alive(c)' =>
                 \/ /\ Alive(c) /\ task'[c] = task[c]
                    /\ client'[c].nextId = client[c].nextId
                    /\ client'[c].replies = client[c].replies
                 \/ ~Alive(c) /\ FreshConn(c)'
<1> USE DEF env, history
<1>0. /\ call \in [Tools -> Calls] /\ client \in [Conns -> Clients] /\ task \in [Conns -> ConnTasks]
      /\ call[t].pc \in {"insert", "write", "wait"} => call[t].conn \in Conns
      /\ call[t].pc = "client" => call[t].id = 0
  BY RpcAssumption DEF Typed, HoldInv, Calls, Conns
<1>1. ASSUME NEW r, Return(t, r)
      PROVE  /\ \A u \in Tools \ {t} : call'[u] = call[u]
             /\ call'[t].id = 0 /\ call'[t].answer = NoFrame
  BY <1>0, <1>1 DEF Return
<1>2. ASSUME NEW cl \in [Conns -> Clients], DropUnheld(cl), task' = task,
             \A c \in Conns : /\ cl[c].reader = client[c].reader
                             /\ cl[c].nextId = client[c].nextId
                             /\ cl[c].replies = client[c].replies
      PROVE  \A c \in Conns : Alive(c)' =>
                    /\ Alive(c) /\ task'[c] = task[c]
                    /\ client'[c].nextId = client[c].nextId
                    /\ client'[c].replies = client[c].replies
  <2> SUFFICES ASSUME NEW c \in Conns, Alive(c)'
               PROVE  /\ Alive(c) /\ task'[c] = task[c]
                      /\ client'[c].nextId = client[c].nextId
                      /\ client'[c].replies = client[c].replies
    OBVIOUS
  <2>1. client'[c] = cl[c]
    BY <1>2, DropKeeps
  <2> QED
    BY <1>2, <2>1 DEF Alive
<1>3. CASE Reject(t)
  BY <1>1, <1>3 DEF Reject, Alive
<1>4. CASE TakeClient(t)
  <2>1. /\ \A u \in Tools \ {t} : call'[u] = call[u]
        /\ call'[t].id = 0 /\ call'[t].answer = call[t].answer
    BY <1>0, <1>4 DEF TakeClient, Calls
  <2> QED
    BY <1>0, <1>2, <1>4, <2>1 DEF TakeClient
<1>5. CASE Connect(t)
  <2>1. /\ nconns + 1 \in Conns /\ client[nconns + 1] = NoClient /\ task[nconns + 1] = NoTask
        /\ \A u \in Tools \ {t} : call'[u] = call[u]
        /\ call'[t].id = 0 /\ call'[t].answer = call[t].answer
    BY <1>0, <1>5, RpcAssumption DEF Connect, HoldInv, Typed, Conns, Calls
  <2> DEFINE n == nconns + 1
             cl == [client EXCEPT ![n].reader = "running"]
  <2>2. DropUnheld(cl)
    BY <1>5 DEF Connect
  <2>3. cl \in [Conns -> Clients]
    <3>1. n \in Conns /\ client[n] \in Clients
      BY <1>0, <2>1
    <3> HIDE DEF n
    <3>2. [client[n] EXCEPT !.reader = "running"] \in Clients
      BY <3>1 DEF Clients
    <3> QED
      BY <1>0, <3>1, <3>2
  <2>4. /\ \A c \in Conns : c # n => cl[c] = client[c] /\ task'[c] = task[c]
        /\ cl[n].nextId = 1 /\ cl[n].replies = <<>>
        /\ task'[n].sent = <<>> /\ task'[n].busy = NoFrame
        /\ ~Alive(n)
    BY <1>0, <1>5, <2>1 DEF Connect, Clients, ConnTasks, NoClient, NewClient, NoTask, NewTask, Alive
  <2> HIDE DEF n, cl
  <2>5. \A c \in Conns : Alive(c)' => client'[c] = cl[c]
    BY <2>2, <2>3, DropKeeps
  <2> QED
    BY <2>1, <2>4, <2>5 DEF Alive, FreshConn
<1>6. CASE ConnectFails(t)
  BY <1>0, <1>1, <1>2, <1>6 DEF ConnectFails
<1>7. ASSUME NEW cl \in [Conns -> Clients], Lose(t, cl),
             \A c \in Conns : /\ cl[c].reader = client[c].reader
                             /\ cl[c].nextId = client[c].nextId
                             /\ cl[c].replies = client[c].replies
      PROVE  /\ \A u \in Tools \ {t} : call'[u] = call[u]
             /\ \/ call'[t].id = 0
                \/ call'[t].id = call[t].id /\ call'[t].conn = call[t].conn
             /\ call'[t].answer \in {NoFrame, call[t].answer}
             /\ \A c \in Conns : Alive(c)' =>
                    /\ Alive(c) /\ task'[c] = task[c]
                    /\ client'[c].nextId = client[c].nextId
                    /\ client'[c].replies = client[c].replies
  <2>1. DropUnheld(cl) /\ task' = task
    BY <1>7 DEF Lose
  <2>2. CASE Return(t, "lost")
    BY <1>1, <1>2, <1>7, <2>1, <2>2
  <2>3. CASE call' = [call EXCEPT ![t].pc = "invalidate"]
    <3>1. /\ \A u \in Tools \ {t} : call'[u] = call[u]
          /\ call'[t].id = call[t].id /\ call'[t].conn = call[t].conn
          /\ call'[t].answer = call[t].answer
      BY <1>0, <2>3 DEF Calls
    <3> QED
      BY <1>2, <1>7, <2>1, <3>1
  <2> QED
    BY <1>7, <2>2, <2>3 DEF Lose
<1>8. CASE WriteFails(t)
  <2> DEFINE c == call[t].conn
             cl == [client EXCEPT ![c].waiting = @ \ {call[t].id}]
  <2>1. c \in Conns /\ Lose(t, cl)
    BY <1>0, <1>8 DEF WriteFails
  <2>2. /\ cl \in [Conns -> Clients]
        /\ \A d \in Conns : /\ cl[d].reader = client[d].reader
                            /\ cl[d].nextId = client[d].nextId
                            /\ cl[d].replies = client[d].replies
    BY <1>0, <2>1 DEF Clients
  <2> HIDE DEF c, cl
  <2> QED
    BY <1>7, <2>1, <2>2
<1>9. CASE Closed(t)
  BY <1>0, <1>7, <1>9 DEF Closed
<1>10. CASE Answered(t)
  BY <1>0, <1>1, <1>2, <1>10 DEF Answered
<1>11. CASE Invalidate(t)
  <2>1. /\ \A u \in Tools \ {t} : call'[u] = call[u]
        /\ call'[t].id = 0 /\ call'[t].answer = NoFrame
    BY <1>0, <1>11 DEF Invalidate, Calls
  <2> QED
    BY <1>0, <1>2, <1>11, <2>1 DEF Invalidate
<1> QED
  BY <1>3, <1>4, <1>5, <1>6, <1>8, <1>9, <1>10, <1>11 DEF CallStep

\* Ids stay unique to their call.
LEMMA IdStep ==
    ASSUME Typed, Typed', HoldInv, HoldInv', IdInv, [Next]_vars
    PROVE  IdInv'
<1> USE DEF env, history
<1>a. /\ call \in [Tools -> Calls] /\ client \in [Conns -> Clients]
      /\ call' \in [Tools -> Calls] /\ client' \in [Conns -> Clients]
  BY DEF Typed
<1>b. /\ \A d \in Conns : client[d].nextId \in Nat /\ client'[d].nextId \in Nat
      /\ \A u \in Tools : call[u].id \in Nat /\ call'[u].id \in Nat
  BY <1>a DEF Calls, Clients
<1>c. \A u \in Tools : /\ call[u].conn # 0 => call[u].conn \in Conns /\ Alive(call[u].conn)
                       /\ call'[u].conn # 0 => call'[u].conn \in Conns
  BY <1>a, RpcAssumption DEF HoldInv, Calls, Conns
<1>d. \A u \in Tools : call'[u].conn # 0 => client'[call'[u].conn].reader \in {"running", "ended"}
  BY DEF HoldInv, Alive
<1>0. /\ call \in [Tools -> Calls] /\ client \in [Conns -> Clients]
      /\ call' \in [Tools -> Calls] /\ client' \in [Conns -> Clients]
      /\ \A u \in Tools : call[u].conn # 0 => call[u].conn \in Conns /\ Alive(call[u].conn)
      /\ \A u \in Tools : (call[u].conn # 0 => call[u].conn \in Conns /\ Alive(call[u].conn))'
      /\ \A d \in Conns : client[d].nextId \in Nat /\ client'[d].nextId \in Nat
      /\ \A u \in Tools : call[u].id \in Nat /\ call'[u].id \in Nat
  BY <1>a, <1>b, <1>c, <1>d DEF Alive
<1>1. ASSUME NEW t \in Tools, Reject(t) \/ CallStep(t), ~Insert(t), ~Write(t)
      PROVE  IdInv'
  <2>1. /\ \A u \in Tools \ {t} : call'[u] = call[u]
        /\ \/ call'[t].id = 0
           \/ call'[t].id = call[t].id /\ call'[t].conn = call[t].conn
        /\ \A c \in Conns : Alive(c)' =>
              \/ Alive(c) /\ client'[c].nextId = client[c].nextId
              \/ ~Alive(c) /\ client'[c].nextId = 1
    BY <1>1, CallShape DEF FreshConn
  <2>2. \A c \in Conns : Alive(c)' => client'[c].nextId > 0
    BY <2>1 DEF IdInv
  <2>3. \A u \in Tools : call'[u].conn # 0 => call'[u].id < client'[call'[u].conn].nextId
    BY <1>0, <2>1, <2>2 DEF IdInv
  <2>4. \A u, v \in Tools :
           call'[u].conn # 0 /\ call'[u].conn = call'[v].conn
              /\ call'[u].id # 0 /\ call'[u].id = call'[v].id => u = v
    <3>1. \A u \in Tools : call'[u].id # 0 =>
             call'[u].id = call[u].id /\ call'[u].conn = call[u].conn
      BY <2>1
    <3> QED
      BY <3>1 DEF IdInv
  <2> QED
    BY <2>2, <2>3, <2>4 DEF IdInv, Alive
<1>2. ASSUME NEW t \in Tools, Insert(t) PROVE IdInv'
  <2> DEFINE c == call[t].conn
  <2>1. c \in Conns /\ call[t].pc = "insert"
    BY <1>0, <1>2 DEF Insert, HoldInv
  <2>2. /\ \A u \in Tools \ {t} : call'[u] = call[u]
        /\ call'[t].conn = c /\ call'[t].id = client[c].nextId
    <3> DEFINE n == client[c].nextId
    <3>1. call' = [call EXCEPT ![t].pc = "write", ![t].id = n]
      BY <1>2 DEF Insert
    <3> HIDE DEF n
    <3>2. /\ \A u \in Tools \ {t} : call'[u] = call[u]
          /\ call'[t].conn = call[t].conn /\ call'[t].id = n
      BY <1>0, <3>1 DEF Calls
    <3> QED
      BY <3>2 DEF n
  <2>3. /\ \A d \in Conns : d # c => client'[d] = client[d]
        /\ client'[c].reader = client[c].reader /\ client'[c].nextId = client[c].nextId + 1
    <3> DEFINE w == client[c].waiting \cup {client[c].nextId}
               n == client[c].nextId + 1
    <3>1. client' = [client EXCEPT ![c].waiting = w, ![c].nextId = n]
      BY <1>0, <1>2, <2>1 DEF Insert, Clients
    <3>2. n = client[c].nextId + 1
      OBVIOUS
    <3> HIDE DEF w, n
    <3> QED
      BY <1>0, <2>1, <3>1, <3>2 DEF Clients
  <2> HIDE DEF c
  <2>4. \A d \in Conns : Alive(d)' => client'[d].nextId > 0
    BY <1>0, <2>1, <2>3 DEF IdInv, Alive
  <2>5. \A u \in Tools : call'[u].conn # 0 => call'[u].id < client'[call'[u].conn].nextId
    BY <1>0, <2>1, <2>2, <2>3 DEF IdInv
  <2>6. \A u, v \in Tools :
           call'[u].conn # 0 /\ call'[u].conn = call'[v].conn
              /\ call'[u].id # 0 /\ call'[u].id = call'[v].id => u = v
    BY <1>0, <2>1, <2>2 DEF IdInv, c
  <2> QED
    BY <2>4, <2>5, <2>6 DEF IdInv, Alive
<1>3. ASSUME NEW t \in Tools, Write(t) PROVE IdInv'
  <2>1. client' = client /\ \A u \in Tools : call'[u].conn = call[u].conn /\ call'[u].id = call[u].id
    BY <1>0, <1>3 DEF Write, Calls
  <2> QED
    BY <2>1 DEF IdInv, Alive
<1>4. ASSUME NEW c \in Conns, ReaderStep(c) \/ TaskMoves(c) PROVE IdInv'
  <2>1. /\ \A d \in Conns : client'[d].nextId = client[d].nextId
        /\ \A d \in Conns : Alive(d)' => Alive(d)
        /\ \A u \in Tools : call'[u].conn = call[u].conn /\ call'[u].id = call[u].id
    BY <1>4, ReaderShape, TaskShape DEF Alive
  <2> QED
    BY <1>0, <2>1 DEF IdInv
<1>5. CASE (Emit \/ Shutdown \/ Exit \/ Start) \/ UNCHANGED vars
  <2>1. UNCHANGED <<call, client>>
    BY <1>5, DaemonShape DEF vars
  <2> QED
    BY <2>1 DEF IdInv, Alive
<1> QED
  BY <1>1, <1>2, <1>3, <1>4, <1>5 DEF Next, TaskMoves

\* What belongs to a call keeps belonging to it while its connection is alive.
LEMMA OwnedKept ==
    ASSUME Typed, Typed', HoldInv, IdInv, [Next]_vars,
           NEW c \in Conns, Alive(c), Alive(c)', NEW f, Owned(c, f)
    PROVE  /\ f.id \in 1..(client'[c].nextId - 1)
           /\ \A u \in Tools : call'[u].conn = c /\ call'[u].id = f.id => f.of = u
<1> USE DEF env, history
<1>0. /\ call \in [Tools -> Calls] /\ client \in [Conns -> Clients]
      /\ client[c].nextId \in Nat /\ c # 0
  <2>1. c # 0
    BY RpcAssumption DEF Conns
  <2> QED
    BY <2>1 DEF Typed, Clients
<1>1. f.id \in Nat /\ 1 <= f.id /\ f.id < client[c].nextId
  BY <1>0 DEF Owned
<1>2. CASE client'[c].nextId = client[c].nextId
           /\ \A u \in Tools : call'[u].id = 0
                                  \/ (call'[u].id = call[u].id /\ call'[u].conn = call[u].conn)
  BY <1>1, <1>2 DEF Owned
<1>3. ASSUME NEW t \in Tools, Reject(t) \/ CallStep(t), ~Insert(t), ~Write(t)
      PROVE  client'[c].nextId = client[c].nextId
             /\ \A u \in Tools : call'[u].id = 0
                                    \/ (call'[u].id = call[u].id /\ call'[u].conn = call[u].conn)
  <2>1. /\ \A u \in Tools \ {t} : call'[u] = call[u]
        /\ \/ call'[t].id = 0
           \/ call'[t].id = call[t].id /\ call'[t].conn = call[t].conn
        /\ \A d \in Conns : Alive(d)' => ~Alive(d) \/ client'[d].nextId = client[d].nextId
    BY <1>3, CallShape
  <2>2. client'[c].nextId = client[c].nextId
    BY <2>1 DEF Alive
  <2>3. \A u \in Tools : call'[u].id = 0
                           \/ (call'[u].id = call[u].id /\ call'[u].conn = call[u].conn)
    BY <2>1
  <2> QED
    BY <2>2, <2>3
<1>4. ASSUME NEW t \in Tools, Insert(t)
      PROVE  /\ f.id \in 1..(client'[c].nextId - 1)
             /\ \A u \in Tools : call'[u].conn = c /\ call'[u].id = f.id => f.of = u
  <2> DEFINE d == call[t].conn
             w == client[d].waiting \cup {client[d].nextId}
             n == client[d].nextId + 1
  <2>1. d \in Conns /\ d # 0
    BY <1>0, <1>4, RpcAssumption DEF Insert, HoldInv, Calls, Conns
  <2>2. /\ \A u \in Tools \ {t} : call'[u] = call[u]
        /\ call'[t].conn = d /\ call'[t].id = client[d].nextId
    BY <1>0, <1>4 DEF Insert, Calls
  <2>3. client' = [client EXCEPT ![d].waiting = w, ![d].nextId = n]
    BY <1>0, <1>4, <2>1 DEF Insert, Clients
  <2>4. n = client[d].nextId + 1
    OBVIOUS
  <2> HIDE DEF d, w, n
  <2>5. IF c = d THEN client'[c].nextId = client[c].nextId + 1
                 ELSE client'[c].nextId = client[c].nextId
    BY <1>0, <2>1, <2>3, <2>4 DEF Clients
  <2>6. f.id \in 1..(client'[c].nextId - 1)
    BY <1>0, <1>1, <2>5
  <2>7. \A u \in Tools : call'[u].conn = c /\ call'[u].id = f.id => u # t
    BY <1>0, <1>1, <2>2
  <2> QED
    BY <2>2, <2>6, <2>7 DEF Owned
<1>5. ASSUME NEW t \in Tools, Write(t)
      PROVE  client'[c].nextId = client[c].nextId
             /\ \A u \in Tools : call'[u].id = call[u].id /\ call'[u].conn = call[u].conn
  BY <1>0, <1>5 DEF Write, Calls
<1>6. ASSUME NEW d \in Conns, ReaderStep(d) \/ TaskMoves(d)
      PROVE  client'[c].nextId = client[c].nextId
             /\ \A u \in Tools : call'[u].id = call[u].id /\ call'[u].conn = call[u].conn
  BY <1>6, ReaderShape, TaskShape
<1>7. CASE (Emit \/ Shutdown \/ Exit \/ Start) \/ UNCHANGED vars
  <2>1. UNCHANGED <<call, client>>
    BY <1>7, DaemonShape DEF vars
  <2> QED
    BY <1>2, <2>1
<1> QED
  BY <1>2, <1>3, <1>4, <1>5, <1>6, <1>7 DEF Next, TaskMoves

\* What a connection task reads was sent, and what it writes it answered.
LEMMA TaskFrames ==
    ASSUME Typed, NEW c \in Conns, TaskMoves(c)
    PROVE  /\ \A i \in DOMAIN task'[c].sent :
                  i \in DOMAIN task[c].sent /\ task'[c].sent[i] = task[c].sent[i]
           /\ \/ task'[c].busy = NoFrame
              \/ task'[c].busy = task[c].busy
              \/ \E i \in DOMAIN task[c].sent : task'[c].busy.id = task[c].sent[i].id
                                                /\ task'[c].busy.of = task[c].sent[i].of
           /\ \A i \in DOMAIN client'[c].replies :
                  \/ i \in DOMAIN client[c].replies /\ client'[c].replies[i] = client[c].replies[i]
                  \/ client'[c].replies[i] = task[c].busy /\ task[c].busy # NoFrame
<1> USE DEF env, history
<1>0. /\ task \in [Conns -> ConnTasks] /\ client \in [Conns -> Clients]
      /\ task[c].busy \in Frames /\ task[c].sent \in Seq(Requests) /\ task[c].read \in Nat
      /\ ClosedTask.sent = <<>> /\ ClosedTask.busy = NoFrame
  BY DEF Typed, ConnTasks, ClosedTask, NewTask
<1>1. CASE Dispatch(c)
  <2> DEFINE n == task[c].read + 1
             r == task[c].sent[n]
             v == Append(task[c].served, n)
  <2>1. PICK o, k :
          task' = [task EXCEPT ![c].read = @ + 1, ![c].served = Append(@, task[c].read + 1),
             ![c].busy = [kind |-> k, id |-> r.id, of |-> r.of, outcome |-> o]]
    BY <1>1 DEF Dispatch, NextLine
  <2> DEFINE b == [kind |-> k, id |-> r.id, of |-> r.of, outcome |-> o]
  <2>2. task' = [task EXCEPT ![c].read = n, ![c].served = v, ![c].busy = b]
    BY <1>0, <2>1 DEF ConnTasks
  <2>3. b.id = r.id /\ b.of = r.of /\ n \in DOMAIN task[c].sent /\ client' = client
    BY <1>0, <1>1 DEF Dispatch, LineReady
  <2> HIDE DEF n, r, v, b
  <2>4. task'[c].busy = b /\ task'[c].sent = task[c].sent
    BY <1>0, <2>2 DEF ConnTasks
  <2> QED
    BY <2>3, <2>4 DEF r
<1>2. CASE Reply(c)
  <2>1. task'[c].sent = task[c].sent /\ task'[c].busy = NoFrame
    BY <1>0, <1>2 DEF Reply, ConnTasks
  <2> QED
    BY <1>0, <1>2, <2>1, PushShape DEF Reply
<1>3. CASE SkipBlank(c)
  <2>1. task' = [task EXCEPT ![c].read = @ + 1, ![c].torn = FALSE] /\ client' = client
    BY <1>3 DEF SkipBlank
  <2> DEFINE n == task[c].read + 1
  <2>2. task' = [task EXCEPT ![c].read = n, ![c].torn = FALSE]
    BY <1>0, <2>1 DEF ConnTasks
  <2> HIDE DEF n
  <2>3. task'[c].sent = task[c].sent /\ task'[c].busy = task[c].busy
    BY <1>0, <2>2 DEF ConnTasks
  <2> QED
    BY <2>1, <2>3
<1>4. CASE SendNotification(c)
  <2>1. PICK b : task' = [task EXCEPT ![c].notes = @ - 1, ![c].noted = @ + 1,
                                      ![c].torn = b]
    BY <1>4 DEF SendNotification
  <2> DEFINE n == task[c].notes - 1
             m == task[c].noted + 1
  <2>2. task' = [task EXCEPT ![c].notes = n, ![c].noted = m, ![c].torn = b]
    BY <1>0, <2>1 DEF ConnTasks
  <2> HIDE DEF n, m
  <2>3. task'[c].sent = task[c].sent /\ task'[c].busy = task[c].busy
    BY <1>0, <2>2 DEF ConnTasks
  <2> QED
    BY <1>4, <2>3 DEF SendNotification
<1>5. CASE Ends(c)
  BY <1>0, <1>5, EndsShape
<1> QED
  BY <1>1, <1>2, <1>3, <1>4, <1>5 DEF TaskMoves, TaskStep, Ends

\* The daemon's own steps send nothing and answer nothing.
LEMMA DaemonFrames ==
    ASSUME Typed, Emit \/ Shutdown \/ Exit \/ Start, NEW c \in Conns
    PROVE  \/ /\ task'[c].sent = task[c].sent /\ task'[c].busy = task[c].busy
              /\ task'[c].read = task[c].read /\ task'[c].served = task[c].served
              /\ task'[c].torn = task[c].torn /\ task'[c].noted = task[c].noted
           \/ task'[c] \in {NoTask, ClosedTask}
<1> USE DEF env, history
<1>0. task \in [Conns -> ConnTasks]
  BY DEF Typed
<1>1. CASE Emit
  <2>1. task'[c] = task[c] \/ task'[c] = [task[c] EXCEPT !.notes = @ + 1]
    BY <1>1 DEF Emit
  <2> QED
    BY <1>0, <2>1 DEF ConnTasks
<1>2. CASE Shutdown \/ Exit \/ Start
  BY <1>2 DEF Shutdown, Exit, Start
<1> QED
  BY <1>1, <1>2

\* Every line and frame of a live connection is an old one or the request of the
\* call that writes; and a call is only handed a frame of its own.
LEMMA FrameStep ==
    ASSUME Typed, Typed', HoldInv, HoldInv', IdInv, FrameInv, [Next]_vars
    PROVE  FrameInv'
<1> USE DEF env, history
<1> SUFFICES ASSUME NEW c \in Conns, Alive(c)'
             PROVE  /\ \A i \in DOMAIN task'[c].sent : Owned(c, task[c].sent[i])'
                    /\ (task[c].busy # NoFrame => Owned(c, task[c].busy))'
                    /\ \A i \in DOMAIN client'[c].replies : Owned(c, client[c].replies[i])'
  BY DEF FrameInv, Alive
<1> DEFINE Mine(f) == /\ f.id \in 1..(client'[c].nextId - 1)
                      /\ \A u \in Tools : call'[u].conn = c /\ call'[u].id = f.id => f.of = u
           Sound == /\ \A i \in DOMAIN task'[c].sent : Mine(task'[c].sent[i])
                    /\ task'[c].busy # NoFrame => Mine(task'[c].busy)
                    /\ \A i \in DOMAIN client'[c].replies : Mine(client'[c].replies[i])
<1> SUFFICES Sound
  BY DEF Owned
<1>0. /\ call \in [Tools -> Calls] /\ client \in [Conns -> Clients]
      /\ task \in [Conns -> ConnTasks] /\ task[c].busy \in Frames
      /\ task[c].sent \in Seq(Requests) /\ client[c].replies \in Seq(Frames)
  BY DEF Typed, ConnTasks, Clients
<1>1. ASSUME Alive(c), NEW f, Owned(c, f) PROVE Mine(f)
  BY <1>1, OwnedKept
<1>2. ASSUME Alive(c)
      PROVE  /\ \A i \in DOMAIN task[c].sent : Owned(c, task[c].sent[i])
             /\ task[c].busy # NoFrame => Owned(c, task[c].busy)
             /\ \A i \in DOMAIN client[c].replies : Owned(c, client[c].replies[i])
  BY <1>2 DEF FrameInv
<1>3. ASSUME Alive(c)
      PROVE  /\ \A i \in DOMAIN task[c].sent : Mine(task[c].sent[i])
             /\ task[c].busy # NoFrame => Mine(task[c].busy)
             /\ \A i \in DOMAIN client[c].replies : Mine(client[c].replies[i])
  BY <1>1, <1>2, <1>3
<1> HIDE DEF Mine
<1>4. ASSUME NEW t \in Tools, Reject(t) \/ CallStep(t), ~Insert(t), ~Write(t)
      PROVE  Sound
  <2>1. \A d \in Conns : Alive(d)' =>
           \/ /\ Alive(d) /\ task'[d] = task[d]
              /\ client'[d].replies = client[d].replies
           \/ FreshConn(d)'
    BY <1>4, CallShape
  <2>2. \/ /\ Alive(c) /\ task'[c] = task[c]
           /\ client'[c].replies = client[c].replies
        \/ /\ client'[c].replies = <<>> /\ task'[c].sent = <<>>
           /\ task'[c].busy = NoFrame
    BY <2>1 DEF FreshConn, Alive
  <2> QED
    BY <1>0, <1>3, <2>2
<1>5. ASSUME NEW t \in Tools, Insert(t) PROVE Sound
  <2>0. call[t].conn \in Conns
    BY <1>0, <1>5, RpcAssumption DEF Insert, HoldInv, Calls, Conns
  <2> DEFINE d == call[t].conn
             w == client[d].waiting \cup {client[d].nextId}
             n == client[d].nextId + 1
  <2>1. client' = [client EXCEPT ![d].waiting = w, ![d].nextId = n] /\ task' = task
    BY <1>0, <1>5, <2>0 DEF Insert, Clients
  <2> HIDE DEF w, n
  <2>2. client'[c].replies = client[c].replies /\ client'[c].reader = client[c].reader
    BY <1>0, <2>0, <2>1 DEF Clients
  <2> QED
    BY <1>3, <2>1, <2>2 DEF Alive
<1>6. ASSUME NEW t \in Tools, Write(t) PROVE Sound
  <2> DEFINE d == call[t].conn
             m == [id |-> call[t].id, of |-> t]
             s == Append(task[d].sent, m)
  <2>1. /\ d \in Conns /\ d # 0 /\ call[t].id # 0 /\ call[t].id \in Nat
    BY <1>0, <1>6, RpcAssumption DEF Write, HoldInv, Calls, Conns
  <2>2. /\ task' = [task EXCEPT ![d].sent = s] /\ client' = client
        /\ \A u \in Tools : call'[u].conn = call[u].conn /\ call'[u].id = call[u].id
    BY <1>0, <1>6 DEF Write, Calls
  <2>3. \A i \in DOMAIN s : \/ i \in DOMAIN task[d].sent /\ s[i] = task[d].sent[i]
                            \/ s[i] = m
    <3>1. task[d].sent \in Seq(Requests) /\ m \in Requests
      BY <1>0, <2>1 DEF ConnTasks, Requests
    <3> HIDE DEF m, d
    <3> QED
      BY <3>1
  <2>4. m.id = call[t].id /\ m.of = t
    OBVIOUS
  <2>5. ASSUME d = c PROVE Mine(m)
    <3>1. call[t].id < client[d].nextId /\ client[d].nextId \in Nat
      BY <1>0, <2>1 DEF IdInv, Clients
    <3>2. m.id \in 1..(client'[c].nextId - 1)
      BY <2>1, <2>2, <2>4, <2>5, <3>1
    <3>3. \A u \in Tools : call'[u].conn = c /\ call'[u].id = m.id => m.of = u
      BY <2>1, <2>2, <2>4, <2>5 DEF IdInv
    <3> QED
      BY <3>2, <3>3 DEF Mine
  <2> HIDE DEF d, m, s
  <2>6. /\ task'[c].busy = task[c].busy
        /\ task'[c].sent = IF c = d THEN s ELSE task[c].sent
    BY <1>0, <2>1, <2>2 DEF ConnTasks
  <2> QED
    BY <1>3, <2>2, <2>3, <2>5, <2>6 DEF Alive
<1>7. ASSUME NEW d \in Conns, ReaderStep(d) PROVE Sound
  <2>1. /\ Alive(c) /\ task' = task
        /\ \A i \in DOMAIN client'[c].replies : \E j \in DOMAIN client[c].replies :
               client'[c].replies[i] = client[c].replies[j]
    BY <1>7, ReaderShape DEF Alive
  <2> QED
    BY <1>3, <2>1
<1>8. ASSUME NEW d \in Conns, TaskMoves(d) PROVE Sound
  <2>1. Alive(c)
    BY <1>8, TaskShape DEF Alive
  <2>2. CASE c # d
    <3>1. task'[c] = task[c] /\ client'[c] = client[c]
      BY <1>8, <2>2, TaskShape
    <3> QED
      BY <1>3, <2>1, <3>1
  <2>3. CASE c = d
    <3>1. /\ \A i \in DOMAIN task'[c].sent :
                 i \in DOMAIN task[c].sent /\ task'[c].sent[i] = task[c].sent[i]
          /\ \/ task'[c].busy = NoFrame
             \/ task'[c].busy = task[c].busy
             \/ \E i \in DOMAIN task[c].sent : task'[c].busy.id = task[c].sent[i].id
                                               /\ task'[c].busy.of = task[c].sent[i].of
          /\ \A i \in DOMAIN client'[c].replies :
                 \/ i \in DOMAIN client[c].replies /\ client'[c].replies[i] = client[c].replies[i]
                 \/ client'[c].replies[i] = task[c].busy /\ task[c].busy # NoFrame
      BY <1>8, <2>3, TaskFrames
    <3>2. \A i \in DOMAIN task[c].sent : Mine(task[c].sent[i])
      BY <1>3, <2>1
    <3>3. task'[c].busy # NoFrame => Mine(task'[c].busy)
      <4>1. ASSUME NEW i \in DOMAIN task[c].sent, task'[c].busy.id = task[c].sent[i].id,
                   task'[c].busy.of = task[c].sent[i].of
            PROVE  Mine(task'[c].busy)
        BY <3>2, <4>1 DEF Mine
      <4> QED
        BY <1>0, <1>3, <2>1, <3>1, <4>1
    <3> QED
      BY <1>0, <1>3, <2>1, <3>1, <3>2, <3>3
  <2> QED
    BY <2>2, <2>3
<1>9. CASE Emit \/ Shutdown \/ Exit \/ Start
  <2>1. Alive(c) /\ client' = client
    BY <1>9, DaemonShape DEF Alive
  <2>2. \/ task'[c].sent = task[c].sent /\ task'[c].busy = task[c].busy
        \/ task'[c] \in {NoTask, ClosedTask}
    BY <1>9, DaemonFrames
  <2>3. /\ NoTask.sent = <<>> /\ NoTask.busy = NoFrame
        /\ ClosedTask.sent = <<>> /\ ClosedTask.busy = NoFrame
    BY DEF NoTask, ClosedTask, NewTask
  <2> QED
    BY <1>0, <1>3, <2>1, <2>2, <2>3
<1>10. CASE UNCHANGED vars
  <2>1. Alive(c) /\ client' = client /\ task' = task
    BY <1>10 DEF vars, Alive
  <2> QED
    BY <1>3, <2>1
<1> QED
  BY <1>4, <1>5, <1>6, <1>7, <1>8, <1>9, <1>10 DEF Next, TaskMoves

\* The reader hands a response to the call it belongs to.
LEMMA AnswerStep ==
    ASSUME Typed, HoldInv, FrameInv, OwnAnswer, [Next]_vars
    PROVE  OwnAnswer'
<1> USE DEF env, history
<1>0. call \in [Tools -> Calls]
  BY DEF Typed
<1>1. ASSUME NEW t \in Tools, Reject(t) \/ CallStep(t), ~Insert(t), ~Write(t)
      PROVE  OwnAnswer'
  <2>1. /\ \A u \in Tools \ {t} : call'[u] = call[u]
        /\ call'[t].answer \in {NoFrame, call[t].answer}
    BY <1>1, CallShape
  <2> QED
    BY <2>1 DEF OwnAnswer
<1>2. ASSUME NEW t \in Tools, Insert(t) \/ Write(t) PROVE OwnAnswer'
  <2>1. \A u \in Tools : call'[u].answer = call[u].answer
    <3>1. CASE Insert(t)
      <4> DEFINE n == client[call[t].conn].nextId
      <4>1. call' = [call EXCEPT ![t].pc = "write", ![t].id = n]
        BY <3>1 DEF Insert
      <4> HIDE DEF n
      <4> QED
        BY <1>0, <4>1 DEF Calls
    <3>2. CASE Write(t)
      BY <1>0, <3>2 DEF Write, Calls
    <3> QED
      BY <1>2, <3>1, <3>2
  <2> QED
    BY <2>1 DEF OwnAnswer
<1>3. ASSUME NEW c \in Conns, ReaderStep(c) PROVE OwnAnswer'
  <2>1. CASE ReadFrame(c)
    <3> DEFINE f == Head(client[c].replies)
    <3>1. /\ Alive(c) /\ client[c].replies \in Seq(Frames) /\ client[c].replies # <<>>
          /\ f = client[c].replies[1] /\ 1 \in DOMAIN client[c].replies
      BY <2>1 DEF ReadFrame, Alive, Typed, Clients
    <3>2. \/ call' = call
          \/ \E u \in Tools :
                /\ call[u].conn = c /\ call[u].id = f.id
                /\ call' = [call EXCEPT ![u].answer = f]
      BY <2>1 DEF ReadFrame
    <3>3. Owned(c, f)
      BY <3>1 DEF FrameInv
    <3> HIDE DEF f
    <3>4. ASSUME NEW u \in Tools, call[u].conn = c, call[u].id = f.id,
                 call' = [call EXCEPT ![u].answer = f]
          PROVE  OwnAnswer'
      <4>1. f.of = u
        BY <3>3, <3>4 DEF Owned
      <4>2. call'[u].answer = f /\ \A v \in Tools \ {u} : call'[v] = call[v]
        BY <1>0, <3>4 DEF Calls
      <4> QED
        BY <4>1, <4>2 DEF OwnAnswer
    <3>5. CASE call' = call
      BY <3>5 DEF OwnAnswer
    <3> QED
      BY <3>2, <3>4, <3>5
  <2>2. CASE EndReader(c)
    BY <2>2 DEF EndReader, OwnAnswer
  <2> QED
    BY <1>3, <2>1, <2>2 DEF ReaderStep
<1>4. ASSUME NEW c \in Conns, TaskMoves(c) PROVE OwnAnswer'
  BY <1>4, TaskShape DEF OwnAnswer
<1>5. CASE (Emit \/ Shutdown \/ Exit \/ Start) \/ UNCHANGED vars
  <2>1. call' = call
    BY <1>5, DaemonShape DEF vars
  <2> QED
    BY <2>1 DEF OwnAnswer
<1> QED
  BY <1>1, <1>2, <1>3, <1>4, <1>5 DEF Next, TaskMoves

-----------------------------------------------------------------------------
(* What is served, and how often.                                          *)

\* A call only ever appends to the lines sent, and only a new connection starts.
LEMMA CallTask ==
    ASSUME Typed, HoldInv, NEW t \in Tools, Reject(t) \/ CallStep(t), ~Write(t),
           NEW c \in Conns
    PROVE  /\ task'[c].sent = task[c].sent /\ task'[c].read = task[c].read
           /\ task'[c].served = task[c].served
           /\ task'[c].torn = task[c].torn /\ task'[c].noted = task[c].noted
<1> USE DEF env, history
<1>0. task \in [Conns -> ConnTasks]
  BY DEF Typed
<1>1. CASE Connect(t)
  <2>1. task' = [task EXCEPT ![nconns + 1].state = "running"]
    BY <1>1 DEF Connect
  <2> QED
    BY <1>0, <2>1 DEF ConnTasks
<1>2. CASE ~Connect(t)
  <2>1. task' = task
    BY <1>2 DEF Reject, CallStep, TakeClient, ConnectFails, Insert, WriteFails, Closed,
                Lose, Answered, Invalidate
  <2> QED
    BY <2>1
<1> QED
  BY <1>1, <1>2

\* The five things a connection task does to its lines: nothing, close, tear one,
\* pass over a torn one, or read one.
LEMMA TaskReads ==
    ASSUME Typed, NEW c \in Conns, TaskMoves(c)
    PROVE  \/ /\ task'[c].sent = task[c].sent /\ task'[c].read = task[c].read
              /\ task'[c].served = task[c].served /\ task'[c].torn = task[c].torn
              /\ task'[c].noted = task[c].noted /\ effects' = effects
           \/ task'[c] = ClosedTask /\ effects' = effects
           \/ /\ task'[c].sent = task[c].sent /\ task'[c].read = task[c].read
              /\ task'[c].served = task[c].served /\ task'[c].noted = task[c].noted + 1
              /\ task'[c].torn => task[c].torn \/ task[c].read < Len(task[c].sent)
              /\ effects' = effects
           \/ /\ task'[c].sent = task[c].sent /\ task'[c].read = task[c].read + 1
              /\ task'[c].served = task[c].served /\ task'[c].noted = task[c].noted
              /\ task[c].torn /\ ~task'[c].torn /\ effects' = effects
           \/ /\ task[c].read + 1 \in DOMAIN task[c].sent
              /\ task'[c].sent = task[c].sent /\ task'[c].read = task[c].read + 1
              /\ task'[c].served = Append(task[c].served, task[c].read + 1)
              /\ ~task'[c].torn /\ task'[c].noted = task[c].noted
              /\ Effect(task[c].sent[task[c].read + 1].of, "internal")
<1> USE DEF env, history
<1>0. /\ task \in [Conns -> ConnTasks]
      /\ task[c].sent \in Seq(Requests) /\ task[c].read \in Nat
  BY DEF Typed, ConnTasks
<1>1. CASE Dispatch(c)
  <2> DEFINE n == task[c].read + 1
             r == task[c].sent[n]
             v == Append(task[c].served, n)
  <2>1. PICK o, k :
          /\ task' = [task EXCEPT ![c].read = @ + 1,
                ![c].served = Append(@, task[c].read + 1),
                ![c].busy = [kind |-> k, id |-> r.id, of |-> r.of, outcome |-> o]]
          /\ Effect(r.of, o)
    BY <1>1 DEF Dispatch, NextLine
  <2> DEFINE b == [kind |-> k, id |-> r.id, of |-> r.of, outcome |-> o]
  <2>2. task' = [task EXCEPT ![c].read = n, ![c].served = v, ![c].busy = b]
    BY <1>0, <2>1 DEF ConnTasks
  <2>3. n \in DOMAIN task[c].sent /\ ~task[c].torn
    BY <1>0, <1>1 DEF Dispatch, LineReady
  <2>4. Effect(r.of, "internal")
    BY <2>1 DEF Effect
  <2> HIDE DEF n, r, v, b
  <2>5. /\ task'[c].sent = task[c].sent /\ task'[c].read = n /\ task'[c].served = v
        /\ task'[c].torn = task[c].torn /\ task'[c].noted = task[c].noted
    BY <1>0, <2>2 DEF ConnTasks
  <2> QED
    BY <2>3, <2>4, <2>5 DEF n, r, v
<1>2. CASE Reply(c)
  <2>1. task' = [task EXCEPT ![c].busy = NoFrame] /\ effects' = effects
    BY <1>2 DEF Reply
  <2> QED
    BY <1>0, <2>1 DEF ConnTasks
<1>3. CASE Ends(c)
  <2>1. task' = [task EXCEPT ![c] = ClosedTask] /\ effects' = effects
    BY <1>3, EndsShape
  <2> QED
    BY <1>0, <2>1
<1>4. CASE SendNotification(c)
  <2>1. PICK b \in {task[c].torn, task[c].read < Len(task[c].sent)} :
           task' = [task EXCEPT ![c].notes = @ - 1, ![c].noted = @ + 1, ![c].torn = b]
    BY <1>4 DEF SendNotification
  <2> DEFINE n == task[c].notes - 1
             m == task[c].noted + 1
  <2>2. task' = [task EXCEPT ![c].notes = n, ![c].noted = m, ![c].torn = b]
        /\ effects' = effects
    BY <1>0, <1>4, <2>1 DEF SendNotification, ConnTasks
  <2>3. b => task[c].torn \/ task[c].read < Len(task[c].sent)
    BY <2>1, Zenon
  <2> HIDE DEF n, m
  <2>4. /\ task'[c].sent = task[c].sent /\ task'[c].read = task[c].read
        /\ task'[c].served = task[c].served /\ task'[c].noted = m /\ task'[c].torn = b
    BY <1>0, <2>2 DEF ConnTasks
  <2> QED
    BY <2>2, <2>3, <2>4 DEF m
<1>5. CASE SkipBlank(c)
  <2> DEFINE n == task[c].read + 1
  <2>1. task' = [task EXCEPT ![c].read = n, ![c].torn = FALSE]
        /\ effects' = effects /\ task[c].torn
    BY <1>0, <1>5 DEF SkipBlank, ConnTasks
  <2> HIDE DEF n
  <2>2. /\ task'[c].sent = task[c].sent /\ task'[c].read = n
        /\ task'[c].served = task[c].served /\ task'[c].noted = task[c].noted
        /\ task'[c].torn = FALSE
    BY <1>0, <2>1 DEF ConnTasks
  <2> QED
    BY <2>1, <2>2 DEF n
<1> QED
  BY <1>1, <1>2, <1>3, <1>4, <1>5 DEF TaskMoves, TaskStep, Ends

\* Whatever of these happens to a connection task, its lines stay in order.
LEMMA OrderKept ==
    ASSUME NEW k \in ConnTasks, NEW m \in ConnTasks, Ordered(k),
           \/ /\ Len(m.sent) >= Len(k.sent) /\ m.read = k.read
              /\ m.served = k.served /\ m.torn = k.torn /\ m.noted = k.noted
           \/ /\ m.sent = k.sent /\ m.read = k.read
              /\ m.served = k.served /\ m.noted = k.noted + 1
              /\ m.torn => k.torn \/ k.read < Len(k.sent)
           \/ /\ m.sent = k.sent /\ m.read = k.read + 1
              /\ m.served = k.served /\ m.noted = k.noted
              /\ k.torn /\ ~m.torn
           \/ /\ m.sent = k.sent /\ m.read = k.read + 1
              /\ m.served = Append(k.served, k.read + 1)
              /\ ~m.torn /\ m.noted = k.noted
    PROVE  Ordered(m)
<1>0. /\ k.read \in Nat /\ k.noted \in Nat /\ k.served \in Seq(Nat)
      /\ Len(k.sent) \in Nat /\ Len(m.sent) \in Nat
  <2>1. k.sent \in Seq(Requests) /\ m.sent \in Seq(Requests)
    BY DEF ConnTasks
  <2> QED
    BY <2>1 DEF ConnTasks
<1>1. /\ k.torn => k.read < Len(k.sent)
      /\ k.torn => k.read + 1 <= Len(k.served) + k.noted
      /\ k.read <= Len(k.served) + k.noted
      /\ \A i \in DOMAIN k.served : k.served[i] <= k.read
      /\ \A i, j \in DOMAIN k.served : i < j => k.served[i] < k.served[j]
  BY <1>0 DEF Ordered
<1>2. CASE /\ m.sent = k.sent /\ m.read = k.read + 1
           /\ m.served = Append(k.served, k.read + 1)
           /\ ~m.torn /\ m.noted = k.noted
  <2> DEFINE n == k.read + 1
             v == Append(k.served, n)
  <2>1. /\ Len(v) = Len(k.served) + 1
        /\ \A i \in DOMAIN v : \/ i \in DOMAIN k.served /\ v[i] = k.served[i]
                               \/ i = Len(k.served) + 1 /\ v[i] = n
    BY <1>0
  <2>2. \A i \in DOMAIN v : v[i] <= n
    BY <1>0, <1>1, <2>1
  <2>3. \A i, j \in DOMAIN v : i < j => v[i] < v[j]
    <3>1. \A i \in DOMAIN k.served : k.served[i] < n
      BY <1>0, <1>1
    <3>2. \A j \in DOMAIN v : j <= Len(k.served) + 1
      BY <1>0
    <3> QED
      BY <1>0, <1>1, <2>1, <3>1, <3>2
  <2> HIDE DEF v
  <2> QED
    BY <1>0, <1>1, <1>2, <2>1, <2>2, <2>3 DEF Ordered, v
<1>3. CASE m.served = k.served /\ m.read = k.read
  BY <1>0, <1>1, <1>3 DEF Ordered
<1>4. CASE /\ m.sent = k.sent /\ m.read = k.read + 1
           /\ m.served = k.served /\ m.noted = k.noted
           /\ k.torn /\ ~m.torn
  BY <1>0, <1>1, <1>4 DEF Ordered
<1> QED
  BY <1>2, <1>3, <1>4

LEMMA ServedStep ==
    ASSUME Typed, Typed', HoldInv, ServedInv, [Next]_vars
    PROVE  ServedInv'
<1> USE DEF env, history
<1> SUFFICES ASSUME NEW c \in Conns PROVE Ordered(task'[c])
  BY DEF ServedInv
<1>0. /\ task \in [Conns -> ConnTasks]
      /\ task[c] \in ConnTasks /\ task'[c] \in ConnTasks /\ Ordered(task[c])
  BY DEF Typed, ServedInv
<1>1. CASE /\ task'[c].sent = task[c].sent /\ task'[c].read = task[c].read
           /\ task'[c].served = task[c].served /\ task'[c].torn = task[c].torn
           /\ task'[c].noted = task[c].noted
  <2>1. Len(task'[c].sent) >= Len(task[c].sent)
    BY <1>0, <1>1 DEF ConnTasks
  <2> QED
    BY <1>0, <1>1, <2>1, OrderKept
<1>2. CASE task'[c] \in {NoTask, ClosedTask}
  <2>1. \A k \in {NoTask, ClosedTask} : Ordered(k)
    BY DEF Ordered, NoTask, ClosedTask, NewTask
  <2> QED
    BY <1>2, <2>1
<1>3. ASSUME NEW t \in Tools, Write(t)
      PROVE  Ordered(task'[c])
  <2> DEFINE d == call[t].conn
             m == [id |-> call[t].id, of |-> t]
             s == Append(task[d].sent, m)
  <2>1. d \in Conns /\ m \in Requests
    BY <1>3, RpcAssumption DEF Write, HoldInv, Typed, Calls, Conns, Requests
  <2>2. task' = [task EXCEPT ![d].sent = s]
    BY <1>3 DEF Write
  <2>3. d = c => Len(s) >= Len(task[c].sent)
    <3>1. task[d].sent \in Seq(Requests)
      BY <1>0, <2>1 DEF ConnTasks
    <3> QED
      BY <2>1, <3>1
  <2> HIDE DEF d, m, s
  <2>4. CASE c = d
    <3>1. /\ task'[c].served = task[c].served /\ task'[c].read = task[c].read
          /\ task'[c].torn = task[c].torn /\ task'[c].noted = task[c].noted
          /\ task'[c].sent = s
      BY <1>0, <2>1, <2>2, <2>4 DEF ConnTasks
    <3> QED
      BY <1>0, <2>3, <2>4, <3>1, OrderKept
  <2>5. CASE c # d
    BY <1>0, <2>1, <2>2, <2>5
  <2> QED
    BY <2>4, <2>5
<1>4. ASSUME NEW t \in Tools, Reject(t) \/ CallStep(t), ~Write(t)
      PROVE  Ordered(task'[c])
  BY <1>1, <1>4, CallTask
<1>5. ASSUME NEW d \in Conns, TaskMoves(d)
      PROVE  Ordered(task'[c])
  <2>1. CASE c # d
    BY <1>0, <1>5, <2>1, TaskShape
  <2>2. CASE c = d
    BY <1>0, <1>1, <1>2, <1>5, <2>2, TaskReads, OrderKept
  <2> QED
    BY <2>1, <2>2
<1>6. CASE Emit \/ Shutdown \/ Exit \/ Start
  BY <1>1, <1>2, <1>6, DaemonFrames
<1>7. ASSUME (\E d \in Conns : ReaderStep(d)) \/ UNCHANGED vars
      PROVE  task' = task
  BY <1>7, ReaderShape DEF vars
<1> QED
  BY <1>0, <1>3, <1>4, <1>5, <1>6, <1>7 DEF Next, TaskMoves

\* Without a line that is sent the unread ones stay, or become fewer.
LEMMA UnreadShrinks ==
    ASSUME Typed, NEW t \in Tools,
           \A c \in Conns : \/ /\ task'[c].sent = task[c].sent
                               /\ task'[c].read \in {task[c].read, task[c].read + 1}
                            \/ task'[c] \in {NoTask, ClosedTask}
    PROVE  Unread(t)' \subseteq Unread(t)
<1>1. /\ NoTask.sent = <<>> /\ NoTask.read = 0
      /\ ClosedTask.sent = <<>> /\ ClosedTask.read = 0
  BY DEF NoTask, ClosedTask, NewTask
<1>2. ASSUME NEW c \in Conns, NEW i \in Nat,
             i \in (task'[c].read + 1)..Len(task'[c].sent), task'[c].sent[i].of = t
      PROVE  i \in (task[c].read + 1)..Len(task[c].sent) /\ task[c].sent[i].of = t
  <2>1. CASE task'[c] \in {NoTask, ClosedTask}
    <3>1. task'[c].read = 0 /\ Len(task'[c].sent) = 0
      BY <1>1, <2>1
    <3> QED
      BY <1>2, <3>1
  <2>2. CASE /\ task'[c].sent = task[c].sent
             /\ task'[c].read \in {task[c].read, task[c].read + 1}
    <3>1. task[c].read \in Nat /\ task[c].sent \in Seq(Requests)
      BY DEF Typed, ConnTasks
    <3> QED
      BY <1>2, <2>2, <3>1
  <2> QED
    BY <2>1, <2>2
<1>3. ASSUME NEW l \in Conns \X Nat, l \in Unread(t)' PROVE l \in Unread(t)
  <2>1. /\ l[2] \in (task'[l[1]].read + 1)..Len(task'[l[1]].sent)
        /\ task'[l[1]].sent[l[2]].of = t
    BY <1>3 DEF Unread
  <2>2. l[1] \in Conns /\ l[2] \in Nat
    OBVIOUS
  <2>3. l[2] \in (task[l[1]].read + 1)..Len(task[l[1]].sent) /\ task[l[1]].sent[l[2]].of = t
    BY <1>2, <2>1, <2>2
  <2> QED
    BY <2>3 DEF Unread
<1>4. Unread(t)' \subseteq Conns \X Nat
  BY DEF Unread
<1> QED
  BY <1>3, <1>4

\* A call that wrote no less and whose unread lines became no more stays counted.
LEMMA LinesKept ==
    ASSUME Typed, Typed', NEW t \in Tools, LinesCounted(t),
           Unread(t)' \subseteq Unread(t), effects'[t] = effects[t],
           Written(t) <= Written(t)'
    PROVE  LinesCounted(t)'
<1>1. Written(t) \in Int /\ Written(t)' \in Int /\ effects[t] \in Int
  <2>1. /\ call[t] \in Calls /\ call'[t] \in Calls /\ effects[t] \in Nat
    BY DEF Typed
  <2>2. call[t].attempt \in 1..2 /\ call'[t].attempt \in 1..2
    BY <2>1 DEF Calls
  <2> QED
    BY <2>1, <2>2 DEF Written
<1>2. /\ IsFiniteSet(Unread(t)') /\ Cardinality(Unread(t)') <= Cardinality(Unread(t))
      /\ Cardinality(Unread(t)) \in Nat /\ Cardinality(Unread(t)') \in Nat
  BY FS_Subset, FS_CardinalityType DEF LinesCounted
<1> QED
  BY <1>1, <1>2 DEF LinesCounted

\* A call that keeps its place stays counted where its losses are.
LEMMA LossesKept ==
    ASSUME NEW t \in Tools, LossesCounted(t), losses'[t] = losses[t],
           call'[t].pc = call[t].pc, call'[t].attempt = call[t].attempt
    PROVE  LossesCounted(t)' /\ Written(t)' = Written(t)
BY DEF LossesCounted, Written

\* How a call other than at Write moves on what it has written and lost.
LEMMA CallCount ==
    ASSUME Typed, Typed', CountInv, NEW t \in Tools, Reject(t) \/ CallStep(t), ~Write(t)
    PROVE  /\ effects' = effects
           /\ \A u \in Tools \ {t} : call'[u] = call[u] /\ losses'[u] = losses[u]
           /\ Written(t) <= Written(t)'
           /\ LossesCounted(t)'
<1> USE DEF env, history
<1>0. /\ call \in [Tools -> Calls] /\ losses \in [Tools -> Nat]
      /\ call[t].attempt \in 1..2
      /\ LossesCounted(t)
  BY DEF Typed, CountInv, Calls
<1>1. ASSUME NEW r, Return(t, r)
      PROVE  /\ \A u \in Tools \ {t} : call'[u] = call[u]
             /\ call'[t].pc = "returned" /\ call'[t].attempt = call[t].attempt
             /\ Written(t)' = call[t].attempt /\ Written(t) <= Written(t)'
  <2>1. /\ \A u \in Tools \ {t} : call'[u] = call[u]
        /\ call'[t].pc = "returned" /\ call'[t].attempt = call[t].attempt
    BY <1>0, <1>1 DEF Return
  <2> QED
    BY <1>0, <2>1 DEF Written
<1>2. ASSUME NEW r, Return(t, r), UNCHANGED history,
             call[t].pc \notin {"invalidate", "returned"}
      PROVE  /\ effects' = effects
             /\ \A u \in Tools \ {t} : call'[u] = call[u] /\ losses'[u] = losses[u]
             /\ Written(t) <= Written(t)'
             /\ LossesCounted(t)'
  BY <1>0, <1>1, <1>2 DEF LossesCounted
<1>3. ASSUME call[t].pc \in {"client", "insert"}, call'[t].pc \in {"insert", "write"},
             call'[t].attempt = call[t].attempt, effects' = effects, losses' = losses,
             \A u \in Tools \ {t} : call'[u] = call[u]
      PROVE  /\ effects' = effects
             /\ \A u \in Tools \ {t} : call'[u] = call[u] /\ losses'[u] = losses[u]
             /\ Written(t) <= Written(t)'
             /\ LossesCounted(t)'
  BY <1>0, <1>3 DEF LossesCounted, Written
<1>4. CASE Reject(t)
  BY <1>2, <1>4 DEF Reject
<1>5. CASE TakeClient(t)
  BY <1>0, <1>3, <1>5 DEF TakeClient, Calls
<1>6. CASE Connect(t)
  BY <1>0, <1>3, <1>6 DEF Connect, Calls
<1>7. CASE ConnectFails(t)
  BY <1>2, <1>7 DEF ConnectFails
<1>8. CASE Insert(t)
  <2> DEFINE n == client[call[t].conn].nextId
  <2>1. call' = [call EXCEPT ![t].pc = "write", ![t].id = n]
    BY <1>8 DEF Insert
  <2> HIDE DEF n
  <2>2. /\ call'[t].pc = "write" /\ call'[t].attempt = call[t].attempt
        /\ \A u \in Tools \ {t} : call'[u] = call[u]
    BY <1>0, <2>1 DEF Calls
  <2> QED
    BY <1>3, <1>8, <2>2 DEF Insert
<1>9. ASSUME NEW cl, Lose(t, cl), call[t].pc \in {"write", "wait"}
      PROVE  /\ effects' = effects
             /\ \A u \in Tools \ {t} : call'[u] = call[u] /\ losses'[u] = losses[u]
             /\ Written(t) <= Written(t)'
             /\ LossesCounted(t)'
  <2>1. /\ effects' = effects
        /\ \A u \in Tools \ {t} : losses'[u] = losses[u]
        /\ losses'[t] = losses[t] + 1
    BY <1>0, <1>9 DEF Lose
  <2>2. losses[t] = call[t].attempt - 1
    BY <1>0, <1>9 DEF LossesCounted
  <2>3. CASE call[t].attempt = 1
    <3>1. /\ \A u \in Tools \ {t} : call'[u] = call[u]
          /\ call'[t].pc = "invalidate" /\ call'[t].attempt = 1
      BY <1>0, <1>9, <2>3 DEF Lose, Calls
    <3> QED
      BY <1>0, <1>9, <2>1, <2>2, <2>3, <3>1 DEF LossesCounted, Written
  <2>4. CASE call[t].attempt = 2
    <3>1. Return(t, "lost")
      BY <1>9, <2>4 DEF Lose
    <3>2. /\ \A u \in Tools \ {t} : call'[u] = call[u]
          /\ call'[t].pc = "returned" /\ Written(t)' = 2 /\ Written(t) <= Written(t)'
      BY <1>1, <2>4, <3>1
    <3> QED
      BY <2>1, <2>2, <2>4, <3>2 DEF LossesCounted
  <2> QED
    BY <1>0, <2>3, <2>4
<1>10. CASE WriteFails(t) \/ Closed(t)
  BY <1>9, <1>10 DEF WriteFails, Closed
<1>11. CASE Answered(t)
  BY <1>2, <1>11 DEF Answered
<1>12. CASE Invalidate(t)
  <2>1. call[t].attempt = 1 /\ losses[t] = 1 /\ call[t].pc = "invalidate"
    BY <1>0, <1>12 DEF Invalidate, LossesCounted
  <2>2. /\ call'[t].pc = "client" /\ call'[t].attempt = 2
        /\ \A u \in Tools \ {t} : call'[u] = call[u]
        /\ UNCHANGED history
    BY <1>0, <1>12 DEF Invalidate, Calls
  <2> QED
    BY <2>1, <2>2 DEF LossesCounted, Written
<1> QED
  BY <1>4, <1>5, <1>6, <1>7, <1>8, <1>10, <1>11, <1>12 DEF CallStep

\* The line that is written is the only one that becomes unread.
LEMMA WriteCount ==
    ASSUME Typed, HoldInv, NEW t \in Tools, Write(t)
    PROVE  LET l == <<call[t].conn, Len(task[call[t].conn].sent) + 1>>
           IN  /\ Unread(t)' \subseteq Unread(t) \cup {l}
               /\ \A u \in Tools \ {t} : Unread(u)' \subseteq Unread(u)
<1> DEFINE d == call[t].conn
           n == Len(task[d].sent) + 1
           m == [id |-> call[t].id, of |-> t]
           s == Append(task[d].sent, m)
<1>1. d \in Conns /\ m \in Requests /\ m.of = t
  BY RpcAssumption DEF Write, HoldInv, Typed, Calls, Conns, Requests
<1>2. task' = [task EXCEPT ![d].sent = s]
  BY DEF Write
<1>3. task[d].sent \in Seq(Requests)
  BY <1>1 DEF Typed, ConnTasks
<1> HIDE DEF m
<1>4. /\ Len(s) = n
      /\ \A i \in 1..Len(s) : \/ i \in 1..Len(task[d].sent) /\ s[i] = task[d].sent[i]
                              \/ i = n /\ s[i] = m
  BY <1>1, <1>3
<1> HIDE DEF d, s
<1>5. \A c \in Conns : /\ task'[c].read = task[c].read /\ task[c].read \in Nat
                       /\ task'[c].sent = IF c = d THEN s ELSE task[c].sent
  BY <1>1, <1>2 DEF Typed, ConnTasks
<1>6. ASSUME NEW c \in Conns, NEW i \in Nat, NEW u \in Tools,
             i \in (task'[c].read + 1)..Len(task'[c].sent), task'[c].sent[i].of = u
      PROVE  \/ i \in (task[c].read + 1)..Len(task[c].sent) /\ task[c].sent[i].of = u
             \/ c = d /\ i = n /\ u = t
  <2>1. CASE c = d
    <3>1. /\ i \in 1..Len(s) /\ i \in (task[c].read + 1)..Len(s) /\ s[i].of = u
      BY <1>5, <1>6, <2>1
    <3> QED
      BY <1>1, <1>4, <2>1, <3>1
  <2>2. CASE c # d
    BY <1>5, <1>6, <2>2
  <2> QED
    BY <2>1, <2>2
<1>7. ASSUME NEW u \in Tools, NEW l \in Conns \X Nat, l \in Unread(u)'
      PROVE  l \in Unread(u) \/ (l = <<d, n>> /\ u = t)
  <2>1. /\ l[1] \in Conns /\ l[2] \in Nat /\ l = <<l[1], l[2]>>
        /\ l[2] \in (task'[l[1]].read + 1)..Len(task'[l[1]].sent)
        /\ task'[l[1]].sent[l[2]].of = u
    BY <1>7 DEF Unread
  <2>2. \/ l[2] \in (task[l[1]].read + 1)..Len(task[l[1]].sent) /\ task[l[1]].sent[l[2]].of = u
        \/ l[1] = d /\ l[2] = n /\ u = t
    BY <1>6, <2>1
  <2> QED
    <3>1. CASE l[2] \in (task[l[1]].read + 1)..Len(task[l[1]].sent) /\ task[l[1]].sent[l[2]].of = u
      BY <3>1 DEF Unread
    <3>2. CASE l[1] = d /\ l[2] = n /\ u = t
      BY <2>1, <3>2
    <3> QED
      BY <2>2, <3>1, <3>2
<1>8. \A u \in Tools : Unread(u)' \subseteq Conns \X Nat
  BY DEF Unread
<1> QED
  BY <1>7, <1>8 DEF d

\* The line that is read is no longer unread, and no other line becomes so.
LEMMA ReadCount ==
    ASSUME Typed, NEW c \in Conns, TaskMoves(c),
           task[c].read + 1 \in DOMAIN task[c].sent,
           task'[c].sent = task[c].sent, task'[c].read = task[c].read + 1
    PROVE  LET o == task[c].sent[task[c].read + 1].of
               l == <<c, task[c].read + 1>>
           IN  /\ l \in Unread(o)
               /\ \A u \in Tools : Unread(u)' \subseteq Unread(u) \ {l}
<1> DEFINE n == task[c].read + 1
           l == <<c, n>>
<1>1. \A d \in Conns : task[d].read \in Nat /\ task[d].sent \in Seq(Requests)
  BY DEF Typed, ConnTasks
<1>2. l \in Unread(task[c].sent[n].of)
  BY <1>1 DEF Unread
<1>3. \A d \in Conns \ {c} : task'[d] = task[d]
  BY TaskShape
<1>4. ASSUME NEW u \in Tools, NEW k \in Conns \X Nat, k \in Unread(u)'
      PROVE  k \in Unread(u) \ {l}
  <2>1. /\ k[1] \in Conns /\ k[2] \in Nat
        /\ k[2] \in (task'[k[1]].read + 1)..Len(task'[k[1]].sent)
        /\ task'[k[1]].sent[k[2]].of = u
    BY <1>4 DEF Unread
  <2>2. CASE k[1] = c
    <3>1. k[2] \in (n + 1)..Len(task[c].sent) /\ task[c].sent[k[2]].of = u
      BY <2>1, <2>2
    <3>2. k[2] \in n..Len(task[c].sent) /\ k[2] # n
      BY <1>1, <3>1
    <3> QED
      BY <2>1, <2>2, <3>1, <3>2 DEF Unread
  <2>3. CASE k[1] # c
    <3>1. task'[k[1]] = task[k[1]]
      BY <1>3, <2>1, <2>3
    <3> QED
      BY <2>1, <2>3, <3>1 DEF Unread
  <2> QED
    BY <2>2, <2>3
<1>5. \A u \in Tools : Unread(u)' \subseteq Conns \X Nat
  BY DEF Unread
<1> QED
  BY <1>2, <1>4, <1>5

LEMMA CountStep ==
    ASSUME Typed, Typed', HoldInv, CountInv, [Next]_vars
    PROVE  CountInv'
<1> USE DEF env, history
<1>0. /\ call \in [Tools -> Calls] /\ effects \in [Tools -> Nat]
      /\ task \in [Conns -> ConnTasks]
      /\ \A u \in Tools : LinesCounted(u) /\ LossesCounted(u)
      /\ \A u \in Tools : /\ Cardinality(Unread(u)) \in Nat
                          /\ Written(u) \in Int
  <2>1. \A u \in Tools : call[u].attempt \in Int
    BY DEF Typed, Calls
  <2> QED
    BY <2>1, FS_CardinalityType DEF Typed, CountInv, LinesCounted, Written
<1>1. ASSUME NEW t \in Tools, Reject(t) \/ CallStep(t), ~Write(t)
      PROVE  CountInv'
  <2>1. /\ effects' = effects
        /\ \A u \in Tools \ {t} : call'[u] = call[u] /\ losses'[u] = losses[u]
        /\ Written(t) <= Written(t)'
        /\ LossesCounted(t)'
    BY <1>1, CallCount
  <2>2. \A u \in Tools : Unread(u)' \subseteq Unread(u)
    <3>1. \A c \in Conns : task'[c].sent = task[c].sent /\ task'[c].read = task[c].read
      BY <1>1, CallTask
    <3> QED
      BY <3>1, UnreadShrinks
  <2>3. LinesCounted(t)'
    BY <1>0, <2>1, <2>2, LinesKept
  <2>4. ASSUME NEW u \in Tools \ {t} PROVE LinesCounted(u)' /\ LossesCounted(u)'
    <3>1. Written(u)' = Written(u) /\ LossesCounted(u)'
      BY <1>0, <2>1, LossesKept
    <3> QED
      BY <1>0, <2>1, <2>2, <3>1, LinesKept
  <2> QED
    BY <2>1, <2>3, <2>4 DEF CountInv
<1>2. ASSUME NEW t \in Tools, Write(t) PROVE CountInv'
  <2>1. /\ call'[t].pc = "wait" /\ call'[t].attempt = call[t].attempt
        /\ \A u \in Tools \ {t} : call'[u] = call[u]
        /\ UNCHANGED history
    BY <1>0, <1>2 DEF Write, Calls
  <2> DEFINE l == <<call[t].conn, Len(task[call[t].conn].sent) + 1>>
  <2>2. /\ Unread(t)' \subseteq Unread(t) \cup {l}
        /\ \A u \in Tools \ {t} : Unread(u)' \subseteq Unread(u)
    BY <1>2, WriteCount
  <2> HIDE DEF l
  <2>3. LinesCounted(t)'
    <3>1. IsFiniteSet(Unread(t)) /\ effects[t] + Cardinality(Unread(t)) <= Written(t)
      BY <1>0 DEF LinesCounted
    <3>2. /\ IsFiniteSet(Unread(t) \cup {l})
          /\ Cardinality(Unread(t) \cup {l}) <= Cardinality(Unread(t)) + 1
          /\ Cardinality(Unread(t) \cup {l}) \in Nat
      <4> DEFINE A == Unread(t)
                 B == A \cup {l}
      <4>1. IsFiniteSet(A) /\ Cardinality(A) \in Nat
        BY <1>0, <3>1
      <4> HIDE DEF A
      <4>2. IsFiniteSet(B) /\ (Cardinality(B) = Cardinality(A) \/ Cardinality(B) = Cardinality(A) + 1)
        BY <4>1, FS_AddElement
      <4> QED
        BY <4>1, <4>2 DEF A
    <3>3. /\ IsFiniteSet(Unread(t)')
          /\ Cardinality(Unread(t)') <= Cardinality(Unread(t) \cup {l})
          /\ Cardinality(Unread(t)') \in Nat
      BY <2>2, <3>2, FS_Subset, FS_CardinalityType
    <3>4. Written(t) = call[t].attempt - 1 /\ Written(t)' = call[t].attempt
      BY <1>2, <2>1 DEF Write, Written
    <3>5. call[t].attempt \in Int /\ effects[t] \in Nat /\ effects'[t] = effects[t]
      BY <1>0, <2>1 DEF Calls
    <3>6. effects'[t] + Cardinality(Unread(t)') <= Written(t)'
      BY <1>0, <3>1, <3>2, <3>3, <3>4, <3>5
    <3> QED
      BY <3>3, <3>6 DEF LinesCounted
  <2>4. LossesCounted(t)'
    BY <1>0, <1>2, <2>1 DEF LossesCounted, Write
  <2>5. ASSUME NEW u \in Tools \ {t} PROVE LinesCounted(u)' /\ LossesCounted(u)'
    <3>1. Written(u)' = Written(u) /\ LossesCounted(u)'
      BY <1>0, <2>1, LossesKept
    <3> QED
      BY <1>0, <2>1, <2>2, <3>1, LinesKept
  <2> QED
    BY <2>3, <2>4, <2>5 DEF CountInv
<1>3. ASSUME \A u \in Tools : call'[u].pc = call[u].pc /\ call'[u].attempt = call[u].attempt,
             losses' = losses, effects' = effects,
             \A u \in Tools : Unread(u)' \subseteq Unread(u)
      PROVE  CountInv'
  <2>1. \A u \in Tools : Written(u)' = Written(u) /\ LossesCounted(u)'
    BY <1>0, <1>3, LossesKept
  <2>2. \A u \in Tools : LinesCounted(u)'
    BY <1>0, <1>3, <2>1, LinesKept
  <2> QED
    BY <2>1, <2>2 DEF CountInv
<1>4. ASSUME NEW c \in Conns, ReaderStep(c) PROVE CountInv'
  <2>1. /\ \A u \in Tools : call'[u].pc = call[u].pc /\ call'[u].attempt = call[u].attempt
        /\ task' = task /\ losses' = losses /\ effects' = effects
    BY <1>4, ReaderShape
  <2>2. \A u \in Tools : Unread(u)' \subseteq Unread(u)
    BY <2>1, UnreadShrinks
  <2> QED
    BY <1>3, <2>1, <2>2
<1>5. ASSUME NEW c \in Conns, TaskMoves(c) PROVE CountInv'
  <2>1. call' = call /\ losses' = losses
    BY <1>5, TaskShape
  <2>2. CASE effects' = effects /\ (task'[c] = ClosedTask
                \/ /\ task'[c].sent = task[c].sent
                   /\ task'[c].read \in {task[c].read, task[c].read + 1})
    <3>1. \A u \in Tools : Unread(u)' \subseteq Unread(u)
      BY <1>5, <2>2, TaskShape, UnreadShrinks
    <3> QED
      BY <1>3, <2>1, <2>2, <3>1
  <2>3. CASE /\ task[c].read + 1 \in DOMAIN task[c].sent
             /\ task'[c].sent = task[c].sent /\ task'[c].read = task[c].read + 1
             /\ Effect(task[c].sent[task[c].read + 1].of, "internal")
    <3> DEFINE o == task[c].sent[task[c].read + 1].of
               l == <<c, task[c].read + 1>>
    <3>1. l \in Unread(o) /\ \A u \in Tools : Unread(u)' \subseteq Unread(u) \ {l}
      BY <1>5, <2>3, ReadCount
    <3>2. Effect(o, "internal")
      BY <2>3
    <3> HIDE DEF o, l
    <3>3. \A u \in Tools : effects'[u] = effects[u] \/ (u = o /\ effects'[u] = effects[u] + 1)
      BY <1>0, <3>2 DEF Effect
    <3>4. \A u \in Tools : Written(u)' = Written(u) /\ LossesCounted(u)'
      BY <1>0, <2>1, LossesKept
    <3>5. ASSUME NEW u \in Tools PROVE LinesCounted(u)'
      <4>1. CASE effects'[u] = effects[u]
        BY <1>0, <3>1, <3>4, <4>1, LinesKept
      <4>2. CASE u = o /\ effects'[u] = effects[u] + 1
        <5>1. IsFiniteSet(Unread(u)) /\ effects[u] + Cardinality(Unread(u)) <= Written(u)
          BY <1>0 DEF LinesCounted
        <5>2. /\ IsFiniteSet(Unread(u) \ {l})
              /\ Cardinality(Unread(u) \ {l}) = Cardinality(Unread(u)) - 1
          BY <3>1, <4>2, <5>1, FS_RemoveElement
        <5>3. /\ IsFiniteSet(Unread(u)')
              /\ Cardinality(Unread(u)') <= Cardinality(Unread(u) \ {l})
              /\ Cardinality(Unread(u)') \in Nat
          BY <3>1, <5>2, FS_Subset, FS_CardinalityType
        <5>4. effects'[u] + Cardinality(Unread(u)') <= Written(u)'
          BY <1>0, <3>4, <4>2, <5>1, <5>2, <5>3
        <5> QED
          BY <5>3, <5>4 DEF LinesCounted
      <4> QED
        BY <3>3, <4>1, <4>2
    <3> QED
      BY <3>4, <3>5 DEF CountInv
  <2> QED
    BY <1>5, <2>2, <2>3, TaskReads
<1>6. CASE Emit \/ Shutdown \/ Exit \/ Start
  <2>1. call' = call /\ losses' = losses /\ effects' = effects
    BY <1>6, DaemonShape
  <2>2. \A u \in Tools : Unread(u)' \subseteq Unread(u)
    BY <1>6, DaemonFrames, UnreadShrinks
  <2> QED
    BY <1>3, <2>1, <2>2
<1>7. CASE UNCHANGED vars
  <2>1. call' = call /\ losses' = losses /\ effects' = effects /\ task' = task
    BY <1>7 DEF vars
  <2>2. \A u \in Tools : Unread(u)' \subseteq Unread(u)
    BY <2>1, UnreadShrinks
  <2> QED
    BY <1>3, <2>1, <2>2
<1> QED
  BY <1>1, <1>2, <1>4, <1>5, <1>6, <1>7 DEF Next, TaskMoves

-----------------------------------------------------------------------------
(* The invariant and what it gives.                                        *)

LEMMA InitIInv == Init => IInv
<1> SUFFICES ASSUME Init PROVE IInv
  OBVIOUS
<1>1. Typed /\ HoldInv
  BY TypedInit, HoldInit
<1>2. /\ NoTask.sent = <<>> /\ NoTask.read = 0 /\ NoTask.served = <<>>
      /\ NoClient.reader = "none"
  BY DEF NoTask, NoClient, NewTask, NewClient
<1>3. \A t \in Tools : call[t].conn = 0 /\ call[t].answer = NoFrame
                       /\ call[t].pc = "client" /\ call[t].attempt = 1
  BY DEF Init
<1>4. \A c \in Conns : client[c] = NoClient /\ task[c] = NoTask
  BY DEF Init
<1>5. IdInv /\ FrameInv /\ OwnAnswer
  BY <1>2, <1>3, <1>4 DEF IdInv, FrameInv, OwnAnswer, Alive
<1>6. ServedInv
  BY <1>4 DEF ServedInv, Ordered, NoTask, NewTask
<1>7. ASSUME NEW t \in Tools PROVE LinesCounted(t) /\ LossesCounted(t)
  <2>1. Unread(t) = {}
    <3>1. ASSUME NEW l \in Conns \X Nat,
                 l[2] \in (task[l[1]].read + 1)..Len(task[l[1]].sent)
          PROVE  FALSE
      BY <1>2, <1>4, <3>1
    <3> QED
      BY <3>1 DEF Unread
  <2>2. effects[t] = 0 /\ losses[t] = 0
    BY DEF Init
  <2> QED
    BY <1>3, <2>1, <2>2, FS_EmptySet DEF LinesCounted, LossesCounted, Written
<1> QED
  BY <1>1, <1>5, <1>6, <1>7 DEF IInv, CountInv

LEMMA NextIInv == IInv /\ [Next]_vars => IInv'
<1> SUFFICES ASSUME IInv, [Next]_vars PROVE IInv'
  OBVIOUS
<1>0. Typed /\ HoldInv /\ IdInv /\ FrameInv /\ OwnAnswer /\ ServedInv /\ CountInv
  BY DEF IInv
<1>1. Typed'
  BY <1>0, TypedStep
<1>2. HoldInv'
  BY <1>0, <1>1, HoldStep
<1>3. IdInv'
  BY <1>0, <1>1, <1>2, IdStep
<1>4. FrameInv'
  BY <1>0, <1>1, <1>2, FrameStep
<1>5. OwnAnswer' /\ ServedInv' /\ CountInv'
  BY <1>0, <1>1, AnswerStep, ServedStep, CountStep
<1> QED
  BY <1>1, <1>2, <1>3, <1>4, <1>5 DEF IInv

\* The inductive invariant of the RPC path holds in every reachable state.
THEOREM Invariance == Spec => []IInv
BY InitIInv, NextIInv, PTL DEF Spec

\* What the counters of a call may reach.
LEMMA Counts ==
    ASSUME IInv, NEW t \in Tools
    PROVE  /\ effects[t] <= 1 + losses[t]
           /\ effects[t] \in 0..2 /\ losses[t] \in 0..2
<1>1. /\ effects[t] \in Nat /\ losses[t] \in Nat /\ call[t].attempt \in 1..2
      /\ LinesCounted(t) /\ LossesCounted(t)
  BY DEF IInv, Typed, CountInv, Calls
<1>2. Cardinality(Unread(t)) \in Nat
  BY <1>1, FS_CardinalityType DEF LinesCounted
<1>3. effects[t] <= Written(t)
  <2>1. Written(t) \in Int
    BY <1>1 DEF Written
  <2> QED
    BY <1>1, <1>2, <2>1 DEF LinesCounted
<1>4. Written(t) <= 1 + losses[t] /\ Written(t) <= 2 /\ losses[t] <= 2
  BY <1>1 DEF LossesCounted, Written
<1>5. Written(t) \in Int
  BY <1>1 DEF Written
<1> QED
  BY <1>1, <1>3, <1>4, <1>5

\* Calls, clients and connection tasks are well formed; a call executes and loses
\* at most twice (Client, handle_connection, call_with_retry).
THEOREM TypeCorrect == Spec => []TypeOK
<1>1. IInv => TypeOK
  <2> SUFFICES ASSUME IInv PROVE TypeOK
    OBVIOUS
  <2>1. effects \in [Tools -> 0..2] /\ losses \in [Tools -> 0..2]
    BY Counts DEF IInv, Typed
  <2> QED
    BY <2>1 DEF IInv, Typed, TypeOK
<1> QED
  BY <1>1, Invariance, PTL

\* Whatever is lost, repeated, torn or too long, a call is only ever handed the
\* answer to its own request (Client::call, reader_loop).
THEOREM AnswersOwn == Spec => []OwnAnswer
<1>1. IInv => OwnAnswer
  BY DEF IInv
<1> QED
  BY <1>1, Invariance, PTL

\* A connection executes its request lines in order, none twice, and passes over at
\* most one for each notification it wrote (handle_connection, read_message).
THEOREM NoneSkipped == Spec => []RequestsInOrder
<1>1. IInv => RequestsInOrder
  <2> SUFFICES ASSUME IInv, NEW c \in Conns
               PROVE  /\ \A i, j \in DOMAIN task[c].served :
                             i < j => task[c].served[i] < task[c].served[j]
                      /\ task[c].read <= Len(task[c].served) + task[c].noted
    BY DEF RequestsInOrder
  <2>1. /\ task[c].read \in Nat /\ task[c].noted \in Nat
        /\ task[c].served \in Seq(Nat) /\ Ordered(task[c])
    BY DEF IInv, Typed, ConnTasks, ServedInv
  <2> QED
    BY <2>1 DEF Ordered
<1> QED
  BY <1>1, Invariance, PTL

\* A tool call takes effect at most once, and at most once more for each
\* connection it lost (call_with_retry).
THEOREM OnceUnlessLost == Spec => []RepeatedOnlyAfterLoss
<1>1. IInv => RepeatedOnlyAfterLoss
  BY Counts DEF RepeatedOnlyAfterLoss
<1> QED
  BY <1>1, Invariance, PTL

-----------------------------------------------------------------------------
(* One fault.                                                              *)

\* What is written towards a client is an answer.
KindInv ==
    \A c \in Conns : Alive(c) =>
        /\ task[c].busy = NoFrame \/ task[c].busy.kind \in {"response", "big"}
        /\ \A i \in DOMAIN client[c].replies :
               client[c].replies[i].kind \in {"response", "big"}

\* While a reader runs, a call without its answer has its waiter.
WaitInv ==
    \A t \in Tools :
        /\ call[t].pc \in {"write", "wait"}
        /\ client[call[t].conn].reader = "running"
        /\ call[t].answer = NoFrame
        => call[t].id \in client[call[t].conn].waiting

\* Nothing has happened to connection c, nor is about to, that would fail a call.
Healthy(c) ==
    /\ client[c].reader = "running"
    /\ \A i \in DOMAIN client[c].replies : client[c].replies[i].kind # "big"
    /\ task[c].state = "running"
    /\ ~task[c].torn
    /\ task[c].notes = 0
    /\ task[c].busy.kind # "big"

\* A fault spares the connections made after it.
LaterHealthy == \A c \in Conns : c > faults /\ Alive(c) => Healthy(c)

\* Call t has not failed yet, or is repeated on another connection than the first.
OtherConn(t) ==
    /\ faults = 0 => call[t].attempt = 1 /\ call[t].pc # "invalidate"
    /\ call[t].attempt = 2 \/ call[t].pc = "invalidate" => nconns > 0
    /\ call[t].attempt = 2 => cached # 1
    /\ call[t].attempt = 2 /\ call[t].pc # "client" => call[t].conn # 1
    /\ call[t].result # "lost"

\* At most one fault, and neither a line that is too long nor a hasty connection.
Mild == faults <= 1 /\ ~hasty /\ \A t \in Tools : size[t] = "fits"

\* The first fault then finds one connection at most.
FaultInv ==
    Mild =>
        /\ LaterHealthy
        /\ (up /\ ~stopping) \/ (faults = 1 /\ nconns <= 1)
        /\ faults = 0 => nconns <= 1 /\ (cached = 0 => nconns = 0)
        /\ \A t \in Tools : OtherConn(t)

\* A step of a call leaves the live connections as they are, or makes a healthy one.
LEMMA CallHealthy ==
    ASSUME Typed, HoldInv, NEW t \in Tools, Reject(t) \/ CallStep(t),
           NEW c \in Conns, Alive(c)'
    PROVE  \/ /\ Alive(c)
              /\ client'[c].reader = client[c].reader
              /\ client'[c].replies = client[c].replies
              /\ task'[c].state = task[c].state /\ task'[c].torn = task[c].torn
              /\ task'[c].notes = task[c].notes /\ task'[c].busy = task[c].busy
              /\ call[t].pc # "write" => client[c].waiting \subseteq client'[c].waiting
              /\ client[c].waiting \ {call[t].id} \subseteq client'[c].waiting
           \/ /\ c = nconns + 1 /\ Healthy(c)'
              /\ client'[c].replies = <<>> /\ task'[c].busy = NoFrame
<1> USE DEF env, history
<1>0. /\ call \in [Tools -> Calls] /\ client \in [Conns -> Clients]
      /\ task \in [Conns -> ConnTasks]
      /\ call[t].pc \in {"insert", "write", "wait"} => call[t].conn \in Conns
  BY RpcAssumption DEF Typed, HoldInv, Calls, Conns
<1>1. ASSUME NEW cl \in [Conns -> Clients], DropUnheld(cl), task' = task,
             cl[c].reader = client[c].reader, cl[c].replies = client[c].replies,
             \/ cl[c].waiting = client[c].waiting
             \/ call[t].pc = "write" /\ cl[c].waiting = client[c].waiting \ {call[t].id}
      PROVE  /\ Alive(c)
             /\ client'[c].reader = client[c].reader
             /\ client'[c].replies = client[c].replies
             /\ task'[c] = task[c]
             /\ call[t].pc # "write" => client[c].waiting \subseteq client'[c].waiting
             /\ client[c].waiting \ {call[t].id} \subseteq client'[c].waiting
  <2>1. client'[c] = cl[c]
    BY <1>1, DropKeeps
  <2> QED
    BY <1>1, <2>1 DEF Alive
<1>2. CASE Reject(t)
  BY <1>2 DEF Reject, Alive
<1>3. CASE TakeClient(t)
  BY <1>0, <1>1, <1>3 DEF TakeClient
<1>4. CASE Connect(t)
  <2> DEFINE n == nconns + 1
             cl == [client EXCEPT ![n].reader = "running"]
  <2>1. n \in Conns /\ client[n] = NoClient /\ task[n] = NoTask
    BY <1>4, RpcAssumption DEF Connect, HoldInv, Typed, Conns
  <2>2. DropUnheld(cl) /\ task' = [task EXCEPT ![n].state = "running"]
    BY <1>4 DEF Connect
  <2> HIDE DEF n
  <2>3. cl \in [Conns -> Clients]
    <3>1. [client[n] EXCEPT !.reader = "running"] \in Clients
      BY <1>0, <2>1 DEF Clients
    <3> QED
      BY <1>0, <2>1, <3>1
  <2>4. client'[c] = cl[c]
    BY <2>2, <2>3, DropKeeps
  <2>5. CASE c # n
    <3>1. cl[c] = client[c] /\ task'[c] = task[c]
      BY <1>0, <2>1, <2>2, <2>5
    <3> QED
      BY <2>4, <3>1 DEF Alive
  <2>6. CASE c = n
    <3>1. cl[n].reader = "running" /\ cl[n].replies = <<>>
      BY <1>0, <2>1 DEF Clients, NoClient, NewClient
    <3>2. /\ task'[n].state = "running" /\ task'[n].torn = FALSE
          /\ task'[n].notes = 0 /\ task'[n].busy = NoFrame
      BY <1>0, <2>1, <2>2 DEF ConnTasks, NoTask, NewTask
    <3>3. NoFrame.kind = "none"
      BY DEF NoFrame
    <3>4. Healthy(c)'
      BY <2>4, <2>6, <3>1, <3>2, <3>3 DEF Healthy
    <3> QED
      BY <2>4, <2>6, <3>1, <3>2, <3>4 DEF n
  <2> QED
    BY <2>5, <2>6
<1>5. CASE ConnectFails(t)
  BY <1>0, <1>1, <1>5 DEF ConnectFails
<1>6. CASE Insert(t)
  <2> DEFINE d == call[t].conn
             w == client[d].waiting \cup {client[d].nextId}
             n == client[d].nextId + 1
  <2>1. /\ d \in Conns /\ task' = task
        /\ client' = [client EXCEPT ![d].waiting = w, ![d].nextId = n]
    BY <1>0, <1>6 DEF Insert, Clients
  <2>2. client[d].waiting \subseteq w
    OBVIOUS
  <2> HIDE DEF d, w, n
  <2>3. /\ client'[c].reader = client[c].reader /\ client'[c].replies = client[c].replies
        /\ client'[c].waiting = IF c = d THEN w ELSE client[c].waiting
    BY <1>0, <2>1 DEF Clients
  <2> QED
    BY <2>1, <2>2, <2>3 DEF Alive
<1>7. CASE Write(t)
  <2> DEFINE d == call[t].conn
             s == Append(task[d].sent, [id |-> call[t].id, of |-> t])
  <2>1. client' = client /\ task' = [task EXCEPT ![d].sent = s]
    BY <1>7 DEF Write
  <2> HIDE DEF d, s
  <2>2. /\ task'[c].state = task[c].state /\ task'[c].torn = task[c].torn
        /\ task'[c].notes = task[c].notes /\ task'[c].busy = task[c].busy
    BY <1>0, <2>1 DEF ConnTasks
  <2> QED
    BY <2>1, <2>2 DEF Alive
<1>8. CASE WriteFails(t)
  <2> DEFINE d == call[t].conn
             w == client[d].waiting \ {call[t].id}
             cl == [client EXCEPT ![d].waiting = w]
  <2>1. d \in Conns /\ DropUnheld(cl) /\ task' = task /\ call[t].pc = "write"
    BY <1>0, <1>8 DEF WriteFails, Lose
  <2>2. w \in SUBSET Nat
    BY <1>0, <2>1 DEF Clients
  <2>3. w = client[d].waiting \ {call[t].id}
    OBVIOUS
  <2> HIDE DEF d, w
  <2>4. /\ cl \in [Conns -> Clients]
        /\ cl[c].reader = client[c].reader /\ cl[c].replies = client[c].replies
        /\ cl[c].waiting = IF c = d THEN w ELSE client[c].waiting
    BY <1>0, <2>1, <2>2 DEF Clients
  <2> HIDE DEF cl
  <2> QED
    BY <1>1, <2>1, <2>3, <2>4
<1>9. CASE Closed(t)
  BY <1>0, <1>1, <1>9 DEF Closed, Lose
<1>10. CASE Answered(t)
  BY <1>0, <1>1, <1>10 DEF Answered
<1>11. CASE Invalidate(t)
  BY <1>0, <1>1, <1>11 DEF Invalidate
<1> QED
  BY <1>2, <1>3, <1>4, <1>5, <1>6, <1>7, <1>8, <1>9, <1>10, <1>11 DEF CallStep

\* What a reader does to the calls and the waiters: an answer goes to the waiter
\* with its id.
LEMMA ReaderWaits ==
    ASSUME Typed, HoldInv, IdInv, KindInv, WaitInv, NEW c \in Conns, ReaderStep(c)
    PROVE  WaitInv'
<1> USE DEF env, history
<1>0. /\ call \in [Tools -> Calls] /\ client \in [Conns -> Clients]
      /\ \A u \in Tools : /\ call'[u].conn = call[u].conn /\ call'[u].id = call[u].id
                          /\ call'[u].pc = call[u].pc
      /\ \A d \in Conns \ {c} : client'[d] = client[d]
      /\ client[c].replies \in Seq(Frames)
      /\ \A u \in Tools : call[u].pc \in {"write", "wait"} => call[u].conn \in Conns
  <2>1. \A u \in Tools : call[u].pc \in {"write", "wait"} => call[u].conn \in Conns
    BY RpcAssumption DEF Typed, HoldInv, Calls, Conns
  <2>2. /\ call \in [Tools -> Calls] /\ client \in [Conns -> Clients]
        /\ client[c].replies \in Seq(Frames)
    BY DEF Typed, Clients
  <2> QED
    BY <2>1, <2>2, ReaderShape
<1> SUFFICES ASSUME NEW u \in Tools, call[u].pc \in {"write", "wait"},
                    client'[call[u].conn].reader = "running", call'[u].answer = NoFrame
             PROVE  call[u].id \in client'[call[u].conn].waiting
  BY <1>0 DEF WaitInv
<1>1. CASE ReadFrame(c)
  <2> DEFINE f == Head(client[c].replies)
             s == Tail(client[c].replies)
             w == client[c].waiting \ {f.id}
  <2>1. /\ client[c].replies # <<>> /\ f.kind # "big" /\ client[c].reader = "running"
        /\ client' = [client EXCEPT ![c].replies = s, ![c].waiting = w]
        /\ \/ f.id \in client[c].waiting
              /\ \E t \in Tools : /\ call[t].conn = c /\ call[t].id = f.id
                                  /\ call' = [call EXCEPT ![t].answer = f]
           \/ f.id \notin client[c].waiting /\ call' = call
    BY <1>0, <1>1 DEF ReadFrame, Clients
  <2>2. /\ w = client[c].waiting \ {f.id}
        /\ f = client[c].replies[1] /\ 1 \in DOMAIN client[c].replies
    BY <1>0, <2>1
  <2>3. f \in Frames
    BY <1>0, <2>2
  <2> HIDE DEF f, s, w
  <2>4. /\ client'[c].reader = "running" /\ client'[c].waiting = w
    BY <1>0, <2>1 DEF Clients
  <2>5. f.kind = "response" /\ f # NoFrame
    <3>1. f.kind \in {"response", "big"}
      BY <2>1, <2>2 DEF KindInv, Alive
    <3> QED
      BY <2>1, <3>1 DEF NoFrame
  <2>6. call[u].answer = NoFrame
    <3>1. ASSUME NEW t \in Tools, call' = [call EXCEPT ![t].answer = f]
          PROVE  call[u].answer = NoFrame
      <4>1. f # NoFrame
        BY <2>5
      <4>2. call'[u].answer = IF u = t THEN f ELSE call[u].answer
        BY <1>0, <3>1 DEF Calls
      <4> QED
        BY <4>1, <4>2
    <3> QED
      BY <2>1, <3>1
  <2>7. CASE call[u].conn # c
    BY <1>0, <2>6, <2>7 DEF WaitInv
  <2>8. CASE call[u].conn = c
    <3>1. call[u].id \in client[c].waiting /\ call[u].id # 0
      BY <2>1, <2>6, <2>8 DEF WaitInv, HoldInv
    <3>2. ASSUME call[u].id = f.id PROVE FALSE
      <4>1. PICK t \in Tools : /\ call[t].conn = c /\ call[t].id = f.id
                               /\ call' = [call EXCEPT ![t].answer = f]
        BY <2>1, <2>5, <3>1, <3>2
      <4>2. t = u
        <5>1. call[t].conn # 0
          BY <1>0, <2>8, <4>1 DEF Conns
        <5> QED
          BY <2>8, <3>1, <3>2, <4>1, <5>1 DEF IdInv
      <4>3. call'[u].answer = f
        BY <1>0, <4>1, <4>2 DEF Calls
      <4> QED
        BY <2>5, <4>3
    <3> QED
      BY <2>2, <2>4, <2>8, <3>1, <3>2
  <2> QED
    BY <2>7, <2>8
<1>2. CASE EndReader(c)
  <2>1. call' = call /\ client'[c].reader = "ended"
    BY <1>0, <1>2 DEF EndReader, Clients
  <2>2. call[u].conn # c
    BY <2>1
  <2> QED
    BY <1>0, <2>1, <2>2 DEF WaitInv
<1> QED
  BY <1>1, <1>2 DEF ReaderStep

\* A task writes answers, and forgets no waiter.
LEMMA TaskWaits ==
    ASSUME Typed, NEW c \in Conns, TaskMoves(c)
    PROVE  \A d \in Conns : client'[d].waiting = client[d].waiting
                            /\ client'[d].reader = client[d].reader
<1> USE DEF env, history
<1>0. client \in [Conns -> Clients]
  BY DEF Typed
<1>1. ASSUME NEW f, Push(c, f)
      PROVE  \A d \in Conns : client'[d].waiting = client[d].waiting
                              /\ client'[d].reader = client[d].reader
  <2> DEFINE s == Append(client[c].replies, f)
  <2>1. client' = client \/ client' = [client EXCEPT ![c].replies = s]
    BY <1>1 DEF Push
  <2> HIDE DEF s
  <2>2. CASE client' = [client EXCEPT ![c].replies = s]
    BY <1>0, <2>2 DEF Clients
  <2> QED
    BY <2>1, <2>2
<1>2. CASE Ends(c)
  BY <1>2, EndsShape
<1> QED
  BY <1>1, <1>2 DEF TaskMoves, TaskStep, Dispatch, Reply, SkipBlank, SendNotification, Ends

\* A call that waits keeps its waiter until its reader ends or answers it.
LEMMA WaitStep ==
    ASSUME Typed, HoldInv, IdInv, KindInv, WaitInv, HoldInv', Typed', [Next]_vars
    PROVE  WaitInv'
<1> USE DEF env, history
<1>0. /\ call \in [Tools -> Calls] /\ client \in [Conns -> Clients]
      /\ \A u \in Tools : call[u].pc \in {"write", "wait"} => call[u].conn \in Conns
      /\ \A u \in Tools : call'[u].pc \in {"write", "wait"} => call'[u].conn \in Conns
  <2>1. \A u \in Tools : call[u].pc \in {"write", "wait"} => call[u].conn \in Conns
    BY RpcAssumption DEF Typed, HoldInv, Calls, Conns
  <2>2. \A u \in Tools : call'[u].pc \in {"write", "wait"} => call'[u].conn \in Conns
    BY RpcAssumption DEF Typed, HoldInv, Calls, Conns
  <2> QED
    BY <2>1, <2>2 DEF Typed
<1>1. ASSUME NEW t \in Tools, Reject(t) \/ CallStep(t) PROVE WaitInv'
  <2>1. \A u \in Tools \ {t} : call'[u] = call[u]
    <3>1. CASE Insert(t)
      <4> DEFINE n == client[call[t].conn].nextId
      <4>1. call' = [call EXCEPT ![t].pc = "write", ![t].id = n]
        BY <3>1 DEF Insert
      <4> HIDE DEF n
      <4> QED
        BY <1>0, <4>1
    <3>2. CASE Write(t)
      BY <1>0, <3>2 DEF Write
    <3> QED
      BY <1>1, <3>1, <3>2, CallShape
  <2>2. ASSUME NEW u \in Tools \ {t}, call[u].pc \in {"write", "wait"},
               client'[call[u].conn].reader = "running", call[u].answer = NoFrame
        PROVE  call[u].id \in client'[call[u].conn].waiting
    <3> PICK c \in Conns : c = call[u].conn
      BY <1>0, <2>2
    <3>1. Alive(c)' /\ c # nconns + 1
      BY <2>2 DEF Alive, HoldInv, Typed
    <3>2. /\ client'[c].reader = client[c].reader
          /\ call[t].pc # "write" => client[c].waiting \subseteq client'[c].waiting
          /\ client[c].waiting \ {call[t].id} \subseteq client'[c].waiting
      BY <1>1, <3>1, CallHealthy
    <3>3. call[u].id \in client[c].waiting /\ call[u].id # 0 /\ c # 0
      BY <2>2, <3>1, <3>2 DEF WaitInv, HoldInv, Conns
    <3> QED
      <4>1. CASE call[u].id # call[t].id
        BY <3>2, <3>3, <4>1
      <4>2. CASE call[t].pc # "write"
        BY <3>2, <3>3, <4>2
      <4>3. CASE call[u].id = call[t].id /\ call[t].pc = "write" /\ call[t].conn = c
        BY <3>3, <4>3 DEF IdInv
      <4>4. CASE call[t].pc = "write" /\ call[t].conn # c
        <5>1. Write(t) \/ WriteFails(t)
          BY <1>1, <4>4 DEF Reject, CallStep, TakeClient, Connect, ConnectFails, Insert,
                            Answered, Closed, Invalidate
        <5>2. CASE Write(t)
          BY <3>3, <5>2 DEF Write
        <5>3. CASE WriteFails(t)
          <6> DEFINE d == call[t].conn
                     cl == [client EXCEPT ![d].waiting = @ \ {call[t].id}]
          <6>1. DropUnheld(cl) /\ d \in Conns
            BY <1>0, <5>3 DEF WriteFails, Lose
          <6>2. cl \in [Conns -> Clients] /\ cl[c] = client[c]
            BY <1>0, <3>1, <4>4, <6>1 DEF Clients
          <6> HIDE DEF cl
          <6> QED
            BY <3>1, <3>3, <6>1, <6>2, DropKeeps
        <5> QED
          BY <5>1, <5>2, <5>3
      <4> QED
        BY <4>1, <4>2, <4>3, <4>4
  <2>3. ASSUME call'[t].pc \in {"write", "wait"},
               client'[call'[t].conn].reader = "running", call'[t].answer = NoFrame
        PROVE  call'[t].id \in client'[call'[t].conn].waiting
    <3>1. Insert(t) \/ Write(t)
      <4>1. ASSUME NEW r, Return(t, r) PROVE call'[t].pc = "returned"
        BY <1>0, <4>1 DEF Return
      <4>2. ASSUME NEW cl, Lose(t, cl) PROVE call'[t].pc \in {"returned", "invalidate"}
        BY <1>0, <4>1, <4>2 DEF Lose, Calls
      <4>3. CASE TakeClient(t) \/ Connect(t)
        BY <1>0, <2>3, <4>3 DEF TakeClient, Connect, Calls
      <4>4. CASE WriteFails(t) \/ Closed(t)
        BY <2>3, <4>2, <4>4 DEF WriteFails, Closed
      <4>5. CASE Reject(t) \/ ConnectFails(t) \/ Answered(t)
        BY <2>3, <4>1, <4>5 DEF Reject, ConnectFails, Answered
      <4>6. CASE Invalidate(t)
        BY <1>0, <2>3, <4>6 DEF Invalidate, Calls
      <4> QED
        BY <1>1, <4>3, <4>4, <4>5, <4>6 DEF CallStep
    <3>2. CASE Insert(t)
      <4> DEFINE d == call[t].conn
                 n == client[d].nextId
                 w == client[d].waiting \cup {n}
                 m == n + 1
      <4>1. /\ call' = [call EXCEPT ![t].pc = "write", ![t].id = n] /\ n \in w
            /\ client' = [client EXCEPT ![d].waiting = w, ![d].nextId = m]
            /\ d \in Conns
        <5>1. d \in Conns
          <6>1. call[t].pc = "insert" /\ call[t].conn \in 0..MaxConns
            BY <1>0, <3>2, RpcAssumption DEF Insert, Calls
          <6> QED
            BY <6>1, RpcAssumption DEF HoldInv, Conns
        <5>2. client' = [client EXCEPT ![d].waiting = @ \cup {client[d].nextId},
                                       ![d].nextId = @ + 1]
          BY <3>2 DEF Insert
        <5>3. client' = [client EXCEPT ![d].waiting = w, ![d].nextId = m]
          BY <1>0, <5>1, <5>2 DEF Clients
        <5>4. call' = [call EXCEPT ![t].pc = "write", ![t].id = n] /\ n \in w
          BY <3>2 DEF Insert
        <5> QED
          BY <5>1, <5>3, <5>4
      <4> HIDE DEF n, w, m
      <4>2. call'[t].id = n /\ call'[t].conn = d
        BY <1>0, <4>1 DEF Calls
      <4> HIDE DEF d
      <4>3. client'[d].waiting = w
        BY <1>0, <4>1 DEF Clients
      <4> QED
        BY <4>1, <4>2, <4>3
    <3>3. CASE Write(t)
      <4>1. /\ client' = client /\ call[t].pc = "write"
            /\ call'[t].id = call[t].id /\ call'[t].conn = call[t].conn
            /\ call'[t].answer = call[t].answer
        BY <1>0, <3>3 DEF Write, Calls
      <4> QED
        BY <2>3, <4>1 DEF WaitInv
    <3> QED
      BY <3>1, <3>2, <3>3
  <2> QED
    BY <2>1, <2>2, <2>3 DEF WaitInv
<1>2. ASSUME NEW c \in Conns, ReaderStep(c) PROVE WaitInv'
  BY <1>2, ReaderWaits
<1>3. ASSUME NEW c \in Conns, TaskMoves(c) PROVE WaitInv'
  <2>1. call' = call
    BY <1>3, TaskShape
  <2>2. \A d \in Conns : client'[d].waiting = client[d].waiting
                         /\ client'[d].reader = client[d].reader
    BY <1>3, TaskWaits
  <2> QED
    BY <1>0, <2>1, <2>2 DEF WaitInv
<1>4. CASE Emit \/ Shutdown \/ Exit \/ Start
  BY <1>4, DaemonShape DEF WaitInv
<1>5. CASE UNCHANGED vars
  BY <1>5 DEF vars, WaitInv
<1> QED
  BY <1>1, <1>2, <1>3, <1>4, <1>5 DEF Next, TaskMoves

\* What a connection task may do: make a response, write it, pass over the rest of a
\* torn line, pass a notification on, or close.
LEMMA TaskSteps ==
    ASSUME Typed, NEW c \in Conns, TaskMoves(c)
    PROVE  /\ \A i \in DOMAIN client'[c].replies :
                 \/ i \in DOMAIN client[c].replies /\ client'[c].replies[i] = client[c].replies[i]
                 \/ client'[c].replies[i] = task[c].busy /\ task[c].busy # NoFrame
           /\ \/ task'[c].busy \in {NoFrame, task[c].busy}
              \/ task'[c].busy.kind \in {"response", "big"}
           /\ \/ /\ task'[c].state = task[c].state /\ task'[c].torn = task[c].torn
                 /\ task'[c].notes = task[c].notes
                 /\ \/ task'[c].busy.kind = "response" \/ task'[c].busy = NoFrame
                    \/ \E t \in Tools : size[t] # "fits"
              \/ task[c].torn
              \/ task[c].notes > 0
              \/ client[c].reader = "dropped"
              \/ stopping
              \/ \E t \in Tools : size[t] # "fits"
           /\ UNCHANGED <<call, cached, nconns, env>>
<1> USE DEF env, history
<1>0. /\ task \in [Conns -> ConnTasks] /\ client \in [Conns -> Clients]
      /\ task[c].busy \in Frames /\ ClosedTask.busy = NoFrame
      /\ task[c].sent \in Seq(Requests) /\ task[c].read \in Nat
  BY BlankTyped DEF Typed, ConnTasks, ClosedTask, NewTask
<1>a. ASSUME LineReady(c) PROVE NextLine(c).of \in Tools
  <2>1. NextLine(c) \in Requests
    BY <1>0, <1>a DEF LineReady, NextLine
  <2> QED
    BY <2>1 DEF Requests
<1>1. CASE Dispatch(c)
  <2> DEFINE n == task[c].read + 1
             r == NextLine(c)
             v == Append(task[c].served, n)
  <2>1. PICK o \in Outcomes(Method[r.of]), k \in {"response", "big"} :
          /\ k = "big" => size[r.of] = "answer" /\ o = "ok"
          /\ task' = [task EXCEPT ![c].read = @ + 1,
               ![c].served = Append(@, task[c].read + 1),
               ![c].busy = [kind |-> k, id |-> r.id, of |-> r.of, outcome |-> o]]
    BY <1>1 DEF Dispatch
  <2> DEFINE b == [kind |-> k, id |-> r.id, of |-> r.of, outcome |-> o]
  <2>2. task' = [task EXCEPT ![c].read = n, ![c].served = v, ![c].busy = b]
    BY <1>0, <2>1 DEF ConnTasks
  <2>3. b.kind = k /\ client' = client
    BY <1>1 DEF Dispatch
  <2>4. k = "response" \/ \E t \in Tools : size[t] # "fits"
    <3>1. r.of \in Tools
      BY <1>1, <1>a DEF Dispatch
    <3> QED
      BY <2>1, <3>1
  <2> HIDE DEF n, r, v, b
  <2>5. /\ task'[c].busy = b /\ task'[c].state = task[c].state
        /\ task'[c].torn = task[c].torn /\ task'[c].notes = task[c].notes
    BY <1>0, <2>2 DEF ConnTasks
  <2>6. UNCHANGED <<call, cached, nconns, env>>
    BY <1>1 DEF Dispatch
  <2> QED
    BY <2>3, <2>4, <2>5, <2>6
<1>2. CASE Reply(c)
  <2>1. /\ task'[c].busy = NoFrame /\ task'[c].state = task[c].state
        /\ task'[c].torn = task[c].torn /\ task'[c].notes = task[c].notes
        /\ task[c].busy # NoFrame /\ Push(c, task[c].busy)
        /\ UNCHANGED <<call, cached, nconns, env, history>>
    BY <1>0, <1>2 DEF Reply, ConnTasks
  <2> QED
    BY <1>0, <2>1, PushShape
<1>3. CASE SkipBlank(c)
  <2> DEFINE n == task[c].read + 1
  <2>1. /\ task' = [task EXCEPT ![c].read = n, ![c].torn = FALSE] /\ task[c].torn
        /\ UNCHANGED <<call, client, cached, nconns, env>>
    BY <1>0, <1>3 DEF SkipBlank, ConnTasks
  <2> HIDE DEF n
  <2>2. task'[c].busy = task[c].busy
    BY <1>0, <2>1 DEF ConnTasks
  <2> QED
    BY <2>1, <2>2
<1>4. CASE SendNotification(c)
  <2>1. PICK b : task' = [task EXCEPT ![c].notes = @ - 1, ![c].noted = @ + 1,
                                      ![c].torn = b]
    BY <1>4 DEF SendNotification
  <2> DEFINE n == task[c].notes - 1
             m == task[c].noted + 1
  <2>2. task' = [task EXCEPT ![c].notes = n, ![c].noted = m, ![c].torn = b]
    BY <1>0, <2>1 DEF ConnTasks
  <2> HIDE DEF n, m
  <2>3. task'[c].busy = task[c].busy
    BY <1>0, <2>2 DEF ConnTasks
  <2>4. task[c].notes > 0 /\ UNCHANGED <<call, client, cached, nconns, env>>
    BY <1>4 DEF SendNotification
  <2> QED
    BY <2>3, <2>4
<1>5. CASE Ends(c)
  <2>1. /\ task'[c] = ClosedTask
        /\ UNCHANGED <<call, client, cached, nconns, env>>
        /\ \/ LineReady(c) /\ size[NextLine(c).of] = "request"
           \/ task[c].torn \/ client[c].reader = "dropped" \/ stopping
    BY <1>0, <1>5, EndsShape
  <2>2. \/ task[c].torn \/ client[c].reader = "dropped" \/ stopping
        \/ \E t \in Tools : size[t] # "fits"
    BY <1>a, <2>1
  <2> QED
    BY <1>0, <2>1, <2>2
<1> QED
  BY <1>1, <1>2, <1>3, <1>4, <1>5 DEF TaskMoves, TaskStep, Ends

\* Nothing but answers is written.
LEMMA KindStep ==
    ASSUME Typed, HoldInv, KindInv, [Next]_vars
    PROVE  KindInv'
<1> USE DEF env, history
<1> DEFINE Fine(f) == f.kind \in {"response", "big"}
           Idle(f) == f = NoFrame \/ f.kind \in {"response", "big"}
<1> SUFFICES ASSUME NEW c \in Conns, Alive(c)'
             PROVE  /\ Idle(task'[c].busy)
                    /\ \A i \in DOMAIN client'[c].replies : Fine(client'[c].replies[i])
  BY DEF KindInv, Alive
<1>0. /\ Alive(c) => Idle(task[c].busy)
      /\ Alive(c) => \A i \in DOMAIN client[c].replies : Fine(client[c].replies[i])
  BY DEF KindInv
<1>1. Idle(NoFrame) /\ \A f : Idle(f) /\ f # NoFrame => Fine(f)
  OBVIOUS
<1> HIDE DEF Fine, Idle
<1>2. ASSUME NEW t \in Tools, Reject(t) \/ CallStep(t)
      PROVE  /\ Idle(task'[c].busy)
             /\ \A i \in DOMAIN client'[c].replies : Fine(client'[c].replies[i])
  <2>1. \/ /\ Alive(c) /\ client'[c].replies = client[c].replies
           /\ task'[c].busy = task[c].busy
        \/ client'[c].replies = <<>> /\ task'[c].busy = NoFrame
    BY <1>2, CallHealthy
  <2> QED
    BY <1>0, <1>1, <2>1
<1>3. ASSUME NEW d \in Conns, ReaderStep(d)
      PROVE  /\ Idle(task'[c].busy)
             /\ \A i \in DOMAIN client'[c].replies : Fine(client'[c].replies[i])
  <2>1. /\ Alive(c) /\ task' = task
        /\ \A i \in DOMAIN client'[c].replies : \E j \in DOMAIN client[c].replies :
               client'[c].replies[i] = client[c].replies[j]
    BY <1>3, ReaderShape DEF Alive
  <2> QED
    BY <1>0, <2>1
<1>4. ASSUME NEW d \in Conns, TaskMoves(d)
      PROVE  /\ Idle(task'[c].busy)
             /\ \A i \in DOMAIN client'[c].replies : Fine(client'[c].replies[i])
  <2>1. Alive(c)
    BY <1>4, TaskShape DEF Alive
  <2>2. CASE c # d
    <3>1. task'[c] = task[c] /\ client'[c] = client[c]
      BY <1>4, <2>2, TaskShape
    <3> QED
      BY <1>0, <2>1, <3>1
  <2>3. CASE c = d
    <3>1. \A i \in DOMAIN client'[c].replies :
             \/ i \in DOMAIN client[c].replies /\ client'[c].replies[i] = client[c].replies[i]
             \/ client'[c].replies[i] = task[c].busy /\ task[c].busy # NoFrame
      BY <1>4, <2>3, TaskSteps
    <3>2. \/ task'[c].busy \in {NoFrame, task[c].busy}
          \/ task'[c].busy.kind \in {"response", "big"}
      BY <1>4, <2>3, TaskSteps
    <3> QED
      BY <1>0, <1>1, <2>1, <3>1, <3>2 DEF Idle
  <2> QED
    BY <2>2, <2>3
<1>5. CASE Emit \/ Shutdown \/ Exit \/ Start
  <2>1. Alive(c) /\ client' = client
    BY <1>5, DaemonShape DEF Alive
  <2>2. task'[c].busy = task[c].busy \/ task'[c] \in {NoTask, ClosedTask}
    BY <1>5, DaemonFrames
  <2>3. NoTask.busy = NoFrame /\ ClosedTask.busy = NoFrame
    BY DEF NoTask, ClosedTask, NewTask
  <2> QED
    BY <1>0, <1>1, <2>1, <2>2, <2>3
<1>6. CASE UNCHANGED vars
  BY <1>0, <1>6 DEF vars, Alive
<1> QED
  BY <1>2, <1>3, <1>4, <1>5, <1>6 DEF Next, TaskMoves

\* After the first fault there is one connection at most, which it may have broken.
LEMMA FirstFault ==
    ASSUME Typed', HoldInv', faults' = 1, nconns' <= 1
    PROVE  LaterHealthy'
<1> SUFFICES ASSUME NEW c \in Conns, c > 1, Alive(c)' PROVE FALSE
  BY DEF LaterHealthy, Alive, Healthy
<1>1. c > nconns'
  BY DEF Typed, Conns
<1>2. client'[c] = NoClient
  BY <1>1 DEF HoldInv
<1> QED
  BY <1>2 DEF Alive, NoClient, NewClient

\* A connection is lost only to a call that uses the broken one.
LEMMA LostFirst ==
    ASSUME Typed, HoldInv, WaitInv, LaterHealthy, faults <= 1, NEW t \in Tools,
           WriteFails(t) \/ Closed(t)
    PROVE  faults = 1 /\ call[t].conn = 1
<1> DEFINE c == call[t].conn
<1>1. c \in Conns /\ Alive(c)
  BY RpcAssumption DEF WriteFails, Closed, HoldInv, Typed, Calls, Conns
<1>2. ~Healthy(c)
  <2>1. CASE WriteFails(t)
    BY <2>1 DEF WriteFails, Healthy
  <2>2. CASE Closed(t)
    BY <2>2 DEF Closed, WaitInv, Healthy
  <2> QED
    BY <2>1, <2>2
<1>3. ~(c > faults)
  BY <1>1, <1>2 DEF LaterHealthy
<1> QED
  BY <1>1, <1>3 DEF Typed, Conns

\* Where a call may be after a step of its own.
LEMMA OtherCall ==
    ASSUME Typed, Typed', HoldInv, WaitInv, FaultInv, Mild, Mild', NEW t \in Tools,
           Reject(t) \/ CallStep(t)
    PROVE  /\ OtherConn(t)'
           /\ UNCHANGED <<up, stopping, faults>>
           /\ \/ nconns' = nconns /\ cached' = cached
              \/ nconns' = nconns + 1 /\ cached' = nconns + 1 /\ cached = 0
              \/ faults = 1 /\ nconns > 0 /\ nconns' = nconns /\ cached' = 0
           /\ nconns' = nconns \/ (up /\ ~stopping)
<1> USE DEF env, history
<1>0. /\ call \in [Tools -> Calls] /\ call[t] \in Calls
      /\ nconns \in Nat /\ faults \in 0..1 /\ cached \in 0..nconns
  BY RpcAssumption DEF Typed, Mild
<1>1. OtherConn(t) /\ LaterHealthy
  BY DEF FaultInv
<1>2. ASSUME NEW r, Return(t, r), r # "lost",
             UNCHANGED <<nconns, cached, up, stopping, faults>>,
             faults = 0 => call[t].attempt = 1
      PROVE  OtherConn(t)'
  <2>1. /\ call'[t].pc = "returned" /\ call'[t].attempt = call[t].attempt
        /\ call'[t].conn = 0 /\ call'[t].result = r
    BY <1>0, <1>2 DEF Return
  <2> QED
    BY <1>1, <1>2, <2>1 DEF OtherConn
<1>3. CASE Reject(t)
  BY <1>1, <1>2, <1>3 DEF Reject, OtherConn
<1>4. CASE TakeClient(t)
  <2>1. /\ call'[t].pc = "insert" /\ call'[t].attempt = call[t].attempt
        /\ call'[t].conn = cached /\ call'[t].result = call[t].result
        /\ UNCHANGED <<nconns, cached, up, stopping, faults>>
    BY <1>0, <1>4 DEF TakeClient, Calls
  <2> QED
    BY <1>1, <2>1 DEF OtherConn
<1>5. CASE Connect(t)
  <2>1. /\ call'[t].pc = "insert" /\ call'[t].attempt = call[t].attempt
        /\ call'[t].conn = nconns + 1 /\ call'[t].result = call[t].result
        /\ nconns' = nconns + 1 /\ cached' = nconns + 1 /\ cached = 0
        /\ up /\ ~stopping /\ UNCHANGED <<up, stopping, faults>>
    BY <1>0, <1>5 DEF Connect, Calls, Mild
  <2> QED
    BY <1>0, <1>1, <2>1 DEF OtherConn
<1>6. CASE ConnectFails(t)
  BY <1>1, <1>2, <1>6 DEF ConnectFails, OtherConn
<1>7. CASE Insert(t) \/ Write(t)
  <2>1. /\ call'[t].pc \in {"write", "wait"} /\ call'[t].attempt = call[t].attempt
        /\ call'[t].conn = call[t].conn /\ call'[t].result = call[t].result
        /\ call[t].pc \in {"insert", "write"}
        /\ UNCHANGED <<nconns, cached, up, stopping, faults>>
    <3>1. CASE Insert(t)
      <4> DEFINE n == client[call[t].conn].nextId
      <4>1. call' = [call EXCEPT ![t].pc = "write", ![t].id = n] /\ call[t].pc = "insert"
            /\ UNCHANGED <<nconns, cached, up, stopping, faults>>
        BY <3>1 DEF Insert
      <4> HIDE DEF n
      <4> QED
        BY <1>0, <4>1 DEF Calls
    <3>2. CASE Write(t)
      BY <1>0, <3>2 DEF Write, Calls
    <3> QED
      BY <1>7, <3>1, <3>2
  <2> QED
    BY <1>1, <2>1 DEF OtherConn
<1>8. CASE WriteFails(t) \/ Closed(t)
  <2>1. PICK cl : Lose(t, cl) /\ call[t].pc \in {"write", "wait"}
    BY <1>8 DEF WriteFails, Closed
  <2>2. faults = 1 /\ call[t].conn = 1
    BY <1>0, <1>1, <1>8, LostFirst DEF Mild
  <2>3. call[t].attempt = 1
    BY <1>0, <1>1, <2>1, <2>2 DEF OtherConn, Calls
  <2>4. /\ call' = [call EXCEPT ![t].pc = "invalidate"]
        /\ UNCHANGED <<nconns, cached, up, stopping, faults>>
    BY <2>1, <2>3 DEF Lose
  <2>5. /\ call'[t].pc = "invalidate" /\ call'[t].attempt = call[t].attempt
        /\ call'[t].result = call[t].result
    BY <1>0, <2>4 DEF Calls
  <2>6. nconns > 0
    BY <1>0, <2>2 DEF HoldInv
  <2> QED
    BY <1>0, <1>1, <2>2, <2>3, <2>4, <2>5, <2>6 DEF OtherConn
<1>9. CASE Answered(t)
  <2>1. call[t].answer.outcome # "lost"
    BY <1>0 DEF Calls, Frames, Errors
  <2> QED
    BY <1>1, <1>2, <1>9, <2>1 DEF Answered, OtherConn
<1>10. CASE Invalidate(t)
  <2>1. /\ call'[t].pc = "client" /\ call'[t].result = call[t].result
        /\ call[t].pc = "invalidate" /\ cached' = 0
        /\ UNCHANGED <<nconns, up, stopping, faults>>
    BY <1>0, <1>10 DEF Invalidate, Calls
  <2>2. faults = 1 /\ nconns > 0
    BY <1>0, <1>1, <2>1 DEF OtherConn
  <2> QED
    BY <1>1, <2>1, <2>2 DEF OtherConn
<1> QED
  BY <1>3, <1>4, <1>5, <1>6, <1>7, <1>8, <1>9, <1>10
     DEF CallStep, Reject, TakeClient, ConnectFails, Insert, Write,
         WriteFails, Closed, Lose, Answered, Invalidate

\* A step of another call, or of anybody who leaves the calls and the connections
\* made alone, keeps call u where it may be.
LEMMA OtherKept ==
    ASSUME Typed, NEW u \in Tools, OtherConn(u),
           call'[u].attempt = call[u].attempt, call'[u].pc = call[u].pc,
           call'[u].conn = call[u].conn, call'[u].result = call[u].result,
           faults' \in {faults, faults + 1}, nconns' \in {nconns, nconns + 1},
           cached' \in {0, cached} \/ cached' = nconns + 1
    PROVE  OtherConn(u)'
<1>1. faults \in Nat /\ nconns \in Nat /\ cached \in 0..nconns
  BY RpcAssumption DEF Typed
<1> QED
  BY <1>1 DEF OtherConn

\* What the first fault finds stays so.
LEMMA FaultCall ==
    ASSUME Typed, Typed', HoldInv, WaitInv, FaultInv, Mild, Mild', NEW t \in Tools,
           Reject(t) \/ CallStep(t)
    PROVE  FaultInv'
<1>0. faults \in 0..1 /\ nconns \in Nat /\ cached \in 0..nconns
  BY RpcAssumption DEF Typed, Mild
<1>1. /\ OtherConn(t)'
      /\ UNCHANGED <<up, stopping, faults>>
      /\ \/ nconns' = nconns /\ cached' = cached
         \/ nconns' = nconns + 1 /\ cached' = nconns + 1 /\ cached = 0
         \/ faults = 1 /\ nconns > 0 /\ nconns' = nconns /\ cached' = 0
      /\ nconns' = nconns \/ (up /\ ~stopping)
  BY OtherCall
<1>2. \A u \in Tools \ {t} : call'[u] = call[u]
  <2>0. call \in [Tools -> Calls]
    BY DEF Typed
  <2>1. CASE Insert(t)
    <3> DEFINE n == client[call[t].conn].nextId
    <3>1. call' = [call EXCEPT ![t].pc = "write", ![t].id = n]
      BY <2>1 DEF Insert
    <3> HIDE DEF n
    <3> QED
      BY <2>0, <3>1
  <2>2. CASE Write(t)
    BY <2>0, <2>2 DEF Write
  <2> QED
    BY <2>1, <2>2, CallShape
<1>3. \A u \in Tools : OtherConn(u)'
  <2>1. ASSUME NEW u \in Tools, u # t PROVE OtherConn(u)'
    <3>1. call'[u] = call[u] /\ OtherConn(u)
      BY <1>2, <2>1 DEF FaultInv
    <3> QED
      BY <1>0, <1>1, <3>1, OtherKept
  <2> QED
    BY <1>1, <2>1
<1>4. LaterHealthy'
  <2> SUFFICES ASSUME NEW c \in Conns, c > faults', Alive(c)' PROVE Healthy(c)'
    BY DEF LaterHealthy, Alive, Healthy
  <2>1. \/ /\ Alive(c)
           /\ client'[c].reader = client[c].reader
           /\ client'[c].replies = client[c].replies
           /\ task'[c].state = task[c].state /\ task'[c].torn = task[c].torn
           /\ task'[c].notes = task[c].notes /\ task'[c].busy = task[c].busy
        \/ Healthy(c)'
    BY CallHealthy
  <2>2. Alive(c) => Healthy(c)
    BY <1>1 DEF FaultInv, LaterHealthy
  <2> QED
    BY <2>1, <2>2 DEF Healthy
<1> QED
  BY <1>0, <1>1, <1>3, <1>4 DEF FaultInv

\* A healthy connection is read on.
LEMMA FaultReader ==
    ASSUME Typed, FaultInv, Mild, NEW c \in Conns, ReaderStep(c)
    PROVE  FaultInv'
<1> USE DEF env, history
<1>0. /\ call \in [Tools -> Calls] /\ client \in [Conns -> Clients]
      /\ client[c].replies \in Seq(Frames)
  BY DEF Typed, Clients
<1>1. /\ UNCHANGED <<up, stopping, faults, nconns, cached, task>> /\ Alive(c)
      /\ \A d \in Conns \ {c} : client'[d] = client[d]
      /\ \A i \in DOMAIN client'[c].replies : \E j \in DOMAIN client[c].replies :
             client'[c].replies[i] = client[c].replies[j]
  <2>1. UNCHANGED <<up, stopping, faults>>
    BY DEF ReaderStep, ReadFrame, EndReader
  <2> QED
    BY <2>1, ReaderShape
<1>2. \A u \in Tools : call'[u].result = call[u].result
  <2>1. \/ call' = call
        \/ \E u \in Tools : call' = [call EXCEPT ![u].answer = Head(client[c].replies)]
    BY DEF ReaderStep, ReadFrame, EndReader
  <2>2. ASSUME NEW u \in Tools, NEW f, call' = [call EXCEPT ![u].answer = f]
        PROVE  \A v \in Tools : call'[v].result = call[v].result
    BY <1>0, <2>2 DEF Calls
  <2> QED
    BY <2>1, <2>2
<1>3. \A u \in Tools : OtherConn(u)'
  <2> SUFFICES ASSUME NEW u \in Tools PROVE OtherConn(u)'
    OBVIOUS
  <2>1. /\ call'[u].conn = call[u].conn /\ call'[u].pc = call[u].pc
        /\ call'[u].attempt = call[u].attempt /\ OtherConn(u)
    BY ReaderShape DEF FaultInv
  <2> QED
    BY <1>1, <1>2, <2>1, OtherKept
<1>4. LaterHealthy'
  <2> SUFFICES ASSUME NEW d \in Conns, d > faults', Alive(d)' PROVE Healthy(d)'
    BY DEF LaterHealthy, Alive, Healthy
  <2>1. CASE d # c
    BY <1>1, <2>1 DEF FaultInv, LaterHealthy, Alive, Healthy
  <2>2. CASE d = c
    <3>1. Healthy(c)
      BY <1>1, <2>2 DEF FaultInv, LaterHealthy
    <3>2. client'[c].reader = "running"
      <4>1. ~EndReader(c)
        <5>1. client[c].replies # <<>> => 1 \in DOMAIN client[c].replies
                                          /\ Head(client[c].replies) = client[c].replies[1]
          BY <1>0
        <5> QED
          BY <3>1, <5>1 DEF EndReader, LoopEnds, Healthy
      <4>2. ReadFrame(c)
        BY <4>1 DEF ReaderStep
      <4> DEFINE s == Tail(client[c].replies)
                 w == client[c].waiting \ {Head(client[c].replies).id}
      <4>3. client' = [client EXCEPT ![c].replies = s, ![c].waiting = w]
            /\ client[c].reader = "running"
        BY <1>0, <4>2 DEF ReadFrame, Clients
      <4> HIDE DEF s, w
      <4> QED
        BY <1>0, <4>3 DEF Clients
    <3> QED
      BY <1>1, <2>2, <3>1, <3>2 DEF Healthy
  <2> QED
    BY <2>1, <2>2
<1> QED
  BY <1>1, <1>3, <1>4 DEF FaultInv

\* Nor does its task let it down, unless the daemon stops.
LEMMA FaultTask ==
    ASSUME Typed, Typed', HoldInv, HoldInv', KindInv, FaultInv, Mild,
           NEW c \in Conns, TaskMoves(c)
    PROVE  FaultInv'
<1>0. faults \in Nat /\ nconns \in Nat /\ cached \in 0..nconns
  BY RpcAssumption DEF Typed
<1>1. UNCHANGED <<call, cached, nconns, up, stopping, faults>>
  BY TaskSteps DEF env
<1>2. \A u \in Tools : OtherConn(u)'
  <2> SUFFICES ASSUME NEW u \in Tools PROVE OtherConn(u)'
    OBVIOUS
  <2>1. OtherConn(u) /\ call' = call
    BY <1>0, <1>1 DEF FaultInv
  <2> QED
    BY <1>0, <1>1, <2>1, OtherKept
<1>3. CASE stopping
  <2>1. faults' = 1 /\ nconns' <= 1
    BY <1>0, <1>1, <1>3 DEF FaultInv
  <2>2. LaterHealthy'
    BY <2>1, FirstFault
  <2> QED
    BY <1>2, <2>1, <2>2 DEF FaultInv
<1>4. CASE ~stopping
  <2>1. LaterHealthy'
    <3> SUFFICES ASSUME NEW d \in Conns, d > faults', Alive(d)' PROVE Healthy(d)'
      BY DEF LaterHealthy, Alive, Healthy
    <3>1. Healthy(d)
      <4>1. Alive(d)
        BY TaskShape DEF Alive
      <4> QED
        BY <1>0, <1>1, <1>4, <4>1 DEF FaultInv, LaterHealthy
    <3>2. CASE d # c
      <4>1. task'[d] = task[d] /\ client'[d] = client[d]
        BY <3>2, TaskShape
      <4> QED
        BY <3>1, <4>1 DEF Healthy
    <3>3. CASE d = c
      <4>1. /\ task'[c].state = task[c].state /\ task'[c].torn = task[c].torn
            /\ task'[c].notes = task[c].notes
            /\ task'[c].busy.kind = "response" \/ task'[c].busy = NoFrame
        BY <1>0, <1>4, <3>1, <3>3, TaskSteps DEF Healthy, Mild
      <4>2. \A i \in DOMAIN client'[c].replies :
               \/ i \in DOMAIN client[c].replies /\ client'[c].replies[i] = client[c].replies[i]
               \/ client'[c].replies[i] = task[c].busy
        BY TaskSteps
      <4>3. client'[c].reader = client[c].reader
        BY TaskShape
      <4>4. NoFrame.kind = "none"
        BY DEF NoFrame
      <4> QED
        BY <3>1, <3>3, <4>1, <4>2, <4>3, <4>4 DEF Healthy
    <3> QED
      BY <3>2, <3>3
  <2> QED
    BY <1>0, <1>1, <1>2, <1>4, <2>1 DEF FaultInv
<1> QED
  BY <1>3, <1>4

\* The daemon's exit is the first fault, or follows from it.
LEMMA FaultDaemon ==
    ASSUME Typed, Typed', HoldInv, HoldInv', FaultInv, Mild, faults' <= 1,
           Emit \/ Shutdown \/ Exit \/ Start
    PROVE  FaultInv'
<1> USE DEF env, history
<1>0. faults \in Nat /\ nconns \in Nat /\ cached \in 0..nconns
  BY RpcAssumption DEF Typed
<1>1. UNCHANGED <<call, cached, nconns>> /\ faults' \in {faults, faults + 1}
  BY DEF Emit, Shutdown, Exit, Start, Fault
<1>2. \A u \in Tools : OtherConn(u)'
  <2> SUFFICES ASSUME NEW u \in Tools PROVE OtherConn(u)'
    OBVIOUS
  <2>1. OtherConn(u) /\ call' = call
    BY <1>0, <1>1 DEF FaultInv
  <2> QED
    BY <1>0, <1>1, <2>1, OtherKept
<1>3. faults' = 1 /\ nconns' <= 1
  <2>1. faults = 0 => nconns <= 1
    BY <1>0, <1>1 DEF FaultInv
  <2>2. CASE Emit \/ Shutdown \/ (Exit /\ ~stopping)
    <3>1. faults' = faults + 1
      BY <2>2 DEF Emit, Shutdown, Exit, Fault
    <3> QED
      BY <1>0, <1>1, <2>1, <3>1
  <2>3. CASE Start \/ (Exit /\ stopping)
    <3>1. faults' = faults /\ ~(up /\ ~stopping)
      BY <2>3 DEF Start, Exit
    <3> QED
      BY <1>0, <1>1, <3>1 DEF FaultInv
  <2> QED
    BY <2>2, <2>3
<1>4. LaterHealthy'
  BY <1>3, FirstFault
<1> QED
  BY <1>2, <1>3, <1>4 DEF FaultInv

\* The first fault, whatever it is and whoever takes the next step.
LEMMA FaultStep ==
    ASSUME Typed, Typed', HoldInv, HoldInv', KindInv, WaitInv, FaultInv, [Next]_vars
    PROVE  FaultInv'
<1> SUFFICES ASSUME Mild' PROVE FaultInv'
  BY DEF FaultInv
<1>1. Mild /\ faults' <= 1
  <2>1. faults' = faults \/ faults' = faults + 1
    BY TaskSteps DEF Next, TaskMoves, Reject, CallStep, TakeClient, Connect, ConnectFails,
       Insert, Write, WriteFails, Closed, Lose, Answered, Invalidate, ReaderStep, ReadFrame,
       EndReader, Emit, Shutdown, Exit, Start, Fault, vars, env
  <2>2. size' = size
    BY TaskSteps DEF Next, TaskMoves, Reject, CallStep, TakeClient, Connect, ConnectFails,
       Insert, Write, WriteFails, Closed, Lose, Answered, Invalidate, ReaderStep, ReadFrame,
       EndReader, Emit, Shutdown, Exit, Start, vars, env
  <2>3. hasty => hasty'
    <3>1. ASSUME NEW c \in Conns, TaskMoves(c) PROVE hasty' = hasty
      <4>1. CASE Ends(c)
        BY <4>1, EndsShape DEF history
      <4> QED
        BY <3>1, <4>1 DEF TaskMoves, TaskStep, Ends, Dispatch, Reply, SkipBlank,
           SendNotification, history
    <3> QED
      BY <3>1 DEF Next, TaskMoves, Reject, CallStep, TakeClient, Connect, ConnectFails,
         Insert, Write, WriteFails, Closed, Lose, Answered, Invalidate, ReaderStep,
         ReadFrame, EndReader, Emit, Shutdown, Exit, Start, vars, history
  <2> QED
    BY <2>1, <2>2, <2>3 DEF Typed, Mild
<1>2. ASSUME UNCHANGED vars PROVE FaultInv'
  BY <1>2 DEF vars, env, history, FaultInv, Mild, LaterHealthy, OtherConn, Alive, Healthy
<1> QED
  BY <1>1, <1>2, FaultCall, FaultReader, FaultTask, FaultDaemon DEF Next, TaskMoves

\* One kill of the daemon or one torn line makes no call report a lost connection,
\* however many share the client, as long as all lines fit and nobody connects to a
\* daemon that is stopping (call_with_retry, invalidate_client).
THEOREM FaultHidden == Spec => []OneFaultHidden
<1> DEFINE Inv == IInv /\ KindInv /\ WaitInv /\ FaultInv
<1>1. Init => KindInv /\ WaitInv /\ FaultInv
  <2> SUFFICES ASSUME Init PROVE KindInv /\ WaitInv /\ FaultInv
    OBVIOUS
  <2>1. \A c \in Conns : ~Alive(c)
    BY DEF Init, Alive, NoClient, NewClient
  <2>2. \A t \in Tools : /\ call[t].pc = "client" /\ call[t].attempt = 1
                         /\ call[t].result = "none"
    BY DEF Init
  <2> QED
    BY <2>1, <2>2 DEF Init, KindInv, WaitInv, FaultInv, LaterHealthy, OtherConn
<1>2. Inv /\ [Next]_vars => Inv'
  <2> SUFFICES ASSUME Inv, [Next]_vars PROVE Inv'
    OBVIOUS
  <2>1. IInv' /\ Typed /\ HoldInv /\ IdInv /\ Typed' /\ HoldInv'
    <3>1. IInv'
      BY NextIInv
    <3> QED
      BY <3>1 DEF IInv
  <2> QED
    BY <2>1, KindStep, WaitStep, FaultStep
<1>3. Inv => OneFaultHidden
  BY DEF FaultInv, Mild, OtherConn, OneFaultHidden
<1> HIDE DEF Inv
<1>4. Init => Inv
  BY <1>1, InitIInv DEF Inv
<1> QED
  BY <1>2, <1>3, <1>4, PTL DEF Spec
=============================================================================
