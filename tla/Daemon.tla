-------------------------------- MODULE Daemon --------------------------------
(***************************************************************************)
(* The life of toffeed: the pid file and its lock, the socket, start-up,   *)
(* the two ways to ask it to stop, and its clean-up; with the commands     *)
(* that start, find and stop it ("toffee daemon start", "stop", and the    *)
(* auto-spawn of the client library, which connects like "start").  The    *)
(* process a start command spawns has the name of the command.             *)
(*                                                                         *)
(* A path names an inode or nothing.  An inode is named by the daemon that *)
(* created it, the socket by the daemon that bound it: each process opens  *)
(* the pid file and binds the socket once.                                 *)
(***************************************************************************)
EXTENDS Integers

CONSTANTS
    Daemons,    \* start commands and the processes they may spawn
    Stops,      \* stop commands
    None,       \* no process, no inode
    MaxFaults   \* bound: kills, signals and start-ups that fail

ASSUME DaemonAssumption ==
    /\ None \notin Daemons
    /\ Daemons \cap Stops = {}
    /\ MaxFaults \in Nat

VARIABLES
    pc,        \* per daemon: where main is
    ino,       \* per daemon: the inode of its open pid file
    out,       \* per daemon: the inode it opened again to write its pid
    tasks,     \* per daemon: the spawned tasks that run
    told,      \* per daemon: the shutdown message was broadcast to the tasks
    mail,      \* per daemon: main has a signal or a shutdown message to receive
    handling,  \* per daemon: a request is at work on the store
    pidAt,     \* the inode the pid file's path names
    holder,    \* per inode: who has it flocked
    content,   \* per inode: the pid written in it
    sock,      \* who bound the socket file, if there is one
    cmd,       \* per command: where it is, whom it talks to, what it printed
    faults,    \* faults so far
    straggler  \* history: a pid file was unlinked while a daemon that had
               \* opened it was still to lock it

lock == <<ino, out, pidAt, holder, content, straggler>>
proc == <<tasks, told, mail, handling>>
vars == <<pc, lock, proc, sock, cmd, faults>>

Maybe == Daemons \cup {None}
Cmds == Daemons \cup Stops

\* serve, and run_worker with watch_config, which end alike.
Tasks == {"server", "background"}

\* Main's steps in their order: acquire_pid_lock, run, wait_for_shutdown_signal,
\* the end of run, the drop of the PidLock, the drop of the runtime.
Acquiring == {"open", "lock"}
Starting == {"truncate", "write", "bind", "load"}
Serving == {"install", "wait"}
Stopping == {"join", "rmsock", "unlink"}
Leaving == {"close", "exit"}
PCs == {"off", "dead"} \cup Leaving \cup Acquiring \cup Starting \cup Serving \cup Stopping

\* Main owns a PidLock, or is about to.
Owner(d) == pc[d] \in Starting \cup Serving \cup Stopping

Results == {"none", "ok", "failed", "stopped", "signaled", "not_running"}

TypeOK ==
    /\ pc \in [Daemons -> PCs]
    /\ ino \in [Daemons -> Maybe]
    /\ out \in [Daemons -> Maybe]
    /\ tasks \in [Daemons -> SUBSET Tasks]
    /\ told \in [Daemons -> BOOLEAN]
    /\ mail \in [Daemons -> BOOLEAN]
    /\ handling \in [Daemons -> BOOLEAN]
    /\ pidAt \in Maybe
    /\ holder \in [Daemons -> Maybe]
    /\ content \in [Daemons -> Maybe]
    /\ sock \in Maybe
    /\ cmd \in [Cmds -> [pc : {"connect", "poll", "hello", "ask", "vanish",
                               "pidfile", "kill", "done"},
                         to : Maybe, res : Results]]
    /\ \A c \in Cmds : cmd[c].pc \in {"hello", "ask", "kill"} => cmd[c].to # None
    /\ faults \in 0..MaxFaults
    /\ straggler \in BOOLEAN

Init ==
    /\ pc = [d \in Daemons |-> "off"]
    /\ ino = [d \in Daemons |-> None]
    /\ out = [d \in Daemons |-> None]
    /\ tasks = [d \in Daemons |-> {}]
    /\ told = [d \in Daemons |-> FALSE]
    /\ mail = [d \in Daemons |-> FALSE]
    /\ handling = [d \in Daemons |-> FALSE]
    /\ pidAt = None
    /\ holder = [d \in Daemons |-> None]
    /\ content = [d \in Daemons |-> None]
    /\ sock = None
    /\ cmd = [c \in Cmds |-> [pc |-> "connect", to |-> None, res |-> "none"]]
    /\ faults = 0
    /\ straggler = FALSE

Fault == faults < MaxFaults /\ faults' = faults + 1

Goto(d, from, to) == pc[d] = from /\ pc' = [pc EXCEPT ![d] = to]

\* The process of d ends: the kernel closes its files and ends its threads.
Die(d) ==
    /\ pc' = [pc EXCEPT ![d] = "dead"]
    /\ tasks' = [tasks EXCEPT ![d] = {}]
    /\ told' = [told EXCEPT ![d] = FALSE]
    /\ mail' = [mail EXCEPT ![d] = FALSE]
    /\ handling' = [handling EXCEPT ![d] = FALSE]
    /\ holder' = [i \in Daemons |-> IF holder[i] = d THEN None ELSE holder[i]]

-----------------------------------------------------------------------------
(* acquire_pid_lock                                                        *)

\* A bug: the file is truncated as it is opened, before it is locked.
OpenPidTruncates(d) ==
    LET i == IF pidAt = None THEN d ELSE pidAt IN
    /\ Goto(d, "open", "lock")
    /\ pidAt' = i
    /\ ino' = [ino EXCEPT ![d] = i]
    /\ content' = [content EXCEPT ![i] = None]
    /\ UNCHANGED <<out, holder, straggler, proc, sock, cmd, faults>>

\* The file is opened, and created if the path names nothing.
OpenPid(d) ==
    LET i == IF pidAt = None THEN d ELSE pidAt IN
    /\ Goto(d, "open", "lock")
    /\ pidAt' = i
    /\ ino' = [ino EXCEPT ![d] = i]
    /\ UNCHANGED <<out, holder, content, straggler, proc, sock, cmd, faults>>

\* A bug: the result of flock is not looked at.
FlockUnchecked(d) ==
    /\ Goto(d, "lock", "truncate")
    /\ holder' = [holder EXCEPT ![ino[d]] = d]
    /\ UNCHANGED <<ino, out, pidAt, content, straggler, proc, sock, cmd, faults>>

\* flock(LOCK_EX | LOCK_NB) on the inode that was opened.
Flock(d) ==
    /\ Goto(d, "lock", "truncate")
    /\ holder[ino[d]] = None
    /\ holder' = [holder EXCEPT ![ino[d]] = d]
    /\ UNCHANGED <<ino, out, pidAt, content, straggler, proc, sock, cmd, faults>>

\* Another daemon has it: the process ends and touches nothing.
FlockFails(d) ==
    /\ Goto(d, "lock", "dead")
    /\ holder[ino[d]] # None
    /\ UNCHANGED <<lock, proc, sock, cmd, faults>>

\* The path is opened again, truncating whatever inode it names now.
Truncate(d) ==
    /\ pidAt # None
    /\ Goto(d, "truncate", "write")
    /\ out' = [out EXCEPT ![d] = pidAt]
    /\ content' = [content EXCEPT ![pidAt] = None]
    /\ UNCHANGED <<ino, pidAt, holder, straggler, proc, sock, cmd, faults>>

\* The path names nothing any more: the process ends.
TruncateFails(d) ==
    /\ pidAt = None
    /\ pc[d] = "truncate"
    /\ Die(d)
    /\ UNCHANGED <<ino, out, pidAt, content, straggler, sock, cmd, faults>>

\* The pid is written to the inode that was truncated.
WritePid(d) ==
    /\ Goto(d, "write", "bind")
    /\ content' = [content EXCEPT ![out[d]] = d]
    /\ UNCHANGED <<ino, out, pidAt, holder, straggler, proc, sock, cmd, faults>>

-----------------------------------------------------------------------------
(* run                                                                     *)

\* A socket file left by a crash is removed and UnixListener::bind makes a new
\* one; from here on clients can connect and wait.
Bind(d) ==
    /\ Goto(d, "bind", "load")
    /\ sock' = d
    /\ UNCHANGED <<lock, proc, cmd, faults>>

\* Store::open, build_embedder, load_index_from_store and the configuration;
\* then the worker, the configuration watcher and the server are spawned, each
\* with a receiver of the shutdown channel.
Load(d) ==
    /\ Goto(d, "load", "install")
    /\ tasks' = [tasks EXCEPT ![d] = Tasks]
    /\ UNCHANGED <<lock, told, mail, handling, sock, cmd, faults>>

\* A part of the start-up fails: run returns, dropping the listener and the PidLock; the
\* socket file stays.
LoadFails(d) ==
    /\ Fault
    /\ Goto(d, "load", "unlink")
    /\ UNCHANGED <<lock, proc, sock, cmd>>

\* wait_for_shutdown_signal installs the signal handlers, and only now main has
\* a receiver of its own.
Subscribe(d) ==
    /\ Goto(d, "install", "wait")
    /\ UNCHANGED <<lock, proc, sock, cmd, faults>>

\* A signal or a message arrived; the message is sent on to the tasks.
Receive(d) ==
    /\ mail[d]
    /\ Goto(d, "wait", "join")
    /\ told' = [told EXCEPT ![d] = TRUE]
    /\ UNCHANGED <<lock, tasks, mail, handling, sock, cmd, faults>>

\* A bug: the background tasks do not listen for the shutdown.
TaskEndsServerOnly(d, k) ==
    /\ told[d]
    /\ k \in tasks[d] \ {"background"}
    /\ tasks' = [tasks EXCEPT ![d] = @ \ {k}]
    /\ UNCHANGED <<pc, lock, told, mail, handling, sock, cmd, faults>>

\* serve, run_worker or watch_config sees the shutdown and returns.
TaskEnds(d, k) ==
    /\ told[d]
    /\ k \in tasks[d]
    /\ tasks' = [tasks EXCEPT ![d] = @ \ {k}]
    /\ UNCHANGED <<pc, lock, told, mail, handling, sock, cmd, faults>>

\* A bug: the PidLock is dropped before the socket is removed.
JoinUnlocks(d) ==
    /\ tasks[d] = {}
    /\ Goto(d, "join", "rmsock")
    /\ pidAt' = None
    /\ holder' = [holder EXCEPT ![ino[d]] = None]
    /\ straggler' = (straggler \/ \E e \in Daemons : pc[e] = "lock")
    /\ UNCHANGED <<ino, out, content, proc, sock, cmd, faults>>

\* A connection task, which nobody awaits, hands a request to a blocking
\* thread.  Such a task ends when it sees the shutdown; one accepted after the
\* broadcast has missed it, and lives as long as the runtime.
Connected(d) == "server" \in tasks[d] \/ (told[d] /\ pc[d] # "exit")

Handle(d) ==
    /\ Connected(d)
    /\ ~handling[d]
    /\ handling' = [handling EXCEPT ![d] = TRUE]
    /\ UNCHANGED <<pc, lock, tasks, told, mail, sock, cmd, faults>>

\* The request is done with the store.
HandleEnds(d) ==
    /\ handling[d]
    /\ handling' = [handling EXCEPT ![d] = FALSE]
    /\ UNCHANGED <<pc, lock, tasks, told, mail, sock, cmd, faults>>

\* The three tasks are awaited, the connections and their requests are not.
Join(d) ==
    /\ tasks[d] = {}
    /\ Goto(d, "join", "rmsock")
    /\ UNCHANGED <<lock, proc, sock, cmd, faults>>

\* The socket path is unlinked.
RemoveSocket(d) ==
    /\ Goto(d, "rmsock", "unlink")
    /\ sock' = None
    /\ UNCHANGED <<lock, proc, cmd, faults>>

\* Drop for PidLock: the path is unlinked, whatever inode it names.
UnlinkPid(d) ==
    /\ Goto(d, "unlink", "close")
    /\ pidAt' = None
    /\ straggler' = (straggler \/ \E e \in Daemons : pc[e] = "lock")
    /\ UNCHANGED <<ino, out, holder, content, proc, sock, cmd, faults>>

\* Its file is closed, which releases the lock; then the runtime is dropped,
\* and with it every task.
Close(d) ==
    /\ Goto(d, "close", "exit")
    /\ holder' = [i \in Daemons |-> IF holder[i] = d THEN None ELSE holder[i]]
    /\ UNCHANGED <<ino, out, pidAt, content, straggler, proc, sock, cmd, faults>>

\* The drop of the runtime waits for the requests on blocking threads, without
\* the lock; then the process ends.
Exit(d) ==
    /\ pc[d] = "exit"
    /\ ~handling[d]
    /\ Die(d)
    /\ UNCHANGED <<ino, out, pidAt, content, straggler, sock, cmd, faults>>

\* The process is killed, or dies of a panic or of memory: the kernel releases
\* the lock and leaves both files.
Kill(d) ==
    /\ Fault
    /\ Owner(d) \/ pc[d] \in Leaving
    /\ Die(d)
    /\ UNCHANGED <<ino, out, pidAt, content, straggler, sock, cmd>>

\* A signal reaches d: it is fatal until the handlers are installed, and in a
\* start-up that failed; then main receives it, and past the select! nobody does.
Deliver(d) ==
    IF \/ pc[d] \in Acquiring \cup Starting \cup {"install"}
       \/ pc[d] \in {"unlink"} \cup Leaving /\ ~told[d]
    THEN Die(d)
    ELSE /\ mail' = [mail EXCEPT ![d] = @ \/ pc[d] = "wait"]
         /\ UNCHANGED <<pc, tasks, told, handling, holder>>

\* SIGINT or SIGTERM from the terminal or the system.
Signal(d) ==
    /\ Fault
    /\ Owner(d) \/ pc[d] \in Leaving
    /\ Deliver(d)
    /\ UNCHANGED <<ino, out, pidAt, content, straggler, sock, cmd>>

MainStep(d) ==
    \/ OpenPid(d) \/ Flock(d) \/ FlockFails(d) \/ Truncate(d) \/ TruncateFails(d)
    \/ WritePid(d) \/ Bind(d) \/ Load(d) \/ Subscribe(d) \/ Receive(d)
    \/ Join(d) \/ RemoveSocket(d) \/ UnlinkPid(d) \/ Close(d) \/ Exit(d)

-----------------------------------------------------------------------------
(* The commands.                                                           *)

\* d has a listener: connections wait in its backlog until it serves.
Listening(d) == pc[d] = "load" \/ "server" \in tasks[d]

Connectable == sock # None /\ Listening(sock)

\* A bug: a connection in the backlog outlives its listener.
LostOnlyWhenTold(d) == told[d]

\* The connection to d was reset, or closed by its task at the shutdown.
Lost(d) == told[d] \/ ~Listening(d)

Say(c, r) == cmd' = [cmd EXCEPT ![c].pc = "done", ![c].res = r]
Talk(c, p) == cmd' = [cmd EXCEPT ![c].pc = p, ![c].to = sock]

\* connect_with: the fast path of "start" and of every client.
StartConnect(c) ==
    /\ cmd[c].pc = "connect"
    /\ Connectable
    /\ Talk(c, "hello")
    /\ UNCHANGED <<pc, lock, proc, sock, faults>>

\* Nobody answers: one detached toffeed is spawned.
StartSpawn(c) ==
    /\ cmd[c].pc = "connect"
    /\ ~Connectable
    /\ Goto(c, "off", "open")
    /\ cmd' = [cmd EXCEPT ![c].pc = "poll"]
    /\ UNCHANGED <<lock, proc, sock, faults>>

\* The socket is tried until it answers.
Poll(c) ==
    /\ cmd[c].pc = "poll"
    /\ Connectable
    /\ Talk(c, "hello")
    /\ UNCHANGED <<pc, lock, proc, sock, faults>>

\* It did not before the deadline; nothing is spawned again.
PollTimeout(c) ==
    /\ cmd[c].pc = "poll"
    /\ ~Connectable
    /\ Say(c, "failed")
    /\ UNCHANGED <<pc, lock, proc, sock, faults>>

\* The hello, or the client's first call, is answered or lost.
Hello(c) ==
    /\ cmd[c].pc = "hello"
    /\ \/ Connected(cmd[c].to) /\ Say(c, "ok")
       \/ Lost(cmd[c].to) /\ Say(c, "failed")
    /\ UNCHANGED <<pc, lock, proc, sock, faults>>

\* stop connects without spawning ...
StopConnect(c) ==
    /\ cmd[c].pc = "connect"
    /\ IF Connectable THEN Talk(c, "ask")
                      ELSE cmd' = [cmd EXCEPT ![c].pc = "pidfile"]
    /\ UNCHANGED <<pc, lock, proc, sock, faults>>

\* ... and daemon_shutdown broadcasts the message to whoever is subscribed;
Ask(c) ==
    LET d == cmd[c].to IN
    /\ cmd[c].pc = "ask"
    /\ Connected(d)
    /\ told' = [told EXCEPT ![d] = TRUE]
    /\ mail' = [mail EXCEPT ![d] = @ \/ pc[d] = "wait"]
    /\ cmd' = [cmd EXCEPT ![c].pc = "vanish"]
    /\ UNCHANGED <<pc, lock, tasks, handling, sock, faults>>

\* an error of the call is ignored.
AskLost(c) ==
    /\ cmd[c].pc = "ask"
    /\ Lost(cmd[c].to)
    /\ cmd' = [cmd EXCEPT ![c].pc = "vanish"]
    /\ UNCHANGED <<pc, lock, proc, sock, faults>>

\* The socket has vanished or two seconds are over: "stopped" either way.
Stopped(c) ==
    /\ cmd[c].pc = "vanish"
    /\ Say(c, "stopped")
    /\ UNCHANGED <<pc, lock, proc, sock, faults>>

\* The fallback reads the pid file: without one there is no daemon, an empty
\* one is an error.
ReadPid(c) ==
    /\ cmd[c].pc = "pidfile"
    /\ CASE pidAt = None -> Say(c, "not_running")
         [] pidAt # None /\ content[pidAt] = None -> Say(c, "failed")
         [] OTHER -> cmd' = [cmd EXCEPT ![c].pc = "kill", ![c].to = content[pidAt]]
    /\ UNCHANGED <<pc, lock, proc, sock, faults>>

\* SIGTERM to that pid.
Sigterm(c) ==
    /\ cmd[c].pc = "kill"
    /\ Say(c, IF pc[cmd[c].to] = "dead" THEN "not_running" ELSE "signaled")
    /\ Deliver(cmd[c].to)
    /\ UNCHANGED <<ino, out, pidAt, content, straggler, sock, faults>>

StartStep(c) ==
    StartConnect(c) \/ StartSpawn(c) \/ Poll(c) \/ PollTimeout(c) \/ Hello(c)

StopStep(c) ==
    StopConnect(c) \/ Ask(c) \/ AskLost(c) \/ Stopped(c) \/ ReadPid(c) \/ Sigterm(c)

-----------------------------------------------------------------------------
Next ==
    \/ \E d \in Daemons : MainStep(d) \/ LoadFails(d) \/ Kill(d) \/ Signal(d)
    \/ \E d \in Daemons : Handle(d) \/ HandleEnds(d)
    \/ \E d \in Daemons, k \in Tasks : TaskEnds(d, k)
    \/ \E c \in Daemons : StartStep(c)
    \/ \E c \in Stops : StopStep(c)

Spec == Init /\ [][Next]_vars

\* The scheduler runs main, its tasks, a request that was begun, and the
\* commands; requests and faults are not owed.
FairSpec ==
    /\ Spec
    /\ \A d \in Daemons : WF_vars(MainStep(d)) /\ WF_vars(HandleEnds(d))
    /\ \A d \in Daemons, k \in Tasks : WF_vars(TaskEnds(d, k))
    /\ \A c \in Daemons : WF_vars(StartStep(c))
    /\ \A c \in Stops : WF_vars(StopStep(c))

-----------------------------------------------------------------------------
(* What the pid file, the socket and the commands promise.                 *)

\* d serves, works, or is about to: from Store::open to the drop of its PidLock.
Running(d) == pc[d] = "load" \/ pc[d] \in Serving \cup Stopping

\* d may read or write the store.
UsesStore(d) == Running(d) \/ handling[d]

\* d answers requests.
Answers(d) == "server" \in tasks[d] /\ ~told[d]

\* No two daemons run on the same store, and while one does another touches it
\* only to finish the requests it had when it gave up the pid file: run awaits
\* neither them nor their connections, so they outlive the lock.  Excepted is a
\* pid file unlinked between another daemon's open and its flock: the flock is
\* on the inode, the unlink on the path (acquire_pid_lock, Drop for PidLock).
SoleDaemon ==
    ~straggler =>
        \A d, e \in Daemons :
            d # e /\ Running(d) /\ UsesStore(e) => pc[e] \in Leaving /\ tasks[e] = {}

\* While a daemon answers, the socket path leads to it: no predecessor removes
\* the socket of its successor, no loser of the lock touches it (the order of
\* the end of run, Stale socket removal).
SocketLeadsToServer ==
    ~straggler => \A d \in Daemons : Answers(d) => sock = d

\* While a daemon answers, the pid file exists and holds its pid, which is what
\* the SIGTERM fallback of stop relies on.
PidFileNamesServer ==
    ~straggler =>
        \A d \in Daemons : Answers(d) => pidAt # None /\ content[pidAt] = d

\* A daemon whose main has been told to stop exits, whatever its tasks and its
\* requests are doing (Receive, the awaits, the drops of PidLock and runtime).
ShutdownObeyed == []<>(\A d \in Daemons : mail[d] => pc[d] = "dead")

\* Every command returns, although stop and hello have no timeout once they are
\* connected: a connection made during a start-up is served or reset.
CommandsReturn == <>(\A c \in Cmds : cmd[c].pc = "done")
===============================================================================
