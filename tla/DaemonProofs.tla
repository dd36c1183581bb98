----------------------------- MODULE DaemonProofs -----------------------------
(***************************************************************************)
(* Proofs about the pid file, its lock and the socket, for any number of   *)
(* daemons, commands and faults.                                           *)
(***************************************************************************)
EXTENDS Daemon, TLAPS

\* d has a lock on the inode it opened.
Holds(d) == Owner(d) \/ pc[d] = "close"

\* A lock is held on the inode that was opened, and as long as no pid file was
\* unlinked under a daemon about to lock it, that is the inode the path names.
LockInv ==
    /\ \A d \in Daemons : Holds(d) => ino[d] \in Daemons /\ holder[ino[d]] = d
    /\ \A d \in Daemons : pc[d] = "lock" => ino[d] \in Daemons
    /\ ~straggler => \A d \in Daemons : Owner(d) \/ pc[d] = "lock" => ino[d] = pidAt

\* The tasks of a daemon run between Load and the end of Join; before Join ends,
\* main has told them.
TaskInv ==
    /\ \A d \in Daemons : tasks[d] # {} => pc[d] \in Serving \cup {"join"}
    /\ \A d \in Daemons : pc[d] = "join" => told[d]

\* Requests are taken after Load only, and a shutdown comes after it too; both
\* are over with the process.
Begun == Serving \cup Stopping \cup Leaving

RequestInv == \A d \in Daemons : told[d] \/ handling[d] => pc[d] \in Begun

\* What d, as the owner of the lock, has written where.
FileOf(d) ==
    /\ pc[d] = "write" => out[d] = pidAt
    /\ pc[d] \in {"bind", "load"} \cup Serving \cup Stopping => content[pidAt] = d
    /\ pc[d] \in {"load", "join", "rmsock"} \cup Serving => sock = d

FileInv == ~straggler => \A d \in Daemons : FileOf(d)

IInv == TypeOK /\ LockInv /\ TaskInv /\ RequestInv /\ FileInv

-----------------------------------------------------------------------------
\* With the lock on the inode of the path there is one owner.
LEMMA OneOwner ==
    ASSUME LockInv, ~straggler, NEW d \in Daemons, NEW e \in Daemons,
           Owner(d), Owner(e)
    PROVE  d = e
BY DEF LockInv, Holds

\* An owner finds the pid file where it left it.
LEMMA OwnerHasFile ==
    ASSUME LockInv, ~straggler, NEW d \in Daemons, Owner(d)
    PROVE  pidAt \in Daemons
BY DEF LockInv, Holds

-----------------------------------------------------------------------------
(* Type correctness.                                                       *)

CmdPCs == {"connect", "poll", "hello", "ask", "vanish", "pidfile", "kill", "done"}

\* The part of TypeOK about the commands.
CmdTyped ==
    /\ cmd \in [Cmds -> [pc : CmdPCs, to : Maybe, res : Results]]
    /\ \A c \in Cmds : cmd[c].pc \in {"hello", "ask", "kill"} => cmd[c].to # None

\* A command that prints its result stays well typed.
LEMMA SayTyped ==
    ASSUME CmdTyped, NEW c \in Cmds, NEW r \in Results, Say(c, r)
    PROVE  CmdTyped'
BY DEF CmdTyped, CmdPCs, Say

\* So does one that goes on with its peer p.
LEMMA GoTyped ==
    ASSUME CmdTyped, NEW c \in Cmds, NEW l \in CmdPCs, NEW p \in Daemons,
           cmd' = [cmd EXCEPT ![c].pc = l, ![c].to = p]
    PROVE  CmdTyped'
BY DaemonAssumption DEF CmdTyped, CmdPCs, Maybe

\* And one that goes on without.
LEMMA GoOnTyped ==
    ASSUME CmdTyped, NEW c \in Cmds, NEW l \in CmdPCs \ {"hello", "ask", "kill"},
           cmd' = [cmd EXCEPT ![c].pc = l]
    PROVE  CmdTyped'
BY DEF CmdTyped, CmdPCs

\* The initial state is well typed.
LEMMA TypeInit == Init => TypeOK
<1> SUFFICES ASSUME Init PROVE TypeOK
  OBVIOUS
<1>1. CmdTyped
  BY DEF Init, CmdTyped, CmdPCs, Maybe, Results
<1>2. /\ pc \in [Daemons -> PCs] /\ tasks \in [Daemons -> SUBSET Tasks]
      /\ ino \in [Daemons -> Maybe] /\ out \in [Daemons -> Maybe]
      /\ holder \in [Daemons -> Maybe] /\ content \in [Daemons -> Maybe]
  BY DEF Init, PCs, Maybe
<1>3. /\ told \in [Daemons -> BOOLEAN] /\ mail \in [Daemons -> BOOLEAN]
      /\ handling \in [Daemons -> BOOLEAN] /\ straggler \in BOOLEAN
  BY Zenon DEF Init
<1>4. pidAt \in Maybe /\ sock \in Maybe
  BY DEF Init, Maybe
<1>5. faults \in 0..MaxFaults
  BY DaemonAssumption DEF Init
<1> QED
  BY <1>1, <1>2, <1>3, <1>4, <1>5 DEF TypeOK, CmdTyped, CmdPCs

\* A process that ends leaves a well typed state.
LEMMA DieType ==
    ASSUME TypeOK, NEW d \in Daemons, Die(d)
    PROVE  /\ pc' \in [Daemons -> PCs] /\ tasks' \in [Daemons -> SUBSET Tasks]
           /\ told' \in [Daemons -> BOOLEAN] /\ mail' \in [Daemons -> BOOLEAN]
           /\ handling' \in [Daemons -> BOOLEAN] /\ holder' \in [Daemons -> Maybe]
BY DEF TypeOK, Die, PCs, Maybe

\* Nor does a signal spoil it.
LEMMA DeliverType ==
    ASSUME TypeOK, NEW d \in Daemons, Deliver(d)
    PROVE  /\ pc' \in [Daemons -> PCs] /\ tasks' \in [Daemons -> SUBSET Tasks]
           /\ told' \in [Daemons -> BOOLEAN] /\ mail' \in [Daemons -> BOOLEAN]
           /\ handling' \in [Daemons -> BOOLEAN] /\ holder' \in [Daemons -> Maybe]
<1>1. CASE Die(d)
  BY <1>1, DieType
<1>2. CASE /\ mail' = [mail EXCEPT ![d] = @ \/ pc[d] = "wait"]
           /\ UNCHANGED <<pc, tasks, told, handling, holder>>
  <2>1. (mail[d] \/ pc[d] = "wait") \in BOOLEAN
    OBVIOUS
  <2> QED
    BY <1>2, <2>1 DEF TypeOK
<1> QED
  BY <1>1, <1>2 DEF Deliver

\* Every step keeps the state well typed.
LEMMA TypeStep == TypeOK /\ [Next]_vars => TypeOK'
<1> SUFFICES ASSUME TypeOK, [Next]_vars PROVE TypeOK'
  OBVIOUS
<1> USE DEF lock, proc
<1>0. ASSUME NEW d \in Daemons, NEW p \in PCs PROVE [pc EXCEPT ![d] = p] \in [Daemons -> PCs]
  BY DEF TypeOK
<1>1. ASSUME NEW d \in Daemons, OpenPid(d) \/ Flock(d) \/ FlockFails(d) PROVE TypeOK'
  BY <1>1 DEF TypeOK, OpenPid, Flock, FlockFails, Goto, PCs, Acquiring, Starting, Maybe
<1>2. ASSUME NEW d \in Daemons, Truncate(d) \/ WritePid(d) \/ Bind(d) PROVE TypeOK'
  BY <1>2 DEF TypeOK, Truncate, WritePid, Bind, Goto, PCs, Starting, Maybe
<1>3. ASSUME NEW d \in Daemons, Load(d) \/ Subscribe(d) PROVE TypeOK'
  BY <1>3 DEF TypeOK, Load, Subscribe, Goto, PCs, Starting, Serving
<1>4. ASSUME NEW d \in Daemons, Receive(d) \/ Join(d) \/ RemoveSocket(d) PROVE TypeOK'
  BY <1>4 DEF TypeOK, Receive, Join, RemoveSocket, Goto, PCs, Stopping, Maybe
<1>5. ASSUME NEW d \in Daemons, UnlinkPid(d) \/ Close(d) PROVE TypeOK'
  BY <1>5 DEF TypeOK, UnlinkPid, Close, Goto, PCs, Leaving, Maybe
<1>6. ASSUME NEW d \in Daemons, TruncateFails(d) \/ Exit(d) PROVE TypeOK'
  BY <1>6, DieType DEF TypeOK, TruncateFails, Exit
<1>7. ASSUME NEW d \in Daemons, Kill(d) PROVE TypeOK'
  BY <1>7, DieType, DaemonAssumption DEF TypeOK, Kill, Fault
<1>8. ASSUME NEW d \in Daemons, Signal(d) PROVE TypeOK'
  BY <1>8, DeliverType, DaemonAssumption DEF TypeOK, Signal, Fault
<1>9. ASSUME NEW d \in Daemons, LoadFails(d) PROVE TypeOK'
  BY <1>9, DaemonAssumption DEF TypeOK, LoadFails, Fault, Goto, PCs, Stopping
<1>10. ASSUME NEW d \in Daemons, NEW k \in Tasks, TaskEnds(d, k) PROVE TypeOK'
  BY <1>10 DEF TypeOK, TaskEnds
<1>20. ASSUME NEW d \in Daemons, Handle(d) \/ HandleEnds(d) PROVE TypeOK'
  BY <1>20 DEF TypeOK, Handle, HandleEnds
<1>c. CmdTyped /\ (CmdTyped' /\ UNCHANGED <<pc, lock, proc, sock, faults>> => TypeOK')
  BY DEF TypeOK, CmdTyped, CmdPCs
<1>d. Daemons \subseteq Cmds /\ Stops \subseteq Cmds
  BY DEF Cmds
<1>e. /\ {"connect", "poll", "vanish", "pidfile", "done"} \subseteq CmdPCs \ {"hello", "ask", "kill"}
      /\ {"hello", "ask", "kill"} \subseteq CmdPCs
  BY DEF CmdPCs
<1>f. {"ok", "failed", "stopped", "signaled", "not_running"} \subseteq Results
  BY DEF Results
<1>11. ASSUME NEW c \in Daemons, StartConnect(c) \/ Poll(c) PROVE TypeOK'
  <2>1. sock \in Daemons /\ Talk(c, "hello") /\ UNCHANGED <<pc, lock, proc, sock, faults>>
    BY <1>11 DEF TypeOK, StartConnect, Poll, Connectable, Maybe
  <2> QED
    BY <1>c, <1>d, <1>e, <2>1, GoTyped DEF Talk
<1>12. ASSUME NEW c \in Daemons, StartSpawn(c) PROVE TypeOK'
  <2>1. CmdTyped' /\ UNCHANGED <<lock, proc, sock, faults>>
    BY <1>c, <1>d, <1>e, <1>12, GoOnTyped DEF StartSpawn
  <2>2. pc' \in [Daemons -> PCs]
    BY <1>12 DEF TypeOK, StartSpawn, Goto, PCs, Acquiring
  <2> QED
    BY <2>1, <2>2 DEF TypeOK, CmdTyped, CmdPCs
<1>13. ASSUME NEW c \in Daemons, PollTimeout(c) \/ Hello(c) PROVE TypeOK'
  BY <1>c, <1>d, <1>f, <1>13, SayTyped DEF PollTimeout, Hello
<1>14. ASSUME NEW c \in Stops, StopConnect(c) PROVE TypeOK'
  <2>1. CASE Connectable
    <3>1. sock \in Daemons /\ Talk(c, "ask") /\ UNCHANGED <<pc, lock, proc, sock, faults>>
      BY <1>14, <2>1 DEF TypeOK, StopConnect, Connectable, Maybe
    <3> QED
      BY <1>c, <1>d, <1>e, <3>1, GoTyped DEF Talk
  <2>2. CASE ~Connectable
    <3>1. /\ cmd' = [cmd EXCEPT ![c].pc = "pidfile"]
          /\ UNCHANGED <<pc, lock, proc, sock, faults>>
      BY <1>14, <2>2 DEF StopConnect
    <3> QED
      BY <1>c, <1>d, <1>e, <3>1, GoOnTyped
  <2> QED
    BY <2>1, <2>2
<1>15. ASSUME NEW c \in Stops, Ask(c) PROVE TypeOK'
  <2>1. cmd[c].to \in Daemons
    BY <1>15, <1>c, <1>d DEF CmdTyped, Ask, Maybe
  <2>2. CmdTyped'
    BY <1>15, <1>c, <1>d, <1>e, GoOnTyped DEF Ask
  <2>3. (mail[cmd[c].to] \/ pc[cmd[c].to] = "wait") \in BOOLEAN
    OBVIOUS
  <2>4. told' \in [Daemons -> BOOLEAN] /\ mail' \in [Daemons -> BOOLEAN]
    BY <1>15, <2>1, <2>3 DEF TypeOK, Ask
  <2> QED
    BY <1>15, <2>2, <2>4 DEF TypeOK, CmdTyped, CmdPCs, Ask
<1>16. ASSUME NEW c \in Stops, AskLost(c) \/ Stopped(c) PROVE TypeOK'
  BY <1>16, <1>c, <1>d, <1>e, <1>f, GoOnTyped, SayTyped DEF AskLost, Stopped
<1>17. ASSUME NEW c \in Stops, ReadPid(c) PROVE TypeOK'
  <2>1. UNCHANGED <<pc, lock, proc, sock, faults>>
    BY <1>17 DEF ReadPid
  <2>2. CASE pidAt = None \/ content[pidAt] = None
    BY <1>17, <1>c, <1>d, <1>f, <2>1, <2>2, SayTyped DEF ReadPid
  <2>3. CASE pidAt # None /\ content[pidAt] # None
    <3>1. content[pidAt] \in Daemons
      BY <2>3 DEF TypeOK, Maybe
    <3>2. cmd' = [cmd EXCEPT ![c].pc = "kill", ![c].to = content[pidAt]]
      BY <1>17, <2>3 DEF ReadPid
    <3> QED
      BY <1>c, <1>d, <1>e, <2>1, <3>1, <3>2, GoTyped
  <2> QED
    BY <2>2, <2>3
<1>18. ASSUME NEW c \in Stops, Sigterm(c) PROVE TypeOK'
  <2>1. cmd[c].to \in Daemons
    BY <1>18, <1>c, <1>d DEF CmdTyped, Sigterm, Maybe
  <2>2. /\ pc' \in [Daemons -> PCs] /\ tasks' \in [Daemons -> SUBSET Tasks]
        /\ told' \in [Daemons -> BOOLEAN] /\ mail' \in [Daemons -> BOOLEAN]
        /\ handling' \in [Daemons -> BOOLEAN] /\ holder' \in [Daemons -> Maybe]
    BY <1>18, <2>1, DeliverType DEF Sigterm
  <2>3. CmdTyped'
    BY <1>18, <1>c, <1>d, <1>f, SayTyped DEF Sigterm
  <2> QED
    BY <1>18, <2>2, <2>3 DEF TypeOK, CmdTyped, CmdPCs, Sigterm
<1>19. CASE UNCHANGED vars
  BY <1>19 DEF TypeOK, vars
<1> QED
  BY <1>1, <1>2, <1>3, <1>4, <1>5, <1>6, <1>7, <1>8, <1>9, <1>10, <1>11, <1>12,
     <1>13, <1>14, <1>15, <1>16, <1>17, <1>18, <1>19, <1>20
     DEF Next, MainStep, StartStep, StopStep

-----------------------------------------------------------------------------
(* The lock.                                                               *)

\* A process that ends gives back its own locks only.
LEMMA DieKeepsLocks ==
    ASSUME TypeOK, LockInv, NEW d \in Daemons, Die(d),
           UNCHANGED <<ino, pidAt, straggler>>
    PROVE  LockInv'
<1>1. \A e \in Daemons : e # d => pc'[e] = pc[e]
  BY DEF Die, TypeOK
<1>2. pc'[d] = "dead"
  BY DEF Die, TypeOK
<1>3. \A i \in Daemons : holder'[i] = IF holder[i] = d THEN None ELSE holder[i]
  BY DEF Die
<1>4. \A e \in Daemons : (Holds(e)' => e # d /\ Holds(e)) /\ (Owner(e)' => e # d /\ Owner(e))
  BY <1>1, <1>2 DEF Holds, Owner, Starting, Serving, Stopping
<1> QED
  BY <1>1, <1>2, <1>3, <1>4 DEF LockInv

\* Moving on between two steps of an owner changes nothing about the lock.
LEMMA OwnerMoves ==
    ASSUME TypeOK, LockInv, NEW d \in Daemons, Owner(d),
           NEW p \in Starting \cup Serving \cup Stopping, pc' = [pc EXCEPT ![d] = p],
           UNCHANGED <<ino, pidAt, holder, straggler>>
    PROVE  LockInv'
<1>1. \A e \in Daemons : (Holds(e)' <=> Holds(e)) /\ (Owner(e)' <=> Owner(e))
  BY DEF TypeOK, Holds, Owner, Starting, Serving, Stopping
<1>2. \A e \in Daemons : pc'[e] = "lock" => pc[e] = "lock"
  BY DEF TypeOK, Starting, Serving, Stopping
<1> QED
  BY <1>1, <1>2 DEF LockInv

\* Steps that move no main and touch no lock.
LEMMA LockUnchanged ==
    ASSUME LockInv, UNCHANGED <<pc, ino, pidAt, holder, straggler>>
    PROVE  LockInv'
BY DEF LockInv, Holds, Owner

\* A signal keeps the lock as it is, or ends the process.
LEMMA DeliverKeepsLocks ==
    ASSUME TypeOK, LockInv, NEW d \in Daemons, Deliver(d),
           UNCHANGED <<ino, pidAt, straggler>>
    PROVE  LockInv'
BY DieKeepsLocks, LockUnchanged DEF Deliver

\* Every step keeps the lock where the path leads.
LEMMA LockStep == TypeOK /\ LockInv /\ [Next]_vars => LockInv'
<1> SUFFICES ASSUME TypeOK, LockInv, [Next]_vars PROVE LockInv'
  OBVIOUS
<1> USE DEF lock, proc
<1>1. ASSUME NEW d \in Daemons, OpenPid(d) PROVE LockInv'
  <2> DEFINE i == IF pidAt = None THEN d ELSE pidAt
  <2>1. /\ pc[d] = "open" /\ pc' = [pc EXCEPT ![d] = "lock"]
        /\ pidAt' = i /\ ino' = [ino EXCEPT ![d] = i]
        /\ UNCHANGED <<holder, straggler>>
    BY <1>1 DEF OpenPid, Goto
  <2>2. i \in Daemons
    BY DEF TypeOK, Maybe
  <2>3. \A e \in Daemons :
           /\ Holds(e)' => e # d /\ Holds(e)
           /\ Owner(e)' => e # d /\ Owner(e)
           /\ pc'[e] = "lock" => e = d \/ pc[e] = "lock"
    BY <2>1 DEF TypeOK, Holds, Owner, Starting, Serving, Stopping
  <2>4. \A e \in Daemons : e # d => ino'[e] = ino[e]
    BY <2>1 DEF TypeOK
  <2>5. ino'[d] = i
    BY <2>1 DEF TypeOK
  <2>6. ~straggler => \A e \in Daemons : Owner(e) \/ pc[e] = "lock" => ino[e] = i
    BY DaemonAssumption DEF LockInv, Holds
  <2> HIDE DEF i
  <2>7. \A e \in Daemons : Holds(e)' => ino'[e] \in Daemons /\ holder'[ino'[e]] = e
    BY <2>1, <2>3, <2>4 DEF LockInv
  <2>8. \A e \in Daemons : pc'[e] = "lock" => ino'[e] \in Daemons
    BY <2>2, <2>3, <2>4, <2>5 DEF LockInv
  <2>9. ~straggler' => \A e \in Daemons : Owner(e)' \/ pc'[e] = "lock" => ino'[e] = pidAt'
    BY <2>1, <2>3, <2>4, <2>5, <2>6
  <2> QED
    BY <2>7, <2>8, <2>9 DEF LockInv
<1>2. ASSUME NEW d \in Daemons, Flock(d) PROVE LockInv'
  <2>1. /\ pc[d] = "lock" /\ pc' = [pc EXCEPT ![d] = "truncate"]
        /\ holder[ino[d]] = None /\ holder' = [holder EXCEPT ![ino[d]] = d]
        /\ UNCHANGED <<ino, pidAt, straggler>>
    BY <1>2 DEF Flock, Goto
  <2>2. \A e \in Daemons :
           /\ Holds(e)' => e = d \/ Holds(e)
           /\ Owner(e)' => e = d \/ Owner(e)
           /\ pc'[e] = "lock" => pc[e] = "lock"
    BY <2>1 DEF TypeOK, Holds, Owner, Starting, Serving, Stopping
  <2>3. \A e \in Daemons : Holds(e) => ino[e] # ino[d]
    BY <2>1, DaemonAssumption DEF LockInv
  <2>4. ino[d] \in Daemons /\ holder'[ino[d]] = d
    BY <2>1 DEF LockInv, TypeOK
  <2>5. \A e \in Daemons : Holds(e)' => ino'[e] \in Daemons /\ holder'[ino'[e]] = e
    BY <2>1, <2>2, <2>3, <2>4 DEF LockInv, TypeOK
  <2> QED
    BY <2>1, <2>2, <2>5 DEF LockInv
<1>3. ASSUME NEW d \in Daemons, FlockFails(d) PROVE LockInv'
  <2>1. \A e \in Daemons :
           /\ (Holds(e)' => Holds(e)) /\ (Owner(e)' => Owner(e))
           /\ pc'[e] = "lock" => pc[e] = "lock"
    BY <1>3 DEF FlockFails, Goto, TypeOK, Holds, Owner, Starting, Serving, Stopping
  <2> QED
    BY <1>3, <2>1 DEF FlockFails, LockInv
<1>4. ASSUME NEW d \in Daemons, TruncateFails(d) \/ Exit(d) \/ Kill(d) PROVE LockInv'
  BY <1>4, DieKeepsLocks DEF TruncateFails, Exit, Kill
<1>15. ASSUME NEW d \in Daemons, Close(d) PROVE LockInv'
  <2>1. \A e \in Daemons : e # d => pc'[e] = pc[e]
    BY <1>15 DEF TypeOK, Close, Goto
  <2>2. pc'[d] = "exit"
    BY <1>15 DEF TypeOK, Close, Goto
  <2>3. \A i \in Daemons : holder'[i] = IF holder[i] = d THEN None ELSE holder[i]
    BY <1>15 DEF Close
  <2>4. \A e \in Daemons :
           (Holds(e)' => e # d /\ Holds(e)) /\ (Owner(e)' => e # d /\ Owner(e))
    BY <2>1, <2>2 DEF Holds, Owner, Starting, Serving, Stopping
  <2> QED
    BY <1>15, <2>1, <2>2, <2>3, <2>4 DEF LockInv, Close
<1>5. ASSUME NEW d \in Daemons, Signal(d) PROVE LockInv'
  BY <1>5, DeliverKeepsLocks DEF Signal
<1>6. ASSUME NEW d \in Daemons, Truncate(d) \/ WritePid(d) \/ Bind(d) \/ Load(d) PROVE LockInv'
  BY <1>6, OwnerMoves DEF Truncate, WritePid, Bind, Load, Goto, Owner, Starting, Serving
<1>7. ASSUME NEW d \in Daemons,
             LoadFails(d) \/ Subscribe(d) \/ Receive(d) \/ Join(d) \/ RemoveSocket(d)
      PROVE  LockInv'
  BY <1>7, OwnerMoves
     DEF LoadFails, Subscribe, Receive, Join, RemoveSocket, Goto, Owner, Starting, Serving,
         Stopping
<1>8. ASSUME NEW d \in Daemons, UnlinkPid(d) PROVE LockInv'
  <2>1. /\ pc[d] = "unlink" /\ pc' = [pc EXCEPT ![d] = "close"]
        /\ straggler' = (straggler \/ \E e \in Daemons : pc[e] = "lock")
        /\ UNCHANGED <<ino, holder>>
    BY <1>8 DEF UnlinkPid, Goto
  <2>2. \A e \in Daemons :
           /\ Holds(e)' => Holds(e)
           /\ Owner(e)' => e # d /\ Owner(e)
           /\ pc'[e] = "lock" => pc[e] = "lock"
    BY <2>1 DEF TypeOK, Holds, Owner, Starting, Serving, Stopping
  <2>3. Owner(d)
    BY <2>1 DEF Owner, Stopping
  <2>4. ~straggler' => \A e \in Daemons : ~Owner(e)' /\ pc'[e] # "lock"
    BY <2>1, <2>2, <2>3, OneOwner
  <2> QED
    BY <2>1, <2>2, <2>4 DEF LockInv
<1>9. ASSUME NEW c \in Daemons, StartSpawn(c) PROVE LockInv'
  <2>1. \A e \in Daemons :
           /\ (Holds(e)' => Holds(e)) /\ (Owner(e)' => Owner(e))
           /\ pc'[e] = "lock" => pc[e] = "lock"
    BY <1>9 DEF StartSpawn, Goto, TypeOK, Holds, Owner, Starting, Serving, Stopping
  <2> QED
    BY <1>9, <2>1 DEF StartSpawn, LockInv
<1>10. ASSUME NEW d \in Daemons, NEW k \in Tasks, TaskEnds(d, k) PROVE LockInv'
  BY <1>10, LockUnchanged DEF TaskEnds
<1>16. ASSUME NEW d \in Daemons, Handle(d) \/ HandleEnds(d) PROVE LockInv'
  BY <1>16, LockUnchanged DEF Handle, HandleEnds
<1>11. ASSUME NEW c \in Daemons, StartConnect(c) \/ Poll(c) \/ PollTimeout(c) \/ Hello(c)
       PROVE  LockInv'
  BY <1>11, LockUnchanged DEF StartConnect, Poll, PollTimeout, Hello
<1>12. ASSUME NEW c \in Stops,
              StopConnect(c) \/ Ask(c) \/ AskLost(c) \/ Stopped(c) \/ ReadPid(c)
       PROVE  LockInv'
  BY <1>12, LockUnchanged DEF StopConnect, Ask, AskLost, Stopped, ReadPid
<1>13. ASSUME NEW c \in Stops, Sigterm(c) PROVE LockInv'
  <2>1. cmd[c].to \in Daemons
    BY <1>13 DEF TypeOK, Sigterm, Cmds, Maybe
  <2> QED
    BY <1>13, <2>1, DeliverKeepsLocks DEF Sigterm
<1>14. CASE UNCHANGED vars
  BY <1>14, LockUnchanged DEF vars
<1> QED
  BY <1>1, <1>2, <1>3, <1>4, <1>5, <1>6, <1>7, <1>8, <1>9, <1>10, <1>11, <1>12,
     <1>13, <1>14, <1>15, <1>16 DEF Next, MainStep, StartStep, StopStep

-----------------------------------------------------------------------------
(* The tasks.                                                              *)

\* A process that ends takes its tasks with it.
LEMMA DieEndsTasks ==
    ASSUME TypeOK, TaskInv, NEW d \in Daemons, Die(d)
    PROVE  TaskInv'
<1>1. \A e \in Daemons : e # d => pc'[e] = pc[e] /\ tasks'[e] = tasks[e] /\ told'[e] = told[e]
  BY DEF Die, TypeOK
<1>2. pc'[d] = "dead" /\ tasks'[d] = {}
  BY DEF Die, TypeOK
<1> QED
  BY <1>1, <1>2 DEF TaskInv

\* Nothing about the tasks changes while main is where it is.
LEMMA TasksUnchanged ==
    ASSUME TaskInv, UNCHANGED <<pc, tasks, told>>
    PROVE  TaskInv'
BY DEF TaskInv

\* Main moves between two points where none of its tasks runs.
LEMMA MoveWithoutTasks ==
    ASSUME TypeOK, TaskInv, NEW d \in Daemons, NEW p \in PCs \ {"join"},
           pc[d] \notin Serving \cup {"join"}, pc' = [pc EXCEPT ![d] = p],
           UNCHANGED <<tasks, told>>
    PROVE  TaskInv'
BY DEF TypeOK, TaskInv

\* Every step keeps the tasks between Load and Join.
LEMMA TaskStep == TypeOK /\ TaskInv /\ [Next]_vars => TaskInv'
<1> SUFFICES ASSUME TypeOK, TaskInv, [Next]_vars PROVE TaskInv'
  OBVIOUS
<1> USE DEF lock, proc
<1>1. ASSUME NEW d \in Daemons,
             \/ OpenPid(d) \/ Flock(d) \/ FlockFails(d) \/ Truncate(d) \/ WritePid(d)
             \/ Bind(d) \/ LoadFails(d) \/ RemoveSocket(d) \/ UnlinkPid(d) \/ Close(d)
      PROVE  TaskInv'
  BY <1>1, MoveWithoutTasks
     DEF OpenPid, Flock, FlockFails, Truncate, WritePid, Bind, LoadFails, RemoveSocket,
         UnlinkPid, Close, Goto, PCs, Leaving, Acquiring, Starting, Serving, Stopping
<1>2. ASSUME NEW d \in Daemons, Load(d) PROVE TaskInv'
  BY <1>2 DEF TypeOK, TaskInv, Load, Goto, Serving
<1>3. ASSUME NEW d \in Daemons, Subscribe(d) PROVE TaskInv'
  BY <1>3 DEF TypeOK, TaskInv, Subscribe, Goto, Serving
<1>4. ASSUME NEW d \in Daemons, Receive(d) PROVE TaskInv'
  <2>1. /\ pc[d] = "wait" /\ pc' = [pc EXCEPT ![d] = "join"]
        /\ told' = [told EXCEPT ![d] = TRUE] /\ tasks' = tasks
    BY <1>4 DEF Receive, Goto
  <2> QED
    BY <2>1 DEF TypeOK, TaskInv
<1>5. ASSUME NEW d \in Daemons, Join(d) PROVE TaskInv'
  BY <1>5 DEF TypeOK, TaskInv, Join, Goto
<1>6. ASSUME NEW d \in Daemons, TruncateFails(d) \/ Exit(d) \/ Kill(d) PROVE TaskInv'
  BY <1>6, DieEndsTasks DEF TruncateFails, Exit, Kill
<1>7. ASSUME NEW d \in Daemons, Signal(d) PROVE TaskInv'
  BY <1>7, DieEndsTasks, TasksUnchanged DEF Signal, Deliver
<1>8. ASSUME NEW d \in Daemons, NEW k \in Tasks, TaskEnds(d, k) PROVE TaskInv'
  BY <1>8 DEF TypeOK, TaskInv, TaskEnds
<1>15. ASSUME NEW d \in Daemons, Handle(d) \/ HandleEnds(d) PROVE TaskInv'
  BY <1>15, TasksUnchanged DEF Handle, HandleEnds
<1>9. ASSUME NEW c \in Daemons, StartSpawn(c) PROVE TaskInv'
  BY <1>9, MoveWithoutTasks DEF StartSpawn, Goto, PCs, Acquiring, Serving
<1>10. ASSUME NEW c \in Daemons, StartConnect(c) \/ Poll(c) \/ PollTimeout(c) \/ Hello(c)
       PROVE  TaskInv'
  BY <1>10, TasksUnchanged DEF StartConnect, Poll, PollTimeout, Hello
<1>11. ASSUME NEW c \in Stops, StopConnect(c) \/ AskLost(c) \/ Stopped(c) \/ ReadPid(c)
       PROVE  TaskInv'
  BY <1>11, TasksUnchanged DEF StopConnect, AskLost, Stopped, ReadPid
<1>12. ASSUME NEW c \in Stops, Ask(c) PROVE TaskInv'
  <2>1. told' = [told EXCEPT ![cmd[c].to] = TRUE] /\ UNCHANGED <<pc, tasks>>
    BY <1>12 DEF Ask
  <2> QED
    BY <2>1 DEF TypeOK, TaskInv
<1>13. ASSUME NEW c \in Stops, Sigterm(c) PROVE TaskInv'
  <2>1. cmd[c].to \in Daemons
    BY <1>13 DEF TypeOK, Sigterm, Cmds, Maybe
  <2> QED
    BY <1>13, <2>1, DieEndsTasks, TasksUnchanged DEF Sigterm, Deliver
<1>14. CASE UNCHANGED vars
  BY <1>14, TasksUnchanged DEF vars
<1> QED
  BY <1>1, <1>2, <1>3, <1>4, <1>5, <1>6, <1>7, <1>8, <1>9, <1>10, <1>11, <1>12,
     <1>13, <1>14, <1>15 DEF Next, MainStep, StartStep, StopStep

-----------------------------------------------------------------------------
(* The requests.                                                           *)

\* No request begins or ends, and no main leaves the part of its life with them.
LEMMA RequestsUnchanged ==
    ASSUME RequestInv, UNCHANGED <<told, handling>>,
           \A d \in Daemons : pc[d] \in Begun => pc'[d] \in Begun
    PROVE  RequestInv'
<1> SUFFICES ASSUME NEW d \in Daemons, told[d] \/ handling[d] PROVE pc'[d] \in Begun
  BY DEF RequestInv, Begun, Serving, Stopping, Leaving
<1> QED
  BY DEF RequestInv

\* A process that ends takes its requests with it.
LEMMA DieEndsRequests ==
    ASSUME TypeOK, RequestInv, NEW d \in Daemons, Die(d)
    PROVE  RequestInv'
<1>1. ~told'[d] /\ ~handling'[d]
  BY Zenon DEF Die, TypeOK
<1>2. \A e \in Daemons :
         e # d => pc'[e] = pc[e] /\ told'[e] = told[e] /\ handling'[e] = handling[e]
  BY DEF Die, TypeOK
<1> QED
  BY <1>1, <1>2 DEF RequestInv, Begun, Serving, Stopping, Leaving

\* A signal ends none but those.
LEMMA DeliverEndsRequests ==
    ASSUME TypeOK, RequestInv, NEW d \in Daemons, Deliver(d)
    PROVE  RequestInv'
BY DieEndsRequests, RequestsUnchanged DEF Deliver

\* Whoever is connected is connected to a daemon that loaded.
LEMMA ConnectedBegun ==
    ASSUME TaskInv, RequestInv, NEW d \in Daemons, Connected(d)
    PROVE  pc[d] \in Begun
BY DEF TaskInv, RequestInv, Connected, Begun, Serving, Stopping

\* Every step keeps requests and shutdowns behind Load.
LEMMA RequestStep == TypeOK /\ TaskInv /\ RequestInv /\ [Next]_vars => RequestInv'
<1> SUFFICES ASSUME TypeOK, TaskInv, RequestInv, [Next]_vars PROVE RequestInv'
  OBVIOUS
<1> USE DEF lock, proc
<1>1. ASSUME NEW d \in Daemons,
             \/ OpenPid(d) \/ Flock(d) \/ FlockFails(d) \/ Truncate(d) \/ WritePid(d)
             \/ Bind(d) \/ Load(d) \/ LoadFails(d)
      PROVE  RequestInv'
  <2>1. \A e \in Daemons : pc[e] \in Begun => pc'[e] \in Begun
    BY <1>1 DEF TypeOK, OpenPid, Flock, FlockFails, Truncate, WritePid, Bind, Load,
                LoadFails, Goto, Begun, Serving, Stopping, Leaving
  <2>2. UNCHANGED <<told, handling>>
    BY <1>1 DEF OpenPid, Flock, FlockFails, Truncate, WritePid, Bind, Load, LoadFails
  <2> QED
    BY <2>1, <2>2, RequestsUnchanged
<1>2. ASSUME NEW d \in Daemons,
             Subscribe(d) \/ Join(d) \/ RemoveSocket(d) \/ UnlinkPid(d) \/ Close(d)
      PROVE  RequestInv'
  <2>1. \A e \in Daemons : pc[e] \in Begun => pc'[e] \in Begun
    BY <1>2 DEF TypeOK, Subscribe, Join, RemoveSocket, UnlinkPid, Close, Goto, Begun,
                Serving, Stopping, Leaving
  <2>2. UNCHANGED <<told, handling>>
    BY <1>2 DEF Subscribe, Join, RemoveSocket, UnlinkPid, Close
  <2> QED
    BY <2>1, <2>2, RequestsUnchanged
<1>3. ASSUME NEW d \in Daemons, Receive(d) PROVE RequestInv'
  <2>1. /\ pc' = [pc EXCEPT ![d] = "join"] /\ handling' = handling
        /\ told' = [told EXCEPT ![d] = TRUE]
    BY <1>3 DEF Receive, Goto
  <2>2. pc'[d] \in Begun
    BY <2>1 DEF TypeOK, Begun, Stopping
  <2>3. \A e \in Daemons : e # d => pc'[e] = pc[e] /\ told'[e] = told[e]
    BY <2>1 DEF TypeOK
  <2> QED
    BY <2>1, <2>2, <2>3 DEF RequestInv, Begun, Serving, Stopping, Leaving
<1>4. ASSUME NEW d \in Daemons, TruncateFails(d) \/ Exit(d) \/ Kill(d) PROVE RequestInv'
  BY <1>4, DieEndsRequests DEF TruncateFails, Exit, Kill
<1>5. ASSUME NEW d \in Daemons, Signal(d) PROVE RequestInv'
  BY <1>5, DeliverEndsRequests DEF Signal
<1>6. ASSUME NEW d \in Daemons, NEW k \in Tasks, TaskEnds(d, k) PROVE RequestInv'
  BY <1>6, RequestsUnchanged DEF TaskEnds
<1>7. ASSUME NEW d \in Daemons, Handle(d) PROVE RequestInv'
  <2>1. Connected(d) /\ handling' = [handling EXCEPT ![d] = TRUE]
        /\ UNCHANGED <<pc, told>>
    BY <1>7 DEF Handle
  <2>2. pc[d] \in Begun
    BY <2>1, ConnectedBegun
  <2>3. \A e \in Daemons : e # d => handling'[e] = handling[e]
    BY <2>1 DEF TypeOK
  <2> QED
    BY <2>1, <2>2, <2>3 DEF RequestInv, Begun, Serving, Stopping, Leaving
<1>8. ASSUME NEW d \in Daemons, HandleEnds(d) PROVE RequestInv'
  <2>1. handling' = [handling EXCEPT ![d] = FALSE] /\ UNCHANGED <<pc, told>>
    BY <1>8 DEF HandleEnds
  <2>2. \A e \in Daemons : handling'[e] => handling[e]
    BY <2>1, Zenon DEF TypeOK
  <2> QED
    BY <2>1, <2>2 DEF RequestInv, Begun, Serving, Stopping, Leaving
<1>9. ASSUME NEW c \in Daemons, StartStep(c) PROVE RequestInv'
  <2>1. \A e \in Daemons : pc[e] \in Begun => pc'[e] \in Begun
    BY <1>9 DEF TypeOK, StartStep, StartConnect, StartSpawn, Poll, PollTimeout, Hello, Goto,
                Begun, Serving, Stopping, Leaving
  <2>2. UNCHANGED <<told, handling>>
    BY <1>9 DEF StartStep, StartConnect, StartSpawn, Poll, PollTimeout, Hello
  <2> QED
    BY <2>1, <2>2, RequestsUnchanged
<1>10. ASSUME NEW c \in Stops,
              StopConnect(c) \/ AskLost(c) \/ Stopped(c) \/ ReadPid(c)
       PROVE  RequestInv'
  BY <1>10, RequestsUnchanged DEF StopConnect, AskLost, Stopped, ReadPid
<1>11. ASSUME NEW c \in Stops, Ask(c) PROVE RequestInv'
  <2>1. cmd[c].to \in Daemons
    BY <1>11 DEF TypeOK, Ask, Cmds, Maybe
  <2>2. /\ Connected(cmd[c].to) /\ UNCHANGED <<pc, handling>>
        /\ told' = [told EXCEPT ![cmd[c].to] = TRUE]
    BY <1>11 DEF Ask
  <2>3. pc[cmd[c].to] \in Begun
    BY <2>1, <2>2, ConnectedBegun
  <2>4. \A e \in Daemons : e # cmd[c].to => told'[e] = told[e]
    BY <2>2 DEF TypeOK
  <2> QED
    BY <2>2, <2>3, <2>4 DEF RequestInv, Begun, Serving, Stopping, Leaving
<1>12. ASSUME NEW c \in Stops, Sigterm(c) PROVE RequestInv'
  <2>1. cmd[c].to \in Daemons
    BY <1>12 DEF TypeOK, Sigterm, Cmds, Maybe
  <2> QED
    BY <1>12, <2>1, DeliverEndsRequests DEF Sigterm
<1>13. CASE UNCHANGED vars
  BY <1>13, RequestsUnchanged DEF vars
<1> QED
  BY <1>1, <1>2, <1>3, <1>4, <1>5, <1>6, <1>7, <1>8, <1>9, <1>10, <1>11, <1>12, <1>13
     DEF Next, MainStep, StopStep

-----------------------------------------------------------------------------
(* The files.                                                              *)

\* What only the owner writes stays true of it when it writes.
LEMMA OwnerWrites ==
    ASSUME TypeOK, LockInv, ~straggler, NEW d \in Daemons, Owner(d),
           \A e \in Daemons : e # d => pc'[e] = pc[e], FileOf(d)'
    PROVE  \A e \in Daemons : FileOf(e)'
<1> SUFFICES ASSUME NEW e \in Daemons, e # d PROVE FileOf(e)'
  OBVIOUS
<1>1. ~Owner(e) /\ pc'[e] = pc[e]
  BY OneOwner
<1> QED
  BY <1>1 DEF FileOf, Owner, Starting, Serving, Stopping

\* The files stay as they are, and mains only move out of the owner's steps, or
\* to its first.
LEMMA FilesUnchanged ==
    ASSUME FileInv, UNCHANGED <<out, pidAt, content, sock, straggler>>,
           \A d \in Daemons :
              pc'[d] = pc[d] \/ pc'[d] \in {"open", "lock", "truncate", "close", "exit", "dead"}
    PROVE  FileInv'
BY DEF FileInv, FileOf, Serving, Stopping

\* Every step keeps the pid and the socket with the owner of the lock.
LEMMA FileStep == TypeOK /\ LockInv /\ FileInv /\ [Next]_vars => FileInv'
<1> SUFFICES ASSUME TypeOK, LockInv, FileInv, [Next]_vars PROVE FileInv'
  OBVIOUS
<1> USE DEF lock, proc
<1>1. ASSUME NEW d \in Daemons, OpenPid(d) PROVE FileInv'
  <2> SUFFICES ASSUME ~straggler', NEW e \in Daemons PROVE FileOf(e)'
    BY DEF FileInv
  <2>1. /\ pc' = [pc EXCEPT ![d] = "lock"]
        /\ pidAt # None => pidAt' = pidAt
        /\ UNCHANGED <<out, content, straggler, sock>>
    BY <1>1 DEF OpenPid, Goto
  <2>2. CASE Owner(e)
    <3>1. pidAt' = pidAt
      BY <2>1, <2>2, OwnerHasFile, DaemonAssumption
    <3>2. pc'[e] = pc[e] \/ pc'[e] = "lock"
      BY <2>1 DEF TypeOK
    <3> QED
      BY <2>1, <3>1, <3>2 DEF FileInv, FileOf, Serving, Stopping
  <2>3. CASE ~Owner(e)
    <3>1. ~Owner(e)'
      BY <2>1, <2>3 DEF TypeOK, Owner, Starting, Serving, Stopping
    <3> QED
      BY <3>1 DEF FileOf, Owner, Starting, Serving, Stopping
  <2> QED
    BY <2>2, <2>3
<1>2. ASSUME NEW d \in Daemons,
             \/ Truncate(d) \/ WritePid(d) \/ Bind(d) \/ Load(d) \/ LoadFails(d)
             \/ Subscribe(d) \/ Receive(d) \/ Join(d) \/ RemoveSocket(d) \/ UnlinkPid(d)
      PROVE  FileInv'
  <2> SUFFICES ASSUME ~straggler' PROVE \A e \in Daemons : FileOf(e)'
    BY DEF FileInv
  <2>1. ~straggler
    BY <1>2 DEF Truncate, WritePid, Bind, Load, LoadFails, Subscribe, Receive, Join,
                RemoveSocket, UnlinkPid
  <2>2. Owner(d) /\ \A e \in Daemons : e # d => pc'[e] = pc[e]
    BY <1>2 DEF TypeOK, Truncate, WritePid, Bind, Load, LoadFails, Subscribe, Receive, Join,
                RemoveSocket, UnlinkPid, Goto, Owner, Starting, Serving, Stopping
  <2>3. pidAt \in Daemons /\ FileOf(d)
    BY <2>1, <2>2, OwnerHasFile DEF FileInv
  <2>4. ASSUME Truncate(d) PROVE FileOf(d)'
    BY <2>3, <2>4 DEF TypeOK, FileOf, Truncate, Goto, Serving, Stopping
  <2>5. ASSUME WritePid(d) PROVE FileOf(d)'
    BY <2>3, <2>5 DEF TypeOK, FileOf, WritePid, Goto, Serving, Stopping
  <2>6. ASSUME Bind(d) PROVE FileOf(d)'
    BY <2>3, <2>6 DEF TypeOK, FileOf, Bind, Goto, Serving, Stopping
  <2>7. ASSUME Load(d) \/ LoadFails(d) \/ Subscribe(d) PROVE FileOf(d)'
    BY <2>3, <2>7 DEF TypeOK, FileOf, Load, LoadFails, Subscribe, Goto, Serving, Stopping
  <2>8. ASSUME Receive(d) \/ Join(d) \/ RemoveSocket(d) PROVE FileOf(d)'
    BY <2>3, <2>8 DEF TypeOK, FileOf, Receive, Join, RemoveSocket, Goto, Serving, Stopping
  <2>9. ASSUME UnlinkPid(d) PROVE FileOf(d)'
    BY <2>9 DEF TypeOK, FileOf, UnlinkPid, Goto, Serving, Stopping
  <2>10. FileOf(d)'
    BY <1>2, <2>4, <2>5, <2>6, <2>7, <2>8, <2>9
  <2> QED
    BY <2>1, <2>2, <2>10, OwnerWrites
<1>3. ASSUME NEW d \in Daemons,
             \/ Flock(d) \/ FlockFails(d) \/ TruncateFails(d) \/ Close(d) \/ Exit(d)
             \/ Kill(d)
      PROVE  FileInv'
  BY <1>3, FilesUnchanged
     DEF TypeOK, Flock, FlockFails, TruncateFails, Close, Exit, Kill, Goto, Die
<1>4. ASSUME NEW d \in Daemons, Signal(d) PROVE FileInv'
  BY <1>4, FilesUnchanged DEF TypeOK, Signal, Deliver, Die
<1>5. ASSUME NEW d \in Daemons, NEW k \in Tasks, TaskEnds(d, k) PROVE FileInv'
  BY <1>5, FilesUnchanged DEF TaskEnds
<1>10. ASSUME NEW d \in Daemons, Handle(d) \/ HandleEnds(d) PROVE FileInv'
  BY <1>10, FilesUnchanged DEF Handle, HandleEnds
<1>6. ASSUME NEW c \in Daemons, StartStep(c) PROVE FileInv'
  BY <1>6, FilesUnchanged
     DEF TypeOK, StartStep, StartConnect, StartSpawn, Poll, PollTimeout, Hello, Goto
<1>7. ASSUME NEW c \in Stops,
             StopConnect(c) \/ Ask(c) \/ AskLost(c) \/ Stopped(c) \/ ReadPid(c)
      PROVE  FileInv'
  BY <1>7, FilesUnchanged DEF StopConnect, Ask, AskLost, Stopped, ReadPid
<1>8. ASSUME NEW c \in Stops, Sigterm(c) PROVE FileInv'
  BY <1>8, FilesUnchanged DEF TypeOK, Sigterm, Deliver, Die
<1>9. CASE UNCHANGED vars
  BY <1>9, FilesUnchanged DEF vars
<1> QED
  BY <1>1, <1>2, <1>3, <1>4, <1>5, <1>6, <1>7, <1>8, <1>9, <1>10
     DEF Next, MainStep, StopStep

-----------------------------------------------------------------------------
(* The theorems.                                                           *)

\* The inductive invariant holds from the start and for ever.
THEOREM Invariance == Spec => []IInv
<1>1. Init => IInv
  <2> SUFFICES ASSUME Init PROVE IInv
    OBVIOUS
  <2>1. \A d \in Daemons : pc[d] = "off" /\ tasks[d] = {} /\ ~told[d] /\ ~handling[d]
    BY DEF Init
  <2>2. LockInv /\ TaskInv /\ RequestInv /\ FileInv
    BY <2>1 DEF LockInv, TaskInv, RequestInv, FileInv, FileOf, Holds, Owner, Starting, Serving, Stopping
  <2> QED
    BY <2>2, TypeInit DEF IInv
<1>2. IInv /\ [Next]_vars => IInv'
  BY TypeStep, LockStep, TaskStep, RequestStep, FileStep DEF IInv
<1> QED
  BY <1>1, <1>2, PTL DEF Spec

\* The model is well typed.
THEOREM TypeCorrect == Spec => []TypeOK
<1>1. IInv => TypeOK
  BY DEF IInv
<1> QED
  BY <1>1, Invariance, PTL

\* However many daemons are started, killed and stopped, at most one at a time runs
\* on the store, and another still uses it only for requests left over from before it
\* gave up the pid file, unless a pid file was unlinked between an open and its flock.
THEOREM OneDaemon == Spec => []SoleDaemon
<1>1. IInv => SoleDaemon
  <2> SUFFICES ASSUME IInv, ~straggler, NEW d \in Daemons, NEW e \in Daemons, d # e,
                      Running(d), UsesStore(e)
               PROVE  pc[e] \in Leaving /\ tasks[e] = {}
    BY DEF SoleDaemon
  <2>1. \A f \in Daemons : Running(f) => Owner(f)
    BY DEF Running, Owner, Starting
  <2>2. ~Owner(e)
    BY <2>1, OneOwner DEF IInv
  <2>3. handling[e]
    BY <2>1, <2>2 DEF UsesStore
  <2>4. pc[e] \in Leaving
    BY <2>2, <2>3 DEF IInv, RequestInv, Begun, Owner
  <2>5. tasks[e] = {}
    BY <2>4 DEF IInv, TaskInv, Leaving, Serving
  <2> QED
    BY <2>4, <2>5
<1> QED
  BY <1>1, Invariance, PTL

\* A daemon that answers is still in front of the end of Join, and untold.
LEMMA AnswersServes ==
    ASSUME TaskInv, NEW d \in Daemons, Answers(d)
    PROVE  pc[d] \in Serving
BY DEF TaskInv, Answers

\* The socket file leads to the daemon that answers.
THEOREM SocketLeads == Spec => []SocketLeadsToServer
<1>1. IInv => SocketLeadsToServer
  <2> SUFFICES ASSUME IInv, ~straggler, NEW d \in Daemons, Answers(d) PROVE sock = d
    BY DEF SocketLeadsToServer
  <2>1. pc[d] \in Serving
    BY AnswersServes DEF IInv
  <2> QED
    BY <2>1 DEF IInv, FileInv, FileOf
<1> QED
  BY <1>1, Invariance, PTL

\* The pid file names the daemon that answers.
THEOREM PidFileNames == Spec => []PidFileNamesServer
<1>1. IInv => PidFileNamesServer
  <2> SUFFICES ASSUME IInv, ~straggler, NEW d \in Daemons, Answers(d)
               PROVE  pidAt # None /\ content[pidAt] = d
    BY DEF PidFileNamesServer
  <2>1. pc[d] \in Serving
    BY AnswersServes DEF IInv
  <2>2. pidAt \in Daemons
    BY <2>1, OwnerHasFile DEF IInv, Owner
  <2> QED
    BY <2>1, <2>2, DaemonAssumption DEF IInv, FileInv, FileOf
<1> QED
  BY <1>1, Invariance, PTL
===============================================================================
