-------------------------- MODULE TaskQueueProofs --------------------------
(***************************************************************************)
(* Theorems about TaskQueue.tla for any set of ids, jobs and clients, any  *)
(* choice of client calls, with and without crashes and database errors.   *)
(***************************************************************************)
EXTENDS TaskQueue, TLAPS

LEMMA Defaults == DefaultJob \in Job /\ DefaultId \in Id
  BY IdAssumption, JobAssumption DEF DefaultJob, DefaultId

---------------------------------------------------------------------------
\* The type invariant

LEMMA TypeInit == Init => TypeOK
<1> SUFFICES ASSUME Init PROVE TypeOK
  OBVIOUS
<1>1. rstate \in [Id -> RowState] /\ xstate \in [Id -> RowState]
  BY DEF Init, RowState
<1>2. rjob \in [Id -> Job] /\ xjob \in [Id -> Job] /\ cid \in [Client -> Id]
  BY Defaults DEF Init
<1>3. rfile \in [Id -> BOOLEAN] /\ xcancel \in [Id -> BOOLEAN]
  BY DEF Init
<1>4. idqueue \in Seq(Id) /\ inmap \subseteq Id /\ todo \subseteq Id
  BY DEF Init
<1>5. xpc \in [Id -> ExecutorPc] /\ mpc \in MainPc
  BY DEF Init, ExecutorPc, MainPc
<1>6. cpc \in [Client -> ClientPc]
  BY DEF Init, ClientPc
<1>7. /\ proc \in {"up", "crash", "abort", "segv", "exit"}
      /\ qstate \in QueueState
      /\ joinable \in BOOLEAN
  BY DEF Init, QueueState
<1> QED
  BY <1>1, <1>2, <1>3, <1>4, <1>5, <1>6, <1>7 DEF TypeOK

LEMMA TypeDie ==
  ASSUME NEW how \in {"crash", "abort", "segv", "exit"}, Die(how),
         rstate' \in [Id -> RowState], rjob' \in [Id -> Job], rfile' \in [Id -> BOOLEAN]
  PROVE  TypeOK'
<1>1. /\ proc' \in {"up", "crash", "abort", "segv", "exit"}
      /\ qstate' \in QueueState
      /\ joinable' \in BOOLEAN
  BY DEF Die, QueueState
<1>2. idqueue' \in Seq(Id) /\ inmap' \subseteq Id /\ todo' \subseteq Id
  BY DEF Die
<1>3. xpc' \in [Id -> ExecutorPc] /\ mpc' \in MainPc
  BY DEF Die, ExecutorPc, MainPc
<1>4. xstate' \in [Id -> RowState] /\ xcancel' \in [Id -> BOOLEAN]
  BY DEF Die, RowState
<1>5. xjob' \in [Id -> Job] /\ cid' \in [Client -> Id]
  BY Defaults DEF Die
<1>6. cpc' \in [Client -> ClientPc]
  BY DEF Die, ClientPc
<1> QED
  BY <1>1, <1>2, <1>3, <1>4, <1>5, <1>6 DEF TypeOK

LEMMA TypeNotified ==
  TypeOK => Notified \in MainPc /\ WaitersNotified \in [Client -> ClientPc]
  BY DEF TypeOK, Notified, WaitersNotified, MainPc, ClientPc

LEMMA TypeReap ==
  ASSUME TypeOK, idqueue # <<>>, Reap(Head(idqueue)) PROVE TypeOK'
<1>1. Head(idqueue) \in Id /\ Tail(idqueue) \in Seq(Id)
  BY DEF TypeOK
<1>2. cpc' \in [Client -> ClientPc]
  BY TypeNotified DEF Reap, ClientPc
<1>3. xpc' \in [Id -> ExecutorPc] /\ xstate' \in [Id -> RowState]
  BY DEF Reap, TypeOK, ExecutorPc, RowState
<1>4. xjob' \in [Id -> Job] /\ xcancel' \in [Id -> BOOLEAN]
  BY Defaults DEF Reap, TypeOK
<1> QED
  BY <1>1, <1>2, <1>3, <1>4 DEF Reap, TypeOK, table, main

LEMMA TypeMain == TypeOK /\ Main => TypeOK'
<1> SUFFICES ASSUME TypeOK, Main PROVE TypeOK'
  OBVIOUS
<1> USE DEF table, executors, queue, main, clients
<1>1. CASE MainAcquire
  BY <1>1 DEF MainAcquire, TypeOK, MainPc
<1>2. CASE MainCleanup
  BY <1>2, TypeReap, TypeDie DEF MainCleanup, TypeOK
<1>3. CASE MainCheck
  BY <1>3, TypeNotified DEF MainCheck, TypeOK, MainPc, QueueState, Pending
<1>4. CASE MainWait
  BY <1>4 DEF MainWait, TypeOK, MainPc
<1>5. CASE MainFault
  BY <1>5 DEF MainFault, TypeOK, MainPc
<1>6. ASSUME NEW i \in Id, MainSkipBlocked(i) PROVE TypeOK'
  BY <1>6 DEF MainSkipBlocked, TypeOK
<1>7. ASSUME NEW i \in Id, MainLaunch(i) PROVE TypeOK'
  BY <1>7 DEF MainLaunch, TypeOK, MainPc, ExecutorPc, RowState
<1>8. ASSUME NEW i \in Id, MainLaunchFails(i) PROVE TypeOK'
  BY <1>8 DEF MainLaunchFails, TypeOK, RowState, Ended
<1> QED
  BY <1>1, <1>2, <1>3, <1>4, <1>5, <1>6, <1>7, <1>8 DEF Main

LEMMA TypeWriteRow ==
  ASSUME TypeOK, NEW i \in Id, NEW s \in RowState, NEW f \in BOOLEAN, WriteRow(i, s, f)
  PROVE  rstate' \in [Id -> RowState] /\ rfile' \in [Id -> BOOLEAN]
  BY DEF WriteRow, TypeOK

LEMMA TypeExecutor == ASSUME TypeOK, NEW i \in Id, Executor(i) PROVE TypeOK'
<1> USE DEF queue, main, clients
<1>1. CASE PostExecuting(i)
  <2>1. rstate' \in [Id -> RowState] /\ rfile' \in [Id -> BOOLEAN]
    BY <1>1, TypeWriteRow DEF PostExecuting, RowState
  <2> QED
    BY <1>1, <2>1 DEF PostExecuting, TypeOK, ExecutorPc
<1>2. CASE RunEnds(i)
  BY <1>2 DEF RunEnds, Outcome, TypeOK, ExecutorPc, RowState, Ended, table
<1>3. CASE PostEnded(i)
  <2>1. rstate' \in [Id -> RowState] /\ rfile' \in [Id -> BOOLEAN]
    BY <1>3, TypeWriteRow DEF PostEnded, TypeOK
  <2>2. Append(idqueue, i) \in Seq(Id) /\ idqueue \in Seq(Id) /\ mpc \in MainPc
    BY DEF TypeOK
  <2>3. idqueue' \in Seq(Id) /\ mpc' \in MainPc
    BY <1>3, <2>2, TypeNotified DEF PostEnded
  <2> QED
    BY <1>3, <2>1, <2>3 DEF PostEnded, TypeOK, ExecutorPc
<1>4. CASE PostFaults(i)
  BY <1>4 DEF PostFaults, TypeOK, ExecutorPc, RowState, Ended, table
<1> QED
  BY <1>1, <1>2, <1>3, <1>4 DEF Executor

LEMMA TypeVisited ==
  ASSUME TypeOK
  PROVE  \A n \in Id :
           [i \in Id |-> IF i < n /\ i \in Visited \ Signalled THEN "cancelled" ELSE rstate[i]]
             \in [Id -> RowState]
  BY DEF TypeOK, RowState, Ended

LEMMA TypeCancelExecutors ==
  ASSUME TypeOK, CancelExecutors
  PROVE  rstate' \in [Id -> RowState] /\ xcancel' \in [Id -> BOOLEAN]
  BY DEF CancelExecutors, TypeOK, RowState, Ended

LEMMA TypeCancelExecutorsDies == TypeOK /\ CancelExecutorsDies => TypeOK'
<1> SUFFICES ASSUME TypeOK, CancelExecutorsDies PROVE TypeOK'
  OBVIOUS
<1>1. rstate' \in [Id -> RowState]
  <2>1. Signalled \subseteq Id
    BY DEF Signalled, Visited, TypeOK
  <2> QED
    BY <2>1, TypeVisited DEF CancelExecutorsDies
<1> QED
  BY <1>1, TypeDie DEF CancelExecutorsDies, TypeOK

LEMMA TypeReturn ==
  ASSUME TypeOK, NEW c \in Client, Return(c)
  PROVE  cpc' \in [Client -> ClientPc] /\ cid' \in [Client -> Id]
  BY Defaults DEF TypeOK, Return, ClientPc

LEMMA TypeCall == ASSUME TypeOK, NEW c \in Client, Call(c) PROVE TypeOK'
<1> USE DEF table, executors, queue, main, clients
<1>1. CASE Start(c)
  <2>1. CASE Die("abort") /\ UNCHANGED table
    BY <2>1, TypeDie DEF TypeOK
  <2>2. CASE ~(Die("abort") /\ UNCHANGED table)
    BY <1>1, <2>2, TypeNotified DEF Start, TypeOK, QueueState, MainPc
  <2> QED
    BY <2>1, <2>2
<1>2. CASE Stop(c)
  BY <1>2, TypeNotified DEF Stop, StopState, TypeOK, QueueState
<1>3. CASE Submit(c)
  BY <1>3, TypeNotified DEF Submit, TypeOK, RowState
<1>4. CASE CancelRead(c)
  BY <1>4 DEF CancelRead, TypeOK, ClientPc
<1>5. CASE CancelAll(c)
  BY <1>5, TypeCancelExecutors, TypeCancelExecutorsDies DEF CancelAll, TypeOK
<1>6. CASE RemoveCheck(c)
  BY <1>6 DEF RemoveCheck, TypeOK, ClientPc
<1>7. CASE Wait(c)
  BY <1>7 DEF Wait, TypeOK, ClientPc
<1>8. CASE Shutdown(c)
  BY <1>8, TypeNotified DEF Shutdown, TypeOK, ClientPc, QueueState
<1>9. CASE Destroy(c)
  <2>1. CASE qstate = "idle" /\ Die("exit") /\ UNCHANGED table
    BY <2>1, TypeDie DEF TypeOK
  <2>2. CASE /\ CancelExecutors
             /\ qstate' = IF StopState = "stopped" THEN "idle" ELSE StopState
             /\ mpc' = Notified
             /\ cpc' = [cpc EXCEPT ![c] = IF StopState = "stopped" THEN "destroyJoin"
                                          ELSE "destroyWait"]
             /\ UNCHANGED <<rjob, rfile, proc, joinable, idqueue, inmap, xpc, xstate,
                            xjob, todo, cid>>
    BY <2>2, TypeNotified, TypeCancelExecutors
    DEF StopState, TypeOK, ClientPc, QueueState
  <2>3. CASE /\ rstate' = [i \in Id |-> IF i \in Visited \ Signalled THEN "cancelled"
                                        ELSE rstate[i]]
             /\ Die("abort")
             /\ UNCHANGED <<rjob, rfile>>
    <3>1. rstate' \in [Id -> RowState]
      BY <2>3 DEF TypeOK, RowState, Ended
    <3> QED
      BY <2>3, <3>1, TypeDie DEF TypeOK
  <2> QED
    BY <1>9, <2>1, <2>2, <2>3, TypeCancelExecutorsDies DEF Destroy
<1> QED
  BY <1>1, <1>2, <1>3, <1>4, <1>5, <1>6, <1>7, <1>8, <1>9 DEF Call

LEMMA TypeContinue == ASSUME TypeOK, NEW c \in Client, Continue(c) PROVE TypeOK'
<1> USE DEF table, executors, queue, main, clients
<1>1. CASE CancelPending(c)
  <2>1. cid[c] \in Id
    BY DEF TypeOK
  <2>2. rstate' \in [Id -> RowState] /\ rfile' \in [Id -> BOOLEAN]
    BY <1>1, <2>1, TypeWriteRow DEF CancelPending, RowState, Ended
  <2> QED
    BY <1>1, <2>2, TypeReturn DEF CancelPending, TypeOK
<1>2. CASE CancelFind(c)
  BY <1>2, TypeReturn DEF CancelFind, TypeOK, ClientPc
<1>3. CASE CancelSignal(c)
  BY <1>3, TypeReturn, TypeDie DEF CancelSignal, TypeOK
<1>4. CASE CancelDangling(c)
  BY <1>4, TypeReturn, TypeDie DEF CancelDangling, TypeOK
<1>5. CASE RemoveLocked(c)
  BY <1>5, TypeReturn, Defaults DEF RemoveLocked, TypeOK, RowState
<1>6. CASE WaitResume(c)
  BY <1>6 DEF WaitResume, TypeOK, ClientPc
<1>7. CASE ShutdownJoin(c)
  BY <1>7 DEF ShutdownJoin, TypeOK, ClientPc, MainPc
<1>8. CASE DestroyJoin(c)
  BY <1>8, TypeDie DEF DestroyJoin, TypeOK
<1> QED
  BY <1>1, <1>2, <1>3, <1>4, <1>5, <1>6, <1>7, <1>8 DEF Continue

LEMMA TypeProcess ==
  TypeOK /\ (SpuriousWakeup \/ Crash \/ Restart \/ RestartFaults) => TypeOK'
<1> SUFFICES ASSUME TypeOK, SpuriousWakeup \/ Crash \/ Restart \/ RestartFaults
             PROVE  TypeOK'
  OBVIOUS
<1> USE DEF table, executors, queue, main, clients
<1>1. CASE SpuriousWakeup
  BY <1>1 DEF SpuriousWakeup, TypeOK, MainPc, ClientPc
<1>2. CASE Crash
  BY <1>2, TypeDie DEF Crash, TypeOK
<1>3. CASE Restart
  BY <1>3 DEF Restart, Recovered, TypeOK, RowState, Ended
<1>4. CASE RestartFaults
  BY <1>4 DEF RestartFaults, TypeOK
<1> QED
  BY <1>1, <1>2, <1>3, <1>4

LEMMA TypeStutter == TypeOK /\ UNCHANGED vars => TypeOK'
  BY DEF TypeOK, vars, table, executors, queue, main, clients

\* The state of the queue, of its threads and of the task table is always of
\* its type: the code never stores a state its state diagram does not have.
THEOREM TypeCorrect == Spec => []TypeOK
<1>1. TypeOK /\ [Next]_vars => TypeOK'
  BY TypeMain, TypeExecutor, TypeCall, TypeContinue, TypeProcess, TypeStutter DEF Next
<1> QED
  BY TypeInit, <1>1, PTL DEF Spec

---------------------------------------------------------------------------
\* Devices are exclusive, and an idle or stopped queue is quiet.
\*
\* ResourceExclusion is not inductive: launch() compares a job with every
\* executor that has not failed or been cancelled, also with those that are
\* complete, so it is their jobs that never conflict.  QuietWhenStopped needs
\* to know that a launch pass is only under way while the queue is launching.

Blocking == {i \in inmap : xstate[i] \notin {"failed", "cancelled"}}

Exclusive ==
  /\ \A i, k \in Blocking : i # k => ~Conflict(xjob[i], xjob[k])
  /\ Holders \subseteq Blocking

LaunchPass == todo # {} => qstate = "launching" /\ mpc \in {"launching", "stuck"}

SafeInv == TypeOK /\ Exclusive /\ LaunchPass /\ QuietWhenStopped

LEMMA ShareConflict == ASSUME NEW j, NEW k, ShareDevice(j, k) PROVE Conflict(j, k)
  BY DEF ShareDevice, Conflict

LEMMA ConflictSymmetric == ASSUME NEW j, NEW k, Conflict(j, k) PROVE Conflict(k, j)
  BY DEF Conflict

LEMMA SafeInit == Init => SafeInv
<1> SUFFICES ASSUME Init PROVE SafeInv
  OBVIOUS
<1>1. inmap = {} /\ todo = {}
  BY DEF Init
<1> QED
  BY <1>1, TypeInit DEF SafeInv, Exclusive, Blocking, Holders, LaunchPass, QuietWhenStopped

LEMMA SafeDie ==
  ASSUME NEW how, Die(how)
  PROVE  Exclusive' /\ LaunchPass' /\ QuietWhenStopped'
<1>1. inmap' = {} /\ todo' = {}
  BY DEF Die
<1> QED
  BY <1>1 DEF Exclusive, Blocking, Holders, LaunchPass, QuietWhenStopped

\* A step that leaves the executors alone keeps Exclusive.
LEMMA ExclusiveFrame ==
  ASSUME Exclusive, UNCHANGED <<inmap, xpc, xstate, xjob>> PROVE Exclusive'
  BY DEF Exclusive, Blocking, Holders

\* A step that leaves the queue thread and the state of the queue alone and
\* launches nothing keeps the other two.
LEMMA QuietFrame ==
  ASSUME LaunchPass, QuietWhenStopped, UNCHANGED <<qstate, todo, mpc>>, inmap' \subseteq inmap
  PROVE  LaunchPass' /\ QuietWhenStopped'
  BY DEF LaunchPass, QuietWhenStopped

\* While the mutex is free no launch pass is under way.
LEMMA FreeNoPass == SafeInv /\ LockFree => todo = {}
  BY DEF SafeInv, LaunchPass, LockFree

LEMMA SafeMain == SafeInv /\ Main => Exclusive' /\ LaunchPass' /\ QuietWhenStopped'
<1> SUFFICES ASSUME SafeInv, Main
             PROVE  Exclusive' /\ LaunchPass' /\ QuietWhenStopped'
  OBVIOUS
<1> USE DEF table, executors, queue, main, clients, SafeInv
<1>1. CASE MainAcquire
  BY <1>1, ExclusiveFrame, FreeNoPass DEF MainAcquire, LaunchPass, QuietWhenStopped
<1>2. CASE MainCleanup
  <2>1. CASE Reap(Head(idqueue))
    <3>1. /\ inmap' = inmap \ {Head(idqueue)}
          /\ \A k \in inmap' : /\ xpc'[k] = xpc[k]
                               /\ xstate'[k] = xstate[k]
                               /\ xjob'[k] = xjob[k]
      BY <2>1 DEF Reap, TypeOK
    <3>2. Exclusive'
      BY <3>1 DEF Exclusive, Blocking, Holders
    <3> QED
      BY <2>1, <3>1, <3>2, QuietFrame DEF Reap
  <2> QED
    BY <1>2, <2>1, SafeDie DEF MainCleanup
<1>3. CASE MainCheck
  BY <1>3, ExclusiveFrame DEF MainCheck, LaunchPass, QuietWhenStopped, Pending
<1>4. CASE MainWait
  BY <1>4, ExclusiveFrame DEF MainWait, LaunchPass, QuietWhenStopped
<1>5. CASE MainFault
  BY <1>5, ExclusiveFrame DEF MainFault, LaunchPass, QuietWhenStopped
<1>6. ASSUME NEW i \in Id, MainSkipBlocked(i)
      PROVE  Exclusive' /\ LaunchPass' /\ QuietWhenStopped'
  BY <1>6, ExclusiveFrame DEF MainSkipBlocked, LaunchPass, QuietWhenStopped
<1>7. ASSUME NEW i \in Id, MainLaunch(i)
      PROVE  Exclusive' /\ LaunchPass' /\ QuietWhenStopped'
  <2>1. qstate = "launching" /\ mpc = "launching"
    BY <1>7 DEF MainLaunch, NextTodo, LaunchPass
  <2>2. CASE i \in inmap
    BY <1>7, <2>1, <2>2, ExclusiveFrame DEF MainLaunch, LaunchPass, QuietWhenStopped
  <2>3. CASE i \notin inmap
    <3>1. /\ inmap' = inmap \cup {i}
          /\ xstate'[i] = "executing" /\ xjob'[i] = rjob[i]
          /\ \A k \in inmap : /\ xpc'[k] = xpc[k]
                              /\ xstate'[k] = xstate[k]
                              /\ xjob'[k] = xjob[k]
      BY <1>7, <2>3 DEF MainLaunch, TypeOK
    <3>2. \A k \in Blocking : ~Conflict(xjob[k], rjob[i])
      BY <1>7 DEF MainLaunch, Blocked, Blocks, Blocking
    <3>3. Exclusive'
      <4>1. Blocking' = Blocking \cup {i}
        BY <3>1, <2>3 DEF Blocking
      <4>2. ASSUME NEW k \in Blocking', NEW l \in Blocking', k # l
            PROVE  ~Conflict(xjob'[k], xjob'[l])
        BY <3>1, <3>2, <4>1, <4>2, <2>3, ConflictSymmetric DEF Exclusive, Blocking
      <4>3. Holders' \subseteq Blocking'
        BY <3>1, <4>1 DEF Exclusive, Holders
      <4> QED
        BY <4>2, <4>3 DEF Exclusive, Conflict
    <3> QED
      BY <1>7, <2>1, <2>3, <3>3 DEF MainLaunch, LaunchPass, QuietWhenStopped
  <2> QED
    BY <2>2, <2>3
<1>8. ASSUME NEW i \in Id, MainLaunchFails(i)
      PROVE  Exclusive' /\ LaunchPass' /\ QuietWhenStopped'
  BY <1>8, ExclusiveFrame DEF MainLaunchFails, LaunchPass, QuietWhenStopped
<1> QED
  BY <1>1, <1>2, <1>3, <1>4, <1>5, <1>6, <1>7, <1>8 DEF Main

LEMMA SafeExecutor ==
  ASSUME SafeInv, NEW i \in Id, Executor(i)
  PROVE  Exclusive' /\ LaunchPass' /\ QuietWhenStopped'
<1> USE DEF queue, main, clients, SafeInv
<1>1. /\ inmap' = inmap /\ xjob' = xjob /\ qstate' = qstate /\ todo' = todo
      /\ \A k \in Id : k # i => xpc'[k] = xpc[k] /\ xstate'[k] = xstate[k]
  BY DEF Executor, PostExecuting, RunEnds, PostEnded, PostFaults, TypeOK
<1>2. /\ xstate'[i] = xstate[i] \/ xpc[i] \in {"posting", "running"}
      /\ xpc'[i] = "running" => xpc[i] = "posting" /\ xstate'[i] = xstate[i]
      /\ xpc'[i] # "posting"
  BY DEF Executor, PostExecuting, RunEnds, PostEnded, PostFaults, TypeOK
<1>3. Blocking' \subseteq Blocking /\ Holders' \subseteq Holders
  BY <1>1, <1>2 DEF Exclusive, Blocking, Holders, TypeOK
<1>4. Holders' \subseteq Blocking'
  BY <1>1, <1>2, <1>3 DEF Exclusive, Blocking, Holders, TypeOK
<1>5. Exclusive'
  BY <1>1, <1>3, <1>4 DEF Exclusive, Conflict
<1>6. mpc' = mpc \/ todo = {}
  BY FreeNoPass DEF Executor, PostExecuting, RunEnds, PostEnded, PostFaults
<1> QED
  BY <1>1, <1>5, <1>6 DEF LaunchPass, QuietWhenStopped

LEMMA SafeCall ==
  ASSUME SafeInv, NEW c \in Client, Call(c)
  PROVE  Exclusive' /\ LaunchPass' /\ QuietWhenStopped'
<1> USE DEF table, executors, queue, main, clients, SafeInv
<1>1. CASE Start(c)
  BY <1>1, SafeDie, ExclusiveFrame, FreeNoPass DEF Start, LaunchPass, QuietWhenStopped
<1>2. CASE Stop(c)
  BY <1>2, ExclusiveFrame, FreeNoPass DEF Stop, StopState, LaunchPass, QuietWhenStopped
<1>3. CASE Submit(c)
  BY <1>3, ExclusiveFrame, FreeNoPass DEF Submit, LaunchPass, QuietWhenStopped
<1>4. CASE CancelRead(c)
  BY <1>4, ExclusiveFrame, QuietFrame DEF CancelRead
<1>5. CASE CancelAll(c)
  BY <1>5, SafeDie, ExclusiveFrame, QuietFrame DEF CancelAll, CancelExecutorsDies
<1>6. CASE RemoveCheck(c)
  BY <1>6, ExclusiveFrame, QuietFrame DEF RemoveCheck
<1>7. CASE Wait(c)
  BY <1>7, ExclusiveFrame, QuietFrame DEF Wait
<1>8. CASE Shutdown(c)
  BY <1>8, ExclusiveFrame, FreeNoPass DEF Shutdown, LaunchPass, QuietWhenStopped
<1>9. CASE Destroy(c)
  BY <1>9, SafeDie, ExclusiveFrame, FreeNoPass
  DEF Destroy, StopState, CancelExecutorsDies, LaunchPass, QuietWhenStopped
<1> QED
  BY <1>1, <1>2, <1>3, <1>4, <1>5, <1>6, <1>7, <1>8, <1>9 DEF Call

LEMMA SafeContinue ==
  ASSUME SafeInv, NEW c \in Client, Continue(c)
  PROVE  Exclusive' /\ LaunchPass' /\ QuietWhenStopped'
<1> USE DEF table, executors, queue, main, clients, SafeInv
<1>1. CASE CancelPending(c)
  BY <1>1, ExclusiveFrame, QuietFrame DEF CancelPending
<1>2. CASE CancelFind(c)
  BY <1>2, ExclusiveFrame, QuietFrame DEF CancelFind
<1>3. CASE CancelSignal(c)
  BY <1>3, SafeDie, ExclusiveFrame, QuietFrame DEF CancelSignal
<1>4. CASE CancelDangling(c)
  BY <1>4, SafeDie, ExclusiveFrame, QuietFrame DEF CancelDangling
<1>5. CASE RemoveLocked(c)
  BY <1>5, ExclusiveFrame, QuietFrame DEF RemoveLocked
<1>6. CASE WaitResume(c)
  BY <1>6, ExclusiveFrame, QuietFrame DEF WaitResume
<1>7. CASE ShutdownJoin(c)
  BY <1>7, ExclusiveFrame DEF ShutdownJoin, LaunchPass, QuietWhenStopped
<1>8. CASE DestroyJoin(c)
  BY <1>8, SafeDie DEF DestroyJoin
<1> QED
  BY <1>1, <1>2, <1>3, <1>4, <1>5, <1>6, <1>7, <1>8 DEF Continue

LEMMA SafeProcess ==
  SafeInv /\ (SpuriousWakeup \/ Crash \/ Restart \/ RestartFaults)
    => Exclusive' /\ LaunchPass' /\ QuietWhenStopped'
<1> SUFFICES ASSUME SafeInv, SpuriousWakeup \/ Crash \/ Restart \/ RestartFaults
             PROVE  Exclusive' /\ LaunchPass' /\ QuietWhenStopped'
  OBVIOUS
<1> USE DEF table, executors, queue, main, clients, SafeInv
<1>1. CASE SpuriousWakeup
  BY <1>1, ExclusiveFrame DEF SpuriousWakeup, LaunchPass, QuietWhenStopped
<1>2. CASE Crash
  BY <1>2, SafeDie DEF Crash
<1>3. CASE Restart
  BY <1>3, ExclusiveFrame, QuietFrame DEF Restart
<1>4. CASE RestartFaults
  BY <1>4, ExclusiveFrame, QuietFrame DEF RestartFaults
<1> QED
  BY <1>1, <1>2, <1>3, <1>4

\* The inductive invariant: types, exclusive use of devices by every executor that
\* is still in the map and blocks (also in the middle of a launch pass), and no
\* executor in state idle or stopped (TaskQueue::launch, TaskQueue::stop).
THEOREM Safe == Spec => []SafeInv
<1>1. SafeInv /\ [Next]_vars => SafeInv'
  <2> SUFFICES ASSUME SafeInv, [Next]_vars PROVE SafeInv'
    OBVIOUS
  <2>1. TypeOK'
    BY TypeMain, TypeExecutor, TypeCall, TypeContinue, TypeProcess, TypeStutter
    DEF Next, SafeInv
  <2>2. CASE UNCHANGED vars
    BY <2>1, <2>2, ExclusiveFrame, QuietFrame
    DEF SafeInv, vars, table, executors, queue, main, clients
  <2>3. CASE Next
    BY <2>1, <2>3, SafeMain, SafeExecutor, SafeCall, SafeContinue, SafeProcess
    DEF Next, SafeInv
  <2> QED
    BY <2>2, <2>3
<1> QED
  BY SafeInit, <1>1, PTL DEF Spec

\* For any number of tasks, whatever devices they name and whatever clients,
\* crashes and database errors do, no device ever has two executors that may
\* use it (TaskQueue::launch, TaskQueueEntry::blocks).
THEOREM ResourcesExclusive == Spec => []ResourceExclusion
<1>1. SafeInv => ResourceExclusion
  BY ShareConflict DEF SafeInv, Exclusive, ResourceExclusion
<1> QED
  BY Safe, <1>1, PTL

\* A task queue in state idle or stopped has no executor (TaskQueue::stop,
\* TaskQueue::main, TaskQueue::shutdown).
THEOREM StoppedIsQuiet == Spec => []QuietWhenStopped
  BY Safe, PTL DEF SafeInv
=============================================================================
