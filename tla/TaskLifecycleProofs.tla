------------------------- MODULE TaskLifecycleProofs -------------------------
(***************************************************************************)
(* More theorems about TaskQueue.tla: rows, executors and the cleanup      *)
(* queue keep in step, and the queue implements TaskLifecycle.tla.         *)
(*                                                                         *)
(* The theorems are ordered by what they exclude: the first for all        *)
(* constants, then without database errors, then without remove() too.     *)
(* The refinement, for all constants again, uses all of them: what it says *)
(* of a row depends on whether rows can be removed and the database fails. *)
(***************************************************************************)
EXTENDS TaskQueueProofs, SequenceTheorems

---------------------------------------------------------------------------
\* For every choice of the constants

\* An executor has a thread if and only if it is in the map.
Attached == \A i \in Id : i \in inmap <=> xpc[i] # "none"

\* The ids left to a launch pass are still pending: whatever changes a row
\* needs the mutex that the queue thread holds.
PassPending == todo \subseteq Pending

\* A process that has ended has no threads.
Down == proc # "up" => inmap = {} /\ mpc = "none"

TableInv == Attached /\ PassPending /\ Down

LEMMA TableDie == ASSUME NEW how, Die(how) PROVE TableInv'
  BY DEF Die, TableInv, Attached, PassPending, Down

\* A step of a thread that changes none of the executors and does not touch
\* the rows of a launch pass.
LEMMA TableFrame ==
  ASSUME TableInv, UNCHANGED <<inmap, xpc, todo>>, todo = {} \/ UNCHANGED rstate,
         (proc' = proc /\ (proc # "up" => mpc' = mpc)) \/ proc' = "up"
  PROVE  TableInv'
  BY DEF TableInv, Attached, PassPending, Down, Pending

LEMMA TableMain == SafeInv /\ TableInv /\ Main => TableInv'
<1> SUFFICES ASSUME SafeInv, TableInv, Main PROVE TableInv'
  OBVIOUS
<1> USE DEF table, executors, queue, main, clients
<1>1. CASE MainAcquire
  BY <1>1, TableFrame DEF MainAcquire, TableInv, Down
<1>2. CASE MainCleanup
  <2>1. CASE Reap(Head(idqueue))
    BY <1>2, <2>1 DEF MainCleanup, Reap, TableInv, Attached, PassPending, Down, Pending, SafeInv, TypeOK
  <2> QED
    BY <1>2, <2>1, TableDie DEF MainCleanup
<1>3. CASE MainCheck
  BY <1>3 DEF MainCheck, TableInv, Attached, PassPending, Down, Pending
<1>4. CASE MainWait
  BY <1>4, TableFrame DEF MainWait, TableInv, Down
<1>5. CASE MainFault
  BY <1>5 DEF MainFault, TableInv, Attached, PassPending, Down
<1>6. ASSUME NEW i \in Id, MainSkipBlocked(i) PROVE TableInv'
  BY <1>6 DEF MainSkipBlocked, TableInv, Attached, PassPending, Down, Pending
<1>7. ASSUME NEW i \in Id, MainLaunch(i) PROVE TableInv'
  BY <1>7 DEF MainLaunch, TableInv, Attached, PassPending, Down, Pending, SafeInv, TypeOK
<1>8. ASSUME NEW i \in Id, MainLaunchFails(i) PROVE TableInv'
  BY <1>8 DEF MainLaunchFails, TableInv, Attached, PassPending, Down, Pending, SafeInv, TypeOK
<1> QED
  BY <1>1, <1>2, <1>3, <1>4, <1>5, <1>6, <1>7, <1>8 DEF Main

LEMMA TableExecutor == ASSUME SafeInv, TableInv, NEW i \in Id, Executor(i) PROVE TableInv'
<1> USE DEF table, queue, main, clients
<1>1. /\ UNCHANGED <<inmap, proc, todo>>
      /\ xpc[i] # "none" /\ xpc'[i] # "none"
      /\ \A k \in Id : k # i => xpc'[k] = xpc[k]
  BY DEF Executor, PostExecuting, RunEnds, PostEnded, PostFaults, SafeInv, TypeOK
<1>2. Attached'
  BY <1>1 DEF TableInv, Attached
<1>3. PassPending'
  <2>1. todo = {} \/ UNCHANGED rstate
    BY FreeNoPass DEF Executor, PostExecuting, RunEnds, PostEnded, PostFaults
  <2> QED
    BY <1>1, <2>1 DEF TableInv, PassPending, Pending
<1>4. Down'
  <2>1. inmap # {}
    BY <1>1 DEF TableInv, Attached
  <2> QED
    BY <1>1, <2>1 DEF TableInv, Down
<1> QED
  BY <1>2, <1>3, <1>4 DEF TableInv

LEMMA TableCall == ASSUME SafeInv, TableInv, NEW c \in Client, Call(c) PROVE TableInv'
<1> USE DEF table, executors, queue, main, clients, Ready
<1>1. CASE Start(c)
  BY <1>1, TableDie, TableFrame DEF Start
<1>2. CASE Stop(c)
  BY <1>2, TableFrame DEF Stop
<1>3. CASE Submit(c)
  BY <1>3, TableFrame, FreeNoPass DEF Submit
<1>4. CASE CancelRead(c)
  BY <1>4, TableFrame DEF CancelRead
<1>5. CASE CancelAll(c)
  BY <1>5, TableDie, TableFrame, FreeNoPass DEF CancelAll, CancelExecutorsDies
<1>6. CASE RemoveCheck(c)
  BY <1>6, TableFrame DEF RemoveCheck
<1>7. CASE Wait(c)
  BY <1>7, TableFrame DEF Wait
<1>8. CASE Shutdown(c)
  BY <1>8, TableFrame DEF Shutdown
<1>9. CASE Destroy(c)
  BY <1>9, TableDie, TableFrame, FreeNoPass DEF Destroy, CancelExecutorsDies
<1> QED
  BY <1>1, <1>2, <1>3, <1>4, <1>5, <1>6, <1>7, <1>8, <1>9 DEF Call

LEMMA TableContinue == ASSUME SafeInv, TableInv, NEW c \in Client, Continue(c) PROVE TableInv'
<1> USE DEF table, executors, queue, main, clients
<1>1. CASE CancelPending(c)
  BY <1>1, TableFrame, FreeNoPass DEF CancelPending
<1>2. CASE CancelFind(c)
  BY <1>2, TableFrame DEF CancelFind
<1>3. CASE CancelSignal(c)
  BY <1>3, TableDie, TableFrame DEF CancelSignal
<1>4. CASE CancelDangling(c)
  BY <1>4, TableDie, TableFrame DEF CancelDangling
<1>5. CASE RemoveLocked(c)
  BY <1>5, TableFrame, FreeNoPass DEF RemoveLocked
<1>6. CASE WaitResume(c)
  BY <1>6, TableFrame DEF WaitResume
<1>7. CASE ShutdownJoin(c)
  BY <1>7, TableFrame DEF ShutdownJoin, TableInv, Down
<1>8. CASE DestroyJoin(c)
  BY <1>8, TableDie DEF DestroyJoin
<1> QED
  BY <1>1, <1>2, <1>3, <1>4, <1>5, <1>6, <1>7, <1>8 DEF Continue

LEMMA TableProcess ==
  SafeInv /\ TableInv /\ (SpuriousWakeup \/ Crash \/ Restart \/ RestartFaults) => TableInv'
<1> SUFFICES ASSUME SafeInv, TableInv, SpuriousWakeup \/ Crash \/ Restart \/ RestartFaults
             PROVE  TableInv'
  OBVIOUS
<1> USE DEF table, executors, queue, main, clients
<1>1. CASE SpuriousWakeup
  BY <1>1, TableFrame DEF SpuriousWakeup, TableInv, Down
<1>2. CASE Crash
  BY <1>2, TableDie DEF Crash
<1>3. CASE Restart
  BY <1>3 DEF Restart, Recovered, TableInv, Attached, PassPending, Down, Pending, SafeInv, TypeOK
<1>4. CASE RestartFaults
  BY <1>4, TableFrame DEF RestartFaults
<1> QED
  BY <1>1, <1>2, <1>3, <1>4

\* Executors have their threads, a launch pass only looks at pending rows, and a
\* process that has ended has none of them (TaskQueue::launch, TaskQueue::cleanup).
THEOREM TableCorrect == Spec => []TableInv
<1>1. Init => TableInv
  BY DEF Init, TableInv, Attached, PassPending, Down
<1>2. SafeInv /\ TableInv /\ [Next]_vars => TableInv'
  <2>1. SafeInv /\ TableInv /\ UNCHANGED vars => TableInv'
    BY TableFrame DEF vars, table, executors, queue, main, clients
  <2> QED
    BY <2>1, TableMain, TableExecutor, TableCall, TableContinue, TableProcess DEF Next
<1> QED
  BY Safe, <1>1, <1>2, PTL DEF Spec

---------------------------------------------------------------------------
\* What was cleaned up after stays as it is

Revives(i) == rstate[i] \in Ended /\ i \notin inmap /\ rstate'[i] # rstate[i]
LateCancel(i) == \E c \in Client : cid[c] = i /\ cpc[c] = "cancelPending"

LEMMA ReapedStep ==
  ASSUME SafeInv, TableInv, [Next]_vars, NEW i \in Id, Revives(i)
  PROVE  rstate'[i] = "absent" \/ LateCancel(i)
<1> USE DEF table, Revives
<1>1. ASSUME Main PROVE FALSE
  BY <1>1 DEF Main, MainAcquire, MainCleanup, Reap, MainCheck, MainWait, MainFault,
              MainSkipBlocked, MainLaunch, MainLaunchFails, TableInv, PassPending, Pending,
              NextTodo, Ended, SafeInv, TypeOK
<1>2. ASSUME NEW k \in Id, Executor(k) PROVE FALSE
  <2>1. xpc[k] # "none" /\ k \in inmap
    BY <1>2 DEF Executor, PostExecuting, RunEnds, PostEnded, PostFaults, TableInv, Attached
  <2> QED
    BY <1>2, <2>1 DEF Executor, PostExecuting, RunEnds, PostEnded, PostFaults, WriteRow,
                      SafeInv, TypeOK
<1>3. ASSUME NEW c \in Client, Call(c) PROVE FALSE
  <2>1. CASE Submit(c)
    <3>1. PICK k \in Id : NextId(k) /\ rstate' = [rstate EXCEPT ![k] = "pending"]
      BY <2>1 DEF Submit
    <3>2. rstate[k] = "absent"
      BY <3>1, IdAssumption DEF NextId
    <3> QED
      BY <3>1, <3>2 DEF Ended, SafeInv, TypeOK
  <2>2. CASE CancelAll(c)
    BY <2>2 DEF CancelAll, CancelExecutors, CancelExecutorsDies, Visited, SafeInv, TypeOK
  <2>3. CASE Destroy(c)
    BY <2>3 DEF Destroy, CancelExecutors, CancelExecutorsDies, Visited, SafeInv, TypeOK
  <2> QED
    BY <1>3, <2>1, <2>2, <2>3 DEF Call, Start, Stop, CancelRead, RemoveCheck, Wait, Shutdown
<1>4. ASSUME NEW c \in Client, Continue(c) PROVE rstate'[i] = "absent" \/ LateCancel(i)
  <2>1. CASE CancelPending(c)
    BY <2>1 DEF CancelPending, WriteRow, LateCancel, SafeInv, TypeOK
  <2>2. CASE RemoveLocked(c)
    BY <2>2 DEF RemoveLocked, SafeInv, TypeOK
  <2> QED
    BY <1>4, <2>1, <2>2 DEF Continue, CancelFind, CancelSignal, CancelDangling, WaitResume,
                            ShutdownJoin, DestroyJoin
<1>5. ASSUME SpuriousWakeup \/ Crash \/ Restart \/ RestartFaults PROVE FALSE
  BY <1>5 DEF SpuriousWakeup, Crash, Restart, RestartFaults, Recovered, Ended, SafeInv, TypeOK
<1> QED
  BY <1>1, <1>2, <1>3, <1>4, <1>5 DEF Next, vars

\* A final state that the queue has cleaned up after changes only by remove() or
\* by a cancel() that read the row while it was pending, whatever the clients
\* call and whatever fails (TaskQueue::post, TaskQueue::cancel, TaskQueue::recover).
THEOREM ReapedStays == Spec => ReapedIsFinal
<1>1. SafeInv /\ TableInv /\ [Next]_vars =>
        [\A i \in Id : rstate[i] \in Ended /\ i \notin inmap /\ rstate'[i] # rstate[i] =>
           \/ rstate'[i] = "absent"
           \/ \E c \in Client : cid[c] = i /\ cpc[c] = "cancelPending"]_vars
  BY ReapedStep DEF Revives, LateCancel
<1> QED
  BY Safe, TableCorrect, <1>1, PTL DEF Spec, ReapedIsFinal

---------------------------------------------------------------------------
\* The queue thread and the cleanup queue, in part without database errors

LEMMA ThreadStep ==
  ASSUME DbFaults = FALSE, TypeOK, ThreadMatchesState, [Next]_vars
  PROVE  ThreadMatchesState'
<1> USE DEF ThreadMatchesState, table, executors, queue, main, clients
<1>1. CASE Main
  BY <1>1 DEF Main, MainAcquire, KeepsRunning, MainCleanup, Reap, Die, MainCheck, MainWait,
              MainFault, MainSkipBlocked, MainLaunch, MainLaunchFails
<1>2. ASSUME NEW i \in Id, Executor(i) PROVE ThreadMatchesState'
  BY <1>2 DEF Executor, PostExecuting, RunEnds, PostEnded, PostFaults, Notified
<1>3. ASSUME NEW c \in Client, Call(c) PROVE ThreadMatchesState'
  BY <1>3 DEF Call, Start, Stop, StopState, Submit, CancelRead, CancelAll, CancelExecutorsDies,
              RemoveCheck, Wait, Shutdown, Destroy, Die, Notified
<1>4. ASSUME NEW c \in Client, Continue(c) PROVE ThreadMatchesState'
  BY <1>4 DEF Continue, CancelPending, CancelFind, CancelSignal, CancelDangling, RemoveLocked,
              WaitResume, ShutdownJoin, DestroyJoin, Die
<1>5. ASSUME SpuriousWakeup \/ Crash \/ Restart \/ RestartFaults PROVE ThreadMatchesState'
  BY <1>5 DEF SpuriousWakeup, Crash, Restart, RestartFaults, Die
<1> QED
  BY <1>1, <1>2, <1>3, <1>4, <1>5 DEF Next, vars

\* Without database errors the queue has its thread in every state but idle, for
\* all calls of all clients (TaskQueue::restart, TaskQueue::main).
THEOREM ThreadIsThere ==
  ASSUME DbFaults = FALSE PROVE Spec => []ThreadMatchesState
<1>1. Init => ThreadMatchesState
  BY DEF Init, ThreadMatchesState
<1> QED
  BY TypeCorrect, ThreadStep, <1>1, PTL DEF Spec

\* An executor whose work has ended is in a final state, which post() hands on
\* to the cleanup.
EndedFinal == \A i \in Id : xpc[i] = "ended" => xstate[i] \in Ended

\* An executor that has exited was handed to the cleanup; this is what fails if
\* the last post() throws.
Handed == \A i \in inmap : xpc[i] = "exited" => \E k \in 1..Len(idqueue) : idqueue[k] = i

\* What is in the cleanup queue has exited, and is there once.
Queued ==
  /\ \A k \in 1..Len(idqueue) : idqueue[k] \in inmap /\ xpc[idqueue[k]] = "exited"
  /\ \A k, l \in 1..Len(idqueue) : k # l => idqueue[k] # idqueue[l]

CleanInv == EndedFinal /\ Queued /\ (DbFaults = FALSE => Handed)

LEMMA CleanDie == ASSUME NEW how, Die(how) PROVE CleanInv'
  BY DEF Die, CleanInv, EndedFinal, Queued, Handed

LEMMA CleanFrame ==
  ASSUME CleanInv, UNCHANGED <<inmap, xpc, xstate, idqueue>> PROVE CleanInv'
  BY DEF CleanInv, EndedFinal, Queued, Handed

LEMMA CleanReap ==
  ASSUME SafeInv, TableInv, CleanInv, idqueue # <<>>, Reap(Head(idqueue)) PROVE CleanInv'
<1> DEFINE h == Head(idqueue)
<1>1. /\ idqueue \in Seq(Id) /\ h = idqueue[1] /\ h \in Id
      /\ inmap' = inmap \ {h} /\ xpc' = [xpc EXCEPT ![h] = "none"]
      /\ xstate' = [xstate EXCEPT ![h] = "pending"]
      /\ xpc \in [Id -> ExecutorPc] /\ xstate \in [Id -> RowState] /\ inmap \subseteq Id
  BY DEF SafeInv, TypeOK, Reap
<1>2. /\ Len(idqueue) \in Nat /\ Len(idqueue') = Len(idqueue) - 1 /\ Len(idqueue) > 0
      /\ \A k \in 1..Len(idqueue') : idqueue'[k] = idqueue[k + 1] /\ k + 1 \in 1..Len(idqueue)
  BY <1>1 DEF Reap
<1>3. EndedFinal'
  BY <1>1 DEF CleanInv, EndedFinal
<1>4. ASSUME DbFaults = FALSE, NEW i \in inmap', xpc'[i] = "exited"
      PROVE  \E k \in 1..Len(idqueue') : idqueue'[k] = i
  <2>1. i \in inmap /\ xpc[i] = "exited" /\ i # h
    BY <1>1, <1>4
  <2>2. PICK k \in 1..Len(idqueue) : idqueue[k] = i
    BY <1>4, <2>1 DEF CleanInv, Handed
  <2>3. k # 1
    BY <1>1, <2>1, <2>2
  <2>4. k - 1 \in 1..Len(idqueue') /\ idqueue'[k - 1] = i
    BY <1>2, <2>2, <2>3
  <2> QED
    BY <2>4
<1>5. ASSUME NEW k \in 1..Len(idqueue') PROVE idqueue'[k] \in inmap' /\ xpc'[idqueue'[k]] = "exited"
  <2>1. idqueue'[k] = idqueue[k + 1] /\ k + 1 \in 1..Len(idqueue) /\ 1 \in 1..Len(idqueue)
        /\ k + 1 # 1
    BY <1>2
  <2>2. idqueue[k + 1] \in inmap /\ xpc[idqueue[k + 1]] = "exited" /\ idqueue[k + 1] # idqueue[1]
    BY <2>1 DEF CleanInv, Queued
  <2> QED
    BY <1>1, <2>1, <2>2
<1>6. ASSUME NEW k \in 1..Len(idqueue'), NEW l \in 1..Len(idqueue'), k # l
      PROVE  idqueue'[k] # idqueue'[l]
  <2>1. /\ idqueue'[k] = idqueue[k + 1] /\ k + 1 \in 1..Len(idqueue)
        /\ idqueue'[l] = idqueue[l + 1] /\ l + 1 \in 1..Len(idqueue)
    BY <1>2
  <2>2. k + 1 # l + 1
    BY <1>6
  <2>3. idqueue[k + 1] # idqueue[l + 1]
    BY <2>1, <2>2 DEF CleanInv, Queued
  <2> QED
    BY <2>1, <2>3
<1> QED
  BY <1>3, <1>4, <1>5, <1>6 DEF CleanInv, Queued, Handed

LEMMA CleanPost ==
  ASSUME SafeInv, TableInv, CleanInv, NEW i \in Id, PostEnded(i) PROVE CleanInv'
<1>1. /\ idqueue \in Seq(Id) /\ i \in inmap /\ inmap' = inmap
      /\ xpc[i] = "ended" /\ xpc' = [xpc EXCEPT ![i] = "exited"] /\ xstate' = xstate
      /\ xpc \in [Id -> ExecutorPc] /\ inmap \subseteq Id
      /\ idqueue' = Append(idqueue, i)
  BY DEF PostEnded, SafeInv, TypeOK, TableInv, Attached, CleanInv, EndedFinal, NeedsCleanup, Ended
<1>2. /\ Len(idqueue) \in Nat /\ Len(idqueue') = Len(idqueue) + 1
      /\ idqueue'[Len(idqueue')] = i
      /\ \A k \in 1..Len(idqueue) : idqueue'[k] = idqueue[k]
  BY <1>1
<1>3. EndedFinal'
  BY <1>1 DEF CleanInv, EndedFinal
<1>4. \A k \in 1..Len(idqueue) : idqueue[k] # i /\ idqueue[k] \in inmap /\ xpc[idqueue[k]] = "exited"
  BY <1>1 DEF CleanInv, Queued
<1>5. \A k \in 1..Len(idqueue') : k \in 1..Len(idqueue) \/ k = Len(idqueue')
  BY <1>2
<1>6. DbFaults = FALSE =>
        \A n \in inmap' : xpc'[n] = "exited" => \E k \in 1..Len(idqueue') : idqueue'[k] = n
  <2>1. ASSUME DbFaults = FALSE, NEW n \in inmap', xpc'[n] = "exited", n # i
        PROVE  \E k \in 1..Len(idqueue') : idqueue'[k] = n
    <3>1. PICK k \in 1..Len(idqueue) : idqueue[k] = n
      BY <1>1, <2>1 DEF CleanInv, Handed
    <3> QED
      BY <1>2, <3>1
  <2>2. Len(idqueue') \in 1..Len(idqueue')
    BY <1>2
  <2> QED
    BY <1>2, <2>1, <2>2
<1>7. \A k \in 1..Len(idqueue') : idqueue'[k] \in inmap' /\ xpc'[idqueue'[k]] = "exited"
  BY <1>1, <1>2, <1>4, <1>5
<1>8. \A k, l \in 1..Len(idqueue') : k # l => idqueue'[k] # idqueue'[l]
  BY <1>2, <1>4, <1>5 DEF CleanInv, Queued
<1> QED
  BY <1>3, <1>6, <1>7, <1>8 DEF CleanInv, Queued, Handed

\* Other steps of an executor: to a phase that has not exited.
LEMMA CleanAdvance ==
  ASSUME SafeInv, CleanInv, NEW i \in Id, UNCHANGED <<inmap, idqueue>>, xpc[i] # "exited",
         xpc'[i] \in {"running", "ended"}, xpc'[i] = "ended" => xstate'[i] \in Ended,
         \A k \in Id : k # i => xpc'[k] = xpc[k] /\ xstate'[k] = xstate[k]
  PROVE  CleanInv'
<1>1. EndedFinal'
  BY DEF CleanInv, EndedFinal
<1>2. \A k \in 1..Len(idqueue) : idqueue[k] \in Id /\ idqueue[k] # i
  BY DEF CleanInv, Queued, SafeInv, TypeOK
<1>3. Queued' /\ (DbFaults = FALSE => Handed')
  BY <1>2 DEF CleanInv, Queued, Handed, SafeInv, TypeOK
<1> QED
  BY <1>1, <1>3 DEF CleanInv

LEMMA CleanStep ==
  ASSUME SafeInv, TableInv, CleanInv, [Next]_vars PROVE CleanInv'
<1> USE DEF table, executors, queue, main, clients
<1>1. CASE Main
  <2>1. ASSUME NEW i \in Id, MainLaunch(i) PROVE CleanInv'
    <3>1. CASE i \in inmap
      BY <2>1, <3>1, CleanFrame DEF MainLaunch
    <3>2. CASE i \notin inmap
      <4>1. /\ inmap' = inmap \cup {i} /\ idqueue' = idqueue /\ inmap \subseteq Id
            /\ xpc'[i] = "posting" /\ idqueue \in Seq(Id)
            /\ \A k \in Id : k # i => xpc'[k] = xpc[k] /\ xstate'[k] = xstate[k]
        BY <2>1, <3>2 DEF MainLaunch, SafeInv, TypeOK
      <4>2. EndedFinal'
        BY <4>1 DEF CleanInv, EndedFinal
      <4>3. \A k \in 1..Len(idqueue) : idqueue[k] # i /\ idqueue[k] \in inmap
        BY <3>2 DEF CleanInv, Queued
      <4>4. Queued' /\ (DbFaults = FALSE => Handed')
        BY <4>1, <4>3 DEF CleanInv, Queued, Handed
      <4> QED
        BY <4>2, <4>4 DEF CleanInv
    <3> QED
      BY <3>1, <3>2
  <2>2. CASE MainCleanup
    BY <2>2, CleanReap, CleanDie DEF MainCleanup
  <2> QED
    BY <1>1, <2>1, <2>2, CleanFrame
    DEF Main, MainAcquire, MainCheck, MainWait, MainFault, MainSkipBlocked, MainLaunchFails
<1>2. ASSUME NEW i \in Id, Executor(i) PROVE CleanInv'
  <2>1. CASE PostExecuting(i)
    <3>1. xpc[i] = "posting" /\ xpc'[i] = "running" /\ UNCHANGED <<inmap, idqueue, xstate>>
          /\ \A k \in Id : k # i => xpc'[k] = xpc[k]
      BY <2>1 DEF PostExecuting, SafeInv, TypeOK
    <3> QED
      BY <3>1, CleanAdvance
  <2>2. CASE RunEnds(i)
    <3>1. xpc[i] = "running" /\ xpc'[i] = "ended" /\ UNCHANGED <<inmap, idqueue>>
          /\ xstate'[i] \in Ended
          /\ \A k \in Id : k # i => xpc'[k] = xpc[k] /\ xstate'[k] = xstate[k]
      BY <2>2 DEF RunEnds, Outcome, Ended, SafeInv, TypeOK
    <3> QED
      BY <3>1, CleanAdvance
  <2>3. CASE PostFaults(i)
    <3>1. CASE xpc[i] = "posting"
      <4>1. xpc'[i] = "ended" /\ xstate'[i] = "failed" /\ UNCHANGED <<inmap, idqueue>>
            /\ \A k \in Id : k # i => xpc'[k] = xpc[k] /\ xstate'[k] = xstate[k]
        BY <2>3, <3>1 DEF PostFaults, SafeInv, TypeOK
      <4> QED
        BY <3>1, <4>1, CleanAdvance DEF Ended
    <3>2. CASE xpc[i] = "ended"
      <4>1. /\ xpc' = [xpc EXCEPT ![i] = "exited"] /\ UNCHANGED <<inmap, idqueue, xstate>>
            /\ DbFaults /\ xpc \in [Id -> ExecutorPc]
        BY <2>3, <3>2 DEF PostFaults, SafeInv, TypeOK
      <4> QED
        BY <4>1 DEF CleanInv, EndedFinal, Queued
    <3> QED
      BY <2>3, <3>1, <3>2 DEF PostFaults
  <2> QED
    BY <1>2, <2>1, <2>2, <2>3, CleanPost DEF Executor
<1>3. ASSUME NEW c \in Client, Call(c) PROVE CleanInv'
  BY <1>3, CleanFrame, CleanDie
  DEF Call, Start, Stop, Submit, CancelRead, CancelAll, CancelExecutorsDies, RemoveCheck, Wait,
      Shutdown, Destroy
<1>4. ASSUME NEW c \in Client, Continue(c) PROVE CleanInv'
  BY <1>4, CleanFrame, CleanDie
  DEF Continue, CancelPending, CancelFind, CancelSignal, CancelDangling, RemoveLocked,
      WaitResume, ShutdownJoin, DestroyJoin
<1>5. ASSUME SpuriousWakeup \/ Crash \/ Restart \/ RestartFaults PROVE CleanInv'
  BY <1>5, CleanFrame, CleanDie DEF SpuriousWakeup, Crash, Restart, RestartFaults
<1> QED
  BY <1>1, <1>2, <1>3, <1>4, <1>5, CleanFrame DEF Next, vars

LEMMA Clean == Spec => []CleanInv
<1>1. Init => CleanInv
  BY DEF Init, CleanInv, EndedFinal, Queued, Handed
<1> QED
  BY Safe, TableCorrect, CleanStep, <1>1, PTL DEF Spec

\* The executor that is next to be cleaned up has ended.
JoinsAtOnce == idqueue # <<>> => Head(idqueue) \in inmap /\ xpc[Head(idqueue)] = "exited"

\* cleanup() joins the thread of an executor under the mutex that this thread needs
\* to post its result; whatever is called and whatever fails, the thread has ended
\* by then, and the queue thread does not wait for it (TaskQueue::main,
\* TaskQueue::cleanup).
THEOREM CleanupJoins == Spec => []JoinsAtOnce
<1>1. SafeInv /\ CleanInv => JoinsAtOnce
  <2> SUFFICES ASSUME SafeInv, CleanInv, idqueue # <<>>
               PROVE  Head(idqueue) \in inmap /\ xpc[Head(idqueue)] = "exited"
    BY DEF JoinsAtOnce
  <2>1. idqueue \in Seq(Id)
    BY DEF SafeInv, TypeOK
  <2>2. Head(idqueue) = idqueue[1] /\ 1 \in 1..Len(idqueue)
    BY <2>1
  <2> QED
    BY <2>2 DEF CleanInv, Queued
<1> QED
  BY Safe, Clean, <1>1, PTL

\* Without database errors every executor that ends is in the cleanup queue
\* exactly once until it is cleaned up, for all calls of all clients
\* (TaskQueue::post, TaskQueue::cleanup).
THEOREM CleanedUpOnce == ASSUME DbFaults = FALSE PROVE Spec => []CleanupOnce
<1>1. CleanInv => CleanupOnce
  BY DEF CleanInv, Queued, Handed, CleanupOnce
<1> QED
  BY Clean, <1>1, PTL

---------------------------------------------------------------------------
\* Also without remove(): rows and executors

NoRemoval == \A c \in Client : cpc[c] # "removeLock"

\* The row of an executor is there and names its job, and is pending at most
\* until the executor has posted.  So a launch pass that comes upon a launched
\* id finds it blocked by its own executor.
Launched ==
  /\ \A i \in inmap :
       /\ rstate[i] # "absent" /\ xjob[i] = rjob[i]
       /\ rstate[i] = "pending" => xpc[i] = "posting"
  /\ \A i \in Id : xpc[i] = "posting" => xstate[i] = "executing"

RowInv == NoRemoval /\ Launched /\ ExecutingHasExecutor /\ NoDoubleLaunch

Around == SafeInv /\ TableInv /\ CleanInv /\ RowInv

LEMMA RowDie == ASSUME NEW how \in {"crash", "abort", "segv", "exit"}, Die(how) PROVE RowInv'
  BY DEF Die, RowInv, NoRemoval, Launched, ExecutingHasExecutor, NoDoubleLaunch

LEMMA RowFrame ==
  ASSUME RowInv, UNCHANGED <<rstate, rjob, proc, inmap, xpc, xstate, xjob>>,
         mpc' # "stuck", NoRemoval'
  PROVE  RowInv'
  BY DEF RowInv, Launched, ExecutingHasExecutor, NoDoubleLaunch

\* Rows may be cancelled, fail or be submitted at any time.
LEMMA RowWrite ==
  ASSUME RowInv, UNCHANGED <<proc, inmap, xpc, xstate, xjob>>, mpc' # "stuck", NoRemoval',
         \A i \in Id :
           \/ rstate'[i] = rstate[i] /\ rjob'[i] = rjob[i]
           \/ rstate[i] # "absent" /\ rstate'[i] \in Ended /\ rjob'[i] = rjob[i]
           \/ i \notin inmap /\ rstate'[i] = "pending",
         inmap \subseteq Id
  PROVE  RowInv'
<1>1. Launched'
  BY DEF RowInv, Launched, Ended
<1>2. ExecutingHasExecutor'
  BY DEF RowInv, ExecutingHasExecutor, Ended
<1> QED
  BY <1>1, <1>2 DEF RowInv, NoDoubleLaunch

\* An id that is not blocked has no executor.
LEMMA Unlaunched ==
  ASSUME Around, NEW i \in todo, ~Blocked(rjob[i]) PROVE i \notin inmap
<1>1. rstate[i] = "pending" /\ i \in Id
  BY DEF Around, TableInv, PassPending, Pending
<1>2. SUFFICES ASSUME i \in inmap PROVE FALSE
  OBVIOUS
<1>3. xstate[i] = "executing" /\ xjob[i] = rjob[i]
  BY <1>1, <1>2 DEF Around, RowInv, Launched
<1> QED
  BY <1>2, <1>3 DEF Blocked, Blocks, Conflict

LEMMA RowMain == Around /\ Main /\ DbFaults = FALSE => RowInv'
<1> SUFFICES ASSUME Around, Main, DbFaults = FALSE PROVE RowInv'
  OBVIOUS
<1> USE DEF table, executors, queue, main, clients
<1>0. NoRemoval'
  <2>1. \A c \in Client : cpc'[c] \in {cpc[c], "woken", "cancelDangling", "ready"}
    BY DEF Main, MainAcquire, MainCleanup, Reap, Die, MainCheck, MainWait, MainFault,
           MainSkipBlocked, MainLaunch, MainLaunchFails, WaitersNotified, Around, SafeInv, TypeOK
  <2> QED
    BY <2>1 DEF Around, RowInv, NoRemoval
<1>1. CASE MainAcquire
  BY <1>0, <1>1, RowFrame DEF MainAcquire, Around
<1>2. CASE MainCleanup
  <2>1. CASE idqueue # <<>> /\ Reap(Head(idqueue))
    <3> DEFINE h == Head(idqueue)
    <3>1. h = idqueue[1] /\ 1 \in 1..Len(idqueue) /\ h \in Id
      BY <2>1 DEF Around, SafeInv, TypeOK
    <3>2. h \in inmap /\ xpc[h] = "exited"
      BY <3>1 DEF Around, CleanInv, Queued
    <3>3. /\ inmap' = inmap \ {h} /\ xpc'[h] = "none" /\ UNCHANGED <<rstate, rjob, proc, mpc>>
          /\ \A k \in Id : k # h => xpc'[k] = xpc[k] /\ xstate'[k] = xstate[k] /\ xjob'[k] = xjob[k]
      BY <2>1, <3>1 DEF Reap, Around, SafeInv, TypeOK
    <3>4. Launched'
      BY <3>2, <3>3 DEF Around, RowInv, Launched, SafeInv, TypeOK
    <3>5. ExecutingHasExecutor'
      BY <3>2, <3>3 DEF Around, RowInv, ExecutingHasExecutor
    <3> QED
      BY <1>0, <3>3, <3>4, <3>5 DEF RowInv, Around, NoDoubleLaunch
  <2> QED
    BY <1>2, <2>1, RowDie DEF MainCleanup
<1>3. CASE MainCheck
  BY <1>0, <1>3, RowFrame DEF MainCheck, Around
<1>4. CASE MainWait
  BY <1>0, <1>4, RowFrame DEF MainWait, Around
<1>5. CASE MainFault
  BY <1>5 DEF MainFault
<1>6. ASSUME NEW i \in Id, MainSkipBlocked(i) PROVE RowInv'
  BY <1>0, <1>6, RowFrame DEF MainSkipBlocked, Around
<1>7. ASSUME NEW i \in Id, MainLaunch(i) PROVE RowInv'
  <2>1. i \notin inmap /\ rstate[i] = "pending"
    BY <1>7, Unlaunched DEF MainLaunch, NextTodo, Around, TableInv, PassPending, Pending
  <2>2. /\ inmap' = inmap \cup {i} /\ UNCHANGED <<rstate, rjob, proc, mpc>> /\ mpc = "launching"
        /\ xpc'[i] = "posting" /\ xstate'[i] = "executing" /\ xjob'[i] = rjob[i]
        /\ \A k \in Id : k # i => xpc'[k] = xpc[k] /\ xstate'[k] = xstate[k] /\ xjob'[k] = xjob[k]
    BY <1>7, <2>1 DEF MainLaunch, Around, SafeInv, TypeOK
  <2>3. Launched'
    BY <2>1, <2>2 DEF Around, RowInv, Launched, SafeInv, TypeOK
  <2>4. ExecutingHasExecutor'
    BY <2>1, <2>2 DEF Around, RowInv, ExecutingHasExecutor
  <2> QED
    BY <1>0, <2>2, <2>3, <2>4 DEF RowInv, NoDoubleLaunch
<1>8. ASSUME NEW i \in Id, MainLaunchFails(i) PROVE RowInv'
  <2>1. rstate[i] # "absent"
    BY <1>8 DEF MainLaunchFails, NextTodo, Around, TableInv, PassPending, Pending
  <2> QED
    BY <1>0, <1>8, <2>1, RowWrite DEF MainLaunchFails, Around, SafeInv, TypeOK, Ended
<1> QED
  BY <1>1, <1>2, <1>3, <1>4, <1>5, <1>6, <1>7, <1>8 DEF Main

LEMMA RowExecutor ==
  ASSUME Around, DbFaults = FALSE, NEW i \in Id, Executor(i) PROVE RowInv'
<1> USE DEF table, queue, main, clients
<1>0. NoRemoval' /\ mpc' # "stuck"
  BY DEF Executor, PostExecuting, RunEnds, PostEnded, PostFaults, Notified, Around, RowInv,
         NoRemoval, NoDoubleLaunch
<1>1. i \in inmap /\ rstate[i] # "absent"
  BY DEF Executor, PostExecuting, RunEnds, PostEnded, PostFaults, Around, TableInv, Attached,
         RowInv, Launched
<1>2. /\ UNCHANGED <<inmap, proc, rjob, xjob>>
      /\ \A k \in Id : k # i => /\ xpc'[k] = xpc[k] /\ xstate'[k] = xstate[k]
                                /\ rstate'[k] = rstate[k]
  BY DEF Executor, PostExecuting, RunEnds, PostEnded, PostFaults, WriteRow, Around, SafeInv, TypeOK
<1>3. \/ rstate'[i] = "executing" /\ xpc'[i] = "running"
      \/ rstate'[i] = rstate[i] /\ xpc[i] = "running" /\ xpc'[i] = "ended"
      \/ rstate'[i] \in Ended /\ xpc'[i] = "exited"
  BY <1>1 DEF Executor, PostExecuting, RunEnds, PostEnded, PostFaults, WriteRow, Around, SafeInv,
              TypeOK, CleanInv, EndedFinal
<1>4. Launched'
  BY <1>1, <1>2, <1>3 DEF Around, RowInv, Launched, Ended, SafeInv, TypeOK
<1>5. ExecutingHasExecutor'
  BY <1>1, <1>2, <1>3 DEF Around, RowInv, ExecutingHasExecutor, Ended
<1> QED
  BY <1>0, <1>4, <1>5 DEF RowInv, NoDoubleLaunch

LEMMA RowCancel ==
  ASSUME Around, CancelExecutors, UNCHANGED <<rjob, proc, inmap, xpc, xstate, xjob>>,
         mpc' # "stuck", NoRemoval'
  PROVE  RowInv'
<1>1. \A i \in Id : \/ rstate'[i] = rstate[i] /\ rjob'[i] = rjob[i]
                    \/ rstate[i] # "absent" /\ rstate'[i] \in Ended /\ rjob'[i] = rjob[i]
  BY DEF CancelExecutors, Visited, Signalled, Ended, Around, SafeInv, TypeOK
<1> QED
  BY <1>1, RowWrite DEF Around, SafeInv, TypeOK

LEMMA RowCall ==
  ASSUME Around, "remove" \notin Ops, NEW c \in Client, Call(c) PROVE RowInv'
<1> USE DEF table, executors, queue, main, clients
<1>0. CASE UNCHANGED cpc /\ mpc' \in {mpc, "fresh", Notified}
  <2>0. NoRemoval' /\ mpc' # "stuck"
    BY <1>0 DEF Around, RowInv, NoRemoval, NoDoubleLaunch, Notified
  <2>1. CASE Start(c)
    BY <2>0, <2>1, RowFrame, RowDie DEF Start, Around
  <2>2. CASE Stop(c)
    BY <2>0, <2>2, RowFrame DEF Stop, Around
  <2>3. CASE Submit(c)
    <3>1. PICK i \in Id : /\ NextId(i) /\ rstate' = [rstate EXCEPT ![i] = "pending"]
                          /\ \E j \in Job : rjob' = [rjob EXCEPT ![i] = j]
      BY <2>3 DEF Submit
    <3>2. rstate[i] = "absent"
      BY <3>1, IdAssumption DEF NextId
    <3>3. i \notin inmap
      BY <3>2 DEF Around, RowInv, Launched
    <3>4. \A k \in Id : \/ rstate'[k] = rstate[k] /\ rjob'[k] = rjob[k]
                        \/ k \notin inmap /\ rstate'[k] = "pending"
      BY <3>1, <3>3 DEF Around, SafeInv, TypeOK
    <3> QED
      BY <2>0, <2>3, <3>4, RowWrite DEF Submit, Around, SafeInv, TypeOK
  <2>4. CASE CancelAll(c)
    BY <2>0, <2>4, RowCancel, RowDie DEF CancelAll, CancelExecutorsDies
  <2>5. CASE Destroy(c)
    BY <2>0, <2>5, RowCancel, RowDie DEF Destroy, CancelExecutorsDies
  <2> QED
    BY <1>0, <1>0, <2>0, <2>1, <2>2, <2>3, <2>4, <2>5, RowFrame
    DEF Call, CancelRead, RemoveCheck, Ready, Wait, Shutdown, Around
<1>1. CASE Start(c)
  BY <1>0, <1>1, RowDie DEF Start
<1>2. CASE Stop(c) \/ Submit(c)
  BY <1>0, <1>2 DEF Stop, Submit
<1>3. CASE CancelAll(c)
  BY <1>0, <1>3, RowDie DEF CancelAll, CancelExecutorsDies
<1>4. CASE CancelRead(c) \/ Wait(c) \/ Shutdown(c)
  <2>1. NoRemoval' /\ mpc' # "stuck"
    BY <1>4 DEF CancelRead, Wait, Shutdown, Notified, Around, RowInv, NoRemoval, NoDoubleLaunch,
                SafeInv, TypeOK
  <2> QED
    BY <1>4, <2>1, RowFrame DEF CancelRead, Wait, Shutdown, Around
<1>5. CASE Destroy(c)
  <2>1. CASE Die("exit") \/ Die("abort") \/ CancelExecutorsDies
    BY <2>1, RowDie DEF CancelExecutorsDies
  <2>2. CASE ~(Die("exit") \/ Die("abort") \/ CancelExecutorsDies)
    <3>1. NoRemoval' /\ mpc' # "stuck"
      BY <1>5, <2>2 DEF Destroy, Notified, Around, RowInv, NoRemoval, NoDoubleLaunch, SafeInv, TypeOK
    <3> QED
      BY <1>5, <2>2, <3>1, RowCancel DEF Destroy
  <2> QED
    BY <2>1, <2>2
<1>6. ~RemoveCheck(c)
  BY DEF RemoveCheck, Ready
<1> QED
  BY <1>1, <1>2, <1>3, <1>4, <1>5, <1>6 DEF Call

LEMMA RowContinue ==
  ASSUME Around, NEW c \in Client, Continue(c) PROVE RowInv'
<1> USE DEF table, executors, queue, main, clients
<1>1. CASE \E how \in {"crash", "abort", "segv", "exit"} : Die(how)
  BY <1>1, RowDie
<1>2. CASE ~ \E how \in {"crash", "abort", "segv", "exit"} : Die(how)
  <2>1. NoRemoval' /\ mpc' # "stuck"
    BY <1>2 DEF Continue, CancelPending, CancelFind, CancelSignal, CancelDangling, RemoveLocked,
                WaitResume, ShutdownJoin, DestroyJoin, Return, Around, RowInv, NoRemoval,
                NoDoubleLaunch, SafeInv, TypeOK
  <2>2. CASE CancelPending(c)
    <3>1. \A i \in Id : \/ rstate'[i] = rstate[i] /\ rjob'[i] = rjob[i]
                        \/ rstate[i] # "absent" /\ rstate'[i] \in Ended /\ rjob'[i] = rjob[i]
      BY <2>2 DEF CancelPending, WriteRow, Ended, Around, SafeInv, TypeOK
    <3> QED
      BY <2>1, <2>2, <3>1, RowWrite DEF CancelPending, Around, SafeInv, TypeOK
  <2>3. ~RemoveLocked(c)
    BY DEF RemoveLocked, Around, RowInv, NoRemoval
  <2> QED
    BY <1>2, <2>1, <2>2, <2>3, RowFrame
    DEF Continue, CancelFind, CancelSignal, CancelDangling, WaitResume, ShutdownJoin, DestroyJoin,
        Around
<1> QED
  BY <1>1, <1>2

LEMMA RowProcess ==
  Around /\ DbFaults = FALSE /\ (SpuriousWakeup \/ Crash \/ Restart \/ RestartFaults) => RowInv'
<1> SUFFICES ASSUME Around, DbFaults = FALSE,
                    SpuriousWakeup \/ Crash \/ Restart \/ RestartFaults
             PROVE  RowInv'
  OBVIOUS
<1> USE DEF table, executors, queue, main, clients
<1>1. CASE SpuriousWakeup
  <2>1. NoRemoval' /\ mpc' # "stuck"
    BY <1>1 DEF SpuriousWakeup, Around, RowInv, NoRemoval, NoDoubleLaunch, SafeInv, TypeOK
  <2> QED
    BY <1>1, <2>1, RowFrame DEF SpuriousWakeup, Around
<1>2. CASE Crash
  BY <1>2, RowDie DEF Crash
<1>3. CASE Restart
  BY <1>3 DEF Restart, Recovered, Around, RowInv, NoRemoval, Launched, ExecutingHasExecutor,
              NoDoubleLaunch, SafeInv, TypeOK
<1> QED
  BY <1>1, <1>2, <1>3 DEF RestartFaults

LEMMA Rows ==
  ASSUME DbFaults = FALSE, "remove" \notin Ops PROVE Spec => []RowInv
<1>1. Init => RowInv
  BY DEF Init, RowInv, NoRemoval, Launched, ExecutingHasExecutor, NoDoubleLaunch
<1>2. SafeInv /\ TableInv /\ CleanInv /\ RowInv /\ [Next]_vars => RowInv'
  <2>1. RowInv /\ UNCHANGED vars => RowInv'
    BY DEF vars, table, executors, queue, main, clients, RowInv, NoRemoval, Launched,
           ExecutingHasExecutor, NoDoubleLaunch
  <2> QED
    BY <2>1, RowMain, RowExecutor, RowCall, RowContinue, RowProcess DEF Next, Around
<1> QED
  BY Safe, TableCorrect, Clean, <1>1, <1>2, PTL DEF Spec

\* Without remove() and database errors launch() never launches a task again that
\* has an executor, although its row may still be pending (TaskQueue::launch,
\* TaskExecutor::main).
THEOREM LaunchedOnce ==
  ASSUME DbFaults = FALSE, "remove" \notin Ops PROVE Spec => []NoDoubleLaunch
  BY Rows, PTL DEF RowInv

\* Without remove() and database errors a row says executing only while an
\* executor works on it, also after crashes (TaskQueue::post, TaskQueue::recover).
THEOREM ExecutingIsExecuted ==
  ASSUME DbFaults = FALSE, "remove" \notin Ops PROVE Spec => []ExecutingHasExecutor
  BY Rows, PTL DEF RowInv

---------------------------------------------------------------------------
\* What the refinement needs

\* No row is removed and the database works.
Orderly == DbFaults = FALSE /\ "remove" \notin Ops

\* The row of an executor shows its phase, or a cancellation that came too late.
Phases ==
  \A i \in Id :
    /\ (xpc[i] = "posting" => rstate[i] \in {"pending", "cancelled"})
    /\ (xpc[i] \in {"running", "ended"} => rstate[i] \in {"executing", "cancelled"})

OrderInv == Orderly => RowInv /\ Phases

\* Calls are under way in a running process only, and are calls of the clients.
Calls ==
  /\ proc # "up" => \A c \in Client : cpc[c] = "ready"
  /\ "remove" \notin Ops => NoRemoval

LifeInv == SafeInv /\ TableInv /\ CleanInv /\ Calls /\ OrderInv

LEMMA CallsStep ==
  ASSUME SafeInv, TableInv, Calls, [Next]_vars PROVE Calls'
<1> USE DEF table, executors, queue, main, clients
<1>0. ASSUME NEW how, Die(how) PROVE Calls'
  BY <1>0 DEF Die, Calls, NoRemoval
<1>1. CASE Main
  <2>1. proc = "up"
    BY <1>1 DEF Main, MainAcquire, MainCleanup, MainCheck, MainWait, MainFault,
                MainSkipBlocked, MainLaunch, MainLaunchFails, TableInv, Down
  <2> QED
    BY <1>0, <1>1, <2>1
    DEF Main, MainAcquire, MainCleanup, Reap, MainCheck, MainWait, MainFault,
        MainSkipBlocked, MainLaunch, MainLaunchFails, WaitersNotified, Calls, NoRemoval
<1>2. ASSUME NEW i \in Id, Executor(i) PROVE Calls'
  BY <1>2 DEF Executor, PostExecuting, RunEnds, PostEnded, PostFaults, Calls, NoRemoval
<1>3. ASSUME NEW c \in Client, Call(c) PROVE Calls'
  BY <1>0, <1>3 DEF Call, Ready, Start, Stop, Submit, CancelRead, CancelAll,
                    CancelExecutorsDies, RemoveCheck, Wait, Shutdown, Destroy, Calls, NoRemoval,
                    SafeInv, TypeOK
<1>4. ASSUME NEW c \in Client, Continue(c) PROVE Calls'
  BY <1>0, <1>4 DEF Continue, CancelPending, CancelFind, CancelSignal, CancelDangling,
                    RemoveLocked, WaitResume, ShutdownJoin, DestroyJoin, Return, Calls,
                    NoRemoval, SafeInv, TypeOK
<1>5. ASSUME SpuriousWakeup \/ Crash \/ Restart \/ RestartFaults PROVE Calls'
  BY <1>0, <1>5 DEF SpuriousWakeup, Crash, Restart, RestartFaults, Calls, NoRemoval,
                    SafeInv, TypeOK
<1> QED
  BY <1>1, <1>2, <1>3, <1>4, <1>5 DEF Next, vars, Calls, NoRemoval

\* A step that leaves the executors alone keeps Phases if it only cancels rows
\* that have one.
LEMMA PhasesFrame ==
  ASSUME Phases, UNCHANGED xpc,
         \A i \in Id : xpc[i] # "none" => rstate'[i] \in {rstate[i], "cancelled"}
  PROVE  Phases'
  BY DEF Phases

\* Submitting needs a row that is absent, which has no executor.
LEMMA SubmitFresh ==
  ASSUME Around, NEW c \in Client, Submit(c)
  PROVE  \E i \in Id : xpc[i] = "none" /\ rstate' = [rstate EXCEPT ![i] = "pending"]
<1>1. PICK i \in Id : NextId(i) /\ rstate' = [rstate EXCEPT ![i] = "pending"]
  BY DEF Submit
<1>2. rstate[i] = "absent"
  BY <1>1, IdAssumption DEF NextId
<1>3. i \notin inmap
  BY <1>2 DEF Around, RowInv, Launched
<1> QED
  BY <1>1, <1>3 DEF Around, TableInv, Attached

LEMMA PhasesMain == Around /\ Phases /\ Main => Phases'
<1> SUFFICES ASSUME Around, Phases, Main PROVE Phases'
  OBVIOUS
<1> USE DEF table, executors, queue, main, clients
<1>1. CASE MainCleanup
  BY <1>1 DEF MainCleanup, Reap, Die, Phases, Around, SafeInv, TypeOK
<1>2. ASSUME NEW i \in Id, MainLaunch(i) PROVE Phases'
  <2>1. i \notin inmap /\ rstate[i] = "pending"
    BY <1>2, Unlaunched DEF MainLaunch, NextTodo, Around, TableInv, PassPending, Pending
  <2> QED
    BY <1>2, <2>1 DEF MainLaunch, Phases, Around, SafeInv, TypeOK
<1>3. ASSUME NEW i \in Id, MainLaunchFails(i) PROVE Phases'
  <2>1. i \notin inmap
    BY <1>3, Unlaunched DEF MainLaunchFails, NextTodo
  <2>2. xpc[i] = "none"
    BY <2>1 DEF Around, TableInv, Attached
  <2> QED
    BY <1>3, <2>2, PhasesFrame DEF MainLaunchFails, Around, SafeInv, TypeOK
<1> QED
  BY <1>1, <1>2, <1>3, PhasesFrame
  DEF Main, MainAcquire, MainCheck, MainWait, MainFault, MainSkipBlocked

LEMMA PhasesExecutor ==
  ASSUME Around, Phases, DbFaults = FALSE, NEW i \in Id, Executor(i) PROVE Phases'
<1>1. rstate[i] # "absent"
  BY DEF Executor, PostExecuting, RunEnds, PostEnded, PostFaults, Around, TableInv, Attached,
         RowInv, Launched
<1> QED
  BY <1>1 DEF Executor, PostExecuting, RunEnds, PostEnded, PostFaults, WriteRow, table,
              Phases, Around, SafeInv, TypeOK

LEMMA PhasesClient ==
  ASSUME Around, Phases, NEW c \in Client, Call(c) \/ Continue(c) PROVE Phases'
<1> USE DEF table, executors, queue, main, clients
<1>1. ASSUME NEW how, Die(how) PROVE Phases'
  BY <1>1 DEF Die, Phases
<1>2. CASE Submit(c)
  <2>1. PICK i \in Id : xpc[i] = "none" /\ rstate' = [rstate EXCEPT ![i] = "pending"]
    BY <1>2, SubmitFresh
  <2> QED
    BY <1>2, <2>1, PhasesFrame DEF Submit, Around, SafeInv, TypeOK
<1>3. CASE CancelAll(c)
  BY <1>1, <1>3, PhasesFrame DEF CancelAll, CancelExecutors, CancelExecutorsDies
<1>4. CASE Destroy(c)
  BY <1>1, <1>4, PhasesFrame DEF Destroy, CancelExecutors, CancelExecutorsDies
<1>5. CASE CancelPending(c)
  BY <1>5, PhasesFrame DEF CancelPending, WriteRow, Around, SafeInv, TypeOK
<1>6. ~RemoveLocked(c)
  BY DEF RemoveLocked, Around, RowInv, NoRemoval
<1> QED
  BY <1>1, <1>2, <1>3, <1>4, <1>5, <1>6, PhasesFrame
  DEF Call, Continue, Start, Stop, CancelRead, RemoveCheck, Wait, Shutdown, CancelFind,
      CancelSignal, CancelDangling, WaitResume, ShutdownJoin, DestroyJoin

LEMMA PhasesStep ==
  ASSUME Around, Phases, DbFaults = FALSE, [Next]_vars PROVE Phases'
<1> USE DEF table, executors, queue, main, clients
<1>1. ASSUME SpuriousWakeup \/ Crash \/ Restart \/ RestartFaults PROVE Phases'
  <2>1. CASE Restart
    <3>1. \A i \in Id : xpc[i] = "none"
      BY <2>1 DEF Restart, Around, TableInv, Down, Attached
    <3> QED
      BY <2>1, <3>1 DEF Restart, Phases
  <2> QED
    BY <1>1, <2>1, PhasesFrame DEF SpuriousWakeup, Crash, Die, RestartFaults, Phases
<1>2. CASE UNCHANGED vars
  BY <1>2, PhasesFrame DEF vars
<1> QED
  BY <1>1, <1>2, PhasesMain, PhasesExecutor, PhasesClient DEF Next

LEMMA Order == Spec => []OrderInv
<1>1. CASE Orderly
  <2>1. Init => Phases
    BY DEF Init, Phases
  <2>2. SafeInv /\ TableInv /\ CleanInv /\ RowInv /\ Phases /\ [Next]_vars => Phases'
    BY <1>1, PhasesStep DEF Around, Orderly
  <2>3. Spec => []SafeInv /\ []TableInv /\ []CleanInv /\ []RowInv
    BY <1>1, Safe, TableCorrect, Clean, Rows, PTL DEF Orderly
  <2>4. RowInv /\ Phases => OrderInv
    BY DEF OrderInv
  <2> QED
    BY <2>1, <2>2, <2>3, <2>4, PTL DEF Spec
<1>2. CASE ~Orderly
  <2>1. OrderInv
    BY <1>2 DEF OrderInv
  <2> QED
    BY <2>1, PTL
<1> QED
  BY <1>1, <1>2

LEMMA Life == Spec => []LifeInv
<1>1. Init => Calls
  BY DEF Init, Calls, NoRemoval
<1>2. SafeInv /\ TableInv /\ Calls /\ [Next]_vars => Calls'
  BY CallsStep
<1>3. SafeInv /\ TableInv /\ CleanInv /\ Calls /\ OrderInv => LifeInv
  BY DEF LifeInv
<1> QED
  BY Safe, TableCorrect, Clean, Order, <1>1, <1>2, <1>3, PTL DEF Spec

---------------------------------------------------------------------------
\* Every step of the queue is a step of the abstract life cycle or none of its own

LEMMA StageNames ==
  /\ StageOf("none") = "none" /\ StageOf("posting") = "claimed" /\ StageOf("running") = "working"
  /\ StageOf("ended") = "over" /\ StageOf("exited") = "none"
  BY Zenon DEF StageOf

LEMMA StageSame == ASSUME UNCHANGED xpc PROVE UNCHANGED Stage
  BY DEF Stage

LEMMA StageSet ==
  ASSUME TypeOK, NEW i \in Id, NEW pc, xpc' = [xpc EXCEPT ![i] = pc]
  PROVE  Stage' = [Stage EXCEPT ![i] = StageOf(pc)]
  BY DEF Stage, TypeOK

LEMMA HoldersAre ==
  Lifecycle!Holders = Holders /\ \A h \in Holders : h \in inmap /\ Using[h] = xjob[h]
  BY DEF Lifecycle!Holders, Using, Holders

LEMMA UsingSame == ASSUME UNCHANGED <<inmap, xpc, xjob>> PROVE UNCHANGED Using
  BY DEF Using, Holders

LEMMA AskedSame ==
  ASSUME \A d \in Client : /\ (cpc'[d] = "cancelPending" <=> cpc[d] = "cancelPending")
                           /\ (cpc[d] = "cancelPending" => cid'[d] = cid[d])
  PROVE  UNCHANGED Asked
  BY DEF Asked

\* Nothing the life cycle knows of changes.
NoEffect == UNCHANGED <<rstate, rjob, Stage, Using, Asked, proc>>

LEMMA NoEffectStutters == NoEffect => UNCHANGED Lifecycle!vars
  BY DEF NoEffect, Lifecycle!vars

LEMMA WriteRowWrites ==
  ASSUME TypeOK, NEW i \in Id, NEW s, NEW f, WriteRow(i, s, f)
  PROVE  Lifecycle!Write(i, s)
  BY DEF WriteRow, Lifecycle!Write, TypeOK

LEMMA CancelNone == ASSUME TypeOK, UNCHANGED rstate PROVE Lifecycle!CancelAll({})
  BY DEF Lifecycle!CancelAll, TypeOK

\* All steps that end the process free all devices.
LEMMA DieCrashes ==
  ASSUME TypeOK, NEW how, how # "up", proc = "up", Die(how), UNCHANGED rjob,
         NEW S \in SUBSET Lifecycle!CanCancel, Lifecycle!CancelAll(S)
  PROVE  Lifecycle!Crash
<1>1. Holders' = {} /\ Asked' = {}
  BY DEF Die, Holders, Asked
<1>2. Stage' = [i \in Id |-> "none"]
  BY StageNames DEF Die, Stage
<1>3. Using' = [h \in {} |-> rjob[h]]
  BY <1>1 DEF Using
<1> QED
  BY <1>1, <1>2, <1>3 DEF Lifecycle!Crash, Die

LEMMA DieQuietly ==
  ASSUME TypeOK, NEW how, how # "up", proc = "up", Die(how), UNCHANGED table
  PROVE  Lifecycle!Next
<1>1. Lifecycle!Crash
  BY DieCrashes, CancelNone DEF table
<1> QED
  BY <1>1 DEF Lifecycle!Next

\* cancel() of all visits executors whose rows are pending.
LEMMA VisitedCanBeCancelled ==
  ASSUME LifeInv PROVE Visited \ Signalled \subseteq Lifecycle!CanCancel
<1> SUFFICES ASSUME NEW i \in Visited \ Signalled PROVE i \in Lifecycle!CanCancel
  OBVIOUS
<1>1. i \in Id /\ i \in inmap /\ rstate[i] = "pending"
  BY DEF Visited, Signalled, LifeInv, SafeInv, TypeOK
<1>2. CASE Orderly
  <2>1. xpc[i] = "posting"
    BY <1>1, <1>2 DEF LifeInv, OrderInv, RowInv, Launched
  <2>2. Stage[i] = "claimed"
    BY <1>1, <2>1, StageNames DEF Stage
  <2> QED
    BY <1>1, <2>2 DEF Lifecycle!CanCancel
<1>3. CASE ~Orderly
  BY <1>1, <1>3, FaultAssumption DEF Orderly, Lifecycle!CanCancel
<1> QED
  BY <1>2, <1>3

\* While the mutex is with the queue thread the process runs.
LEMMA MainUp == LifeInv /\ Main => proc = "up"
  BY DEF Main, MainAcquire, MainCleanup, MainCheck, MainWait, MainFault, MainSkipBlocked,
         MainLaunch, MainLaunchFails, LifeInv, TableInv, Down

\* Without removals and faults the invariants of the rows are at hand.
LEMMA Ordered == LifeInv /\ Orderly => Around /\ Phases
  BY DEF LifeInv, OrderInv, Around

\* A launch takes the devices of the task, a launch that fails rejects it; the
\* other steps of the queue thread are none of the life cycle.
LEMMA MapMain ==
  ASSUME LifeInv, Main PROVE Lifecycle!Next \/ NoEffect
<1> USE DEF table, executors, queue, main, clients
<1>0. proc = "up" /\ TypeOK
  BY MainUp DEF LifeInv, SafeInv
<1>1. CASE MainCleanup
  <2>1. CASE /\ idqueue # <<>> /\ Reap(Head(idqueue))
             /\ Head(idqueue) \in inmap => xpc[Head(idqueue)] = "exited"
    <3> DEFINE h == Head(idqueue)
    <3>1. h \in Id
      BY <1>0, <2>1 DEF TypeOK
    <3>2. xpc[h] \in {"none", "exited"}
      BY <2>1, <3>1 DEF LifeInv, TableInv, Attached
    <3>3. Holders' = Holders /\ \A i \in Holders : xjob'[i] = xjob[i]
      BY <1>0, <2>1, <3>2 DEF Reap, Holders, TypeOK
    <3>4. UNCHANGED Using
      BY <3>3 DEF Using
    <3>5. \A i \in Id : StageOf(xpc'[i]) = StageOf(xpc[i])
      BY <1>0, <2>1, <3>1, <3>2, StageNames DEF Reap, TypeOK
    <3>6. UNCHANGED Stage
      BY <3>5 DEF Stage
    <3>7. UNCHANGED Asked
      BY <2>1, AskedSame DEF Reap, WaitersNotified, TypeOK
    <3> QED
      BY <2>1, <3>4, <3>6, <3>7 DEF Reap, NoEffect
  <2> QED
    BY <1>0, <1>1, <2>1, DieQuietly DEF MainCleanup
<1>2. ASSUME NEW i \in Id, MainLaunch(i), i \notin inmap PROVE Lifecycle!Next
  <2>1. rstate[i] = "pending" /\ xpc[i] = "none" /\ Stage[i] = "none"
    BY <1>2, StageNames
    DEF MainLaunch, NextTodo, LifeInv, TableInv, Attached, PassPending, Pending, Stage
  <2>2. /\ i \notin Holders /\ Holders' = Holders \cup {i} /\ UNCHANGED <<rstate, rjob, proc>>
        /\ xjob'[i] = rjob[i] /\ \A h \in Holders : xjob'[h] = xjob[h]
    BY <1>0, <1>2, <2>1 DEF MainLaunch, Holders, TypeOK
  <2>3. ASSUME NEW h \in Lifecycle!Holders PROVE ~ShareDevice(Using[h], rjob[i])
    <3>1. h \in inmap /\ xstate[h] \notin {"failed", "cancelled"} /\ Using[h] = xjob[h]
      BY HoldersAre DEF LifeInv, SafeInv, Exclusive, Blocking
    <3>2. ~Conflict(xjob[h], rjob[i])
      BY <1>2, <3>1 DEF MainLaunch, Blocked, Blocks
    <3> QED
      BY <3>1, <3>2, ShareConflict
  <2>4. Stage' = [Stage EXCEPT ![i] = "claimed"]
    BY <1>0, <1>2, StageSet, StageNames DEF MainLaunch
  <2>5. Using' = [h \in Lifecycle!Holders \cup {i} |-> IF h = i THEN rjob[i] ELSE Using[h]]
    BY <2>2, HoldersAre DEF Using
  <2>6. UNCHANGED Asked
    BY <1>2, AskedSame DEF MainLaunch
  <2>7. Lifecycle!Claim(i)
    BY <1>0, <2>1, <2>2, <2>3, <2>4, <2>5, <2>6 DEF Lifecycle!Claim
  <2> QED
    BY <2>7 DEF Lifecycle!Next
<1>3. ASSUME NEW i \in Id, MainLaunchFails(i) PROVE Lifecycle!Next
  <2>1. rstate[i] = "pending"
    BY <1>3 DEF MainLaunchFails, NextTodo, LifeInv, TableInv, PassPending, Pending
  <2>2. Stage[i] = "none" \/ "remove" \in Ops \/ DbFaults
    <3>1. CASE Orderly
      <4>1. i \notin inmap
        BY <1>3, <3>1, Unlaunched, Ordered DEF MainLaunchFails, NextTodo
      <4>2. xpc[i] = "none"
        BY <4>1 DEF LifeInv, TableInv, Attached
      <4> QED
        BY <4>2, StageNames DEF Stage
    <3> QED
      BY <3>1, FaultAssumption DEF Orderly
  <2>3. UNCHANGED <<Stage, Using, Asked, rjob, proc>>
    BY <1>3, StageSame, UsingSame, AskedSame DEF MainLaunchFails
  <2>4. Lifecycle!Write(i, "failed")
    BY <1>3, <2>1 DEF MainLaunchFails, Lifecycle!Write
  <2>5. Lifecycle!Reject(i)
    BY <1>0, <2>1, <2>2, <2>3, <2>4 DEF Lifecycle!Reject
  <2> QED
    BY <2>5 DEF Lifecycle!Next
<1>4. CASE /\ UNCHANGED <<rstate, rjob, inmap, xpc, xjob, proc, cid>>
           /\ cpc' \in {cpc, WaitersNotified}
  <2>1. UNCHANGED <<Stage, Using>>
    BY <1>4, StageSame, UsingSame
  <2>2. UNCHANGED Asked
    BY <1>4, AskedSame DEF WaitersNotified
  <2> QED
    BY <1>4, <2>1, <2>2 DEF NoEffect
<1> QED
  BY <1>1, <1>2, <1>3, <1>4
  DEF Main, MainAcquire, MainCheck, MainWait, MainFault, MainSkipBlocked, MainLaunch

\* Every step of an executor moves its task on.
LEMMA MapExecutor ==
  ASSUME LifeInv, NEW i \in Id, Executor(i) PROVE Lifecycle!Next
<1> USE DEF table, queue, main, clients
<1>0. TypeOK /\ i \in inmap /\ UNCHANGED <<inmap, rjob, xjob, proc, cpc, cid>>
  BY DEF Executor, PostExecuting, RunEnds, PostEnded, PostFaults, LifeInv, SafeInv, TableInv,
         Attached
<1>1. UNCHANGED Asked
  BY <1>0, AskedSame
<1>2. CASE PostExecuting(i)
  <2>1. Stage[i] = "claimed" /\ Stage' = [Stage EXCEPT ![i] = "working"]
    BY <1>0, <1>2, StageSet, StageNames DEF PostExecuting, Stage
  <2>2. Holders' = Holders
    BY <1>0, <1>2 DEF PostExecuting, Holders, TypeOK
  <2>3. UNCHANGED Using
    BY <1>0, <2>2 DEF Using
  <2>4. Lifecycle!Write(i, "executing")
    BY <1>0, <1>2, WriteRowWrites DEF PostExecuting
  <2>5. Lifecycle!Shows(i, {"pending", "cancelled"})
    <3>1. Orderly => rstate[i] \in {"pending", "cancelled"}
      BY <1>2, Ordered DEF PostExecuting, Phases
    <3> QED
      BY <3>1, FaultAssumption DEF Orderly, Lifecycle!Shows
  <2>6. Lifecycle!Begin(i)
    BY <1>0, <1>1, <2>1, <2>3, <2>4, <2>5 DEF Lifecycle!Begin
  <2> QED
    BY <2>6 DEF Lifecycle!Next
<1>3. CASE xpc[i] \in {"posting", "running"} /\ xpc' = [xpc EXCEPT ![i] = "ended"]
           /\ UNCHANGED rstate /\ (xpc[i] = "posting" => DbFaults)
  <2>1. /\ Stage' = [Stage EXCEPT ![i] = "over"]
        /\ \/ Stage[i] = "working"
           \/ (Stage[i] = "claimed" /\ DbFaults)
    BY <1>0, <1>3, StageSet, StageNames DEF Stage
  <2>2. Holders' = Holders \ {i}
    BY <1>0, <1>3 DEF Holders, TypeOK
  <2>3. Using' = [h \in Lifecycle!Holders \ {i} |-> Using[h]]
    BY <1>0, <2>2, HoldersAre DEF Using
  <2>4. Lifecycle!Release(i)
    BY <1>0, <1>1, <1>3, <2>1, <2>3 DEF Lifecycle!Release
  <2> QED
    BY <2>4 DEF Lifecycle!Next
<1>4. CASE xpc[i] = "ended" /\ xpc' = [xpc EXCEPT ![i] = "exited"]
           /\ \/ WriteRow(i, xstate[i], xstate[i] = "complete" /\ xjob[i].kind = "exposure")
              \/ (DbFaults /\ UNCHANGED rstate)
  <2>1. Stage[i] = "over" /\ Stage' = [Stage EXCEPT ![i] = "none"]
    <3>1. xpc[i] = "ended" /\ xpc' = [xpc EXCEPT ![i] = "exited"]
      BY <1>4
    <3>2. Stage[i] = "over"
      BY <3>1, StageNames DEF Stage
    <3>3. Stage' = [Stage EXCEPT ![i] = StageOf("exited")]
      BY ONLY <1>0, <3>1, i \in Id, StageSet
    <3>4. StageOf("exited") = "none"
      BY StageNames
    <3> QED
      BY ONLY <3>2, <3>3, <3>4
  <2>2. Holders' = Holders
    BY <1>0, <1>4 DEF Holders, TypeOK
  <2>3. UNCHANGED Using
    BY <1>0, <2>2 DEF Using
  <2>4. \/ \E e \in Lifecycle!Ended : Lifecycle!Write(i, e)
        \/ (DbFaults /\ UNCHANGED rstate)
    <3>1. xstate[i] \in Lifecycle!Ended
      BY <1>4 DEF LifeInv, CleanInv, EndedFinal, Ended, Lifecycle!Ended
    <3> QED
      BY <1>0, <1>4, <3>1, WriteRowWrites
  <2>5. Lifecycle!Shows(i, {"executing", "cancelled"})
    <3>1. Orderly => rstate[i] \in {"executing", "cancelled"}
      BY <1>4, Ordered DEF Phases
    <3> QED
      BY <3>1, FaultAssumption DEF Orderly, Lifecycle!Shows
  <2>6. Lifecycle!End(i)
    BY <1>0, <1>1, <2>1, <2>3, <2>4, <2>5 DEF Lifecycle!End
  <2> QED
    BY <2>6 DEF Lifecycle!Next
<1> QED
  BY <1>2, <1>3, <1>4 DEF Executor, RunEnds, PostEnded, PostFaults

\* Cancelling the rows of all visited executors, without and with the process
\* ending on the way.
LEMMA MapVisits ==
  ASSUME LifeInv, proc = "up", UNCHANGED <<rjob, inmap, xpc, xjob, proc>>, CancelExecutors,
         \A d \in Client : /\ cpc'[d] = "cancelPending" <=> cpc[d] = "cancelPending"
                           /\ cpc[d] = "cancelPending" => cid'[d] = cid[d]
  PROVE  Lifecycle!CancelSome
<1>1. Lifecycle!CancelAll(Visited \ Signalled)
  BY DEF CancelExecutors, Lifecycle!CancelAll
<1>2. Visited \ Signalled \in SUBSET Lifecycle!CanCancel
  BY VisitedCanBeCancelled
<1>3. UNCHANGED <<Stage, Using, Asked>>
  BY StageSame, UsingSame, AskedSame
<1> QED
  BY <1>1, <1>2, <1>3 DEF Lifecycle!CancelSome

LEMMA MapVisitsDie ==
  ASSUME LifeInv, proc = "up", UNCHANGED rjob, NEW how, how # "up", Die(how),
         NEW S \in SUBSET (Visited \ Signalled),
         rstate' = [i \in Id |-> IF i \in S THEN "cancelled" ELSE rstate[i]]
  PROVE  Lifecycle!Next
<1>1. Lifecycle!CancelAll(S)
  BY DEF Lifecycle!CancelAll
<1>2. S \in SUBSET Lifecycle!CanCancel
  BY VisitedCanBeCancelled
<1>3. Lifecycle!Crash
  BY <1>1, <1>2, DieCrashes DEF LifeInv, SafeInv
<1> QED
  BY <1>3 DEF Lifecycle!Next

\* The visit of a focus task's executor ends the process: the rows before it are
\* cancelled already.
LEMMA MapExecutorsDie ==
  ASSUME LifeInv, proc = "up", CancelExecutorsDies PROVE Lifecycle!Next
<1>1. PICK n \in Signalled :
        rstate' = [i \in Id |-> IF i < n /\ i \in Visited \ Signalled THEN "cancelled"
                                ELSE rstate[i]]
  BY DEF CancelExecutorsDies
<1> DEFINE S == {i \in Visited \ Signalled : i < n}
<1>2. rstate' = [i \in Id |-> IF i \in S THEN "cancelled" ELSE rstate[i]]
  BY <1>1
<1>3. Die("segv") /\ UNCHANGED rjob
  BY DEF CancelExecutorsDies
<1> HIDE DEF S
<1>4. S \in SUBSET (Visited \ Signalled)
  BY DEF S
<1> QED
  BY <1>2, <1>3, <1>4, MapVisitsDie

\* The calls of the clients.
LEMMA MapCall ==
  ASSUME LifeInv, NEW c \in Client, Call(c) PROVE Lifecycle!Next \/ NoEffect
<1> USE DEF table, executors, queue, main, clients
<1>0. TypeOK /\ proc = "up" /\ cpc[c] = "ready"
  BY DEF Call, Start, Stop, Submit, CancelRead, CancelAll, RemoveCheck, Wait, Shutdown,
         Destroy, Ready, LifeInv, SafeInv
<1>1. CASE Submit(c)
  <2>1. PICK i \in Id, j \in Job : /\ NextId(i)
                                   /\ rstate' = [rstate EXCEPT ![i] = "pending"]
                                   /\ rjob' = [rjob EXCEPT ![i] = j]
    BY <1>1 DEF Submit
  <2>2. rstate[i] = "absent"
    BY <2>1, IdAssumption DEF NextId
  <2>3. UNCHANGED <<Stage, Using, Asked, proc>>
    BY <1>1, StageSame, UsingSame, AskedSame DEF Submit
  <2>4. Lifecycle!Submit(i)
    BY <1>0, <2>1, <2>2, <2>3 DEF Lifecycle!Submit
  <2> QED
    BY <2>4 DEF Lifecycle!Next
<1>2. CASE CancelRead(c)
  <2>1. PICK i \in Id : /\ cid' = [cid EXCEPT ![c] = i]
                        /\ cpc' = [cpc EXCEPT ![c] = IF rstate[i] = "pending"
                                                     THEN "cancelPending" ELSE "cancelFind"]
    BY <1>2 DEF CancelRead
  <2>2. UNCHANGED <<rstate, rjob, Stage, Using, proc>>
    BY <1>2, StageSame, UsingSame DEF CancelRead
  <2>3. CASE rstate[i] = "pending"
    <3>1. Asked' = Asked \cup {i}
      BY <1>0, <2>1, <2>3 DEF Asked, TypeOK
    <3>2. Lifecycle!Ask(i)
      BY <1>0, <2>2, <2>3, <3>1 DEF Lifecycle!Ask
    <3> QED
      BY <3>2 DEF Lifecycle!Next
  <2>4. CASE rstate[i] # "pending"
    <3>1. UNCHANGED Asked
      BY <1>0, <2>1, <2>4, AskedSame DEF TypeOK
    <3> QED
      BY <2>2, <3>1 DEF NoEffect
  <2> QED
    BY <2>3, <2>4
<1>3. CASE CancelAll(c)
  <2>1. CASE CancelExecutors /\ UNCHANGED <<rjob, inmap, xpc, xjob, proc, cpc, cid>>
    BY <1>0, <2>1, MapVisits DEF Lifecycle!Next
  <2> QED
    BY <1>0, <1>3, <2>1, MapExecutorsDie DEF CancelAll
<1>4. CASE Destroy(c)
  <2>1. CASE /\ CancelExecutors
             /\ \E pc \in {"destroyJoin", "destroyWait"} : cpc' = [cpc EXCEPT ![c] = pc]
             /\ UNCHANGED <<rjob, inmap, xpc, xjob, proc, cid>>
    <3>1. \A d \in Client : cpc'[d] = "cancelPending" <=> cpc[d] = "cancelPending"
      BY <1>0, <2>1 DEF TypeOK
    <3> QED
      BY <1>0, <2>1, <3>1, MapVisits DEF Lifecycle!Next
  <2>2. CASE /\ rstate' = [i \in Id |-> IF i \in Visited \ Signalled THEN "cancelled"
                                         ELSE rstate[i]]
             /\ Die("abort")
             /\ UNCHANGED rjob
    BY <1>0, <2>2, MapVisitsDie
  <2>3. CASE Die("exit") /\ UNCHANGED table
    BY <1>0, <2>3, DieQuietly
  <2> QED
    BY <1>0, <1>4, <2>1, <2>2, <2>3, MapExecutorsDie DEF Destroy
<1>5. CASE Start(c)
  <2>1. CASE Die("abort") /\ UNCHANGED table
    BY <1>0, <2>1, DieQuietly
  <2>2. CASE UNCHANGED <<table, executors, proc, clients>>
    BY <2>2, StageSame, UsingSame, AskedSame DEF NoEffect
  <2> QED
    BY <1>5, <2>1, <2>2 DEF Start
<1>6. CASE Stop(c)
  BY <1>6, StageSame, UsingSame, AskedSame DEF Stop, NoEffect
<1>7. CASE RemoveCheck(c) \/ Wait(c) \/ Shutdown(c)
  <2>1. UNCHANGED <<rstate, rjob, inmap, xpc, xjob, proc>>
    BY <1>7 DEF RemoveCheck, Wait, Shutdown
  <2>2. \A d \in Client : /\ cpc'[d] = "cancelPending" <=> cpc[d] = "cancelPending"
                          /\ cpc[d] = "cancelPending" => cid'[d] = cid[d]
    BY <1>0, <1>7 DEF RemoveCheck, Wait, Shutdown, TypeOK
  <2> QED
    BY <2>1, <2>2, StageSame, UsingSame, AskedSame DEF NoEffect
<1> QED
  BY <1>1, <1>2, <1>3, <1>4, <1>5, <1>6, <1>7 DEF Call

\* The rest of cancel(id), remove(id) and the calls that wait.
LEMMA MapContinue ==
  ASSUME LifeInv, NEW c \in Client, Continue(c) PROVE Lifecycle!Next \/ NoEffect
<1> USE DEF table, executors, queue, main, clients
<1>0. TypeOK /\ proc = "up" /\ cpc[c] # "ready"
  BY DEF Continue, CancelPending, CancelFind, CancelSignal, CancelDangling, RemoveLocked,
         WaitResume, ShutdownJoin, DestroyJoin, LifeInv, SafeInv, Calls
<1>1. CASE CancelPending(c)
  <2>1. cid[c] \in Asked /\ cid[c] \in Id
    BY <1>0, <1>1 DEF CancelPending, Asked, TypeOK
  <2>2. Asked' \in {Asked, Asked \ {cid[c]}}
    <3>1. Asked' = {cid[d] : d \in {e \in Client : e # c /\ cpc[e] = "cancelPending"}}
      BY <1>0, <1>1 DEF CancelPending, Return, Asked, TypeOK
    <3> QED
      BY <1>1, <3>1 DEF CancelPending, Asked
  <2>3. Lifecycle!Write(cid[c], "cancelled")
    BY <1>0, <1>1, <2>1, WriteRowWrites DEF CancelPending
  <2>4. UNCHANGED <<rjob, Stage, Using, proc>>
    BY <1>1, StageSame, UsingSame DEF CancelPending
  <2>5. Lifecycle!Cancel(cid[c])
    BY <2>1, <2>2, <2>3, <2>4 DEF Lifecycle!Cancel
  <2> QED
    BY <2>1, <2>5 DEF Lifecycle!Next
<1>2. CASE RemoveLocked(c)
  <2>1. UNCHANGED <<Stage, Using, Asked, proc>>
    <3>1. \A d \in Client : /\ cpc'[d] = "cancelPending" <=> cpc[d] = "cancelPending"
                            /\ cpc[d] = "cancelPending" => cid'[d] = cid[d]
      BY <1>0, <1>2 DEF RemoveLocked, Return, TypeOK
    <3> QED
      BY <1>2, <3>1, StageSame, UsingSame, AskedSame DEF RemoveLocked
  <2>2. CASE UNCHANGED table
    BY <2>1, <2>2 DEF NoEffect
  <2>3. CASE ~UNCHANGED table
    <3>1. /\ rstate[cid[c]] \notin {"absent", "executing"}
          /\ rstate' = [rstate EXCEPT ![cid[c]] = "absent"]
          /\ rjob' = [rjob EXCEPT ![cid[c]] = DefaultJob]
      BY <1>2, <2>3 DEF RemoveLocked
    <3>2. cid[c] \in Id /\ rstate[cid[c]] \in {"pending"} \cup Lifecycle!Ended
      BY <1>0, <3>1 DEF TypeOK, RowState, Ended, Lifecycle!Ended
    <3>3. "remove" \in Ops
      BY <1>2 DEF RemoveLocked, LifeInv, Calls, NoRemoval
    <3>4. Lifecycle!Remove(cid[c])
      BY <1>0, <2>1, <3>1, <3>2, <3>3, Defaults DEF Lifecycle!Remove
    <3> QED
      BY <3>2, <3>4 DEF Lifecycle!Next
  <2> QED
    BY <2>2, <2>3
<1>3. CASE \E how \in {"segv", "exit"} : Die(how) /\ UNCHANGED table
  BY <1>0, <1>3, DieQuietly
<1>4. CASE /\ UNCHANGED <<rstate, rjob, inmap, xpc, xjob, proc>>
           /\ \A d \in Client : /\ cpc'[d] = "cancelPending" <=> cpc[d] = "cancelPending"
                                /\ cpc[d] = "cancelPending" => cid'[d] = cid[d]
  BY <1>4, StageSame, UsingSame, AskedSame DEF NoEffect
<1>5. CASE CancelFind(c) \/ CancelSignal(c) \/ CancelDangling(c)
  BY <1>0, <1>3, <1>4, <1>5 DEF CancelFind, CancelSignal, CancelDangling, Return, TypeOK
<1>6. CASE WaitResume(c) \/ ShutdownJoin(c) \/ DestroyJoin(c)
  BY <1>0, <1>3, <1>4, <1>6 DEF WaitResume, ShutdownJoin, DestroyJoin, TypeOK
<1> QED
  BY <1>1, <1>2, <1>5, <1>6 DEF Continue

\* Wakeups, crashes and restarts.
LEMMA MapProcess ==
  ASSUME LifeInv, SpuriousWakeup \/ Crash \/ Restart \/ RestartFaults
  PROVE  Lifecycle!Next \/ NoEffect
<1> USE DEF table, executors, queue, main, clients
<1>0. TypeOK
  BY DEF LifeInv, SafeInv
<1>1. CASE SpuriousWakeup
  <2>1. \A d \in Client : cpc'[d] = "cancelPending" <=> cpc[d] = "cancelPending"
    BY <1>0, <1>1 DEF SpuriousWakeup, TypeOK
  <2> QED
    BY <1>1, <2>1, StageSame, UsingSame, AskedSame DEF SpuriousWakeup, NoEffect
<1>2. CASE Crash
  BY <1>0, <1>2, DieQuietly DEF Crash
<1>3. CASE Restart \/ RestartFaults
  <2>1. UNCHANGED <<rjob, Stage, Using, Asked>>
    BY <1>3, StageSame, UsingSame, AskedSame DEF Restart, RestartFaults
  <2>2. \/ rstate' = [i \in Id |-> IF rstate[i] = "executing" THEN "failed" ELSE rstate[i]]
        \/ DbFaults /\ UNCHANGED rstate
    BY <1>3 DEF Restart, RestartFaults, Recovered
  <2>3. proc # "up" /\ proc' = "up"
    BY <1>3 DEF Restart, RestartFaults
  <2>4. Lifecycle!Recover
    BY <2>1, <2>2, <2>3 DEF Lifecycle!Recover
  <2> QED
    BY <2>4 DEF Lifecycle!Next
<1> QED
  BY <1>1, <1>2, <1>3

\* The queue implements the life cycle, whatever its clients call, whatever the
\* database refuses and wherever the process dies (all of src/control/lib/task).
THEOREM QueueImplements == Spec => Implements
<1>1. Init => Lifecycle!Init
  <2> SUFFICES ASSUME Init PROVE Lifecycle!Init
    OBVIOUS
  <2>1. rjob \in [Id -> Job]
    BY Defaults DEF Init
  <2>2. Stage = [i \in Id |-> "none"]
    BY StageNames DEF Init, Stage
  <2>3. Holders = {} /\ Asked = {}
    BY DEF Init, Holders, Asked
  <2>4. Using = [h \in {} |-> rjob[h]]
    BY <2>3 DEF Using
  <2> QED
    BY <2>1, <2>2, <2>3, <2>4 DEF Init, Lifecycle!Init
<1>2. LifeInv /\ [Next]_vars => [Lifecycle!Next]_(Lifecycle!vars)
  <2> SUFFICES ASSUME LifeInv, [Next]_vars PROVE Lifecycle!Next \/ NoEffect
    BY NoEffectStutters
  <2>1. CASE UNCHANGED vars
    BY <2>1, StageSame, UsingSame, AskedSame
    DEF vars, table, queue, executors, main, clients, NoEffect
  <2> QED
    BY <2>1, MapMain, MapExecutor, MapCall, MapContinue, MapProcess DEF Next
<1> QED
  BY <1>1, <1>2, Life, PTL DEF Spec, Implements, Lifecycle!Spec

---------------------------------------------------------------------------
\* What the life cycle promises, for every behaviour of it

Kept == /\ rstate = [i \in Id |-> rstate[i]]
        /\ Lifecycle!Exclusive
        /\ Lifecycle!Truthful

LEMMA KeptStep == ASSUME Kept, Lifecycle!Next PROVE Kept'
<1> USE DEF Kept
<1>0. /\ \A j, k : ShareDevice(j, k) => ShareDevice(k, j)
      /\ Stage = [i \in Id |-> Stage[i]]
  BY DEF ShareDevice, Stage
<1> HIDE DEF Kept
<1>1. rstate' = [i \in Id |-> rstate'[i]]
  BY DEF Kept, Lifecycle!Next, Lifecycle!Submit, Lifecycle!Claim, Lifecycle!Begin, Lifecycle!Release,
         Lifecycle!End, Lifecycle!Reject, Lifecycle!Ask, Lifecycle!Cancel, Lifecycle!Remove,
         Lifecycle!CancelSome, Lifecycle!Crash, Lifecycle!Recover, Lifecycle!Write,
         Lifecycle!CancelAll
<1>2. Lifecycle!Exclusive'
  <2>1. ASSUME NEW i \in Id, Lifecycle!Claim(i) PROVE Lifecycle!Exclusive'
    BY <1>0, <2>1 DEF Kept, Lifecycle!Claim, Lifecycle!Exclusive, Lifecycle!Holders
  <2>2. ASSUME NEW i \in Id, Lifecycle!Release(i) PROVE Lifecycle!Exclusive'
    BY <2>2 DEF Kept, Lifecycle!Release, Lifecycle!Exclusive, Lifecycle!Holders
  <2>3. CASE Lifecycle!Crash
    BY <2>3 DEF Lifecycle!Crash, Lifecycle!Exclusive, Lifecycle!Holders
  <2>4. CASE UNCHANGED Using
    BY <2>4 DEF Kept, Lifecycle!Exclusive, Lifecycle!Holders
  <2> QED
    BY <2>1, <2>2, <2>3, <2>4
    DEF Lifecycle!Next, Lifecycle!Submit, Lifecycle!Begin, Lifecycle!End, Lifecycle!Reject,
        Lifecycle!Ask, Lifecycle!Cancel, Lifecycle!Remove, Lifecycle!CancelSome,
        Lifecycle!Recover
<1>3. Lifecycle!Truthful'
  <2> SUFFICES ASSUME (proc = "up")', ~DbFaults, "remove" \notin Ops, NEW k \in Id,
                      rstate'[k] = "executing"
               PROVE  Stage'[k] \in {"working", "over"}
    BY DEF Lifecycle!Truthful
  <2>1. proc = "up" => (rstate[k] = "executing" => Stage[k] \in {"working", "over"})
    BY DEF Kept, Lifecycle!Truthful
  <2>2. ASSUME NEW i \in Id, Lifecycle!Begin(i) PROVE Stage'[k] \in {"working", "over"}
    BY <1>0, <2>1, <2>2 DEF Kept, Lifecycle!Begin, Lifecycle!Write
  <2>3. ASSUME NEW i \in Id, Lifecycle!Release(i) PROVE Stage'[k] \in {"working", "over"}
    BY <1>0, <2>1, <2>3 DEF Lifecycle!Release
  <2>4. ASSUME NEW i \in Id, Lifecycle!End(i) PROVE Stage'[k] \in {"working", "over"}
    <3>1. k # i
      BY <2>4 DEF Kept, Lifecycle!End, Lifecycle!Shows, Lifecycle!Write, Lifecycle!Ended
    <3> QED
      BY <1>0, <2>1, <2>4, <3>1 DEF Kept, Lifecycle!End, Lifecycle!Write
  <2>5. CASE UNCHANGED Stage /\ proc = "up" /\ rstate[k] = "executing"
    BY <2>1, <2>5
  <2>6. ASSUME NEW i \in Id, Lifecycle!Claim(i) PROVE Stage'[k] \in {"working", "over"}
    <3>1. k # i /\ rstate[k] = "executing" /\ proc = "up"
      BY <2>6 DEF Lifecycle!Claim
    <3> QED
      BY <1>0, <2>1, <2>6, <3>1 DEF Lifecycle!Claim
  <2>7. ASSUME NEW i \in Id, Lifecycle!Submit(i) \/ Lifecycle!Reject(i) \/ Lifecycle!Ask(i)
                              \/ Lifecycle!Cancel(i) \/ Lifecycle!Remove(i)
        PROVE  Stage'[k] \in {"working", "over"}
    BY <2>5, <2>7 DEF Kept, Lifecycle!Submit, Lifecycle!Reject, Lifecycle!Ask,
                      Lifecycle!Cancel, Lifecycle!Remove, Lifecycle!Write
  <2>8. CASE Lifecycle!CancelSome
    BY <2>5, <2>8 DEF Lifecycle!CancelSome, Lifecycle!CancelAll
  <2>9. ~Lifecycle!Crash /\ ~Lifecycle!Recover
    BY DEF Lifecycle!Crash, Lifecycle!Recover
  <2> QED
    BY <2>2, <2>3, <2>4, <2>6, <2>7, <2>8, <2>9 DEF Lifecycle!Next
<1> QED
  BY <1>1, <1>2, <1>3 DEF Kept

\* The life cycle alone, cancellations and crashes included, keeps tasks that need
\* a common device apart; and while no task is removed and the table does not fail,
\* a task shown as executing is worked on (TaskQueue::blocks, TaskQueue::post).
THEOREM LifecycleKeeps == Lifecycle!Spec => [](Lifecycle!Exclusive /\ Lifecycle!Truthful)
<1>1. Lifecycle!Init => Kept
  BY DEF Lifecycle!Init, Kept, Lifecycle!Exclusive, Lifecycle!Truthful, Lifecycle!Holders
<1>2. Kept /\ [Lifecycle!Next]_(Lifecycle!vars) => Kept'
  BY KeptStep DEF Lifecycle!vars, Kept, Lifecycle!Exclusive, Lifecycle!Truthful, Lifecycle!Holders
<1>3. Kept => Lifecycle!Exclusive /\ Lifecycle!Truthful
  BY DEF Kept
<1> QED
  BY <1>1, <1>2, <1>3, PTL DEF Lifecycle!Spec
=============================================================================
