----------------------------- MODULE TaskQueue -----------------------------
(***************************************************************************)
(* The task queue of the observatory server: src/control/lib/task and the  *)
(* ICE servant in front of it.                                             *)
(*                                                                         *)
(* Actors: the queue thread (TaskQueue::main), one executor thread per     *)
(* launched task (TaskExecutor::main) and any number of client threads     *)
(* that call the public methods.  They share queue_mutex, the executor     *)
(* map, the cleanup queue _idqueue and the task table in the database.     *)
(*                                                                         *)
(* An action is what a thread does in one tenure of queue_mutex, cut       *)
(* further wherever another thread may look at or change the same state    *)
(* without the mutex: TaskQueue::cancel(id) and TaskQueue::remove(id) read *)
(* the table and the executor map before they lock, and an executor writes *)
(* the state of its task without the lock.                                 *)
(***************************************************************************)
EXTENDS Naturals, Sequences, FiniteSets

CONSTANTS
  Id,        \* the task ids the table can hold; bounds the number of rows
  Job,       \* the jobs a client can submit
  NoDevice,  \* the empty device url
  Client,    \* client threads
  Ops,       \* the methods the clients call, see OpNames
  DbFaults,  \* TRUE: a database statement can throw
  Crashes    \* TRUE: the process can die between any two steps

Kind == {"exposure", "sleep", "dither", "focus"}

OpNames == {"start", "stop", "submit", "cancel", "cancelAll", "remove",
            "wait", "shutdown", "destroy"}

ASSUME IdAssumption == Id \subseteq Nat /\ Id # {}
ASSUME JobAssumption ==
  Job # {} /\ \A j \in Job : /\ DOMAIN j = {"kind", "camera", "ccd", "cooler", "filterwheel"}
                             /\ j.kind \in Kind
ASSUME OpsAssumption == Ops \subseteq OpNames
ASSUME FaultAssumption == DbFaults \in BOOLEAN /\ Crashes \in BOOLEAN

VARIABLES
  \* the task table: survives the process
  rstate,    \* state of a row, "absent" if there is no such row
  rjob,      \* the parameters of a row
  rfile,     \* TRUE: the row names the image file the task produced
  \* the process
  proc,      \* "up", or how the process ended
  qstate,    \* TaskQueue::_state
  joinable,  \* TaskQueue::_thread holds a thread that was not joined
  idqueue,   \* TaskQueue::_idqueue
  inmap,     \* ids that have an entry in TaskQueue::executors
  xpc,       \* where the thread of an executor is
  xstate,    \* the state in the executor's own copy of the entry, _task
  xjob,      \* the job in that copy
  xcancel,   \* CancellableWork::_cancelled of the executor's work
  mpc,       \* where the queue thread is
  todo,      \* ids the launch pass of the queue thread has yet to look at
  cpc,       \* where a client thread is
  cid        \* the id a client thread's call is about

table == <<rstate, rjob, rfile>>
executors == <<inmap, xpc, xstate, xjob, xcancel>>
queue == <<proc, qstate, joinable, idqueue>>
main == <<mpc, todo>>
clients == <<cpc, cid>>
vars == <<table, queue, executors, main, clients>>

Ended == {"complete", "failed", "cancelled"}
RowState == {"absent", "pending", "executing"} \cup Ended
QueueState == {"idle", "launching", "stopping", "stopped"}
ExecutorPc == {"none", "posting", "running", "ended", "exited"}
MainPc == {"none", "fresh", "cleaning", "launching", "waiting", "woken",
           "stuck", "returned"}
ClientPc == {"ready", "cancelPending", "cancelFind", "cancelSignal",
             "cancelDangling", "removeLock", "waiting", "woken", "join",
             "destroyWait", "destroyJoin"}

---------------------------------------------------------------------------
\* Helpers

\* No thread holds queue_mutex between two steps.
LockFree ==
  /\ mpc \notin {"cleaning", "launching", "stuck"}
  /\ \A c \in Client : cpc[c] \notin {"destroyWait", "destroyJoin"}

\* Definitions whose name ends in Slip are mistakes a change of the code could
\* make; each stands before the definition it would replace, and the README
\* names the property that notices it.

\* statechange_cond.notify_one(): only the queue thread waits on it.
NotifiedSlip == mpc
Notified == IF mpc = "waiting" THEN "woken" ELSE mpc

\* wait_cond.notify_all()
WaitersNotifiedSlip == cpc
WaitersNotified == [c \in Client |-> IF cpc[c] = "waiting" THEN "woken" ELSE cpc[c]]

DefaultJob == CHOOSE j \in Job : TRUE
DefaultId == CHOOSE i \in Id : TRUE

\* A call returns to its client.
Return(c) ==
  /\ cpc' = [cpc EXCEPT ![c] = "ready"]
  /\ cid' = [cid EXCEPT ![c] = DefaultId]

\* TaskQueueEntry::blocks, for a pending other entry: do two jobs share a device?
Conflict(j, k) ==
  \/ j.camera = k.camera
  \/ j.ccd = k.ccd
  \/ j.cooler # NoDevice /\ j.cooler = k.cooler
  \/ j.filterwheel # NoDevice /\ j.filterwheel = k.filterwheel

\* TaskExecutor::blocks: an executor that failed or was cancelled blocks nothing.
Blocks(i, j) ==
  /\ xstate[i] \notin {"failed", "cancelled"}
  /\ Conflict(xjob[i], j)

\* TaskQueue::blocks
BlockedSlip(j) == \E i \in inmap : xpc[i] = "running" /\ Blocks(i, j)
Blocked(j) == \E i \in inmap : Blocks(i, j)

\* TableBase::nextid: ids of removed rows at the end of the table come again.
NextId(i) ==
  LET used == {k \in Id : rstate[k] # "absent"}
  IN  IF used = {} THEN i = 1
      ELSE \E k \in used : i = k + 1 /\ \A l \in used : l <= k

\* The rows launch() looks for.
PendingSlip == {i \in Id : rstate[i] \in {"pending", "executing"}}
Pending == {i \in Id : rstate[i] = "pending"}

\* CancellableWork::cancel through the executor.  A focus task has no work
\* object; its executor calls cancel() on a null pointer.
NullWork(i) == xjob[i].kind = "focus"

---------------------------------------------------------------------------
Init ==
  /\ rstate = [i \in Id |-> "absent"]
  /\ rjob = [i \in Id |-> DefaultJob]
  /\ rfile = [i \in Id |-> FALSE]
  /\ proc = "up"
  /\ qstate = "idle"
  /\ joinable = FALSE
  /\ idqueue = <<>>
  /\ inmap = {}
  /\ xpc = [i \in Id |-> "none"]
  /\ xstate = [i \in Id |-> "pending"]
  /\ xjob = [i \in Id |-> DefaultJob]
  /\ xcancel = [i \in Id |-> FALSE]
  /\ mpc = "none"
  /\ todo = {}
  /\ cpc = [c \in Client |-> "ready"]
  /\ cid = [c \in Client |-> DefaultId]

\* The process ends: everything but the table is gone.
Die(how) ==
  /\ proc' = how
  /\ qstate' = "idle"
  /\ joinable' = FALSE
  /\ idqueue' = <<>>
  /\ inmap' = {}
  /\ xpc' = [i \in Id |-> "none"]
  /\ xstate' = [i \in Id |-> "pending"]
  /\ xjob' = [i \in Id |-> DefaultJob]
  /\ xcancel' = [i \in Id |-> FALSE]
  /\ mpc' = "none"
  /\ todo' = {}
  /\ cpc' = [c \in Client |-> "ready"]
  /\ cid' = [c \in Client |-> DefaultId]

---------------------------------------------------------------------------
\* The queue thread

\* The condition of the loop in main().
KeepsRunningSlip == qstate \notin {"idle", "stopped"}
KeepsRunningSlip2 == TRUE
KeepsRunning == qstate # "idle"

\* main() acquires the mutex: at the start of the thread, or coming out of
\* statechange_cond.wait(), and evaluates its loop condition.
MainAcquire ==
  /\ mpc \in {"fresh", "woken"}
  /\ LockFree
  /\ mpc' = IF KeepsRunning THEN "cleaning" ELSE "returned"
  /\ UNCHANGED <<table, queue, executors, todo, clients>>

\* cleanup(i) joins the executor and erases it from the map, if it is there, and
\* those waiting on wait_cond are notified before the mutex is free again.
Reap(i) ==
  /\ idqueue' = Tail(idqueue)
  /\ inmap' = inmap \ {i}
  /\ xpc' = [xpc EXCEPT ![i] = "none"]
  /\ xstate' = [xstate EXCEPT ![i] = "pending"]
  /\ xjob' = [xjob EXCEPT ![i] = DefaultJob]
  /\ xcancel' = [xcancel EXCEPT ![i] = FALSE]
  /\ cpc' = [c \in Client |-> IF cpc[c] = "cancelSignal" /\ cid[c] = i
                              THEN "cancelDangling" ELSE WaitersNotified[c]]
  /\ UNCHANGED <<table, proc, qstate, joinable, main, cid>>

\* One round of the cleanup loop: pop an id and clean up after it.  The
\* destructor of the executor calls cancel() of its work.
MainCleanup ==
  /\ mpc = "cleaning"
  /\ idqueue # <<>>
  /\ LET i == Head(idqueue)
     IN  /\ i \in inmap => xpc[i] = "exited"
         /\ \/ (i \in inmap => ~NullWork(i)) /\ Reap(i)
            \/ i \in inmap /\ NullWork(i) /\ Die("segv") /\ UNCHANGED table

\* After the cleanup: stopping becomes stopped when no executor is left, and a
\* launching queue looks up the pending ids.
MainCheck ==
  /\ mpc = "cleaning"
  /\ idqueue = <<>>
  /\ mpc' = "launching"
  /\ IF qstate = "stopping" /\ inmap = {}
     THEN qstate' = "stopped" /\ cpc' = WaitersNotified
     ELSE UNCHANGED <<qstate, cpc>>
  /\ todo' = IF qstate = "launching" THEN Pending ELSE {}
  /\ UNCHANGED <<table, proc, joinable, idqueue, executors, cid>>

\* launch() takes the pending ids in ascending order.
NextTodo(i) == i \in todo /\ \A k \in todo : i <= k

MainSkipBlocked(i) ==
  /\ mpc = "launching"
  /\ NextTodo(i)
  /\ Blocked(rjob[i])
  /\ todo' = todo \ {i}
  /\ UNCHANGED <<table, queue, executors, mpc, clients>>

\* launch(entry): create the executor, enter it into the map, release it from
\* its barrier.  If the map already has the id, insert() does nothing; the new
\* executor is destroyed at the end of launch(entry), and its destructor joins
\* a thread that waits for the mutex the queue thread holds.
MainLaunch(i) ==
  /\ mpc = "launching"
  /\ NextTodo(i)
  /\ ~Blocked(rjob[i])
  /\ IF i \in inmap
     THEN mpc' = "stuck" /\ UNCHANGED <<executors, todo>>
     ELSE /\ inmap' = inmap \cup {i}
          /\ xpc' = [xpc EXCEPT ![i] = "posting"]
          /\ xstate' = [xstate EXCEPT ![i] = "executing"]
          /\ xjob' = [xjob EXCEPT ![i] = rjob[i]]
          /\ todo' = todo \ {i}
          /\ UNCHANGED <<mpc, xcancel>>
  /\ UNCHANGED <<table, queue, clients>>

\* The executor cannot be constructed, e.g. a device is missing.
MainLaunchFails(i) ==
  /\ mpc = "launching"
  /\ NextTodo(i)
  /\ ~Blocked(rjob[i])
  /\ rjob[i].kind = "exposure"
  /\ rstate' = [rstate EXCEPT ![i] = "failed"]
  /\ todo' = todo \ {i}
  /\ UNCHANGED <<rjob, rfile, queue, executors, mpc, clients>>

MainWait ==
  /\ mpc = "launching"
  /\ todo = {}
  /\ mpc' = "waiting"
  /\ UNCHANGED <<table, queue, executors, todo, clients>>

\* A statement of the launch pass throws: main() is left by the exception,
\* queuemain() logs it, and the thread ends.
MainFault ==
  /\ DbFaults
  /\ mpc = "launching"
  /\ qstate = "launching"
  /\ mpc' = "returned"
  /\ todo' = {}
  /\ UNCHANGED <<table, queue, executors, clients>>

\* Condition variables may wake up for no reason.
SpuriousWakeup ==
  /\ \/ mpc = "waiting" /\ mpc' = "woken" /\ UNCHANGED cpc
     \/ /\ \E c \in Client : cpc[c] = "waiting" /\ cpc' = [cpc EXCEPT ![c] = "woken"]
        /\ UNCHANGED mpc
  /\ UNCHANGED <<table, queue, executors, todo, cid>>

---------------------------------------------------------------------------
\* Executor threads

\* update() of an existing row; a statement that finds no row changes nothing.
WriteRow(i, state, file) ==
  IF rstate[i] = "absent" THEN UNCHANGED <<rstate, rfile>>
  ELSE /\ rstate' = [rstate EXCEPT ![i] = state]
       /\ rfile' = [rfile EXCEPT ![i] = file]

\* The executor posts the state executing, then runs its work.
PostExecuting(i) ==
  /\ xpc[i] = "posting"
  /\ LockFree
  /\ WriteRow(i, "executing", FALSE)
  /\ xpc' = [xpc EXCEPT ![i] = "running"]
  /\ UNCHANGED <<rjob, queue, inmap, xstate, xjob, xcancel, main, clients>>

\* How the work of a job can end.  The work objects of sleep and dither tasks
\* catch the CancelException themselves.
Outcome(i) ==
  LET kind == xjob[i].kind
  IN  {"complete"} \cup (IF kind \in {"exposure", "dither"} THEN {"failed"} ELSE {})
                   \cup (IF kind = "exposure" /\ xcancel[i] THEN {"cancelled"} ELSE {})

\* taskwork->run() returns or throws; the state is written without the mutex.
RunEnds(i) ==
  /\ xpc[i] = "running"
  /\ \E s \in Outcome(i) : xstate' = [xstate EXCEPT ![i] = s]
  /\ xpc' = [xpc EXCEPT ![i] = "ended"]
  /\ UNCHANGED <<table, queue, inmap, xjob, xcancel, main, clients>>

\* The states after which post() hands the executor to the cleanup.
NeedsCleanupSlip(s) == s \in {"complete", "cancelled"}
NeedsCleanup(s) == s \in {"complete", "failed", "cancelled"}

\* post() of a final state: the row, the cleanup queue and the queue thread.
PostEnded(i) ==
  /\ xpc[i] = "ended"
  /\ LockFree
  /\ WriteRow(i, xstate[i], xstate[i] = "complete" /\ xjob[i].kind = "exposure")
  /\ IF NeedsCleanup(xstate[i])
     THEN idqueue' = Append(idqueue, i) /\ mpc' = Notified
     ELSE UNCHANGED <<idqueue, mpc>>
  /\ xpc' = [xpc EXCEPT ![i] = "exited"]
  /\ UNCHANGED <<rjob, proc, qstate, joinable, inmap, xstate, xjob, xcancel, todo, clients>>

\* The update of the first post() throws inside the try block: the task fails.
\* The update of the last one throws outside it: the thread just ends.
PostFaults(i) ==
  /\ DbFaults
  /\ LockFree
  /\ \/ /\ xpc[i] = "posting"
        /\ xstate' = [xstate EXCEPT ![i] = "failed"]
        /\ xpc' = [xpc EXCEPT ![i] = "ended"]
     \/ /\ xpc[i] = "ended"
        /\ xpc' = [xpc EXCEPT ![i] = "exited"]
        /\ UNCHANGED xstate
  /\ UNCHANGED <<table, queue, inmap, xjob, xcancel, main, clients>>

---------------------------------------------------------------------------
\* Clients

Ready(c, op) == proc = "up" /\ op \in Ops /\ cpc[c] = "ready"

\* start(), with restart() for an idle queue.  Assigning the new thread to
\* _thread while that still holds one that was not joined ends the process.
Start(c) ==
  /\ Ready(c, "start")
  /\ LockFree
  /\ \/ /\ qstate = "idle"
        /\ ~joinable
        /\ qstate' = "launching"
        /\ joinable' = TRUE
        /\ mpc' = "fresh"
        /\ UNCHANGED <<table, proc, idqueue, executors, todo, clients>>
     \/ /\ qstate = "idle"
        /\ joinable
        /\ Die("abort")
        /\ UNCHANGED table
     \/ /\ qstate \in {"stopping", "stopped"}
        /\ qstate' = "launching"
        /\ mpc' = Notified
        /\ UNCHANGED <<table, proc, joinable, idqueue, executors, todo, clients>>

\* The state stop() takes a launching queue to.
StopStateSlip == IF qstate = "launching" THEN "stopped" ELSE qstate
StopState == IF qstate = "launching"
             THEN IF inmap = {} THEN "stopped" ELSE "stopping"
             ELSE qstate

Stop(c) ==
  /\ Ready(c, "stop")
  /\ LockFree
  /\ qstate = "launching"
  /\ qstate' = StopState
  /\ mpc' = Notified
  /\ UNCHANGED <<table, proc, joinable, idqueue, executors, todo, clients>>

\* submit(), and resubmit() of the ICE servant, which submits the same job.
Submit(c) ==
  /\ Ready(c, "submit")
  /\ LockFree
  /\ \E i \in Id, j \in Job :
       /\ NextId(i)
       /\ rstate' = [rstate EXCEPT ![i] = "pending"]
       /\ rjob' = [rjob EXCEPT ![i] = j]
       /\ rfile' = [rfile EXCEPT ![i] = FALSE]
  /\ mpc' = Notified
  /\ UNCHANGED <<queue, executors, todo, clients>>

\* cancel(id) reads the row without the mutex ...
CancelRead(c) ==
  /\ Ready(c, "cancel")
  /\ \E i \in Id :
       /\ rstate[i] # "absent"
       /\ cid' = [cid EXCEPT ![c] = i]
       /\ cpc' = [cpc EXCEPT ![c] = IF rstate[i] = "pending"
                                    THEN "cancelPending" ELSE "cancelFind"]
  /\ UNCHANGED <<table, queue, executors, main>>

\* ... writes the copy it read, now cancelled, if it was pending then ...
CancelPending(c) ==
  /\ cpc[c] = "cancelPending"
  /\ LockFree
  /\ WriteRow(cid[c], "cancelled", FALSE)
  /\ Return(c)
  /\ UNCHANGED <<rjob, queue, executors, main>>

\* ... or else looks for the executor, also without the mutex ...
CancelFind(c) ==
  /\ cpc[c] = "cancelFind"
  /\ IF cid[c] \in inmap
     THEN cpc' = [cpc EXCEPT ![c] = "cancelSignal"] /\ UNCHANGED cid
     ELSE Return(c)
  /\ UNCHANGED <<table, queue, executors, main>>

\* ... and tells it to cancel.
CancelSignal(c) ==
  /\ cpc[c] = "cancelSignal"
  /\ \/ /\ ~NullWork(cid[c])
        /\ xcancel' = [xcancel EXCEPT ![cid[c]] = TRUE]
        /\ Return(c)
        /\ UNCHANGED <<table, queue, inmap, xpc, xstate, xjob, main>>
     \/ NullWork(cid[c]) /\ Die("segv") /\ UNCHANGED table

\* The queue thread erased the map entry meanwhile: undefined behaviour, here
\* either no effect or the end of the process.
CancelDangling(c) ==
  /\ cpc[c] = "cancelDangling"
  /\ \/ Return(c) /\ UNCHANGED <<table, queue, executors, main>>
     \/ Die("segv") /\ UNCHANGED table

\* cancel() visits the executors in the order of their ids; the visit of an id
\* whose row was removed throws and ends the loop.
Visited == {i \in inmap : \A k \in inmap : k <= i => rstate[k] # "absent"}
SignalledSlip == {i \in Visited : rstate[i] = "executing"}
Signalled == {i \in Visited : rstate[i] # "pending"}

\* The visit of a pending row cancels the row, any other visit the executor.
CancelExecutors ==
  /\ \A i \in Signalled : ~NullWork(i)
  /\ rstate' = [i \in Id |-> IF i \in Visited \ Signalled THEN "cancelled" ELSE rstate[i]]
  /\ xcancel' = [i \in Id |-> xcancel[i] \/ i \in Signalled]

\* The loop reaches an executor without work object.
CancelExecutorsDies ==
  /\ \E n \in Signalled :
       /\ NullWork(n)
       /\ \A k \in Signalled : k < n => ~NullWork(k)
       /\ rstate' = [i \in Id |->
            IF i < n /\ i \in Visited \ Signalled THEN "cancelled" ELSE rstate[i]]
  /\ Die("segv")
  /\ UNCHANGED <<rjob, rfile>>

CancelAll(c) ==
  /\ Ready(c, "cancelAll")
  /\ LockFree
  /\ \/ /\ CancelExecutors
        /\ UNCHANGED <<rjob, rfile, queue, inmap, xpc, xstate, xjob, main, clients>>
     \/ CancelExecutorsDies

\* remove(id) looks for an executor without the mutex ...
RemoveCheck(c) ==
  /\ Ready(c, "remove")
  /\ \E i \in Id :
       /\ rstate[i] # "absent"
       /\ i \notin inmap
       /\ cid' = [cid EXCEPT ![c] = i]
  /\ cpc' = [cpc EXCEPT ![c] = "removeLock"]
  /\ UNCHANGED <<table, queue, executors, main>>

\* ... and deletes the row with it, unless the row is executing or gone.
RemoveLocked(c) ==
  /\ cpc[c] = "removeLock"
  /\ LockFree
  /\ IF rstate[cid[c]] \in {"absent", "executing"}
     THEN UNCHANGED table
     ELSE /\ rstate' = [rstate EXCEPT ![cid[c]] = "absent"]
          /\ rfile' = [rfile EXCEPT ![cid[c]] = FALSE]
          /\ rjob' = [rjob EXCEPT ![cid[c]] = DefaultJob]
  /\ Return(c)
  /\ UNCHANGED <<queue, executors, main>>

\* wait() returns at once in state stopped and throws in idle or launching.
Wait(c) ==
  /\ Ready(c, "wait")
  /\ LockFree
  /\ qstate = "stopping"
  /\ cpc' = [cpc EXCEPT ![c] = "waiting"]
  /\ UNCHANGED <<table, queue, executors, main, cid>>

WaitResume(c) ==
  /\ cpc[c] = "woken"
  /\ LockFree
  /\ cpc' = [cpc EXCEPT ![c] = IF qstate = "stopped" THEN "ready" ELSE "waiting"]
  /\ UNCHANGED <<table, queue, executors, main, cid>>

Shutdown(c) ==
  /\ Ready(c, "shutdown")
  /\ LockFree
  /\ qstate = "stopped"
  /\ qstate' = "idle"
  /\ mpc' = Notified
  /\ cpc' = [cpc EXCEPT ![c] = "join"]
  /\ UNCHANGED <<table, proc, joinable, idqueue, executors, todo, cid>>

\* _thread.join()
ShutdownJoin(c) ==
  /\ cpc[c] = "join"
  /\ mpc = "returned"
  /\ mpc' = "none"
  /\ joinable' = FALSE
  /\ cpc' = [cpc EXCEPT ![c] = "ready"]
  /\ UNCHANGED <<table, proc, qstate, idqueue, executors, todo, cid>>

\* The destructor, when the server ends and no call is under way: stop(),
\* cancel(), wait(), shutdown(), all under the mutex it locked first.  wait()
\* and shutdown() give up only the inner one of the two locks.  An exception of
\* wait(), as on an idle queue, ends the destructor; an exception of cancel()
\* too, and destroys a thread that was not joined.
Destroy(c) ==
  /\ Ready(c, "destroy")
  /\ LockFree
  /\ \A d \in Client : cpc[d] = "ready"
  /\ \/ qstate = "idle" /\ Die("exit") /\ UNCHANGED table
     \/ /\ qstate # "idle"
        /\ Visited = inmap
        /\ CancelExecutors
        /\ qstate' = IF StopState = "stopped" THEN "idle" ELSE StopState
        /\ mpc' = Notified
        /\ cpc' = [cpc EXCEPT ![c] = IF StopState = "stopped" THEN "destroyJoin"
                                     ELSE "destroyWait"]
        /\ UNCHANGED <<rjob, rfile, proc, joinable, idqueue, inmap, xpc, xstate,
                       xjob, todo, cid>>
     \/ /\ Visited # inmap
        /\ \A i \in Signalled : ~NullWork(i)
        /\ rstate' = [i \in Id |-> IF i \in Visited \ Signalled THEN "cancelled" ELSE rstate[i]]
        /\ Die("abort")
        /\ UNCHANGED <<rjob, rfile>>
     \/ CancelExecutorsDies

DestroyJoin(c) ==
  /\ cpc[c] = "destroyJoin"
  /\ mpc = "returned"
  /\ Die("exit")
  /\ UNCHANGED table

---------------------------------------------------------------------------
\* The process

Crash ==
  /\ Crashes
  /\ proc = "up"
  /\ Die("crash")
  /\ UNCHANGED table

\* What recover() makes of the state of a row.
RecoveredSlip(s) == s
RecoveredSlip2(s) == IF s = "executing" THEN "server crash" ELSE s
RecoveredSlip3(s) == IF s = "absent" THEN s ELSE "failed"
Recovered(s) == IF s = "executing" THEN "failed" ELSE s

\* The server starts again: recover() before any client can call.
Restart ==
  /\ proc # "up"
  /\ proc' = "up"
  /\ rstate' = [i \in Id |-> Recovered(rstate[i])]
  /\ UNCHANGED <<rjob, rfile, qstate, joinable, idqueue, executors, main, clients>>

\* recover() ignores an error of its query.
RestartFaults ==
  /\ DbFaults
  /\ proc # "up"
  /\ proc' = "up"
  /\ UNCHANGED <<table, qstate, joinable, idqueue, executors, main, clients>>

---------------------------------------------------------------------------
Main ==
  \/ MainAcquire \/ MainCleanup \/ MainCheck \/ MainWait \/ MainFault
  \/ \E i \in Id : MainSkipBlocked(i) \/ MainLaunch(i) \/ MainLaunchFails(i)

Executor(i) == PostExecuting(i) \/ RunEnds(i) \/ PostEnded(i) \/ PostFaults(i)

\* The calls a client may make ...
Call(c) ==
  \/ Start(c) \/ Stop(c) \/ Submit(c) \/ CancelRead(c) \/ CancelAll(c)
  \/ RemoveCheck(c) \/ Wait(c) \/ Shutdown(c) \/ Destroy(c)

\* ... and the rest of a call it has made.
Continue(c) ==
  \/ CancelPending(c) \/ CancelFind(c) \/ CancelSignal(c) \/ CancelDangling(c)
  \/ RemoveLocked(c) \/ WaitResume(c) \/ ShutdownJoin(c) \/ DestroyJoin(c)

Next ==
  \/ Main
  \/ \E i \in Id : Executor(i)
  \/ \E c \in Client : Call(c) \/ Continue(c)
  \/ SpuriousWakeup \/ Crash \/ Restart \/ RestartFaults

Spec == Init /\ [][Next]_vars

\* Threads that can run do run, the work of a task ends, and a thread that
\* waits for queue_mutex gets it if the mutex is free again and again.
Fairness ==
  /\ WF_vars(Main)
  /\ \A i \in Id : SF_vars(Executor(i))
  /\ \A c \in Client : SF_vars(Continue(c))

FairSpec == Spec /\ Fairness

---------------------------------------------------------------------------
\* Properties

\* Every variable has its type: the table, the executor map, the program
\* counters of TaskQueue::main, TaskExecutor::main and the clients.
TypeOK ==
  /\ rstate \in [Id -> RowState]
  /\ rjob \in [Id -> Job]
  /\ rfile \in [Id -> BOOLEAN]
  /\ proc \in {"up", "crash", "abort", "segv", "exit"}
  /\ qstate \in QueueState
  /\ joinable \in BOOLEAN
  /\ idqueue \in Seq(Id)
  /\ inmap \subseteq Id
  /\ xpc \in [Id -> ExecutorPc]
  /\ xstate \in [Id -> RowState]
  /\ xjob \in [Id -> Job]
  /\ xcancel \in [Id -> BOOLEAN]
  /\ mpc \in MainPc
  /\ todo \subseteq Id
  /\ cpc \in [Client -> ClientPc]
  /\ cid \in [Client -> Id]

\* Two jobs name a common device.
ShareDevice(j, k) ==
  \E d \in {"camera", "ccd", "cooler", "filterwheel"} : j[d] # NoDevice /\ j[d] = k[d]

\* The executors that may be using their devices.
Holders == {i \in inmap : xpc[i] \in {"posting", "running"}}

\* No two executors ever use the same camera, ccd, cooler or filter wheel,
\* although launch() decides from the states that the executors change without
\* the mutex (TaskQueue::blocks, TaskQueueEntry::blocks).
ResourceExclusion ==
  \A i, k \in Holders : i # k => ~ShareDevice(xjob[i], xjob[k])

\* A queue that reports idle or stopped has no executor left: none that runs,
\* and none that waits to be cleaned up (TaskQueue::stop, TaskQueue::main).
QuietWhenStopped == qstate \in {"idle", "stopped"} => inmap = {}

\* A row says executing only as long as an executor of the running process
\* works on it, whatever crashed or was cancelled or removed meanwhile
\* (TaskQueue::post, TaskQueue::remove, TaskQueue::recover).
ExecutingHasExecutor ==
  proc = "up" =>
    \A i \in Id : rstate[i] = "executing" => i \in inmap /\ xpc[i] \in {"running", "ended"}

\* The cleanup queue holds exactly the executors that have posted their final
\* state, each once; so each is joined and erased once, and none is forgotten
\* (TaskQueue::post, TaskQueue::cleanup).
CleanupOnce ==
  /\ \A i \in inmap : xpc[i] = "exited" => \E k \in 1..Len(idqueue) : idqueue[k] = i
  /\ \A k \in 1..Len(idqueue) : idqueue[k] \in inmap /\ xpc[idqueue[k]] = "exited"
  /\ \A k, l \in 1..Len(idqueue) : k # l => idqueue[k] # idqueue[l]

\* launch() never launches an id that has an executor: "the task queue might
\* launch the task again" is what TaskExecutor.cpp says must not happen, and
\* the queue thread would wait for itself.
NoDoubleLaunch == mpc # "stuck"

\* In every state but idle the queue has its thread (TaskQueue::restart).
ThreadMatchesState ==
  qstate # "idle" => mpc \notin {"none", "returned"}

\* A final state of a row is final: only remove() changes it.
EndedIsFinal ==
  [][\A i \in Id : rstate[i] \in Ended => rstate'[i] \in {rstate[i], "absent"}]_vars

\* A final state that the queue has cleaned up after changes only by remove()
\* or by a cancel() that read the row while it was pending.
ReapedIsFinal ==
  [][\A i \in Id :
       rstate[i] \in Ended /\ i \notin inmap /\ rstate'[i] # rstate[i] =>
         \/ rstate'[i] = "absent"
         \/ \E c \in Client : cid[c] = i /\ cpc[c] = "cancelPending"]_vars

\* A queue that is stopping ends up stopped, or is started again.
StoppingEnds == qstate = "stopping" ~> qstate # "stopping"

\* Every executor whose thread has ended is cleaned up, in whatever state the
\* queue is, so that it no longer blocks other tasks.
ExecutorsReaped == \A i \in Id : xpc[i] = "exited" ~> i \notin inmap

\* The queue launches a task that blocks the pending task i.
Overtakes(i) ==
  rstate[i] = "pending" /\ \E k \in inmap' \ inmap : Blocks(k, rjob[i])'

\* A launching queue forgets no pending task: one that it never launches is
\* overtaken for ever by tasks that use its devices.  launch() keeps no device for
\* a task it skips, so that submissions without end can starve it.
PendingLaunched ==
  \A i \in Id :
    \/ rstate[i] = "pending" ~> rstate[i] # "pending" \/ qstate # "launching"
    \/ []<><<Overtakes(i)>>_vars

\* wait() on a stopping queue returns, unless the queue is started again or
\* shut down before the waiting thread gets the mutex.
WaitReturns ==
  \A c \in Client :
    cpc[c] = "waiting" /\ qstate = "stopping"
      ~> cpc[c] = "ready" \/ qstate \in {"launching", "idle"}

\* shutdown() returns: the queue thread notices the idle state and ends.
ShutdownReturns == \A c \in Client : cpc[c] = "join" ~> cpc[c] # "join"

---------------------------------------------------------------------------
\* The queue implements the abstract life cycle of its tasks.
StageOf(pc) == CASE pc = "posting" -> "claimed"
                 [] pc = "running" -> "working"
                 [] pc = "ended" -> "over"
                 [] OTHER -> "none"
Stage == [i \in Id |-> StageOf(xpc[i])]
Using == [i \in Holders |-> xjob[i]]
Asked == {cid[c] : c \in {d \in Client : cpc[d] = "cancelPending"}}

Lifecycle == INSTANCE TaskLifecycle
  WITH life <- rstate, job <- rjob, stage <- Stage, using <- Using, asked <- Asked,
       up <- proc = "up", Conflict <- ShareDevice, Removes <- "remove" \in Ops, Faults <- DbFaults

Implements == Lifecycle!Spec
=============================================================================
