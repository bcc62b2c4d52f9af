--------------------------- MODULE TaskLifecycle ---------------------------
(***************************************************************************)
(* What the task queue promises about the tasks in its table, without its  *)
(* mutex, condition variables, launch passes and cleanup: the life cycle   *)
(* of a task, what a cancellation can still do to it, and that two tasks   *)
(* that need a common device never hold their devices together.            *)
(* TaskQueue.tla is shown to implement this module, whatever its clients   *)
(* call and whatever fails.                                                *)
(***************************************************************************)
CONSTANTS
  Id,              \* the ids a task can have in the task table
  Job,             \* what a task asks for: a kind of work and its devices
  Conflict(_, _),  \* Conflict(j, k): the jobs j and k need a common device
  Removes,         \* TRUE: tasks can be removed
  Faults           \* TRUE: the table can fail to take a change

VARIABLES
  life,   \* the state of a task as the task table shows it
  job,    \* the job of a task
  stage,  \* how far the work on a task is: "none", "claimed" (it has its
          \* devices), "working" or "over" (the result is not in the table yet)
  using,  \* the jobs of the tasks that hold their devices
  asked,  \* tasks that somebody has found pending and is about to cancel
  up      \* TRUE: the process runs

vars == <<life, job, stage, using, asked, up>>

Ended == {"complete", "failed", "cancelled"}
Holders == DOMAIN using

Init ==
  /\ life = [i \in Id |-> "absent"]
  /\ job \in [Id -> Job]
  /\ stage = [i \in Id |-> "none"]
  /\ using = [h \in {} |-> job[h]]
  /\ asked = {}
  /\ up = TRUE

\* What a task that is worked on looks like in the table: if tasks are removed
\* or the table fails, that may be out of step with the work.
Shows(i, states) == life[i] \in states \/ Removes \/ Faults

\* The table takes a new state for a task that it still has.
Write(i, s) == life' = [life EXCEPT ![i] = IF life[i] = "absent" THEN "absent" ELSE s]

Submit(i) ==
  /\ up /\ life[i] = "absent"
  /\ life' = [life EXCEPT ![i] = "pending"]
  /\ \E j \in Job : job' = [job EXCEPT ![i] = j]
  /\ UNCHANGED <<stage, using, asked, up>>

\* A task takes its devices while it is pending, none of them being in use.
Claim(i) ==
  /\ up /\ life[i] = "pending" /\ stage[i] = "none"
  /\ \A h \in Holders : ~Conflict(using[h], job[i])
  /\ stage' = [stage EXCEPT ![i] = "claimed"]
  /\ using' = [h \in Holders \cup {i} |-> IF h = i THEN job[i] ELSE using[h]]
  /\ UNCHANGED <<life, job, asked, up>>

\* The work begins, also if the task was cancelled after it took its devices.
Begin(i) ==
  /\ stage[i] = "claimed" /\ Shows(i, {"pending", "cancelled"})
  /\ stage' = [stage EXCEPT ![i] = "working"]
  /\ Write(i, "executing")
  /\ UNCHANGED <<job, using, asked, up>>

\* The work ends, or does not begin because the table fails.
Release(i) ==
  /\ \/ stage[i] = "working"
     \/ stage[i] = "claimed" /\ Faults
  /\ stage' = [stage EXCEPT ![i] = "over"]
  /\ using' = [h \in Holders \ {i} |-> using[h]]
  /\ UNCHANGED <<life, job, asked, up>>

\* The result gets into the table, over a cancellation that came too late.
End(i) ==
  /\ stage[i] = "over" /\ Shows(i, {"executing", "cancelled"})
  /\ stage' = [stage EXCEPT ![i] = "none"]
  /\ \/ \E e \in Ended : Write(i, e)
     \/ Faults /\ UNCHANGED life
  /\ UNCHANGED <<job, using, asked, up>>

\* A task that cannot be launched.
Reject(i) ==
  /\ up /\ life[i] = "pending" /\ (stage[i] = "none" \/ Removes \/ Faults)
  /\ Write(i, "failed")
  /\ UNCHANGED <<job, stage, using, asked, up>>

\* A task is cancelled by its id: somebody finds it pending, and whatever has
\* become of it by then, cancels it.
Ask(i) ==
  /\ up /\ life[i] = "pending"
  /\ asked' = asked \cup {i}
  /\ UNCHANGED <<life, job, stage, using, up>>
Cancel(i) ==
  /\ i \in asked
  /\ Write(i, "cancelled")
  /\ asked' \in {asked, asked \ {i}}
  /\ UNCHANGED <<job, stage, using, up>>

\* All are cancelled: those that have taken their devices and not begun.
CanCancel == {i \in Id : life[i] = "pending" /\ (stage[i] = "claimed" \/ Removes \/ Faults)}
CancelAll(S) == life' = [i \in Id |-> IF i \in S THEN "cancelled" ELSE life[i]]

CancelSome ==
  /\ up
  /\ \E S \in SUBSET CanCancel : CancelAll(S)
  /\ UNCHANGED <<job, stage, using, asked, up>>

Remove(i) ==
  /\ up /\ Removes
  /\ life[i] \in {"pending"} \cup Ended
  /\ life' = [life EXCEPT ![i] = "absent"]
  /\ \E j \in Job : job' = [job EXCEPT ![i] = j]
  /\ UNCHANGED <<stage, using, asked, up>>

\* The process dies, perhaps in the middle of cancelling all: no task holds a
\* device any more.
Crash ==
  /\ up /\ up' = FALSE
  /\ \E S \in SUBSET CanCancel : CancelAll(S)
  /\ stage' = [i \in Id |-> "none"]
  /\ using' = [h \in {} |-> job[h]]
  /\ asked' = {}
  /\ UNCHANGED job

\* The process starts again and declares the interrupted tasks failed.
Recover ==
  /\ ~up /\ up' = TRUE
  /\ \/ life' = [i \in Id |-> IF life[i] = "executing" THEN "failed" ELSE life[i]]
     \/ Faults /\ UNCHANGED life
  /\ UNCHANGED <<job, stage, using, asked>>

Next ==
  \/ \E i \in Id : \/ Submit(i) \/ Claim(i) \/ Begin(i) \/ Release(i) \/ End(i)
                   \/ Reject(i) \/ Ask(i) \/ Cancel(i) \/ Remove(i)
  \/ CancelSome
  \/ Crash
  \/ Recover

Spec == Init /\ [][Next]_vars

---------------------------------------------------------------------------
\* What follows for the tasks

\* Tasks that need a common device do not hold their devices together.
Exclusive == \A h, k \in Holders : h # k => ~Conflict(using[h], using[k])

\* A task that is shown as executing is being worked on.
Truthful ==
  up /\ ~Removes /\ ~Faults =>
    \A i \in Id : life[i] = "executing" => stage[i] \in {"working", "over"}
=============================================================================
