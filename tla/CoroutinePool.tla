--------------------------- MODULE CoroutinePool ---------------------------
(***************************************************************************)
(* Tasks, the worker coroutines that run them, and the handles that wait   *)
(* for their results: co_pool/mod.rs, creator.rs, state.rs, task.rs and    *)
(* net/join.rs.                                                            *)
(*                                                                         *)
(* A pool belongs to the thread that schedules it.  Tasks and ready        *)
(* workers move between threads by work stealing, so both queues are one   *)
(* set from which any thread may take.  The steps of a worker and of the   *)
(* holder of a handle are the accesses to the maps they share.             *)
(***************************************************************************)
EXTENDS Naturals, Sequences, FiniteSets, Functions

CONSTANTS
  Pools,        \* pools, each with the thread that schedules it
  Ring,         \* the pools in the order of EventLoops.loops
  Workers,      \* identities of live worker coroutines, reused after an end
  Tasks,
  MinSize, MaxSize,  \* min_size and max_size of every pool
  Joiner,       \* [Tasks -> Tasks \cup {Outside}]: who waits for the result
  Outside,      \* a thread that runs no coroutine
  Cancellable,  \* tasks somebody may try to cancel
  Stoppable,    \* pools that may be stopped
  Timed,        \* do waits have a time limit?
  Suspending    \* tasks that suspend their coroutine, once

ASSUME PoolAssumption ==
  /\ IsFiniteSet(Workers)
  /\ Ring \in Seq(Pools) /\ Ring # <<>>
  /\ MinSize \in Nat /\ MaxSize \in Nat \ {0}
  /\ Joiner \in [Tasks -> Tasks \cup {Outside}]
  /\ Outside \notin Tasks
  /\ Cancellable \subseteq Tasks /\ Stoppable \subseteq Pools
  /\ Suspending \subseteq Tasks
  /\ Timed \in BOOLEAN

VARIABLES
  queue,          \* the tasks in the work-stealing queue
  place,          \* a worker is "none", "ready" or on the thread of a pool
  frames,         \* the calls of try_run a worker is in, the innermost last
  suspended,      \* tasks that have suspended
  pc,             \* where the thread of a pool is
  state, running, pop_fail_times,      \* fields of a pool
  results, waits, no_waits,            \* maps of a pool
  RUNNING_TASKS, CANCEL_TASKS,         \* maps of the process
  CANCEL_COROUTINES, signals,          \* cancelled workers, SIGVTALRM sent
  client,         \* where the holder of a task's handle is
  home,           \* the pool of the handle
  index,          \* the next pool of round_robin
  pending,        \* the flag the holder waits on
  asked,          \* history: tasks somebody tried to cancel
  killed,         \* history: was a suspended worker cancelled?
  panicked        \* has an assertion failed?

threads == <<pc, state, signals>>
pools == <<running, pop_fail_times>>
workers == <<place, frames, suspended>>
maps == <<results, waits, no_waits>>
statics == <<RUNNING_TASKS, CANCEL_TASKS, CANCEL_COROUTINES>>
clients == <<client, home, index, pending>>
history == <<asked, killed, panicked>>
vars == <<queue, threads, pools, workers, maps, statics, clients, history>>

Nobody == "nobody"   \* no entry in RUNNING_TASKS
Dead == "dead"       \* an entry that names a coroutine that is gone

Outcomes == {"done", "stopped"}
Steps == {"begin", "task", "spin", "look", "store", "notify"}
Frame == [task : Tasks, pool : Pools, at : Steps, target : Tasks \cup {Outside}]

TypeOK ==
  /\ queue \subseteq Tasks
  /\ place \in [Workers -> {"none", "ready"} \cup Pools]
  /\ \A w \in Workers : frames[w] \in Seq(Frame)
  /\ suspended \subseteq Suspending
  /\ pc \in [Pools -> {"idle", "first", "sched", "work", "check", "stuck", "end"}]
  /\ state \in [Pools -> {"Running", "Stopping", "Stopped"}]
  /\ running \in [Pools -> 0..MaxSize]
  /\ pop_fail_times \in [Pools -> 0..MaxSize]
  /\ results \in [Pools -> SUBSET (Tasks \X Outcomes)]
  /\ waits \in [Pools -> SUBSET Tasks]
  /\ no_waits \in [Pools -> SUBSET Tasks]
  /\ RUNNING_TASKS \in [Tasks -> Workers \cup {Nobody, Dead}]
  /\ CANCEL_TASKS \subseteq Tasks
  /\ CANCEL_COROUTINES \subseteq Workers
  /\ signals \subseteq Pools
  /\ client \in [Tasks -> {"new", "refused", "idle", "register", "wait",
                           "forget", "dropped", "over"}]
  /\ home \in [Tasks -> Pools]
  /\ index \in Nat
  /\ pending \in [Tasks -> BOOLEAN]
  /\ asked \subseteq Tasks
  /\ killed \in BOOLEAN /\ panicked \in BOOLEAN

Init ==
  /\ queue = {}
  /\ place = [w \in Workers |-> "none"]
  /\ frames = [w \in Workers |-> <<>>]
  /\ suspended = {}
  /\ pc = [p \in Pools |-> "idle"]
  /\ state = [p \in Pools |-> "Running"]
  /\ running = [p \in Pools |-> 0]
  /\ pop_fail_times = [p \in Pools |-> 0]
  /\ results = [p \in Pools |-> {}]
  /\ waits = [p \in Pools |-> {}]
  /\ no_waits = [p \in Pools |-> {}]
  /\ RUNNING_TASKS = [t \in Tasks |-> Nobody]
  /\ CANCEL_TASKS = {}
  /\ CANCEL_COROUTINES = {}
  /\ signals = {}
  /\ client = [t \in Tasks |-> "new"]
  /\ home = [t \in Tasks |-> Ring[1]]
  /\ index = 0
  /\ pending = [t \in Tasks |-> TRUE]
  /\ asked = {}
  /\ killed = FALSE /\ panicked = FALSE

-----------------------------------------------------------------------------
(* Results and waiters of a pool *)

Has(p, t) == \E o \in Outcomes : <<t, o>> \in results[p]

Without(p, t) == {r \in results[p] : r[1] # t}

\* results.insert: an earlier result of the task is replaced.
Insert(p, t, o) == results' = [results EXCEPT ![p] = Without(p, t) \cup {<<t, o>>}]

\* results.remove
TakeResult(p, t) == results' = [results EXCEPT ![p] = Without(p, t)]

\* Mutant: every waiter of the pool is woken.
notify_all(p, t) ==
  /\ waits' = [waits EXCEPT ![p] = @ \ {t}]
  /\ pending' = [u \in Tasks |-> IF u \in waits[p] THEN FALSE ELSE pending[u]]

\* notify: whoever is registered is woken and no longer registered.
notify(p, t) ==
  /\ waits' = [waits EXCEPT ![p] = @ \ {t}]
  /\ pending' = IF t \in waits[p] THEN [pending EXCEPT ![t] = FALSE] ELSE pending

-----------------------------------------------------------------------------
(* Growing and scheduling: the thread of a pool *)

\* Mutant: the new worker is not counted.
try_grow_uncounted(p, pl, rn) ==
  IF queue # {} /\ rn[p] < MaxSize /\ \E w \in Workers : pl[w] = "none"
    THEN /\ \E w \in Workers : /\ pl[w] = "none"
                               /\ place' = [pl EXCEPT ![w] = "ready"]
         /\ running' = rn
    ELSE place' = pl /\ running' = rn

\* try_grow with submit_co, after the worker map has become pl and the
\* counters rn.  A free identity exists as long as RunningCovers holds.
try_grow(p, pl, rn) ==
  IF queue # {} /\ rn[p] < MaxSize
    THEN /\ \E w \in Workers : /\ pl[w] = "none"
                               /\ place' = [pl EXCEPT ![w] = "ready"]
         /\ running' = [rn EXCEPT ![p] = @ + 1]
    ELSE place' = pl /\ running' = rn

\* try_timeout_schedule_task.  A call that finds nothing to do in a running
\* pool changes nothing and is left out.
Schedule(p) ==
  /\ pc[p] = "idle"
  /\ state[p] # "Stopped"
  /\ queue # {} \/ state[p] = "Stopping" \/ \E w \in Workers : place[w] = "ready"
  /\ pc' = [pc EXCEPT ![p] = "first"]
  /\ try_grow(p, place, running)
  /\ UNCHANGED <<queue, state, signals, pop_fail_times, frames, suspended, maps,
                 statics, clients, history>>

\* do_schedule takes a ready worker; one that was cancelled is forgotten
\* with the tasks on its stack, and running keeps counting it.
PopReady(p, w) ==
  /\ pc[p] \in {"first", "sched"}
  /\ place[w] = "ready"
  /\ IF w \in CANCEL_COROUTINES
       THEN /\ CANCEL_COROUTINES' = CANCEL_COROUTINES \ {w}
            /\ place' = [place EXCEPT ![w] = "none"]
            /\ frames' = [frames EXCEPT ![w] = <<>>]
            /\ RUNNING_TASKS' = [t \in Tasks |->
                 IF RUNNING_TASKS[t] = w THEN Dead ELSE RUNNING_TASKS[t]]
            /\ pc' = [pc EXCEPT ![p] = "sched"]
            /\ killed' = TRUE
       ELSE /\ place' = [place EXCEPT ![w] = p]
            /\ pc' = [pc EXCEPT ![p] = "work"]
            /\ UNCHANGED <<frames, RUNNING_TASKS, CANCEL_COROUTINES, killed>>
  /\ UNCHANGED <<queue, state, signals, pools, suspended, maps, CANCEL_TASKS,
                 clients, asked, panicked>>

\* do_schedule returns when nothing is ready, or when its time is over,
\* which is not before the first worker.
Return(p) ==
  /\ \/ pc[p] = "first" /\ \A w \in Workers : place[w] # "ready"
     \/ pc[p] = "sched"
  /\ pc' = [pc EXCEPT ![p] = IF state[p] = "Running" THEN "idle" ELSE "check"]
  /\ UNCHANGED <<queue, state, signals, pools, workers, maps, statics, clients, history>>

-----------------------------------------------------------------------------
(* The loop of a worker, on the thread of pool p *)

On(w, p) == place[w] = p /\ pc[p] = "work"

Depth(w) == Len(frames[w])
Top(w) == frames[w][Depth(w)]
At(w, step) == Depth(w) > 0 /\ Top(w).at = step

Goto(w, step) == frames' = [frames EXCEPT ![w][Depth(w)].at = step]

Call(p, t) == [task |-> t, pool |-> p, at |-> "begin", target |-> Outside]

\* The worker leaves try_run; its own loop then resets the count of misses
\* of the pool it took before the call.
Leave(w) ==
  /\ frames' = [frames EXCEPT ![w] = SubSeq(@, 1, Depth(w) - 1)]
  /\ pop_fail_times' = IF Depth(w) = 1
                         THEN [pop_fail_times EXCEPT ![Top(w).pool] = 0]
                         ELSE pop_fail_times

\* Mutant: any cancellation counts.
Start_any(w, p, t, st) ==
  /\ queue' = queue \ {t}
  /\ IF CANCEL_TASKS # {}
       THEN /\ CANCEL_TASKS' = CANCEL_TASKS \ {t}
            /\ frames' = [frames EXCEPT ![w] = st]
       ELSE /\ frames' = [frames EXCEPT ![w] = Append(st, Call(p, t))]
            /\ UNCHANGED CANCEL_TASKS

\* Mutant: the task stays in the queue.
Start_copy(w, p, t, st) ==
  /\ frames' = [frames EXCEPT ![w] = Append(st, Call(p, t))]
  /\ UNCHANGED <<queue, CANCEL_TASKS>>

\* try_run: a task is taken from the queue and, when somebody cancelled it,
\* dropped.  st is the stack of the worker below the call.
Start(w, p, t, st) ==
  /\ queue' = queue \ {t}
  /\ IF t \in CANCEL_TASKS
       THEN /\ CANCEL_TASKS' = CANCEL_TASKS \ {t}
            /\ frames' = [frames EXCEPT ![w] = st]
       ELSE /\ frames' = [frames EXCEPT ![w] = Append(st, Call(p, t))]
            /\ UNCHANGED CANCEL_TASKS

TryRun(w, p, t) ==
  /\ On(w, p) /\ Depth(w) = 0
  /\ t \in queue
  /\ Start(w, p, t, <<>>)
  /\ pop_fail_times' = IF t \in CANCEL_TASKS
                         THEN [pop_fail_times EXCEPT ![p] = 0] ELSE pop_fail_times
  /\ UNCHANGED <<threads, running, place, suspended, maps, RUNNING_TASKS,
                 CANCEL_COROUTINES, clients, history>>

\* Mutants: the counter wraps below zero, or is not lowered.
Ended_wrapping(p) == [running EXCEPT ![p] = IF @ = 0 THEN MaxSize + 1 ELSE @ - 1]
Ended_never(p) == running

\* The listener lowers the counter of the pool whose thread it runs on.
Ended(p) == [running EXCEPT ![p] = IF @ = 0 THEN 0 ELSE @ - 1]

\* No task: the worker returns, when its time is over or the pool stops.
Recycle(w, p) ==
  /\ On(w, p) /\ Depth(w) = 0 /\ queue = {}
  /\ running[p] > MinSize \/ state[p] # "Running"
  /\ place' = [place EXCEPT ![w] = "none"]
  /\ running' = Ended(p)
  /\ CANCEL_COROUTINES' = CANCEL_COROUTINES \ {w}
  /\ pc' = [pc EXCEPT ![p] = "sched"]
  /\ UNCHANGED <<queue, state, signals, pop_fail_times, frames, suspended, maps,
                 RUNNING_TASKS, CANCEL_TASKS, clients, history>>

\* No task: other workers may run, or the thread blocks for a moment.
Idle(w, p) ==
  /\ On(w, p) /\ Depth(w) = 0 /\ queue = {}
  /\ state[p] = "Running"
  /\ IF pop_fail_times[p] + 1 < running[p]
       THEN /\ pop_fail_times' = [pop_fail_times EXCEPT ![p] = @ + 1]
            /\ pc' = [pc EXCEPT ![p] = "sched"]
            /\ try_grow(p, [place EXCEPT ![w] = "ready"], running)
       ELSE /\ pop_fail_times' = [pop_fail_times EXCEPT ![p] = 0]
            /\ UNCHANGED <<pc, place, running>>
  /\ UNCHANGED <<queue, state, signals, frames, suspended, maps, statics, clients, history>>

-----------------------------------------------------------------------------
(* try_run, once it has a task *)

Begin(w, p) ==
  /\ On(w, p) /\ At(w, "begin")
  /\ RUNNING_TASKS' = [RUNNING_TASKS EXCEPT ![Top(w).task] = w]
  /\ Goto(w, "task")
  /\ UNCHANGED <<queue, threads, pools, place, suspended, maps, CANCEL_TASKS,
                 CANCEL_COROUTINES, clients, history>>

\* The task suspends its coroutine; the listener lets the pool grow.
Suspend(w, p) ==
  /\ On(w, p) /\ At(w, "task")
  /\ Top(w).task \in Suspending \ suspended
  /\ suspended' = suspended \cup {Top(w).task}
  /\ pc' = [pc EXCEPT ![p] = "sched"]
  /\ try_grow(p, [place EXCEPT ![w] = "ready"], running)
  /\ UNCHANGED <<queue, state, signals, pop_fail_times, frames, maps, statics,
                 clients, history>>

\* The task returns or panics: both give a result, which is dropped when the
\* handle of the task is gone.
TaskEnd(w, p) ==
  /\ On(w, p) /\ At(w, "task")
  /\ LET f == Top(w) IN
     /\ RUNNING_TASKS' = [RUNNING_TASKS EXCEPT ![f.task] = Nobody]
     /\ IF f.task \in no_waits[f.pool]
          THEN no_waits' = [no_waits EXCEPT ![f.pool] = @ \ {f.task}] /\ Leave(w)
          ELSE Goto(w, "store") /\ UNCHANGED <<no_waits, pop_fail_times>>
  /\ UNCHANGED <<queue, threads, running, place, suspended, results, waits,
                 CANCEL_TASKS, CANCEL_COROUTINES, clients, history>>

\* The assertion on the replaced result holds, or unwinds to the task below
\* on the stack, whose result it becomes, or ends the worker with an error.
Store(w, p) ==
  /\ On(w, p) /\ At(w, "store")
  /\ ~Has(Top(w).pool, Top(w).task)
  /\ Insert(Top(w).pool, Top(w).task, "done")
  /\ Goto(w, "notify")
  /\ UNCHANGED <<queue, threads, pools, place, suspended, waits, no_waits,
                 statics, clients, history>>

StorePanic(w, p) ==
  /\ On(w, p) /\ At(w, "store")
  /\ Has(Top(w).pool, Top(w).task)
  /\ panicked' = TRUE
  /\ Insert(Top(w).pool, Top(w).task, "done")
  /\ IF Depth(w) > 1
       THEN LET d == Depth(w) - 1 IN
            /\ frames' = [frames EXCEPT ![w] = [SubSeq(@, 1, d) EXCEPT ![d].at = "task"]]
            /\ UNCHANGED <<place, running, pc>>
       ELSE /\ frames' = [frames EXCEPT ![w] = <<>>]
            /\ pc' = [pc EXCEPT ![p] = "sched"]
            /\ try_grow(p, [place EXCEPT ![w] = "none"], Ended(p))
  /\ UNCHANGED <<queue, state, signals, pop_fail_times, suspended, waits, no_waits,
                 statics, clients, asked, killed>>

Notify(w, p) ==
  /\ On(w, p) /\ At(w, "notify")
  /\ notify(Top(w).pool, Top(w).task)
  /\ Leave(w)
  /\ UNCHANGED <<queue, threads, running, place, suspended, results, no_waits,
                 statics, client, home, index, history>>

-----------------------------------------------------------------------------
(* wait_task_result inside of a coroutine: the worker runs other tasks *)

JoinInside(w, p, u) ==
  /\ On(w, p) /\ At(w, "task")
  /\ Joiner[u] = Top(w).task /\ client[u] = "idle"
  /\ IF Has(home[u], u)
       THEN /\ TakeResult(home[u], u)
            /\ notify(home[u], u)
            /\ client' = [client EXCEPT ![u] = "over"]
            /\ UNCHANGED frames
       ELSE /\ frames' = [frames EXCEPT ![w][Depth(w)].at = "spin",
                                        ![w][Depth(w)].target = u]
            /\ UNCHANGED <<results, waits, pending, client>>
  /\ UNCHANGED <<queue, threads, pools, place, suspended, no_waits, statics, home, index, history>>

\* try_run of the pool of the handle, on the stack of the task that waits.
Spin(w, p) ==
  /\ On(w, p) /\ At(w, "spin")
  /\ LET looking == [frames[w] EXCEPT ![Depth(w)].at = "look"] IN
     \/ \E t \in queue : Start(w, home[Top(w).target], t, looking)
     \/ /\ queue = {}
        /\ frames' = [frames EXCEPT ![w] = looking]
        /\ UNCHANGED <<queue, CANCEL_TASKS>>
  /\ UNCHANGED <<threads, pools, place, suspended, maps, RUNNING_TASKS,
                 CANCEL_COROUTINES, clients, history>>

Look(w, p) ==
  /\ On(w, p) /\ At(w, "look")
  /\ LET u == Top(w).target IN
     \/ /\ Has(home[u], u)
        /\ TakeResult(home[u], u)
        /\ client' = [client EXCEPT ![u] = "over"]
        /\ Goto(w, "task")
     \/ /\ ~Has(home[u], u)
        /\ Goto(w, "spin")
        /\ UNCHANGED <<results, client>>
     \/ /\ ~Has(home[u], u) /\ Timed
        /\ Goto(w, "task")
        /\ UNCHANGED <<results, client>>
  /\ UNCHANGED <<queue, threads, pools, place, suspended, waits, no_waits,
                 statics, home, index, pending, history>>

-----------------------------------------------------------------------------
(* The holder of a handle, on a thread without a coroutine *)

\* EventLoops::submit_task: the handle keeps the pool that round_robin gave.
Submit(t) ==
  /\ client[t] = "new"
  /\ LET p == Ring[(index % Len(Ring)) + 1] IN
     /\ home' = [home EXCEPT ![t] = p]
     /\ index' = index + 1
     /\ IF state[p] = "Running"
          THEN /\ queue' = queue \cup {t}
               /\ client' = [client EXCEPT ![t] = "idle"]
          ELSE /\ client' = [client EXCEPT ![t] = "refused"]
               /\ UNCHANGED queue
  /\ UNCHANGED <<threads, pools, workers, maps, statics, pending, history>>

\* The first look of wait_task_result, which may already have the result.
Join(t) ==
  /\ client[t] = "idle" /\ Joiner[t] = Outside
  /\ IF Has(home[t], t)
       THEN /\ TakeResult(home[t], t)
            /\ notify(home[t], t)
            /\ client' = [client EXCEPT ![t] = "over"]
       ELSE /\ client' = [client EXCEPT ![t] = "register"]
            /\ UNCHANGED <<results, waits, pending>>
  /\ UNCHANGED <<queue, threads, pools, workers, no_waits, statics, home, index, history>>

\* The holder registers, or finds the registration an earlier wait left.
Register(t) ==
  /\ client[t] = "register"
  /\ client' = [client EXCEPT ![t] = "wait"]
  /\ waits' = [waits EXCEPT ![home[t]] = @ \cup {t}]
  /\ pending' = [pending EXCEPT ![t] = TRUE]
  /\ UNCHANGED <<queue, threads, pools, workers, results, no_waits, statics,
                 home, index, history>>

\* wait_timeout_while ends by the flag or by the time limit.  The second look
\* gives a result, or TimedOut, after which one may wait again.
Wake(t) ==
  /\ client[t] = "wait"
  /\ ~pending[t] \/ Timed
  /\ IF Has(home[t], t)
       THEN /\ TakeResult(home[t], t)
            /\ notify(home[t], t)
            /\ client' = [client EXCEPT ![t] = "over"]
       ELSE /\ client' = [client EXCEPT ![t] = "idle"]
            /\ UNCHANGED <<results, waits, pending>>
  /\ UNCHANGED <<queue, threads, pools, workers, no_waits, statics, home, index, history>>

\* Dropping the handle: clean_task_result, in two steps.
Drop(t) ==
  /\ client[t] = "idle" /\ Joiner[t] = Outside
  /\ IF Has(home[t], t)
       THEN /\ TakeResult(home[t], t)
            /\ client' = [client EXCEPT ![t] = "dropped"]
       ELSE /\ client' = [client EXCEPT ![t] = "forget"]
            /\ UNCHANGED results
  /\ UNCHANGED <<queue, threads, pools, workers, waits, no_waits, statics,
                 home, index, pending, history>>

Forget(t) ==
  /\ client[t] = "forget"
  /\ no_waits' = [no_waits EXCEPT ![home[t]] = @ \cup {t}]
  /\ CANCEL_TASKS' = CANCEL_TASKS \ {t}
  /\ client' = [client EXCEPT ![t] = "dropped"]
  /\ UNCHANGED <<queue, threads, pools, workers, results, waits, RUNNING_TASKS,
                 CANCEL_COROUTINES, home, index, pending, history>>

-----------------------------------------------------------------------------
(* Cancelling *)

\* A running worker gets a signal on its thread, a suspended one is marked,
\* a task that has not started is noted.  Each task is cancelled once.
try_cancel_task(t) ==
  /\ t \in Cancellable \ asked
  /\ client[t] \notin {"new", "refused"}
  /\ asked' = asked \cup {t}
  /\ LET w == RUNNING_TASKS[t] IN
     \/ /\ w \in Workers /\ place[w] \in Pools
        /\ signals' = signals \cup {place[w]}
        /\ UNCHANGED <<CANCEL_TASKS, CANCEL_COROUTINES>>
     \/ /\ w \in Workers /\ place[w] \notin Pools
        /\ CANCEL_COROUTINES' = CANCEL_COROUTINES \cup {w}
        /\ UNCHANGED <<CANCEL_TASKS, signals>>
     \/ /\ w = Dead
        /\ UNCHANGED <<CANCEL_TASKS, CANCEL_COROUTINES, signals>>
     \/ /\ w = Nobody
        /\ CANCEL_TASKS' = CANCEL_TASKS \cup {t}
        /\ UNCHANGED <<CANCEL_COROUTINES, signals>>
  /\ UNCHANGED <<queue, pc, state, pools, workers, maps, RUNNING_TASKS, clients,
                 killed, panicked>>

\* SIGVTALRM cancels the worker that the thread runs now, wherever it is.
sigvtalrm(w, p) ==
  /\ p \in signals /\ On(w, p)
  /\ signals' = signals \ {p}
  /\ frames' = [frames EXCEPT ![w] = <<>>]
  /\ RUNNING_TASKS' = [t \in Tasks |->
       IF RUNNING_TASKS[t] = w THEN Dead ELSE RUNNING_TASKS[t]]
  /\ CANCEL_COROUTINES' = CANCEL_COROUTINES \ {w}
  /\ pc' = [pc EXCEPT ![p] = "sched"]
  /\ try_grow(p, [place EXCEPT ![w] = "none"], Ended(p))
  /\ UNCHANGED <<queue, state, pop_fail_times, suspended, maps, CANCEL_TASKS,
                 clients, history>>

\* Without a coroutine on the thread the handler does nothing.
sigvtalrm_ignored(p) ==
  /\ p \in signals /\ pc[p] # "work"
  /\ signals' = signals \ {p}
  /\ UNCHANGED <<queue, pc, state, pools, workers, maps, statics, clients, history>>

-----------------------------------------------------------------------------
(* Stopping *)

stopping(p) ==
  /\ p \in Stoppable
  /\ pc[p] = "idle" /\ state[p] = "Running"
  /\ state' = [state EXCEPT ![p] = "Stopping"]
  /\ UNCHANGED <<queue, pc, signals, pools, workers, maps, statics, clients, history>>

\* The loop of do_stop schedules again while workers are left.
do_stop_again(p) ==
  /\ pc[p] = "check" /\ running[p] # 0
  /\ pc' = [pc EXCEPT ![p] = "idle"]
  /\ UNCHANGED <<queue, state, signals, pools, workers, maps, statics, clients, history>>

\* do_stop ends when no worker is left or its time is over.  do_clean holds a
\* reference into waits while notify removes an entry of it: the thread then
\* waits for itself.
do_stop(p) ==
  /\ pc[p] = "check"
  /\ running[p] = 0 \/ Timed
  /\ state' = [state EXCEPT ![p] = "Stopped"]
  /\ \/ /\ waits[p] = {}
        /\ pc' = [pc EXCEPT ![p] = "end"]
        /\ UNCHANGED results
     \/ \E t \in waits[p] :
          /\ Insert(p, t, "stopped")
          /\ pc' = [pc EXCEPT ![p] = "stuck"]
  /\ UNCHANGED <<queue, signals, pools, workers, waits, no_waits, statics,
                 clients, history>>

-----------------------------------------------------------------------------
WorkerStep(w, p) ==
  \/ \E t \in Tasks : TryRun(w, p, t) \/ JoinInside(w, p, t)
  \/ Recycle(w, p) \/ Idle(w, p)
  \/ Begin(w, p) \/ Suspend(w, p) \/ TaskEnd(w, p)
  \/ Store(w, p) \/ StorePanic(w, p) \/ Notify(w, p)
  \/ Spin(w, p) \/ Look(w, p)
  \/ sigvtalrm(w, p)

ThreadStep(p) ==
  \/ Schedule(p) \/ Return(p) \/ sigvtalrm_ignored(p)
  \/ do_stop_again(p) \/ do_stop(p)
  \/ \E w \in Workers : PopReady(p, w) \/ WorkerStep(w, p)

\* What the holder of a handle has begun it goes on with.
ClientStep(t) == Register(t) \/ Wake(t) \/ Forget(t)

ClientCall(t) == Submit(t) \/ Join(t) \/ Drop(t) \/ try_cancel_task(t)

Next ==
  \/ \E p \in Pools : ThreadStep(p) \/ stopping(p)
  \/ \E t \in Tasks : ClientStep(t) \/ ClientCall(t)

Spec == Init /\ [][Next]_vars

\* Threads keep running, and a call of a holder goes on.
FairSpec ==
  /\ Spec
  /\ \A p \in Pools : WF_vars(ThreadStep(p))
  /\ \A t \in Tasks : WF_vars(ClientStep(t))

-----------------------------------------------------------------------------
(* Properties *)

\* As long as no pool has stopped, no assertion fails: a result never meets an
\* earlier one of the same task (try_run).
NoPanic == panicked => \E p \in Pools : state[p] = "Stopped"

\* The counters of the pools together never fall below the number of live
\* workers, although a stolen worker lowers the counter of the pool it ends
\* on (CoroutineCreator, submit_co).
RunningCovers ==
  Cardinality({w \in Workers : place[w] # "none"}) <= FoldFunction(+, 0, running)

\* A waiter that was woken finds the result: notify comes after the result is
\* stored, and nothing takes it in between (try_run, wait_task_result).
NotifiedFindsResult ==
  \A t \in Tasks :
    client[t] = "wait" /\ ~pending[t] => Has(home[t], t)

\* A task in the queue is taken from it, however the workers move, unless a
\* suspended worker was cancelled or a pool stopped: running then counts
\* workers that are gone, and a pool that is full of them cannot grow
\* (try_grow, do_schedule, CoroutineCreator).
EveryTaskStarts ==
  \A t \in Tasks :
    t \in queue ~> \/ t \notin queue
                   \/ killed
                   \/ \E p \in Pools : state[p] = "Stopped"

\* Nobody blocks for ever on a result that is there (wait_task_result, as
\* JoinHandle::join calls it).
JoinReturns ==
  \A t \in Tasks : client[t] = "wait" /\ Has(home[t], t) ~> client[t] # "wait"

-----------------------------------------------------------------------------
(* The pool keeps the promise of TaskLife *)

InFrame(t, S) ==
  \E w \in Workers : \E i \in DOMAIN frames[w] :
    frames[w][i].task = t /\ frames[w][i].at \in S

LifeOf(t) ==
  CASE client[t] \in {"new", "refused"} -> "new"
    [] t \in queue -> "queued"
    [] InFrame(t, {"begin", "task", "spin", "look", "store"}) -> "running"
    [] \E p \in Pools : <<t, "done">> \in results[p] -> "done"
    [] OTHER -> "over"

Life == INSTANCE TaskLife WITH
  life <- [t \in Tasks |-> LifeOf(t)],
  abandoned <- {t \in Tasks : client[t] \in {"forget", "dropped"}},
  stopped <- \E p \in Pools : state[p] = "Stopped"

\* Every task is started at most once, ends at most once and disappears
\* without a result only when it was cancelled, its handle was dropped, a
\* cancellation hit its worker or a pool stopped (submit_task, try_run,
\* wait_task_result, clean_task_result, try_cancel_task, stop).
TasksLive == Life!LifeSpec
=============================================================================
