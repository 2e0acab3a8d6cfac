---------------------------- MODULE EventLoops ----------------------------
(***************************************************************************)
(* The life of the event loops (core/src/net/mod.rs and event_loop.rs):    *)
(* EventLoops::new starts one thread per loop, jobs are submitted to the   *)
(* loops, and EventLoops::stop stops them and then the monitor.  Their     *)
(* coroutines are seen by the monitor (module Monitor).  What the          *)
(* scheduler and the pool do with a job is in other modules: here a loop   *)
(* runs one coroutine at a time until it is complete.                      *)
(***************************************************************************)
EXTENDS Monitor

CONSTANTS
    MaxJobs,    \* jobs in all
    MaxStops    \* calls of EventLoops::stop

ASSUME LifeConstants == MaxJobs \in Nat /\ MaxStops \in Nat

VARIABLES
    created,        \* loops that EventLoops::new has started
    pool,           \* per loop: PoolState
    pending,        \* per loop: its stop flag
    handle,         \* per loop: is its JoinHandle in the bean factory?
    freed,          \* loops whose bean is removed, and dropped with it
    thread,         \* per loop: where its thread is
    shared_stop,    \* threads that are counted
    jobs,           \* per loop: jobs in its queue
    strays,         \* per loop: jobs that came when its thread had left
    submitter,      \* the loop a job is about to be pushed to, or 0
    made,           \* jobs so far
    stopper,        \* where EventLoops::stop is, and at which loop
    stops,          \* calls of it so far
    late            \* threads not yet counted when a stop succeeded; {0}: none did

loops == <<created, pool, pending, handle, freed, thread, shared_stop>>
work == <<jobs, strays, submitter, made>>
stopping == <<stopper, stops, late>>
lvars == <<mvars, loops, work, stopping>>

NoStop == {0}
Ready == created = NLoops
Advance(l, p) == thread' = [thread EXCEPT ![l] = p]
-----------------------------------------------------------------------------
(* EventLoops::new: each loop in turn, EventLoop::start.                   *)
NewLoop ==
    LET l == created + 1 IN
    /\ ~Ready
    /\ created' = l
    /\ pending' = [pending EXCEPT ![l] = TRUE]
    /\ handle' = [handle EXCEPT ![l] = TRUE]
    /\ Advance(l, "spawned")
    /\ UNCHANGED <<mvars, pool, freed, shared_stop, work, stopping>>

\* The thread counts itself.
CountUp(l) ==
    /\ thread[l] = "spawned"
    /\ shared_stop' = shared_stop + 1
    /\ Advance(l, "loop")
    /\ UNCHANGED <<mvars, created, pool, pending, handle, freed, work, stopping>>

\* wait_event: a job of this loop or a stolen one; a coroutine that is parked.
Begin(l, x) ==
    /\ thread[l] = "loop" /\ co[l].state = "none" /\ jobs[x] > 0
    /\ jobs' = [jobs EXCEPT ![x] = @ - 1]
    /\ strays' = [strays EXCEPT ![x] = IF @ = jobs[x] THEN @ - 1 ELSE @]
    /\ \E greedy \in BOOLEAN : EnterRunning(l, [NoCo EXCEPT !.greedy = greedy])
    /\ UNCHANGED <<platform, monitor, preempting, PREEMPT_PENDING, loops, submitter,
                   made, stopping>>

Resume(l) ==
    /\ co[l].state = "away" /\ at[l] = "code"
    /\ EnterRunning(l, co[l])
    /\ UNCHANGED <<platform, monitor, preempting, PREEMPT_PENDING, loops, work,
                   stopping>>

\* The coroutine enters a system call, suspends itself, or completes.
Leave(l) ==
    /\ co[l].state = "Running" /\ ~co[l].greedy /\ at[l] = "code"
    /\ \/ LeaveRunning(l, NoCo)
       \/ ~co[l].left /\ LeaveRunning(l, [co[l] EXCEPT !.state = "away", !.left = TRUE])
    /\ UNCHANGED <<platform, at, preempting, PREEMPT_PENDING, loops, work, stopping>>

\* The end of the thread's loop; it clears its flag, and then its count.
LeaveLoop(l) ==
    /\ thread[l] = "loop" /\ co[l].state = "none" /\ pool[l] # "Running" /\ jobs[l] = 0
    /\ Advance(l, "flag")
    /\ UNCHANGED <<mvars, created, pool, pending, handle, freed, shared_stop, work, stopping>>

\* Mutant of ClearFlag: the count goes here as well.
ClearFlag_count(l) ==
    /\ thread[l] = "flag"
    /\ pending' = [pending EXCEPT ![l] = FALSE]
    /\ shared_stop' = shared_stop - 1
    /\ Advance(l, "count")
    /\ UNCHANGED <<mvars, created, pool, handle, freed, work, stopping>>

ClearFlag(l) ==
    /\ thread[l] = "flag"
    /\ pending' = [pending EXCEPT ![l] = FALSE]
    /\ Advance(l, "count")
    /\ UNCHANGED <<mvars, created, pool, handle, freed, shared_stop, work, stopping>>

CountDown(l) ==
    /\ thread[l] = "count"
    /\ shared_stop' = shared_stop - 1
    /\ Advance(l, "exit")
    /\ UNCHANGED <<mvars, created, pool, pending, handle, freed, work, stopping>>
-----------------------------------------------------------------------------
(* EventLoops::submit_task: the state of the pool is looked at, and then   *)
(* the job is pushed.                                                      *)
SubmitCheck(l) ==
    /\ Ready /\ submitter = 0 /\ made < MaxJobs
    /\ pool[l] = "Running"
    /\ submitter' = l
    /\ made' = made + 1
    /\ UNCHANGED <<mvars, loops, jobs, strays, stopping>>

SubmitPush ==
    LET l == submitter IN
    /\ l # 0
    /\ submitter' = 0
    /\ jobs' = [jobs EXCEPT ![l] = @ + 1]
    /\ strays' = IF thread[l] \in {"spawned", "loop"} THEN strays ELSE [strays EXCEPT ![l] = @ + 1]
    /\ UNCHANGED <<mvars, loops, made, stopping>>
-----------------------------------------------------------------------------
(* EventLoops::stop.                                                       *)
StopCall ==
    /\ Ready /\ stopper.pc = "idle" /\ stops < MaxStops
    /\ stopper' = [pc |-> "each", l |-> 1]
    /\ stops' = stops + 1
    /\ UNCHANGED <<mvars, loops, work, late>>

NextLoop == IF stopper.l = NLoops THEN [pc |-> "wait", l |-> 0] ELSE [pc |-> "each", l |-> stopper.l + 1]

\* EventLoop::stop without waiting: only the first call finds the handle.  A
\* loop that was freed still reads as stopped.
StopLoop ==
    LET l == stopper.l IN
    /\ stopper.pc = "each"
    /\ \/ /\ pool[l] = "Running" /\ handle[l]
          /\ handle' = [handle EXCEPT ![l] = FALSE]
          /\ pool' = [pool EXCEPT ![l] = "Stopping"]
          /\ stopper' = [stopper EXCEPT !.pc = "flag"]
       \/ /\ pool[l] = "Stopping"
          /\ stopper' = [stopper EXCEPT !.pc = "flag"]
          /\ UNCHANGED <<pool, handle>>
       \/ /\ pool[l] = "Stopped"
          /\ stopper' = NextLoop
          /\ UNCHANGED <<pool, handle>>
    /\ UNCHANGED <<mvars, created, pending, freed, thread, shared_stop, work, stops, late>>

\* Mutant of do_stop: the flag is not looked at.
do_stop_now ==
    LET l == stopper.l IN
    /\ stopper.pc = "flag"
    /\ pool' = [pool EXCEPT ![l] = "Stopped"] /\ freed' = freed \cup {l}
    /\ stopper' = NextLoop
    /\ UNCHANGED <<mvars, created, pending, handle, thread, shared_stop, work, stops, late>>

\* do_stop: if the flag is cleared the loop is Stopped and its bean dropped.
do_stop ==
    LET l == stopper.l IN
    /\ stopper.pc = "flag"
    /\ IF pending[l] THEN UNCHANGED <<pool, freed>>
       ELSE pool' = [pool EXCEPT ![l] = "Stopped"] /\ freed' = freed \cup {l}
    /\ stopper' = NextLoop
    /\ UNCHANGED <<mvars, created, pending, handle, thread, shared_stop, work, stops, late>>

\* It waits until no thread is counted, or fails after wait_time.
StopWaits ==
    /\ stopper.pc = "wait"
    /\ stopper' = [pc |-> "idle", l |-> 0]
    /\ \/ /\ shared_stop = 0
          /\ stop_monitor
          /\ late' = (late \ NoStop) \cup {l \in Threads : thread[l] = "spawned"}
       \/ shared_stop > 0 /\ UNCHANGED <<monitor, late>>
    /\ UNCHANGED <<platform, co, at, preempting, PREEMPT_PENDING, loops, work, stops>>

Init ==
    /\ MonitorInit
    /\ created = 0 /\ shared_stop = 0
    /\ pool = [l \in Threads |-> "Running"]
    /\ pending = [l \in Threads |-> FALSE]
    /\ handle = [l \in Threads |-> FALSE]
    /\ freed = {}
    /\ thread = [l \in Threads |-> "none"]
    /\ jobs = [l \in Threads |-> 0] /\ strays = jobs
    /\ submitter = 0 /\ made = 0
    /\ stopper = [pc |-> "idle", l |-> 0] /\ stops = 0
    /\ late = NoStop

LoopThread(l) ==
    \/ CountUp(l) \/ (\E x \in Threads : Begin(l, x)) \/ Resume(l) \/ Leave(l)
    \/ LeaveLoop(l) \/ ClearFlag(l) \/ CountDown(l)

InMonitor(A) == A /\ UNCHANGED <<loops, work, stopping>>
StopperSteps == StopLoop \/ do_stop \/ StopWaits

Next ==
    \/ NewLoop \/ SubmitPush \/ StopCall \/ StopperSteps
    \/ \E l \in Threads : LoopThread(l) \/ SubmitCheck(l)
    \/ InMonitor(MonitorNext)

(* Threads that can run do run: those of the loops, the monitor's, and the *)
(* one that stops the loops; a signal that was sent arrives.               *)
Spec ==
    /\ Init /\ [][Next]_lvars
    /\ WF_lvars(\E l \in Threads : LoopThread(l) \/ InMonitor(Submitting(l)))
    /\ WF_lvars(SubmitPush \/ StopperSteps)
    /\ \A l \in Threads : WF_lvars(InMonitor(Preempt(l) \/ Preempted(l)))
    /\ WF_lvars(InMonitor(MonitorEnds \/ \E l \in Threads : Expire(l)))
-----------------------------------------------------------------------------
TypeOK ==
    /\ MonitorTypeOK
    /\ shared_stop \in 0..NLoops
    /\ pool \in [Threads -> {"Running", "Stopping", "Stopped"}]
    /\ thread \in [Threads -> {"none", "spawned", "loop", "flag", "count", "exit"}]
    /\ \A l \in Threads : jobs[l] \in 0..MaxJobs /\ strays[l] \in 0..jobs[l]

(* When EventLoops::stop has returned Ok, each thread that was counted by  *)
(* then has left its loop with an empty queue, but for jobs that were      *)
(* pushed later by a submit that had looked before.  And a loop is dropped *)
(* only when its thread has done with its queue and cleared its flag.      *)
StopWaited ==
    /\ late # NoStop => \A l \in Threads \ late : thread[l] = "exit" /\ jobs[l] = strays[l]
    /\ \A l \in freed : thread[l] \in {"count", "exit"} /\ jobs[l] = strays[l]

(* A coroutine that computes without end is preempted, unless the Monitor  *)
(* was created or started twice or has been stopped before.  Under the     *)
(* same proviso the thread of each loop ends once all loops were asked to, *)
(* and the monitor's thread after a stop that returned Ok.                 *)
PreemptedAndStopped ==
    /\ \A l \in Threads : co[l].greedy ~> (~co[l].greedy \/ raced \/ refused)
    /\ (\A l \in Threads : pool[l] # "Running") ~>
         ((\A l \in Threads : thread[l] = "exit") \/ raced \/ refused)
    /\ (late # NoStop) ~> (walker # "loop" \/ raced \/ refused)
=============================================================================
