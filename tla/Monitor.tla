------------------------------ MODULE Monitor ------------------------------
(***************************************************************************)
(* The monitor (core/src/monitor.rs), which preempts coroutines that run   *)
(* for too long, and the bean factory (core/src/common/beans.rs) that      *)
(* holds the Monitor.  The threads of the event loops tell it about their  *)
(* coroutines through MonitorListener; its own thread walks the notify     *)
(* queue and sends a signal (Unix) or redirects the thread (Windows).      *)
(*                                                                         *)
(* Nothing of this is synchronised: two threads that use the Monitor for   *)
(* the first time may each create one, or each start its thread.  The      *)
(* model records that as a race, and from then on follows the monitor no   *)
(* further: any coroutine may then be preempted at any time, or never.     *)
(***************************************************************************)
EXTENDS Integers, FiniteSets

CONSTANT NLoops     \* event loops, each with a thread

ASSUME LoopsAssumption == NLoops \in Nat \ {0}

VARIABLES
    platform,           \* "unix" or "windows"
    bean,               \* does the factory hold the Monitor?
    mstate,             \* its MonitorState
    notify_queue,       \* per thread: its node in the queue
    walker,             \* the monitor thread: "none", "loop" or "exit"
    co,                 \* per thread: the state of its coroutine
    at,                 \* per thread: where it is in Monitor::submit
    preempting,         \* threads with a preemption on its way
    PREEMPT_PENDING,    \* per thread, on Windows
    raced,              \* did two threads create or start a Monitor?
    refused,            \* was a submit refused?
    failed              \* did the monitor thread's assert fail?

monitor == <<bean, mstate, notify_queue, walker, raced, refused, failed>>
mvars == <<platform, monitor, co, at, preempting, PREEMPT_PENDING>>

Threads == 1..NLoops
Nodes == {"none", "fresh", "due"}
MonitorStates == {"Created", "Running", "Stopping", "Stopped"}
NoNodes == [l \in Threads |-> "none"]
NoFlags == [l \in Threads |-> FALSE]

\* state: "none", "Running", or "away" in a system call or suspended.
\* greedy: it will not leave the thread before it is preempted.
\* left: it has left the thread before; the next time it completes.
NoCo == [state |-> "none", greedy |-> FALSE, left |-> FALSE]
Place(l, p) == at' = [at EXCEPT ![l] = p]
-----------------------------------------------------------------------------
(* MonitorListener::on_state_changed.  A coroutine that becomes Running    *)
(* goes through Monitor::submit, in the steps below; one that leaves that  *)
(* state removes its node.                                                 *)
EnterRunning(l, c) ==
    /\ co' = [co EXCEPT ![l] = [c EXCEPT !.state = "Running"]]
    /\ Place(l, IF raced THEN "code" ELSE "get")

\* Mutant of remove: the node stays.
remove_not(l) == UNCHANGED notify_queue

remove(l) == notify_queue' = [notify_queue EXCEPT ![l] = "none"]

LeaveRunning(l, c) ==
    /\ co' = [co EXCEPT ![l] = c]
    /\ remove(l)
    /\ UNCHANGED <<bean, mstate, walker, raced, refused, failed>>

Race ==
    /\ raced' = TRUE
    /\ bean' = FALSE /\ mstate' = "Created" /\ walker' = "none"
    /\ notify_queue' = NoNodes /\ preempting' = {} /\ PREEMPT_PENDING' = NoFlags
    /\ at' = [l \in Threads |-> "code"]
    /\ UNCHANGED <<platform, refused, failed, co>>

\* BeanFactory::get_or_default: look, and insert if nothing was there.
get_or_default(l) ==
    /\ at[l] = "get"
    /\ Place(l, IF bean THEN "start" ELSE "create")
    /\ UNCHANGED <<platform, monitor, co, preempting, PREEMPT_PENDING>>

InsertBean(l) ==
    /\ at[l] = "create"
    /\ \/ bean /\ Race
       \/ /\ ~bean
          /\ bean' = TRUE
          /\ Place(l, "start")
          /\ UNCHANGED <<platform, mstate, notify_queue, walker, raced, refused, failed, co,
                         preempting, PREEMPT_PENDING>>

\* start: the state is read here and set in Launch.
start(l) ==
    /\ at[l] = "start"
    /\ Place(l, CASE mstate = "Created" -> "launch" [] mstate = "Running" -> "insert"
                  [] OTHER -> "code")
    /\ refused' = (refused \/ mstate \in {"Stopping", "Stopped"})
    /\ UNCHANGED <<platform, bean, mstate, notify_queue, walker, raced, failed, co,
                   preempting, PREEMPT_PENDING>>

Launch(l) ==
    /\ at[l] = "launch"
    /\ \/ mstate # "Created" /\ Race
       \/ /\ mstate = "Created"
          /\ mstate' = "Running"
          /\ walker' = "loop"
          /\ Place(l, "insert")
          /\ UNCHANGED <<platform, bean, notify_queue, raced, refused, failed, co, preempting,
                         PREEMPT_PENDING>>

\* submit: the node of this run.
submit(l) ==
    /\ at[l] = "insert"
    /\ notify_queue' = [notify_queue EXCEPT ![l] = "fresh"]
    /\ Place(l, "code")
    /\ UNCHANGED <<platform, bean, mstate, walker, raced, refused, failed, co, preempting,
                   PREEMPT_PENDING>>

\* The timestamp of a node passes, before or after the coroutine leaves the
\* thread by itself.
Expire(l) ==
    /\ notify_queue[l] = "fresh" /\ (co[l].greedy \/ ~co[l].left)
    /\ notify_queue' = [notify_queue EXCEPT ![l] = "due"]
    /\ UNCHANGED <<platform, bean, mstate, walker, raced, refused, failed, co, at, preempting,
                   PREEMPT_PENDING>>
-----------------------------------------------------------------------------
(* monitor_thread_main: pthread_kill or preempt_thread for each node that  *)
(* is due, again and again, until the Monitor is stopped and has no nodes. *)

\* Mutant of Preempt: the node is removed when the thread has been signalled.
Preempt_once(l) ==
    /\ walker = "loop" /\ notify_queue[l] = "due" /\ l \notin preempting
    /\ preempting' = preempting \cup {l}
    /\ notify_queue' = [notify_queue EXCEPT ![l] = "none"]
    /\ UNCHANGED <<platform, bean, mstate, walker, raced, refused, failed, co, at,
                   PREEMPT_PENDING>>

\* The thread is stopped, made to run do_preempt, and resumed.  A call that
\* fails on the way changes nothing, and the node is tried again.
preempt_thread(l) == preempting' = preempting \cup {l}
pthread_kill(l) == preempting' = preempting \cup {l}

Preempt(l) ==
    /\ walker = "loop" /\ notify_queue[l] = "due" /\ l \notin preempting
    /\ IF platform = "unix" THEN pthread_kill(l) ELSE preempt_thread(l)
    /\ UNCHANGED <<platform, monitor, co, at, PREEMPT_PENDING>>

MonitorEnds ==
    /\ walker = "loop" /\ mstate # "Running" /\ notify_queue = NoNodes
    /\ failed' = (mstate # "Stopping")
    /\ mstate' = "Stopped"
    /\ walker' = "exit"
    /\ UNCHANGED <<platform, bean, notify_queue, raced, refused, co, at, preempting,
                   PREEMPT_PENDING>>

Suspend(l) == LeaveRunning(l, [state |-> "away", greedy |-> FALSE, left |-> TRUE])

\* Only a coroutine that is Running is suspended.
Suspended(l) == IF co[l].state = "Running" THEN Suspend(l) ELSE UNCHANGED <<co, monitor>>

sigurg_handler(l) ==
    /\ platform = "unix" /\ l \in preempting /\ at[l] = "code"
    /\ preempting' = preempting \ {l}
    /\ Suspended(l)
    /\ UNCHANGED <<platform, at, PREEMPT_PENDING>>

\* The two levels of Windows.
do_preempt(l) ==
    /\ platform = "windows" /\ l \in preempting /\ at[l] = "code"
    /\ preempting' = preempting \ {l}
    /\ PREEMPT_PENDING' = [PREEMPT_PENDING EXCEPT ![l] = ~@]
    /\ IF PREEMPT_PENDING[l] THEN Suspended(l) ELSE UNCHANGED <<co, monitor>>
    /\ UNCHANGED <<platform, at>>

\* After a race.
AnyPreemption(l) ==
    /\ raced /\ co[l].state = "Running" /\ Suspend(l)
    /\ UNCHANGED <<platform, at, preempting, PREEMPT_PENDING>>

\* Monitor::stop creates the Monitor if there is none.
stop_monitor ==
    /\ IF raced THEN UNCHANGED <<bean, mstate>> ELSE bean' = TRUE /\ mstate' = "Stopping"
    /\ UNCHANGED <<notify_queue, walker, raced, refused, failed>>

MonitorInit ==
    /\ platform \in {"unix", "windows"}
    /\ bean = FALSE /\ mstate = "Created" /\ walker = "none"
    /\ notify_queue = NoNodes
    /\ co = [l \in Threads |-> NoCo]
    /\ at = [l \in Threads |-> "code"]
    /\ preempting = {}
    /\ PREEMPT_PENDING = NoFlags
    /\ raced = FALSE /\ refused = FALSE /\ failed = FALSE

Submitting(l) == get_or_default(l) \/ InsertBean(l) \/ start(l) \/ Launch(l) \/ submit(l)
Preempted(l) == sigurg_handler(l) \/ do_preempt(l)

MonitorNext ==
    \/ \E l \in Threads :
         Submitting(l) \/ Expire(l) \/ Preempt(l) \/ Preempted(l) \/ AnyPreemption(l)
    \/ MonitorEnds
-----------------------------------------------------------------------------
MonitorTypeOK ==
    /\ mstate \in MonitorStates
    /\ notify_queue \in [Threads -> Nodes]
    /\ walker \in {"none", "loop", "exit"}
    /\ preempting \subseteq Threads

(* As long as no two threads create or start the Monitor at the same time, *)
(* its queue has a node for a thread only while the coroutine there is     *)
(* Running, so that the monitor does not aim at system calls; and its      *)
(* thread ends in the state that monitor_thread_main asserts.              *)
OneMonitor ==
    /\ \A l \in Threads : notify_queue[l] # "none" => co[l].state = "Running"
    /\ ~failed
=============================================================================
