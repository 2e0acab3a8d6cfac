----------------------------- MODULE Scheduler -----------------------------
(***************************************************************************)
(* The schedulers of core/src/scheduler.rs and the coroutines they run,    *)
(* one scheduler per event loop thread.  A coroutine is suspended by its   *)
(* Suspender, waits in a system call (the wait of net/event_loop.rs and    *)
(* the io_uring waits of syscall/unix/mod.rs), is resumed by an event, a   *)
(* completion or a timer, and is preempted or cancelled by a signal.       *)
(*                                                                         *)
(* The ready queues of all schedulers are one pool: any thread may take a  *)
(* coroutine from it (OrderedWorkSteal models how).  What a coroutine does *)
(* between two calls of this code is arbitrary.                            *)
(***************************************************************************)
EXTENDS Coroutine, Sequences, FiniteSets

CONSTANTS Cos,      \* coroutines
          Loops,    \* event loop threads, each with its scheduler
          NoCo,
          MaxTime,  \* bound of the clock
          MaxOps,   \* bound of what a coroutine does, in calls of this code
          Waits,    \* which waits of a system call the build has
          Signals   \* which signals are sent

ASSUME SchedulerAssumption ==
    /\ NoCo \notin Cos /\ NoName \notin Names
    /\ MaxTime \in Nat /\ MaxOps \in Nat
    /\ Waits \subseteq {"nio", "uring", "limit"}
    /\ Signals \subseteq {"SIGURG", "SIGVTALRM"}

\* u64::MAX, as a timestamp
Never == MaxTime + 1

VARIABLES
    now,       \* the wall clock
    state,     \* Coroutine.state
    fresh, ready, finished, dropped,  \* coroutines not submitted, ready, ended
    suspend,   \* Scheduler.suspend
    syscall,   \* Scheduler.syscall
    timers,    \* Scheduler.syscall_suspend
    running,   \* RUNNING_COROUTINES
    cancel,    \* CANCEL_COROUTINES
    stamps,    \* TIMESTAMP of each thread
    cancels,   \* CANCEL of each thread: how many requests it holds
    sig,       \* signals sent to each thread and not handled
    pc, co,    \* where each thread is, and the coroutine it runs
    at,        \* where each coroutine goes on
    home,      \* the event loop the coroutine waits at
    ops,       \* how much each coroutine may still do
    tokens,    \* COROUTINE_TOKENS
    interest, events,   \* selector: registered tokens, and those to be reported
    inflight, cq,       \* io_uring: submitted and completed operations
    table,     \* EventLoop.syscall_wait_table: whose result is waited for
    result,    \* for whom a result has been stored, and of which operation
    due,       \* history: the time until which each coroutine asked to wait
    asked,     \* history: coroutines somebody wanted to cancel
    panicked   \* an assert! or an unreachable! was hit

queues  == <<fresh, ready, finished, dropped, suspend, syscall, timers>>
thread  == <<stamps, cancels, sig, pc, co>>
body    == <<at, home, ops>>
io      == <<tokens, interest, events, inflight, cq, table, result>>
history == <<due, asked>>
vars    == <<now, state, queues, running, cancel, thread, body, io, history, panicked>>

Goto(s, l) == pc' = [pc EXCEPT ![s] = l]

GoOn(c, l) == at' = [at EXCEPT ![c] = l]

\* Thread s runs coroutine c, which has reached l.
At(s, c, l) == pc[s] = "run" /\ co[s] = c /\ at[c] = l /\ ~panicked

Operation(c) == ops[c] > 0 /\ ops' = [ops EXCEPT ![c] = @ - 1]

Ops == Cos \X (0 .. MaxOps)

\* The io_uring operation coroutine c has begun last.
Op(c) == <<c, ops[c]>>

-----------------------------------------------------------------------------
(* Scheduler: submit_co, do_schedule, check_ready, try_resume.             *)

Submit(c) ==
    /\ c \in fresh /\ ~panicked
    /\ fresh' = fresh \ {c}
    /\ ready' = ready \cup {c}
    /\ UNCHANGED <<now, state, finished, dropped, suspend, syscall, timers, running,
                   cancel, thread, body, io, history, panicked>>

\* Timers are found by the id of the coroutine only, whichever wait set them.
check_ready(s) ==
    LET woken == {c \in suspend[s] : CanBeReady(state[c], now)}
        fired == {t \in timers[s] : t[1] <= now}
        late  == {c \in syscall[s] : \E t \in fired : t[2] = c}
    IN  /\ pc[s] = "loop" /\ ~panicked
        /\ state' = [c \in Cos |->
                       IF c \in woken THEN Ready
                       ELSE IF c \in late THEN InCall(state[c].name, "Timeout", 0)
                       ELSE state[c]]
        /\ ready' = ready \cup woken \cup late
        /\ suspend' = [suspend EXCEPT ![s] = @ \ woken]
        /\ syscall' = [syscall EXCEPT ![s] = @ \ late]
        /\ timers' = [timers EXCEPT ![s] = @ \ fired]
        /\ panicked' = (\E c \in late : ~IsCall(state[c], "Suspend"))
        /\ Goto(s, "pop")
        /\ UNCHANGED <<now, fresh, finished, dropped, running, cancel, stamps, cancels,
                       sig, co, body, io, history>>

\* The popped coroutine was cancelled while it did not run.
DropCancelled(s, c) ==
    /\ pc[s] = "pop" /\ c \in ready \cap cancel /\ ~panicked
    /\ ready' = ready \ {c}
    /\ cancel' = cancel \ {c}
    /\ dropped' = dropped \cup {c}
    /\ Goto(s, "loop")
    /\ UNCHANGED <<now, state, fresh, finished, suspend, syscall, timers, running, stamps,
                   cancels, sig, co, body, io, history, panicked>>

\* resume_with: running() fails on a state it does not expect, and `?` drops
\* the coroutine with its entry in RUNNING_COROUTINES left behind.
Resume(s, c) ==
    /\ pc[s] = "pop" /\ c \in ready \ cancel /\ ~panicked
    /\ ready' = ready \ {c}
    /\ running' = running \cup {<<c, s>>}
    /\ state' = [state EXCEPT ![c] = TryRun(@, now)]
    /\ IF CanRun(state[c], now)
         THEN /\ co' = [co EXCEPT ![s] = c]
              /\ Goto(s, "run")
              /\ UNCHANGED dropped
         ELSE /\ dropped' = dropped \cup {c}
              /\ Goto(s, "loop")
              /\ UNCHANGED co
    /\ UNCHANGED <<now, fresh, finished, suspend, syscall, timers, cancel, stamps, cancels,
                   sig, body, io, history, panicked>>

\* Nothing to run: do_schedule returns and the thread waits for events.
PopNone(s) ==
    /\ pc[s] = "pop" /\ ready = {} /\ ~panicked
    /\ Goto(s, "select")
    /\ UNCHANGED <<now, state, queues, running, cancel, stamps, cancels, sig, co, body, io,
                   history, panicked>>

\* The thread goes on with the next coroutine, or its time slice is over.
Continue(s) ==
    /\ \E l \in {"loop", "select"} : Goto(s, l)
    /\ co' = [co EXCEPT ![s] = NoCo]

Park_both(s, c, ts) ==
    /\ suspend' = [suspend EXCEPT ![s] = @ \cup {c}]
    /\ ready' = IF ts > now THEN ready ELSE ready \cup {c}

\* A suspended coroutine waits for its time, or is ready at once.
Park(s, c, ts) ==
    IF ts > now
      THEN suspend' = [suspend EXCEPT ![s] = @ \cup {c}] /\ UNCHANGED ready
      ELSE ready' = ready \cup {c} /\ UNCHANGED suspend

\* Suspender::timestamp(): what is first in the queue of the thread.
timestamp(s) == IF stamps[s] = <<>> THEN 0 ELSE Head(stamps[s])

\* raw_resume and do_schedule after a yield in state Running: is_cancel() and
\* timestamp() take what is first in the queues of the thread.
YieldRunning(s, c) ==
    LET ts == timestamp(s)
    IN  /\ pc[s] = "yield" /\ co[s] = c /\ state[c].kind = "Running" /\ ~panicked
        /\ IF cancels[s] > 0
             THEN /\ cancels' = [cancels EXCEPT ![s] = @ - 1]
                  /\ state' = [state EXCEPT ![c] = Cancelled]
                  /\ finished' = finished \cup {c}
                  /\ UNCHANGED <<stamps, ready, suspend>>
             ELSE /\ state' = [state EXCEPT ![c] = Suspended(ts)]
                  /\ stamps' = [stamps EXCEPT ![s] = IF @ = <<>> THEN @ ELSE Tail(@)]
                  /\ Park(s, c, ts)
                  /\ UNCHANGED <<cancels, finished>>
        /\ running' = running \ {<<c, s>>}
        /\ Continue(s)
        /\ UNCHANGED <<now, fresh, dropped, syscall, timers, cancel, sig, body, io,
                       history, panicked>>

TimerFor_none(c) == {}

TimerFor(c) == IF state[c].call = "Suspend" THEN {<<state[c].ts, c>>} ELSE {}

\* The same in state Syscall: the coroutine goes to the syscall table, and a
\* timer is set when it knows until when it waits.  The queues stay.
YieldSyscall(s, c) ==
    /\ pc[s] = "yield" /\ co[s] = c /\ state[c].kind = "Syscall" /\ ~panicked
    /\ syscall' = [syscall EXCEPT ![s] = @ \cup {c}]
    /\ timers' = [timers EXCEPT ![s] = @ \cup TimerFor(c)]
    /\ running' = running \ {<<c, s>>}
    /\ Continue(s)
    /\ UNCHANGED <<now, state, fresh, ready, finished, dropped, suspend, cancel, stamps,
                   cancels, sig, body, io, history, panicked>>

\* The coroutine returns or panics.  complete() and error() fail unless it is
\* Running, and `?` drops the coroutine with its entry left behind.
Finish(s, c, end) ==
    /\ At(s, c, "body")
    /\ IF state[c].kind = "Running"
         THEN /\ state' = [state EXCEPT ![c] = end]
              /\ finished' = finished \cup {c}
              /\ running' = running \ {<<c, s>>}
              /\ Continue(s)
              /\ UNCHANGED dropped
         ELSE /\ dropped' = dropped \cup {c}
              /\ Goto(s, "loop")
              /\ co' = [co EXCEPT ![s] = NoCo]
              /\ UNCHANGED <<state, finished, running>>
    /\ UNCHANGED <<now, fresh, ready, suspend, syscall, timers, cancel, stamps, cancels,
                   sig, body, io, history, panicked>>

-----------------------------------------------------------------------------
(* Suspender.                                                              *)

push_back(q, ts) == Append(q, ts)

push_front(q, ts) == <<ts>> \o q

Suspend(s, c) ==
    /\ At(s, c, "body") /\ Operation(c)
    /\ due' = [due EXCEPT ![c] = 0]
    /\ Goto(s, "yield")
    /\ UNCHANGED <<now, state, queues, running, cancel, stamps, cancels, sig, co, at, home,
                   io, asked, panicked>>

\* until_with(): the timestamp is put into the queue of the thread.
Until(s, c, ts) ==
    /\ At(s, c, "body") /\ Operation(c)
    /\ stamps' = [stamps EXCEPT ![s] = push_front(@, ts)]
    /\ due' = [due EXCEPT ![c] = ts]
    /\ GoOn(c, "until")
    /\ UNCHANGED <<now, state, queues, running, cancel, cancels, sig, pc, co, home, io,
                   asked, panicked>>

\* Where the coroutine goes on after suspend_with().
After == [until |-> "body", nio |-> "nio_back", uring |-> "uring_back",
          limit |-> "limit_back"]

suspend_with(s, c) ==
    /\ \E l \in DOMAIN After : At(s, c, l) /\ GoOn(c, After[l])
    /\ Goto(s, "yield")
    /\ UNCHANGED <<now, state, queues, running, cancel, stamps, cancels, sig, co, home, ops,
                   io, history, panicked>>

-----------------------------------------------------------------------------
(* System calls: the facade, and the ways to wait inside of it.            *)

Enter(s, c, n) ==
    /\ At(s, c, "body") /\ Operation(c)
    /\ state' = [state EXCEPT ![c] = TryCall(@, n, "Executing", 0)]
    /\ GoOn(c, "call")
    /\ UNCHANGED <<now, queues, running, cancel, thread, home, io, history, panicked>>

Exit(s, c) ==
    /\ At(s, c, "call") \/ At(s, c, "again") \/ At(s, c, "exit")
    /\ state' = [state EXCEPT ![c] = TryRun(@, now)]
    /\ GoOn(c, "body")
    /\ UNCHANGED <<now, queues, running, cancel, thread, home, ops, io, history, panicked>>

Waiting_overflow(st, ts) ==
    IF IsCall(st, "Executing") THEN InCall(st.name, "Suspend", ts + Never + 1) ELSE st

Waiting_now(st, ts) == IF IsCall(st, "Executing") THEN InCall(st.name, "Suspend", 0) ELSE st

\* From Executing to Suspend(ts), before the coroutine yields.
Waiting(st, ts) == IF IsCall(st, "Executing") THEN InCall(st.name, "Suspend", ts) ELSE st

Back_never(st, S) == st

\* And back, after it was resumed in one of the states S.
Back(st, S) ==
    IF st.kind = "Syscall" /\ st.call \in S THEN InCall(st.name, "Executing", 0) ELSE st

\* token() and add_read_event() or add_write_event() at the event loop of the
\* thread.
Register(s, c) ==
    /\ tokens' = tokens \cup {c}
    /\ interest' = [interest EXCEPT ![s] = @ \cup {c}]

\* wait_read_event (which registers a descriptor) and wait_event: the coroutine
\* waits until ts, once or several times in a call.
wait_just(s, c, ts, registers) ==
    /\ "nio" \in Waits
    /\ At(s, c, "call") \/ At(s, c, "again")
    /\ Operation(c)
    /\ IF registers THEN Register(s, c) ELSE UNCHANGED <<tokens, interest>>
    /\ home' = [home EXCEPT ![c] = s]
    /\ state' = [state EXCEPT ![c] = Waiting(@, ts)]
    /\ stamps' = [stamps EXCEPT ![s] = push_front(@, ts)]
    /\ due' = [due EXCEPT ![c] = ts]
    /\ GoOn(c, "nio")
    /\ UNCHANGED <<now, queues, running, cancel, cancels, sig, pc, co, events, inflight, cq,
                   table, result, asked, panicked>>

Reported_events(e) == events[e]

\* The tokens select() of event loop e reports.
Reported(e) == {cq[e][i][1] : i \in DOMAIN cq[e]} \cup events[e]

\* Completions are looked up by the token of the coroutine: the first one is
\* for whoever waits in the table of e with that token.
Results(e) ==
    {r \in table[e] \X Ops :
        \E i \in DOMAIN cq[e] : /\ r[2] = cq[e][i] /\ r[1][1] = r[2][1]
                               /\ \A j \in 1 .. i - 1 : cq[e][j][1] # r[1][1]}

Waiters_get(e) == table[e]

\* Who still waits afterwards.
Waiters(e) == {o \in table[e] : \A r \in Results(e) : r[1] # o}

\* select() of event loop e, and resume() for every token it reports: the
\* coroutine goes from the syscall table of e to the ready queue.
resume(e, st) ==
    LET woken == Reported(e) \cap tokens \cap syscall[e]
    IN  /\ state' = [c \in Cos |->
                       IF c \in woken THEN InCall(st[c].name, "Callback", 0) ELSE st[c]]
        /\ panicked' = (\E c \in woken : ~IsCall(st[c], "Suspend"))
        /\ ready' = ready \cup woken
        /\ syscall' = [syscall EXCEPT ![e] = @ \ woken]
        /\ tokens' = tokens \ Reported(e)
        /\ table' = [table EXCEPT ![e] = Waiters(e)]
        /\ result' = result \cup Results(e)
        /\ cq' = [cq EXCEPT ![e] = <<>>]
        /\ events' = [events EXCEPT ![e] = {}]
        /\ UNCHANGED <<fresh, finished, dropped, suspend, timers, interest, inflight>>

\* The rest of wait_just: the coroutine may have been resumed by another
\* thread, and it still looks for events at the loop where it began.
WaitBack(s, c) ==
    /\ At(s, c, "nio_back")
    /\ resume(home[c], [state EXCEPT ![c] = Back(@, {"Callback", "Timeout"})])
    /\ GoOn(c, "again")
    /\ UNCHANGED <<now, running, cancel, thread, home, ops, history>>

\* The thread itself waits for events.
Select(s) ==
    /\ pc[s] = "select" /\ ~panicked
    /\ resume(s, state)
    /\ Goto(s, "loop")
    /\ UNCHANGED <<now, running, cancel, stamps, cancels, sig, co, body, history>>

Submitted == [uring |-> "uring_wait", limit |-> "limit_wait"]

\* An operation is given to io_uring, before anything else is tried...
uring_submit(s, c, l) ==
    /\ l \in Waits \ {"nio"}
    /\ At(s, c, "call") /\ Operation(c)
    /\ tokens' = tokens \cup {c}
    /\ inflight' = [inflight EXCEPT ![s] = @ \cup {Op(c)'}]
    /\ home' = [home EXCEPT ![c] = s]
    /\ GoOn(c, Submitted[l])
    /\ UNCHANGED <<now, state, queues, running, cancel, thread, interest, events, cq, table,
                   result, history, panicked>>

Occupied_unchecked(c) == FALSE

Occupied(c) == \E o \in table[home[c]] : o[1] = c

\* ... and then put into the wait table, which has room for one operation of
\* a coroutine.
uring_wait(s, c, l, ts) ==
    /\ At(s, c, Submitted[l])
    /\ panicked' = Occupied(c)
    /\ table' = [table EXCEPT ![home[c]] = {o \in @ : o[1] # c} \cup {Op(c)}]
    /\ state' = [state EXCEPT ![c] = Waiting(@, ts)]
    /\ due' = [due EXCEPT ![c] = ts]
    /\ GoOn(c, l)
    /\ UNCHANGED <<now, queues, running, cancel, thread, home, ops, tokens, interest, events,
                   inflight, cq, result, asked>>

UringBack(s, c) ==
    /\ At(s, c, "uring_back")
    /\ state' = [state EXCEPT ![c] = Back(@, {"Callback"})]
    /\ GoOn(c, "result")
    /\ UNCHANGED <<now, queues, running, cancel, thread, home, ops, io, history, panicked>>

\* With a time limit: a timeout returns at once, in the state it has.
LimitBack(s, c) ==
    /\ At(s, c, "limit_back")
    /\ state' = [state EXCEPT ![c] = Back(@, {"Callback"})]
    /\ GoOn(c, IF IsCall(state[c], "Timeout") THEN "exit" ELSE "result")
    /\ UNCHANGED <<now, queues, running, cancel, thread, home, ops, io, history, panicked>>

Answered(c) == \E r \in result : r[1] = Op(c)

\* The thread blocks until the result of the operation is there.
UringResult(s, c) ==
    /\ At(s, c, "result") /\ Answered(c)
    /\ GoOn(c, "exit")
    /\ UNCHANGED <<now, state, queues, running, cancel, thread, home, ops, io, history,
                   panicked>>

-----------------------------------------------------------------------------
(* The environment: time, descriptors, the kernel, signals.                *)

Tick ==
    /\ now < MaxTime /\ ~panicked
    /\ now' = now + 1
    /\ UNCHANGED <<state, queues, running, cancel, thread, body, io, history, panicked>>

\* A registered descriptor becomes ready.
Fire(e, c) ==
    /\ c \in interest[e] \ events[e] /\ ~panicked
    /\ events' = [events EXCEPT ![e] = @ \cup {c}]
    /\ UNCHANGED <<now, state, queues, running, cancel, thread, body, tokens, interest,
                   inflight, cq, table, result, history, panicked>>

\* An operation ends.
Completion(e, o) ==
    /\ o \in inflight[e] /\ ~panicked
    /\ inflight' = [inflight EXCEPT ![e] = @ \ {o}]
    /\ cq' = [cq EXCEPT ![e] = Append(@, o)]
    /\ UNCHANGED <<now, state, queues, running, cancel, thread, body, tokens, interest,
                   events, table, result, history, panicked>>

\* The monitor sends SIGURG to a thread whose coroutine has been Running for
\* long; the signal may arrive later.
Preempt(s, c) ==
    /\ "SIGURG" \in Signals \ sig[s]
    /\ pc[s] = "run" /\ co[s] = c /\ state[c].kind = "Running" /\ ~panicked
    /\ Operation(c)
    /\ sig' = [sig EXCEPT ![s] = @ \cup {"SIGURG"}]
    /\ UNCHANGED <<now, state, queues, running, cancel, stamps, cancels, pc, co, at, home,
                   io, history, panicked>>

Preemptible_any(s) == pc[s] = "run"

\* A coroutine runs, so that there is a Suspender, in state Running.
Preemptible(s) == pc[s] = "run" /\ state[co[s]].kind = "Running"

sigurg_handler(s) ==
    /\ "SIGURG" \in sig[s] /\ ~panicked
    /\ sig' = [sig EXCEPT ![s] = @ \ {"SIGURG"}]
    /\ IF Preemptible(s)
         THEN /\ Goto(s, "yield")
              /\ due' = [due EXCEPT ![co[s]] = IF at[co[s]] = "until" THEN @ ELSE 0]
         ELSE UNCHANGED <<pc, due>>
    /\ UNCHANGED <<now, state, queues, running, cancel, stamps, cancels, co, body, io,
                   asked, panicked>>

\* try_cancel_task for a task that has started: a signal to the thread that
\* runs its coroutine, or else an entry in CANCEL_COROUTINES.
TryCancel(c) ==
    /\ "SIGVTALRM" \in Signals
    /\ c \notin asked \cup fresh \cup finished \cup dropped /\ ~panicked
    /\ asked' = asked \cup {c}
    /\ IF \E s \in Loops : <<c, s>> \in running
         THEN /\ sig' = [s \in Loops |-> IF <<c, s>> \in running
                                           THEN sig[s] \cup {"SIGVTALRM"} ELSE sig[s]]
              /\ UNCHANGED cancel
         ELSE /\ cancel' = cancel \cup {c}
              /\ UNCHANGED sig
    /\ UNCHANGED <<now, state, queues, running, stamps, cancels, pc, co, body, io, due,
                   panicked>>

\* sigvtalrm_handler: whichever coroutine the thread runs now is cancelled.
sigvtalrm_handler(s) ==
    /\ "SIGVTALRM" \in sig[s] /\ ~panicked
    /\ sig' = [sig EXCEPT ![s] = @ \ {"SIGVTALRM"}]
    /\ IF pc[s] = "run"
         THEN /\ cancels' = [cancels EXCEPT ![s] = @ + 1]
              /\ Goto(s, "yield")
              /\ GoOn(co[s], "dead")
         ELSE UNCHANGED <<cancels, pc, at>>
    /\ UNCHANGED <<now, state, queues, running, cancel, stamps, co, home, ops, io, history,
                   panicked>>

\* A cancelled coroutine that runs again is in the unreachable!() of cancel().
Unreachable(s, c) ==
    /\ At(s, c, "dead")
    /\ panicked' = TRUE
    /\ UNCHANGED <<now, state, queues, running, cancel, thread, body, io, history>>

-----------------------------------------------------------------------------
Init ==
    /\ now = 0
    /\ state = [c \in Cos |-> Ready]
    /\ fresh = Cos /\ ready = {} /\ finished = {} /\ dropped = {}
    /\ suspend = [s \in Loops |-> {}]
    /\ syscall = [s \in Loops |-> {}]
    /\ timers = [s \in Loops |-> {}]
    /\ running = {} /\ cancel = {}
    /\ stamps = [s \in Loops |-> <<>>]
    /\ cancels = [s \in Loops |-> 0]
    /\ sig = [s \in Loops |-> {}]
    /\ pc = [s \in Loops |-> "loop"]
    /\ co = [s \in Loops |-> NoCo]
    /\ at = [c \in Cos |-> "body"]
    /\ home = [c \in Cos |-> NoCo]
    /\ ops = [c \in Cos |-> MaxOps]
    /\ tokens = {}
    /\ interest = [s \in Loops |-> {}] /\ events = [s \in Loops |-> {}]
    /\ inflight = [s \in Loops |-> {}] /\ cq = [s \in Loops |-> <<>>]
    /\ table = [s \in Loops |-> {}] /\ result = {}
    /\ due = [c \in Cos |-> 0]
    /\ asked = {}
    /\ panicked = FALSE

\* What coroutine c does on thread s.
Body(s, c) ==
    \/ Suspend(s, c) \/ suspend_with(s, c)
    \/ \E ts \in now .. MaxTime : Until(s, c, ts)
    \/ \E n \in Names : Enter(s, c, n)
    \/ Exit(s, c)
    \/ \E ts \in now .. MaxTime, r \in BOOLEAN : wait_just(s, c, ts, r)
    \/ WaitBack(s, c)
    \/ \E l \in {"uring", "limit"} : uring_submit(s, c, l)
    \/ uring_wait(s, c, "uring", Never) \/ UringBack(s, c)
    \/ \E ts \in now .. MaxTime : uring_wait(s, c, "limit", ts)
    \/ LimitBack(s, c) \/ UringResult(s, c) \/ Unreachable(s, c)
    \/ \E end \in {Complete, Failed} : Finish(s, c, end)

Step(s) ==
    \/ check_ready(s) \/ PopNone(s) \/ Select(s)
    \/ sigurg_handler(s) \/ sigvtalrm_handler(s)
    \/ \E c \in Cos : \/ DropCancelled(s, c) \/ Resume(s, c)
                      \/ YieldRunning(s, c) \/ YieldSyscall(s, c)
                      \/ Body(s, c)

Next ==
    \/ Tick
    \/ \E c \in Cos : Submit(c) \/ TryCancel(c)
    \/ \E s \in Loops : Step(s)
    \/ \E e \in Loops, c \in Cos : Fire(e, c) \/ Preempt(e, c)
    \/ \E e \in Loops, o \in Ops : Completion(e, o)

Spec == Init /\ [][Next]_vars

\* Threads keep running, time passes, submitted operations end.
FairSpec ==
    /\ Spec
    /\ WF_vars(Tick)
    /\ \A s \in Loops : WF_vars(Step(s))
    /\ \A e \in Loops, o \in Ops : WF_vars(Completion(e, o))

-----------------------------------------------------------------------------
(* Properties.                                                             *)

Times == 0 .. Never

States == [kind : Kinds, name : Names \cup {NoName}, call : Calls, ts : Times]

Places == {"body", "until", "call", "nio", "nio_back", "again", "uring_wait", "uring",
           "uring_back", "limit_wait", "limit", "limit_back", "result", "exit", "dead"}

\* What the fields of Scheduler, Coroutine, EventLoop and the thread locals of
\* Suspender hold.
TypeOK ==
    /\ now \in 0 .. MaxTime
    /\ state \in [Cos -> States]
    /\ fresh \subseteq Cos /\ ready \subseteq Cos
    /\ finished \subseteq Cos /\ dropped \subseteq Cos
    /\ suspend \in [Loops -> SUBSET Cos]
    /\ syscall \in [Loops -> SUBSET Cos]
    /\ timers \in [Loops -> SUBSET (Times \X Cos)]
    /\ running \subseteq Cos \X Loops
    /\ cancel \subseteq Cos
    /\ stamps \in [Loops -> Seq(Times)]
    /\ cancels \in [Loops -> Nat]
    /\ sig \in [Loops -> SUBSET Signals]
    /\ pc \in [Loops -> {"loop", "pop", "select", "run", "yield"}]
    /\ co \in [Loops -> Cos \cup {NoCo}]
    /\ at \in [Cos -> Places]
    /\ home \in [Cos -> Loops \cup {NoCo}]
    /\ ops \in [Cos -> 0 .. MaxOps]
    /\ tokens \subseteq Cos
    /\ interest \in [Loops -> SUBSET Cos] /\ events \in [Loops -> SUBSET Cos]
    /\ inflight \in [Loops -> SUBSET Ops] /\ cq \in [Loops -> Seq(Ops)]
    /\ table \in [Loops -> SUBSET Ops] /\ result \subseteq Ops \X Ops
    /\ due \in [Cos -> Times]
    /\ asked \subseteq Cos
    /\ panicked \in BOOLEAN

\* Where coroutine c is: the place that owns the value.
Owners(c) ==
    (({c} \cap fresh) \X {"fresh"}) \cup (({c} \cap ready) \X {"ready"})
        \cup (({c} \cap finished) \X {"finished"}) \cup (({c} \cap dropped) \X {"dropped"})
        \cup ({s \in Loops : co[s] = c} \X {"run"})
        \cup ({s \in Loops : c \in suspend[s]} \X {"suspend"})
        \cup ({s \in Loops : c \in syscall[s]} \X {"syscall"})

\* do_schedule, check_ready and try_resume hand a coroutine on by value: it is
\* in exactly one place, whatever resumes, times out, steals or preempts it, so
\* that it is neither lost nor run by two threads at the same time.
EachCoroutineOnce == \A c \in Cos : Cardinality(Owners(c)) = 1

\* Every coroutine in the syscall table can be woken: it waits with a
\* timestamp and that scheduler has a timer for it.  (The comment of
\* sigurg_handler: otherwise "the coroutine lands in the syscall map with no
\* io_uring/epoll/timer registration to wake it, causing a deadlock".)
SyscallTableWakes ==
    \A s \in Loops : \A c \in syscall[s] :
        IsCall(state[c], "Suspend") /\ <<state[c].ts, c>> \in timers[s]

\* No assert! and no unreachable! is hit: in try_resume, in check_ready and
\* for the wait table of io_uring.
NoPanic == ~panicked

\* A coroutine that takes the result of its io_uring operation takes the result
\* of that operation, although completions name only the coroutine: the one of
\* an earlier operation, given up after a timeout, may still be to come.
ResultIsOwn ==
    \A s \in Loops, c \in Cos : At(s, c, "result") =>
        \A r \in result : r[1] = Op(c) => r[2] = r[1]

\* A coroutine that asked to be suspended until a time is not made ready
\* before that time, although timestamps pass through a queue of the thread.
NotBeforeDue ==
    \A c \in ready : state[c].kind \in {"Ready", "Suspend"} => due[c] <= now

\* do_schedule drops no coroutine that nobody wanted to cancel.
OnlyCancelledDropped == dropped \subseteq asked

\* Every coroutine given to submit_co ends, whatever it waits for: a wait of a
\* system call always has an event, a completion or a timer that ends it.
EveryCoroutineEnds == \A c \in Cos : c \in ready ~> c \in finished \cup dropped

-----------------------------------------------------------------------------
(* What the comments and the documentation say.                            *)

\* The facade of a system call calls running() when the call is over: the state
\* changes from Syscall to Running.
RunningAfterSyscall ==
    [][\A s \in Loops, c \in Cos : Exit(s, c) => state'[c].kind = "Running"]_vars

\* When a coroutine comes back from the suspend() of an io_uring call without a
\* limit, the operation has been executed and its result is there.
UringDoneOnReturn ==
    \A s \in Loops, c \in Cos : At(s, c, "uring_back") => Answered(c)

=============================================================================
