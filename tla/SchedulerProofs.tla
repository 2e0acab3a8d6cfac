-------------------------- MODULE SchedulerProofs ---------------------------
(***************************************************************************)
(* The types of Scheduler, the one place of every coroutine, and its       *)
(* timestamps, states and timers, for any number of threads, coroutines,   *)
(* operations and times.  What each step does to the coroutine it is       *)
(* about, and that it leaves the others alone, is stated once and used     *)
(* here and by SchedulerUring.                                             *)
(*                                                                         *)
(* Typed     the types; for all kinds of waits and all signals.            *)
(* OnceInv   every coroutine is in one place; likewise.                    *)
(* DueInv    no coroutine is ready before its time; likewise.              *)
(* StageInv  the state of a coroutine agrees with how far it has come in a *)
(*           call; for builds with one kind of wait (OneWait).             *)
(* WakeInv   who is in the syscall table has a timer there.                *)
(***************************************************************************)
EXTENDS Scheduler, TLAPS

USE ZenonT(30)

-----------------------------------------------------------------------------
(* Types.                                                                  *)

\* Times are natural numbers.
LEMMA Bounds == /\ MaxTime \in Nat /\ Never \in Nat /\ Never = MaxTime + 1
                /\ 0 \in Times /\ Never \in Times /\ Times \subseteq Int
                /\ 0 .. MaxTime \subseteq Times
  BY SchedulerAssumption, SMTT(30) DEF Times, Never

\* The constructors of Coroutine give states...
LEMMA StatesTyped ==
    /\ {Ready, Running, Cancelled, Complete, Failed} \subseteq States
    /\ \A ts \in Times : Suspended(ts) \in States
    /\ \A n \in Names \cup {NoName}, sc \in Calls, ts \in Times : InCall(n, sc, ts) \in States
  BY Bounds, SMTT(30) DEF States, State, Ready, Running, Cancelled, Complete, Failed, Suspended,
     InCall, Kinds, Calls

\* ... whose fields have their types...
LEMMA StateFields ==
    ASSUME NEW st \in States
    PROVE  /\ st.name \in Names \cup {NoName} /\ st.ts \in Times
           /\ st.kind \in Kinds /\ st.call \in Calls
  BY DEF States

\* ... and so do the changes of state the scheduler and the waits make.
LEMMA StateChangesTyped ==
    ASSUME NEW st \in States
    PROVE  /\ \A t : TryRun(st, t) \in States
           /\ \A n \in Names : TryCall(st, n, "Executing", 0) \in States
           /\ \A ts \in Times : Waiting(st, ts) \in States
           /\ \A S : Back(st, S) \in States
           /\ InCall(st.name, "Timeout", 0) \in States
           /\ InCall(st.name, "Callback", 0) \in States
  <1>1. {"Executing", "Suspend", "Timeout", "Callback"} \subseteq Calls
    BY DEF Calls
  <1> QED
    BY <1>1, Bounds, StatesTyped, StateFields DEF TryRun, Run, TryCall, Waiting, Back

\* TypeOK in parts: the clock and the states of the coroutines...
StateType == now \in 0 .. MaxTime /\ state \in [Cos -> States] /\ panicked \in BOOLEAN

\* ... the queues and tables of the schedulers...
QueueType ==
    /\ fresh \subseteq Cos /\ ready \subseteq Cos
    /\ finished \subseteq Cos /\ dropped \subseteq Cos
    /\ suspend \in [Loops -> SUBSET Cos]
    /\ syscall \in [Loops -> SUBSET Cos]
    /\ timers \in [Loops -> SUBSET (Times \X Cos)]
    /\ running \subseteq Cos \X Loops
    /\ cancel \subseteq Cos

\* ... the threads and their thread locals...
ThreadType ==
    /\ stamps \in [Loops -> Seq(Times)]
    /\ cancels \in [Loops -> Nat]
    /\ sig \in [Loops -> SUBSET Signals]
    /\ pc \in [Loops -> {"loop", "pop", "select", "run", "yield"}]
    /\ co \in [Loops -> Cos \cup {NoCo}]

\* ... where the coroutines are in what they do...
BodyType ==
    /\ at \in [Cos -> Places]
    /\ home \in [Cos -> Loops \cup {NoCo}]
    /\ ops \in [Cos -> 0 .. MaxOps]
    /\ due \in [Cos -> Times]
    /\ asked \subseteq Cos

\* ... the selector, the rings and the wait tables.
IoType ==
    /\ tokens \subseteq Cos
    /\ interest \in [Loops -> SUBSET Cos] /\ events \in [Loops -> SUBSET Cos]
    /\ inflight \in [Loops -> SUBSET Ops] /\ cq \in [Loops -> Seq(Ops)]
    /\ table \in [Loops -> SUBSET Ops] /\ result \subseteq Ops \X Ops

\* The parts are TypeOK.
LEMMA TypeParts == TypeOK <=> StateType /\ QueueType /\ ThreadType /\ BodyType /\ IoType
  BY DEF TypeOK, StateType, QueueType, ThreadType, BodyType, IoType

\* A coroutine that is inside of a wait has the loop at which it waits.
Homed == \A c \in Cos : at[c] \in {"body", "until", "call", "dead"} \/ home[c] \in Loops

\* The inductive invariant for the types.
Typed == TypeOK /\ Homed

\* It holds when the program starts.
LEMMA TypedInit == Init => Typed
  <1>1. "body" \in Places
    BY DEF Places
  <1>2. <<>> \in Seq(Times) /\ <<>> \in Seq(Ops)
    BY SMTT(30)
  <1> SUFFICES ASSUME Init PROVE Typed
    OBVIOUS
  <1>3. StateType
    <2>1. Ready \in States /\ 0 \in 0 .. MaxTime
      BY Bounds, StatesTyped, SMTT(30)
    <2> QED
      BY <2>1 DEF Init, StateType
  <1>4. QueueType /\ ThreadType
    BY <1>2 DEF Init, QueueType, ThreadType
  <1>5. BodyType
    BY <1>1, Bounds, SchedulerAssumption, SMTT(30) DEF Init, BodyType
  <1>6. IoType
    BY <1>2 DEF Init, IoType
  <1> QED
    BY <1>3, <1>4, <1>5, <1>6, TypeParts DEF Init, Typed, Homed

\* The times a coroutine may ask for are times.
LEMMA WaitTimes == ASSUME StateType PROVE now .. MaxTime \subseteq Times
  BY Bounds, SMTT(30) DEF StateType, Times

\* So is what Suspender::timestamp() takes from the queue of a thread.
LEMMA TimestampTyped == ASSUME ThreadType, NEW s \in Loops PROVE timestamp(s) \in Times
  BY Bounds, SMTT(30) DEF ThreadType, timestamp

\* resume() keeps the states typed...
LEMMA ResumeState ==
    ASSUME StateType, NEW e, NEW st \in [Cos -> States], resume(e, st)
    PROVE  state' \in [Cos -> States] /\ panicked' \in BOOLEAN
  <1>1. \A c \in Cos : InCall(st[c].name, "Callback", 0) \in States
    BY StateChangesTyped
  <1>2. state' \in [Cos -> States]
    BY <1>1 DEF resume
  <1>3. panicked' \in BOOLEAN
    BY DEF resume
  <1> QED
    BY <1>2, <1>3

\* ... and so does every step.
LEMMA StateTyped ==
    ASSUME StateType, ThreadType, Next
    PROVE  StateType'
  <1> USE DEF StateType
  <1>1. ASSUME NEW s \in Loops, check_ready(s) PROVE StateType'
    <2>1. \A c \in Cos : InCall(state[c].name, "Timeout", 0) \in States
      BY StateChangesTyped
    <2>2. state' \in [Cos -> States]
      BY <1>1, <2>1, StatesTyped DEF check_ready
    <2>3. panicked' \in BOOLEAN /\ now' = now
      BY <1>1 DEF check_ready
    <2> QED
      BY <2>2, <2>3
  <1>2. ASSUME NEW s \in Loops, NEW c \in Cos, Resume(s, c) PROVE StateType'
    BY <1>2, StateChangesTyped DEF Resume
  <1>3. ASSUME NEW s \in Loops, NEW c \in Cos, YieldRunning(s, c) PROVE StateType'
    BY <1>3, TimestampTyped, StatesTyped DEF YieldRunning
  <1>4. ASSUME NEW s \in Loops, NEW c \in Cos, NEW end \in {Complete, Failed},
               Finish(s, c, end)
        PROVE  StateType'
    BY <1>4, StatesTyped DEF Finish
  <1>5. ASSUME NEW s \in Loops, NEW c \in Cos, NEW n \in Names, Enter(s, c, n)
        PROVE  StateType'
    BY <1>5, StateChangesTyped DEF Enter
  <1>6. ASSUME NEW s \in Loops, NEW c \in Cos, Exit(s, c) PROVE StateType'
    BY <1>6, StateChangesTyped DEF Exit
  <1>7. ASSUME NEW s \in Loops, NEW c \in Cos, NEW ts \in now .. MaxTime, NEW r \in BOOLEAN,
               wait_just(s, c, ts, r)
        PROVE  StateType'
    BY <1>7, StateChangesTyped, WaitTimes DEF wait_just
  <1>8. ASSUME NEW s \in Loops, NEW c \in Cos, WaitBack(s, c) PROVE StateType'
    <2> DEFINE st == [state EXCEPT ![c] = Back(@, {"Callback", "Timeout"})]
    <2>1. st \in [Cos -> States]
      BY StateChangesTyped
    <2>2. resume(home[c], st) /\ now' = now
      BY <1>8 DEF WaitBack
    <2> QED
      BY <2>1, <2>2, ResumeState
  <1>9. ASSUME NEW s \in Loops, Select(s) PROVE StateType'
    BY <1>9, ResumeState DEF Select
  <1>10. ASSUME NEW s \in Loops, NEW c \in Cos, NEW l, NEW ts \in Times,
                uring_wait(s, c, l, ts)
         PROVE  StateType'
    BY <1>10, StateChangesTyped DEF uring_wait, Occupied
  <1>11. ASSUME NEW s \in Loops, NEW c \in Cos, UringBack(s, c) PROVE StateType'
    BY <1>11, StateChangesTyped DEF UringBack
  <1>12. ASSUME NEW s \in Loops, NEW c \in Cos, LimitBack(s, c) PROVE StateType'
    BY <1>12, StateChangesTyped DEF LimitBack
  <1>13. ASSUME NEW s \in Loops, NEW c \in Cos, Unreachable(s, c) PROVE StateType'
    BY <1>13 DEF Unreachable
  <1>14. ASSUME Tick PROVE StateType'
    BY <1>14, Bounds, SMTT(30) DEF Tick
  <1>15. ASSUME NEW s, NEW c, NEW ts, NEW l,
                \/ Suspend(s, c) \/ Until(s, c, ts) \/ suspend_with(s, c)
                \/ uring_submit(s, c, l) \/ UringResult(s, c)
         PROVE  StateType'
    BY <1>15 DEF Suspend, Until, suspend_with, uring_submit, UringResult
  <1>16. ASSUME NEW s, NEW c,
                \/ PopNone(s) \/ DropCancelled(s, c) \/ YieldSyscall(s, c)
                \/ sigurg_handler(s) \/ sigvtalrm_handler(s)
         PROVE  StateType'
    BY <1>16 DEF PopNone, DropCancelled, YieldSyscall, sigurg_handler, sigvtalrm_handler
  <1>17. ASSUME NEW s, NEW c, NEW o,
                \/ Submit(c) \/ TryCancel(c)
                \/ Fire(s, c) \/ Completion(s, o) \/ Preempt(s, c)
         PROVE  StateType'
    BY <1>17 DEF Submit, TryCancel, Fire, Completion, Preempt
  <1>18. ASSUME NEW s \in Loops, NEW c \in Cos, Body(s, c) PROVE StateType'
    BY <1>4, <1>5, <1>6, <1>7, <1>8, <1>10, <1>11, <1>12, <1>13, <1>15, <1>18, Bounds, WaitTimes
       DEF Body
  <1>19. ASSUME NEW s \in Loops, Step(s) PROVE StateType'
    BY <1>1, <1>2, <1>3, <1>9, <1>16, <1>18, <1>19 DEF Step
  <1> QED
    BY <1>14, <1>17, <1>19 DEF Next

\* resume() keeps the queues typed...
LEMMA ResumeQueues ==
    ASSUME QueueType, NEW e \in Loops, NEW st, resume(e, st), running' = running, cancel' = cancel
    PROVE  QueueType'
  BY DEF QueueType, resume

\* ... and so does every step.
LEMMA QueueTyped ==
    ASSUME Typed, Next
    PROVE  QueueType'
  <1>0. StateType /\ QueueType /\ ThreadType
    BY TypeParts DEF Typed
  <1> USE <1>0 DEF QueueType
  <1>1. ASSUME NEW s \in Loops, check_ready(s) PROVE QueueType'
    <2> DEFINE woken == {c \in suspend[s] : CanBeReady(state[c], now)}
               fired == {t \in timers[s] : t[1] <= now}
               late  == {c \in syscall[s] : \E t \in fired : t[2] = c}
    <2>1. woken \subseteq suspend[s] /\ late \subseteq syscall[s]
      OBVIOUS
    <2>2. /\ ready' = ready \cup woken \cup late
          /\ suspend' = [suspend EXCEPT ![s] = @ \ woken]
          /\ syscall' = [syscall EXCEPT ![s] = @ \ late]
          /\ timers' = [timers EXCEPT ![s] = @ \ fired]
          /\ UNCHANGED <<fresh, finished, dropped, running, cancel>>
      BY <1>1 DEF check_ready
    <2> HIDE DEF woken, fired, late
    <2> QED
      BY <2>1, <2>2
  <1>2. ASSUME NEW s \in Loops, NEW c \in Cos, Resume(s, c) PROVE QueueType'
    BY <1>2, SMTT(30) DEF Resume
  <1>3. ASSUME NEW s \in Loops, NEW c \in Cos, YieldRunning(s, c) PROVE QueueType'
    <2>1. ready' \subseteq Cos /\ suspend' \in [Loops -> SUBSET Cos]
      BY <1>3, SMTT(30) DEF YieldRunning, Park
    <2>2. finished' \subseteq Cos
      BY <1>3 DEF YieldRunning
    <2> QED
      BY <1>3, <2>1, <2>2 DEF YieldRunning
  <1>4. ASSUME NEW s \in Loops, NEW c \in Cos, NEW end, Finish(s, c, end) PROVE QueueType'
    BY <1>4 DEF Finish
  <1>5. ASSUME NEW s \in Loops, NEW c \in Cos, YieldSyscall(s, c) PROVE QueueType'
    <2>1. TimerFor(c) \subseteq Times \X Cos
      BY StateFields, SMTT(30) DEF TimerFor, StateType
    <2> QED
      BY <1>5, <2>1 DEF YieldSyscall
  <1>6. ASSUME NEW s \in Loops, NEW c \in Cos, WaitBack(s, c) PROVE QueueType'
    <2>1. home[c] \in Loops
      BY <1>6 DEF Typed, Homed, WaitBack, At
    <2> QED
      BY <1>6, <2>1, ResumeQueues DEF WaitBack
  <1>7. ASSUME NEW s \in Loops, Select(s) PROVE QueueType'
    BY <1>7, ResumeQueues DEF Select
  <1>8. ASSUME NEW s \in Loops, NEW c \in Cos, DropCancelled(s, c) PROVE QueueType'
    BY <1>8 DEF DropCancelled
  <1>9. ASSUME NEW c \in Cos, Submit(c) PROVE QueueType'
    BY <1>9 DEF Submit
  <1>10. ASSUME NEW c \in Cos, TryCancel(c) PROVE QueueType'
    BY <1>10 DEF TryCancel, queues
  <1>11. ASSUME NEW s, NEW c, NEW n, NEW ts, NEW r, NEW l,
                \/ Suspend(s, c) \/ Until(s, c, ts) \/ suspend_with(s, c)
                \/ Enter(s, c, n) \/ Exit(s, c) \/ wait_just(s, c, ts, r)
                \/ uring_submit(s, c, l) \/ uring_wait(s, c, l, ts) \/ UringBack(s, c)
                \/ LimitBack(s, c) \/ UringResult(s, c) \/ Unreachable(s, c)
         PROVE  UNCHANGED <<queues, running, cancel>>
    BY <1>11 DEF Suspend, Until, suspend_with, Enter, Exit, wait_just, uring_submit, uring_wait,
           UringBack, LimitBack, UringResult, Unreachable
  <1>12. ASSUME NEW s, NEW c, NEW o,
                \/ Tick \/ PopNone(s) \/ sigurg_handler(s) \/ sigvtalrm_handler(s)
                \/ Fire(s, c) \/ Completion(s, o) \/ Preempt(s, c)
         PROVE  UNCHANGED <<queues, running, cancel>>
    BY <1>12 DEF Tick, PopNone, sigurg_handler, sigvtalrm_handler, Fire, Completion, Preempt
  <1>13. UNCHANGED <<queues, running, cancel>> => QueueType'
    BY DEF queues
  <1>14. ASSUME NEW s \in Loops, NEW c \in Cos, Body(s, c) PROVE QueueType'
    BY <1>4, <1>6, <1>11, <1>13, <1>14 DEF Body
  <1>15. ASSUME NEW s \in Loops, Step(s) PROVE QueueType'
    BY <1>1, <1>2, <1>3, <1>5, <1>7, <1>8, <1>12, <1>13, <1>14, <1>15 DEF Step
  <1> QED
    BY <1>9, <1>10, <1>12, <1>13, <1>15 DEF Next

\* Every step keeps the threads typed.
LEMMA ThreadTyped ==
    ASSUME Typed, Next
    PROVE  ThreadType'
  <1>0. StateType /\ QueueType /\ ThreadType
    BY TypeParts DEF Typed
  <1> USE <1>0 DEF ThreadType
  <1>1. ASSUME NEW s \in Loops, check_ready(s) \/ PopNone(s) \/ Select(s) PROVE ThreadType'
    BY <1>1 DEF check_ready, PopNone, Select, Goto
  <1>2. ASSUME NEW s \in Loops, NEW c \in Cos, Resume(s, c) \/ DropCancelled(s, c)
        PROVE  ThreadType'
    BY <1>2 DEF Resume, DropCancelled, Goto
  <1>3. ASSUME NEW s \in Loops, Continue(s)
        PROVE  /\ pc' \in [Loops -> {"loop", "pop", "select", "run", "yield"}]
               /\ co' \in [Loops -> Cos \cup {NoCo}]
    BY <1>3 DEF Continue, Goto
  <1>4. ASSUME NEW s \in Loops, NEW c \in Cos, YieldRunning(s, c) PROVE ThreadType'
    <2> DEFINE rest == IF stamps[s] = <<>> THEN stamps[s] ELSE Tail(stamps[s])
    <2>1. rest \in Seq(Times)
      BY SMTT(30)
    <2>2. stamps' \in [Loops -> Seq(Times)]
      <3>1. stamps' = stamps \/ stamps' = [stamps EXCEPT ![s] = rest]
        BY <1>4 DEF YieldRunning
      <3> QED
        BY <2>1, <3>1
    <2>3. cancels' \in [Loops -> Nat]
      <3>1. cancels' = cancels \/ (cancels[s] > 0 /\ cancels' = [cancels EXCEPT ![s] = @ - 1])
        BY <1>4 DEF YieldRunning
      <3>2. cancels \in [Loops -> Nat]
        BY DEF ThreadType
      <3>3. cancels[s] > 0 => cancels[s] - 1 \in Nat
        BY <3>2, SMT
      <3> QED
        BY <3>1, <3>2, <3>3
    <2> QED
      BY <1>3, <1>4, <2>2, <2>3 DEF YieldRunning
  <1>5. ASSUME NEW s \in Loops, NEW c \in Cos, YieldSyscall(s, c) PROVE ThreadType'
    BY <1>3, <1>5 DEF YieldSyscall
  <1>6. ASSUME NEW s \in Loops, NEW c \in Cos, NEW end, Finish(s, c, end) PROVE ThreadType'
    BY <1>3, <1>6 DEF Finish, Goto
  <1>7. ASSUME NEW s \in Loops, NEW c \in Cos, Suspend(s, c) \/ suspend_with(s, c)
        PROVE  ThreadType'
    BY <1>7 DEF Suspend, suspend_with, Goto
  <1>8. ASSUME NEW s \in Loops, NEW c \in Cos, NEW ts \in now .. MaxTime, NEW r,
               Until(s, c, ts) \/ wait_just(s, c, ts, r)
        PROVE  ThreadType'
    <2>1. ts \in Times
      BY WaitTimes
    <2>2. push_front(stamps[s], ts) \in Seq(Times)
      BY <2>1, SMTT(30) DEF push_front
    <2>3. stamps' = [stamps EXCEPT ![s] = push_front(@, ts)] /\ UNCHANGED <<cancels, sig, pc, co>>
      BY <1>8 DEF Until, wait_just
    <2> QED
      BY <2>2, <2>3
  <1>9. ASSUME NEW s \in Loops, NEW c \in Cos, Preempt(s, c) PROVE ThreadType'
    BY <1>9 DEF Preempt
  <1>10. ASSUME NEW s \in Loops, sigurg_handler(s) PROVE ThreadType'
    BY <1>10 DEF sigurg_handler, Goto
  <1>11. ASSUME NEW s \in Loops, sigvtalrm_handler(s) PROVE ThreadType'
    <2>1. sig' \in [Loops -> SUBSET Signals] /\ UNCHANGED <<stamps, co>>
      BY <1>11 DEF sigvtalrm_handler
    <2>2. cancels' \in [Loops -> Nat]
      <3>1. \/ cancels' = cancels
            \/ cancels' = [cancels EXCEPT ![s] = @ + 1]
        BY <1>11 DEF sigvtalrm_handler
      <3>2. cancels \in [Loops -> Nat]
        BY DEF ThreadType
      <3>3. cancels[s] + 1 \in Nat
        BY <3>2, SMT
      <3> QED
        BY <3>1, <3>2, <3>3
    <2>3. pc' \in [Loops -> {"loop", "pop", "select", "run", "yield"}]
      BY <1>11 DEF sigvtalrm_handler, Goto
    <2> QED
      BY <2>1, <2>2, <2>3
  <1>12. ASSUME NEW c \in Cos, TryCancel(c) PROVE ThreadType'
    <2>1. {"SIGVTALRM"} \subseteq Signals
      BY <1>12 DEF TryCancel
    <2>2. sig' \in [Loops -> SUBSET Signals]
      <3>1. sig' = sig \/ sig' = [s \in Loops |-> IF <<c, s>> \in running
                                          THEN sig[s] \cup {"SIGVTALRM"} ELSE sig[s]]
        BY <1>12 DEF TryCancel
      <3>2. \A s \in Loops : sig[s] \cup {"SIGVTALRM"} \in SUBSET Signals
        BY <2>1
      <3> QED
        BY <3>1, <3>2
    <2> QED
      BY <1>12, <2>2 DEF TryCancel
  <1>13. ASSUME NEW s, NEW c, NEW n, NEW ts, NEW l,
                \/ Enter(s, c, n) \/ Exit(s, c) \/ WaitBack(s, c)
                \/ uring_submit(s, c, l) \/ uring_wait(s, c, l, ts) \/ UringBack(s, c)
                \/ LimitBack(s, c) \/ UringResult(s, c) \/ Unreachable(s, c)
         PROVE  UNCHANGED thread
    BY <1>13 DEF Enter, Exit, WaitBack, uring_submit, uring_wait, UringBack, LimitBack,
           UringResult, Unreachable
  <1>14. ASSUME NEW s, NEW c, NEW o, Tick \/ Submit(c) \/ Fire(s, c) \/ Completion(s, o)
         PROVE  UNCHANGED thread
    BY <1>14 DEF Tick, Submit, Fire, Completion
  <1>15. UNCHANGED thread => ThreadType'
    BY DEF thread
  <1>16. ASSUME NEW s \in Loops, NEW c \in Cos, Body(s, c) PROVE ThreadType'
    BY <1>6, <1>7, <1>8, <1>13, <1>15, <1>16 DEF Body
  <1>17. ASSUME NEW s \in Loops, Step(s) PROVE ThreadType'
    BY <1>1, <1>2, <1>4, <1>5, <1>10, <1>11, <1>16, <1>17 DEF Step
  <1> QED
    BY <1>9, <1>12, <1>14, <1>15, <1>17 DEF Next

\* Where a wait goes on when the coroutine has yielded.
LEMMA YieldPlaces ==
    ASSUME BodyType, NEW s \in Loops, NEW c \in Cos, suspend_with(s, c)
    PROVE  /\ \E k \in Places : at' = [at EXCEPT ![c] = k]
           /\ \/ at[c] = "until" /\ at'[c] = "body"
              \/ at[c] = "nio" /\ at'[c] = "nio_back"
              \/ at[c] = "uring" /\ at'[c] = "uring_back"
              \/ at[c] = "limit" /\ at'[c] = "limit_back"
  <1>1. /\ DOMAIN After = {"until", "nio", "uring", "limit"}
        /\ After["until"] = "body" /\ After["nio"] = "nio_back"
        /\ After["uring"] = "uring_back" /\ After["limit"] = "limit_back"
    BY SMTT(30) DEF After
  <1>2. {"body", "nio_back", "uring_back", "limit_back"} \subseteq Places
    BY DEF Places
  <1>3. PICK l \in DOMAIN After : at[c] = l /\ at' = [at EXCEPT ![c] = After[l]]
    BY DEF suspend_with, At, GoOn
  <1>4. at'[c] = After[l]
    BY <1>3 DEF BodyType
  <1> QED
    BY <1>1, <1>2, <1>3, <1>4

\* Every step keeps the coroutines' own data typed.
LEMMA BodyTyped ==
    ASSUME Typed, Next
    PROVE  BodyType'
  <1>0. StateType /\ BodyType /\ MaxOps \in Nat
    BY TypeParts, SchedulerAssumption DEF Typed
  <1> USE <1>0 DEF BodyType
  <1>1. ASSUME NEW c \in Cos, Operation(c) PROVE ops' \in [Cos -> 0 .. MaxOps]
    BY <1>1, SMTT(30) DEF Operation
  <1>2. ASSUME NEW c \in Cos, NEW l \in Places, GoOn(c, l) PROVE at' \in [Cos -> Places]
    BY <1>2 DEF GoOn
  <1>3. ASSUME NEW c \in Cos, NEW ts \in Times, due' = [due EXCEPT ![c] = ts]
        PROVE  due' \in [Cos -> Times]
    BY <1>3
  <1>4. ASSUME NEW s \in Loops, NEW c \in Cos, home' = [home EXCEPT ![c] = s]
        PROVE  home' \in [Cos -> Loops \cup {NoCo}]
    BY <1>4
  <1>5. /\ {"body", "until", "call", "again", "nio", "nio_back", "uring_back", "limit_back",
             "result", "exit", "dead", "uring_wait", "limit_wait", "uring", "limit"}
             \subseteq Places
    BY DEF Places
  <1>6. ASSUME NEW s \in Loops, NEW c \in Cos, Suspend(s, c) PROVE BodyType'
    BY <1>1, <1>3, <1>6, Bounds DEF Suspend
  <1>7. ASSUME NEW s \in Loops, NEW c \in Cos, NEW ts \in now .. MaxTime, Until(s, c, ts)
        PROVE  BodyType'
    BY <1>1, <1>2, <1>3, <1>5, <1>7, WaitTimes DEF Until
  <1>8. ASSUME NEW s \in Loops, NEW c \in Cos, suspend_with(s, c) PROVE BodyType'
    <2>1. at' \in [Cos -> Places]
      BY <1>2, <1>8, YieldPlaces DEF BodyType
    <2> QED
      BY <1>8, <2>1 DEF suspend_with, history
  <1>9. ASSUME NEW s \in Loops, NEW c \in Cos, NEW n, Enter(s, c, n) PROVE BodyType'
    BY <1>1, <1>2, <1>5, <1>9 DEF Enter, history
  <1>10. ASSUME NEW s \in Loops, NEW c \in Cos,
                Exit(s, c) \/ WaitBack(s, c) \/ UringBack(s, c) \/ UringResult(s, c)
         PROVE  BodyType'
    <2>1. at' \in [Cos -> Places]
      BY <1>2, <1>5, <1>10 DEF Exit, WaitBack, UringBack, UringResult
    <2> QED
      BY <1>10, <2>1 DEF Exit, WaitBack, UringBack, UringResult, history
  <1>11. ASSUME NEW s \in Loops, NEW c \in Cos, LimitBack(s, c) PROVE BodyType'
    <2>1. at' \in [Cos -> Places]
      BY <1>2, <1>5, <1>11 DEF LimitBack
    <2> QED
      BY <1>11, <2>1 DEF LimitBack, history
  <1>12. ASSUME NEW s \in Loops, NEW c \in Cos, NEW ts \in now .. MaxTime, NEW r,
                wait_just(s, c, ts, r)
         PROVE  BodyType'
    BY <1>1, <1>2, <1>3, <1>4, <1>5, <1>12, WaitTimes DEF wait_just
  <1>13. ASSUME NEW s \in Loops, NEW c \in Cos, NEW l \in {"uring", "limit"},
                uring_submit(s, c, l)
         PROVE  BodyType'
    <2>1. Submitted[l] \in Places
      BY <1>5, SMTT(30) DEF Submitted
    <2> QED
      BY <1>1, <1>2, <1>4, <1>13, <2>1 DEF uring_submit, history
  <1>14. ASSUME NEW s \in Loops, NEW c \in Cos, NEW l \in {"uring", "limit"}, NEW ts \in Times,
                uring_wait(s, c, l, ts)
         PROVE  BodyType'
    BY <1>2, <1>3, <1>5, <1>14 DEF uring_wait
  <1>15. ASSUME NEW s \in Loops, NEW c \in Cos, Preempt(s, c) PROVE BodyType'
    BY <1>1, <1>15 DEF Preempt, history
  <1>16. ASSUME NEW s \in Loops, sigurg_handler(s) PROVE BodyType'
    <2>1. due' \in [Cos -> Times]
      BY <1>16, Bounds DEF sigurg_handler
    <2> QED
      BY <1>16, <2>1 DEF sigurg_handler, body
  <1>17. ASSUME NEW s \in Loops, sigvtalrm_handler(s) PROVE BodyType'
    <2>1. at' \in [Cos -> Places]
      BY <1>5, <1>17 DEF sigvtalrm_handler, GoOn
    <2> QED
      BY <1>17, <2>1 DEF sigvtalrm_handler, history
  <1>18. ASSUME NEW c \in Cos, TryCancel(c) PROVE BodyType'
    BY <1>18 DEF TryCancel, body
  <1>19. ASSUME NEW s, NEW c, NEW end,
                \/ check_ready(s) \/ DropCancelled(s, c) \/ Resume(s, c) \/ PopNone(s)
                \/ YieldRunning(s, c) \/ YieldSyscall(s, c) \/ Finish(s, c, end) \/ Select(s)
         PROVE  UNCHANGED <<body, history>>
    BY <1>19 DEF check_ready, DropCancelled, Resume, PopNone, YieldRunning, YieldSyscall,
           Finish, Select
  <1>20. ASSUME NEW s, NEW c, NEW o,
                \/ Tick \/ Submit(c) \/ Unreachable(s, c) \/ Fire(s, c) \/ Completion(s, o)
         PROVE  UNCHANGED <<body, history>>
    BY <1>20 DEF Tick, Submit, Unreachable, Fire, Completion
  <1>21. UNCHANGED <<body, history>> => BodyType'
    BY DEF body, history
  <1>22. ASSUME NEW s \in Loops, NEW c \in Cos, Body(s, c) PROVE BodyType'
    <2>1. now .. MaxTime \subseteq Times /\ Never \in Times
      BY Bounds, WaitTimes
    <2> QED
      BY <1>6, <1>7, <1>8, <1>9, <1>10, <1>11, <1>12, <1>13, <1>14, <1>19, <1>20, <1>21,
         <1>22, <2>1 DEF Body
  <1>23. ASSUME NEW s \in Loops, Step(s) PROVE BodyType'
    BY <1>16, <1>17, <1>19, <1>21, <1>22, <1>23 DEF Step
  <1> QED
    BY <1>15, <1>18, <1>20, <1>21, <1>23 DEF Next

\* resume() keeps the I/O state typed...
LEMMA ResumeIo ==
    ASSUME IoType, NEW e \in Loops, NEW st, resume(e, st)
    PROVE  IoType'
  <1>1. Results(e) \subseteq Ops \X Ops /\ Waiters(e) \subseteq Ops
    BY DEF IoType, Results, Waiters
  <1>2. <<>> \in Seq(Ops)
    BY SMTT(30)
  <1> QED
    BY <1>1, <1>2 DEF IoType, resume

\* ... and so does every step.
LEMMA IoTyped ==
    ASSUME Typed, Next
    PROVE  IoType'
  <1>0. BodyType /\ IoType
    BY TypeParts DEF Typed
  <1> USE <1>0 DEF IoType
  <1>1. ASSUME NEW s \in Loops, NEW c \in Cos, NEW ts, NEW r, wait_just(s, c, ts, r)
        PROVE  IoType'
    BY <1>1 DEF wait_just, Register
  <1>2. ASSUME NEW s \in Loops, NEW c \in Cos, WaitBack(s, c) PROVE IoType'
    <2>1. home[c] \in Loops
      BY <1>2 DEF Typed, Homed, WaitBack, At
    <2> QED
      BY <1>2, <2>1, ResumeIo DEF WaitBack
  <1>3. ASSUME NEW s \in Loops, Select(s) PROVE IoType'
    BY <1>3, ResumeIo DEF Select
  <1>4. ASSUME NEW s \in Loops, NEW c \in Cos, NEW l, uring_submit(s, c, l) PROVE IoType'
    <2>1. Op(c)' \in Ops
      BY <1>4, BodyTyped DEF BodyType, Op, Ops
    <2> QED
      BY <1>4, <2>1 DEF uring_submit
  <1>5. ASSUME NEW s \in Loops, NEW c \in Cos, NEW l, NEW ts, uring_wait(s, c, l, ts)
        PROVE  IoType'
    <2>1. Op(c) \in Ops
      BY DEF BodyType, Op, Ops
    <2>2. table' = [table EXCEPT ![home[c]] = {o \in @ : o[1] # c} \cup {Op(c)}]
      BY <1>5 DEF uring_wait
    <2>3. table' \in [Loops -> SUBSET Ops]
      BY <2>1, <2>2
    <2> QED
      BY <1>5, <2>3 DEF uring_wait
  <1>6. ASSUME NEW s \in Loops, NEW c \in Cos, Fire(s, c) PROVE IoType'
    BY <1>6 DEF Fire
  <1>7. ASSUME NEW s \in Loops, NEW o \in Ops, Completion(s, o) PROVE IoType'
    <2>1. Append(cq[s], o) \in Seq(Ops)
      BY SMTT(30)
    <2> QED
      BY <1>7, <2>1 DEF Completion
  <1>8. ASSUME NEW s, NEW c, NEW end,
               \/ check_ready(s) \/ DropCancelled(s, c) \/ Resume(s, c) \/ PopNone(s)
               \/ YieldRunning(s, c) \/ YieldSyscall(s, c) \/ Finish(s, c, end)
               \/ sigurg_handler(s) \/ sigvtalrm_handler(s)
        PROVE  UNCHANGED io
    BY <1>8 DEF check_ready, DropCancelled, Resume, PopNone, YieldRunning, YieldSyscall,
           Finish, sigurg_handler, sigvtalrm_handler
  <1>9. ASSUME NEW s, NEW c, NEW n, NEW ts,
               \/ Suspend(s, c) \/ Until(s, c, ts) \/ suspend_with(s, c)
               \/ Enter(s, c, n) \/ Exit(s, c) \/ UringBack(s, c)
               \/ LimitBack(s, c) \/ UringResult(s, c) \/ Unreachable(s, c)
        PROVE  UNCHANGED io
    BY <1>9 DEF Suspend, Until, suspend_with, Enter, Exit, UringBack, LimitBack, UringResult,
           Unreachable
  <1>10. ASSUME NEW s, NEW c, Tick \/ Submit(c) \/ TryCancel(c) \/ Preempt(s, c)
         PROVE  UNCHANGED io
    BY <1>10 DEF Tick, Submit, TryCancel, Preempt
  <1>11. UNCHANGED io => IoType'
    BY DEF io
  <1>12. ASSUME NEW s \in Loops, NEW c \in Cos, Body(s, c) PROVE IoType'
    BY <1>1, <1>2, <1>4, <1>5, <1>8, <1>9, <1>11, <1>12 DEF Body
  <1>13. ASSUME NEW s \in Loops, Step(s) PROVE IoType'
    BY <1>3, <1>8, <1>11, <1>12, <1>13 DEF Step
  <1> QED
    BY <1>6, <1>7, <1>10, <1>11, <1>13 DEF Next

\* Every wait is begun at a loop, which is kept until the call is over.
LEMMA HomedStep ==
    ASSUME Typed, Next
    PROVE  Homed'
  <1>0. BodyType
    BY TypeParts DEF Typed
  <1> USE <1>0 DEF Typed, Homed, BodyType, GoOn
  <1>1. ASSUME NEW s \in Loops, NEW c \in Cos, NEW ts, NEW n, NEW l \in {"uring", "limit"},
               \/ Until(s, c, ts) \/ Enter(s, c, n) \/ Exit(s, c) \/ WaitBack(s, c)
               \/ uring_wait(s, c, l, ts) \/ UringBack(s, c) \/ LimitBack(s, c)
               \/ UringResult(s, c)
        PROVE  Homed'
    <2>1. /\ home' = home /\ \E k : at' = [at EXCEPT ![c] = k]
          /\ at'[c] \in {"until", "call", "body"}
                \/ at[c] \notin {"body", "until", "call", "dead"}
      <3>1. CASE Until(s, c, ts) \/ Enter(s, c, n)
        BY <3>1, SMTT(30) DEF Until, Enter, At
      <3>2. CASE Exit(s, c) \/ WaitBack(s, c)
        BY <3>2, SMTT(30) DEF Exit, WaitBack, At
      <3>3. CASE uring_wait(s, c, l, ts)
        <4>1. Submitted[l] \notin {"body", "until", "call", "dead"}
          BY SMTT(30) DEF Submitted
        <4>2. home' = home /\ at' = [at EXCEPT ![c] = l] /\ at[c] = Submitted[l]
          BY <3>3 DEF uring_wait, At
        <4> QED
          BY <4>1, <4>2
      <3>4. CASE UringBack(s, c) \/ LimitBack(s, c)
        BY <3>4, SMTT(30) DEF UringBack, LimitBack, At
      <3>5. CASE UringResult(s, c)
        BY <3>5 DEF UringResult, At
      <3> QED
        BY <1>1, <3>1, <3>2, <3>3, <3>4, <3>5
    <2> QED
      BY <2>1
  <1>2. ASSUME NEW s \in Loops, NEW c \in Cos, suspend_with(s, c) PROVE Homed'
    <2>1. home' = home
      BY <1>2 DEF suspend_with
    <2> QED
      BY <1>2, <2>1, YieldPlaces
  <1>3. ASSUME NEW s \in Loops, NEW c \in Cos, NEW ts, NEW r, NEW l,
               wait_just(s, c, ts, r) \/ uring_submit(s, c, l)
        PROVE  Homed'
    BY <1>3 DEF wait_just, uring_submit
  <1>4. ASSUME NEW s \in Loops, sigvtalrm_handler(s) PROVE Homed'
    BY <1>4 DEF sigvtalrm_handler
  <1>5. ASSUME NEW s, NEW c, NEW end,
               \/ check_ready(s) \/ DropCancelled(s, c) \/ Resume(s, c) \/ PopNone(s)
               \/ YieldRunning(s, c) \/ YieldSyscall(s, c) \/ Finish(s, c, end) \/ Select(s)
               \/ Suspend(s, c) \/ Unreachable(s, c) \/ sigurg_handler(s)
        PROVE  UNCHANGED <<at, home>>
    BY <1>5 DEF check_ready, DropCancelled, Resume, PopNone, YieldRunning, YieldSyscall,
           Finish, Select, Suspend, Unreachable, sigurg_handler, body
  <1>6. ASSUME NEW s, NEW c, NEW o,
               \/ Tick \/ Submit(c) \/ TryCancel(c) \/ Fire(s, c) \/ Completion(s, o)
               \/ Preempt(s, c)
        PROVE  UNCHANGED <<at, home>>
    BY <1>6 DEF Tick, Submit, TryCancel, Fire, Completion, Preempt, body
  <1>7. UNCHANGED <<at, home>> => Homed'
    OBVIOUS
  <1>8. ASSUME NEW s \in Loops, NEW c \in Cos, Body(s, c) PROVE Homed'
    BY <1>1, <1>2, <1>3, <1>5, <1>7, <1>8 DEF Body
  <1>9. ASSUME NEW s \in Loops, Step(s) PROVE Homed'
    BY <1>4, <1>5, <1>7, <1>8, <1>9 DEF Step
  <1> QED
    BY <1>6, <1>7, <1>9 DEF Next

\* A stuttering step changes none of it.
LEMMA TypedStutter == ASSUME Typed, UNCHANGED vars PROVE Typed'
  <1>1. UNCHANGED <<now, state, panicked>> => (StateType => StateType')
    BY DEF StateType
  <1>2. UNCHANGED <<queues, running, cancel>> => (QueueType => QueueType')
    BY DEF QueueType, queues
  <1>3. UNCHANGED thread => (ThreadType => ThreadType')
    BY DEF ThreadType, thread
  <1>4. UNCHANGED <<body, history>> => (BodyType => BodyType') /\ (Homed => Homed')
    BY DEF BodyType, body, history, Homed
  <1>5. UNCHANGED io => (IoType => IoType')
    BY DEF IoType, io
  <1> QED
    BY <1>1, <1>2, <1>3, <1>4, <1>5, TypeParts
       DEF Typed, vars, TypeOK, StateType, QueueType, ThreadType, BodyType, IoType

\* The types are inductive.
LEMMA TypedNext == Typed /\ [Next]_vars => Typed'
  <1>1. ASSUME Typed, Next PROVE Typed'
    <2>1. StateType' /\ QueueType' /\ ThreadType' /\ BodyType' /\ IoType'
      BY <1>1, TypeParts, StateTyped, QueueTyped, ThreadTyped, BodyTyped, IoTyped DEF Typed
    <2>2. TypeOK'
      BY <2>1 DEF TypeOK, StateType, QueueType, ThreadType, BodyType, IoType
    <2> QED
      BY <1>1, <2>2, HomedStep DEF Typed
  <1> QED
    BY <1>1, TypedStutter

\* The fields of Scheduler, Coroutine and EventLoop and the thread locals of
\* Suspender hold values of their types: for any number of threads, coroutines
\* and operations, all kinds of waits, and all signals.
THEOREM SchedulerTyped == Spec => []TypeOK
  <1>1. Typed => TypeOK
    BY DEF Typed
  <1> QED
    BY <1>1, TypedInit, TypedNext, PTL DEF Spec

-----------------------------------------------------------------------------
(* Every coroutine is in one place.                                        *)

\* The places that can own a coroutine.
Spots == {"fresh", "ready", "finished", "dropped", "run", "suspend", "syscall"}

\* Coroutine c is at k (of thread l), and nowhere else.
In(c, k, l) ==
    /\ k \in {"run", "suspend", "syscall"} => l \in Loops
    /\ c \in fresh <=> k = "fresh"
    /\ c \in ready <=> k = "ready"
    /\ c \in finished <=> k = "finished"
    /\ c \in dropped <=> k = "dropped"
    /\ \A s \in Loops : /\ co[s] = c <=> k = "run" /\ s = l
                        /\ c \in suspend[s] <=> k = "suspend" /\ s = l
                        /\ c \in syscall[s] <=> k = "syscall" /\ s = l

\* It is in some place, and nowhere else.
InOne(c) == \E k \in Spots, l \in Loops \cup {NoCo} : In(c, k, l)

\* That is so for every coroutine.
Once == \A c \in Cos : InOne(c)

\* A thread has a coroutine exactly while that runs or has just yielded.
Seated == \A s \in Loops : pc[s] \in {"run", "yield"} <=> co[s] # NoCo

\* Coroutine c stays where it is.
Stays(c) ==
    /\ c \in fresh' <=> c \in fresh
    /\ c \in ready' <=> c \in ready
    /\ c \in finished' <=> c \in finished
    /\ c \in dropped' <=> c \in dropped
    /\ \A s \in Loops : /\ co'[s] = c <=> co[s] = c
                        /\ c \in suspend'[s] <=> c \in suspend[s]
                        /\ c \in syscall'[s] <=> c \in syscall[s]

\* A coroutine that stays is in one place.
LEMMA StaysInOne == ASSUME NEW c \in Cos, InOne(c), Stays(c) PROVE InOne(c)'
  <1>1. PICK k \in Spots, l \in Loops \cup {NoCo} : In(c, k, l)
    BY DEF InOne
  <1>2. In(c, k, l)'
    BY <1>1 DEF In, Stays
  <1> QED
    BY <1>2 DEF InOne

\* It suffices to look at the coroutine that moves.
LEMMA OnceMoves ==
    ASSUME Once, NEW c \in Cos, InOne(c)', \A d \in Cos \ {c} : Stays(d)
    PROVE  Once'
  BY StaysInOne DEF Once

\* What the one place of a coroutine excludes.
LEMMA InReady == ASSUME Once, NEW c \in Cos, c \in ready PROVE In(c, "ready", NoCo)
  BY DEF Once, InOne, In, Spots

\* A coroutine a thread runs is there only...
LEMMA InRun == ASSUME Once, NEW s \in Loops, NEW c \in Cos, co[s] = c PROVE In(c, "run", s)
  BY SMTT(30) DEF Once, InOne, In, Spots

\* ... one that waits for its time...
LEMMA InSuspend ==
    ASSUME Once, NEW s \in Loops, NEW c \in Cos, c \in suspend[s] PROVE In(c, "suspend", s)
  BY DEF Once, InOne, In, Spots

\* ... one in a call...
LEMMA InSyscall ==
    ASSUME Once, NEW s \in Loops, NEW c \in Cos, c \in syscall[s] PROVE In(c, "syscall", s)
  BY DEF Once, InOne, In, Spots

\* ... and one that was not submitted yet.
LEMMA InFresh == ASSUME Once, NEW c \in Cos, c \in fresh PROVE In(c, "fresh", NoCo)
  BY DEF Once, InOne, In, Spots

\* A step that is not about coroutine d: d stays where it is, and when it is on
\* a thread nothing of that thread changes.
Still(d) ==
    /\ Stays(d)
    /\ state'[d] = state[d] /\ at'[d] = at[d] /\ due'[d] = due[d]
    /\ home'[d] = home[d] /\ ops'[d] = ops[d]
    /\ \A s \in Loops : co[s] = d => /\ pc'[s] = pc[s] /\ cancels'[s] = cancels[s]
                                     /\ stamps'[s] = stamps[s]

\* A step that is about coroutine c only.
OthersStill(c) == \A d \in Cos \ {c} : Still(d)

\* The inductive invariant for EachCoroutineOnce.
OnceInv == Typed /\ Once /\ Seated

\* Its parts, to be cited together.
LEMMA OnceTypes == OnceInv => /\ StateType /\ QueueType /\ ThreadType /\ BodyType /\ IoType
                              /\ NoCo \notin Cos /\ Once
  BY TypeParts, SchedulerAssumption DEF OnceInv, Typed

\* submit_co() puts a coroutine into the ready queue.
LEMMA SubmitMoves ==
    ASSUME OnceInv, NEW c \in Cos, Submit(c)
    PROVE  In(c, "fresh", NoCo) /\ In(c, "ready", NoCo)' /\ OthersStill(c)
  <1>1. In(c, "fresh", NoCo)
    BY OnceTypes, InFresh DEF Submit
  <1> QED
    BY <1>1 DEF Submit, In, OthersStill, Still, Stays, thread, body, history

\* do_schedule() drops a popped coroutine that is cancelled.
LEMMA DropMoves ==
    ASSUME OnceInv, NEW s \in Loops, NEW c \in Cos, DropCancelled(s, c)
    PROVE  In(c, "ready", NoCo) /\ In(c, "dropped", NoCo)' /\ OthersStill(c)
  <1>1. In(c, "ready", NoCo) /\ ThreadType /\ NoCo \notin Cos /\ co[s] = NoCo
    BY OnceTypes, InReady DEF DropCancelled, OnceInv, Seated
  <1>2. In(c, "dropped", NoCo)'
    BY <1>1 DEF DropCancelled, In
  <1> QED
    BY <1>1, <1>2 DEF DropCancelled, OthersStill, Still, Stays, ThreadType, Goto, body, history

\* do_schedule() runs the popped coroutine, or drops it when it cannot run.
LEMMA ResumeMoves ==
    ASSUME OnceInv, NEW s \in Loops, NEW c \in Cos, Resume(s, c)
    PROVE  /\ In(c, "ready", NoCo) /\ OthersStill(c)
           /\ IF CanRun(state[c], now) THEN In(c, "run", s)' ELSE In(c, "dropped", NoCo)'
  <1>1. In(c, "ready", NoCo) /\ ThreadType /\ StateType /\ NoCo \notin Cos /\ co[s] = NoCo
    BY OnceTypes, InReady DEF Resume, OnceInv, Seated
  <1>2. IF CanRun(state[c], now) THEN In(c, "run", s)' ELSE In(c, "dropped", NoCo)'
    BY <1>1 DEF Resume, In, ThreadType
  <1>3. ASSUME NEW d \in Cos \ {c} PROVE Still(d)
    <2>1. Stays(d)
      BY <1>1 DEF Resume, Stays, ThreadType
    <2> QED
      BY <1>1, <2>1 DEF Resume, Still, ThreadType, StateType, Goto, body, history
  <1> QED
    BY <1>1, <1>2, <1>3 DEF OthersStill

\* A coroutine that yields in state Running ends, waits, or is ready again.
LEMMA YieldRunningMoves ==
    ASSUME OnceInv, NEW s \in Loops, NEW c \in Cos, YieldRunning(s, c)
    PROVE  /\ In(c, "run", s) /\ OthersStill(c)
           /\ IF cancels[s] > 0 THEN In(c, "finished", NoCo)'
              ELSE IF timestamp(s) > now THEN In(c, "suspend", s)'
              ELSE In(c, "ready", NoCo)'
  <1>1. /\ In(c, "run", s) /\ QueueType /\ ThreadType /\ StateType /\ NoCo \notin Cos
    BY OnceTypes, InRun DEF YieldRunning
  <1>2. IF cancels[s] > 0 THEN In(c, "finished", NoCo)'
        ELSE IF timestamp(s) > now THEN In(c, "suspend", s)'
        ELSE In(c, "ready", NoCo)'
    BY <1>1, SMTT(30) DEF YieldRunning, Continue, Park, In, ThreadType, QueueType
  <1>3. ASSUME NEW d \in Cos \ {c} PROVE Still(d)
    <2>1. Stays(d)
      BY <1>1, SMTT(30) DEF YieldRunning, Continue, Park, Stays, ThreadType, QueueType
    <2>2. state'[d] = state[d]
      BY <1>1 DEF YieldRunning, StateType
    <2>3. \A l \in Loops \ {s} : /\ pc'[l] = pc[l] /\ cancels'[l] = cancels[l]
                                  /\ stamps'[l] = stamps[l]
      BY <1>1 DEF YieldRunning, Continue, Goto, ThreadType
    <2> QED
      BY <1>1, <2>1, <2>2, <2>3 DEF YieldRunning, Still, body, history
  <1> QED
    BY <1>1, <1>2, <1>3 DEF OthersStill

\* One that yields in state Syscall goes to the syscall table.
LEMMA YieldSyscallMoves ==
    ASSUME OnceInv, NEW s \in Loops, NEW c \in Cos, YieldSyscall(s, c)
    PROVE  In(c, "run", s) /\ In(c, "syscall", s)' /\ OthersStill(c)
  <1>1. /\ In(c, "run", s) /\ QueueType /\ ThreadType /\ NoCo \notin Cos
    BY OnceTypes, InRun DEF YieldSyscall
  <1>2. In(c, "syscall", s)'
    BY <1>1 DEF YieldSyscall, Continue, In, ThreadType, QueueType
  <1>3. ASSUME NEW d \in Cos \ {c} PROVE Still(d)
    <2>1. Stays(d)
      BY <1>1 DEF YieldSyscall, Continue, Stays, ThreadType, QueueType
    <2> QED
      BY <1>1, <2>1 DEF YieldSyscall, Continue, Goto, Still, ThreadType, body, history
  <1> QED
    BY <1>1, <1>2, <1>3 DEF OthersStill

\* One that returns or panics ends.
LEMMA FinishMoves ==
    ASSUME OnceInv, NEW s \in Loops, NEW c \in Cos, NEW end, Finish(s, c, end)
    PROVE  /\ In(c, "run", s) /\ OthersStill(c)
           /\ IF state[c].kind = "Running" THEN In(c, "finished", NoCo)'
              ELSE In(c, "dropped", NoCo)'
  <1>1. /\ In(c, "run", s) /\ StateType /\ ThreadType /\ NoCo \notin Cos
    BY OnceTypes, InRun DEF Finish, At
  <1>2. IF state[c].kind = "Running" THEN In(c, "finished", NoCo)'
        ELSE In(c, "dropped", NoCo)'
    BY <1>1 DEF Finish, Continue, In, ThreadType
  <1>3. ASSUME NEW d \in Cos \ {c} PROVE Still(d)
    <2>1. co' = [co EXCEPT ![s] = NoCo] /\ UNCHANGED <<fresh, ready, suspend, syscall>>
      BY DEF Finish, Continue
    <2>2. finished' \subseteq finished \cup {c} /\ finished \subseteq finished'
      BY DEF Finish
    <2>3. dropped' \subseteq dropped \cup {c} /\ dropped \subseteq dropped'
      BY DEF Finish
    <2>4. Stays(d)
      BY <1>1, <2>1, <2>2, <2>3, SMTT(30) DEF In, Stays, ThreadType
    <2>5. state'[d] = state[d] /\ \A l \in Loops \ {s} : pc'[l] = pc[l]
      BY <1>1 DEF Finish, Continue, Goto, StateType, ThreadType
    <2> QED
      BY <1>1, <2>4, <2>5 DEF Finish, Still, In, body, history
  <1> QED
    BY <1>1, <1>2, <1>3 DEF OthersStill

\* What a coroutine does on its thread leaves the others alone.
LEMMA BodyStill ==
    ASSUME OnceInv, NEW s \in Loops, NEW c \in Cos, NEW n, NEW ts, NEW r, NEW l,
           \/ Suspend(s, c) \/ Until(s, c, ts) \/ suspend_with(s, c)
           \/ Enter(s, c, n) \/ Exit(s, c) \/ wait_just(s, c, ts, r)
           \/ uring_submit(s, c, l) \/ uring_wait(s, c, l, ts) \/ UringBack(s, c)
           \/ LimitBack(s, c) \/ UringResult(s, c) \/ Unreachable(s, c) \/ Preempt(s, c)
    PROVE  /\ In(c, "run", s) /\ In(c, "run", s)' /\ OthersStill(c)
           /\ now' = now /\ pc[s] = "run" /\ ~panicked
           /\ UNCHANGED <<queues, co, cancels, cancel, running>>
  <1>1. /\ In(c, "run", s) /\ StateType /\ ThreadType /\ BodyType
        /\ NoCo \notin Cos /\ pc[s] = "run" /\ ~panicked
    <2>1. co[s] = c /\ pc[s] = "run" /\ ~panicked
      BY DEF Suspend, Until, suspend_with, Enter, Exit, wait_just, uring_submit, uring_wait,
           UringBack, LimitBack, UringResult, Unreachable, Preempt, At
    <2> QED
      BY <2>1, OnceTypes, InRun
  <1>2. UNCHANGED <<now, queues, co, cancels, cancel, running>>
    BY DEF Suspend, Until, suspend_with, Enter, Exit, wait_just, uring_submit, uring_wait,
           UringBack, LimitBack, UringResult, Unreachable, Preempt, thread
  <1>3. In(c, "run", s)'
    BY <1>1, <1>2 DEF In, queues
  <1>4. ASSUME NEW d \in Cos \ {c} PROVE Still(d)
    <2>1. Stays(d)
      BY <1>2 DEF Stays, queues
    <2>2. state'[d] = state[d]
      BY <1>1 DEF Suspend, Until, suspend_with, Enter, Exit, wait_just, uring_submit,
             uring_wait, UringBack, LimitBack, UringResult, Unreachable, Preempt, StateType
    <2>3. at'[d] = at[d]
      BY <1>1 DEF Suspend, Until, suspend_with, Enter, Exit, wait_just, uring_submit,
             uring_wait, UringBack, LimitBack, UringResult, Unreachable, Preempt, BodyType,
             GoOn, body
    <2>4. due'[d] = due[d]
      BY <1>1 DEF Suspend, Until, suspend_with, Enter, Exit, wait_just, uring_submit,
             uring_wait, UringBack, LimitBack, UringResult, Unreachable, Preempt, BodyType,
             history
    <2>5. ops'[d] = ops[d] /\ home'[d] = home[d]
      BY <1>1 DEF Suspend, Until, suspend_with, Enter, Exit, wait_just, uring_submit,
             uring_wait, UringBack, LimitBack, UringResult, Unreachable, Preempt, BodyType,
             Operation, body
    <2>6. \A k \in Loops \ {s} : pc'[k] = pc[k] /\ stamps'[k] = stamps[k]
      BY <1>1 DEF Suspend, Until, suspend_with, Enter, Exit, wait_just, uring_submit,
             uring_wait, UringBack, LimitBack, UringResult, Unreachable, Preempt, ThreadType,
             Goto, thread
    <2> QED
      BY <1>1, <1>2, <2>1, <2>2, <2>3, <2>4, <2>5, <2>6 DEF Still, In
  <1> QED
    BY <1>1, <1>2, <1>3, <1>4 DEF OthersStill

\* A signal handler only concerns the coroutine of its thread, if that runs.
LEMMA SignalStill ==
    ASSUME OnceInv, NEW s \in Loops, sigurg_handler(s) \/ sigvtalrm_handler(s)
    PROVE  /\ \A d \in Cos : co[s] # d => Still(d)
           /\ UNCHANGED <<now, queues, co, cancel, running, state, home, ops>>
           /\ \A d \in Cos : Stays(d)
  <1>1. ThreadType /\ BodyType /\ NoCo \notin Cos
    BY OnceTypes
  <1>2. UNCHANGED <<now, queues, co, cancel, running, state, home, ops, stamps>>
    BY DEF sigurg_handler, sigvtalrm_handler, body
  <1>3. ASSUME NEW d \in Cos PROVE Stays(d)
    BY <1>2 DEF Stays, queues
  <1>4. ASSUME NEW d \in Cos, co[s] # d PROVE at'[d] = at[d] /\ due'[d] = due[d]
    BY <1>1, <1>4 DEF sigurg_handler, sigvtalrm_handler, BodyType, GoOn, body, history
  <1>5. \A l \in Loops \ {s} : pc'[l] = pc[l] /\ cancels'[l] = cancels[l]
    BY <1>1 DEF sigurg_handler, sigvtalrm_handler, ThreadType, Goto
  <1> QED
    BY <1>2, <1>3, <1>4, <1>5 DEF Still

\* Nor does a step of the environment, or of a thread without a coroutine.
LEMMA AllStill ==
    ASSUME OnceInv, NEW s \in Loops, NEW c, NEW o,
           PopNone(s) \/ Fire(s, c) \/ Completion(s, o)
    PROVE  /\ \A d \in Cos : Still(d)
           /\ UNCHANGED <<now, state, queues, running, cancel, body, history, panicked, co>>
  <1>1. PopNone(s) => co[s] = NoCo
    BY DEF PopNone, OnceInv, Seated
  <1>2. ThreadType /\ NoCo \notin Cos
    BY OnceTypes
  <1> QED
    BY <1>1, <1>2 DEF PopNone, Fire, Completion, Still, Stays, Goto, queues, thread, body, history,
           ThreadType

\* try_cancel_task() and the clock move no coroutine.
LEMMA CancelStill ==
    ASSUME OnceInv, NEW c, TryCancel(c) \/ Tick
    PROVE  \A d \in Cos : Still(d)
  BY DEF TryCancel, Tick, Still, Stays, queues, thread, body, history

\* check_ready() moves coroutines from the suspend and syscall tables of its
\* scheduler to the ready queue.
LEMMA CheckMoves ==
    ASSUME OnceInv, NEW s \in Loops, check_ready(s), NEW c \in Cos
    PROVE  \/ Still(c)
           \/ /\ In(c, "suspend", s) /\ In(c, "ready", NoCo)' /\ at'[c] = at[c]
              /\ CanBeReady(state[c], now) /\ state'[c] = Ready
           \/ /\ In(c, "syscall", s) /\ In(c, "ready", NoCo)' /\ at'[c] = at[c]
              /\ \E t \in timers[s] : t[1] <= now /\ t[2] = c
              /\ state'[c] = InCall(state[c].name, "Timeout", 0)
              /\ panicked' \/ IsCall(state[c], "Suspend")
  <1>0. QueueType /\ ThreadType /\ NoCo \notin Cos /\ Once
    BY OnceTypes
  <1> DEFINE woken == {d \in suspend[s] : CanBeReady(state[d], now)}
             fired == {t \in timers[s] : t[1] <= now}
             late  == {d \in syscall[s] : \E t \in fired : t[2] = d}
  <1>1. woken \subseteq suspend[s] /\ late \subseteq syscall[s]
    OBVIOUS
  <1>2. /\ ready' = ready \cup woken \cup late
        /\ suspend' = [suspend EXCEPT ![s] = @ \ woken]
        /\ syscall' = [syscall EXCEPT ![s] = @ \ late]
        /\ UNCHANGED <<fresh, finished, dropped, co, body, history, cancels, stamps>>
        /\ pc' = [pc EXCEPT ![s] = "pop"] /\ co[s] = NoCo
        /\ state'[c] = IF c \in woken THEN Ready
                       ELSE IF c \in late THEN InCall(state[c].name, "Timeout", 0)
                       ELSE state[c]
        /\ panicked' = (\E d \in late : ~IsCall(state[d], "Suspend"))
    BY DEF check_ready, OnceInv, Seated, Goto
  <1>3. c \in woken => CanBeReady(state[c], now)
    OBVIOUS
  <1>4. c \in late => \E t \in timers[s] : t[1] <= now /\ t[2] = c
    OBVIOUS
  <1> HIDE DEF woken, fired, late
  <1>5. CASE c \in woken
    <2>1. In(c, "suspend", s)
      BY <1>0, <1>1, <1>5, InSuspend
    <2>2. In(c, "ready", NoCo)'
      BY <1>0, <1>1, <1>2, <1>5, <2>1 DEF In, QueueType
    <2> QED
      BY <1>2, <1>3, <1>5, <2>1, <2>2 DEF body
  <1>6. CASE c \in late
    <2>1. In(c, "syscall", s)
      BY <1>0, <1>1, <1>6, InSyscall
    <2>2. In(c, "ready", NoCo)'
      BY <1>0, <1>1, <1>2, <1>6, <2>1 DEF In, QueueType
    <2>3. c \notin woken
      BY <1>1, <2>1 DEF In
    <2> QED
      BY <1>2, <1>4, <1>6, <2>1, <2>2, <2>3 DEF body
  <1>7. CASE c \notin woken \cup late
    <2>1. Stays(c)
      BY <1>0, <1>2, <1>7 DEF Stays, QueueType
    <2> QED
      BY <1>0, <1>2, <1>7, <2>1 DEF Still, ThreadType, body, history
  <1> QED
    BY <1>5, <1>6, <1>7

\* resume() moves coroutines from the syscall table of the loop to the ready
\* queue.
LEMMA WokenMoves ==
    ASSUME OnceInv, NEW e \in Loops, NEW st, resume(e, st), co' = co, NEW c \in Cos
    PROVE  \/ Stays(c) /\ state'[c] = st[c] /\ c \notin Reported(e) \cap tokens \cap syscall[e]
           \/ /\ In(c, "syscall", e) /\ In(c, "ready", NoCo)'
              /\ c \in Reported(e) \cap tokens
              /\ state'[c] = InCall(st[c].name, "Callback", 0)
              /\ panicked' \/ IsCall(st[c], "Suspend")
  <1>0. QueueType /\ Once
    BY OnceTypes
  <1> DEFINE woken == Reported(e) \cap tokens \cap syscall[e]
  <1>1. /\ ready' = ready \cup woken
        /\ syscall' = [syscall EXCEPT ![e] = @ \ woken]
        /\ UNCHANGED <<fresh, finished, dropped, suspend>>
        /\ state'[c] = IF c \in woken THEN InCall(st[c].name, "Callback", 0) ELSE st[c]
        /\ panicked' = (\E d \in woken : ~IsCall(st[d], "Suspend"))
    BY DEF resume
  <1>2. woken \subseteq syscall[e] /\ woken \subseteq Reported(e) \cap tokens
    OBVIOUS
  <1>3. CASE c \in woken
    <2> HIDE DEF woken
    <2>1. In(c, "syscall", e)
      BY <1>0, <1>2, <1>3, InSyscall
    <2>2. In(c, "ready", NoCo)'
      BY <1>0, <1>1, <1>2, <1>3, <2>1 DEF In, QueueType
    <2> QED
      BY <1>1, <1>2, <1>3, <2>1, <2>2
  <1>4. CASE c \notin woken
    <2>1. Stays(c)
      <3> HIDE DEF woken
      <3> QED
        BY <1>0, <1>1, <1>4 DEF Stays, QueueType
    <2> QED
      BY <1>1, <1>4, <2>1
  <1> QED
    BY <1>3, <1>4

\* Every step leaves every coroutine in one place.
LEMMA OnceStep ==
    ASSUME OnceInv, Next
    PROVE  Once'
  <1>1. ASSUME NEW c \in Cos, OthersStill(c), InOne(c)' PROVE Once'
    BY <1>1, OnceTypes, OnceMoves DEF OthersStill, Still
  <1>2. ASSUME \A c \in Cos : Stays(c) \/ InOne(c)' PROVE Once'
    BY <1>2, OnceTypes, StaysInOne DEF Once
  <1>3. ASSUME NEW c, NEW k \in Spots, NEW l \in Loops \cup {NoCo}, In(c, k, l)' PROVE InOne(c)'
    BY <1>3 DEF InOne
  <1>4. Spots = {"fresh", "ready", "finished", "dropped", "run", "suspend", "syscall"}
    BY DEF Spots
  <1>5. ASSUME NEW s \in Loops, check_ready(s) PROVE Once'
    BY <1>2, <1>3, <1>4, <1>5, CheckMoves DEF Still
  <1>6. ASSUME NEW e \in Loops, NEW st, resume(e, st), co' = co PROVE Once'
    BY <1>2, <1>3, <1>4, <1>6, WokenMoves
  <1>7. ASSUME NEW s \in Loops, NEW c \in Cos, Resume(s, c) PROVE Once'
    BY <1>1, <1>3, <1>4, <1>7, ResumeMoves
  <1>8. ASSUME NEW s \in Loops, NEW c \in Cos, YieldRunning(s, c) PROVE Once'
    BY <1>1, <1>3, <1>4, <1>8, YieldRunningMoves
  <1>9. ASSUME NEW s \in Loops, NEW c \in Cos, YieldSyscall(s, c) PROVE Once'
    BY <1>1, <1>3, <1>4, <1>9, YieldSyscallMoves
  <1>10. ASSUME NEW s \in Loops, NEW c \in Cos, NEW end, Finish(s, c, end) PROVE Once'
    BY <1>1, <1>3, <1>4, <1>10, FinishMoves
  <1>11. ASSUME NEW s \in Loops, NEW c \in Cos, DropCancelled(s, c) PROVE Once'
    BY <1>1, <1>3, <1>4, <1>11, DropMoves
  <1>12. ASSUME NEW c \in Cos, Submit(c) PROVE Once'
    BY <1>1, <1>3, <1>4, <1>12, SubmitMoves
  <1>13. ASSUME NEW s \in Loops, NEW c \in Cos, WaitBack(s, c) PROVE Once'
    <2>1. home[c] \in Loops
      BY <1>13 DEF OnceInv, Typed, Homed, WaitBack, At
    <2> QED
      BY <1>6, <1>13, <2>1 DEF WaitBack, thread
  <1>14. ASSUME NEW s \in Loops, Select(s) PROVE Once'
    BY <1>6, <1>14 DEF Select
  <1>15. ASSUME NEW s \in Loops, NEW c \in Cos, Body(s, c) PROVE Once'
    BY <1>1, <1>3, <1>4, <1>10, <1>13, <1>15, BodyStill DEF Body
  <1>16. ASSUME NEW s \in Loops, PopNone(s) \/ sigurg_handler(s) \/ sigvtalrm_handler(s)
         PROVE  Once'
    BY <1>2, <1>16, AllStill, SignalStill DEF Still
  <1>17. ASSUME NEW s \in Loops, Step(s) PROVE Once'
    BY <1>5, <1>7, <1>8, <1>9, <1>11, <1>14, <1>15, <1>16, <1>17 DEF Step
  <1>18. ASSUME NEW s \in Loops, NEW c, NEW o, Fire(s, c) \/ Completion(s, o) PROVE Once'
    BY <1>2, <1>18, AllStill DEF Still
  <1>19. ASSUME NEW s \in Loops, NEW c \in Cos, Preempt(s, c) PROVE Once'
    BY <1>1, <1>3, <1>4, <1>19, BodyStill
  <1>20. ASSUME NEW c, TryCancel(c) \/ Tick PROVE Once'
    BY <1>2, <1>20, CancelStill DEF Still
  <1> QED
    BY <1>12, <1>17, <1>18, <1>19, <1>20 DEF Next

\* A thread takes and gives back a coroutine together with its place in the
\* loop of do_schedule().
LEMMA SeatedStep ==
    ASSUME Typed, Seated, Next
    PROVE  Seated'
  <1>0. ThreadType /\ NoCo \notin Cos
    BY TypeParts, SchedulerAssumption DEF Typed
  <1> USE <1>0 DEF ThreadType, Seated, Goto
  <1>1. ASSUME NEW s \in Loops, check_ready(s) \/ PopNone(s) \/ Select(s) PROVE Seated'
    BY <1>1 DEF check_ready, PopNone, Select
  <1>2. ASSUME NEW s \in Loops, NEW c \in Cos, Resume(s, c) \/ DropCancelled(s, c)
        PROVE  Seated'
    BY <1>2 DEF Resume, DropCancelled
  <1>3. ASSUME NEW s \in Loops, Continue(s) PROVE Seated'
    BY <1>3 DEF Continue
  <1>4. ASSUME NEW s \in Loops, NEW c \in Cos, YieldRunning(s, c) \/ YieldSyscall(s, c)
        PROVE  Seated'
    BY <1>3, <1>4 DEF YieldRunning, YieldSyscall
  <1>5. ASSUME NEW s \in Loops, NEW c \in Cos, NEW end, Finish(s, c, end) PROVE Seated'
    BY <1>3, <1>5 DEF Finish
  <1>6. ASSUME NEW s \in Loops, NEW c \in Cos, Suspend(s, c) \/ suspend_with(s, c)
        PROVE  Seated'
    BY <1>6 DEF Suspend, suspend_with, At
  <1>7. ASSUME NEW s \in Loops, sigurg_handler(s) PROVE Seated'
    BY <1>7 DEF sigurg_handler, Preemptible
  <1>8. ASSUME NEW s \in Loops, sigvtalrm_handler(s) PROVE Seated'
    BY <1>8 DEF sigvtalrm_handler
  <1>9. ASSUME NEW s, NEW c, NEW n, NEW ts, NEW r, NEW l,
               \/ Until(s, c, ts) \/ Enter(s, c, n) \/ Exit(s, c) \/ wait_just(s, c, ts, r)
               \/ uring_submit(s, c, l) \/ uring_wait(s, c, l, ts) \/ UringBack(s, c)
               \/ LimitBack(s, c) \/ UringResult(s, c) \/ Unreachable(s, c) \/ WaitBack(s, c)
        PROVE  UNCHANGED <<pc, co>>
    BY <1>9 DEF Until, Enter, Exit, wait_just, uring_submit, uring_wait,
           UringBack, LimitBack, UringResult, Unreachable, WaitBack, thread
  <1>10. ASSUME NEW s, NEW c, NEW o,
                \/ Tick \/ Submit(c) \/ Fire(s, c) \/ Completion(s, o) \/ Preempt(s, c)
                \/ TryCancel(c)
         PROVE  UNCHANGED <<pc, co>>
    BY <1>10 DEF Tick, Submit, Fire, Completion, Preempt, TryCancel, thread
  <1>11. UNCHANGED <<pc, co>> => Seated'
    OBVIOUS
  <1>12. ASSUME NEW s \in Loops, NEW c \in Cos, Body(s, c) PROVE Seated'
    BY <1>5, <1>6, <1>9, <1>11, <1>12 DEF Body
  <1>13. ASSUME NEW s \in Loops, Step(s) PROVE Seated'
    BY <1>1, <1>2, <1>4, <1>7, <1>8, <1>12, <1>13 DEF Step
  <1> QED
    BY <1>10, <1>11, <1>13 DEF Next

\* Initially every coroutine is fresh.
LEMMA OnceInit == Init => OnceInv
  <1> SUFFICES ASSUME Init PROVE OnceInv
    OBVIOUS
  <1>1. \A c \in Cos : In(c, "fresh", NoCo)
    BY SchedulerAssumption DEF Init, In
  <1>2. Once
    BY <1>1 DEF Once, InOne, Spots
  <1> QED
    BY <1>2, TypedInit DEF Init, Seated, OnceInv

\* Being in one place is inductive.
LEMMA OnceNext == OnceInv /\ [Next]_vars => OnceInv'
  <1>1. ASSUME OnceInv, UNCHANGED vars PROVE Once' /\ Seated'
    <2>1. \A c \in Cos : Stays(c)
      BY <1>1 DEF vars, queues, thread, Stays
    <2>2. Once'
      BY <1>1, <2>1, StaysInOne DEF OnceInv, Once
    <2> QED
      BY <1>1, <2>2 DEF vars, thread, OnceInv, Seated
  <1> QED
    BY <1>1, TypedNext, OnceStep, SeatedStep DEF OnceInv

-----------------------------------------------------------------------------
(* What select() and the wait in a call do to the coroutines.              *)

\* A coroutine that select() of loop e takes out of the syscall table.
Woken(e, d) ==
    /\ In(d, "syscall", e) /\ In(d, "ready", NoCo)'
    /\ d \in Reported(e) \cap tokens
    /\ state'[d] = InCall(state[d].name, "Callback", 0)
    /\ panicked' \/ IsCall(state[d], "Suspend")
    /\ at'[d] = at[d] /\ due'[d] = due[d] /\ home'[d] = home[d] /\ ops'[d] = ops[d]

\* select() of a thread that runs nothing: it wakes, or nothing happens.
LEMMA SelectMoves ==
    ASSUME OnceInv, NEW s \in Loops, Select(s), NEW d \in Cos
    PROVE  Woken(s, d) \/ (Still(d) /\ d \notin Reported(s) \cap tokens \cap syscall[s])
  <1>1. resume(s, state) /\ UNCHANGED <<co, body, history, cancels, stamps>> /\ co[s] = NoCo
        /\ ThreadType /\ NoCo \notin Cos /\ pc' = [pc EXCEPT ![s] = "loop"]
    BY OnceTypes DEF Select, OnceInv, Seated, Goto
  <1> QED
    BY <1>1, WokenMoves, SMTT(30) DEF Woken, Still, body, history, ThreadType

\* The same for the select() at the end of a wait, with the coroutine that
\* calls it back in state Executing.
LEMMA WaitBackMoves ==
    ASSUME OnceInv, NEW s \in Loops, NEW c \in Cos, WaitBack(s, c)
    PROVE  /\ In(c, "run", s) /\ In(c, "run", s)' /\ home[c] \in Loops
           /\ state'[c] = Back(state[c], {"Callback", "Timeout"})
           /\ at[c] = "nio_back" /\ at'[c] = "again" /\ due'[c] = due[c]
           /\ ~panicked /\ pc[s] = "run" /\ UNCHANGED <<thread, home, ops, history, now, cancel>>
           /\ \A d \in Cos \ {c} : Woken(home[c], d) \/ Still(d)
  <1> DEFINE st == [state EXCEPT ![c] = Back(@, {"Callback", "Timeout"})]
  <1>1. /\ home[c] \in Loops /\ resume(home[c], st)
        /\ UNCHANGED <<thread, home, ops, history, now, cancel>>
        /\ at[c] = "nio_back" /\ at' = [at EXCEPT ![c] = "again"] /\ pc[s] = "run" /\ ~panicked
        /\ co[s] = c
    BY DEF WaitBack, OnceInv, Typed, Homed, At, GoOn
  <1>2. StateType /\ BodyType /\ Once /\ co' = co
    BY <1>1, OnceTypes DEF thread
  <1>3. In(c, "run", s)
    BY <1>1, <1>2, InRun
  <1>4. \A d \in Cos : \/ Stays(d) /\ state'[d] = st[d]
                       \/ /\ In(d, "syscall", home[c]) /\ In(d, "ready", NoCo)'
                          /\ d \in Reported(home[c]) \cap tokens
                          /\ state'[d] = InCall(st[d].name, "Callback", 0)
                          /\ panicked' \/ IsCall(st[d], "Suspend")
    BY <1>1, <1>2, WokenMoves
  <1>5. st[c] = Back(state[c], {"Callback", "Timeout"}) /\ \A d \in Cos \ {c} : st[d] = state[d]
    BY <1>2 DEF StateType
  <1> HIDE DEF st
  <1>6. Stays(c) /\ state'[c] = Back(state[c], {"Callback", "Timeout"})
    BY <1>1, <1>3, <1>4, <1>5 DEF In
  <1>7. In(c, "run", s)'
    BY <1>3, <1>6 DEF In, Stays
  <1>8. at'[c] = "again" /\ \A d \in Cos \ {c} : at'[d] = at[d]
    BY <1>1, <1>2 DEF BodyType
  <1>9. \A d \in Cos \ {c} : Woken(home[c], d) \/ Still(d)
    BY <1>1, <1>4, <1>5, <1>8 DEF Woken, Still, thread, history
  <1> QED
    BY <1>1, <1>3, <1>6, <1>7, <1>8, <1>9 DEF history

\* The fields of the states the constructors of Coroutine give.
LEMMA StateValues ==
    /\ Ready.kind = "Ready" /\ Running.kind = "Running"
    /\ \A ts : Suspended(ts).kind = "Suspend" /\ Suspended(ts).ts = ts
    /\ \A n, sc, ts : /\ InCall(n, sc, ts).kind = "Syscall" /\ InCall(n, sc, ts).call = sc
                      /\ InCall(n, sc, ts).ts = ts /\ InCall(n, sc, ts).name = n
  BY DEF Ready, Running, Suspended, InCall, State

-----------------------------------------------------------------------------
(* No coroutine is ready before its time.                                  *)

\* Coroutine c is due by now, or by ts.
DueBy(c, ts) == due[c] <= now \/ due[c] <= ts

\* Coroutine c is on thread s.  Only in state Running, never inside of a call,
\* does it take a timestamp from the queue of the thread: its own, or none.
DueOnThread(s, c) ==
    /\ state[c].kind \in {"Running", "Syscall"}
    /\ at[c] \in {"body", "until", "dead"} \/ state[c].kind = "Syscall"
    /\ pc[s] = "yield" /\ at[c] = "until" => state[c].kind = "Running"
    /\ pc[s] = "yield" /\ state[c].kind = "Running" =>
          cancels[s] > 0 \/ DueBy(c, timestamp(s))
    /\ pc[s] = "run" /\ at[c] = "until" => DueBy(c, timestamp(s))

\* What is so of a coroutine in the ready queue.
ReadyInTime(c) ==
    /\ \/ state[c].kind \in {"Ready", "Suspend"} /\ at[c] \in {"body", "until", "dead"}
       \/ state[c].kind = "Syscall" /\ state[c].call # "Executing"
    /\ state[c].kind \in {"Ready", "Suspend"} \/ at[c] = "until" => due[c] <= now

\* The timestamp a coroutine waits for, in every place it can be.
DueOK(c) ==
    /\ c \in fresh => state[c] = Ready /\ at[c] = "body" /\ due[c] = 0
    /\ c \in ready => ReadyInTime(c)
    /\ \A s \in Loops : /\ c \in suspend[s] =>
                              /\ state[c].kind = "Suspend" /\ DueBy(c, state[c].ts)
                              /\ at[c] \in {"body", "until", "dead"}
                        /\ c \in syscall[s] => state[c].kind = "Syscall" /\ at[c] # "until"
                        /\ co[s] = c => DueOnThread(s, c)

\* That is so for every coroutine.
Dues == \A c \in Cos : DueOK(c)

\* A coroutine that is still keeps it while time passes.
LEMMA DueStill ==
    ASSUME OnceInv, NEW c \in Cos, DueOK(c), Still(c), now' \in Int, now <= now'
    PROVE  DueOK(c)'
  <1>1. due[c] \in Int /\ now \in Int
    BY OnceTypes, Bounds DEF BodyType, StateType
  <1>2. \A ts : DueBy(c, ts) => DueBy(c, ts)'
    BY <1>1, SMTT(30) DEF Still, DueBy
  <1>3. \A s \in Loops : co[s] = c => timestamp(s)' = timestamp(s)
    BY DEF Still, timestamp
  <1>4. \A s \in Loops : co[s] = c /\ DueOnThread(s, c) => DueOnThread(s, c)'
    BY <1>1, <1>3, SMTT(30) DEF Still, DueBy, DueOnThread
  <1>5. c \in ready' => ReadyInTime(c)'
    BY <1>1, SMTT(30) DEF Still, Stays, DueOK, ReadyInTime
  <1>6. \A s \in Loops : c \in suspend'[s] =>
          /\ state'[c].kind = "Suspend" /\ DueBy(c, state[c].ts)'
          /\ at'[c] \in {"body", "until", "dead"}
    BY <1>1, SMTT(30) DEF Still, Stays, DueOK, DueBy
  <1>7. \A s \in Loops : co'[s] = c => DueOnThread(s, c)'
    BY <1>4 DEF Still, Stays, DueOK
  <1>8. c \in fresh' => state'[c] = Ready /\ at'[c] = "body" /\ due'[c] = 0
    BY DEF Still, Stays, DueOK
  <1>9. \A s \in Loops : c \in syscall'[s] => state'[c].kind = "Syscall" /\ at'[c] # "until"
    BY DEF Still, Stays, DueOK
  <1> QED
    BY <1>5, <1>6, <1>7, <1>8, <1>9 DEF DueOK

\* So it does when the clock stands.
LEMMA DueKept ==
    ASSUME OnceInv, NEW c \in Cos, DueOK(c), Still(c), now' = now
    PROVE  DueOK(c)'
  <1>1. now' \in Int /\ now <= now'
    <2>1. now \in Int
      BY OnceTypes, Bounds DEF StateType
    <2> QED
      BY <2>1, SMT
  <1> QED
    BY <1>1, DueStill

\* One that comes to a new place has to satisfy what is so there: in
\* the ready queue...
LEMMA DueReady ==
    ASSUME NEW c \in Cos, In(c, "ready", NoCo)', ReadyInTime(c)'
    PROVE  DueOK(c)'
  BY DEF In, DueOK

\* ... on a thread...
LEMMA DueRun ==
    ASSUME NEW s \in Loops, NEW c \in Cos, In(c, "run", s)', DueOnThread(s, c)'
    PROVE  DueOK(c)'
  BY DEF In, DueOK

\* ... and nothing once it has ended.
LEMMA DueEnded ==
    ASSUME NEW c \in Cos, In(c, "finished", NoCo)' \/ In(c, "dropped", NoCo)'
    PROVE  DueOK(c)'
  BY DEF In, DueOK

\* Every step keeps the timestamps in order.  A coroutine takes the first one of
\* the thread's queue, and until_with() put its own there in front: a signal
\* between the two only makes it take that one earlier.
LEMMA DuesStep ==
    ASSUME OnceInv, Dues, Next
    PROVE  Dues'
  <1>0. /\ StateType /\ ThreadType /\ BodyType /\ NoCo \notin Cos
        /\ \A c \in Cos : state[c] \in States /\ due[c] \in Int
        /\ now \in Int
    BY OnceTypes, Bounds DEF StateType, BodyType
  <1>1. ASSUME NEW c \in Cos, OthersStill(c), now' = now, DueOK(c)' PROVE Dues'
    BY <1>0, <1>1, DueKept DEF OthersStill, Dues
  <1>2. ASSUME NEW c \in Cos, Submit(c) PROVE Dues'
    <2>1. In(c, "fresh", NoCo) /\ In(c, "ready", NoCo)' /\ OthersStill(c)
      BY <1>2, SubmitMoves
    <2>2. /\ UNCHANGED <<now, state, at, due>>
          /\ state[c] = Ready /\ at[c] = "body" /\ due[c] = 0
      BY <1>2 DEF Submit, body, history, Dues, DueOK
    <2>3. 0 <= now
      BY Bounds, OnceTypes, SMT DEF StateType
    <2>4. ReadyInTime(c)'
      BY <2>2, <2>3, StateValues DEF ReadyInTime
    <2> QED
      BY <1>1, <2>1, <2>2, <2>4, DueReady
  <1>3. ASSUME NEW s \in Loops, NEW c \in Cos, DropCancelled(s, c) PROVE Dues'
    BY <1>1, <1>3, DropMoves, DueEnded DEF DropCancelled
  <1>4. ASSUME NEW s \in Loops, NEW c \in Cos, NEW end, Finish(s, c, end) PROVE Dues'
    BY <1>1, <1>4, FinishMoves, DueEnded DEF Finish
  <1>5. ASSUME NEW s \in Loops, NEW c \in Cos, Resume(s, c) PROVE Dues'
    <2>1. /\ In(c, "ready", NoCo) /\ OthersStill(c) /\ now' = now /\ UNCHANGED <<at, due>>
          /\ ReadyInTime(c)
      BY <1>5, ResumeMoves DEF Resume, body, history, Dues, DueOK
    <2>2. CASE CanRun(state[c], now)
      <3>1. In(c, "run", s)'
        BY <1>5, <2>2, ResumeMoves
      <3>2. pc'[s] = "run" /\ state'[c] = Run(state[c])
        BY <1>0, <1>5, <2>2 DEF Resume, Goto, TryRun, ThreadType, StateType
      <3>3. state'[c].kind \in {"Running", "Syscall"}
        BY <3>2, StateValues DEF Run
      <3>4. at[c] \in {"body", "until", "dead"} \/ state'[c].kind = "Syscall"
        BY <2>1, <3>2 DEF Run, ReadyInTime
      <3>5. DueOnThread(s, c)'
        BY <2>1, <3>2, <3>3, <3>4 DEF DueOnThread, DueBy, ReadyInTime
      <3> QED
        BY <1>1, <2>1, <3>1, <3>5, DueRun
    <2>3. CASE ~CanRun(state[c], now)
      BY <1>1, <1>5, <2>1, <2>3, ResumeMoves, DueEnded
    <2> QED
      BY <2>2, <2>3
  <1>6. ASSUME NEW s \in Loops, NEW c \in Cos, YieldRunning(s, c) PROVE Dues'
    <2>1. /\ In(c, "run", s) /\ OthersStill(c) /\ UNCHANGED <<now, at, due>> /\ co[s] = c
          /\ DueOnThread(s, c) /\ state[c].kind = "Running" /\ pc[s] = "yield"
      BY <1>6, YieldRunningMoves, SMTT(30) DEF YieldRunning, body, history, In, Dues, DueOK
    <2>2. CASE cancels[s] > 0
      BY <1>1, <1>6, <2>1, <2>2, YieldRunningMoves, DueEnded
    <2>3. CASE ~(cancels[s] > 0)
      <3>1. DueBy(c, timestamp(s)) /\ at[c] \in {"body", "until", "dead"}
        BY <2>1, <2>3 DEF DueOnThread
      <3>2. state'[c] = Suspended(timestamp(s))
        BY <1>0, <1>6, <2>3 DEF YieldRunning, StateType
      <3>3. state'[c].kind = "Suspend" /\ state'[c].ts = timestamp(s)
        BY <3>2, StateValues
      <3>4. CASE timestamp(s) > now
        <4>1. In(c, "suspend", s)'
          BY <1>6, <2>3, <3>4, YieldRunningMoves
        <4>2. DueBy(c, state[c].ts)'
          BY <2>1, <3>1, <3>3 DEF DueBy
        <4>3. DueOK(c)'
          BY <2>1, <3>1, <3>3, <4>1, <4>2 DEF In, DueOK
        <4> QED
          BY <1>1, <2>1, <4>3
      <3>5. CASE ~(timestamp(s) > now)
        <4>1. In(c, "ready", NoCo)'
          BY <1>6, <2>3, <3>5, YieldRunningMoves
        <4>2. timestamp(s) \in Int
          BY <1>0, TimestampTyped, Bounds
        <4>3. ReadyInTime(c)'
          BY <1>0, <2>1, <3>1, <3>3, <3>5, <4>2, SMTT(30) DEF ReadyInTime, DueBy
        <4> QED
          BY <1>1, <2>1, <4>1, <4>3, DueReady
      <3> QED
        BY <3>4, <3>5
    <2> QED
      BY <2>2, <2>3
  <1>7. ASSUME NEW s \in Loops, NEW c \in Cos, YieldSyscall(s, c) PROVE Dues'
    <2>1. /\ In(c, "syscall", s)' /\ OthersStill(c) /\ UNCHANGED <<now, at, due, state>>
          /\ state[c].kind = "Syscall" /\ pc[s] = "yield" /\ co[s] = c
      BY <1>7, YieldSyscallMoves DEF YieldSyscall, body, history
    <2>2. at[c] # "until"
      BY <2>1 DEF Dues, DueOK, DueOnThread
    <2>3. DueOK(c)'
      BY <2>1, <2>2 DEF In, DueOK
    <2> QED
      BY <1>1, <2>1, <2>3
  <1>8. ASSUME NEW s \in Loops, check_ready(s) PROVE Dues'
    <2>1. UNCHANGED <<now, due>>
      BY <1>8 DEF check_ready, history
    <2>2. ASSUME NEW c \in Cos PROVE DueOK(c)'
      <3>1. CASE Still(c)
        BY <1>0, <2>1, <3>1, DueKept DEF Dues
      <3>2. CASE /\ In(c, "suspend", s) /\ In(c, "ready", NoCo)' /\ at'[c] = at[c]
                 /\ CanBeReady(state[c], now) /\ state'[c] = Ready
        <4>1. /\ state[c].kind = "Suspend" /\ DueBy(c, state[c].ts)
              /\ at[c] \in {"body", "until", "dead"}
          BY <3>2 DEF In, Dues, DueOK
        <4>2. state[c].ts \in Int /\ state[c].ts <= now
          BY <1>0, <3>2, <4>1, StateFields, Bounds DEF CanBeReady
        <4>3. due[c] <= now
          BY <1>0, <4>1, <4>2, SMTT(30) DEF DueBy
        <4>4. ReadyInTime(c)'
          BY <2>1, <3>2, <4>1, <4>3, StateValues DEF ReadyInTime
        <4> QED
          BY <3>2, <4>4, DueReady
      <3>3. CASE /\ In(c, "syscall", s) /\ In(c, "ready", NoCo)' /\ at'[c] = at[c]
                 /\ state'[c] = InCall(state[c].name, "Timeout", 0)
        <4>1. at[c] # "until"
          BY <3>3 DEF In, Dues, DueOK
        <4>2. state'[c].kind = "Syscall" /\ state'[c].call = "Timeout"
          BY <3>3, SMT DEF InCall, State
        <4>3. ReadyInTime(c)'
          BY <3>3, <4>1, <4>2 DEF ReadyInTime
        <4> QED
          BY <3>3, <4>3, DueReady
      <3> QED
        BY <1>8, <3>1, <3>2, <3>3, CheckMoves
    <2> QED
      BY <2>2 DEF Dues
  <1>9. ASSUME NEW e \in Loops, NEW d \in Cos, Woken(e, d) PROVE DueOK(d)'
    <2>1. /\ d \in syscall[e] /\ at'[d] = at[d] /\ In(d, "ready", NoCo)'
          /\ state'[d] = InCall(state[d].name, "Callback", 0)
      BY <1>9 DEF Woken, In
    <2>2. at[d] # "until"
      BY <2>1 DEF Dues, DueOK
    <2>3. state'[d].kind = "Syscall" /\ state'[d].call = "Callback"
      BY <2>1, SMT DEF InCall, State
    <2>4. ReadyInTime(d)'
      BY <2>1, <2>2, <2>3 DEF ReadyInTime
    <2> QED
      BY <2>1, <2>4, DueReady
  <1>10. ASSUME NEW s \in Loops, Select(s) PROVE Dues'
    <2>1. now' = now
      BY <1>10 DEF Select
    <2> QED
      BY <1>0, <1>9, <1>10, <2>1, SelectMoves, DueKept DEF Dues
  <1>11. ASSUME NEW s \in Loops, NEW c \in Cos, WaitBack(s, c) PROVE Dues'
    <2>1. /\ In(c, "run", s) /\ In(c, "run", s)' /\ home[c] \in Loops /\ now' = now
          /\ state'[c] = Back(state[c], {"Callback", "Timeout"})
          /\ at[c] = "nio_back" /\ at'[c] = "again" /\ pc[s] = "run" /\ pc' = pc
          /\ \A d \in Cos \ {c} : Woken(home[c], d) \/ Still(d)
      BY <1>11, WaitBackMoves DEF thread
    <2>2. state[c].kind = "Syscall"
      BY <2>1 DEF In, Dues, DueOK, DueOnThread
    <2>3. state'[c].kind = "Syscall"
      BY <2>1, <2>2, StateValues, SMTT(30) DEF Back
    <2>4. DueOnThread(s, c)'
      BY <2>1, <2>3 DEF DueOnThread
    <2> QED
      BY <1>0, <1>9, <2>1, <2>4, DueRun, DueKept DEF Dues
  <1>12. ASSUME NEW s \in Loops, NEW c \in Cos, OthersStill(c), now' = now, In(c, "run", s)',
                DueOnThread(s, c)'
         PROVE  Dues'
    BY <1>1, <1>12, DueRun
  <1>13. ASSUME NEW s \in Loops, NEW c \in Cos, co[s] = c PROVE DueOnThread(s, c)
    BY <1>13 DEF Dues, DueOK
  <1>14. ASSUME NEW s \in Loops, NEW c \in Cos, Suspend(s, c) PROVE Dues'
    <2>1. /\ co[s] = c /\ at'[c] = "body" /\ state' = state /\ due'[c] = 0 /\ now' = now
          /\ pc'[s] = "yield"
      BY <1>0, <1>14 DEF Suspend, At, Goto, BodyType, ThreadType
    <2>2. DueOnThread(s, c)'
      BY <1>0, <1>13, <2>1, SMTT(30) DEF DueOnThread, DueBy, StateType
    <2> QED
      BY <1>12, <1>14, <2>2, BodyStill
  <1>15. ASSUME NEW s \in Loops, NEW c \in Cos, NEW ts \in now .. MaxTime, Until(s, c, ts)
         PROVE  Dues'
    <2>1. /\ co[s] = c /\ at[c] = "body" /\ at'[c] = "until" /\ state' = state
          /\ due'[c] = ts /\ now' = now /\ pc'[s] = "run"
      BY <1>0, <1>15 DEF Until, At, GoOn, BodyType, ThreadType
    <2>2. timestamp(s)' = ts
      <3>1. stamps'[s] = <<ts>> \o stamps[s] /\ stamps[s] \in Seq(Times) /\ ts \in Times
        BY <1>0, <1>15, WaitTimes DEF Until, push_front, ThreadType
      <3>2. stamps'[s] # <<>> /\ Head(stamps'[s]) = ts
        BY <3>1, SMTT(30)
      <3> QED
        BY <3>2 DEF timestamp
    <2>3. DueOnThread(s, c)'
      BY <1>13, <2>1, <2>2, SMTT(30) DEF DueOnThread, DueBy
    <2> QED
      BY <1>12, <1>15, <2>3, BodyStill
  <1>16. ASSUME NEW s \in Loops, NEW c \in Cos, suspend_with(s, c) PROVE Dues'
    <2>1. /\ co[s] = c /\ state' = state /\ due' = due /\ now' = now /\ stamps' = stamps
          /\ pc[s] = "run" /\ pc'[s] = "yield"
      BY <1>0, <1>16 DEF suspend_with, At, Goto, ThreadType, history
    <2>2. \/ at[c] = "until" /\ at'[c] = "body"
          \/ at[c] \in {"nio", "uring", "limit"} /\ at'[c] # "until"
      BY <1>0, <1>16, YieldPlaces
    <2>3. DueOnThread(s, c)'
      BY <1>13, <2>1, <2>2 DEF DueOnThread, DueBy, timestamp
    <2> QED
      BY <1>12, <1>16, <2>3, BodyStill
  <1>17. ASSUME NEW s \in Loops, NEW c \in Cos, OthersStill(c), now' = now, In(c, "run", s)',
                pc'[s] = "run", at'[c] # "until", state'[c].kind \in {"Running", "Syscall"},
                at'[c] \in {"body", "dead"} \/ state'[c].kind = "Syscall"
         PROVE  Dues'
    <2>1. DueOnThread(s, c)'
      BY <1>17 DEF DueOnThread
    <2> QED
      BY <1>12, <1>17, <2>1
  <1>18. ASSUME NEW s \in Loops, NEW c \in Cos, NEW n, Enter(s, c, n) PROVE Dues'
    <2>1. /\ co[s] = c /\ at'[c] = "call" /\ pc'[s] = "run" /\ at[c] = "body"
          /\ state'[c] = TryCall(state[c], n, "Executing", 0)
      BY <1>0, <1>18 DEF Enter, At, GoOn, BodyType, StateType, thread
    <2>2. state'[c].kind = "Syscall"
      BY <1>13, <2>1, StateValues, SMTT(30) DEF TryCall, CanCall, DueOnThread
    <2> QED
      BY <1>17, <1>18, <2>1, <2>2, BodyStill
  <1>19. ASSUME NEW s \in Loops, NEW c \in Cos, Exit(s, c) PROVE Dues'
    <2>1. /\ co[s] = c /\ at'[c] = "body" /\ pc'[s] = "run"
          /\ state'[c] = TryRun(state[c], now)
      BY <1>0, <1>19 DEF Exit, At, GoOn, BodyType, StateType, thread
    <2>2. state'[c].kind \in {"Running", "Syscall"}
      BY <1>13, <2>1, StateValues DEF TryRun, Run, DueOnThread
    <2> QED
      BY <1>17, <1>19, <2>1, <2>2, BodyStill
  <1>20. ASSUME NEW s \in Loops, NEW c \in Cos, NEW ts, NEW r, NEW l \in {"uring", "limit"},
                \/ wait_just(s, c, ts, r) \/ uring_submit(s, c, l) \/ uring_wait(s, c, l, ts)
                \/ UringBack(s, c) \/ LimitBack(s, c) \/ UringResult(s, c)
         PROVE  Dues'
    <2>0. Submitted[l] \in {"uring_wait", "limit_wait"}
      BY SMTT(30) DEF Submitted
    <2>1. /\ co[s] = c /\ at[c] \notin {"body", "until", "dead"} /\ pc'[s] = "run"
      BY <1>20, <2>0 DEF wait_just, uring_submit, uring_wait, UringBack, LimitBack,
             UringResult, At, thread
    <2>2. at'[c] # "until"
      BY <1>0, <1>20, <2>0 DEF wait_just, uring_submit, uring_wait, UringBack, LimitBack,
             UringResult, GoOn, BodyType
    <2>3. state'[c] = state[c] \/ \E t : state'[c] = Waiting(state[c], t)
                              \/ state'[c] = Back(state[c], {"Callback"})
      BY <1>0, <1>20 DEF wait_just, uring_submit, uring_wait, UringBack, LimitBack,
             UringResult, StateType
    <2>4. state'[c].kind = "Syscall"
      BY <1>13, <2>1, <2>3, StateValues, SMTT(30) DEF DueOnThread, Waiting, Back
    <2> QED
      BY <1>17, <1>20, <2>1, <2>2, <2>4, BodyStill
  <1>21. ASSUME NEW s \in Loops, NEW c \in Cos, Preempt(s, c) \/ Unreachable(s, c)
         PROVE  Dues'
    <2>1. co[s] = c /\ UNCHANGED <<now, state, at, due, pc, cancels, stamps>>
      BY <1>21 DEF Preempt, Unreachable, At, thread, body, history
    <2>2. DueOnThread(s, c)'
      BY <1>13, <2>1 DEF DueOnThread, DueBy, timestamp
    <2> QED
      BY <1>12, <1>21, <2>1, <2>2, BodyStill
  <1>22. ASSUME NEW s \in Loops, sigurg_handler(s) \/ sigvtalrm_handler(s) PROVE Dues'
    <2>1. /\ \A d \in Cos : Stays(d)
          /\ \A d \in Cos : co[s] # d => Still(d)
          /\ UNCHANGED <<now, state>>
      BY <1>22, SignalStill
    <2>2. ASSUME NEW c \in Cos, co[s] = c PROVE DueOK(c)'
      <3>1. In(c, "run", s) /\ DueOnThread(s, c)
        BY <1>13, <2>2, OnceTypes, InRun
      <3>2. In(c, "run", s)'
        BY <2>1, <3>1 DEF In, Stays
      <3>3. CASE sigurg_handler(s)
        <4>1. /\ UNCHANGED <<at, stamps, cancels>>
              /\ IF pc[s] = "run" /\ state[c].kind = "Running"
                   THEN pc'[s] = "yield" /\ due'[c] = IF at[c] = "until" THEN due[c] ELSE 0
                   ELSE pc' = pc /\ due' = due
          BY <1>0, <2>2, <3>3 DEF sigurg_handler, Preemptible, Goto, ThreadType, BodyType, body
        <4>2. DueOnThread(s, c)'
          BY <1>0, <2>1, <3>1, <4>1, SMTT(30) DEF DueOnThread, DueBy, timestamp, StateType
        <4> QED
          BY <3>2, <4>2, DueRun
      <3>4. CASE sigvtalrm_handler(s)
        <4>1. /\ UNCHANGED <<due, stamps>>
              /\ IF pc[s] = "run"
                   THEN pc'[s] = "yield" /\ at'[c] = "dead" /\ cancels'[s] = cancels[s] + 1
                   ELSE pc' = pc /\ at' = at /\ cancels' = cancels
          BY <1>0, <2>2, <3>4
             DEF sigvtalrm_handler, Goto, GoOn, ThreadType, BodyType, history
        <4>2. DueOnThread(s, c)'
          BY <1>0, <2>1, <3>1, <4>1, SMTT(30) DEF DueOnThread, DueBy, timestamp, ThreadType
        <4> QED
          BY <3>2, <4>2, DueRun
      <3> QED
        BY <1>22, <3>3, <3>4
    <2> QED
      BY <1>0, <2>1, <2>2, DueKept DEF Dues
  <1>23. ASSUME \A d \in Cos : Still(d), now' \in Int, now <= now' PROVE Dues'
    BY <1>23, DueStill DEF Dues
  <1>24. ASSUME NEW c, Tick \/ TryCancel(c) PROVE Dues'
    <2>1. now' \in Int /\ now <= now'
      BY <1>0, <1>24, SMTT(30) DEF Tick, TryCancel
    <2> QED
      BY <1>23, <1>24, <2>1, CancelStill
  <1>25. ASSUME NEW s \in Loops, NEW c, NEW o, PopNone(s) \/ Fire(s, c) \/ Completion(s, o)
         PROVE  Dues'
    BY <1>0, <1>23, <1>25, AllStill, SMTT(30)
  <1>26. ASSUME NEW s \in Loops, NEW c \in Cos, Body(s, c) PROVE Dues'
    BY <1>4, <1>11, <1>14, <1>15, <1>16, <1>18, <1>19, <1>20, <1>21, <1>26 DEF Body
  <1>27. ASSUME NEW s \in Loops, Step(s) PROVE Dues'
    BY <1>3, <1>5, <1>6, <1>7, <1>8, <1>10, <1>22, <1>25, <1>26, <1>27 DEF Step
  <1> QED
    BY <1>2, <1>21, <1>24, <1>25, <1>27 DEF Next

\* The inductive invariant for NotBeforeDue.
DueInv == OnceInv /\ Dues

\* It is inductive.
LEMMA DueNext == DueInv /\ [Next]_vars => DueInv'
  <1>1. ASSUME DueInv, UNCHANGED vars PROVE Dues'
    <2>1. \A c \in Cos : Still(c)
      BY <1>1 DEF vars, queues, thread, body, history, Still, Stays
    <2>2. now' = now /\ now \in Int
      BY <1>1, OnceTypes, SMTT(30) DEF vars, DueInv, StateType
    <2> QED
      BY <1>1, <2>1, <2>2, DueKept DEF DueInv, Dues
  <1> QED
    BY <1>1, OnceNext, DuesStep DEF DueInv

\* It holds initially.
LEMMA DueInit == Init => DueInv
  <1> SUFFICES ASSUME Init PROVE DueInv
    OBVIOUS
  <1>1. ASSUME NEW c \in Cos PROVE DueOK(c)
    BY SchedulerAssumption DEF Init, DueOK
  <1> QED
    BY <1>1, OnceInit DEF DueInv, Dues

\* A coroutine that asked to be suspended until a time is not made ready
\* before that time: for any number of threads and coroutines, all kinds of
\* waits, and all signals.
THEOREM NeverBeforeDue == Spec => []NotBeforeDue
  <1>1. DueInv => NotBeforeDue
    BY OnceTypes DEF DueInv, Dues, DueOK, ReadyInTime, NotBeforeDue, QueueType
  <1> QED
    BY <1>1, DueInit, DueNext, PTL DEF Spec

-----------------------------------------------------------------------------
(* States and places: builds with one way to wait in a call, be it the     *)
(* selector or io_uring without time limits.                               *)

\* Coroutines wait with the selector only, or with io_uring without time
\* limits only.
OneWait == Waits \subseteq {"nio"} \/ Waits \subseteq {"uring"}

\* The states in which a coroutine comes back from a wait.
Ends(c) == IF at[c] = "uring_back" THEN {"Callback"} ELSE {"Callback", "Timeout"}

\* Which places in a call there are, and that io_uring waits have no time.
StageBase(c) ==
    /\ at[c] \in {"nio", "nio_back", "again"} => "nio" \in Waits
    /\ at[c] \in {"uring_wait", "uring", "uring_back", "result", "exit"} => "uring" \in Waits
    /\ at[c] \notin {"limit_wait", "limit", "limit_back"}
    /\ "uring" \in Waits /\ IsCall(state[c], "Suspend") => state[c].ts = Never

\* On a thread, the state of a coroutine is the one of its place in a call.
RunStage(s, c) ==
    /\ at[c] \in {"body", "until"} => state[c].kind = "Running"
    /\ at[c] \in {"call", "again", "uring_wait", "result", "exit"} =>
          pc[s] = "run" /\ IsCall(state[c], "Executing")
    /\ at[c] \in {"nio", "uring"} => pc[s] = "run" /\ IsCall(state[c], "Suspend")
    /\ at[c] \in {"nio_back", "uring_back"} =>
          /\ state[c].kind = "Syscall"
          /\ IF pc[s] = "yield" THEN state[c].call = "Suspend" ELSE state[c].call \in Ends(c)
    /\ at[c] = "dead" =>
          IF pc[s] = "yield" THEN cancels[s] > 0 ELSE state[c].kind = "Syscall"

\* In the ready queue, it can be resumed.
ReadyStage(c) ==
    \/ state[c].kind = "Ready" /\ at[c] \in {"body", "until"}
    \/ state[c].kind = "Suspend" /\ state[c].ts <= now /\ at[c] \in {"body", "until"}
    \/ /\ state[c].kind = "Syscall" /\ state[c].call \in Ends(c)
       /\ at[c] \in {"nio_back", "uring_back", "dead"}

\* In the syscall table, it has come to the suspend() of its wait.
SyscallStage(c) ==
    /\ at[c] \in {"nio_back", "uring_back", "dead"}
    /\ at[c] = "dead" \/ state[c].call = "Suspend"

\* The state of a coroutine agrees with how far it has come.
StageOK(c) ==
    /\ StageBase(c)
    /\ c \in ready => ReadyStage(c)
    /\ \A s \in Loops : /\ c \in suspend[s] => at[c] \in {"body", "until"}
                        /\ c \in syscall[s] => SyscallStage(c)
                        /\ co[s] = c => RunStage(s, c)

\* That is so for every coroutine; io_uring sets no timer that fires; and only
\* whom somebody wanted to cancel is dropped.
Stages ==
    /\ \A c \in Cos : StageOK(c)
    /\ "uring" \in Waits => \A s \in Loops : \A t \in timers[s] : t[1] = Never
    /\ cancel \subseteq asked /\ dropped \subseteq asked

\* A coroutine that is still keeps it while time passes.
LEMMA StageStill ==
    ASSUME OnceInv, NEW c \in Cos, StageOK(c), Still(c), now' \in Int, now <= now'
    PROVE  StageOK(c)'
  <1>0. now \in Int /\ state[c].ts \in Int
    BY OnceTypes, StateFields, Bounds DEF StateType
  <1>1. StageBase(c)'
    BY DEF Still, StageOK, StageBase
  <1>2. c \in ready' => ReadyStage(c)'
    BY <1>0, SMTT(30) DEF Still, Stays, StageOK, ReadyStage, Ends
  <1>3. \A s \in Loops : c \in suspend'[s] => at'[c] \in {"body", "until"}
    BY DEF Still, Stays, StageOK
  <1>4. \A s \in Loops : c \in syscall'[s] => SyscallStage(c)'
    BY DEF Still, Stays, StageOK, SyscallStage
  <1>5. \A s \in Loops : co[s] = c /\ RunStage(s, c) => RunStage(s, c)'
    BY DEF Still, RunStage, Ends
  <1>6. \A s \in Loops : co'[s] = c => RunStage(s, c)'
    BY <1>5 DEF Still, Stays, StageOK
  <1> QED
    BY <1>1, <1>2, <1>3, <1>4, <1>6 DEF StageOK

\* So it does when the clock stands.
LEMMA StageKept ==
    ASSUME OnceInv, NEW c \in Cos, StageOK(c), Still(c), now' = now
    PROVE  StageOK(c)'
  <1>1. now' \in Int /\ now <= now'
    <2>1. now \in Int
      BY OnceTypes, Bounds DEF StateType
    <2> QED
      BY <2>1, SMT
  <1> QED
    BY <1>1, StageStill

\* One that comes to the ready queue...
LEMMA StageReady ==
    ASSUME NEW c \in Cos, In(c, "ready", NoCo)', StageBase(c)', ReadyStage(c)' PROVE StageOK(c)'
  BY DEF In, StageOK

\* ... or to a thread has to satisfy what is so there...
LEMMA StageRun ==
    ASSUME NEW s \in Loops, NEW c \in Cos, In(c, "run", s)', StageBase(c)', RunStage(s, c)'
    PROVE  StageOK(c)'
  BY DEF In, StageOK

\* ... but for one that has ended.
LEMMA StageEnded ==
    ASSUME NEW c \in Cos, In(c, "finished", NoCo)' \/ In(c, "dropped", NoCo)', StageBase(c)'
    PROVE  StageOK(c)'
  BY DEF In, StageOK

\* With io_uring no timer ever fires.
LEMMA NoTimeout ==
    ASSUME StateType, NEW s \in Loops, NEW t \in timers[s], t[1] <= now,
           "uring" \in Waits => \A u \in timers[s] : u[1] = Never
    PROVE  "uring" \notin Waits
  BY Bounds, SMTT(30) DEF StateType

\* Every step keeps states and places in agreement: the facade and the waits
\* change both, the scheduler only the state, and it does so in the places where
\* the coroutine looks at it again.
LEMMA StagesStep ==
    ASSUME OneWait, DueInv, Stages, Next
    PROVE  Stages'
  <1>0. /\ StateType /\ ThreadType /\ BodyType /\ QueueType /\ NoCo \notin Cos /\ OnceInv
        /\ now \in Int
        /\ \A c \in Cos : state[c] \in States
    BY OnceTypes, Bounds DEF DueInv, StateType
  <1>1. ASSUME NEW c \in Cos, OthersStill(c), now' = now, StageOK(c)'
        PROVE  \A d \in Cos : StageOK(d)'
    BY <1>0, <1>1, StageKept DEF OthersStill, Stages
  <1>2. ASSUME UNCHANGED <<timers, cancel, dropped, asked>>, \A d \in Cos : StageOK(d)'
        PROVE  Stages'
    BY <1>2 DEF Stages
  <1>3. ASSUME NEW s \in Loops, NEW c \in Cos, co[s] = c
        PROVE  /\ RunStage(s, c) /\ DueOnThread(s, c) /\ StageBase(c)
    BY <1>3 DEF Stages, StageOK, DueInv, Dues, DueOK
  <1>4. ASSUME NEW c \in Cos, Submit(c) PROVE Stages'
    <2>1. In(c, "fresh", NoCo) /\ In(c, "ready", NoCo)' /\ OthersStill(c)
          /\ UNCHANGED <<now, state, at, timers, cancel, dropped, asked>>
      BY <1>0, <1>4, SubmitMoves DEF Submit, body, history
    <2>2. state[c] = Ready /\ at[c] = "body"
      BY <2>1 DEF In, DueInv, Dues, DueOK
    <2>3. ReadyStage(c)' /\ StageBase(c)'
      BY <2>1, <2>2, StateValues DEF ReadyStage, StageBase, IsCall
    <2> QED
      BY <1>1, <1>2, <2>1, <2>3, StageReady
  <1>5. ASSUME NEW s \in Loops, NEW c \in Cos, DropCancelled(s, c) PROVE Stages'
    <2>1. /\ In(c, "dropped", NoCo)' /\ OthersStill(c)
          /\ UNCHANGED <<now, state, at, timers, asked>>
          /\ cancel' = cancel \ {c} /\ dropped' = dropped \cup {c} /\ c \in cancel
      BY <1>0, <1>5, DropMoves DEF DropCancelled, body, history
    <2>2. StageBase(c)'
      BY <2>1 DEF Stages, StageOK, StageBase
    <2>3. \A d \in Cos : StageOK(d)'
      BY <1>1, <2>1, <2>2, StageEnded
    <2> QED
      BY <2>1, <2>3 DEF Stages
  <1>6. ASSUME NEW s \in Loops, NEW c \in Cos, NEW end \in {Complete, Failed}, Finish(s, c, end)
        PROVE  Stages'
    <2>1. /\ co[s] = c /\ at[c] = "body" /\ OthersStill(c)
          /\ UNCHANGED <<now, at, timers, cancel, asked>>
      BY <1>0, <1>6, FinishMoves DEF Finish, At, body, history
    <2>2. state[c].kind = "Running"
      BY <1>3, <2>1 DEF RunStage
    <2>3. dropped' = dropped /\ In(c, "finished", NoCo)' /\ state'[c] = end
      BY <1>0, <1>6, <2>2, FinishMoves DEF Finish, StateType
    <2>4. StageBase(c)'
      BY <1>3, <2>1, <2>3, SMTT(30) DEF StageBase, IsCall, Complete, Failed, State
    <2> QED
      BY <1>1, <1>2, <2>1, <2>3, <2>4, StageEnded
  <1>7. ASSUME NEW s \in Loops, NEW c \in Cos, Resume(s, c) PROVE Stages'
    <2>1. /\ In(c, "ready", NoCo) /\ OthersStill(c)
          /\ UNCHANGED <<now, at, timers, cancel, asked>>
          /\ ReadyStage(c) /\ StageBase(c)
      BY <1>0, <1>7, ResumeMoves DEF Resume, body, history, Stages, StageOK
    <2>2. CanRun(state[c], now)
      BY <2>1 DEF ReadyStage, CanRun, Ends
    <2>3. In(c, "run", s)' /\ dropped' = dropped /\ pc'[s] = "run" /\ state'[c] = Run(state[c])
      BY <1>0, <1>7, <2>2, ResumeMoves DEF Resume, Goto, TryRun, ThreadType, StateType
    <2>4. RunStage(s, c)'
      BY <2>1, <2>3, StateValues DEF ReadyStage, RunStage, Run, Ends
    <2>5. StageBase(c)'
      BY <2>1, <2>3, StateValues DEF ReadyStage, StageBase, Run, IsCall
    <2> QED
      BY <1>1, <1>2, <2>1, <2>3, <2>4, <2>5, StageRun
  <1>8. ASSUME NEW s \in Loops, NEW c \in Cos, YieldRunning(s, c) PROVE Stages'
    <2>1. /\ co[s] = c /\ OthersStill(c) /\ UNCHANGED <<now, at, timers, cancel, dropped, asked>>
          /\ state[c].kind = "Running" /\ pc[s] = "yield"
          /\ RunStage(s, c) /\ DueOnThread(s, c) /\ StageBase(c)
      BY <1>0, <1>3, <1>8, YieldRunningMoves DEF YieldRunning, body, history
    <2>2. CASE cancels[s] > 0
      <3>1. In(c, "finished", NoCo)' /\ state'[c] = Cancelled
        BY <1>0, <1>8, <2>2, YieldRunningMoves DEF YieldRunning, StateType
      <3>2. StageBase(c)'
        BY <2>1, <3>1, SMTT(30) DEF StageBase, IsCall, Cancelled, State
      <3> QED
        BY <1>1, <1>2, <2>1, <3>1, <3>2, StageEnded
    <2>3. CASE ~(cancels[s] > 0)
      <3>1. at[c] \in {"body", "until"}
        BY <2>1, <2>3 DEF RunStage, DueOnThread
      <3>2. state'[c] = Suspended(timestamp(s))
        BY <1>0, <1>8, <2>3 DEF YieldRunning, StateType
      <3>3. state'[c].kind = "Suspend" /\ state'[c].ts = timestamp(s) /\ timestamp(s) \in Int
        BY <1>0, <3>2, StateValues, TimestampTyped, Bounds
      <3>4. StageBase(c)'
        BY <2>1, <3>3 DEF StageBase, IsCall
      <3>5. CASE timestamp(s) > now
        <4>1. In(c, "suspend", s)'
          BY <1>0, <1>8, <2>3, <3>5, YieldRunningMoves
        <4>2. StageOK(c)'
          BY <2>1, <3>1, <3>4, <4>1 DEF In, StageOK
        <4> QED
          BY <1>1, <1>2, <2>1, <4>2
      <3>6. CASE ~(timestamp(s) > now)
        <4>1. In(c, "ready", NoCo)'
          BY <1>0, <1>8, <2>3, <3>6, YieldRunningMoves
        <4>2. ReadyStage(c)'
          BY <1>0, <2>1, <3>1, <3>3, <3>6, SMTT(30) DEF ReadyStage
        <4> QED
          BY <1>1, <1>2, <2>1, <3>4, <4>1, <4>2, StageReady
      <3> QED
        BY <3>5, <3>6
    <2> QED
      BY <2>2, <2>3
  <1>9. ASSUME NEW s \in Loops, NEW c \in Cos, YieldSyscall(s, c) PROVE Stages'
    <2>1. /\ In(c, "syscall", s)' /\ OthersStill(c)
          /\ UNCHANGED <<now, at, state, cancel, dropped, asked>>
          /\ co[s] = c /\ state[c].kind = "Syscall" /\ pc[s] = "yield"
          /\ RunStage(s, c) /\ StageBase(c)
          /\ timers' = [timers EXCEPT ![s] = @ \cup TimerFor(c)]
      BY <1>0, <1>3, <1>9, YieldSyscallMoves DEF YieldSyscall, body, history
    <2>2. SyscallStage(c)
      BY <1>0, <2>1 DEF RunStage, StageBase, SyscallStage, BodyType, Places
    <2>3. StageOK(c)'
      BY <2>1, <2>2 DEF In, StageOK, StageBase, SyscallStage
    <2>4. "uring" \in Waits => \A l \in Loops : \A t \in timers'[l] : t[1] = Never
      BY <1>0, <2>1, SMTT(30) DEF Stages, StageBase, TimerFor, IsCall, QueueType
    <2>5. \A d \in Cos : StageOK(d)'
      BY <1>1, <2>1, <2>3
    <2> QED
      BY <2>1, <2>4, <2>5 DEF Stages
  <1>10. ASSUME NEW s \in Loops, check_ready(s) PROVE Stages'
    <2>1. /\ UNCHANGED <<now, cancel, dropped, asked>>
          /\ timers' = [timers EXCEPT ![s] = @ \ {t \in timers[s] : t[1] <= now}]
      BY <1>10 DEF check_ready, history
    <2>2. ASSUME NEW c \in Cos PROVE StageOK(c)'
      <3>1. CASE Still(c)
        BY <1>0, <2>1, <3>1, StageKept DEF Stages
      <3>2. CASE /\ In(c, "suspend", s) /\ In(c, "ready", NoCo)' /\ at'[c] = at[c]
                 /\ state'[c] = Ready
        <4>1. at[c] \in {"body", "until"} /\ StageBase(c)
          BY <3>2 DEF In, Stages, StageOK
        <4>2. ReadyStage(c)' /\ StageBase(c)'
          BY <3>2, <4>1, StateValues DEF ReadyStage, StageBase, IsCall
        <4> QED
          BY <3>2, <4>2, StageReady
      <3>3. CASE /\ In(c, "syscall", s) /\ In(c, "ready", NoCo)' /\ at'[c] = at[c]
                 /\ \E t \in timers[s] : t[1] <= now /\ t[2] = c
                 /\ state'[c] = InCall(state[c].name, "Timeout", 0)
        <4>1. "uring" \notin Waits
          BY <1>0, <3>3, NoTimeout DEF Stages
        <4>2. SyscallStage(c) /\ StageBase(c)
          BY <3>3 DEF In, Stages, StageOK
        <4>3. ReadyStage(c)' /\ StageBase(c)'
          BY <3>3, <4>1, <4>2, StateValues, SMTT(30) DEF ReadyStage, SyscallStage, StageBase,
             IsCall, Ends
        <4> QED
          BY <3>3, <4>3, StageReady
      <3> QED
        BY <1>0, <1>10, <3>1, <3>2, <3>3, CheckMoves
    <2>3. "uring" \in Waits => \A l \in Loops : \A t \in timers'[l] : t[1] = Never
      BY <1>0, <2>1 DEF Stages, QueueType
    <2> QED
      BY <2>1, <2>2, <2>3 DEF Stages
  <1>11. ASSUME NEW e \in Loops, NEW d \in Cos, Woken(e, d) PROVE StageOK(d)'
    <2>1. SyscallStage(d) /\ StageBase(d)
      BY <1>11 DEF Woken, In, Stages, StageOK
    <2>2. /\ In(d, "ready", NoCo)' /\ at'[d] = at[d]
          /\ state'[d] = InCall(state[d].name, "Callback", 0)
      BY <1>11 DEF Woken
    <2>3. state'[d].kind = "Syscall" /\ state'[d].call = "Callback"
      BY <2>2, SMT DEF InCall, State
    <2>4. state'[d].call \in Ends(d)'
      BY <2>3 DEF Ends
    <2>5. ReadyStage(d)'
      BY <2>1, <2>2, <2>3, <2>4 DEF ReadyStage, SyscallStage
    <2>6. StageBase(d)'
      BY <2>1, <2>2, <2>3 DEF StageBase, IsCall
    <2> QED
      BY <2>2, <2>5, <2>6, StageReady
  <1>12. ASSUME NEW s \in Loops, Select(s) PROVE Stages'
    <2>1. UNCHANGED <<now, timers, cancel, dropped, asked>>
      BY <1>12 DEF Select, resume, history
    <2>2. \A d \in Cos : StageOK(d)'
      BY <1>0, <1>11, <1>12, <2>1, SelectMoves, StageKept DEF Stages
    <2> QED
      BY <1>2, <2>1, <2>2
  <1>13. ASSUME NEW s \in Loops, NEW c \in Cos, WaitBack(s, c) PROVE Stages'
    <2>1. /\ In(c, "run", s) /\ In(c, "run", s)' /\ home[c] \in Loops
          /\ state'[c] = Back(state[c], {"Callback", "Timeout"})
          /\ at[c] = "nio_back" /\ at'[c] = "again" /\ pc[s] = "run" /\ pc' = pc
          /\ \A d \in Cos \ {c} : Woken(home[c], d) \/ Still(d)
          /\ UNCHANGED <<now, cancel, asked>>
      BY <1>0, <1>13, WaitBackMoves DEF thread, history
    <2>2. UNCHANGED <<timers, dropped>>
      BY <1>13 DEF WaitBack, resume
    <2>3. RunStage(s, c) /\ StageBase(c)
      BY <1>3, <2>1 DEF In
    <2>4. IsCall(state'[c], "Executing")
      BY <2>1, <2>3, StateValues, SMTT(30) DEF RunStage, Ends, Back, IsCall
    <2>5. RunStage(s, c)' /\ StageBase(c)'
      BY <2>1, <2>3, <2>4 DEF RunStage, StageBase, IsCall
    <2>6. \A d \in Cos : StageOK(d)'
      BY <1>0, <1>11, <2>1, <2>5, StageRun, StageKept DEF Stages
    <2> QED
      BY <1>2, <2>1, <2>2, <2>6
  <1>14. ASSUME NEW s \in Loops, NEW c \in Cos, OthersStill(c), In(c, "run", s)',
                UNCHANGED <<now, queues, cancel, asked>>, StageBase(c)', RunStage(s, c)'
         PROVE  Stages'
    BY <1>1, <1>2, <1>14, StageRun DEF queues
  <1>15. ASSUME NEW s \in Loops, NEW c \in Cos, NEW ts, Suspend(s, c) \/ Until(s, c, ts)
         PROVE  Stages'
    <2>1. /\ co[s] = c /\ at[c] = "body" /\ at'[c] \in {"body", "until"} /\ state' = state
          /\ asked' = asked
      BY <1>0, <1>15 DEF Suspend, Until, At, GoOn, BodyType
    <2>2. RunStage(s, c)' /\ StageBase(c)'
      BY <1>3, <2>1 DEF RunStage, StageBase
    <2> QED
      BY <1>0, <1>14, <1>15, <2>1, <2>2, BodyStill
  <1>16. ASSUME NEW s \in Loops, NEW c \in Cos, suspend_with(s, c) PROVE Stages'
    <2>1. /\ co[s] = c /\ state' = state /\ asked' = asked /\ pc'[s] = "yield"
      BY <1>0, <1>16 DEF suspend_with, At, Goto, ThreadType, history
    <2>2. \/ at[c] = "until" /\ at'[c] = "body"
          \/ at[c] = "nio" /\ at'[c] = "nio_back"
          \/ at[c] = "uring" /\ at'[c] = "uring_back"
          \/ at[c] = "limit"
      BY <1>0, <1>16, YieldPlaces
    <2>3. RunStage(s, c)' /\ StageBase(c)'
      BY <1>3, <2>1, <2>2 DEF RunStage, StageBase, IsCall
    <2> QED
      BY <1>0, <1>14, <1>16, <2>1, <2>3, BodyStill
  <1>17. ASSUME NEW s \in Loops, NEW c \in Cos, NEW n, Enter(s, c, n) PROVE Stages'
    <2>1. /\ co[s] = c /\ at'[c] = "call" /\ pc'[s] = "run" /\ at[c] = "body"
          /\ state'[c] = TryCall(state[c], n, "Executing", 0) /\ asked' = asked
      BY <1>0, <1>17 DEF Enter, At, GoOn, BodyType, StateType, thread, history
    <2>2. IsCall(state'[c], "Executing")
      BY <1>3, <2>1, StateValues, SMTT(30) DEF TryCall, CanCall, RunStage, IsCall
    <2>3. RunStage(s, c)' /\ StageBase(c)'
      BY <2>1, <2>2 DEF RunStage, StageBase, IsCall
    <2> QED
      BY <1>0, <1>14, <1>17, <2>1, <2>3, BodyStill
  <1>18. ASSUME NEW s \in Loops, NEW c \in Cos, Exit(s, c) PROVE Stages'
    <2>1. /\ co[s] = c /\ at'[c] = "body" /\ at[c] \in {"call", "again", "exit"}
          /\ state'[c] = TryRun(state[c], now) /\ asked' = asked
      BY <1>0, <1>18 DEF Exit, At, GoOn, BodyType, StateType, history
    <2>2. state'[c].kind = "Running"
      BY <1>3, <2>1, StateValues DEF TryRun, CanRun, Run, RunStage, IsCall
    <2>3. RunStage(s, c)' /\ StageBase(c)'
      BY <2>1, <2>2 DEF RunStage, StageBase, IsCall
    <2> QED
      BY <1>0, <1>14, <1>18, <2>1, <2>3, BodyStill
  <1>19. ASSUME NEW s \in Loops, NEW c \in Cos, NEW ts, NEW r, wait_just(s, c, ts, r)
         PROVE  Stages'
    <2>1. /\ co[s] = c /\ at'[c] = "nio" /\ at[c] \in {"call", "again"} /\ pc'[s] = "run"
          /\ state'[c] = Waiting(state[c], ts) /\ asked' = asked /\ "nio" \in Waits
      BY <1>0, <1>19 DEF wait_just, At, GoOn, BodyType, StateType
    <2>0. IsCall(state[c], "Executing")
      BY <1>3, <2>1 DEF RunStage
    <2>2. IsCall(state'[c], "Suspend")
      BY <2>0, <2>1, StateValues, SMTT(30) DEF Waiting, IsCall
    <2>3. RunStage(s, c)' /\ StageBase(c)'
      BY <2>1, <2>2 DEF RunStage, StageBase, OneWait
    <2> QED
      BY <1>0, <1>14, <1>19, <2>1, <2>3, BodyStill
  <1>20. ASSUME NEW s \in Loops, NEW c \in Cos, NEW l \in {"uring", "limit"}, uring_submit(s, c, l)
         PROVE  Stages'
    <2>1. l = "uring" /\ "uring" \in Waits
      BY <1>20 DEF uring_submit, OneWait
    <2>2. /\ co[s] = c /\ at'[c] = "uring_wait" /\ at[c] = "call" /\ pc'[s] = "run"
          /\ state' = state /\ asked' = asked
      BY <1>0, <1>20, <2>1 DEF uring_submit, At, GoOn, BodyType, Submitted, thread, history
    <2>3. RunStage(s, c)' /\ StageBase(c)'
      BY <1>3, <2>1, <2>2 DEF RunStage, StageBase
    <2> QED
      BY <1>0, <1>14, <1>20, <2>2, <2>3, BodyStill
  <1>21. ASSUME NEW s \in Loops, NEW c \in Cos, NEW l \in {"uring", "limit"}, NEW ts,
                uring_wait(s, c, l, ts), l = "uring" => ts = Never
         PROVE  Stages'
    <2>1. co[s] = c /\ at[c] = Submitted[l]
      BY <1>21 DEF uring_wait, At
    <2>0. Submitted["limit"] = "limit_wait" /\ Submitted["uring"] = "uring_wait"
      BY DEF Submitted
    <2>2. l = "uring" /\ at[c] = "uring_wait"
      BY <1>3, <2>0, <2>1 DEF StageBase
    <2>3. /\ at'[c] = "uring" /\ pc'[s] = "run" /\ state'[c] = Waiting(state[c], Never)
          /\ asked' = asked
      BY <1>0, <1>21, <2>2 DEF uring_wait, At, GoOn, BodyType, StateType, thread
    <2>6. IsCall(state[c], "Executing")
      BY <1>3, <2>1, <2>2 DEF RunStage
    <2>4. IsCall(state'[c], "Suspend") /\ state'[c].ts = Never
      BY <2>3, <2>6, StateValues, SMTT(30) DEF Waiting, IsCall
    <2>5. RunStage(s, c)' /\ StageBase(c)'
      BY <1>3, <2>1, <2>2, <2>3, <2>4 DEF RunStage, StageBase
    <2> QED
      BY <1>0, <1>14, <1>21, <2>3, <2>5, BodyStill
  <1>22. ASSUME NEW s \in Loops, NEW c \in Cos, UringBack(s, c) PROVE Stages'
    <2>1. /\ co[s] = c /\ at[c] = "uring_back" /\ at'[c] = "result" /\ asked' = asked
          /\ pc[s] = "run" /\ pc' = pc /\ state'[c] = Back(state[c], {"Callback"})
      BY <1>0, <1>22 DEF UringBack, At, GoOn, BodyType, StateType, thread, history
    <2>2. IsCall(state'[c], "Executing")
      BY <1>3, <2>1, StateValues, SMTT(30) DEF Back, RunStage, Ends, IsCall
    <2>3. RunStage(s, c)' /\ StageBase(c)'
      BY <1>3, <2>1, <2>2 DEF RunStage, StageBase, IsCall
    <2> QED
      BY <1>0, <1>14, <1>22, <2>1, <2>3, BodyStill
  <1>23. ASSUME NEW s \in Loops, NEW c \in Cos, UringResult(s, c) PROVE Stages'
    <2>1. /\ co[s] = c /\ at[c] = "result" /\ at'[c] = "exit"
          /\ UNCHANGED <<asked, pc, state>>
      BY <1>0, <1>23 DEF UringResult, At, GoOn, BodyType, thread, history
    <2>2. RunStage(s, c)' /\ StageBase(c)'
      BY <1>3, <2>1 DEF RunStage, StageBase
    <2> QED
      BY <1>0, <1>14, <1>23, <2>1, <2>2, BodyStill
  <1>24. ASSUME NEW s, NEW c \in Cos, LimitBack(s, c) PROVE FALSE
    BY <1>24 DEF LimitBack, At, Stages, StageOK, StageBase
  <1>25. ASSUME NEW s, NEW c, Unreachable(s, c) PROVE Stages'
    <2>1. /\ UNCHANGED <<now, state, timers, cancel, dropped, asked>>
          /\ UNCHANGED <<queues, thread, body, history>>
      BY <1>25 DEF Unreachable, queues, history
    <2>2. \A d \in Cos : Still(d)
      BY <2>1 DEF queues, thread, body, history, Still, Stays
    <2>3. \A d \in Cos : StageOK(d)'
      BY <1>0, <2>1, <2>2, StageKept DEF Stages
    <2> QED
      BY <1>2, <2>1, <2>3
  <1>26. ASSUME NEW s \in Loops, NEW c \in Cos, Preempt(s, c) PROVE Stages'
    <2>1. co[s] = c /\ UNCHANGED <<asked, pc, state, at, cancels>>
      BY <1>26 DEF Preempt, history
    <2>2. RunStage(s, c)' /\ StageBase(c)'
      BY <1>3, <2>1 DEF RunStage, StageBase, Ends
    <2> QED
      BY <1>0, <1>14, <1>26, <2>1, <2>2, BodyStill
  <1>27. ASSUME NEW s \in Loops, sigurg_handler(s) \/ sigvtalrm_handler(s) PROVE Stages'
    <2>1. /\ \A d \in Cos : Stays(d)
          /\ \A d \in Cos : co[s] # d => Still(d)
          /\ UNCHANGED <<now, state, queues, cancel>>
      BY <1>0, <1>27, SignalStill
    <2>2. asked' = asked
      BY <1>27 DEF sigurg_handler, sigvtalrm_handler, history
    <2>3. ASSUME NEW c \in Cos, co[s] = c PROVE StageOK(c)'
      <3>1. In(c, "run", s) /\ RunStage(s, c) /\ StageBase(c) /\ DueOnThread(s, c)
        BY <1>3, <2>3, OnceTypes, InRun DEF DueInv
      <3>2. In(c, "run", s)'
        BY <2>1, <3>1 DEF In, Stays
      <3>3. CASE sigurg_handler(s)
        <4>1. /\ UNCHANGED <<at, cancels>>
              /\ IF pc[s] = "run" /\ state[c].kind = "Running"
                   THEN pc'[s] = "yield" ELSE pc' = pc
          BY <1>0, <2>3, <3>3 DEF sigurg_handler, Preemptible, Goto, ThreadType, body
        <4>2. RunStage(s, c)' /\ StageBase(c)'
          BY <2>1, <3>1, <4>1 DEF RunStage, StageBase, Ends, IsCall
        <4> QED
          BY <3>2, <4>2, StageRun
      <3>4. CASE sigvtalrm_handler(s)
        <4>1. IF pc[s] = "run"
                THEN pc'[s] = "yield" /\ at'[c] = "dead" /\ cancels'[s] = cancels[s] + 1
                ELSE pc' = pc /\ at' = at /\ cancels' = cancels
          BY <1>0, <2>3, <3>4 DEF sigvtalrm_handler, Goto, GoOn, ThreadType, BodyType
        <4>2. CASE pc[s] = "run"
          <5>1. cancels'[s] > 0 /\ pc'[s] = "yield" /\ at'[c] = "dead" /\ state' = state
            BY <1>0, <2>1, <4>1, <4>2, SMTT(30) DEF ThreadType
          <5>2. RunStage(s, c)' /\ StageBase(c)'
            BY <3>1, <5>1 DEF RunStage, StageBase, IsCall
          <5> QED
            BY <3>2, <5>2, StageRun
        <4>3. CASE pc[s] # "run"
          <5>1. UNCHANGED <<pc, at, cancels, state>>
            BY <2>1, <4>1, <4>3
          <5>2. RunStage(s, c)' /\ StageBase(c)'
            BY <3>1, <5>1 DEF RunStage, StageBase, IsCall, Ends
          <5> QED
            BY <3>2, <5>2, StageRun
        <4> QED
          BY <4>2, <4>3
      <3> QED
        BY <1>27, <3>3, <3>4
    <2>4. \A d \in Cos : StageOK(d)'
      BY <1>0, <2>1, <2>3, StageKept DEF Stages
    <2> QED
      BY <1>2, <2>1, <2>2, <2>4 DEF queues
  <1>28. ASSUME \A d \in Cos : Still(d), now' \in Int, now <= now',
                UNCHANGED <<timers, dropped>>, cancel' \subseteq asked', asked \subseteq asked'
         PROVE  Stages'
    <2>1. \A d \in Cos : StageOK(d)'
      BY <1>0, <1>28, StageStill DEF Stages
    <2> QED
      BY <1>28, <2>1 DEF Stages
  <1>29. ASSUME NEW c, Tick \/ TryCancel(c) PROVE Stages'
    <2>1. UNCHANGED <<timers, dropped>> /\ asked \subseteq asked' /\ cancel' \subseteq asked'
      BY <1>29 DEF Tick, TryCancel, queues, history, Stages
    <2>2. now' = now \/ now' = now + 1
      BY <1>29 DEF Tick, TryCancel
    <2>3. now' \in Int /\ now <= now'
      BY <1>0, <2>2, SMTT(30)
    <2> QED
      BY <1>0, <1>28, <1>29, <2>1, <2>3, CancelStill
  <1>30. ASSUME NEW s \in Loops, NEW c, NEW o, PopNone(s) \/ Fire(s, c) \/ Completion(s, o)
         PROVE  Stages'
    <2>1. UNCHANGED <<now, timers, dropped, cancel, asked>> /\ \A d \in Cos : Still(d)
      BY <1>0, <1>30, AllStill DEF queues, history
    <2>2. now' \in Int /\ now <= now' /\ cancel' \subseteq asked'
      BY <1>0, <2>1, SMTT(30) DEF Stages
    <2> QED
      BY <1>28, <2>1, <2>2
  <1>31. ASSUME NEW s \in Loops, NEW c \in Cos, Body(s, c) PROVE Stages'
    BY <1>6, <1>13, <1>15, <1>16, <1>17, <1>18, <1>19, <1>20, <1>21, <1>22, <1>23, <1>24,
       <1>25, <1>31 DEF Body
  <1>32. ASSUME NEW s \in Loops, Step(s) PROVE Stages'
    BY <1>5, <1>7, <1>8, <1>9, <1>10, <1>12, <1>27, <1>30, <1>31, <1>32 DEF Step
  <1> QED
    BY <1>4, <1>26, <1>29, <1>30, <1>32 DEF Next

\* The inductive invariant for OnlyCancelledDropped and RunningAfterSyscall.
StageInv == DueInv /\ Stages

\* It holds initially.
LEMMA StageInit == Init => StageInv
  <1> SUFFICES ASSUME Init PROVE StageInv
    OBVIOUS
  <1>1. ASSUME NEW c \in Cos PROVE StageOK(c)
    <2>1. StageBase(c)
      BY StateValues DEF Init, StageBase, IsCall
    <2> QED
      BY <2>1, SchedulerAssumption DEF Init, StageOK
  <1>2. Stages
    BY <1>1 DEF Init, Stages
  <1> QED
    BY <1>2, DueInit DEF StageInv

\* A stuttering step moves no coroutine.
LEMMA AllStillStutter == ASSUME UNCHANGED vars PROVE \A c \in Cos : Still(c)
  BY DEF vars, queues, thread, body, history, Still, Stays

\* It is inductive.
LEMMA StageNext == ASSUME OneWait PROVE StageInv /\ [Next]_vars => StageInv'
  <1>1. ASSUME StageInv, Next PROVE Stages'
    BY <1>1, StagesStep DEF StageInv
  <1>2. ASSUME StageInv, UNCHANGED vars PROVE Stages'
    <2>1. UNCHANGED <<now, timers, cancel, dropped, asked>>
      BY <1>2 DEF vars, queues, history
    <2>2. OnceInv /\ now \in Int
      BY <1>2, OnceTypes, Bounds DEF StageInv, DueInv, StateType
    <2>3. \A d \in Cos : StageOK(d)'
      BY <1>2, <2>1, <2>2, AllStillStutter, StageKept DEF StageInv, Stages
    <2> QED
      BY <1>2, <2>1, <2>3 DEF StageInv, Stages
  <1> QED
    BY <1>1, <1>2, DueNext DEF StageInv

\* do_schedule drops no coroutine that nobody wanted to cancel: running() and
\* complete() find a state they expect.
THEOREM OnlyAskedDropped == ASSUME OneWait PROVE Spec => []OnlyCancelledDropped
  <1>1. StageInv => OnlyCancelledDropped
    BY DEF StageInv, Stages, OnlyCancelledDropped
  <1> QED
    BY <1>1, StageInit, StageNext, PTL DEF Spec

\* The facade of a system call leaves the coroutine in state Running.
THEOREM RunningAfterCall == ASSUME OneWait PROVE Spec => RunningAfterSyscall
  <1>1. ASSUME StageInv, NEW s \in Loops, NEW c \in Cos, Exit(s, c)
        PROVE  state'[c].kind = "Running"
    <2>1. IsCall(state[c], "Executing")
      BY <1>1 DEF StageInv, Stages, StageOK, RunStage, Exit, At
    <2>2. state'[c] = TryRun(state[c], now)
      BY <1>1, OnceTypes DEF StageInv, DueInv, Exit, StateType
    <2> QED
      BY <2>1, <2>2, StateValues DEF TryRun, CanRun, Run, IsCall
  <1>2. StageInv => \A s \in Loops, c \in Cos : Exit(s, c) => state'[c].kind = "Running"
    BY <1>1
  <1> QED
    BY <1>2, StageInit, StageNext, PTL DEF Spec, RunningAfterSyscall

-----------------------------------------------------------------------------
(* Every wait in a call has its timer.                                     *)

\* A coroutine that waits in the syscall table has its timer there.
Timed ==
    \A s \in Loops : \A c \in syscall[s] :
        IsCall(state[c], "Suspend") => <<state[c].ts, c>> \in timers[s]

\* A timer goes only when it fires, and then the coroutine goes as well.
LEMMA TimedStep ==
    ASSUME OnceInv, Timed, Next
    PROVE  Timed'
  <1>0. /\ StateType /\ ThreadType /\ QueueType /\ NoCo \notin Cos
    BY OnceTypes
  <1>1. ASSUME NEW c \in Cos, OthersStill(c), timers' = timers,
               \A s \in Loops : c \notin syscall'[s],
               QueueType'
        PROVE  Timed'
    BY <1>1, SMTT(30) DEF OthersStill, Still, Stays, Timed, QueueType
  <1>2. ASSUME \A d \in Cos : Still(d), timers' = timers, QueueType' PROVE Timed'
    BY <1>2, SMTT(30) DEF Still, Stays, Timed, QueueType
  <1>3. QueueType'
    BY OnceNext DEF OnceInv, Typed, TypeOK, QueueType
  <1>4. ASSUME NEW c \in Cos, Submit(c) PROVE Timed'
    BY <1>1, <1>3, <1>4, SubmitMoves DEF Submit, In
  <1>5. ASSUME NEW s \in Loops, NEW c \in Cos, DropCancelled(s, c) PROVE Timed'
    BY <1>1, <1>3, <1>5, DropMoves DEF DropCancelled, In
  <1>6. ASSUME NEW s \in Loops, NEW c \in Cos, NEW end, Finish(s, c, end) PROVE Timed'
    BY <1>1, <1>3, <1>6, FinishMoves DEF Finish, In
  <1>7. ASSUME NEW s \in Loops, NEW c \in Cos, Resume(s, c) PROVE Timed'
    BY <1>1, <1>3, <1>7, ResumeMoves DEF Resume, In
  <1>8. ASSUME NEW s \in Loops, NEW c \in Cos, YieldRunning(s, c) PROVE Timed'
    <2>1. /\ OthersStill(c) /\ timers' = timers
          /\ In(c, "finished", NoCo)' \/ In(c, "suspend", s)' \/ In(c, "ready", NoCo)'
      BY <1>8, YieldRunningMoves DEF YieldRunning
    <2>2. \A l \in Loops : c \notin syscall'[l]
      BY <2>1 DEF In
    <2> QED
      BY <1>1, <1>3, <2>1, <2>2
  <1>9. ASSUME NEW s \in Loops, NEW c \in Cos, YieldSyscall(s, c) PROVE Timed'
    <2>1. /\ In(c, "syscall", s)' /\ OthersStill(c) /\ state' = state
          /\ timers' = [timers EXCEPT ![s] = @ \cup TimerFor(c)]
      BY <1>9, YieldSyscallMoves DEF YieldSyscall
    <2>2. ASSUME NEW l \in Loops, NEW d \in syscall'[l], IsCall(state'[d], "Suspend")
          PROVE  <<state'[d].ts, d>> \in timers'[l]
      <3>1. CASE d = c
        BY <1>0, <2>1, <2>2, <3>1 DEF In, TimerFor, IsCall, QueueType
      <3>2. CASE d # c
        <4>1. d \in syscall[l]
          BY <1>3, <2>1, <2>2, <3>2 DEF QueueType, OthersStill, Still, Stays
        <4> QED
          BY <1>0, <2>1, <2>2, <4>1 DEF Timed, QueueType
      <3> QED
        BY <3>1, <3>2
    <2> QED
      BY <2>2 DEF Timed
  <1>10. ASSUME NEW s \in Loops, check_ready(s) PROVE Timed'
    <2>1. timers' = [timers EXCEPT ![s] = @ \ {t \in timers[s] : t[1] <= now}]
      BY <1>10 DEF check_ready
    <2>2. syscall' = [syscall EXCEPT ![s] = @ \ {c \in syscall[s] :
                        \E t \in timers[s] : t[1] <= now /\ t[2] = c}]
      BY <1>0, <1>10 DEF check_ready, QueueType
    <2>3. ASSUME NEW l \in Loops, NEW d \in syscall'[l], IsCall(state'[d], "Suspend")
          PROVE  <<state'[d].ts, d>> \in timers'[l]
      <3>1. d \in syscall[l] /\ d \in Cos
        BY <1>0, <2>2, <2>3 DEF QueueType
      <3>2. ~In(d, "ready", NoCo)'
        BY <2>3 DEF In
      <3>3. state'[d] = state[d]
        BY <1>10, <3>1, <3>2, CheckMoves DEF Still
      <3>4. <<state[d].ts, d>> \in timers[l]
        BY <2>3, <3>1, <3>3 DEF Timed
      <3> QED
        BY <1>0, <2>1, <2>2, <2>3, <3>3, <3>4 DEF QueueType
    <2> QED
      BY <2>3 DEF Timed
  <1>11. ASSUME timers' = timers, NEW e,
                \A d \in Cos : Woken(e, d) \/ Still(d) \/ \E l \in Loops : In(d, "run", l)'
         PROVE  Timed'
    <2>1. ASSUME NEW l \in Loops, NEW d \in syscall'[l], IsCall(state'[d], "Suspend")
          PROVE  <<state'[d].ts, d>> \in timers'[l]
      <3>1. d \in Cos
        BY <1>3, <2>1 DEF QueueType
      <3>2. Still(d)
        BY <1>11, <2>1, <3>1 DEF Woken, In
      <3> QED
        BY <1>11, <2>1, <3>1, <3>2 DEF Timed, Still, Stays
    <2> QED
      BY <2>1 DEF Timed
  <1>12. ASSUME NEW s \in Loops, Select(s) PROVE Timed'
    BY <1>11, <1>12, SelectMoves DEF Select, resume
  <1>13. ASSUME NEW s \in Loops, NEW c \in Cos, WaitBack(s, c) PROVE Timed'
    <2>1. timers' = timers
      BY <1>13 DEF WaitBack, resume
    <2>2. In(c, "run", s)' /\ \A d \in Cos \ {c} : Woken(home[c], d) \/ Still(d)
      BY <1>13, WaitBackMoves
    <2> QED
      BY <1>11, <2>1, <2>2
  <1>14. ASSUME NEW s \in Loops, NEW c \in Cos, OthersStill(c), In(c, "run", s)', UNCHANGED queues
         PROVE  Timed'
    BY <1>1, <1>3, <1>14 DEF queues, In
  <1>15. ASSUME NEW s \in Loops, NEW c \in Cos, Body(s, c) PROVE Timed'
    <2>1. ASSUME NEW n, NEW ts, NEW r, NEW l,
               \/ Suspend(s, c) \/ Until(s, c, ts) \/ suspend_with(s, c)
               \/ Enter(s, c, n) \/ Exit(s, c) \/ wait_just(s, c, ts, r)
               \/ uring_submit(s, c, l) \/ uring_wait(s, c, l, ts) \/ UringBack(s, c)
               \/ LimitBack(s, c) \/ UringResult(s, c) \/ Unreachable(s, c)
          PROVE  Timed'
      BY <1>14, <2>1, BodyStill
    <2> QED
      BY <1>6, <1>13, <1>15, <2>1 DEF Body
  <1>16. ASSUME NEW s \in Loops, NEW c \in Cos, Preempt(s, c) PROVE Timed'
    BY <1>14, <1>16, BodyStill
  <1>17. ASSUME NEW s \in Loops, sigurg_handler(s) \/ sigvtalrm_handler(s) PROVE Timed'
    BY <1>3, <1>17, SignalStill DEF Stays, Timed, queues, QueueType
  <1>18. ASSUME NEW c, Tick \/ TryCancel(c) PROVE Timed'
    BY <1>2, <1>3, <1>18, CancelStill DEF Tick, TryCancel, queues
  <1>19. ASSUME NEW s \in Loops, NEW c, NEW o, PopNone(s) \/ Fire(s, c) \/ Completion(s, o)
         PROVE  Timed'
    BY <1>2, <1>3, <1>19, AllStill DEF queues
  <1>20. ASSUME NEW s \in Loops, Step(s) PROVE Timed'
    BY <1>5, <1>7, <1>8, <1>9, <1>10, <1>12, <1>15, <1>17, <1>19, <1>20 DEF Step
  <1> QED
    BY <1>4, <1>16, <1>18, <1>19, <1>20 DEF Next

\* No coroutine is cancelled by a signal that is never sent.
NoDead == "SIGVTALRM" \notin Signals => \A c \in Cos : at[c] # "dead"

\* Only sigvtalrm_handler ends a coroutine from outside.
LEMMA NoDeadStep == ASSUME OnceInv, NoDead, Next PROVE NoDead'
  <1> SUFFICES ASSUME "SIGVTALRM" \notin Signals PROVE \A c \in Cos : at'[c] # "dead"
    BY DEF NoDead
  <1>0. BodyType /\ ThreadType /\ \A c \in Cos : at[c] # "dead"
    BY OnceTypes DEF NoDead
  <1>1. ASSUME NEW s, NEW c, NEW l, GoOn(c, l), l # "dead" PROVE \A d \in Cos : at'[d] # "dead"
    BY <1>0, <1>1 DEF GoOn, BodyType
  <1>2. \A l \in DOMAIN After : After[l] # "dead"
    BY SMTT(30) DEF After
  <1>3. \A l \in {"uring", "limit"} : Submitted[l] # "dead"
    BY SMTT(30) DEF Submitted
  <1>4. ASSUME NEW s, NEW c \in Cos, Body(s, c) PROVE \A d \in Cos : at'[d] # "dead"
    <2>1. ASSUME NEW end, Suspend(s, c) \/ Unreachable(s, c) \/ Finish(s, c, end) PROVE at' = at
      BY <2>1 DEF Suspend, Unreachable, Finish, body
    <2>2. ASSUME NEW ts, NEW r, NEW n,
                 \/ Until(s, c, ts) \/ Enter(s, c, n) \/ Exit(s, c) \/ wait_just(s, c, ts, r)
                 \/ WaitBack(s, c) \/ UringBack(s, c) \/ UringResult(s, c)
                 \/ uring_wait(s, c, "uring", ts) \/ uring_wait(s, c, "limit", ts)
          PROVE  \/ GoOn(c, "until") \/ GoOn(c, "call") \/ GoOn(c, "body") \/ GoOn(c, "nio")
                 \/ GoOn(c, "again") \/ GoOn(c, "result") \/ GoOn(c, "exit")
                 \/ GoOn(c, "uring") \/ GoOn(c, "limit")
      BY <2>2 DEF Until, Enter, Exit, wait_just, WaitBack, UringBack, UringResult, uring_wait
    <2>3. ASSUME suspend_with(s, c) PROVE \E l : GoOn(c, l) /\ l # "dead"
      BY <1>2, <2>3 DEF suspend_with
    <2>4. ASSUME NEW l \in {"uring", "limit"}, uring_submit(s, c, l)
          PROVE \E k : GoOn(c, k) /\ k # "dead"
      BY <1>3, <2>4 DEF uring_submit
    <2>5. ASSUME LimitBack(s, c) PROVE \E k : GoOn(c, k) /\ k # "dead"
      BY <2>5, SMTT(30) DEF LimitBack
    <2> QED
      BY <1>0, <1>1, <1>4, <2>1, <2>2, <2>3, <2>4, <2>5 DEF Body
  <1>5. ASSUME NEW s \in Loops, sigvtalrm_handler(s) PROVE FALSE
    BY <1>0, <1>5 DEF sigvtalrm_handler, ThreadType
  <1>6. ASSUME NEW s, NEW c, NEW o,
               \/ check_ready(s) \/ PopNone(s) \/ Select(s) \/ sigurg_handler(s)
               \/ DropCancelled(s, c) \/ Resume(s, c) \/ YieldRunning(s, c)
               \/ YieldSyscall(s, c) \/ Tick \/ Submit(c) \/ TryCancel(c) \/ Fire(s, c)
               \/ Preempt(s, c) \/ Completion(s, o)
        PROVE  at' = at
    BY <1>6 DEF check_ready, PopNone, Select, sigurg_handler, DropCancelled, Resume,
           YieldRunning, YieldSyscall, Tick, Submit, TryCancel, Fire, Preempt, Completion, body
  <1>7. ASSUME NEW s \in Loops, Step(s) PROVE \A d \in Cos : at'[d] # "dead"
    BY <1>0, <1>4, <1>5, <1>6, <1>7 DEF Step
  <1> QED
    BY <1>0, <1>6, <1>7 DEF Next

\* The inductive invariant for SyscallTableWakes.
WakeInv == StageInv /\ Timed /\ NoDead

\* It is inductive.
LEMMA WakeNext == ASSUME OneWait PROVE WakeInv /\ [Next]_vars => WakeInv'
  <1>1. ASSUME WakeInv, Next PROVE Timed' /\ NoDead'
    BY <1>1, TimedStep, NoDeadStep DEF WakeInv, StageInv, DueInv
  <1>2. ASSUME WakeInv, UNCHANGED vars PROVE Timed' /\ NoDead'
    BY <1>2 DEF WakeInv, vars, queues, body, Timed, NoDead
  <1> QED
    BY <1>1, <1>2, StageNext DEF WakeInv

\* It holds initially.
LEMMA WakeInit == Init => WakeInv
  <1> SUFFICES ASSUME Init PROVE Timed /\ NoDead
    BY StageInit DEF WakeInv
  <1> QED
    BY DEF Init, Timed, NoDead

\* Whoever is in a syscall table waits, and with a timer.
LEMMA TableWakes ==
    ASSUME WakeInv, "SIGVTALRM" \notin Signals, NEW s \in Loops, NEW c \in syscall[s]
    PROVE  IsCall(state[c], "Suspend") /\ <<state[c].ts, c>> \in timers[s]
  <1>1. c \in Cos
    BY OnceTypes DEF WakeInv, StageInv, DueInv, QueueType
  <1>2. SyscallStage(c) /\ at[c] # "dead" /\ state[c].kind = "Syscall"
    BY <1>1 DEF WakeInv, StageInv, Stages, StageOK, NoDead, DueInv, Dues, DueOK
  <1> QED
    BY <1>2 DEF SyscallStage, IsCall, WakeInv, Timed

\* Every coroutine in the syscall table waits with a timestamp and has a timer
\* there, as long as none is cancelled by SIGVTALRM.
THEOREM SyscallsWake ==
    ASSUME OneWait, "SIGVTALRM" \notin Signals PROVE Spec => []SyscallTableWakes
  <1>1. WakeInv => SyscallTableWakes
    BY TableWakes DEF SyscallTableWakes
  <1> QED
    BY <1>1, WakeInit, WakeNext, PTL DEF Spec
=============================================================================
