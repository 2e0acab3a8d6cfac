-------------------------- MODULE EventLoopsProofs --------------------------
(***************************************************************************)
(* What EventLoops::stop and the monitor guarantee, for any number of      *)
(* event loops, jobs and calls of stop.                                    *)
(*                                                                         *)
(* stop looks at one number, shared_stop.  The invariant says that it is   *)
(* the number of threads that are counted and not yet gone, and that a     *)
(* thread that has left its loop has left nothing in its queue but strays. *)
(***************************************************************************)
EXTENDS EventLoops, TLAPS, FiniteSetTheorems

Counted == {l \in Threads : thread[l] \in {"loop", "flag", "count"}}

Positions == {"none", "spawned", "loop", "flag", "count", "exit"}

\* What the threads, the flags and the queues are.
LifeTyped ==
    /\ thread \in [Threads -> Positions]
    /\ pending \in [Threads -> BOOLEAN]
    /\ jobs \in [Threads -> Nat] /\ strays \in [Threads -> Nat]
    /\ \A l \in Threads : strays[l] <= jobs[l]
    /\ created \in 0..NLoops
    /\ submitter \in 0..NLoops
    /\ freed \subseteq Threads

\* A thread exists from the start of its loop on; its flag is set until it
\* clears it; and it leaves an empty queue.
ThreadsTracked ==
    \A l \in Threads :
        /\ thread[l] = "none" <=> l > created
        /\ thread[l] \in {"spawned", "loop", "flag"} => pending[l]
        /\ thread[l] \in {"flag", "count", "exit"} => jobs[l] = strays[l]

\* The counter that stop waits for.
StopCounted == shared_stop = Cardinality(Counted)

\* stop runs only when all loops were started, and goes through them in turn.
StopperTracked ==
    /\ stopper \in [pc : {"idle", "each", "flag", "wait"}, l : 0..NLoops]
    /\ stopper.pc # "idle" => Ready
    /\ stopper.pc \in {"each", "flag"} => stopper.l \in Threads

LifeInv == LifeTyped /\ ThreadsTracked /\ StopCounted /\ StopperTracked /\ StopWaited
-----------------------------------------------------------------------------
\* The threads are finitely many, and so are those that are counted.
LEMMA ThreadsFinite ==
    /\ IsFiniteSet(Threads)
    /\ \A S \in SUBSET Threads : IsFiniteSet(S) /\ Cardinality(S) \in Nat
<1>1. IsFiniteSet(Threads)
  BY LoopsAssumption, FS_Interval DEF Threads
<1>2. ASSUME NEW S \in SUBSET Threads
      PROVE  IsFiniteSet(S) /\ Cardinality(S) \in Nat
  BY <1>1, FS_Subset, FS_CardinalityType
<1> QED
  BY <1>1, <1>2

\* A thread that counts itself, goes on, or is gone changes the number of
\* counted threads by one, nothing, or minus one.
LEMMA CountedMoves ==
    ASSUME thread \in [Threads -> Positions], NEW l \in Threads, NEW p \in Positions,
           thread' = [thread EXCEPT ![l] = p]
    PROVE  /\ (thread[l] \in {"loop", "flag"} /\ p \in {"flag", "count"}) =>
                 Cardinality(Counted') = Cardinality(Counted)
           /\ (thread[l] = "none" /\ p = "spawned") =>
                 Cardinality(Counted') = Cardinality(Counted)
           /\ (thread[l] = "spawned" /\ p = "loop") =>
                 Cardinality(Counted') = Cardinality(Counted) + 1
           /\ (thread[l] = "count" /\ p = "exit") =>
                 Cardinality(Counted') = Cardinality(Counted) - 1
<1>1. IsFiniteSet(Counted)
  BY ThreadsFinite DEF Counted
<1>2. ASSUME p \in {"loop", "flag", "count"}
      PROVE  Counted' = Counted \cup {l}
  BY <1>2 DEF Counted
<1>3. ASSUME p \in {"spawned", "exit"}
      PROVE  Counted' = Counted \ {l}
  BY <1>3 DEF Counted
<1>4. l \in Counted <=> thread[l] \in {"loop", "flag", "count"}
  BY DEF Counted
<1>5. /\ Cardinality(Counted \cup {l}) =
           IF l \in Counted THEN Cardinality(Counted) ELSE Cardinality(Counted) + 1
      /\ Cardinality(Counted \ {l}) =
           IF l \in Counted THEN Cardinality(Counted) - 1 ELSE Cardinality(Counted)
  BY <1>1, FS_AddElement, FS_RemoveElement
<1> QED
  BY <1>2, <1>3, <1>4, <1>5

\* When the counter is zero no thread is in its loop or on its way out.
LEMMA NobodyCounted ==
    ASSUME LifeTyped, StopCounted, shared_stop = 0
    PROVE  \A l \in Threads : thread[l] \in {"none", "spawned", "exit"}
<1>1. Counted = {}
  BY ThreadsFinite, FS_EmptySet DEF StopCounted, Counted
<1> QED
  BY <1>1 DEF LifeTyped, Counted, Positions

\* Nothing is started, counted or stopped yet.
LEMMA LifeInit == Init => LifeInv
<1> SUFFICES ASSUME Init PROVE LifeInv
  OBVIOUS
<1>1. LifeTyped
  BY LoopsAssumption DEF Init, LifeTyped, Positions
<1>2. ThreadsTracked /\ StopperTracked
  BY LoopsAssumption DEF Init, ThreadsTracked, StopperTracked, Threads
<1>3. Counted = {}
  BY DEF Init, Counted
<1>4. StopCounted
  BY <1>3, FS_EmptySet DEF Init, StopCounted
<1>5. StopWaited
  BY DEF Init, StopWaited
<1> QED
  BY <1>1, <1>2, <1>4, <1>5 DEF LifeInv

\* A step that leaves the loops, the queues and stop alone keeps LifeInv.
LEMMA LifeElsewhere ==
    ASSUME LifeInv, UNCHANGED <<loops, work, stopping>>
    PROVE  LifeInv'
<1>1. Counted' = Counted
  BY DEF Counted, loops
<1> QED
  BY <1>1 DEF LifeInv, LifeTyped, ThreadsTracked, StopCounted, StopperTracked, StopWaited,
              Ready, loops, work, stopping
-----------------------------------------------------------------------------
\* EventLoop::start: the thread exists, and is not counted yet.
LEMMA LifeNewLoop ==
    ASSUME LifeInv, NewLoop
    PROVE  LifeInv'
<1> DEFINE l == created + 1
<1>1. /\ l \in Threads /\ thread[l] = "none"
      /\ created' = l /\ ~Ready
      /\ pending' = [pending EXCEPT ![l] = TRUE]
      /\ thread' = [thread EXCEPT ![l] = "spawned"]
      /\ UNCHANGED <<shared_stop, freed, jobs, strays, submitter, stopper, late>>
  BY LoopsAssumption DEF NewLoop, Advance, Ready, LifeInv, LifeTyped, ThreadsTracked, Threads,
                         work, stopping
<1>2. LifeTyped'
  BY <1>1 DEF LifeInv, LifeTyped, Positions, Threads
<1>3. ThreadsTracked'
  BY <1>1 DEF LifeInv, LifeTyped, ThreadsTracked, Threads
<1>4. StopCounted'
  BY <1>1, CountedMoves DEF LifeInv, LifeTyped, StopCounted, Positions
<1>5. StopperTracked'
  BY <1>1 DEF LifeInv, StopperTracked
<1>6. StopWaited'
  BY <1>1 DEF LifeInv, LifeTyped, StopWaited
<1> QED
  BY <1>2, <1>3, <1>4, <1>5, <1>6 DEF LifeInv

\* The thread counts itself; it may be one that a stop did not wait for.
LEMMA LifeCountUp ==
    ASSUME LifeInv, NEW l \in Threads, CountUp(l)
    PROVE  LifeInv'
<1>1. /\ thread[l] = "spawned" /\ shared_stop' = shared_stop + 1
      /\ thread' = [thread EXCEPT ![l] = "loop"]
      /\ UNCHANGED <<created, pending, freed, jobs, strays, submitter, stopper, late>>
  BY DEF CountUp, Advance, work, stopping
<1>2. LifeTyped' /\ ThreadsTracked' /\ StopperTracked'
  BY <1>1 DEF LifeInv, LifeTyped, ThreadsTracked, StopperTracked, Positions, Ready
<1>3. StopCounted'
  BY <1>1, CountedMoves DEF LifeInv, LifeTyped, StopCounted, Positions
<1>4. StopWaited'
  BY <1>1 DEF LifeInv, LifeTyped, StopWaited
<1> QED
  BY <1>2, <1>3, <1>4 DEF LifeInv

\* A job leaves the queue of x, the stray ones last.
LEMMA LifeBegin ==
    ASSUME LifeInv, NEW l \in Threads, NEW x \in Threads, Begin(l, x)
    PROVE  LifeInv'
<1>1. /\ jobs[x] > 0 /\ jobs' = [jobs EXCEPT ![x] = @ - 1]
      /\ strays' = [strays EXCEPT ![x] = IF @ = jobs[x] THEN @ - 1 ELSE @]
      /\ UNCHANGED <<loops, submitter, stopping>>
  BY DEF Begin
<1>2. /\ jobs' \in [Threads -> Nat] /\ strays' \in [Threads -> Nat]
      /\ \A k \in Threads : /\ strays'[k] <= jobs'[k]
                            /\ jobs[k] = strays[k] => jobs'[k] = strays'[k]
  BY <1>1 DEF LifeInv, LifeTyped
<1>3. Counted' = Counted
  BY <1>1 DEF Counted, loops
<1>4. LifeTyped' /\ ThreadsTracked' /\ StopCounted' /\ StopperTracked'
  BY <1>1, <1>2, <1>3 DEF LifeInv, LifeTyped, ThreadsTracked, StopCounted, StopperTracked,
                          Ready, loops, stopping
<1>5. StopWaited'
  BY <1>1, <1>2 DEF LifeInv, LifeTyped, StopWaited, loops, stopping
<1> QED
  BY <1>4, <1>5 DEF LifeInv

\* The thread leaves its loop with an empty queue.
LEMMA LifeLeaveLoop ==
    ASSUME LifeInv, NEW l \in Threads, LeaveLoop(l)
    PROVE  LifeInv'
<1>1. /\ thread[l] = "loop" /\ jobs[l] = 0
      /\ thread' = [thread EXCEPT ![l] = "flag"]
      /\ UNCHANGED <<created, pending, freed, shared_stop, jobs, strays, submitter, stopper,
                     late>>
  BY DEF LeaveLoop, Advance, work, stopping
<1>2. strays[l] = 0
  BY <1>1 DEF LifeInv, LifeTyped
<1>3. LifeTyped' /\ ThreadsTracked' /\ StopperTracked'
  BY <1>1, <1>2 DEF LifeInv, LifeTyped, ThreadsTracked, StopperTracked, Positions, Ready
<1>4. StopCounted'
  BY <1>1, CountedMoves DEF LifeInv, LifeTyped, StopCounted, Positions
<1>5. StopWaited'
  BY <1>1 DEF LifeInv, LifeTyped, StopWaited
<1> QED
  BY <1>3, <1>4, <1>5 DEF LifeInv

\* It clears its flag, and stays counted.
LEMMA LifeClearFlag ==
    ASSUME LifeInv, NEW l \in Threads, ClearFlag(l)
    PROVE  LifeInv'
<1>1. /\ thread[l] = "flag"
      /\ thread' = [thread EXCEPT ![l] = "count"]
      /\ pending' = [pending EXCEPT ![l] = FALSE]
      /\ UNCHANGED <<created, freed, shared_stop, jobs, strays, submitter, stopper, late>>
  BY DEF ClearFlag, Advance, work, stopping
<1>2. LifeTyped' /\ ThreadsTracked' /\ StopperTracked'
  BY <1>1 DEF LifeInv, LifeTyped, ThreadsTracked, StopperTracked, Positions, Ready
<1>3. StopCounted'
  BY <1>1, CountedMoves DEF LifeInv, LifeTyped, StopCounted, Positions
<1>4. StopWaited'
  BY <1>1 DEF LifeInv, LifeTyped, StopWaited
<1> QED
  BY <1>2, <1>3, <1>4 DEF LifeInv

\* It takes itself out of the count, and is gone.
LEMMA LifeCountDown ==
    ASSUME LifeInv, NEW l \in Threads, CountDown(l)
    PROVE  LifeInv'
<1>1. /\ thread[l] = "count" /\ shared_stop' = shared_stop - 1
      /\ thread' = [thread EXCEPT ![l] = "exit"]
      /\ UNCHANGED <<created, pending, freed, jobs, strays, submitter, stopper, late>>
  BY DEF CountDown, Advance, work, stopping
<1>2. LifeTyped' /\ ThreadsTracked' /\ StopperTracked'
  BY <1>1 DEF LifeInv, LifeTyped, ThreadsTracked, StopperTracked, Positions, Ready
<1>3. StopCounted'
  BY <1>1, CountedMoves DEF LifeInv, LifeTyped, StopCounted, Positions
<1>4. StopWaited'
  BY <1>1 DEF LifeInv, LifeTyped, StopWaited
<1> QED
  BY <1>2, <1>3, <1>4 DEF LifeInv
-----------------------------------------------------------------------------
\* submit_task looks at the pool and pushes later; a job that comes when the
\* thread has left is a stray.
LEMMA LifeSubmit ==
    ASSUME LifeInv, SubmitPush \/ \E l \in Threads : SubmitCheck(l)
    PROVE  LifeInv'
<1>1. UNCHANGED <<loops, stopping>>
  BY DEF SubmitPush, SubmitCheck
<1>2. Counted' = Counted
  BY <1>1 DEF Counted, loops
<1>3. submitter' \in 0..NLoops
  BY LoopsAssumption DEF SubmitPush, SubmitCheck, Threads
<1>4. /\ jobs' \in [Threads -> Nat] /\ strays' \in [Threads -> Nat]
      /\ \A k \in Threads :
           /\ strays'[k] <= jobs'[k]
           /\ (thread[k] \in {"flag", "count", "exit"} /\ jobs[k] = strays[k])
                => jobs'[k] = strays'[k]
  <2>1. CASE \E l \in Threads : SubmitCheck(l)
    BY <2>1 DEF SubmitCheck, LifeInv, LifeTyped
  <2>2. CASE SubmitPush
    <3>1. submitter \in Threads
      BY <2>2, LoopsAssumption DEF SubmitPush, LifeInv, LifeTyped, Threads
    <3>2. /\ jobs' = [jobs EXCEPT ![submitter] = @ + 1]
          /\ strays' = IF thread[submitter] \in {"spawned", "loop"} THEN strays
                       ELSE [strays EXCEPT ![submitter] = @ + 1]
      BY <2>2 DEF SubmitPush
    <3> QED
      BY <3>1, <3>2 DEF LifeInv, LifeTyped
  <2> QED
    BY <2>1, <2>2
<1>5. LifeTyped' /\ ThreadsTracked' /\ StopCounted' /\ StopperTracked'
  BY <1>1, <1>2, <1>3, <1>4 DEF LifeInv, LifeTyped, ThreadsTracked, StopCounted,
                                StopperTracked, Ready, loops, stopping
<1>6. StopWaited'
  BY <1>1, <1>4 DEF LifeInv, LifeTyped, StopWaited, loops, stopping
<1> QED
  BY <1>5, <1>6 DEF LifeInv

\* stop begins, goes through the loops, and drops a loop only when its flag
\* is cleared: its thread is then past its queue.
LEMMA LifeStopLoops ==
    ASSUME LifeInv, StopCall \/ StopLoop \/ do_stop
    PROVE  LifeInv'
<1>1. /\ UNCHANGED <<created, pending, thread, shared_stop, jobs, strays, submitter, late>>
      /\ Ready
  BY DEF StopCall, StopLoop, do_stop, LifeInv, StopperTracked, loops, work
<1>2. Counted' = Counted
  BY <1>1 DEF Counted
<1>3. ThreadsTracked' /\ StopCounted'
  BY <1>1, <1>2 DEF LifeInv, ThreadsTracked, StopCounted
<1>4. StopperTracked'
  <2>1. CASE StopCall
    BY <1>1, <2>1, LoopsAssumption DEF StopCall, StopperTracked, Threads, Ready
  <2>2. ASSUME stopper.l \in Threads
        PROVE  /\ NextLoop \in [pc : {"each", "wait"}, l : 0..NLoops]
               /\ NextLoop.pc = "each" => NextLoop.l \in Threads
    BY <2>2, LoopsAssumption DEF NextLoop, Threads
  <2>3. CASE do_stop
    BY <1>1, <2>2, <2>3 DEF do_stop, LifeInv, StopperTracked, Ready
  <2>4. CASE StopLoop
    <3>1. stopper.l \in Threads /\ stopper.pc = "each"
      BY <2>4 DEF StopLoop, LifeInv, StopperTracked
    <3>2. \/ stopper' = [stopper EXCEPT !.pc = "flag"]
          \/ stopper' = NextLoop
      BY <2>4 DEF StopLoop
    <3> QED
      BY <1>1, <2>2, <3>1, <3>2 DEF LifeInv, StopperTracked, Ready
  <2> QED
    BY <2>1, <2>3, <2>4
<1>5. freed' \subseteq freed \cup {l \in Threads : thread[l] \in {"count", "exit"}}
  <2>1. CASE do_stop
    <3>1. stopper.l \in Threads
      BY <2>1 DEF do_stop, LifeInv, StopperTracked
    <3>2. thread[stopper.l] # "none"
      BY <1>1, <3>1, LoopsAssumption DEF LifeInv, ThreadsTracked, Ready, Threads
    <3>3. ~pending[stopper.l] => thread[stopper.l] \in {"count", "exit"}
      BY <3>1, <3>2 DEF LifeInv, LifeTyped, ThreadsTracked, Positions
    <3>4. freed' = IF pending[stopper.l] THEN freed ELSE freed \cup {stopper.l}
      BY <2>1 DEF do_stop
    <3> QED
      BY <3>1, <3>3, <3>4
  <2>2. CASE StopCall \/ StopLoop
    BY <2>2 DEF StopCall, StopLoop, loops
  <2> QED
    BY <2>1, <2>2
<1>6. LifeTyped' /\ StopWaited'
  BY <1>1, <1>5 DEF LifeInv, LifeTyped, ThreadsTracked, StopWaited
<1> QED
  BY <1>3, <1>4, <1>6 DEF LifeInv

\* The wait of stop: with nobody counted, each thread is gone or has not
\* counted itself, and the late ones are those.
LEMMA LifeStopWaits ==
    ASSUME LifeInv, StopWaits
    PROVE  LifeInv'
<1>1. /\ UNCHANGED <<created, pending, freed, thread, shared_stop, jobs, strays, submitter>>
      /\ stopper.pc = "wait" /\ stopper' = [pc |-> "idle", l |-> 0]
  BY DEF StopWaits, loops, work
<1>2. Counted' = Counted
  BY <1>1 DEF Counted
<1>3. LifeTyped' /\ ThreadsTracked' /\ StopCounted' /\ StopperTracked'
  BY <1>1, <1>2, LoopsAssumption DEF LifeInv, LifeTyped, ThreadsTracked, StopCounted, StopperTracked
<1>4. StopWaited'
  <2>1. CASE late' = late
    BY <1>1, <2>1 DEF LifeInv, StopWaited
  <2>2. CASE shared_stop = 0 /\ late' = (late \ NoStop) \cup {l \in Threads : thread[l] = "spawned"}
    <3>1. \A l \in Threads : thread[l] \in {"spawned", "exit"}
      BY <1>1, <2>2, NobodyCounted, LoopsAssumption
         DEF LifeInv, ThreadsTracked, StopperTracked, Ready, Threads
    <3>2. \A l \in Threads : l \notin late' => thread[l] = "exit"
      BY <2>2, <3>1
    <3> QED
      BY <1>1, <3>2 DEF LifeInv, ThreadsTracked, StopWaited
  <2> QED
    BY <2>1, <2>2 DEF StopWaits
<1> QED
  BY <1>3, <1>4 DEF LifeInv

\* Every step keeps LifeInv.
LEMMA LifeStep ==
    ASSUME LifeInv, [Next]_lvars
    PROVE  LifeInv'
<1>1. ASSUME NEW l \in Threads, LoopThread(l)
      PROVE  LifeInv'
  <2>1. CASE Resume(l) \/ Leave(l)
    BY <2>1, LifeElsewhere DEF Resume, Leave
  <2> QED
    BY <1>1, <2>1, LifeCountUp, LifeBegin, LifeLeaveLoop, LifeClearFlag, LifeCountDown
       DEF LoopThread
<1>2. CASE InMonitor(MonitorNext)
  BY <1>2, LifeElsewhere DEF InMonitor
<1>3. CASE UNCHANGED lvars
  BY <1>3, LifeElsewhere DEF lvars
<1> QED
  BY <1>1, <1>2, <1>3, LifeNewLoop, LifeSubmit, LifeStopLoops, LifeStopWaits
     DEF Next, StopperSteps

\* When EventLoops::stop has returned Ok, each thread that had counted itself
\* is gone and has left an empty queue, and a loop is dropped only when its
\* thread has done with its queue, whatever the number of loops, jobs and
\* calls of stop.
THEOREM StopWaitedAlways == Spec => []StopWaited
<1>1. Init => LifeInv
  BY LifeInit
<1>2. LifeInv /\ [Next]_lvars => LifeInv'
  BY LifeStep
<1>3. LifeInv => StopWaited
  BY DEF LifeInv
<1> QED
  BY <1>1, <1>2, <1>3, PTL DEF Spec
-----------------------------------------------------------------------------
(* The monitor.  A thread is in Monitor::submit only on behalf of a        *)
(* coroutine that is Running, and the monitor's thread loops only between  *)
(* the start of the Monitor and its stop.                                  *)

Stations == {"code", "get", "create", "start", "launch", "insert"}

MonitorTyped ==
    /\ notify_queue \in [Threads -> Nodes]
    /\ at \in [Threads -> Stations]
    /\ co \in [Threads -> [state : {"none", "Running", "away"}, greedy : BOOLEAN,
                           left : BOOLEAN]]
    /\ mstate \in MonitorStates

MonitorInv ==
    /\ MonitorTyped
    /\ \A l \in Threads : at[l] # "code" => co[l].state = "Running" /\ ~raced
    /\ walker = "loop" => mstate \in {"Running", "Stopping"}
    /\ OneMonitor

\* Nothing runs and nothing is queued yet.
LEMMA MonitorInitially == Init => MonitorInv
  BY DEF Init, MonitorInit, MonitorInv, MonitorTyped, OneMonitor, NoNodes, NoCo, Nodes,
         Stations, MonitorStates

\* A race of two creators or starters resets what is followed of the monitor.
LEMMA MonitorRace ==
    ASSUME MonitorInv, Race
    PROVE  MonitorInv'
  BY DEF Race, MonitorInv, MonitorTyped, OneMonitor, NoNodes, Nodes, Stations, MonitorStates

\* The steps of Monitor::submit.
LEMMA MonitorSubmitting ==
    ASSUME MonitorInv, NEW l \in Threads, Submitting(l)
    PROVE  MonitorInv'
<1>1. CASE get_or_default(l)
  BY <1>1 DEF get_or_default, Place, monitor, MonitorInv, MonitorTyped, OneMonitor, Stations
<1>2. CASE InsertBean(l)
  <2>1. CASE ~Race
    BY <1>2, <2>1 DEF InsertBean, Place, MonitorInv, MonitorTyped, OneMonitor, Stations
  <2> QED
    BY <2>1, MonitorRace
<1>3. CASE start(l)
  BY <1>3 DEF start, Place, MonitorInv, MonitorTyped, OneMonitor, Stations
<1>4. CASE Launch(l)
  <2>1. CASE ~Race
    BY <1>4, <2>1 DEF Launch, Place, MonitorInv, MonitorTyped, OneMonitor, Stations,
                      MonitorStates
  <2> QED
    BY <2>1, MonitorRace
<1>5. CASE submit(l)
  BY <1>5 DEF submit, Place, MonitorInv, MonitorTyped, OneMonitor, Stations, Nodes
<1> QED
  BY <1>1, <1>2, <1>3, <1>4, <1>5 DEF Submitting

\* A coroutine leaves the thread, by itself or preempted, and takes its node
\* with it.
LEMMA MonitorLeaves ==
    ASSUME MonitorInv, NEW l \in Threads, at[l] = "code", UNCHANGED at,
           NEW c \in [state : {"none", "away"}, greedy : BOOLEAN, left : BOOLEAN],
           LeaveRunning(l, c)
    PROVE  MonitorInv'
  BY DEF LeaveRunning, remove, MonitorInv, MonitorTyped, OneMonitor, Nodes

\* A coroutine that enters the thread goes to Monitor::submit first.
LEMMA MonitorEnters ==
    ASSUME MonitorInv, NEW l \in Threads,
           NEW c \in [state : {"none", "Running", "away"}, greedy : BOOLEAN, left : BOOLEAN],
           EnterRunning(l, c), UNCHANGED monitor
    PROVE  MonitorInv'
  BY DEF EnterRunning, Place, monitor, MonitorInv, MonitorTyped, OneMonitor, Stations

\* The monitor's thread and what it does to the others.
LEMMA MonitorSteps ==
    ASSUME MonitorInv, MonitorNext
    PROVE  MonitorInv'
<1>1. CASE MonitorEnds
  BY <1>1 DEF MonitorEnds, MonitorInv, MonitorTyped, OneMonitor, MonitorStates, NoNodes
<1>2. ASSUME NEW l \in Threads, Expire(l)
      PROVE  MonitorInv'
  BY <1>2 DEF Expire, MonitorInv, MonitorTyped, OneMonitor, Nodes
<1>3. ASSUME NEW l \in Threads, Preempt(l)
      PROVE  MonitorInv'
  BY <1>3 DEF Preempt, monitor, MonitorInv, MonitorTyped, OneMonitor
<1>4. ASSUME NEW l \in Threads, Preempted(l) \/ AnyPreemption(l)
      PROVE  MonitorInv'
  <2>1. at[l] = "code" /\ UNCHANGED at
    BY <1>4 DEF Preempted, sigurg_handler, do_preempt, AnyPreemption, MonitorInv
  <2>2. Suspend(l) \/ UNCHANGED <<co, monitor>>
    BY <1>4 DEF Preempted, sigurg_handler, do_preempt, AnyPreemption, Suspended
  <2>3. CASE Suspend(l)
    BY <2>1, <2>3, MonitorLeaves DEF Suspend
  <2>4. CASE UNCHANGED <<co, monitor>>
    BY <2>1, <2>4 DEF monitor, MonitorInv, MonitorTyped, OneMonitor
  <2> QED
    BY <2>2, <2>3, <2>4
<1> QED
  BY <1>1, <1>2, <1>3, <1>4, MonitorSubmitting DEF MonitorNext

\* Every step of the system keeps MonitorInv.
LEMMA MonitorStep ==
    ASSUME MonitorInv, [Next]_lvars
    PROVE  MonitorInv'
<1>1. ASSUME UNCHANGED mvars
      PROVE  MonitorInv'
  BY <1>1 DEF mvars, monitor, MonitorInv, MonitorTyped, OneMonitor
<1>2. ASSUME NEW l \in Threads, NEW x \in Threads, Begin(l, x)
      PROVE  MonitorInv'
  BY <1>2, MonitorEnters DEF Begin, NoCo
<1>3. ASSUME NEW l \in Threads, Resume(l)
      PROVE  MonitorInv'
  <2>1. co[l] \in [state : {"none", "Running", "away"}, greedy : BOOLEAN, left : BOOLEAN]
    BY DEF MonitorInv, MonitorTyped
  <2> QED
    BY <1>3, <2>1, MonitorEnters DEF Resume
<1>4. ASSUME NEW l \in Threads, Leave(l)
      PROVE  MonitorInv'
  <2>1. co[l] \in [state : {"none", "Running", "away"}, greedy : BOOLEAN, left : BOOLEAN]
    BY DEF MonitorInv, MonitorTyped
  <2> QED
    BY <1>4, <2>1, MonitorLeaves DEF Leave, NoCo
<1>5. CASE StopWaits
  BY <1>5 DEF StopWaits, stop_monitor, monitor, MonitorInv, MonitorTyped, OneMonitor,
              MonitorStates
<1>6. CASE \/ NewLoop \/ SubmitPush \/ StopCall \/ StopLoop \/ do_stop
           \/ \E l \in Threads :
                CountUp(l) \/ LeaveLoop(l) \/ ClearFlag(l) \/ CountDown(l) \/ SubmitCheck(l)
  BY <1>1, <1>6 DEF NewLoop, SubmitPush, StopCall, StopLoop, do_stop, CountUp, LeaveLoop,
                    ClearFlag, CountDown, SubmitCheck
<1>7. CASE InMonitor(MonitorNext)
  BY <1>7, MonitorSteps DEF InMonitor
<1>8. CASE UNCHANGED lvars
  BY <1>1, <1>8 DEF lvars
<1> QED
  BY <1>2, <1>3, <1>4, <1>5, <1>6, <1>7, <1>8 DEF Next, LoopThread, StopperSteps

\* As long as no two threads create or start the Monitor at the same time, it
\* has a node only for a thread whose coroutine is Running, and its thread
\* ends in the state that monitor_thread_main asserts, for any number of
\* loops, jobs and calls of stop.
THEOREM OneMonitorAlways == Spec => []OneMonitor
<1>1. Init => MonitorInv
  BY MonitorInitially
<1>2. MonitorInv /\ [Next]_lvars => MonitorInv'
  BY MonitorStep
<1>3. MonitorInv => OneMonitor
  BY DEF MonitorInv
<1> QED
  BY <1>1, <1>2, <1>3, PTL DEF Spec
-----------------------------------------------------------------------------
(* Types.  No queue holds more jobs than were made: a job that was counted *)
(* for a queue is in it, is about to be pushed to it, or has left it.      *)

JobsMade ==
    /\ made \in 0..MaxJobs
    /\ \A l \in Threads : jobs[l] <= made /\ (submitter = l => jobs[l] < made)

RestTyped ==
    /\ pool \in [Threads -> {"Running", "Stopping", "Stopped"}]
    /\ walker \in {"none", "loop", "exit"}
    /\ preempting \subseteq Threads

TypeInv == LifeInv /\ MonitorInv /\ JobsMade /\ RestTyped

\* submit_task counts a job before it pushes it, and a loop takes one.
LEMMA JobsMadeStep ==
    ASSUME TypeInv, [Next]_lvars
    PROVE  JobsMade'
<1> USE DEF JobsMade
<1>1. ASSUME UNCHANGED work
      PROVE  JobsMade'
  BY <1>1 DEF work, TypeInv
<1>2. ASSUME NEW l \in Threads, NEW x \in Threads, Begin(l, x)
      PROVE  JobsMade'
  <2>1. /\ jobs' = [jobs EXCEPT ![x] = @ - 1] /\ UNCHANGED <<submitter, made>>
        /\ jobs \in [Threads -> Nat] /\ made \in Nat
    BY <1>2, LifeConstants DEF Begin, TypeInv, LifeInv, LifeTyped
  <2> QED
    BY <2>1 DEF TypeInv
<1>3. ASSUME NEW l \in Threads, SubmitCheck(l)
      PROVE  JobsMade'
  <2>1. /\ made' = made + 1 /\ made < MaxJobs /\ UNCHANGED jobs
        /\ jobs \in [Threads -> Nat] /\ made \in 0..MaxJobs
    BY <1>3 DEF SubmitCheck, TypeInv, LifeInv, LifeTyped
  <2> QED
    BY <2>1, LifeConstants DEF TypeInv
<1>4. CASE SubmitPush
  <2>1. /\ jobs' = [jobs EXCEPT ![submitter] = @ + 1] /\ submitter' = 0 /\ UNCHANGED made
        /\ submitter \in Threads /\ jobs \in [Threads -> Nat] /\ made \in 0..MaxJobs
    BY <1>4, LoopsAssumption DEF SubmitPush, TypeInv, LifeInv, LifeTyped, Threads
  <2> QED
    BY <2>1, LifeConstants DEF TypeInv, Threads
<1>5. CASE StopCall \/ StopperSteps \/ NewLoop
  BY <1>1, <1>5 DEF StopCall, StopperSteps, StopLoop, do_stop, StopWaits, NewLoop
<1>6. ASSUME NEW l \in Threads,
             \/ CountUp(l) \/ Resume(l) \/ Leave(l)
             \/ LeaveLoop(l) \/ ClearFlag(l) \/ CountDown(l)
      PROVE  JobsMade'
  BY <1>1, <1>6 DEF CountUp, Resume, Leave, LeaveLoop, ClearFlag, CountDown
<1>7. CASE InMonitor(MonitorNext)
  BY <1>1, <1>7 DEF InMonitor
<1>8. CASE UNCHANGED lvars
  BY <1>1, <1>8 DEF lvars
<1> QED
  BY <1>2, <1>3, <1>4, <1>5, <1>6, <1>7, <1>8 DEF Next, LoopThread

\* What is left of the state keeps its type.
LEMMA RestStep ==
    ASSUME TypeInv, [Next]_lvars
    PROVE  RestTyped'
<1> USE DEF RestTyped
<1>1. ASSUME UNCHANGED <<pool, walker, preempting>>
      PROVE  RestTyped'
  BY <1>1 DEF TypeInv
<1>2. CASE StopLoop \/ do_stop
  <2>1. pool' \in [Threads -> {"Running", "Stopping", "Stopped"}]
    BY <1>2 DEF StopLoop, do_stop, TypeInv
  <2> QED
    BY <1>2, <2>1 DEF StopLoop, do_stop, TypeInv, mvars, monitor
<1>3. ASSUME NEW l \in Threads, Submitting(l), UNCHANGED pool
      PROVE  RestTyped'
  BY <1>3 DEF Submitting, get_or_default, InsertBean, start, Launch, submit, Race, monitor,
              TypeInv
<1>4. ASSUME NEW l \in Threads, UNCHANGED pool,
             Expire(l) \/ Preempt(l) \/ Preempted(l) \/ AnyPreemption(l)
      PROVE  RestTyped'
  BY <1>4 DEF Expire, Preempt, pthread_kill, preempt_thread, Preempted, sigurg_handler,
              do_preempt, AnyPreemption, Suspended, Suspend, LeaveRunning, monitor, TypeInv
<1>5. ASSUME MonitorEnds, UNCHANGED pool
      PROVE  RestTyped'
  BY <1>5 DEF MonitorEnds, TypeInv
<1>6. CASE InMonitor(MonitorNext)
  BY <1>3, <1>4, <1>5, <1>6 DEF InMonitor, MonitorNext, loops
<1>7. ASSUME NEW l \in Threads, LoopThread(l) \/ SubmitCheck(l)
      PROVE  RestTyped'
  BY <1>1, <1>7 DEF LoopThread, CountUp, Begin, Resume, Leave, LeaveRunning, LeaveLoop,
                    ClearFlag, CountDown, SubmitCheck, mvars, monitor, loops
<1>8. CASE NewLoop \/ SubmitPush \/ StopCall \/ StopWaits
  BY <1>1, <1>8 DEF NewLoop, SubmitPush, StopCall, StopWaits, stop_monitor, mvars, monitor,
                    loops
<1>9. CASE UNCHANGED lvars
  BY <1>1, <1>9 DEF lvars, mvars, monitor, loops
<1> QED
  BY <1>2, <1>6, <1>7, <1>8, <1>9 DEF Next, StopperSteps

\* The counter of EventLoops::stop stays between zero and the number of its
\* loops, so that it neither wraps nor counts a thread twice; no queue holds
\* more jobs than were submitted, nor more strays than jobs; and the loops,
\* their threads and the monitor are in one of their states, for any number
\* of loops, jobs and calls of stop.
THEOREM LoopsTyped == Spec => []TypeOK
<1>1. Init => TypeInv
  <2>1. Init => JobsMade
    BY LifeConstants, LoopsAssumption DEF Init, JobsMade, Threads
  <2>2. Init => RestTyped
    BY DEF Init, MonitorInit, RestTyped
  <2> QED
    BY <2>1, <2>2, LifeInit, MonitorInitially DEF TypeInv
<1>2. TypeInv /\ [Next]_lvars => TypeInv'
  BY LifeStep, MonitorStep, JobsMadeStep, RestStep DEF TypeInv
<1>3. TypeInv => TypeOK
  <2> SUFFICES ASSUME TypeInv PROVE TypeOK
    OBVIOUS
  <2>1. shared_stop \in 0..NLoops
    <3>1. Cardinality(Counted) <= Cardinality(Threads)
      BY ThreadsFinite, FS_Subset DEF Counted
    <3>2. Cardinality(Threads) = NLoops
      BY LoopsAssumption, FS_Interval DEF Threads
    <3>3. Cardinality(Counted) \in Nat
      BY ThreadsFinite DEF Counted
    <3> QED
      BY <3>1, <3>2, <3>3, LoopsAssumption DEF TypeInv, LifeInv, StopCounted
  <2>2. MonitorTypeOK
    BY DEF TypeInv, MonitorInv, MonitorTyped, RestTyped, MonitorTypeOK
  <2>3. \A l \in Threads : jobs[l] \in 0..MaxJobs /\ strays[l] \in 0..jobs[l]
    BY LifeConstants DEF TypeInv, JobsMade, LifeInv, LifeTyped
  <2> QED
    BY <2>1, <2>2, <2>3 DEF TypeOK, TypeInv, RestTyped, LifeInv, LifeTyped, Positions
<1> QED
  BY <1>1, <1>2, <1>3, PTL DEF Spec
=============================================================================
