------------------------- MODULE CoroutinePoolTyping ------------------------
(***************************************************************************)
(* The types of the coroutine pools, and the shapes of the worker stacks.  *)
(*                                                                         *)
(* A step of a worker cuts its stack at some call and changes the step and *)
(* the target of the call at the cut (Cuts), or pushes a new call onto     *)
(* what is left (Pushes).  Every action is reduced to one of the two once, *)
(* and what follows reasons about them only: the type of a stack, which    *)
(* tasks are on it, and which of them still run.                           *)
(***************************************************************************)
EXTENDS CoroutinePool, SequenceTheorems, TLAPS

USE ZenonT(30)

-----------------------------------------------------------------------------
(* Types.                                                                  *)

\* Where the workers are, and the threads of the pools.
ThreadType ==
  /\ place \in [Workers -> {"none", "ready"} \cup Pools]
  /\ pc \in [Pools -> {"idle", "first", "sched", "work", "check", "stuck", "end"}]
  /\ state \in [Pools -> {"Running", "Stopping", "Stopped"}]
  /\ signals \subseteq Pools

\* The two counters of a pool.
CountType ==
  /\ running \in [Pools -> 0..MaxSize]
  /\ pop_fail_times \in [Pools -> 0..MaxSize]

\* A task waits inside of its coroutine for a task.
StackType ==
  /\ frames \in [Workers -> Seq(Frame)]
  /\ \A w \in Workers : \A i \in DOMAIN frames[w] :
       frames[w][i].at \in {"spin", "look"} => frames[w][i].target \in Tasks

\* The maps of a pool and the static maps of all pools.
MapType ==
  /\ queue \subseteq Tasks
  /\ suspended \subseteq Suspending
  /\ results \in [Pools -> SUBSET (Tasks \X Outcomes)]
  /\ waits \in [Pools -> SUBSET Tasks]
  /\ no_waits \in [Pools -> SUBSET Tasks]
  /\ RUNNING_TASKS \in [Tasks -> Workers \cup {Nobody, Dead}]
  /\ CANCEL_TASKS \subseteq Tasks
  /\ CANCEL_COROUTINES \subseteq Workers
  /\ asked \subseteq Tasks
  /\ killed \in BOOLEAN /\ panicked \in BOOLEAN

\* The holders of the handles, and what was asked.
ClientType ==
  /\ client \in [Tasks -> {"new", "refused", "idle", "register", "wait",
                           "forget", "dropped", "over"}]
  /\ home \in [Tasks -> Pools]
  /\ index \in Nat
  /\ pending \in [Tasks -> BOOLEAN]

\* TypeOK, in five parts, with what the types of the stacks add: a call that
\* waits has the task it waits for.
Typed == ThreadType /\ CountType /\ StackType /\ MapType /\ ClientType

\* The parts imply the type invariant of the pools.
LEMMA TypedIsTypeOK == Typed => TypeOK
  BY DEF Typed, TypeOK, ThreadType, CountType, StackType, MapType, ClientType

\* The new pools of EventLoops::new are well typed.
LEMMA TypedInit == Init => Typed
  <1> SUFFICES ASSUME Init PROVE Typed
    OBVIOUS
  <1>1. Ring[1] \in Pools
    BY PoolAssumption, SMT
  <1>2. 0 \in 0 .. MaxSize /\ 0 \in Nat
    BY PoolAssumption, SMT
  <1>3. <<>> \in Seq(Frame) /\ DOMAIN <<>> = {}
    BY SMT
  <1>4. StackType
    BY <1>3 DEF Init, StackType
  <1> QED
    BY <1>1, <1>2, <1>4 DEF Init, Typed, ThreadType, CountType, MapType, ClientType

-----------------------------------------------------------------------------
(* The stack of a worker.                                                  *)

\* The stack of w becomes the lower n calls of what it was, the last of which
\* goes on at a, waiting for g.
Cut(w, n, a, g, s) ==
  /\ s \in Seq(Frame) /\ n \in 0 .. Depth(w) /\ Len(s) = n /\ DOMAIN s = 1 .. n
  /\ \A i \in 1 .. n :
       /\ s[i].task = frames[w][i].task /\ s[i].pool = frames[w][i].pool
       /\ s[i].at = IF i = n THEN a ELSE frames[w][i].at
       /\ s[i].target = IF i = n THEN g ELSE frames[w][i].target

\* The fields of a call have their types.
LEMMA FrameFields ==
  ASSUME NEW f \in Frame
  PROVE  f.task \in Tasks /\ f.pool \in Pools /\ f.at \in Steps /\ f.target \in Tasks \cup {Outside}
  BY SMT DEF Frame

\* A call of try_run that goes to another step is a call.
LEMMA FrameStep ==
  ASSUME NEW f \in Frame, NEW a \in Steps
  PROVE  /\ [f EXCEPT !.at = a] \in Frame
         /\ [f EXCEPT !.at = a].task = f.task
         /\ [f EXCEPT !.at = a].pool = f.pool
         /\ [f EXCEPT !.at = a].at = a
         /\ [f EXCEPT !.at = a].target = f.target
  BY SMT DEF Frame

\* A call that begins to wait for a task (wait_task_result) is a call.
LEMMA FrameWait ==
  ASSUME NEW f \in Frame, NEW g \in Tasks
  PROVE  /\ [f EXCEPT !.target = g] \in Frame
         /\ [f EXCEPT !.target = g].task = f.task
         /\ [f EXCEPT !.target = g].pool = f.pool
         /\ [f EXCEPT !.target = g].at = f.at
         /\ [f EXCEPT !.target = g].target = g
  BY SMT DEF Frame

\* A call of try_run on a task of the queue begins as a call.
LEMMA FrameCall ==
  ASSUME NEW p \in Pools, NEW t \in Tasks
  PROVE  /\ Call(p, t) \in Frame /\ Call(p, t).task = t
         /\ Call(p, t).at = "begin" /\ Call(p, t).pool = p
  BY SMT DEF Frame, Steps, Call

\* The innermost call of a worker is one of its calls.
LEMMA StackFacts ==
  ASSUME StackType, NEW w \in Workers
  PROVE  /\ frames[w] \in Seq(Frame) /\ Depth(w) \in Nat /\ DOMAIN frames[w] = 1 .. Depth(w)
         /\ \A i \in 1 .. Depth(w) : frames[w][i] \in Frame
         /\ Depth(w) > 0 => Depth(w) \in 1 .. Depth(w) /\ Top(w) \in Frame
  <1>1. frames[w] \in Seq(Frame)
    BY DEF StackType
  <1> QED
    BY <1>1, SMT DEF Depth, Top

\* Goto and the like.
LEMMA StackStep ==
  ASSUME StackType, NEW w \in Workers, Depth(w) > 0, NEW f \in Frame,
         f.task = Top(w).task, f.pool = Top(w).pool
  PROVE  Cut(w, Depth(w), f.at, f.target, [frames[w] EXCEPT ![Depth(w)] = f])
  <1> DEFINE s == [frames[w] EXCEPT ![Depth(w)] = f]
  <1>1. frames[w] \in Seq(Frame) /\ Depth(w) \in 1 .. Depth(w) /\ DOMAIN frames[w] = 1 .. Depth(w)
        /\ Depth(w) \in 0 .. Depth(w)
    BY StackFacts, SMT
  <1>2. s \in Seq(Frame) /\ Len(s) = Depth(w) /\ DOMAIN s = 1 .. Depth(w)
    BY <1>1, SMT DEF Depth
  <1>3. \A i \in 1 .. Depth(w) : s[i] = IF i = Depth(w) THEN f ELSE frames[w][i]
    BY <1>1
  <1> HIDE DEF s
  <1>4. Top(w) = frames[w][Depth(w)]
    BY DEF Top
  <1> QED
    BY <1>1, <1>2, <1>3, <1>4 DEF Cut, s

\* Leave.
LEMMA StackLeave ==
  ASSUME StackType, NEW w \in Workers, Depth(w) > 0
  PROVE  /\ Cut(w, Depth(w) - 1, frames[w][Depth(w) - 1].at, frames[w][Depth(w) - 1].target,
                SubSeq(frames[w], 1, Depth(w) - 1))
         /\ Depth(w) > 1 =>
              Cut(w, Depth(w) - 1, "task", frames[w][Depth(w) - 1].target,
                  [SubSeq(frames[w], 1, Depth(w) - 1) EXCEPT ![Depth(w) - 1].at = "task"])
  <1> DEFINE n == Depth(w) - 1
             s == SubSeq(frames[w], 1, n)
             r == [s EXCEPT ![n].at = "task"]
  <1>1. frames[w] \in Seq(Frame) /\ Depth(w) \in Nat /\ Depth(w) = Len(frames[w])
        /\ n \in 0 .. Depth(w) /\ n \in Nat /\ (Depth(w) > 1 => n \in 1 .. n)
    BY StackFacts, SMT DEF Depth
  <1>2. s \in Seq(Frame) /\ Len(s) = n /\ DOMAIN s = 1 .. n /\ \A i \in 1 .. n : s[i] = frames[w][i]
    BY <1>1, SMT
  <1>3. Cut(w, n, frames[w][n].at, frames[w][n].target, s)
    <2> HIDE DEF n, s
    <2> QED
      BY <1>1, <1>2 DEF Cut
  <1>4. ASSUME Depth(w) > 1 PROVE Cut(w, n, "task", frames[w][n].target, r)
    <2>1. n \in 1 .. n /\ \A i \in 1 .. n : s[i] \in Frame
      BY <1>1, <1>2, <1>4, SMT
    <2>2. "task" \in Steps
      BY DEF Steps
    <2> DEFINE f == [s[n] EXCEPT !.at = "task"]
    <2>3. r = [s EXCEPT ![n] = f]
      OBVIOUS
    <2>4. f \in Frame /\ f.task = s[n].task /\ f.pool = s[n].pool /\ f.at = "task" /\ f.target = s[n].target
      <3> HIDE DEF s, n
      <3> QED
        BY <2>1, <2>2, FrameStep
    <2> HIDE DEF f, s, n, r
    <2>5. r \in Seq(Frame) /\ Len(r) = n /\ DOMAIN r = 1 .. n
      BY <1>2, <2>1, <2>3, <2>4, SMT
    <2>6. \A i \in 1 .. n : r[i] = IF i = n THEN f ELSE s[i]
      BY <1>2, <2>1, <2>3
    <2> QED
      BY <1>1, <1>2, <2>1, <2>4, <2>5, <2>6 DEF Cut
  <1> QED
    BY <1>3, <1>4

\* The stack of a worker that ends.
LEMMA StackClear ==
  ASSUME StackType, NEW w \in Workers
  PROVE  \A a, g : Cut(w, 0, a, g, <<>>)
  <1>1. <<>> \in Seq(Frame) /\ 0 \in 0 .. Depth(w) /\ Len(<<>>) = 0 /\ DOMAIN <<>> = 1 .. 0 /\ 1 .. 0 = {}
    BY StackFacts, SMT
  <1> QED
    BY <1>1 DEF Cut

\* try_run puts its call on top.
LEMMA StackPush ==
  ASSUME StackType, NEW w \in Workers, NEW n, NEW a, NEW g, NEW s, Cut(w, n, a, g, s),
         NEW p \in Pools, NEW t \in Tasks
  PROVE  /\ Append(s, Call(p, t)) \in Seq(Frame) /\ Len(Append(s, Call(p, t))) = n + 1
         /\ DOMAIN Append(s, Call(p, t)) = (1 .. n) \cup {n + 1} /\ n + 1 \notin 1 .. n
         /\ \A i \in 1 .. n : Append(s, Call(p, t))[i] = s[i]
         /\ Append(s, Call(p, t))[n + 1] = Call(p, t)
  <1>1. Call(p, t) \in Frame /\ s \in Seq(Frame) /\ Len(s) = n /\ n \in Nat
    <2>1. n \in 0 .. Depth(w) /\ Depth(w) \in Nat
      BY StackFacts DEF Cut
    <2> QED
      BY <2>1, FrameCall, SMT DEF Cut
  <1>2. DOMAIN Append(s, Call(p, t)) = 1 .. n + 1
    BY <1>1, SMT
  <1>3. 1 .. n + 1 = (1 .. n) \cup {n + 1}
    BY <1>1, SMT
  <1>4. DOMAIN Append(s, Call(p, t)) = (1 .. n) \cup {n + 1}
    BY <1>2, <1>3
  <1> QED
    BY <1>1, <1>4, SMT

\* The same for the step of a worker.
Cuts(w, n, a, g) ==
  /\ frames' \in [Workers -> Seq(Frame)] /\ n \in 0 .. Depth(w)
  /\ DOMAIN frames'[w] = 1 .. n /\ Len(frames'[w]) = n
  /\ \A v \in Workers \ {w} : frames'[v] = frames[v]
  /\ \A i \in 1 .. n :
       /\ frames'[w][i].task = frames[w][i].task /\ frames'[w][i].pool = frames[w][i].pool
       /\ frames'[w][i].at = IF i = n THEN a ELSE frames[w][i].at
       /\ frames'[w][i].target = IF i = n THEN g ELSE frames[w][i].target

\* And with a call of try_run on top.
Pushes(w, n, a, g, p, t) ==
  /\ frames' \in [Workers -> Seq(Frame)] /\ n \in 0 .. Depth(w)
  /\ DOMAIN frames'[w] = (1 .. n) \cup {n + 1} /\ n + 1 \notin 1 .. n
  /\ Len(frames'[w]) = n + 1
  /\ \A v \in Workers \ {w} : frames'[v] = frames[v]
  /\ \A i \in 1 .. n :
       /\ frames'[w][i].task = frames[w][i].task /\ frames'[w][i].pool = frames[w][i].pool
       /\ frames'[w][i].at = IF i = n THEN a ELSE frames[w][i].at
       /\ frames'[w][i].target = IF i = n THEN g ELSE frames[w][i].target
  /\ frames'[w][n + 1] = Call(p, t)

\* A cut gives the calls of the new stack one by one.
LEMMA CutSteps ==
  ASSUME StackType, NEW w \in Workers, NEW n, NEW a, NEW g, NEW s, Cut(w, n, a, g, s)
  PROVE  /\ frames' = [frames EXCEPT ![w] = s] => Cuts(w, n, a, g)
         /\ \A p \in Pools, t \in Tasks :
              frames' = [frames EXCEPT ![w] = Append(s, Call(p, t))] => Pushes(w, n, a, g, p, t)
  <1>1. frames \in [Workers -> Seq(Frame)]
    BY DEF StackType
  <1>2. frames' = [frames EXCEPT ![w] = s] => Cuts(w, n, a, g)
    BY <1>1 DEF Cut, Cuts
  <1>3. ASSUME NEW p \in Pools, NEW t \in Tasks,
               frames' = [frames EXCEPT ![w] = Append(s, Call(p, t))]
        PROVE  Pushes(w, n, a, g, p, t)
    <2> DEFINE r == Append(s, Call(p, t))
    <2>1. /\ r \in Seq(Frame) /\ Len(r) = n + 1 /\ DOMAIN r = (1 .. n) \cup {n + 1} /\ n + 1 \notin 1 .. n
          /\ (\A i \in 1 .. n : r[i] = s[i]) /\ r[n + 1] = Call(p, t)
      BY StackPush, SMT
    <2>2. frames' = [frames EXCEPT ![w] = r]
      BY <1>3
    <2> HIDE DEF r
    <2>3. frames' \in [Workers -> Seq(Frame)] /\ frames'[w] = r
          /\ \A v \in Workers \ {w} : frames'[v] = frames[v]
      BY <1>1, <2>1, <2>2
    <2>4. /\ DOMAIN frames'[w] = (1 .. n) \cup {n + 1} /\ Len(frames'[w]) = n + 1
          /\ frames'[w][n + 1] = Call(p, t) /\ \A i \in 1 .. n : frames'[w][i] = s[i]
      BY <2>1, <2>3
    <2>5. /\ n \in 0 .. Depth(w)
          /\ \A i \in 1 .. n :
               /\ frames'[w][i].task = frames[w][i].task /\ frames'[w][i].pool = frames[w][i].pool
               /\ frames'[w][i].at = IF i = n THEN a ELSE frames[w][i].at
               /\ frames'[w][i].target = IF i = n THEN g ELSE frames[w][i].target
      BY <2>4 DEF Cut
    <2> QED
      BY <2>1, <2>3, <2>4, <2>5 DEF Pushes
  <1> QED
    BY <1>2, <1>3

\* A call that goes to another step keeps its stack and its target.
LEMMA GotoCuts ==
  ASSUME StackType, NEW w \in Workers, Depth(w) > 0, NEW a \in Steps, Goto(w, a)
  PROVE  Cuts(w, Depth(w), a, Top(w).target)
  <1> DEFINE f == [Top(w) EXCEPT !.at = a]
  <1>1. Top(w) \in Frame
    BY StackFacts
  <1>2. f \in Frame /\ f.task = Top(w).task /\ f.pool = Top(w).pool /\ f.at = a /\ f.target = Top(w).target
    BY <1>1, FrameStep
  <1>3. frames' = [frames EXCEPT ![w] = [frames[w] EXCEPT ![Depth(w)] = f]]
    BY DEF Goto, Top
  <1> HIDE DEF f
  <1>4. Cut(w, Depth(w), a, Top(w).target, [frames[w] EXCEPT ![Depth(w)] = f])
    BY <1>2, StackStep
  <1> QED
    BY <1>3, <1>4, CutSteps

\* try_run returns to the call below, which goes on where it was, or in its
\* task when an assertion unwinds to it.
LEMMA LeaveCuts ==
  ASSUME StackType, NEW w \in Workers, Depth(w) > 0
  PROVE  /\ Leave(w) => Cuts(w, Depth(w) - 1, frames[w][Depth(w) - 1].at,
                             frames[w][Depth(w) - 1].target)
         /\ Depth(w) > 1 /\ frames' = [frames EXCEPT ![w] =
                  [SubSeq(@, 1, Depth(w) - 1) EXCEPT ![Depth(w) - 1].at = "task"]]
              => Cuts(w, Depth(w) - 1, "task", frames[w][Depth(w) - 1].target)
  <1>1. Leave(w) => frames' = [frames EXCEPT ![w] = SubSeq(frames[w], 1, Depth(w) - 1)]
    BY DEF Leave
  <1> QED
    BY <1>1, StackLeave, CutSteps

\* A worker that is cancelled loses its whole stack.
LEMMA ClearCuts ==
  ASSUME StackType, NEW w \in Workers, frames' = [frames EXCEPT ![w] = <<>>], NEW a, NEW g
  PROVE  Cuts(w, 0, a, g)
  BY StackClear, CutSteps

\* What the steps of a worker do to its stack.
LEMMA WaitCuts ==
  ASSUME StackType, NEW w \in Workers, NEW p, NEW u \in Tasks, JoinInside(w, p, u)
  PROVE  frames' = frames \/ Cuts(w, Depth(w), "spin", u)
  <1> SUFFICES ASSUME frames' # frames PROVE Cuts(w, Depth(w), "spin", u)
    OBVIOUS
  <1>1. Top(w) \in Frame /\ Depth(w) > 0 /\ Depth(w) \in DOMAIN frames[w] /\ "spin" \in Steps
    BY StackFacts DEF JoinInside, At, Steps
  <1>2. PICK k \in Frame : k = Top(w)
    BY <1>1
  <1>7. PICK h : h = [k EXCEPT !.at = "spin"]
    OBVIOUS
  <1>3. PICK f : f = [h EXCEPT !.target = u]
    OBVIOUS
  <1>4. f \in Frame /\ f.task = k.task /\ f.pool = k.pool /\ f.at = "spin" /\ f.target = u
    <2>1. h \in Frame /\ h.task = k.task /\ h.pool = k.pool /\ h.at = "spin"
      BY <1>1, <1>7, FrameStep
    <2> QED
      BY <1>3, <2>1, FrameWait
  <1>6. frames' = [frames EXCEPT ![w] = [frames[w] EXCEPT ![Depth(w)] = f]]
    <2>1. PICK st : st = frames[w]
      OBVIOUS
    <2>2. PICK n : n = Depth(w)
      OBVIOUS
    <2>3. frames' = [frames EXCEPT ![w] = [st EXCEPT ![n].at = "spin", ![n].target = u]]
      BY <2>1, <2>2 DEF JoinInside
    <2>4. st \in Seq(Frame) /\ n \in DOMAIN st /\ k = st[n]
      BY <1>1, <1>2, <2>1, <2>2, StackFacts DEF Top
    <2>6. PICK s : s = [st EXCEPT ![n] = h]
      OBVIOUS
    <2>8. s[n] = h
      BY <2>4, <2>6
    <2>9. [st EXCEPT ![n].at = "spin", ![n].target = u] = [s EXCEPT ![n] = [s[n] EXCEPT !.target = u]]
      BY <1>7, <2>4, <2>6
    <2>10. [s EXCEPT ![n] = f] = [st EXCEPT ![n] = f]
      BY <2>4, <2>6
    <2> QED
      BY <1>3, <2>1, <2>2, <2>3, <2>8, <2>9, <2>10
  <1>5. Cut(w, Depth(w), "spin", u, [frames[w] EXCEPT ![Depth(w)] = f])
    BY <1>1, <1>2, <1>4, StackStep
  <1> QED
    BY <1>5, <1>6, CutSteps

\* try_run drops a cancelled task, or calls the task.
LEMMA StartCuts ==
  ASSUME StackType, NEW w \in Workers, NEW p \in Pools, NEW t \in Tasks, NEW n, NEW a, NEW g,
         NEW s, Cut(w, n, a, g, s), Start(w, p, t, s)
  PROVE  IF t \in CANCEL_TASKS THEN Cuts(w, n, a, g) ELSE Pushes(w, n, a, g, p, t)
  BY CutSteps DEF Start

\* Below the call of try_run the task waits at the look that follows it.
LEMMA LookingCut ==
  ASSUME StackType, NEW w \in Workers, Depth(w) > 0
  PROVE  Cut(w, Depth(w), "look", Top(w).target, [frames[w] EXCEPT ![Depth(w)].at = "look"])
  <1> DEFINE f == [Top(w) EXCEPT !.at = "look"]
  <1>1. Top(w) \in Frame /\ "look" \in Steps
    BY StackFacts DEF Steps
  <1>2. /\ f \in Frame /\ f.task = Top(w).task /\ f.pool = Top(w).pool
        /\ f.at = "look" /\ f.target = Top(w).target
    BY <1>1, FrameStep
  <1>3. [frames[w] EXCEPT ![Depth(w)].at = "look"] = [frames[w] EXCEPT ![Depth(w)] = f]
    BY DEF Top
  <1> HIDE DEF f
  <1> QED
    BY <1>2, <1>3, StackStep

\* The loop of wait_task_result inside of a coroutine runs a task of the
\* queue, drops a cancelled one, or finds nothing.
LEMMA SpinCuts ==
  ASSUME StackType, NEW w \in Workers, NEW p, Spin(w, p), home \in [Tasks -> Pools],
         queue \subseteq Tasks
  PROVE  \/ Cuts(w, Depth(w), "look", Top(w).target) /\ UNCHANGED <<queue, CANCEL_TASKS>>
         \/ \E t \in queue : /\ t \in CANCEL_TASKS /\ queue' = queue \ {t}
                             /\ CANCEL_TASKS' = CANCEL_TASKS \ {t}
                             /\ Cuts(w, Depth(w), "look", Top(w).target)
         \/ \E t \in queue : /\ t \notin CANCEL_TASKS /\ queue' = queue \ {t}
                             /\ UNCHANGED CANCEL_TASKS
                             /\ Pushes(w, Depth(w), "look", Top(w).target, home[Top(w).target], t)
  <1> DEFINE s == [frames[w] EXCEPT ![Depth(w)].at = "look"]
  <1>1. Depth(w) > 0 /\ Top(w).target \in Tasks
    BY StackFacts DEF Spin, At, StackType, Top
  <1>2. Cut(w, Depth(w), "look", Top(w).target, s) /\ home[Top(w).target] \in Pools
    BY <1>1, LookingCut
  <1>3. \/ \E t \in queue : Start(w, home[Top(w).target], t, s)
        \/ frames' = [frames EXCEPT ![w] = s] /\ UNCHANGED <<queue, CANCEL_TASKS>>
    BY DEF Spin
  <1> HIDE DEF s
  <1>4. ASSUME NEW t \in queue, Start(w, home[Top(w).target], t, s)
        PROVE  IF t \in CANCEL_TASKS
                 THEN Cuts(w, Depth(w), "look", Top(w).target)
                 ELSE Pushes(w, Depth(w), "look", Top(w).target, home[Top(w).target], t)
    BY <1>2, <1>4, StartCuts
  <1> QED
    BY <1>2, <1>3, <1>4, CutSteps DEF Start

\* A cut stack has its type.
LEMMA CutsTyped ==
  ASSUME StackType, NEW w \in Workers, NEW n, NEW a, NEW g, Cuts(w, n, a, g),
         n \in DOMAIN frames[w] /\ a \in {"spin", "look"} => g \in Tasks
  PROVE  StackType'
  <1>1. DOMAIN frames[w] = 1 .. Depth(w) /\ \A i \in 1 .. n : i \in 1 .. Depth(w)
    <2>1. Depth(w) \in Nat /\ n \in 0 .. Depth(w)
      BY StackFacts DEF Cuts
    <2> QED
      BY <2>1, StackFacts, SMT
  <1>2. \A v \in Workers \ {w} : \A i \in DOMAIN frames'[v] :
          frames'[v][i].at \in {"spin", "look"} => frames'[v][i].target \in Tasks
    BY DEF StackType, Cuts
  <1>3. \A i \in DOMAIN frames'[w] :
          frames'[w][i].at \in {"spin", "look"} => frames'[w][i].target \in Tasks
    BY <1>1 DEF StackType, Cuts
  <1> QED
    BY <1>2, <1>3 DEF StackType, Cuts

\* So has a cut stack with a new call.
LEMMA PushesTyped ==
  ASSUME StackType, NEW w \in Workers, NEW n, NEW a, NEW g, NEW p \in Pools, NEW t \in Tasks,
         Pushes(w, n, a, g, p, t),
         n \in DOMAIN frames[w] /\ a \in {"spin", "look"} => g \in Tasks
  PROVE  StackType'
  <1>1. DOMAIN frames[w] = 1 .. Depth(w) /\ \A i \in 1 .. n : i \in 1 .. Depth(w)
    <2>1. Depth(w) \in Nat /\ n \in 0 .. Depth(w)
      BY StackFacts DEF Pushes
    <2> QED
      BY <2>1, StackFacts, SMT
  <1>2. frames'[w][n + 1].at = "begin"
    <2>1. frames'[w][n + 1] = Call(p, t)
      BY DEF Pushes
    <2>2. Call(p, t).at = "begin"
      BY FrameCall
    <2> QED
      BY <2>1, <2>2
  <1>3. \A i \in DOMAIN frames'[w] :
          frames'[w][i].at \in {"spin", "look"} => frames'[w][i].target \in Tasks
    BY <1>1, <1>2 DEF StackType, Pushes
  <1> QED
    BY <1>3 DEF StackType, Pushes

\* A step of a worker keeps the types of the stacks.
LEMMA StackTyped ==
  ASSUME Typed, NEW w \in Workers, NEW p \in Pools,
         WorkerStep(w, p) \/ PopReady(p, w)
  PROVE  StackType'
  <1>1. /\ StackType /\ queue \subseteq Tasks /\ home \in [Tasks -> Pools]
        /\ "task" \in Steps /\ "spin" \in Steps /\ "store" \in Steps /\ "notify" \in Steps
    BY DEF Typed, MapType, ClientType, Steps
  <1>2. ASSUME UNCHANGED frames PROVE StackType'
    BY <1>1, <1>2 DEF StackType
  <1>3. ASSUME frames' = [frames EXCEPT ![w] = <<>>] PROVE StackType'
    <2>1. Cuts(w, 0, "task", Outside)
      BY <1>1, <1>3, ClearCuts
    <2> QED
      BY <1>1, <2>1, CutsTyped
  <1>4. ASSUME Depth(w) > 0, NEW a \in {"task", "store", "notify"}, Goto(w, a) PROVE StackType'
    BY <1>1, <1>4, GotoCuts, CutsTyped
  <1>5. ASSUME Depth(w) > 0, Leave(w) PROVE StackType'
    <2>1. Cuts(w, Depth(w) - 1, frames[w][Depth(w) - 1].at, frames[w][Depth(w) - 1].target)
      BY <1>1, <1>5, LeaveCuts
    <2> QED
      BY <1>1, <2>1, CutsTyped DEF StackType
  <1>6. ASSUME NEW t \in Tasks, TryRun(w, p, t) PROVE StackType'
    <2>1. Cut(w, 0, "task", Outside, <<>>) /\ Start(w, p, t, <<>>)
      BY <1>1, <1>6, StackClear DEF TryRun
    <2>2. Cuts(w, 0, "task", Outside) \/ Pushes(w, 0, "task", Outside, p, t)
      BY <1>1, <2>1, StartCuts
    <2> QED
      BY <1>1, <2>2, CutsTyped, PushesTyped
  <1>7. ASSUME NEW t \in Tasks, JoinInside(w, p, t) PROVE StackType'
    BY <1>1, <1>2, <1>7, WaitCuts, CutsTyped
  <1>8. ASSUME StorePanic(w, p) PROVE StackType'
    <2>1. CASE Depth(w) > 1
      <3>1. Cuts(w, Depth(w) - 1, "task", frames[w][Depth(w) - 1].target)
        BY <1>1, <1>8, <2>1, LeaveCuts DEF StorePanic, At
      <3> QED
        BY <1>1, <3>1, CutsTyped
    <2>2. CASE ~(Depth(w) > 1)
      BY <1>3, <1>8, <2>2 DEF StorePanic
    <2> QED
      BY <2>1, <2>2
  <1>9. ASSUME Spin(w, p) PROVE StackType'
    <2>1. Top(w).target \in Tasks /\ home[Top(w).target] \in Pools
      BY <1>1, <1>9, StackFacts DEF Spin, At, StackType, Top
    <2> QED
      BY <1>1, <1>9, <2>1, SpinCuts, CutsTyped, PushesTyped
  <1>10. ASSUME Look(w, p) PROVE StackType'
    <2>1. Depth(w) > 0 /\ Top(w).target \in Tasks /\ (Goto(w, "task") \/ Goto(w, "spin"))
      BY <1>1, <1>10, StackFacts DEF Look, At, StackType, Top
    <2> QED
      BY <1>1, <1>4, <2>1, GotoCuts, CutsTyped
  <1> QED
    BY <1>2, <1>3, <1>4, <1>5, <1>6, <1>7, <1>8, <1>9, <1>10
       DEF WorkerStep, PopReady, Recycle, Idle, Begin, Suspend, TaskEnd, Store, Notify,
           sigvtalrm, At

\* try_grow keeps the types of the workers and counters.
LEMMA GrowTyped ==
  ASSUME NEW p \in Pools, NEW pl \in [Workers -> {"none", "ready"} \cup Pools],
         NEW rn \in [Pools -> 0 .. MaxSize], try_grow(p, pl, rn)
  PROVE  /\ place' \in [Workers -> {"none", "ready"} \cup Pools]
         /\ running' \in [Pools -> 0 .. MaxSize]
  <1>1. place' \in [Workers -> {"none", "ready"} \cup Pools]
    BY DEF try_grow
  <1>2. rn[p] < MaxSize => rn[p] + 1 \in 0 .. MaxSize
    BY PoolAssumption, SMT
  <1>3. running' \in [Pools -> 0 .. MaxSize]
    BY <1>2 DEF try_grow
  <1> QED
    BY <1>1, <1>3

\* So does the listener that counts a worker down.
LEMMA EndedTyped ==
  ASSUME NEW p \in Pools, running \in [Pools -> 0 .. MaxSize]
  PROVE  Ended(p) \in [Pools -> 0 .. MaxSize]
  <1>1. 0 \in 0 .. MaxSize /\ (running[p] # 0 => running[p] - 1 \in 0 .. MaxSize)
    BY PoolAssumption, SMT
  <1> QED
    BY <1>1 DEF Ended

\* Every step keeps the types of the queue and the threads.
LEMMA ThreadTyped ==
  ASSUME Typed, Next
  PROVE  ThreadType'
  <1>1. ThreadType /\ running \in [Pools -> 0 .. MaxSize]
    BY DEF Typed, CountType
  <1>2. ASSUME NEW w \in Workers, NEW p \in Pools, WorkerStep(w, p) PROVE ThreadType'
    <2>1. /\ [place EXCEPT ![w] = "ready"] \in [Workers -> {"none", "ready"} \cup Pools]
          /\ [place EXCEPT ![w] = "none"] \in [Workers -> {"none", "ready"} \cup Pools]
          /\ Ended(p) \in [Pools -> 0 .. MaxSize]
      BY <1>1, EndedTyped DEF ThreadType
    <2>2. place' \in [Workers -> {"none", "ready"} \cup Pools]
      BY <1>1, <1>2, <2>1, GrowTyped DEF ThreadType, WorkerStep, TryRun, JoinInside, Recycle, Idle,
         Begin, Suspend, TaskEnd, Store, StorePanic, Notify, Spin, Look, sigvtalrm
    <2>3. /\ pc' = pc \/ pc' = [pc EXCEPT ![p] = "sched"]
          /\ UNCHANGED state /\ signals' \subseteq signals
      BY <1>2 DEF WorkerStep, TryRun, JoinInside, Recycle, Idle, Begin, Suspend, TaskEnd, Store,
         StorePanic, Notify, Spin, Look, sigvtalrm, threads
    <2> QED
      BY <1>1, <2>2, <2>3 DEF ThreadType
  <1>3. ASSUME NEW p \in Pools, Schedule(p) PROVE ThreadType'
    BY <1>1, <1>3, GrowTyped DEF ThreadType, Schedule
  <1>4. ASSUME NEW p \in Pools, NEW w \in Workers, PopReady(p, w) PROVE ThreadType'
    BY <1>1, <1>4 DEF ThreadType, PopReady
  <1>5. ASSUME NEW p \in Pools,
               Return(p) \/ sigvtalrm_ignored(p) \/ do_stop_again(p) \/ do_stop(p) \/ stopping(p)
        PROVE  ThreadType'
    BY <1>1, <1>5 DEF ThreadType, Return, sigvtalrm_ignored, do_stop_again, do_stop, stopping,
       workers
  <1>6. ASSUME NEW t \in Tasks, ClientStep(t) \/ Submit(t) \/ Join(t) \/ Drop(t)
        PROVE  ThreadType'
    BY <1>1, <1>6 DEF ThreadType, ClientStep, Register, Wake, Forget, Submit, Join, Drop,
       threads, workers
  <1>7. ASSUME NEW t \in Tasks, try_cancel_task(t) PROVE ThreadType'
    BY <1>1, <1>7 DEF ThreadType, try_cancel_task, workers
  <1> QED
    BY <1>2, <1>3, <1>4, <1>5, <1>6, <1>7 DEF Next, ThreadStep, ClientCall

\* Every step keeps the types of the counters: pop_fail_times stays below the
\* number of workers the pool counts, which try_grow bounds.
LEMMA CountTyped ==
  ASSUME Typed, Next
  PROVE  CountType'
  <1>1. ThreadType /\ CountType /\ StackType
    BY DEF Typed
  <1>2. ASSUME NEW w \in Workers, NEW p \in Pools, WorkerStep(w, p) PROVE CountType'
    <2>1. /\ [place EXCEPT ![w] = "ready"] \in [Workers -> {"none", "ready"} \cup Pools]
          /\ [place EXCEPT ![w] = "none"] \in [Workers -> {"none", "ready"} \cup Pools]
          /\ Ended(p) \in [Pools -> 0 .. MaxSize]
      BY <1>1, EndedTyped DEF ThreadType, CountType
    <2>2. running' \in [Pools -> 0 .. MaxSize]
      BY <1>1, <1>2, <2>1, GrowTyped DEF CountType, WorkerStep, TryRun, JoinInside, Recycle, Idle,
         Begin, Suspend, TaskEnd, Store, StorePanic, Notify, Spin, Look, sigvtalrm, pools
    <2>3. ASSUME Depth(w) > 0, Leave(w) PROVE pop_fail_times' \in [Pools -> 0 .. MaxSize]
      <3>1. 0 \in 0 .. MaxSize
        BY PoolAssumption, SMT
      <3> QED
        BY <1>1, <2>3, <3>1 DEF Leave, CountType
    <2>4. ASSUME Idle(w, p) PROVE pop_fail_times' \in [Pools -> 0 .. MaxSize]
      <3>1. 0 \in 0 .. MaxSize
            /\ (pop_fail_times[p] + 1 < running[p] => pop_fail_times[p] + 1 \in 0 .. MaxSize)
        <4>1. pop_fail_times[p] \in 0 .. MaxSize /\ running[p] \in 0 .. MaxSize
          BY <1>1 DEF CountType
        <4> QED
          BY <4>1, PoolAssumption, SMT
      <3> QED
        BY <1>1, <2>4, <3>1 DEF Idle, CountType
    <2>5. ASSUME NEW t \in Tasks, TryRun(w, p, t)
          PROVE  pop_fail_times' \in [Pools -> 0 .. MaxSize]
      <3>1. 0 \in 0 .. MaxSize
        BY PoolAssumption, SMT
      <3> QED
        BY <1>1, <2>5, <3>1 DEF TryRun, CountType
    <2>6. pop_fail_times' \in [Pools -> 0 .. MaxSize]
      BY <1>1, <1>2, <2>3, <2>4, <2>5 DEF CountType, WorkerStep, JoinInside, Recycle,
         Begin, Suspend, TaskEnd, Store, StorePanic, Notify, Spin, Look, sigvtalrm, pools, At
    <2> QED
      BY <2>2, <2>6 DEF CountType
  <1>3. ASSUME NEW p \in Pools, Schedule(p) PROVE CountType'
    BY <1>1, <1>3, GrowTyped DEF ThreadType, CountType, Schedule
  <1>4. ASSUME UNCHANGED pools PROVE CountType'
    BY <1>1, <1>4 DEF CountType, pools
  <1> QED
    BY <1>2, <1>3, <1>4 DEF Next, ThreadStep, PopReady, Return, sigvtalrm_ignored,
       do_stop_again, do_stop, stopping, ClientStep, Register, Wake, Forget, ClientCall, Submit,
       Join, Drop, try_cancel_task

\* Every step keeps the types of the maps.
LEMMA MapTyped ==
  ASSUME Typed, Next
  PROVE  MapType'
  <1>1. ThreadType /\ StackType /\ MapType /\ ClientType
    BY DEF Typed
  <1>2. \A t \in Tasks, o \in Outcomes : <<t, o>> \in Tasks \X Outcomes
    OBVIOUS
  <1>3. "done" \in Outcomes /\ "stopped" \in Outcomes
    BY DEF Outcomes
  <1>4. ASSUME NEW q \in Pools, NEW t \in Tasks,
               (\E o \in Outcomes : Insert(q, t, o)) \/ TakeResult(q, t)
        PROVE  results' \in [Pools -> SUBSET (Tasks \X Outcomes)]
    <2>1. Without(q, t) \subseteq Tasks \X Outcomes
      BY <1>1 DEF Without, MapType
    <2>2. \A o \in Outcomes : Without(q, t) \cup {<<t, o>>} \subseteq Tasks \X Outcomes
      BY <1>2, <2>1
    <2>3. \E r \in SUBSET (Tasks \X Outcomes) : results' = [results EXCEPT ![q] = r]
      BY <1>4, <2>1, <2>2 DEF Insert, TakeResult
    <2> QED
      BY <1>1, <2>3 DEF MapType
  <1>5. ASSUME NEW q \in Pools, NEW t, notify(q, t) PROVE waits' \in [Pools -> SUBSET Tasks]
    BY <1>1, <1>5 DEF notify, MapType
  <1>6. ASSUME NEW w \in Workers, NEW p \in Pools, WorkerStep(w, p) PROVE MapType'
    <2>1. ASSUME NEW step, At(w, step) PROVE Top(w).task \in Tasks /\ Top(w).pool \in Pools
      BY <1>1, <2>1, StackFacts, FrameFields DEF At
    <2>2. ASSUME NEW t \in Tasks, TryRun(w, p, t) PROVE MapType'
      BY <1>1, <2>2 DEF MapType, TryRun, Start, maps, history
    <2>3. ASSUME NEW t \in Tasks, JoinInside(w, p, t) PROVE MapType'
      <3>1. home[t] \in Pools
        BY <1>1 DEF ClientType
      <3>2. results' \in [Pools -> SUBSET (Tasks \X Outcomes)] /\ waits' \in [Pools -> SUBSET Tasks]
        BY <1>1, <1>4, <1>5, <2>3, <3>1 DEF JoinInside, MapType
      <3> QED
        BY <1>1, <2>3, <3>2 DEF MapType, JoinInside, statics, history
    <2>4. ASSUME Recycle(w, p) \/ Idle(w, p) PROVE MapType'
      BY <1>1, <2>4 DEF MapType, Recycle, Idle, maps, statics, history
    <2>5. ASSUME Begin(w, p) \/ Suspend(w, p) PROVE MapType'
      BY <1>1, <2>1, <2>5 DEF MapType, Begin, Suspend, maps, statics, history
    <2>6. ASSUME TaskEnd(w, p) PROVE MapType'
      <3>1. /\ UNCHANGED <<queue, suspended, results, waits, CANCEL_TASKS, CANCEL_COROUTINES, asked,
                           killed, panicked>>
            /\ RUNNING_TASKS' = [RUNNING_TASKS EXCEPT ![Top(w).task] = Nobody]
            /\ \/ no_waits' = [no_waits EXCEPT ![Top(w).pool] = @ \ {Top(w).task}]
               \/ no_waits' = no_waits
        BY <2>6 DEF TaskEnd, history
      <3>2. no_waits' \in [Pools -> SUBSET Tasks]
        <4>1. no_waits \in [Pools -> SUBSET Tasks]
          BY <1>1 DEF MapType
        <4>2. \A q \in Pools : no_waits[q] \ {Top(w).task} \in SUBSET Tasks
          BY <4>1
        <4> QED
          BY <3>1, <4>1, <4>2
      <3>3. RUNNING_TASKS' \in [Tasks -> Workers \cup {Nobody, Dead}]
        BY <1>1, <3>1 DEF MapType
      <3> QED
        BY <1>1, <3>1, <3>2, <3>3 DEF MapType
    <2>7. ASSUME Store(w, p) \/ StorePanic(w, p) PROVE MapType'
      <3>1. results' \in [Pools -> SUBSET (Tasks \X Outcomes)]
        BY <1>3, <1>4, <2>1, <2>7 DEF Store, StorePanic
      <3> QED
        BY <1>1, <2>7, <3>1 DEF MapType, Store, StorePanic, statics, history
    <2>8. ASSUME Notify(w, p) PROVE MapType'
      <3>1. waits' \in [Pools -> SUBSET Tasks]
        BY <1>5, <2>1, <2>8 DEF Notify
      <3> QED
        BY <1>1, <2>8, <3>1 DEF MapType, Notify, statics, history
    <2>9. ASSUME Spin(w, p) PROVE MapType'
      BY <1>1, <2>9 DEF MapType, Spin, Start, maps, history
    <2>10. ASSUME Look(w, p) PROVE MapType'
      <3>1. Top(w).target \in Tasks /\ home[Top(w).target] \in Pools
        BY <1>1, <2>10, StackFacts DEF Look, At, StackType, Top, ClientType
      <3>2. results' \in [Pools -> SUBSET (Tasks \X Outcomes)]
        BY <1>1, <1>4, <2>10, <3>1 DEF Look, MapType
      <3> QED
        BY <1>1, <2>10, <3>2 DEF MapType, Look, statics, history
    <2>11. ASSUME sigvtalrm(w, p) PROVE MapType'
      BY <1>1, <2>11 DEF MapType, sigvtalrm, maps, history
    <2> QED
      BY <1>6, <2>2, <2>3, <2>4, <2>5, <2>6, <2>7, <2>8, <2>9, <2>10, <2>11 DEF WorkerStep
  <1>7. ASSUME NEW p \in Pools, NEW w \in Workers, PopReady(p, w) PROVE MapType'
    BY <1>1, <1>7 DEF MapType, PopReady, maps
  <1>8. ASSUME NEW p \in Pools, do_stop(p) PROVE MapType'
    <2>1. results' \in [Pools -> SUBSET (Tasks \X Outcomes)]
      BY <1>1, <1>3, <1>4, <1>8 DEF do_stop, MapType
    <2> QED
      BY <1>1, <1>8, <2>1 DEF MapType, do_stop, statics, history, workers
  <1>9. ASSUME NEW p \in Pools, Schedule(p) \/ Return(p) \/ sigvtalrm_ignored(p)
                                 \/ do_stop_again(p) \/ stopping(p)
        PROVE  MapType'
    BY <1>1, <1>9 DEF MapType, Schedule, Return, sigvtalrm_ignored, do_stop_again, stopping,
       maps, statics, history, workers
  <1>10. ASSUME NEW t \in Tasks, Register(t) \/ Forget(t) \/ Submit(t) \/ try_cancel_task(t)
         PROVE  MapType'
    <2>1. CASE Register(t)
      BY <1>1, <2>1 DEF MapType, ClientType, Register, statics, history, workers
    <2>2. CASE Forget(t)
      BY <1>1, <2>2 DEF MapType, ClientType, Forget, history, workers
    <2>3. CASE Submit(t)
      BY <1>1, <2>3 DEF MapType, Submit, maps, statics, history, workers
    <2>4. CASE try_cancel_task(t)
      BY <1>1, <2>4 DEF MapType, try_cancel_task, maps, workers
    <2> QED
      BY <1>10, <2>1, <2>2, <2>3, <2>4
  <1>11. ASSUME NEW t \in Tasks, Wake(t) \/ Join(t) \/ Drop(t) PROVE MapType'
    <2>1. home[t] \in Pools
      BY <1>1 DEF ClientType
    <2>2. results' \in [Pools -> SUBSET (Tasks \X Outcomes)] /\ waits' \in [Pools -> SUBSET Tasks]
      BY <1>1, <1>4, <1>5, <1>11, <2>1 DEF Wake, Join, Drop, MapType
    <2> QED
      BY <1>1, <1>11, <2>2 DEF MapType, Wake, Join, Drop, statics, history, workers
  <1> QED
    BY <1>6, <1>7, <1>8, <1>9, <1>10, <1>11 DEF Next, ThreadStep, ClientStep, ClientCall

\* Every step keeps the types of what the holders know.
LEMMA ClientTyped ==
  ASSUME Typed, Next
  PROVE  ClientType'
  <1>1. StackType /\ ClientType
    BY DEF Typed
  <1>2. ASSUME NEW w \in Workers, NEW p \in Pools, WorkerStep(w, p) PROVE ClientType'
    <2>1. ASSUME NEW t \in Tasks, JoinInside(w, p, t) PROVE ClientType'
      BY <1>1, <2>1 DEF ClientType, JoinInside, notify
    <2>2. ASSUME Notify(w, p) PROVE ClientType'
      BY <1>1, <2>2 DEF ClientType, Notify, notify
    <2>3. ASSUME Look(w, p) PROVE ClientType'
      BY <1>1, <2>3 DEF ClientType, Look
    <2>4. ASSUME UNCHANGED clients PROVE ClientType'
      BY <1>1, <2>4 DEF ClientType, clients
    <2> QED
      BY <1>2, <2>1, <2>2, <2>3, <2>4 DEF WorkerStep, TryRun, Recycle, Idle, Begin, Suspend,
         TaskEnd, Store, StorePanic, Spin, sigvtalrm
  <1>3. ASSUME NEW t \in Tasks, Submit(t) PROVE ClientType'
    <2>1. Ring[(index % Len(Ring)) + 1] \in Pools
      <3>1. Ring \in Seq(Pools) /\ Len(Ring) \in Nat /\ Len(Ring) > 0 /\ index \in Nat
        BY <1>1, PoolAssumption, SMT DEF ClientType
      <3>2. (index % Len(Ring)) + 1 \in 1 .. Len(Ring)
        BY <3>1, SMT
      <3> QED
        BY <3>1, <3>2, SMT
    <2>2. index + 1 \in Nat
      BY <1>1, SMT DEF ClientType
    <2> QED
      BY <1>1, <1>3, <2>1, <2>2 DEF ClientType, Submit
  <1>4. ASSUME NEW t \in Tasks,
               Register(t) \/ Wake(t) \/ Forget(t) \/ Join(t) \/ Drop(t) \/ try_cancel_task(t)
        PROVE  ClientType'
    BY <1>1, <1>4 DEF ClientType, Register, Wake, Forget, Join, Drop, try_cancel_task, notify, clients
  <1>5. ASSUME UNCHANGED clients PROVE ClientType'
    BY <1>1, <1>5 DEF ClientType, clients
  <1> QED
    BY <1>2, <1>3, <1>4, <1>5 DEF Next, ThreadStep, ClientStep, ClientCall, Schedule, PopReady,
       Return, sigvtalrm_ignored, do_stop_again, do_stop, stopping

\* Every step keeps the types.
LEMMA TypedNext == Typed /\ [Next]_vars => Typed'
  <1>1. ASSUME Typed, Next PROVE StackType'
    <2>1. ASSUME UNCHANGED frames PROVE StackType'
      BY <1>1, <2>1 DEF StackType, Typed
    <2> QED
      BY <1>1, <2>1, StackTyped DEF Next, ThreadStep, ClientStep, ClientCall, Schedule,
         Return, sigvtalrm_ignored, do_stop_again, do_stop, stopping, Register, Wake, Forget,
         Submit, Join, Drop, try_cancel_task, workers
  <1>2. ASSUME Typed, UNCHANGED vars PROVE Typed'
    BY <1>2 DEF Typed, ThreadType, CountType, StackType, MapType, ClientType, vars, threads,
       pools, workers, maps, statics, clients, history
  <1> QED
    BY <1>1, <1>2, ThreadTyped, CountTyped, MapTyped, ClientTyped DEF Typed

\* The pools are well typed: the counters running and pop_fail_times stay
\* within 0..MaxSize although try_grow raises and the listener lowers them on
\* whatever thread the worker ends (try_grow, CoroutineCreator), and each call
\* on a stack of try_run has a task, a pool and a step.
THEOREM PoolTyped == Spec => []TypeOK
  BY TypedInit, TypedNext, TypedIsTypeOK, PTL DEF Spec

-----------------------------------------------------------------------------
(* Which tasks are on the stacks.                                          *)

\* The steps of a call before the result of its task is stored.
Live == {"begin", "task", "spin", "look", "store"}
\* The task is on a stack.
Held(t) == InFrame(t, Steps)
\* The task is on a stack and has not ended.
Runs(t) == InFrame(t, Live)

\* A task is on one stack, once, and only the innermost call of a worker can be
\* anywhere else than in wait_task_result.
Unique ==
  \A v, w \in Workers : \A i \in DOMAIN frames[v], j \in DOMAIN frames[w] :
    frames[v][i].task = frames[w][j].task => v = w /\ i = j

\* Below the innermost call of a worker every task waits (wait_task_result).
Nested ==
  \A w \in Workers : \A i \in DOMAIN frames[w] : i # Depth(w) => frames[w][i].at = "look"

\* What is left below a cut was not innermost.
LEMMA CutRange ==
  ASSUME StackType, NEW w \in Workers, NEW n \in 0 .. Depth(w)
  PROVE  \A i \in 1 .. n : i \in DOMAIN frames[w] /\ (i # n => i # Depth(w))
  <1>1. Depth(w) \in Nat /\ DOMAIN frames[w] = 1 .. Depth(w)
    BY StackFacts
  <1> QED
    BY <1>1, SMT

\* Which tasks are on the stacks.
LEMMA HeldFacts ==
  ASSUME StackType
  PROVE  /\ \A w \in Workers : \A i \in DOMAIN frames[w] :
              /\ frames[w][i].at \in Steps /\ frames[w][i].task \in Tasks
              /\ frames[w][i].pool \in Pools
              /\ Held(frames[w][i].task)
              /\ frames[w][i].at \in Live => Runs(frames[w][i].task)
         /\ \A t : Runs(t) => Held(t)
  <1>1. \A w \in Workers : \A i \in DOMAIN frames[w] : frames[w][i] \in Frame
    BY StackFacts
  <1>2. \A w \in Workers : \A i \in DOMAIN frames[w] :
              /\ frames[w][i].at \in Steps /\ frames[w][i].task \in Tasks
              /\ frames[w][i].pool \in Pools
    BY <1>1, FrameFields
  <1> QED
    BY <1>2 DEF Held, Runs, InFrame, Live, Steps

\* A cut keeps the stacks disjoint and puts no task on one.
LEMMA CutsStacks ==
  ASSUME StackType, NEW w \in Workers, NEW n, NEW a, NEW g, Cuts(w, n, a, g)
  PROVE  /\ Unique => Unique'
         /\ Nested => Nested'
         /\ \A t \in Tasks : Held(t)' => Held(t)
  <1>1. /\ \A i \in 1 .. n : i \in DOMAIN frames[w] /\ (i # n => i # Depth(w))
        /\ DOMAIN frames'[w] = 1 .. n /\ Len(frames'[w]) = n
        /\ \A v \in Workers \ {w} : frames'[v] = frames[v]
        /\ \A i \in 1 .. n : /\ frames'[w][i].task = frames[w][i].task
                             /\ i # n => frames'[w][i].at = frames[w][i].at
    BY CutRange DEF Cuts
  <1>2. ASSUME NEW v \in Workers, NEW i \in DOMAIN frames'[v]
        PROVE  i \in DOMAIN frames[v] /\ frames'[v][i].task = frames[v][i].task
    <2>1. CASE v = w
      BY <1>1, <1>2, <2>1
    <2>2. CASE v # w
      BY <1>1, <1>2, <2>2
    <2> QED
      BY <2>1, <2>2
  <1>3. ASSUME Unique PROVE Unique'
    <2> SUFFICES ASSUME NEW u \in Workers, NEW v \in Workers,
                        NEW i \in DOMAIN frames'[u], NEW j \in DOMAIN frames'[v],
                        frames'[u][i].task = frames'[v][j].task
                 PROVE  u = v /\ i = j
      BY DEF Unique
    <2>1. /\ i \in DOMAIN frames[u] /\ frames'[u][i].task = frames[u][i].task
          /\ j \in DOMAIN frames[v] /\ frames'[v][j].task = frames[v][j].task
      BY <1>2
    <2>2. frames[u][i].task = frames[v][j].task
      BY <2>1
    <2> QED
      BY <1>3, <2>1, <2>2, SMT DEF Unique
  <1>4. ASSUME Nested PROVE Nested'
    <2> SUFFICES ASSUME NEW v \in Workers, NEW i \in DOMAIN frames'[v], i # Len(frames'[v])
                 PROVE  frames'[v][i].at = "look"
      BY DEF Nested, Depth
    <2>1. CASE v = w
      <3>1. i \in 1 .. n /\ i # n /\ i \in DOMAIN frames[w] /\ i # Depth(w)
        BY <1>1, <2>1
      <3> QED
        BY <1>1, <1>4, <2>1, <3>1 DEF Nested
    <2>2. CASE v # w
      <3>1. frames'[v] = frames[v]
        BY <1>1, <2>2
      <3> QED
        BY <1>4, <3>1 DEF Nested, Depth
    <2> QED
      BY <2>1, <2>2
  <1>5. ASSUME NEW t \in Tasks, Held(t)' PROVE Held(t)
    <2>1. PICK v \in Workers : \E i \in DOMAIN frames'[v] : frames'[v][i].task = t
      BY <1>5 DEF Held, InFrame
    <2> QED
      BY <1>2, <2>1, HeldFacts
  <1> QED
    BY <1>3, <1>4, <1>5

\* A task that is not the one of the call that moves runs as long as the call is there.
LEMMA CutsRuns ==
  ASSUME StackType, NEW w \in Workers, NEW n, NEW a, NEW g, Cuts(w, n, a, g),
         n \in DOMAIN frames[w] /\ a \in Live => frames[w][n].at \in Live
  PROVE  /\ \A t \in Tasks : Runs(t)' => Runs(t)
         /\ \A t \in Tasks :
              (\A i \in DOMAIN frames[w] :
                 frames[w][i].task = t /\ frames[w][i].at \in Live =>
                   i \in 1 .. n /\ (i = n => a \in Live))
              => (Runs(t) => Runs(t)')
  <1>1. /\ \A i \in 1 .. n : i \in DOMAIN frames[w]
        /\ DOMAIN frames'[w] = 1 .. n
        /\ \A v \in Workers \ {w} : frames'[v] = frames[v]
        /\ \A i \in 1 .. n : /\ frames'[w][i].task = frames[w][i].task
                             /\ frames'[w][i].at = IF i = n THEN a ELSE frames[w][i].at
    BY CutRange DEF Cuts
  <1>2. \A v \in Workers : \A i \in DOMAIN frames'[v] :
          /\ i \in DOMAIN frames[v] /\ frames'[v][i].task = frames[v][i].task
          /\ frames'[v][i].at \in Live => frames[v][i].at \in Live
    BY <1>1
  <1>3. \A t \in Tasks : Runs(t)' => Runs(t)
    BY <1>2 DEF Runs, InFrame
  <1>4. ASSUME NEW t \in Tasks,
               \A i \in DOMAIN frames[w] :
                 frames[w][i].task = t /\ frames[w][i].at \in Live =>
                   i \in 1 .. n /\ (i = n => a \in Live),
               Runs(t)
        PROVE  Runs(t)'
    <2>1. PICK v \in Workers : \E i \in DOMAIN frames[v] :
            frames[v][i].task = t /\ frames[v][i].at \in Live
      BY <1>4 DEF Runs, InFrame
    <2>2. PICK i \in DOMAIN frames[v] : frames[v][i].task = t /\ frames[v][i].at \in Live
      BY <2>1
    <2>3. i \in DOMAIN frames'[v] /\ frames'[v][i].task = t /\ frames'[v][i].at \in Live
      BY <1>1, <1>4, <2>2
    <2> QED
      BY <2>3 DEF Runs, InFrame
  <1> QED
    BY <1>3, <1>4

\* The task of a call that is over, or at its end, does not run.
LEMMA CutsEnd ==
  ASSUME StackType, Unique, NEW w \in Workers, NEW n, NEW a, NEW g, Cuts(w, n, a, g),
         NEW i \in DOMAIN frames[w], i \notin 1 .. n \/ (i = n /\ a \notin Live),
         NEW t, t = frames[w][i].task
  PROVE  ~Runs(t)'
  <1>1. /\ \A k \in 1 .. n : k \in DOMAIN frames[w]
        /\ DOMAIN frames'[w] = 1 .. n
        /\ \A v \in Workers \ {w} : frames'[v] = frames[v]
        /\ \A k \in 1 .. n : /\ frames'[w][k].task = frames[w][k].task
                             /\ frames'[w][k].at = IF k = n THEN a ELSE frames[w][k].at
    BY CutRange DEF Cuts
  <1>2. ASSUME NEW v \in Workers, NEW k \in DOMAIN frames'[v],
               frames'[v][k].task = t, frames'[v][k].at \in Live
        PROVE  FALSE
    <2>1. k \in DOMAIN frames[v] /\ frames[v][k].task = frames[w][i].task
      BY <1>1, <1>2
    <2>2. v = w /\ k = i
      BY <2>1 DEF Unique
    <2> QED
      BY <1>1, <1>2, <2>2
  <1> QED
    BY <1>2 DEF Runs, InFrame

\* A new call keeps the stacks disjoint when its task was on none.
LEMMA PushesStacks ==
  ASSUME StackType, NEW w \in Workers, NEW n, NEW a, NEW g, NEW p \in Pools, NEW t \in Tasks,
         Pushes(w, n, a, g, p, t), Depth(w) = n,
         n \in DOMAIN frames[w] => a = "look" /\ frames[w][n].at \in Live
  PROVE  /\ Unique /\ ~Held(t) => Unique'
         /\ Nested => Nested'
         /\ \A u \in Tasks : Held(u)' => Held(u) \/ u = t
         /\ \A u \in Tasks : Runs(u)' <=> Runs(u) \/ u = t
  <1>1. /\ DOMAIN frames[w] = 1 .. n
        /\ DOMAIN frames'[w] = (1 .. n) \cup {n + 1} /\ n + 1 \notin 1 .. n
        /\ Len(frames'[w]) = n + 1
        /\ \A v \in Workers \ {w} : frames'[v] = frames[v]
        /\ \A i \in 1 .. n : /\ frames'[w][i].task = frames[w][i].task
                             /\ frames'[w][i].at = IF i = n THEN a ELSE frames[w][i].at
    BY StackFacts DEF Pushes
  <1>2. frames'[w][n + 1].task = t /\ frames'[w][n + 1].at = "begin"
    <2>1. frames'[w][n + 1] = Call(p, t)
      BY DEF Pushes
    <2>2. Call(p, t).at = "begin" /\ Call(p, t).task = t
      BY FrameCall
    <2> QED
      BY <2>1, <2>2
  <1>3. \A v \in Workers : \A i \in DOMAIN frames'[v] :
          \/ /\ i \in DOMAIN frames[v] /\ frames'[v][i].task = frames[v][i].task
             /\ frames'[v][i].at \in Live <=> frames[v][i].at \in Live
          \/ v = w /\ i = n + 1
    BY <1>1 DEF Live
  <1>4. Unique /\ ~Held(t) => Unique'
    <2> SUFFICES ASSUME Unique, ~Held(t) PROVE Unique'
      OBVIOUS
    <2>1. \A v \in Workers : \A i \in DOMAIN frames[v] : frames[v][i].task # t
      BY HeldFacts
    <2> SUFFICES ASSUME NEW u \in Workers, NEW v \in Workers,
                        NEW i \in DOMAIN frames'[u], NEW j \in DOMAIN frames'[v],
                        frames'[u][i].task = frames'[v][j].task
                 PROVE  u = v /\ i = j
      BY DEF Unique
    <2>2. \/ i \in DOMAIN frames[u] /\ frames'[u][i].task = frames[u][i].task
          \/ u = w /\ i = n + 1 /\ frames'[u][i].task = t
      BY <1>2, <1>3
    <2>3. \/ j \in DOMAIN frames[v] /\ frames'[v][j].task = frames[v][j].task
          \/ v = w /\ j = n + 1 /\ frames'[v][j].task = t
      BY <1>2, <1>3
    <2>4. ASSUME i \in DOMAIN frames[u], frames'[u][i].task = frames[u][i].task,
                 j \in DOMAIN frames[v], frames'[v][j].task = frames[v][j].task
          PROVE  u = v /\ i = j
      <3>1. frames[u][i].task = frames[v][j].task
        BY <2>4
      <3> QED
        BY <2>4, <3>1, SMT DEF Unique
    <2> QED
      BY <2>1, <2>2, <2>3, <2>4
  <1>5. ASSUME Nested PROVE Nested'
    <2> SUFFICES ASSUME NEW v \in Workers, NEW i \in DOMAIN frames'[v], i # Len(frames'[v])
                 PROVE  frames'[v][i].at = "look"
      BY DEF Nested, Depth
    <2>1. CASE v = w
      <3>1. i \in 1 .. n /\ i \in DOMAIN frames[w] /\ (i # n => i # Depth(w))
        BY <1>1, <2>1
      <3> QED
        BY <1>1, <1>5, <2>1, <3>1 DEF Nested
    <2>2. CASE v # w
      <3>1. frames'[v] = frames[v]
        BY <1>1, <2>2
      <3> QED
        BY <1>5, <3>1 DEF Nested, Depth
    <2> QED
      BY <2>1, <2>2
  <1>6. \A u \in Tasks : Held(u)' => Held(u) \/ u = t
    BY <1>2, <1>3, HeldFacts DEF Held, InFrame
  <1>7. \A u \in Tasks : Runs(u)' => Runs(u) \/ u = t
    BY <1>2, <1>3 DEF Runs, InFrame
  <1>8. \A u \in Tasks : Runs(u) => Runs(u)'
    <2>1. \A v \in Workers : \A i \in DOMAIN frames[v] :
            /\ i \in DOMAIN frames'[v] /\ frames'[v][i].task = frames[v][i].task
            /\ frames'[v][i].at \in Live <=> frames[v][i].at \in Live
      BY <1>1 DEF Live
    <2> QED
      BY <2>1 DEF Runs, InFrame
  <1>9. Runs(t)'
    <2>1. n + 1 \in DOMAIN frames'[w] /\ frames'[w][n + 1].at \in Live
      BY <1>1, <1>2 DEF Live
    <2> QED
      BY <1>2, <2>1 DEF Runs, InFrame
  <1> QED
    BY <1>4, <1>5, <1>6, <1>7, <1>8, <1>9

\* What a step that starts no task does to the stacks.
Shrink ==
  /\ StackType' /\ Unique' /\ Nested'
  /\ \A t \in Tasks : (Held(t)' => Held(t)) /\ (Runs(t)' => Runs(t))

\* The innermost call, with its types.
LEMMA TopFacts ==
  ASSUME StackType, NEW w \in Workers, Depth(w) > 0
  PROVE  /\ Depth(w) \in DOMAIN frames[w] /\ Depth(w) \in 1 .. Depth(w)
         /\ DOMAIN frames[w] = 1 .. Depth(w)
         /\ Top(w) = frames[w][Depth(w)]
         /\ Top(w).task \in Tasks /\ Top(w).pool \in Pools
         /\ Held(Top(w).task)
         /\ Top(w).at \in Live => Runs(Top(w).task)
         /\ Top(w).at \in {"spin", "look"} => Top(w).target \in Tasks
  <1>1. /\ Depth(w) \in DOMAIN frames[w] /\ Depth(w) \in 1 .. Depth(w)
        /\ DOMAIN frames[w] = 1 .. Depth(w) /\ Top(w) = frames[w][Depth(w)]
    BY StackFacts DEF Top
  <1> QED
    BY <1>1, HeldFacts DEF StackType

\* A call that goes from one step to another ends its task, or keeps it running.
LEMMA GotoStack ==
  ASSUME StackType, Unique, Nested, NEW w \in Workers, Depth(w) > 0, Top(w).at \in Live,
         NEW a \in Steps, Goto(w, a), a \in {"spin", "look"} => Top(w).target \in Tasks
  PROVE  /\ Shrink
         /\ a \in Live => \A t \in Tasks : Runs(t)' <=> Runs(t)
         /\ a \notin Live => \A t \in Tasks : Runs(t)' <=> Runs(t) /\ t # Top(w).task
  <1> DEFINE n == Depth(w)
  <1>1. Cuts(w, n, a, Top(w).target)
    BY GotoCuts
  <1>2. StackType' /\ Unique' /\ Nested' /\ \A t \in Tasks : Held(t)' => Held(t)
    BY <1>1, CutsTyped, CutsStacks
  <1>3. n \in DOMAIN frames[w] /\ frames[w][n].at \in Live /\ DOMAIN frames[w] = 1 .. n
        /\ frames[w][n].task = Top(w).task /\ n \in 1 .. n
    BY TopFacts
  <1> HIDE DEF n
  <1>4. \A t \in Tasks : Runs(t)' => Runs(t)
    BY <1>1, <1>3, CutsRuns
  <1>5. ASSUME NEW t \in Tasks, a \in Live \/ t # Top(w).task, Runs(t) PROVE Runs(t)'
    <2>1. \A i \in DOMAIN frames[w] : frames[w][i].task = t /\ frames[w][i].at \in Live =>
                                        i \in 1 .. n /\ (i = n => a \in Live)
      BY <1>3, <1>5
    <2> QED
      BY <1>1, <1>3, <1>5, <2>1, CutsRuns
  <1>6. ASSUME NEW t \in Tasks, a \notin Live, t = Top(w).task PROVE ~Runs(t)'
    BY <1>1, <1>3, <1>6, CutsEnd
  <1> QED
    BY <1>2, <1>4, <1>5, <1>6 DEF Shrink

\* When try_run returns, its task is no longer on the stack and all others are
\* where they were.
LEMMA LeaveStack ==
  ASSUME StackType, Unique, Nested, NEW w \in Workers, Depth(w) > 0,
         \/ Leave(w)
         \/ Depth(w) > 1 /\ frames' = [frames EXCEPT ![w] =
              [SubSeq(@, 1, Depth(w) - 1) EXCEPT ![Depth(w) - 1].at = "task"]]
  PROVE  /\ Shrink
         /\ \A t \in Tasks : t # Top(w).task => (Runs(t)' <=> Runs(t))
         /\ \A t \in Tasks : t = Top(w).task => ~Runs(t)'
  <1> DEFINE n == Depth(w) - 1
  <1>1. PICK a, g : /\ Cuts(w, n, a, g)
                    /\ (a = frames[w][n].at /\ g = frames[w][n].target) \/ a = "task"
    BY LeaveCuts
  <1>2. /\ Depth(w) \in DOMAIN frames[w] /\ DOMAIN frames[w] = 1 .. Depth(w)
        /\ frames[w][Depth(w)].task = Top(w).task
    BY TopFacts
  <1>3. /\ Depth(w) \notin 1 .. n /\ n # Depth(w)
        /\ \A i \in 1 .. Depth(w) : i \in 1 .. n \/ i = Depth(w)
    BY StackFacts, SMT
  <1> HIDE DEF n
  <1>4. n \in DOMAIN frames[w] => frames[w][n].at = "look" /\ a \in Live
    BY <1>1, <1>3 DEF Nested, Live
  <1>5. StackType' /\ Unique' /\ Nested' /\ \A t \in Tasks : Held(t)' => Held(t)
    <2>1. n \in DOMAIN frames[w] /\ a \in {"spin", "look"} => g \in Tasks
      BY <1>1, <1>4 DEF StackType
    <2> QED
      BY <1>1, <2>1, CutsTyped, CutsStacks
  <1>6. \A t \in Tasks : Runs(t)' => Runs(t)
    BY <1>1, <1>4, CutsRuns DEF Live
  <1>7. ASSUME NEW t \in Tasks, t # Top(w).task, Runs(t) PROVE Runs(t)'
    <2>1. \A i \in DOMAIN frames[w] : frames[w][i].task = t /\ frames[w][i].at \in Live =>
                                        i \in 1 .. n /\ (i = n => a \in Live)
      BY <1>2, <1>3, <1>4, <1>7
    <2> QED
      BY <1>1, <1>4, <1>7, <2>1, CutsRuns DEF Live
  <1>8. ASSUME NEW t \in Tasks, t = Top(w).task PROVE ~Runs(t)'
    BY <1>1, <1>2, <1>3, <1>8, CutsEnd
  <1> QED
    BY <1>5, <1>6, <1>7, <1>8 DEF Shrink

\* A cancelled worker takes its tasks with it.
LEMMA ClearStack ==
  ASSUME StackType, Unique, Nested, NEW w \in Workers, frames' = [frames EXCEPT ![w] = <<>>]
  PROVE  Shrink
  <1>1. Cuts(w, 0, "notify", Outside)
    BY ClearCuts
  <1> QED
    BY <1>1, CutsTyped, CutsStacks, CutsRuns DEF Shrink, Live

\* Without a change of the stacks the same tasks run.
LEMMA SameStack ==
  ASSUME StackType, Unique, Nested, UNCHANGED frames
  PROVE  Shrink /\ \A t \in Tasks : Runs(t)' <=> Runs(t)
  <1>1. StackType'
    BY DEF StackType
  <1>2. Unique'
    <2> SUFFICES ASSUME NEW v \in Workers, NEW x \in Workers, NEW i \in DOMAIN frames'[v],
                        NEW j \in DOMAIN frames'[x], frames'[v][i].task = frames'[x][j].task
                 PROVE  v = x /\ i = j
      BY DEF Unique
    <2>1. frames' = frames
      OBVIOUS
    <2>2. /\ i \in DOMAIN frames[v] /\ j \in DOMAIN frames[x]
          /\ frames[v][i].task = frames[x][j].task
      BY <2>1, SMT
    <2> QED
      BY <2>2, SMT DEF Unique
  <1>3. Nested'
    BY DEF Nested, Depth
  <1>4. \A t \in Tasks : (Held(t)' <=> Held(t)) /\ (Runs(t)' <=> Runs(t))
    BY DEF Held, Runs, InFrame
  <1> QED
    BY <1>1, <1>2, <1>3, <1>4 DEF Shrink

\* A call at its end is the only one of its task.
LEMMA NotifyStack ==
  ASSUME StackType, Unique, NEW w \in Workers, At(w, "notify")
  PROVE  ~Runs(Top(w).task)
  <1>1. Depth(w) \in DOMAIN frames[w] /\ Top(w) = frames[w][Depth(w)] /\ Top(w).at = "notify"
    BY TopFacts DEF At
  <1>2. ASSUME NEW v \in Workers, NEW i \in DOMAIN frames[v],
               frames[v][i].task = Top(w).task, frames[v][i].at \in Live
        PROVE  FALSE
    <2>1. v = w /\ i = Depth(w)
      BY <1>1, <1>2, SMT DEF Unique
    <2> QED
      BY <1>1, <1>2, <2>1 DEF Live
  <1> QED
    BY <1>2 DEF Runs, InFrame

-----------------------------------------------------------------------------
(* The maps of the pools.                                                  *)

\* A pool has the task's own result.
Done(t) == \E p \in Pools : <<t, "done">> \in results[p]

\* results.insert gives the task this result and touches no other.
LEMMA InsertFacts ==
  ASSUME MapType, NEW q \in Pools, NEW t \in Tasks, NEW o \in Outcomes, Insert(q, t, o)
  PROVE  /\ \A p \in Pools, u \in Tasks, r \in Outcomes :
              <<u, r>> \in results'[p] <=> IF p = q /\ u = t THEN r = o ELSE <<u, r>> \in results[p]
         /\ \A p \in Pools, u \in Tasks : Has(p, u)' <=> Has(p, u) \/ (p = q /\ u = t)
         /\ \A u \in Tasks \ {t} : Done(u)' <=> Done(u)
  <1>1. results \in [Pools -> SUBSET (Tasks \X Outcomes)] /\ "done" \in Outcomes
    BY DEF MapType, Outcomes
  <1>2. \A u \in Tasks, r \in Outcomes :
          <<u, r>> \in Without(q, t) \cup {<<t, o>>} <=>
            IF u = t THEN r = o ELSE <<u, r>> \in results[q]
    BY <1>1, SMT DEF Without
  <1>3. /\ results'[q] = Without(q, t) \cup {<<t, o>>}
        /\ \A p \in Pools \ {q} : results'[p] = results[p]
    BY <1>1 DEF Insert
  <1>4. \A p \in Pools, u \in Tasks, r \in Outcomes :
          <<u, r>> \in results'[p] <=> IF p = q /\ u = t THEN r = o ELSE <<u, r>> \in results[p]
    BY <1>2, <1>3
  <1>5. \A p \in Pools, u \in Tasks : Has(p, u)' <=> Has(p, u) \/ (p = q /\ u = t)
    BY <1>4 DEF Has
  <1>6. \A u \in Tasks \ {t} : Done(u)' <=> Done(u)
    BY <1>1, <1>4 DEF Done
  <1> QED
    BY <1>4, <1>5, <1>6

\* results.remove takes the results of this task only.
LEMMA TakeFacts ==
  ASSUME MapType, NEW q \in Pools, NEW t \in Tasks, TakeResult(q, t)
  PROVE  /\ \A p \in Pools, u \in Tasks, r \in Outcomes :
              <<u, r>> \in results'[p] <=> <<u, r>> \in results[p] /\ ~(p = q /\ u = t)
         /\ \A p \in Pools, u \in Tasks : Has(p, u)' <=> Has(p, u) /\ ~(p = q /\ u = t)
         /\ \A u \in Tasks \ {t} : Done(u)' <=> Done(u)
         /\ Done(t)' => Done(t)
  <1>1. results \in [Pools -> SUBSET (Tasks \X Outcomes)] /\ "done" \in Outcomes
    BY DEF MapType, Outcomes
  <1>2. \A u \in Tasks, r \in Outcomes :
          <<u, r>> \in Without(q, t) <=> u # t /\ <<u, r>> \in results[q]
    BY <1>1, SMT DEF Without
  <1>3. /\ results'[q] = Without(q, t)
        /\ \A p \in Pools \ {q} : results'[p] = results[p]
    BY <1>1 DEF TakeResult
  <1>4. \A p \in Pools, u \in Tasks, r \in Outcomes :
          <<u, r>> \in results'[p] <=> <<u, r>> \in results[p] /\ ~(p = q /\ u = t)
    BY <1>2, <1>3
  <1>5. \A p \in Pools, u \in Tasks : Has(p, u)' <=> Has(p, u) /\ ~(p = q /\ u = t)
    BY <1>4 DEF Has
  <1>6. \A u \in Tasks : Done(u)' => Done(u)
    BY <1>1, <1>4 DEF Done
  <1>7. \A u \in Tasks \ {t} : Done(u) => Done(u)'
    BY <1>1, <1>4 DEF Done
  <1> QED
    BY <1>4, <1>5, <1>6, <1>7

\* notify wakes nobody but the holder of this task's handle.
LEMMA NotifyFacts ==
  ASSUME MapType, ClientType, NEW q \in Pools, NEW t \in Tasks, notify(q, t)
  PROVE  /\ \A p \in Pools, u \in Tasks : u \in waits'[p] => u \in waits[p]
         /\ \A u \in Tasks \ {t} : pending'[u] = pending[u]
         /\ pending'[t] = pending[t] \/ t \in waits[q]
  BY DEF notify, MapType, ClientType
=============================================================================
