------------------------- MODULE CoroutinePoolProofs ------------------------
(***************************************************************************)
(* What the coroutine pools guarantee, for every number of pools, workers  *)
(* and tasks: an assertion on a replaced result fails only after a pool    *)
(* has stopped, a waiter that is woken finds the result, and the pools     *)
(* implement TaskLife.                                                     *)
(*                                                                         *)
(* All three follow from PoolInv.  A task is in the queue, on one stack or *)
(* in neither, and has no result of its own before its end (TaskOK); a     *)
(* call that is about to wake the waiter has left a result that only the   *)
(* waiter can have taken (CallOK); whatever was cancelled was asked for    *)
(* (Asked); a result that is not the task's own comes from a pool that     *)
(* stopped (Own).  Each step is classified by what it does to the lives of *)
(* the tasks (AllSame, Starts, Discards, Ends, Takes, Fades, Queues), and  *)
(* each class is a step of TaskLife.                                       *)
(***************************************************************************)
EXTENDS CoroutinePoolTyping

USE ZenonT(30)

-----------------------------------------------------------------------------
(* The invariant of a task and of a call.                                  *)

\* A task in the queue is on no stack, and one that has not ended has no
\* result.  A task nobody submitted is nowhere.  Only a task whose handle was
\* dropped is in no_waits, and only the pool of the handle knows a waiter.  A
\* waiter that was woken finds the result.
TaskOK(t) ==
  /\ t \in queue => ~Held(t)
  /\ t \in queue \/ Runs(t) => ~Done(t)
  /\ client[t] \in {"new", "refused"} =>
       /\ t \notin queue /\ ~Held(t) /\ ~Done(t)
       /\ \A p \in Pools : t \notin waits[p]
  /\ \A p \in Pools : t \in no_waits[p] => client[t] = "dropped"
  /\ \A p \in Pools : t \in waits[p] => p = home[t]
  /\ client[t] = "wait" /\ ~pending[t] => Has(home[t], t)

\* Before a waiter is woken the result of the task is there, or was taken.  A
\* task that is waited for inside of a coroutine is waited for nowhere else.
CallOK(a, g, p, t) ==
  /\ a = "notify" => Has(p, t) \/ client[t] \in {"over", "dropped"}
  /\ a \in {"spin", "look"} => Joiner[g] # Outside /\ client[g] \in {"idle", "over"}

\* Every call on every stack is as CallOK says.
CallsOK ==
  \A w \in Workers : \A i \in DOMAIN frames[w] :
    CallOK(frames[w][i].at, frames[w][i].target, frames[w][i].pool, frames[w][i].task)

\* A step after which task u is no worse off.
Quiet(u) ==
  /\ u \in queue' => u \in queue
  /\ Held(u)' => Held(u)
  /\ Runs(u)' => Runs(u)
  /\ Done(u)' => Done(u)
  /\ client'[u] \in {"new", "refused"} => client[u] \in {"new", "refused"}
  /\ client[u] = "dropped" => client'[u] = "dropped"
  /\ home'[u] = home[u]
  /\ \A p \in Pools : u \in waits'[p] => u \in waits[p]
  /\ \A p \in Pools : u \in no_waits'[p] => u \in no_waits[p]
  /\ client'[u] = "wait" /\ ~pending'[u] =>
       client[u] = "wait" /\ ~pending[u] /\ (Has(home[u], u) => Has(home[u], u)')

\* Such a step keeps what holds of the task.
LEMMA QuietTask == ASSUME NEW u \in Tasks, TaskOK(u), Quiet(u) PROVE TaskOK(u)'
  <1>1. (u \in queue => ~Held(u))'
    BY DEF TaskOK, Quiet
  <1>2. (u \in queue \/ Runs(u) => ~Done(u))'
    BY DEF TaskOK, Quiet
  <1>3. (client[u] \in {"new", "refused"} =>
           /\ u \notin queue /\ ~Held(u) /\ ~Done(u)
           /\ \A p \in Pools : u \notin waits[p])'
    BY DEF TaskOK, Quiet
  <1>4. (\A p \in Pools : u \in no_waits[p] => client[u] = "dropped")'
    BY DEF TaskOK, Quiet
  <1>5. (\A p \in Pools : u \in waits[p] => p = home[u])'
    BY DEF TaskOK, Quiet
  <1>6. (client[u] = "wait" /\ ~pending[u] => Has(home[u], u))'
    BY DEF TaskOK, Quiet
  <1> QED
    BY <1>1, <1>2, <1>3, <1>4, <1>5, <1>6 DEF TaskOK

\* A step after which the other calls are no worse off.
Mild ==
  /\ \A p \in Pools, u \in Tasks : Has(p, u) => Has(p, u)' \/ client'[u] \in {"over", "dropped"}
  /\ \A u \in Tasks : client[u] \in {"over", "dropped"} => client'[u] \in {"over", "dropped"}
  /\ \A u \in Tasks : Joiner[u] # Outside /\ client[u] \in {"idle", "over"} =>
                        client'[u] \in {"idle", "over"}

\* ... and what holds of a call that stays where it is.
LEMMA MildCall ==
  ASSUME Mild, NEW a, NEW g, NEW p \in Pools, NEW t \in Tasks, CallOK(a, g, p, t),
         a \in {"spin", "look"} => g \in Tasks
  PROVE  CallOK(a, g, p, t)'
  BY DEF Mild, CallOK

\* The calls after a step, field by field.
LEMMA CallsNext ==
  ASSUME \A w \in Workers : \A i \in DOMAIN frames'[w] : \A a, g, p, t :
           /\ a = frames'[w][i].at /\ g = frames'[w][i].target
           /\ p = frames'[w][i].pool /\ t = frames'[w][i].task
           => CallOK(a, g, p, t)'
  PROVE  CallsOK'
  <1> SUFFICES ASSUME NEW w \in Workers, NEW i \in DOMAIN frames'[w]
               PROVE  CallOK(frames[w][i].at, frames[w][i].target, frames[w][i].pool,
                             frames[w][i].task)'
    BY DEF CallsOK
  <1>1. PICK a, g, p, t : /\ a = frames'[w][i].at /\ g = frames'[w][i].target
                          /\ p = frames'[w][i].pool /\ t = frames'[w][i].task
    OBVIOUS
  <1>2. CallOK(a, g, p, t)'
    BY <1>1
  <1> QED
    BY <1>1, <1>2 DEF CallOK

\* A call that a mild step leaves alone stays in order.
LEMMA MildOther ==
  ASSUME StackType, CallsOK, Mild, NEW w \in Workers, NEW i \in DOMAIN frames[w],
         NEW a, NEW g, NEW p, NEW t,
         a = frames[w][i].at, g = frames[w][i].target, p = frames[w][i].pool, t = frames[w][i].task
  PROVE  CallOK(a, g, p, t)'
  <1>1. p \in Pools /\ t \in Tasks /\ (a \in {"spin", "look"} => g \in Tasks)
    BY HeldFacts DEF StackType
  <1>2. CallOK(a, g, p, t)
    BY DEF CallsOK
  <1> QED
    BY <1>1, <1>2, MildCall

\* So do all calls when no stack changes.
LEMMA MildSame ==
  ASSUME StackType, CallsOK, Mild, UNCHANGED frames
  PROVE  CallsOK'
  <1>1. ASSUME NEW w \in Workers, NEW i \in DOMAIN frames'[w], NEW a, NEW g, NEW p, NEW t,
               a = frames'[w][i].at, g = frames'[w][i].target, p = frames'[w][i].pool,
               t = frames'[w][i].task
        PROVE  CallOK(a, g, p, t)'
    BY <1>1, MildOther
  <1> QED
    BY <1>1, CallsNext

\* On a cut stack only the call at the cut has to be looked at.
LEMMA MildCuts ==
  ASSUME StackType, CallsOK, Mild, NEW w \in Workers, NEW n, NEW a, NEW g, Cuts(w, n, a, g),
         n \in DOMAIN frames[w] => \A p, t :
           p = frames[w][n].pool /\ t = frames[w][n].task => CallOK(a, g, p, t)'
  PROVE  CallsOK'
  <1>1. /\ \A i \in 1 .. n : i \in DOMAIN frames[w]
        /\ DOMAIN frames'[w] = 1 .. n
        /\ \A v \in Workers \ {w} : frames'[v] = frames[v]
    BY CutRange DEF Cuts
  <1>2. ASSUME NEW v \in Workers, NEW i \in DOMAIN frames'[v], NEW b, NEW h, NEW p, NEW t,
               b = frames'[v][i].at, h = frames'[v][i].target, p = frames'[v][i].pool,
               t = frames'[v][i].task
        PROVE  CallOK(b, h, p, t)'
    <2>1. CASE v # w
      BY <1>1, <1>2, <2>1, MildOther
    <2>2. CASE v = w /\ i # n
      <3>1. /\ i \in DOMAIN frames[w] /\ b = frames[w][i].at /\ h = frames[w][i].target
            /\ p = frames[w][i].pool /\ t = frames[w][i].task
        BY <1>1, <1>2, <2>2 DEF Cuts
      <3> QED
        BY <3>1, MildOther
    <2>3. CASE v = w /\ i = n
      <3>1. /\ n \in DOMAIN frames[w] /\ b = a /\ h = g
            /\ p = frames[w][n].pool /\ t = frames[w][n].task
        BY <1>1, <1>2, <2>3 DEF Cuts
      <3> QED
        BY <3>1
    <2> QED
      BY <2>1, <2>2, <2>3
  <1> QED
    BY <1>2, CallsNext

\* So it is under a new call, about which nothing has to be known.
LEMMA MildPushes ==
  ASSUME StackType, CallsOK, Mild, NEW w \in Workers, NEW n, NEW a, NEW g,
         NEW q \in Pools, NEW u \in Tasks, Pushes(w, n, a, g, q, u),
         n \in DOMAIN frames[w] => \A p, t :
           p = frames[w][n].pool /\ t = frames[w][n].task => CallOK(a, g, p, t)'
  PROVE  CallsOK'
  <1>1. /\ \A i \in 1 .. n : i \in DOMAIN frames[w]
        /\ DOMAIN frames'[w] = (1 .. n) \cup {n + 1}
        /\ \A v \in Workers \ {w} : frames'[v] = frames[v]
    BY CutRange DEF Pushes
  <1>2. ASSUME NEW v \in Workers, NEW i \in DOMAIN frames'[v], NEW b, NEW h, NEW p, NEW t,
               b = frames'[v][i].at, h = frames'[v][i].target, p = frames'[v][i].pool,
               t = frames'[v][i].task
        PROVE  CallOK(b, h, p, t)'
    <2>1. CASE v # w
      BY <1>1, <1>2, <2>1, MildOther
    <2>2. CASE v = w /\ i \in 1 .. n /\ i # n
      <3>1. /\ i \in DOMAIN frames[w] /\ b = frames[w][i].at /\ h = frames[w][i].target
            /\ p = frames[w][i].pool /\ t = frames[w][i].task
        BY <1>1, <1>2, <2>2 DEF Pushes
      <3> QED
        BY <3>1, MildOther
    <2>3. CASE v = w /\ i \in 1 .. n /\ i = n
      <3>1. /\ n \in DOMAIN frames[w] /\ b = a /\ h = g
            /\ p = frames[w][n].pool /\ t = frames[w][n].task
        BY <1>1, <1>2, <2>3 DEF Pushes
      <3> QED
        BY <3>1
    <2>4. CASE v = w /\ i = n + 1
      <3>1. frames'[w][n + 1] = Call(q, u)
        BY DEF Pushes
      <3>2. Call(q, u).at = "begin"
        BY FrameCall
      <3>3. b = "begin"
        BY <1>2, <2>4, <3>1, <3>2
      <3> QED
        BY <3>3 DEF CallOK
    <2> QED
      BY <1>1, <2>1, <2>2, <2>3, <2>4
  <1> QED
    BY <1>2, CallsNext

-----------------------------------------------------------------------------
(* The inductive invariant.                                                *)

\* Some pool has stopped.
Stopped == \E p \in Pools : state[p] = "Stopped"

\* Whatever is cancelled was asked for.
Asked ==
  /\ CANCEL_TASKS \subseteq asked
  /\ CANCEL_COROUTINES # {} \/ signals # {} => asked # {}

\* Only a pool that stops gives a result that is not the task's own.
Own == Stopped \/ (~panicked /\ \A p \in Pools, t \in Tasks : <<t, "stopped">> \notin results[p])

\* The inductive invariant of the pools.
PoolInv ==
  /\ Typed /\ Unique /\ Nested /\ CallsOK
  /\ \A t \in Tasks : TaskOK(t)
  /\ Asked /\ Own

\* It holds of new pools.
LEMMA PoolInit == Init => PoolInv
  <1> SUFFICES ASSUME Init PROVE PoolInv
    OBVIOUS
  <1>1. \A w \in Workers : DOMAIN frames[w] = {}
    <2>1. DOMAIN <<>> = {}
      BY SMT
    <2> QED
      BY <2>1 DEF Init
  <1>2. Unique /\ Nested /\ CallsOK /\ \A t \in Tasks : ~Held(t) /\ ~Runs(t)
    BY <1>1 DEF Unique, Nested, CallsOK, Held, Runs, InFrame
  <1>3. \A t \in Tasks : TaskOK(t)
    BY <1>2 DEF Init, TaskOK, Done
  <1>4. Asked /\ Own
    BY DEF Init, Asked, Own
  <1> QED
    BY <1>2, <1>3, <1>4, TypedInit DEF PoolInv

\* A step that leaves results, waiters and handles alone.
LEMMA QuietAll ==
  ASSUME \A u \in Tasks : TaskOK(u) /\ (Held(u)' => Held(u)) /\ (Runs(u)' => Runs(u)),
         queue' \subseteq queue, UNCHANGED <<results, waits, client, home, pending>>,
         \A u \in Tasks, p \in Pools : u \in no_waits'[p] => u \in no_waits[p]
  PROVE  /\ \A u \in Tasks : TaskOK(u)' /\ (Done(u)' <=> Done(u))
         /\ Mild
  <1>1. ASSUME NEW u \in Tasks PROVE Done(u)' <=> Done(u)
    BY DEF Done
  <1>2. ASSUME NEW u \in Tasks PROVE Quiet(u)
    BY <1>1 DEF Quiet, Has
  <1>3. Mild
    BY DEF Mild, Has
  <1> QED
    BY <1>1, <1>2, <1>3, QuietTask

\* A task that starts leaves the queue.
LEMMA QuietStart ==
  ASSUME NEW t \in Tasks, t \in queue, queue' = queue \ {t},
         UNCHANGED <<results, waits, no_waits, client, home, pending>>,
         \A u \in Tasks : TaskOK(u) /\ (Held(u)' => Held(u) \/ u = t) /\ (Runs(u)' => Runs(u) \/ u = t)
  PROVE  /\ \A u \in Tasks : TaskOK(u)' /\ (Done(u)' <=> Done(u))
         /\ Mild
  <1>1. ASSUME NEW u \in Tasks PROVE Done(u)' <=> Done(u)
    BY DEF Done
  <1>2. ASSUME NEW u \in Tasks \ {t} PROVE Quiet(u)
    BY <1>1 DEF Quiet, Has
  <1>3. TaskOK(t)'
    BY <1>1 DEF TaskOK, Has
  <1>4. Mild
    BY DEF Mild, Has
  <1> QED
    BY <1>1, <1>2, <1>3, <1>4, QuietTask

\* A result is stored: the task no longer runs.
LEMMA QuietStore ==
  ASSUME MapType, NEW t \in Tasks, NEW q \in Pools, Insert(q, t, "done"),
         UNCHANGED <<queue, waits, no_waits, client, home, pending>>,
         Held(t), ~Runs(t)', home \in [Tasks -> Pools],
         \A u \in Tasks : TaskOK(u) /\ (Held(u)' => Held(u)) /\ (Runs(u)' => Runs(u))
  PROVE  /\ \A u \in Tasks : TaskOK(u)'
         /\ \A u \in Tasks \ {t} : Done(u)' <=> Done(u)
         /\ Done(t)' /\ Has(q, t)' /\ Mild
  <1>0. "done" \in Outcomes
    BY DEF Outcomes
  <1>1. /\ \A p \in Pools, u \in Tasks : Has(p, u)' <=> Has(p, u) \/ (p = q /\ u = t)
        /\ \A u \in Tasks \ {t} : Done(u)' <=> Done(u)
        /\ <<t, "done">> \in results'[q]
    BY <1>0, InsertFacts
  <1>2. ASSUME NEW u \in Tasks \ {t} PROVE Quiet(u)
    <2>1. home[u] \in Pools /\ (Has(home[u], u)' <=> Has(home[u], u))
      BY <1>1
    <2> QED
      BY <1>1, <2>1 DEF Quiet
  <1>3. TaskOK(t)'
    <2>1. home[t] \in Pools /\ (Has(home[t], t) => Has(home[t], t)')
      BY <1>1
    <2>2. t \notin queue /\ client[t] \notin {"new", "refused"} /\ TaskOK(t)
      BY DEF TaskOK
    <2> QED
      BY <2>1, <2>2 DEF TaskOK
  <1>4. Mild
    BY <1>1 DEF Mild
  <1>5. Done(t)' /\ Has(q, t)'
    BY <1>1 DEF Done
  <1> QED
    BY <1>1, <1>2, <1>3, <1>4, <1>5, QuietTask

\* A result is taken by the holder of the handle.
LEMMA QuietTake ==
  ASSUME MapType, ClientType, NEW t \in Tasks, TakeResult(home[t], t),
         NEW k \in {"over", "dropped"}, client' = [client EXCEPT ![t] = k],
         k = "over" \/ Joiner[t] = Outside, client[t] \in {"idle", "wait", "over"},
         UNCHANGED <<queue, no_waits, home>>,
         \A u \in Tasks : TaskOK(u) /\ (Held(u)' => Held(u)) /\ (Runs(u)' => Runs(u)),
         \A u \in Tasks, p \in Pools : u \in waits'[p] => u \in waits[p],
         \A u \in Tasks \ {t} : pending'[u] = pending[u]
  PROVE  /\ \A u \in Tasks : TaskOK(u)'
         /\ \A u \in Tasks \ {t} : Done(u)' <=> Done(u)
         /\ Done(t)' => Done(t)
         /\ Mild
  <1>0. home[t] \in Pools
    BY DEF ClientType
  <1>1. /\ \A p \in Pools, u \in Tasks : Has(p, u)' <=> Has(p, u) /\ ~(p = home[t] /\ u = t)
        /\ \A u \in Tasks \ {t} : Done(u)' <=> Done(u)
        /\ Done(t)' => Done(t)
    BY <1>0, TakeFacts
  <1>2. client'[t] = k /\ \A u \in Tasks \ {t} : client'[u] = client[u]
    BY DEF ClientType
  <1>3. ASSUME NEW u \in Tasks \ {t} PROVE Quiet(u)
    <2>1. home[u] \in Pools /\ (Has(home[u], u)' <=> Has(home[u], u))
      BY <1>1 DEF ClientType
    <2> QED
      BY <1>1, <1>2, <2>1 DEF Quiet
  <1>4. Quiet(t)
    BY <1>1, <1>2 DEF Quiet
  <1>5. Mild
    BY <1>1, <1>2 DEF Mild
  <1> QED
    BY <1>1, <1>3, <1>4, <1>5, QuietTask

\* The holder goes on without a result.
LEMMA QuietClient ==
  ASSUME ClientType, NEW t \in Tasks, NEW k \in {"register", "idle", "forget"},
         client' = [client EXCEPT ![t] = k],
         client[t] = "wait" \/ (client[t] = "idle" /\ Joiner[t] = Outside),
         UNCHANGED <<queue, results, waits, no_waits, home, pending>>,
         \A u \in Tasks : TaskOK(u) /\ (Held(u)' => Held(u)) /\ (Runs(u)' => Runs(u))
  PROVE  /\ \A u \in Tasks : TaskOK(u)' /\ (Done(u)' <=> Done(u))
         /\ Mild
  <1>1. ASSUME NEW u \in Tasks PROVE Done(u)' <=> Done(u)
    BY DEF Done
  <1>2. client'[t] = k /\ \A u \in Tasks \ {t} : client'[u] = client[u]
    BY DEF ClientType
  <1>3. ASSUME NEW u \in Tasks PROVE Quiet(u)
    BY <1>1, <1>2 DEF Quiet, Has
  <1>4. Mild
    BY <1>2 DEF Mild, Has
  <1> QED
    BY <1>1, <1>3, <1>4, QuietTask

\* A pool that stops replaces a result.
LEMMA QuietStop ==
  ASSUME MapType, ClientType, NEW t \in Tasks, NEW q \in Pools, Insert(q, t, "stopped"),
         UNCHANGED <<queue, waits, no_waits, client, home, pending>>,
         \A u \in Tasks : TaskOK(u) /\ (Held(u)' => Held(u)) /\ (Runs(u)' => Runs(u))
  PROVE  /\ \A u \in Tasks : TaskOK(u)'
         /\ \A u \in Tasks \ {t} : Done(u)' <=> Done(u)
         /\ Done(t)' => Done(t)
         /\ Mild
  <1>0. "stopped" \in Outcomes /\ "done" \in Outcomes /\ "done" # "stopped"
    BY DEF Outcomes
  <1>1. /\ \A p \in Pools, u \in Tasks : Has(p, u)' <=> Has(p, u) \/ (p = q /\ u = t)
        /\ \A u \in Tasks \ {t} : Done(u)' <=> Done(u)
    <2>1. \A p \in Pools, u \in Tasks : Has(p, u)' <=> Has(p, u) \/ (p = q /\ u = t)
      BY <1>0, InsertFacts
    <2>2. \A u \in Tasks \ {t} : Done(u)' <=> Done(u)
      BY <1>0, InsertFacts
    <2> QED
      BY <2>1, <2>2
  <1>2. Done(t)' => Done(t)
    <2>1. \A p \in Pools : <<t, "done">> \in results'[p] => <<t, "done">> \in results[p]
      BY <1>0, InsertFacts
    <2> QED
      BY <2>1 DEF Done
  <1>3. ASSUME NEW u \in Tasks PROVE Quiet(u)
    <2>1. home[u] \in Pools /\ (Has(home[u], u) => Has(home[u], u)')
      BY <1>1 DEF ClientType
    <2> QED
      BY <1>1, <1>2, <2>1 DEF Quiet
  <1>4. Mild
    BY <1>1 DEF Mild
  <1> QED
    BY <1>1, <1>2, <1>3, <1>4, QuietTask

-----------------------------------------------------------------------------
(* The steps of a worker.                                                  *)

\* The part of it that is about tasks and calls, with the types.
Base == Typed /\ Unique /\ Nested /\ CallsOK /\ \A t \in Tasks : TaskOK(t)

\* The parts of the invariant that are about tasks and calls.
Good == StackType /\ Unique /\ Nested /\ CallsOK /\ \A t \in Tasks : TaskOK(t)

\* The life of task u is as before.
Same(u) ==
  /\ Runs(u)' <=> Runs(u)
  /\ Done(u)' <=> Done(u)
  /\ u \in queue' <=> u \in queue
  /\ client'[u] \in {"new", "refused"} <=> client[u] \in {"new", "refused"}

\* What the steps below need of it.
LEMMA BaseFacts ==
  ASSUME Base
  PROVE  /\ StackType /\ MapType /\ ClientType /\ ThreadType /\ Unique /\ Nested /\ CallsOK
         /\ \A t \in Tasks : TaskOK(t) /\ home[t] \in Pools
         /\ queue \subseteq Tasks /\ home \in [Tasks -> Pools]
  BY DEF Base, Typed, MapType, ClientType

\* A step after which the stacks and maps are as they were.
LEMMA SameStep ==
  ASSUME Base, UNCHANGED <<queue, frames, results, waits, no_waits, client, home, pending>>
  PROVE  Good' /\ \A u \in Tasks : Same(u)
  <1>1. Shrink /\ \A t \in Tasks : Runs(t)' <=> Runs(t)
    BY BaseFacts, SameStack
  <1>2. /\ \A u \in Tasks : TaskOK(u)' /\ (Done(u)' <=> Done(u))
        /\ Mild
    BY <1>1, BaseFacts, QuietAll DEF Shrink
  <1>3. CallsOK'
    BY <1>2, BaseFacts, MildSame
  <1> QED
    BY <1>1, <1>2, <1>3 DEF Good, Shrink, Same

\* A call goes from one step to the next, or is over.
LEMMA GotoStep ==
  ASSUME Base, NEW w \in Workers, Depth(w) > 0, Top(w).at \in Live, NEW a \in {"task", "spin", "store"},
         Goto(w, a), a = "spin" => Top(w).at = "look",
         UNCHANGED <<queue, results, waits, no_waits, client, home, pending>>
  PROVE  Good' /\ \A u \in Tasks : Same(u)
  <1>0. a \in Steps /\ a \in Live /\ (a \in {"spin", "look"} => Top(w).target \in Tasks)
    BY BaseFacts, TopFacts DEF Steps, Live
  <1>1. Shrink /\ \A t \in Tasks : Runs(t)' <=> Runs(t)
    BY <1>0, BaseFacts, GotoStack
  <1>2. /\ \A u \in Tasks : TaskOK(u)' /\ (Done(u)' <=> Done(u))
        /\ Mild
    BY <1>1, BaseFacts, QuietAll DEF Shrink
  <1>3. Cuts(w, Depth(w), a, Top(w).target)
    BY <1>0, BaseFacts, GotoCuts
  <1>4. ASSUME NEW g, g = Top(w).target, NEW p, NEW t PROVE CallOK(a, g, p, t)'
    <2>1. a = "spin" => CallOK(Top(w).at, g, Top(w).pool, Top(w).task)
      BY <1>4, BaseFacts, TopFacts DEF CallsOK
    <2> QED
      BY <2>1 DEF CallOK
  <1>5. CallsOK'
    BY <1>2, <1>3, <1>4, BaseFacts, MildCuts
  <1> QED
    BY <1>1, <1>2, <1>5 DEF Good, Shrink, Same

\* A worker ends, with the tasks on its stack.
LEMMA ClearStep ==
  ASSUME Base, NEW w \in Workers, frames' = [frames EXCEPT ![w] = <<>>],
         UNCHANGED <<queue, results, waits, no_waits, client, home, pending>>
  PROVE  Good' /\ \A u \in Tasks : (Runs(u)' => Runs(u)) /\ (Done(u)' <=> Done(u))
  <1>1. Shrink
    BY BaseFacts, ClearStack
  <1>2. /\ \A u \in Tasks : TaskOK(u)' /\ (Done(u)' <=> Done(u))
        /\ Mild
    BY <1>1, BaseFacts, QuietAll DEF Shrink
  <1>3. Cuts(w, 0, "begin", Outside)
    BY BaseFacts, ClearCuts
  <1>4. \A p, t : CallOK("begin", Outside, p, t)'
    BY DEF CallOK
  <1>5. CallsOK'
    BY <1>2, <1>3, <1>4, BaseFacts, MildCuts
  <1> QED
    BY <1>1, <1>2, <1>5 DEF Good, Shrink

\* The stack below a call of try_run: empty, or a task that waits.
Below(w, a, g) ==
  Depth(w) \in DOMAIN frames[w] => a = "look" /\ Top(w).at = "spin" /\ g = Top(w).target

\* What is below a call of try_run keeps waiting for a task that only it
\* waits for.
LEMMA BelowFacts ==
  ASSUME Base, NEW w \in Workers, NEW a, NEW g, Below(w, a, g), Mild
  PROVE  /\ Depth(w) \in DOMAIN frames[w] => /\ a \in Live /\ frames[w][Depth(w)].at \in Live
                                             /\ a = "look" /\ g \in Tasks
         /\ Depth(w) \in DOMAIN frames[w] => \A p, t : CallOK(a, g, p, t)'
         /\ DOMAIN frames[w] = 1 .. Depth(w)
  <1>1. DOMAIN frames[w] = 1 .. Depth(w) /\ Top(w) = frames[w][Depth(w)]
    BY BaseFacts, StackFacts DEF Top
  <1>2. ASSUME Depth(w) \in DOMAIN frames[w]
        PROVE  /\ a \in Live /\ frames[w][Depth(w)].at \in Live /\ a = "look" /\ g \in Tasks
               /\ Joiner[g] # Outside /\ client[g] \in {"idle", "over"}
    <2>1. CallOK(Top(w).at, g, Top(w).pool, Top(w).task)
      BY <1>1, <1>2, BaseFacts DEF CallsOK, Below
    <2> QED
      BY <1>1, <1>2, <2>1, BaseFacts DEF Below, CallOK, Live, StackType
  <1>3. ASSUME Depth(w) \in DOMAIN frames[w], NEW p, NEW t PROVE CallOK(a, g, p, t)'
    BY <1>2, <1>3 DEF CallOK, Mild
  <1> QED
    BY <1>1, <1>2, <1>3

\* try_run takes a task from the queue that was cancelled...
LEMMA DiscardStep ==
  ASSUME Base, NEW w \in Workers, NEW a, NEW g, Below(w, a, g), Cuts(w, Depth(w), a, g),
         queue' \subseteq queue, UNCHANGED <<results, waits, no_waits, client, home, pending>>
  PROVE  Good' /\ \A u \in Tasks : (Runs(u)' <=> Runs(u)) /\ (Done(u)' <=> Done(u))
  <1>1. Mild
    BY DEF Mild, Has
  <1>2. /\ Depth(w) \in DOMAIN frames[w] => /\ a \in Live /\ frames[w][Depth(w)].at \in Live
                                            /\ a = "look" /\ g \in Tasks
        /\ Depth(w) \in DOMAIN frames[w] => \A p, t : CallOK(a, g, p, t)'
        /\ DOMAIN frames[w] = 1 .. Depth(w)
    BY <1>1, BelowFacts
  <1>3. StackType' /\ Unique' /\ Nested' /\ \A t \in Tasks : Held(t)' => Held(t)
    BY <1>2, BaseFacts, CutsTyped, CutsStacks
  <1>4. \A t \in Tasks : Runs(t)' => Runs(t)
    BY <1>2, BaseFacts, CutsRuns
  <1>5. ASSUME NEW t \in Tasks PROVE Runs(t) => Runs(t)'
    <2>1. \A i \in DOMAIN frames[w] : frames[w][i].task = t /\ frames[w][i].at \in Live =>
                                        i \in 1 .. Depth(w) /\ (i = Depth(w) => a \in Live)
      BY <1>2
    <2> QED
      BY <1>2, <2>1, BaseFacts, CutsRuns
  <1>6. \A u \in Tasks : TaskOK(u)' /\ (Done(u)' <=> Done(u))
    BY <1>3, <1>4, BaseFacts, QuietAll
  <1>7. CallsOK'
    BY <1>1, <1>2, BaseFacts, MildCuts
  <1> QED
    BY <1>3, <1>4, <1>5, <1>6, <1>7 DEF Good

\* ... or one that starts.
LEMMA StartStep ==
  ASSUME Base, NEW w \in Workers, NEW a, NEW g, Below(w, a, g), NEW p \in Pools, NEW t \in Tasks,
         Pushes(w, Depth(w), a, g, p, t), t \in queue, queue' = queue \ {t},
         UNCHANGED <<results, waits, no_waits, client, home, pending>>
  PROVE  Good' /\ \A u \in Tasks : (Runs(u)' <=> Runs(u) \/ u = t) /\ (Done(u)' <=> Done(u))
  <1>1. Mild
    BY DEF Mild, Has
  <1>2. /\ Depth(w) \in DOMAIN frames[w] => /\ a \in Live /\ frames[w][Depth(w)].at \in Live
                                            /\ a = "look" /\ g \in Tasks
        /\ Depth(w) \in DOMAIN frames[w] => \A q, u : CallOK(a, g, q, u)'
    BY <1>1, BelowFacts
  <1>3. ~Held(t)
    BY BaseFacts DEF TaskOK
  <1>4. /\ StackType' /\ Unique' /\ Nested'
        /\ \A u \in Tasks : Held(u)' => Held(u) \/ u = t
        /\ \A u \in Tasks : Runs(u)' <=> Runs(u) \/ u = t
    <2>1. StackType'
      BY <1>2, BaseFacts, PushesTyped
    <2>2. PICK n : n = Depth(w)
      OBVIOUS
    <2>3. /\ StackType /\ Unique /\ Nested /\ Pushes(w, n, a, g, p, t) /\ Depth(w) = n
          /\ n \in DOMAIN frames[w] => a = "look" /\ frames[w][n].at \in Live
      BY <1>2, <2>2, BaseFacts
    <2>4. Unique' /\ Nested'
      BY <1>3, <2>3, PushesStacks
    <2>5. \A u \in Tasks : Held(u)' => Held(u) \/ u = t
      BY <2>3, PushesStacks
    <2>6. \A u \in Tasks : Runs(u)' <=> Runs(u) \/ u = t
      BY <2>3, PushesStacks
    <2> QED
      BY <2>1, <2>4, <2>5, <2>6
  <1>5. \A u \in Tasks : TaskOK(u)' /\ (Done(u)' <=> Done(u))
    BY <1>4, BaseFacts, QuietStart
  <1>6. CallsOK'
    BY <1>1, <1>2, BaseFacts, MildPushes
  <1> QED
    BY <1>4, <1>5, <1>6 DEF Good

\* A call ends.
LEMMA LeaveStep ==
  ASSUME Base, NEW w \in Workers, Depth(w) > 0, Mild,
         \/ Leave(w)
         \/ Depth(w) > 1 /\ frames' = [frames EXCEPT ![w] =
              [SubSeq(@, 1, Depth(w) - 1) EXCEPT ![Depth(w) - 1].at = "task"]]
  PROVE  CallsOK'
  <1> DEFINE n == Depth(w) - 1
  <1>1. PICK a, g : /\ Cuts(w, n, a, g)
                    /\ (a = frames[w][n].at /\ g = frames[w][n].target) \/ a = "task"
    BY BaseFacts, LeaveCuts
  <1>2. ASSUME n \in DOMAIN frames[w], NEW p, NEW t, p = frames[w][n].pool, t = frames[w][n].task
        PROVE  CallOK(a, g, p, t)'
    <2>1. CASE a = "task"
      BY <2>1 DEF CallOK
    <2>2. CASE a = frames[w][n].at /\ g = frames[w][n].target
      BY <1>2, <2>2, BaseFacts, MildOther
    <2> QED
      BY <1>1, <2>1, <2>2
  <1> QED
    BY <1>1, <1>2, BaseFacts, MildCuts

\* What a step may do to the lives of the tasks: nothing,...
AllSame == \A u \in Tasks : Same(u)

\* ... start a task,...
Starts(t) ==
  /\ t \in queue /\ queue' = queue \ {t} /\ UNCHANGED client
  /\ \A u \in Tasks : (Runs(u)' <=> Runs(u) \/ u = t) /\ (Done(u)' <=> Done(u))

\* ... discard one that was cancelled,...
Discards(t) ==
  /\ t \in queue /\ t \in CANCEL_TASKS /\ queue' = queue \ {t} /\ UNCHANGED client
  /\ \A u \in Tasks : (Runs(u)' <=> Runs(u)) /\ (Done(u)' <=> Done(u))

\* ... end one,...
Ends(t) ==
  /\ Runs(t) /\ ~Runs(t)' /\ Done(t)' /\ UNCHANGED <<queue, client>>
  /\ \A u \in Tasks \ {t} : (Runs(u)' <=> Runs(u)) /\ (Done(u)' <=> Done(u))

\* ... take its result,...
Takes(t) ==
  /\ Done(t)' => Done(t)
  /\ UNCHANGED queue
  /\ client[t] \notin {"new", "refused"} /\ client'[t] \notin {"new", "refused"}
  /\ \A u \in Tasks : Runs(u)' <=> Runs(u)
  /\ \A u \in Tasks \ {t} : client'[u] = client[u] /\ (Done(u)' <=> Done(u))

\* ... or lose some that run.
Fades ==
  /\ UNCHANGED <<queue, client>>
  /\ \A u \in Tasks : /\ Done(u)' <=> Done(u)
                      /\ Runs(u)' => Runs(u)
                      /\ Runs(u) /\ ~Runs(u)' => asked # {} \/ client[u] \in {"forget", "dropped"}

\* try_run on an empty stack starts a task of the queue or discards a
\* cancelled one.
LEMMA TryRunStep ==
  ASSUME Base, NEW w \in Workers, NEW p \in Pools, NEW t \in Tasks, TryRun(w, p, t)
  PROVE  Good' /\ (Starts(t) \/ Discards(t))
  <1>1. /\ Depth(w) = 0 /\ t \in queue /\ Start(w, p, t, <<>>) /\ queue' = queue \ {t}
        /\ UNCHANGED <<results, waits, no_waits, client, home, pending>>
    BY DEF TryRun, Start, maps, clients
  <1>2. Below(w, "look", Outside) /\ Cut(w, 0, "look", Outside, <<>>)
    <2>1. DOMAIN frames[w] = 1 .. Depth(w)
      BY BaseFacts, StackFacts
    <2>2. 0 \notin 1 .. 0
      BY SMT
    <2> QED
      BY <1>1, <2>1, <2>2, BaseFacts, StackClear DEF Below
  <1>3. IF t \in CANCEL_TASKS THEN Cuts(w, Depth(w), "look", Outside)
                              ELSE Pushes(w, Depth(w), "look", Outside, p, t)
    BY <1>1, <1>2, BaseFacts, StartCuts
  <1>4. CASE t \in CANCEL_TASKS
    BY <1>1, <1>2, <1>3, <1>4, DiscardStep DEF Discards
  <1>5. CASE t \notin CANCEL_TASKS
    BY <1>1, <1>2, <1>3, <1>5, StartStep DEF Starts
  <1> QED
    BY <1>4, <1>5

\* So does try_run inside of a task that waits, when there is a task.
LEMMA SpinStep ==
  ASSUME Base, NEW w \in Workers, NEW p \in Pools, Spin(w, p)
  PROVE  Good' /\ (AllSame \/ \E t \in Tasks : Starts(t) \/ Discards(t))
  <1>1. /\ Depth(w) > 0 /\ Top(w).at = "spin" /\ Top(w).target \in Tasks
        /\ UNCHANGED <<results, waits, no_waits, client, home, pending>>
    BY BaseFacts, TopFacts DEF Spin, At, maps, clients
  <1>2. PICK g \in Tasks : g = Top(w).target
    BY <1>1
  <1>3. Below(w, "look", g) /\ home[g] \in Pools
    BY <1>1, <1>2, BaseFacts DEF Below
  <1>4. \/ Cuts(w, Depth(w), "look", g) /\ UNCHANGED <<queue, CANCEL_TASKS>>
        \/ \E t \in queue : /\ t \in CANCEL_TASKS /\ queue' = queue \ {t}
                            /\ CANCEL_TASKS' = CANCEL_TASKS \ {t}
                            /\ Cuts(w, Depth(w), "look", g)
        \/ \E t \in queue : /\ t \notin CANCEL_TASKS /\ queue' = queue \ {t}
                            /\ UNCHANGED CANCEL_TASKS
                            /\ Pushes(w, Depth(w), "look", g, home[g], t)
    BY <1>2, BaseFacts, SpinCuts
  <1>5. CASE Cuts(w, Depth(w), "look", g) /\ UNCHANGED <<queue, CANCEL_TASKS>>
    BY <1>1, <1>3, <1>5, DiscardStep DEF AllSame, Same
  <1>6. ASSUME NEW t \in queue, t \in CANCEL_TASKS, queue' = queue \ {t},
               Cuts(w, Depth(w), "look", g)
        PROVE  Good' /\ Discards(t) /\ t \in Tasks
    BY <1>1, <1>3, <1>6, BaseFacts, DiscardStep DEF Discards
  <1>7. ASSUME NEW t \in queue, queue' = queue \ {t}, Pushes(w, Depth(w), "look", g, home[g], t)
        PROVE  Good' /\ Starts(t) /\ t \in Tasks
    BY <1>1, <1>3, <1>7, BaseFacts, StartStep DEF Starts
  <1> QED
    BY <1>4, <1>5, <1>6, <1>7

\* A task that ends goes on to store its result, unless its handle is gone:
\* the task then disappears.
LEMMA TaskEndStep ==
  ASSUME Base, NEW w \in Workers, NEW p \in Pools, TaskEnd(w, p)
  PROVE  Good' /\ (AllSame \/ Fades)
  <1>1. /\ Depth(w) > 0 /\ Top(w).at = "task" /\ Top(w).at \in Live
        /\ UNCHANGED <<queue, results, waits, client, home, pending>>
    BY DEF TaskEnd, At, clients, Live
  <1>2. CASE Top(w).task \notin no_waits[Top(w).pool]
    <2>1. Goto(w, "store") /\ UNCHANGED no_waits
      BY <1>2 DEF TaskEnd
    <2> QED
      BY <1>1, <2>1, GotoStep DEF AllSame
  <1>3. CASE Top(w).task \in no_waits[Top(w).pool]
    <2>1. /\ Leave(w) /\ no_waits' = [no_waits EXCEPT ![Top(w).pool] = @ \ {Top(w).task}]
          /\ Top(w).pool \in Pools /\ Top(w).task \in Tasks
      BY <1>1, <1>3, BaseFacts, TopFacts DEF TaskEnd
    <2>2. Shrink /\ \A t \in Tasks : t # Top(w).task => (Runs(t)' <=> Runs(t))
      BY <1>1, <2>1, BaseFacts, LeaveStack
    <2>3. \A u \in Tasks, q \in Pools : u \in no_waits'[q] => u \in no_waits[q]
      BY <2>1, BaseFacts DEF MapType
    <2>4. /\ \A u \in Tasks : TaskOK(u)' /\ (Done(u)' <=> Done(u))
          /\ Mild
      BY <1>1, <2>2, <2>3, BaseFacts, QuietAll DEF Shrink
    <2>5. CallsOK'
      BY <1>1, <2>1, <2>4, LeaveStep
    <2>6. client[Top(w).task] = "dropped"
      BY <1>3, <2>1, BaseFacts DEF TaskOK
    <2> QED
      BY <1>1, <2>2, <2>4, <2>5, <2>6 DEF Good, Fades, Shrink
  <1> QED
    BY <1>2, <1>3

\* Storing the result ends the task, and whoever waits can find the result.
LEMMA StoreStep ==
  ASSUME Base, NEW w \in Workers, NEW p \in Pools, Store(w, p)
  PROVE  Good' /\ \E t \in Tasks : Ends(t)
  <1>1. /\ Depth(w) > 0 /\ Top(w).at = "store" /\ Top(w).at \in Live
        /\ Insert(Top(w).pool, Top(w).task, "done") /\ Goto(w, "notify")
        /\ UNCHANGED <<queue, waits, no_waits, client, home, pending>>
    BY DEF Store, At, clients, Live
  <1>2. PICK t \in Tasks, q \in Pools : t = Top(w).task /\ q = Top(w).pool
    BY <1>1, BaseFacts, TopFacts
  <1>3. "notify" \in Steps /\ "notify" \notin Live
    BY DEF Steps, Live
  <1>4. Shrink /\ \A u \in Tasks : Runs(u)' <=> Runs(u) /\ u # t
    BY <1>1, <1>2, <1>3, BaseFacts, GotoStack
  <1>5. Held(t) /\ Runs(t)
    BY <1>1, <1>2, BaseFacts, TopFacts
  <1>6. /\ \A u \in Tasks : TaskOK(u)'
        /\ \A u \in Tasks \ {t} : Done(u)' <=> Done(u)
        /\ Done(t)' /\ Has(q, t)' /\ Mild
    BY <1>1, <1>2, <1>4, <1>5, BaseFacts, QuietStore DEF Shrink
  <1>7. CallsOK'
    <2>1. Cuts(w, Depth(w), "notify", Top(w).target)
      BY <1>1, <1>3, BaseFacts, GotoCuts
    <2>2. Top(w) = frames[w][Depth(w)]
      BY DEF Top
    <2>3. \A g : CallOK("notify", g, q, t)'
      BY <1>6 DEF CallOK
    <2> QED
      BY <1>2, <1>6, <2>1, <2>2, <2>3, BaseFacts, MildCuts
  <1> QED
    BY <1>1, <1>4, <1>5, <1>6, <1>7 DEF Good, Shrink, Ends

\* The failing assertion has replaced the result before it unwinds: the task
\* has ended all the same.
LEMMA StorePanicStep ==
  ASSUME Base, NEW w \in Workers, NEW p \in Pools, StorePanic(w, p)
  PROVE  Good' /\ (\E t \in Tasks : Ends(t))
  <1>1. /\ Depth(w) > 0 /\ Top(w).at = "store" /\ Top(w).at \in Live
        /\ Insert(Top(w).pool, Top(w).task, "done")
        /\ UNCHANGED <<queue, waits, no_waits, client, home, pending>>
    BY DEF StorePanic, At, clients, Live
  <1>2. PICK t \in Tasks, q \in Pools : t = Top(w).task /\ q = Top(w).pool
    BY <1>1, BaseFacts, TopFacts
  <1>3. Held(t) /\ Runs(t)
    BY <1>1, <1>2, BaseFacts, TopFacts
  <1>4. ASSUME Shrink, \A u \in Tasks : u # t => (Runs(u)' <=> Runs(u)), ~Runs(t)', Mild => CallsOK'
        PROVE  Good' /\ Ends(t)
    <2>1. /\ \A u \in Tasks : TaskOK(u)'
          /\ \A u \in Tasks \ {t} : Done(u)' <=> Done(u)
          /\ Done(t)' /\ Mild
      BY <1>1, <1>2, <1>3, <1>4, BaseFacts, QuietStore DEF Shrink
    <2> QED
      BY <1>1, <1>3, <1>4, <2>1 DEF Good, Shrink, Ends
  <1>5. CASE Depth(w) > 1
    <2>1. frames' = [frames EXCEPT ![w] =
              [SubSeq(@, 1, Depth(w) - 1) EXCEPT ![Depth(w) - 1].at = "task"]]
      BY <1>5 DEF StorePanic
    <2>2. Shrink /\ (\A u \in Tasks : u # t => (Runs(u)' <=> Runs(u))) /\ ~Runs(t)'
      BY <1>1, <1>2, <1>5, <2>1, BaseFacts, LeaveStack
    <2>3. Mild => CallsOK'
      BY <1>1, <1>5, <2>1, LeaveStep
    <2> QED
      BY <1>4, <2>2, <2>3
  <1>6. CASE ~(Depth(w) > 1)
    <2>1. frames' = [frames EXCEPT ![w] = <<>>]
      BY <1>6 DEF StorePanic
    <2>2. Shrink
      BY <2>1, BaseFacts, ClearStack
    <2>3. DOMAIN frames[w] = {Depth(w)} /\ Depth(w) = 1
      <3>1. Depth(w) \in Nat /\ DOMAIN frames[w] = 1 .. Depth(w)
        BY BaseFacts, StackFacts
      <3> QED
        BY <1>1, <1>6, <3>1, SMT
    <2>4. /\ frames'[w] = <<>> /\ DOMAIN frames'[w] = {}
          /\ \A v \in Workers \ {w} : frames'[v] = frames[v]
      BY <2>1, BaseFacts, SMT DEF StackType
    <2>5. \A u \in Tasks : u # t => (Runs(u)' <=> Runs(u))
      <3> SUFFICES ASSUME NEW u \in Tasks, u # t, Runs(u) PROVE Runs(u)'
        BY <2>2 DEF Shrink
      <3>1. PICK v \in Workers : \E i \in DOMAIN frames[v] : frames[v][i].task = u /\ frames[v][i].at \in Live
        BY DEF Runs, InFrame
      <3>2. v # w
        BY <1>2, <2>3, <3>1 DEF Top
      <3>3. frames'[v] = frames[v]
        BY <2>4, <3>2
      <3> QED
        BY <3>1, <3>3 DEF Runs, InFrame
    <2>6. ~Runs(t)'
      <3> SUFFICES ASSUME Runs(t)' PROVE FALSE
        OBVIOUS
      <3>0. PICK v \in Workers : \E i \in DOMAIN frames'[v] : frames'[v][i].task = t
        BY DEF Runs, InFrame
      <3>1. PICK i \in DOMAIN frames'[v] : frames'[v][i].task = t
        BY <3>0
      <3>2. v # w
        BY <2>4, <3>1
      <3>3. i \in DOMAIN frames[v] /\ frames[v][i].task = frames[w][Depth(w)].task
        BY <1>2, <2>4, <3>1, <3>2 DEF Top
      <3> QED
        BY <2>3, <3>2, <3>3, BaseFacts DEF Unique
    <2>7. Mild => CallsOK'
      <3>1. Cuts(w, 0, "begin", Outside)
        BY <2>1, BaseFacts, ClearCuts
      <3>2. \A r, u : CallOK("begin", Outside, r, u)'
        BY DEF CallOK
      <3> QED
        BY <3>1, <3>2, BaseFacts, MildCuts
    <2> QED
      BY <1>4, <2>2, <2>5, <2>6, <2>7
  <1> QED
    BY <1>5, <1>6

\* A waiter is woken after the result was stored, and nobody but the waiter
\* takes it (try_run, wait_task_result).
LEMMA NotifyStep ==
  ASSUME Base, NEW w \in Workers, NEW p \in Pools, Notify(w, p)
  PROVE  Good' /\ AllSame
  <1>1. /\ Depth(w) > 0 /\ Top(w).at = "notify" /\ At(w, "notify")
        /\ notify(Top(w).pool, Top(w).task) /\ Leave(w)
        /\ UNCHANGED <<queue, results, no_waits, client, home>>
    BY DEF Notify, At
  <1>2. PICK t \in Tasks, q \in Pools : t = Top(w).task /\ q = Top(w).pool
    BY <1>1, BaseFacts, TopFacts
  <1>3. /\ Shrink /\ ~Runs(t)
        /\ \A u \in Tasks : u # t => (Runs(u)' <=> Runs(u))
        /\ ~Runs(t)'
    <2>1. ~Runs(Top(w).task)
      BY <1>1, BaseFacts, NotifyStack
    <2> QED
      BY <1>1, <1>2, <2>1, BaseFacts, LeaveStack
  <1>4. /\ \A r \in Pools, u \in Tasks : u \in waits'[r] => u \in waits[r]
        /\ \A u \in Tasks \ {t} : pending'[u] = pending[u]
        /\ pending'[t] = pending[t] \/ t \in waits[q]
    BY <1>1, <1>2, BaseFacts, NotifyFacts
  <1>5. Has(q, t) \/ client[t] \in {"over", "dropped"}
    <2>1. CallOK(Top(w).at, Top(w).target, q, t)
      BY <1>1, <1>2, BaseFacts, TopFacts DEF CallsOK
    <2> QED
      BY <1>1, <2>1 DEF CallOK
  <1>6. \A r \in Pools, u \in Tasks : (Has(r, u)' <=> Has(r, u)) /\ (Done(u)' <=> Done(u))
    BY <1>1 DEF Has, Done
  <1>7. ASSUME NEW u \in Tasks, u # t PROVE TaskOK(u)'
    <2>1. Quiet(u)
      BY <1>1, <1>3, <1>4, <1>6, <1>7, BaseFacts DEF Quiet, Shrink
    <2> QED
      BY <2>1, BaseFacts, QuietTask
  <1>8. TaskOK(t)'
    <2>1. TaskOK(t) /\ home[t] \in Pools
      BY BaseFacts
    <2>2. client[t] = "wait" /\ ~pending'[t] => Has(home[t], t)
      BY <1>4, <1>5, <2>1 DEF TaskOK
    <2> QED
      BY <1>1, <1>3, <1>4, <1>6, <2>1, <2>2 DEF TaskOK, Shrink
  <1>9. Mild
    BY <1>1, <1>6 DEF Mild
  <1>10. CallsOK'
    BY <1>1, <1>9, LeaveStep
  <1> QED
    BY <1>1, <1>3, <1>6, <1>7, <1>8, <1>10 DEF Good, Shrink, AllSame, Same

\* A result is taken by a step that keeps the stacks.
LEMMA TakeStep ==
  ASSUME Base, NEW t \in Tasks, TakeResult(home[t], t),
         NEW k \in {"over", "dropped"}, client' = [client EXCEPT ![t] = k],
         k = "over" \/ Joiner[t] = Outside, client[t] \in {"idle", "wait"},
         notify(home[t], t) \/ UNCHANGED <<waits, pending>>,
         UNCHANGED <<queue, frames, no_waits, home>>
  PROVE  Good' /\ Takes(t)
  <1>1. Shrink /\ \A u \in Tasks : Runs(u)' <=> Runs(u)
    BY BaseFacts, SameStack
  <1>2. /\ \A u \in Tasks, p \in Pools : u \in waits'[p] => u \in waits[p]
        /\ \A u \in Tasks \ {t} : pending'[u] = pending[u]
    BY BaseFacts, NotifyFacts
  <1>3. /\ \A u \in Tasks : TaskOK(u)'
        /\ \A u \in Tasks \ {t} : Done(u)' <=> Done(u)
        /\ Done(t)' => Done(t)
        /\ Mild
    <2>1. client[t] \in {"idle", "wait", "over"}
      OBVIOUS
    <2> QED
      BY <1>1, <1>2, <2>1, BaseFacts, QuietTake DEF Shrink
  <1>4. CallsOK'
    BY <1>3, BaseFacts, MildSame
  <1>5. /\ client[t] \notin {"new", "refused"} /\ client'[t] \notin {"new", "refused"}
        /\ \A u \in Tasks \ {t} : client'[u] = client[u]
    BY BaseFacts DEF ClientType
  <1> QED
    BY <1>1, <1>3, <1>4, <1>5 DEF Good, Shrink, Takes

\* The innermost call goes to another step before the end of its task.
LEMMA LiveStack ==
  ASSUME StackType, Unique, Nested, NEW w \in Workers, NEW a \in Steps, NEW g, a \in Live,
         Cuts(w, Depth(w), a, g), Depth(w) \in DOMAIN frames[w], frames[w][Depth(w)].at \in Live,
         g \in Tasks
  PROVE  Shrink /\ \A t \in Tasks : Runs(t)' <=> Runs(t)
  <1>1. StackType' /\ Unique' /\ Nested' /\ \A t \in Tasks : Held(t)' => Held(t)
    BY CutsTyped, CutsStacks
  <1>2. DOMAIN frames[w] = 1 .. Depth(w)
    BY StackFacts
  <1>3. \A t \in Tasks : (Runs(t)' => Runs(t)) /\ (Runs(t) => Runs(t)')
    BY <1>2, CutsRuns
  <1> QED
    BY <1>1, <1>3 DEF Shrink

\* A task that waits takes the result, or goes into the loop of try_run.
LEMMA JoinInsideStep ==
  ASSUME Base, NEW w \in Workers, NEW p \in Pools, NEW u \in Tasks, JoinInside(w, p, u)
  PROVE  Good' /\ (AllSame \/ Takes(u))
  <1>1. /\ Depth(w) > 0 /\ Top(w).at = "task" /\ Joiner[u] = Top(w).task /\ client[u] = "idle"
        /\ UNCHANGED <<queue, no_waits, home>>
    BY DEF JoinInside, At
  <1>2. CASE Has(home[u], u)
    <2>1. /\ TakeResult(home[u], u) /\ notify(home[u], u)
          /\ client' = [client EXCEPT ![u] = "over"] /\ UNCHANGED frames
      BY <1>2 DEF JoinInside
    <2>2. client[u] \in {"idle", "wait"} /\ "over" \in {"over", "dropped"}
      BY <1>1
    <2> QED
      BY <1>1, <2>1, <2>2, TakeStep
  <1>3. CASE ~Has(home[u], u)
    <2>1. /\ UNCHANGED <<results, waits, pending, client>>
          /\ frames' = frames \/ Cuts(w, Depth(w), "spin", u)
      BY <1>3, BaseFacts, WaitCuts DEF JoinInside
    <2>2. CASE frames' = frames
      BY <1>1, <2>1, <2>2, SameStep DEF AllSame
    <2>3. CASE Cuts(w, Depth(w), "spin", u)
      <3>1. /\ Depth(w) \in DOMAIN frames[w] /\ Depth(w) \in 0 .. Depth(w)
            /\ frames[w][Depth(w)].at \in Live /\ "spin" \in Live /\ "spin" \in Steps
        <4>1. Depth(w) \in Nat /\ Depth(w) \in DOMAIN frames[w] /\ Top(w) = frames[w][Depth(w)]
          BY <1>1, BaseFacts, StackFacts, TopFacts
        <4>2. Depth(w) \in 0 .. Depth(w)
          BY <4>1, SMT
        <4> QED
          BY <1>1, <4>1, <4>2 DEF Live, Steps
      <3>2. Shrink /\ \A x \in Tasks : Runs(x)' <=> Runs(x)
        <4>1. "spin" \in {"spin", "look"} => u \in Tasks
          OBVIOUS
        <4> QED
          BY <1>1, <2>3, <3>1, <4>1, BaseFacts, LiveStack
      <3>3. /\ \A x \in Tasks : TaskOK(x)' /\ (Done(x)' <=> Done(x))
            /\ Mild
        BY <1>1, <2>1, <3>2, BaseFacts, QuietAll DEF Shrink
      <3>4. \A q, x : CallOK("spin", u, q, x)'
        <4>1. Joiner[u] # Outside
          BY <1>1, BaseFacts, TopFacts, PoolAssumption
        <4> QED
          BY <1>1, <2>1, <4>1 DEF CallOK
      <3>5. CallsOK'
        BY <2>3, <3>3, <3>4, BaseFacts, MildCuts
      <3> QED
        BY <1>1, <2>1, <3>2, <3>3, <3>5 DEF Good, Shrink, AllSame, Same
    <2> QED
      BY <2>1, <2>2, <2>3
  <1> QED
    BY <1>2, <1>3

\* The loop of a task that waits takes the result, goes on or gives up.
LEMMA LookStep ==
  ASSUME Base, NEW w \in Workers, NEW p \in Pools, Look(w, p)
  PROVE  Good' /\ (AllSame \/ \E u \in Tasks : Takes(u))
  <1>1. /\ Depth(w) > 0 /\ Top(w).at = "look" /\ Top(w).at \in Live
        /\ UNCHANGED <<queue, waits, no_waits, home, pending>>
    BY DEF Look, At, Live
  <1>2. PICK u \in Tasks : u = Top(w).target
    BY <1>1, BaseFacts, TopFacts
  <1>3. \/ /\ TakeResult(home[u], u)
           /\ client' = [client EXCEPT ![u] = "over"]
           /\ Goto(w, "task")
        \/ /\ Goto(w, "spin") \/ Goto(w, "task")
           /\ UNCHANGED <<results, client>>
    BY <1>2 DEF Look
  <1>4. CASE (Goto(w, "spin") \/ Goto(w, "task")) /\ UNCHANGED <<results, client>>
    BY <1>1, <1>4, GotoStep DEF AllSame
  <1>5. CASE TakeResult(home[u], u) /\ client' = [client EXCEPT ![u] = "over"] /\ Goto(w, "task")
    <2>1. "task" \in Steps /\ "task" \in Live
      BY DEF Steps, Live
    <2>2. Shrink /\ \A t \in Tasks : Runs(t)' <=> Runs(t)
      BY <1>1, <1>5, <2>1, BaseFacts, GotoStack
    <2>3. Joiner[u] # Outside /\ client[u] \in {"idle", "over"}
      <3>1. CallOK(Top(w).at, u, Top(w).pool, Top(w).task)
        BY <1>1, <1>2, BaseFacts, TopFacts DEF CallsOK
      <3> QED
        BY <1>1, <3>1 DEF CallOK
    <2>4. /\ \A t \in Tasks : TaskOK(t)'
          /\ \A t \in Tasks \ {u} : Done(t)' <=> Done(t)
          /\ Done(u)' => Done(u)
          /\ Mild
      <3>1. /\ client[u] \in {"idle", "wait", "over"} /\ "over" \in {"over", "dropped"}
            /\ \A t \in Tasks, q \in Pools : t \in waits'[q] => t \in waits[q]
            /\ \A t \in Tasks \ {u} : pending'[t] = pending[t]
        BY <1>1, <2>3
      <3> QED
        BY <1>1, <1>5, <2>2, <3>1, BaseFacts, QuietTake DEF Shrink
    <2>5. CallsOK'
      <3>1. Cuts(w, Depth(w), "task", Top(w).target)
        BY <1>1, <1>5, <2>1, BaseFacts, GotoCuts
      <3>2. \A g, q, t : CallOK("task", g, q, t)'
        BY DEF CallOK
      <3> QED
        BY <2>4, <3>1, <3>2, BaseFacts, MildCuts
    <2>6. /\ client[u] \notin {"new", "refused"} /\ client'[u] \notin {"new", "refused"}
          /\ \A t \in Tasks \ {u} : client'[t] = client[t]
      BY <1>5, <2>3, BaseFacts DEF ClientType
    <2> QED
      BY <1>1, <2>2, <2>4, <2>5, <2>6 DEF Good, Shrink, Takes
  <1> QED
    BY <1>3, <1>4, <1>5

\* ... or put one into the queue.
Queues(t) ==
  /\ client[t] = "new" /\ t \in queue' /\ client'[t] \notin {"new", "refused"}
  /\ \A u \in Tasks \ {t} : Same(u)

\* A holder moves on without a result.
LEMMA MoveStep ==
  ASSUME Base, NEW t \in Tasks, NEW k \in {"register", "idle", "forget"},
         client' = [client EXCEPT ![t] = k],
         client[t] = "wait" \/ (client[t] = "idle" /\ Joiner[t] = Outside),
         UNCHANGED <<queue, frames, results, waits, no_waits, home, pending>>
  PROVE  Good' /\ AllSame
  <1>1. Shrink /\ \A u \in Tasks : Runs(u)' <=> Runs(u)
    BY BaseFacts, SameStack
  <1>2. /\ \A u \in Tasks : TaskOK(u)' /\ (Done(u)' <=> Done(u))
        /\ Mild
    BY <1>1, BaseFacts, QuietClient DEF Shrink
  <1>3. CallsOK'
    BY <1>2, BaseFacts, MildSame
  <1>4. \A u \in Tasks : client'[u] \in {"new", "refused"} <=> client[u] \in {"new", "refused"}
    <2>1. client \in [Tasks -> {"new", "refused", "idle", "register", "wait", "forget", "dropped", "over"}]
      BY BaseFacts DEF ClientType
    <2> QED
      BY <2>1
  <1> QED
    BY <1>1, <1>2, <1>3, <1>4 DEF Good, Shrink, AllSame, Same

\* wait_task_result outside of a coroutine takes the result or changes nothing
\* in the life of a task.
LEMMA JoinStep ==
  ASSUME Base, NEW t \in Tasks, Join(t) \/ Wake(t)
  PROVE  Good' /\ (AllSame \/ Takes(t))
  <1>1. /\ client[t] = "wait" \/ (client[t] = "idle" /\ Joiner[t] = Outside)
        /\ client[t] \in {"idle", "wait"}
        /\ UNCHANGED <<queue, frames, no_waits, home>>
    BY DEF Join, Wake, workers
  <1>2. CASE Has(home[t], t)
    <2>1. /\ TakeResult(home[t], t) /\ notify(home[t], t)
          /\ client' = [client EXCEPT ![t] = "over"]
      BY <1>2 DEF Join, Wake
    <2>2. "over" \in {"over", "dropped"}
      OBVIOUS
    <2> QED
      BY <1>1, <2>1, <2>2, TakeStep
  <1>3. CASE ~Has(home[t], t)
    <2>1. /\ UNCHANGED <<results, waits, pending>>
          /\ \E k \in {"register", "idle", "forget"} : client' = [client EXCEPT ![t] = k]
      BY <1>3 DEF Join, Wake
    <2> QED
      BY <1>1, <2>1, MoveStep
  <1> QED
    BY <1>2, <1>3

\* clean_task_result throws a result away or remembers that nobody waits.
LEMMA DropStep ==
  ASSUME Base, NEW t \in Tasks, Drop(t)
  PROVE  Good' /\ (AllSame \/ Takes(t))
  <1>1. /\ client[t] = "idle" /\ Joiner[t] = Outside /\ client[t] \in {"idle", "wait"}
        /\ UNCHANGED <<queue, frames, waits, no_waits, home, pending>>
    BY DEF Drop, workers
  <1>2. CASE Has(home[t], t)
    <2>1. /\ TakeResult(home[t], t)
          /\ client' = [client EXCEPT ![t] = "dropped"]
          /\ "dropped" \in {"over", "dropped"}
      BY <1>2 DEF Drop
    <2> QED
      BY <1>1, <2>1, TakeStep
  <1>3. CASE ~Has(home[t], t)
    <2>1. UNCHANGED results /\ client' = [client EXCEPT ![t] = "forget"]
          /\ "forget" \in {"register", "idle", "forget"}
      BY <1>3 DEF Drop
    <2> QED
      BY <1>1, <2>1, MoveStep
  <1> QED
    BY <1>2, <1>3

\* A step of a holder that keeps the stacks and the results, from what it does
\* to its own task.
LEMMA HolderStep ==
  ASSUME Base, NEW t \in Tasks, UNCHANGED <<frames, results>>, TaskOK(t)', Mild,
         \A u \in Tasks \ {t} : /\ u \in queue' <=> u \in queue
                                /\ client'[u] = client[u] /\ home'[u] = home[u]
                                /\ pending'[u] = pending[u]
                                /\ \A p \in Pools : /\ u \in waits'[p] <=> u \in waits[p]
                                                    /\ u \in no_waits'[p] <=> u \in no_waits[p]
  PROVE  Good' /\ (\A u \in Tasks \ {t} : Same(u)) /\ (Runs(t)' <=> Runs(t)) /\ (Done(t)' <=> Done(t))
  <1>1. Shrink /\ \A u \in Tasks : Runs(u)' <=> Runs(u)
    BY BaseFacts, SameStack
  <1>2. CallsOK'
    BY BaseFacts, MildSame
  <1>3. \A u \in Tasks : (Done(u)' <=> Done(u)) /\ \A p \in Pools : Has(p, u)' <=> Has(p, u)
    BY DEF Done, Has
  <1>4. ASSUME NEW u \in Tasks \ {t} PROVE TaskOK(u)'
    <2>1. Quiet(u)
      BY <1>1, <1>3, BaseFacts DEF Quiet, Shrink
    <2> QED
      BY <2>1, BaseFacts, QuietTask
  <1>5. \A u \in Tasks : TaskOK(u)'
    BY <1>4
  <1>6. ASSUME NEW u \in Tasks \ {t} PROVE Same(u)
    <2>1. u \in Tasks /\ client'[u] = client[u] /\ (u \in queue' <=> u \in queue)
      OBVIOUS
    <2> QED
      BY <1>1, <1>3, <2>1 DEF Same
  <1>7. Good'
    BY <1>1, <1>2, <1>5 DEF Good, Shrink
  <1> QED
    BY <1>1, <1>3, <1>6, <1>7

\* submit_task puts a new task into the queue or refuses it.
LEMMA SubmitStep ==
  ASSUME Base, NEW t \in Tasks, Submit(t)
  PROVE  Good' /\ (AllSame \/ Queues(t))
  <1>1. /\ client[t] = "new" /\ UNCHANGED <<frames, results, waits, no_waits, pending>>
        /\ \/ queue' = queue \cup {t} /\ client' = [client EXCEPT ![t] = "idle"]
           \/ UNCHANGED queue /\ client' = [client EXCEPT ![t] = "refused"]
        /\ \E q : home' = [home EXCEPT ![t] = q]
    BY DEF Submit, workers, maps
  <1>2. /\ client \in [Tasks -> {"new", "refused", "idle", "register", "wait", "forget", "dropped", "over"}]
        /\ home \in [Tasks -> Pools] /\ TaskOK(t)
    BY BaseFacts DEF ClientType
  <1>3. /\ \A u \in Tasks \ {t} : client'[u] = client[u] /\ home'[u] = home[u]
        /\ (client'[t] = "idle" /\ queue' = queue \cup {t}) \/ (client'[t] = "refused" /\ UNCHANGED queue)
    BY <1>1, <1>2
  <1>4. /\ Held(t)' <=> Held(t)
        /\ Runs(t)' <=> Runs(t)
        /\ Done(t)' <=> Done(t)
    BY <1>1 DEF Held, Runs, InFrame, Done
  <1>5. t \notin queue /\ ~Held(t) /\ ~Done(t) /\ \A q \in Pools : t \notin waits[q] /\ t \notin no_waits[q]
    BY <1>1, <1>2 DEF TaskOK
  <1>6. ~Runs(t)
    BY <1>5 DEF Held, Runs, InFrame, Live, Steps
  <1>7. TaskOK(t)'
    BY <1>1, <1>3, <1>4, <1>5, <1>6 DEF TaskOK
  <1>8. Mild
    <2>1. \A q \in Pools, u \in Tasks : Has(q, u)' <=> Has(q, u)
      BY <1>1 DEF Has
    <2> QED
      BY <1>1, <1>3, <2>1 DEF Mild
  <1>9. Good' /\ \A u \in Tasks \ {t} : Same(u)
    BY <1>1, <1>3, <1>7, <1>8, HolderStep
  <1>10. CASE client'[t] = "idle" /\ queue' = queue \cup {t}
    BY <1>1, <1>9, <1>10 DEF Queues
  <1>11. CASE client'[t] = "refused" /\ UNCHANGED queue
    BY <1>1, <1>4, <1>9, <1>11 DEF AllSame, Same
  <1> QED
    BY <1>3, <1>9, <1>10, <1>11

\* Registering as a waiter and forgetting a task change no life.
LEMMA RegisterStep ==
  ASSUME Base, NEW t \in Tasks, Register(t) \/ Forget(t)
  PROVE  Good' /\ AllSame
  <1>1. /\ client[t] \in {"register", "forget"} /\ UNCHANGED <<queue, frames, results, home>>
        /\ \/ /\ client' = [client EXCEPT ![t] = "wait"] /\ UNCHANGED no_waits
              /\ waits' = [waits EXCEPT ![home[t]] = @ \cup {t}]
              /\ pending' = [pending EXCEPT ![t] = TRUE]
           \/ /\ client' = [client EXCEPT ![t] = "dropped"] /\ UNCHANGED <<waits, pending>>
              /\ no_waits' = [no_waits EXCEPT ![home[t]] = @ \cup {t}]
    BY DEF Register, Forget, workers
  <1>2. /\ client \in [Tasks -> {"new", "refused", "idle", "register", "wait", "forget", "dropped", "over"}]
        /\ home[t] \in Pools /\ TaskOK(t)
        /\ waits \in [Pools -> SUBSET Tasks] /\ no_waits \in [Pools -> SUBSET Tasks]
        /\ pending \in [Tasks -> BOOLEAN]
    BY BaseFacts DEF ClientType, MapType
  <1>3. /\ \A u \in Tasks \ {t} : client'[u] = client[u] /\ pending'[u] = pending[u]
        /\ \A u \in Tasks \ {t}, q \in Pools : /\ u \in waits'[q] <=> u \in waits[q]
                                               /\ u \in no_waits'[q] <=> u \in no_waits[q]
        /\ \/ /\ client'[t] = "wait" /\ pending'[t]
              /\ \A q \in Pools : t \in waits'[q] => q = home[t] \/ t \in waits[q]
              /\ UNCHANGED no_waits
           \/ client'[t] = "dropped" /\ UNCHANGED waits
    <2>1. \A u \in Tasks \ {t} : client'[u] = client[u] /\ pending'[u] = pending[u]
      BY <1>1, <1>2
    <2>2. CASE /\ client' = [client EXCEPT ![t] = "wait"] /\ UNCHANGED no_waits
               /\ waits' = [waits EXCEPT ![home[t]] = @ \cup {t}]
               /\ pending' = [pending EXCEPT ![t] = TRUE]
      <3>1. client'[t] = "wait" /\ pending'[t]
        BY <1>2, <2>2
      <3>2. \A q \in Pools : waits'[q] = IF q = home[t] THEN waits[q] \cup {t} ELSE waits[q]
        BY <1>2, <2>2
      <3>3. \A q \in Pools : \A u : u \in waits'[q] <=> u \in waits[q] \/ (q = home[t] /\ u = t)
        BY <3>2
      <3> QED
        BY <2>1, <2>2, <3>1, <3>3
    <2>3. CASE /\ client' = [client EXCEPT ![t] = "dropped"] /\ UNCHANGED <<waits, pending>>
               /\ no_waits' = [no_waits EXCEPT ![home[t]] = @ \cup {t}]
      <3>1. client'[t] = "dropped"
        BY <1>2, <2>3
      <3>2. \A q \in Pools : no_waits'[q] = IF q = home[t] THEN no_waits[q] \cup {t} ELSE no_waits[q]
        BY <1>2, <2>3
      <3>3. \A q \in Pools : \A u : u \in no_waits'[q] <=> u \in no_waits[q] \/ (q = home[t] /\ u = t)
        BY <3>2
      <3> QED
        BY <2>1, <2>3, <3>1, <3>3
    <2> QED
      BY <1>1, <2>2, <2>3
  <1>4. /\ Held(t)' <=> Held(t)
        /\ Runs(t)' <=> Runs(t)
        /\ Done(t)' <=> Done(t)
    BY <1>1 DEF Held, Runs, InFrame, Done
  <1>5. TaskOK(t)'
    BY <1>1, <1>2, <1>3, <1>4 DEF TaskOK
  <1>6. Mild
    <2>1. \A q \in Pools, u \in Tasks : Has(q, u)' <=> Has(q, u)
      BY <1>1 DEF Has
    <2> QED
      BY <1>1, <1>3, <2>1 DEF Mild
  <1>7. Good' /\ \A u \in Tasks \ {t} : Same(u)
    BY <1>1, <1>3, <1>5, <1>6, HolderStep
  <1>8. Same(t)
    BY <1>1, <1>3, <1>4 DEF Same
  <1> QED
    BY <1>7, <1>8 DEF AllSame

\* A pool that stops replaces the result of one waiter at most.
LEMMA StopStep ==
  ASSUME Base, NEW p \in Pools, do_stop(p)
  PROVE  Good' /\ (AllSame \/ \E t \in Tasks : Takes(t))
  <1>1. UNCHANGED <<queue, frames, waits, no_waits, client, home, pending>>
    BY DEF do_stop, workers, clients
  <1>2. CASE UNCHANGED results
    BY <1>1, <1>2, SameStep DEF AllSame
  <1>3. CASE \E t \in waits[p] : Insert(p, t, "stopped")
    <2>1. PICK t \in waits[p] : Insert(p, t, "stopped")
      BY <1>3
    <2>2. t \in Tasks /\ TaskOK(t)
      BY BaseFacts DEF MapType
    <2>3. Shrink /\ \A u \in Tasks : Runs(u)' <=> Runs(u)
      BY <1>1, BaseFacts, SameStack
    <2>4. /\ \A u \in Tasks : TaskOK(u)'
          /\ \A u \in Tasks \ {t} : Done(u)' <=> Done(u)
          /\ Done(t)' => Done(t)
          /\ Mild
      BY <1>1, <2>1, <2>2, <2>3, BaseFacts, QuietStop DEF Shrink
    <2>5. CallsOK'
      BY <1>1, <2>4, BaseFacts, MildSame
    <2>6. client[t] \notin {"new", "refused"}
      BY <2>1, <2>2 DEF TaskOK
    <2> QED
      BY <1>1, <2>2, <2>3, <2>4, <2>5, <2>6 DEF Good, Shrink, Takes
  <1> QED
    BY <1>2, <1>3 DEF do_stop

\* A step of a thread: what it may do to the lives of the tasks.
Works == AllSame \/ Fades \/ \E t \in Tasks : Starts(t) \/ Discards(t) \/ Ends(t) \/ Takes(t)

\* What a step of a worker does to the lives of the tasks.
LEMMA WorkerLives ==
  ASSUME Base, Asked, NEW w \in Workers, NEW p \in Pools, WorkerStep(w, p)
  PROVE  Good' /\ Works
  <1>1. ASSUME NEW t \in Tasks, TryRun(w, p, t) PROVE Good' /\ Works
    BY <1>1, TryRunStep DEF Works
  <1>2. ASSUME NEW t \in Tasks, JoinInside(w, p, t) PROVE Good' /\ Works
    BY <1>2, JoinInsideStep DEF Works
  <1>3. CASE Recycle(w, p) \/ Idle(w, p) \/ Suspend(w, p)
    <2>1. UNCHANGED <<queue, frames, results, waits, no_waits, client, home, pending>>
      BY <1>3 DEF Recycle, Idle, Suspend, maps, clients
    <2> QED
      BY <2>1, SameStep DEF Works, AllSame
  <1>4. CASE Begin(w, p)
    <2>1. /\ UNCHANGED <<queue, results, waits, no_waits, client, home, pending>>
          /\ Depth(w) > 0 /\ Top(w).at = "begin" /\ Top(w).at \in Live /\ Goto(w, "task")
      BY <1>4 DEF Begin, maps, clients, At, Live
    <2> QED
      BY <2>1, GotoStep DEF Works, AllSame
  <1>5. CASE TaskEnd(w, p)
    BY <1>5, TaskEndStep DEF Works
  <1>6. CASE Store(w, p)
    BY <1>6, StoreStep DEF Works
  <1>7. CASE StorePanic(w, p)
    BY <1>7, StorePanicStep DEF Works
  <1>8. CASE Notify(w, p)
    BY <1>8, NotifyStep DEF Works
  <1>9. CASE Spin(w, p)
    BY <1>9, SpinStep DEF Works
  <1>10. CASE Look(w, p)
    BY <1>10, LookStep DEF Works
  <1>11. CASE sigvtalrm(w, p)
    <2>1. /\ frames' = [frames EXCEPT ![w] = <<>>] /\ p \in signals
          /\ UNCHANGED <<queue, results, waits, no_waits, client, home, pending>>
      BY <1>11 DEF sigvtalrm, maps, clients
    <2>2. Good' /\ \A u \in Tasks : (Runs(u)' => Runs(u)) /\ (Done(u)' <=> Done(u))
      BY <2>1, ClearStep
    <2>3. asked # {}
      BY <2>1 DEF Asked
    <2> QED
      BY <2>1, <2>2, <2>3 DEF Works, Fades
  <1> QED
    BY <1>1, <1>2, <1>3, <1>4, <1>5, <1>6, <1>7, <1>8, <1>9, <1>10, <1>11 DEF WorkerStep

\* A cancelled worker is forgotten with its tasks, but somebody asked for it
\* (do_schedule).
LEMMA PopLives ==
  ASSUME Base, Asked, NEW w \in Workers, NEW p \in Pools, PopReady(p, w)
  PROVE  Good' /\ Works
  <1>1. UNCHANGED <<queue, results, waits, no_waits, client, home, pending>>
    BY DEF PopReady, maps, clients
  <1>2. CASE w \in CANCEL_COROUTINES
    <2>1. frames' = [frames EXCEPT ![w] = <<>>]
      BY <1>2 DEF PopReady
    <2>2. Good' /\ \A u \in Tasks : (Runs(u)' => Runs(u)) /\ (Done(u)' <=> Done(u))
      BY <1>1, <2>1, ClearStep
    <2>3. asked # {}
      BY <1>2 DEF Asked
    <2> QED
      BY <1>1, <2>2, <2>3 DEF Works, Fades
  <1>3. CASE w \notin CANCEL_COROUTINES
    <2>1. UNCHANGED frames
      BY <1>3 DEF PopReady
    <2> QED
      BY <1>1, <2>1, SameStep DEF Works, AllSame
  <1> QED
    BY <1>2, <1>3

\* Scheduling, returning and asking a pool to stop change no life.
LEMMA QuietLives ==
  ASSUME Base, NEW p \in Pools,
         Schedule(p) \/ Return(p) \/ sigvtalrm_ignored(p) \/ do_stop_again(p) \/ stopping(p)
  PROVE  Good' /\ AllSame
  <1>1. UNCHANGED <<queue, frames, results, waits, no_waits, client, home, pending>>
    BY DEF Schedule, Return, sigvtalrm_ignored, do_stop_again, stopping, maps, clients, workers
  <1> QED
    BY <1>1, SameStep DEF AllSame

\* Asking for a cancellation changes no life.
LEMMA CancelLives ==
  ASSUME Base, NEW t \in Tasks, try_cancel_task(t)
  PROVE  Good' /\ AllSame
  <1>1. UNCHANGED <<queue, frames, results, waits, no_waits, client, home, pending>>
    BY DEF try_cancel_task, maps, clients, workers
  <1> QED
    BY <1>1, SameStep DEF AllSame

\* Every step keeps what holds of tasks and calls.
LEMMA GoodNext == ASSUME Base, Asked, Next PROVE Good'
  <1>1. ASSUME NEW p \in Pools, ThreadStep(p) PROVE Good'
    BY <1>1, WorkerLives, PopLives, QuietLives, StopStep DEF ThreadStep
  <1>2. ASSUME NEW p \in Pools, stopping(p) PROVE Good'
    BY <1>2, QuietLives
  <1>3. ASSUME NEW t \in Tasks, ClientStep(t) \/ ClientCall(t) PROVE Good'
    BY <1>3, JoinStep, DropStep, SubmitStep, RegisterStep, CancelLives DEF ClientStep, ClientCall
  <1> QED
    BY <1>1, <1>2, <1>3 DEF Next

-----------------------------------------------------------------------------
(* Cancellations and results of others.                                    *)

\* A step that cancels nothing more.
Calm ==
  /\ CANCEL_TASKS' \subseteq CANCEL_TASKS /\ CANCEL_COROUTINES' \subseteq CANCEL_COROUTINES
  /\ signals' \subseteq signals /\ UNCHANGED asked

\* No worker cancels...
LEMMA WorkerCalm == ASSUME NEW w \in Workers, NEW p \in Pools, WorkerStep(w, p) PROVE Calm
  <1>1. ASSUME NEW t \in Tasks, TryRun(w, p, t) PROVE Calm
    BY <1>1 DEF TryRun, Start, threads, history, Calm
  <1>2. ASSUME NEW t \in Tasks, JoinInside(w, p, t) PROVE Calm
    BY <1>2 DEF JoinInside, threads, statics, history, Calm
  <1>3. CASE Recycle(w, p)
    BY <1>3 DEF Recycle, history, Calm
  <1>4. CASE Idle(w, p) \/ Suspend(w, p)
    BY <1>4 DEF Idle, Suspend, statics, history, Calm
  <1>5. CASE Begin(w, p) \/ TaskEnd(w, p)
    BY <1>5 DEF Begin, TaskEnd, threads, history, Calm
  <1>6. CASE Store(w, p) \/ StorePanic(w, p)
    BY <1>6 DEF Store, StorePanic, threads, statics, history, Calm
  <1>7. CASE Notify(w, p) \/ Look(w, p)
    BY <1>7 DEF Notify, Look, threads, statics, history, Calm
  <1>8. CASE Spin(w, p)
    <2>1. CANCEL_TASKS' \subseteq CANCEL_TASKS
      BY <1>8 DEF Spin, Start
    <2> QED
      BY <1>8, <2>1 DEF Spin, threads, history, Calm
  <1>9. CASE sigvtalrm(w, p)
    BY <1>9 DEF sigvtalrm, history, Calm
  <1> QED
    BY <1>1, <1>2, <1>3, <1>4, <1>5, <1>6, <1>7, <1>8, <1>9 DEF WorkerStep

\* ... and no thread of a pool does...
LEMMA ThreadCalm == ASSUME NEW p \in Pools, ThreadStep(p) \/ stopping(p) PROVE Calm
  <1>1. CASE Schedule(p) \/ Return(p) \/ sigvtalrm_ignored(p)
    BY <1>1 DEF Schedule, Return, sigvtalrm_ignored, statics, history, Calm
  <1>2. CASE do_stop_again(p) \/ do_stop(p) \/ stopping(p)
    BY <1>2 DEF do_stop_again, do_stop, stopping, statics, history, Calm
  <1>3. ASSUME NEW w \in Workers, PopReady(p, w) PROVE Calm
    BY <1>3 DEF PopReady, Calm
  <1> QED
    BY <1>1, <1>2, <1>3, WorkerCalm DEF ThreadStep

\* ... nor the holder of a handle, by any other call than try_cancel_task.
LEMMA ClientCalm ==
  ASSUME NEW t \in Tasks, ClientStep(t) \/ Submit(t) \/ Join(t) \/ Drop(t)
  PROVE  Calm
  <1>1. CASE Register(t) \/ Wake(t) \/ Submit(t) \/ Join(t) \/ Drop(t)
    BY <1>1 DEF Register, Wake, Submit, Join, Drop, threads, statics, history, Calm
  <1>2. CASE Forget(t)
    BY <1>2 DEF Forget, threads, history, Calm
  <1> QED
    BY <1>1, <1>2 DEF ClientStep

\* Whatever is cancelled was asked for.
LEMMA AskedNext == ASSUME Asked, Next PROVE Asked'
  <1>1. CASE Calm
    BY <1>1 DEF Calm, Asked
  <1>2. ASSUME NEW t \in Tasks, try_cancel_task(t) PROVE Asked'
    <2>1. asked' = asked \cup {t} /\ CANCEL_TASKS' \subseteq CANCEL_TASKS \cup {t}
      BY <1>2 DEF try_cancel_task
    <2> QED
      BY <2>1 DEF Asked
  <1> QED
    BY <1>1, <1>2, ThreadCalm, ClientCalm DEF Next, ClientCall

\* A step that gives no result but a task's own, and stops no pool.
Frugal ==
  /\ UNCHANGED <<state, panicked>>
  /\ \A p \in Pools, t \in Tasks : <<t, "stopped">> \in results'[p] => <<t, "stopped">> \in results[p]

\* Such a step keeps all results the tasks' own.
LEMMA FrugalOwn == ASSUME Own, Frugal PROVE Own'
  BY DEF Own, Frugal, Stopped

\* A step that touches no result is frugal...
LEMMA FrugalSame == ASSUME UNCHANGED <<state, panicked, results>> PROVE Frugal
  BY DEF Frugal

\* ... and so is one that takes a result...
LEMMA FrugalTake ==
  ASSUME Base, NEW t \in Tasks, TakeResult(home[t], t) \/ UNCHANGED results, UNCHANGED <<state, panicked>>
  PROVE  Frugal
  <1>1. CASE TakeResult(home[t], t)
    <2>1. home[t] \in Pools /\ MapType /\ "stopped" \in Outcomes
      BY BaseFacts DEF Outcomes
    <2> QED
      BY <1>1, <2>1, TakeFacts DEF Frugal
  <1> QED
    BY <1>1, FrugalSame

\* ... or stores the result of a task that ended.
LEMMA InsertOwn ==
  ASSUME MapType, NEW k \in Pools, NEW x \in Tasks, Insert(k, x, "done")
  PROVE  \A q \in Pools, t \in Tasks : <<t, "stopped">> \in results'[q] => <<t, "stopped">> \in results[q]
  <1>1. "done" \in Outcomes
    BY DEF Outcomes
  <1>2. \A p \in Pools, u \in Tasks, r \in Outcomes :
          <<u, r>> \in results'[p] <=> IF p = k /\ u = x THEN r = "done" ELSE <<u, r>> \in results[p]
    BY <1>1, InsertFacts
  <1>3. "stopped" \in Outcomes /\ "stopped" # "done"
    BY DEF Outcomes
  <1> QED
    BY <1>2, <1>3

\* A worker meets an earlier result of its task only after a pool has stopped:
\* the task had no result of its own before.
LEMMA WorkerOwn ==
  ASSUME Base, Own, NEW w \in Workers, NEW p \in Pools, WorkerStep(w, p)
  PROVE  Own'
  <1>1. ASSUME NEW t \in Tasks, TryRun(w, p, t) PROVE Own'
    BY <1>1, FrugalOwn, FrugalSame DEF TryRun, threads, maps, history
  <1>2. ASSUME NEW t \in Tasks, JoinInside(w, p, t) PROVE Own'
    <2>1. (TakeResult(home[t], t) \/ UNCHANGED results) /\ UNCHANGED <<state, panicked>>
      BY <1>2 DEF JoinInside, threads, history
    <2> QED
      BY <2>1, FrugalTake, FrugalOwn
  <1>3. CASE Recycle(w, p) \/ Idle(w, p) \/ Suspend(w, p)
    BY <1>3, FrugalOwn, FrugalSame DEF Recycle, Idle, Suspend, maps, history
  <1>4. CASE Begin(w, p) \/ TaskEnd(w, p)
    BY <1>4, FrugalOwn, FrugalSame DEF Begin, TaskEnd, threads, maps, history
  <1>5. CASE Notify(w, p) \/ Spin(w, p)
    BY <1>5, FrugalOwn, FrugalSame DEF Notify, Spin, threads, maps, history
  <1>6. CASE Look(w, p)
    <2>1. Top(w).target \in Tasks
      BY <1>6, BaseFacts, TopFacts DEF Look, At
    <2>2. PICK t \in Tasks : t = Top(w).target
      BY <2>1
    <2>3. (TakeResult(home[t], t) \/ UNCHANGED results) /\ UNCHANGED <<state, panicked>>
      BY <1>6, <2>2 DEF Look, threads, history
    <2> QED
      BY <2>3, FrugalTake, FrugalOwn
  <1>7. CASE sigvtalrm(w, p)
    BY <1>7, FrugalOwn, FrugalSame DEF sigvtalrm, maps, history
  <1>8. ASSUME At(w, "store"), Insert(Top(w).pool, Top(w).task, "done")
        PROVE  /\ Top(w).pool \in Pools /\ Top(w).task \in Tasks /\ Runs(Top(w).task)
               /\ \A q \in Pools, t \in Tasks : <<t, "stopped">> \in results'[q] => <<t, "stopped">> \in results[q]
    <2>1. Top(w).pool \in Pools /\ Top(w).task \in Tasks /\ Runs(Top(w).task)
      BY <1>8, BaseFacts, TopFacts DEF At, Live
    <2>2. "stopped" # "done" /\ "stopped" \in Outcomes /\ "done" \in Outcomes
      BY DEF Outcomes
    <2>3. Insert(Top(w).pool, Top(w).task, "done")
      BY <1>8
    <2> QED
      BY <2>1, <2>3, BaseFacts, InsertOwn
  <1>9. CASE Store(w, p)
    BY <1>8, <1>9, FrugalOwn DEF Store, threads, history, Frugal
  <1>10. CASE StorePanic(w, p)
    <2>1. PICK t \in Tasks, q \in Pools : t = Top(w).task /\ q = Top(w).pool
      BY <1>8, <1>10 DEF StorePanic
    <2>2. Runs(t) /\ Has(q, t) /\ UNCHANGED state
      BY <1>8, <1>10, <2>1 DEF StorePanic
    <2>3. <<t, "stopped">> \in results[q]
      <3>1. ~Done(t)
        BY <2>2, BaseFacts DEF TaskOK
      <3> QED
        BY <2>2, <3>1 DEF Has, Done, Outcomes
    <2>4. Stopped
      BY <2>3 DEF Own
    <2> QED
      BY <2>2, <2>4 DEF Own, Stopped
  <1> QED
    BY <1>1, <1>2, <1>3, <1>4, <1>5, <1>6, <1>7, <1>9, <1>10 DEF WorkerStep

\* Only do_stop gives a result that is not the task's own.
LEMMA OwnNext == ASSUME Base, Own, Next PROVE Own'
  <1>1. ASSUME NEW p \in Pools, Schedule(p) \/ Return(p) \/ sigvtalrm_ignored(p) \/ do_stop_again(p)
        PROVE  Own'
    BY <1>1, FrugalOwn, FrugalSame
       DEF Schedule, Return, sigvtalrm_ignored, do_stop_again, maps, history
  <1>2. ASSUME NEW p \in Pools, NEW w \in Workers, PopReady(p, w) PROVE Own'
    BY <1>2, FrugalOwn, FrugalSame DEF PopReady, maps
  <1>3. ASSUME NEW p \in Pools, do_stop(p) PROVE Own'
    <2>1. state'[p] = "Stopped"
      BY <1>3, BaseFacts DEF do_stop, ThreadType
    <2> QED
      BY <2>1 DEF Own, Stopped
  <1>4. ASSUME NEW p \in Pools, stopping(p) PROVE Own'
    <2>1. /\ UNCHANGED <<panicked, results>> /\ state[p] = "Running"
          /\ state' = [state EXCEPT ![p] = "Stopping"]
      BY <1>4 DEF stopping, maps, history
    <2>2. ASSUME Stopped PROVE Stopped'
      <3>1. PICK q \in Pools : state[q] = "Stopped"
        BY <2>2 DEF Stopped
      <3>2. state'[q] = "Stopped"
        BY <2>1, <3>1, BaseFacts DEF ThreadType
      <3> QED
        BY <3>2 DEF Stopped
    <2> QED
      BY <2>1, <2>2 DEF Own
  <1>5. ASSUME NEW t \in Tasks, Register(t) \/ Forget(t) \/ Submit(t) \/ try_cancel_task(t) PROVE Own'
    BY <1>5, FrugalOwn, FrugalSame
       DEF Register, Forget, Submit, try_cancel_task, threads, maps, history
  <1>6. ASSUME NEW t \in Tasks, Wake(t) \/ Join(t) \/ Drop(t) PROVE Own'
    <2>1. (TakeResult(home[t], t) \/ UNCHANGED results) /\ UNCHANGED <<state, panicked>>
      BY <1>6 DEF Wake, Join, Drop, threads, history
    <2> QED
      BY <2>1, FrugalTake, FrugalOwn
  <1> QED
    BY <1>1, <1>2, <1>3, <1>4, <1>5, <1>6, WorkerOwn DEF Next, ThreadStep, ClientStep, ClientCall

\* Every step keeps the invariant.
LEMMA PoolNext == PoolInv /\ [Next]_vars => PoolInv'
  <1>1. ASSUME PoolInv, Next PROVE PoolInv'
    <2>1. Base /\ Asked /\ Own /\ Typed
      BY <1>1 DEF PoolInv, Base
    <2>2. Typed'
      BY <1>1, <2>1, TypedNext
    <2>3. Good' /\ Asked' /\ Own'
      BY <1>1, <2>1, GoodNext, AskedNext, OwnNext
    <2> QED
      BY <2>2, <2>3 DEF Good, PoolInv
  <1>2. ASSUME PoolInv, UNCHANGED vars PROVE PoolInv'
    <2>1. Base /\ Asked /\ Own /\ Typed
      BY <1>2 DEF PoolInv, Base
    <2>2. Typed'
      BY <1>2, <2>1, TypedNext
    <2>3. Good'
      <3>1. UNCHANGED <<queue, frames, results, waits, no_waits, client, home, pending>>
        BY <1>2 DEF vars, maps, clients, workers
      <3> QED
        BY <2>1, <3>1, SameStep
    <2>4. Asked' /\ Own'
      BY <1>2, <2>1 DEF Asked, Own, Stopped, vars, threads, maps, statics, history
    <2> QED
      BY <2>2, <2>3, <2>4 DEF Good, PoolInv
  <1> QED
    BY <1>1, <1>2

\* PoolInv is an invariant of the pools: no interleaving of workers, holders,
\* cancellations and stopping pools puts a task on two stacks, or a result
\* before the end of its task (submit_task, try_run, wait_task_result,
\* clean_task_result, try_cancel_task, stop).
THEOREM PoolInvariant == Spec => []PoolInv
  BY PoolInit, PoolNext, PTL DEF Spec

\* The assertion of try_run that no result is replaced holds in every
\* execution, for every number of pools, workers and tasks, as long as no pool
\* has stopped.
THEOREM AssertionsHold == Spec => []NoPanic
  <1>1. PoolInv => NoPanic
    BY DEF PoolInv, Own, Stopped, NoPanic
  <1> QED
    BY <1>1, PoolInvariant, PTL

\* A waiter of wait_task_result that was woken by notify finds the result:
\* nobody else takes it between the wake-up and the second look.
THEOREM WokenFinds == Spec => []NotifiedFindsResult
  <1>1. PoolInv => NotifiedFindsResult
    BY DEF PoolInv, TaskOK, NotifiedFindsResult
  <1> QED
    BY <1>1, PoolInvariant, PTL

\* The life of a task, from where it is.
LEMMA LifeNow ==
  ASSUME NEW t \in Tasks, TaskOK(t)
  PROVE  /\ client[t] \in {"new", "refused"} => LifeOf(t) = "new"
         /\ client[t] \notin {"new", "refused"} /\ t \in queue => LifeOf(t) = "queued"
         /\ client[t] \notin {"new", "refused"} /\ Runs(t) => LifeOf(t) = "running"
         /\ client[t] \notin {"new", "refused"} /\ Done(t) => LifeOf(t) = "done"
         /\ client[t] \notin {"new", "refused"} /\ t \notin queue /\ ~Runs(t) /\ ~Done(t) => LifeOf(t) = "over"
  <1>1. /\ client[t] \in {"new", "refused"} => t \notin queue /\ ~Runs(t) /\ ~Done(t)
        /\ t \in queue => ~Runs(t) /\ ~Done(t)
        /\ Runs(t) => ~Done(t)
    BY DEF TaskOK, Held, Runs, InFrame, Live, Steps
  <1>2. LifeOf(t) = CASE client[t] \in {"new", "refused"} -> "new"
                      [] t \in queue -> "queued"
                      [] Runs(t) -> "running"
                      [] Done(t) -> "done"
                      [] OTHER -> "over"
    BY DEF LifeOf, Runs, Live, Done
  <1> QED
    BY <1>1, <1>2

\* The same after a step.
LEMMA LifeThen ==
  ASSUME NEW t \in Tasks, TaskOK(t)'
  PROVE  /\ client'[t] \in {"new", "refused"} => LifeOf(t)' = "new"
         /\ client'[t] \notin {"new", "refused"} /\ t \in queue' => LifeOf(t)' = "queued"
         /\ client'[t] \notin {"new", "refused"} /\ Runs(t)' => LifeOf(t)' = "running"
         /\ client'[t] \notin {"new", "refused"} /\ Done(t)' => LifeOf(t)' = "done"
         /\ client'[t] \notin {"new", "refused"} /\ t \notin queue' /\ ~Runs(t)' /\ ~Done(t)' =>
              LifeOf(t)' = "over"
  <1>1. /\ client'[t] \in {"new", "refused"} => t \notin queue' /\ ~Runs(t)' /\ ~Done(t)'
        /\ t \in queue' => ~Runs(t)' /\ ~Done(t)'
        /\ Runs(t)' => ~Done(t)'
    BY DEF TaskOK, Held, Runs, InFrame, Live, Steps
  <1>2. LifeOf(t)' = CASE client'[t] \in {"new", "refused"} -> "new"
                       [] t \in queue' -> "queued"
                       [] Runs(t)' -> "running"
                       [] Done(t)' -> "done"
                       [] OTHER -> "over"
    BY DEF LifeOf, Runs, Live, Done
  <1> QED
    BY <1>1, <1>2

\* A step that moves the task nowhere keeps its life.
LEMMA LifeSame ==
  ASSUME NEW t \in Tasks, TaskOK(t), TaskOK(t)', Same(t)
  PROVE  LifeOf(t)' = LifeOf(t)
  <1>1. CASE client[t] \in {"new", "refused"}
    BY <1>1, LifeNow, LifeThen DEF Same
  <1>2. CASE client[t] \notin {"new", "refused"} /\ t \in queue
    <2>1. LifeOf(t) = "queued"
      BY <1>2, LifeNow
    <2>2. client'[t] \notin {"new", "refused"} /\ t \in queue'
      BY <1>2 DEF Same
    <2>3. LifeOf(t)' = "queued"
      BY <2>2, LifeThen
    <2> QED
      BY <2>1, <2>3
  <1>3. CASE client[t] \notin {"new", "refused"} /\ Runs(t)
    <2>1. LifeOf(t) = "running"
      BY <1>3, LifeNow
    <2>2. client'[t] \notin {"new", "refused"} /\ Runs(t)'
      BY <1>3 DEF Same
    <2>3. LifeOf(t)' = "running"
      BY <2>2, LifeThen
    <2> QED
      BY <2>1, <2>3
  <1>4. CASE client[t] \notin {"new", "refused"} /\ Done(t)
    <2>1. LifeOf(t) = "done"
      BY <1>4, LifeNow
    <2>2. client'[t] \notin {"new", "refused"} /\ Done(t)'
      BY <1>4 DEF Same
    <2>3. LifeOf(t)' = "done"
      BY <2>2, LifeThen
    <2> QED
      BY <2>1, <2>3
  <1>5. CASE client[t] \notin {"new", "refused"} /\ t \notin queue /\ ~Runs(t) /\ ~Done(t)
    <2>1. LifeOf(t) = "over"
      BY <1>5, LifeNow
    <2>2. client'[t] \notin {"new", "refused"} /\ t \notin queue' /\ ~Runs(t)' /\ ~Done(t)'
      BY <1>5 DEF Same
    <2>3. LifeOf(t)' = "over"
      BY <2>2, LifeThen
    <2> QED
      BY <2>1, <2>3
  <1> QED
    BY <1>1, <1>2, <1>3, <1>4, <1>5

\* A task that runs is on a stack.
LEMMA RunsHeld == ASSUME NEW t, ~Held(t) PROVE ~Runs(t)
  BY DEF Held, Runs, InFrame, Live, Steps

\* The tasks whose handle was dropped.
Abandoned == {t \in Tasks : client[t] \in {"forget", "dropped"}}
\* The lives of all tasks, as TaskLife sees them.
Lives == [t \in Tasks |-> LifeOf(t)]

\* What a step does to one task, and to no other.
Moves(t, a, b) == LifeOf(t) = a /\ LifeOf(t)' = b /\ \A u \in Tasks \ {t} : LifeOf(u)' = LifeOf(u)

\* The lives after one task has moved...
LEMMA LivesMove ==
  ASSUME NEW t \in Tasks, NEW a, NEW b, Moves(t, a, b)
  PROVE  Lives[t] = a /\ Lives' = [Lives EXCEPT ![t] = b]
  BY DEF Moves, Lives

\* ... and after none has.
LEMMA LivesSame ==
  ASSUME \A u \in Tasks : LifeOf(u)' = LifeOf(u)
  PROVE  Lives' = Lives
  BY DEF Lives

\* The invariant of the tasks before and after a step.
Ok == Base /\ \A t \in Tasks : TaskOK(t)'

\* The classes of steps, seen by TaskLife: nothing happens,...
LEMMA AllSameLives == ASSUME Ok, AllSame PROVE Lives' = Lives
  <1>1. \A u \in Tasks : LifeOf(u)' = LifeOf(u)
    BY BaseFacts, LifeSame DEF Ok, AllSame
  <1> QED
    BY <1>1, LivesSame

\* ... a queued task runs,...
LEMMA StartsLives == ASSUME Ok, NEW t \in Tasks, Starts(t) PROVE Moves(t, "queued", "running")
  <1>1. TaskOK(t) /\ TaskOK(t)' /\ client[t] \notin {"new", "refused"} /\ client' = client
    BY BaseFacts DEF Ok, Starts, TaskOK
  <1>2. LifeOf(t) = "queued"
    BY <1>1, LifeNow DEF Starts
  <1>3. LifeOf(t)' = "running"
    BY <1>1, LifeThen DEF Starts
  <1>4. ASSUME NEW u \in Tasks \ {t} PROVE LifeOf(u)' = LifeOf(u)
    <2>1. TaskOK(u) /\ TaskOK(u)' /\ Same(u)
      BY BaseFacts DEF Ok, Starts, Same
    <2> QED
      BY <2>1, LifeSame
  <1> QED
    BY <1>2, <1>3, <1>4 DEF Moves

\* ... a queued task is over without having run,...
LEMMA DiscardsLives == ASSUME Ok, NEW t \in Tasks, Discards(t) PROVE Moves(t, "queued", "over")
  <1>1. TaskOK(t) /\ TaskOK(t)' /\ client[t] \notin {"new", "refused"} /\ client' = client
    BY BaseFacts DEF Ok, Discards, TaskOK
  <1>2. LifeOf(t) = "queued"
    BY <1>1, LifeNow DEF Discards
  <1>3. LifeOf(t)' = "over"
    <2>1. ~Runs(t) /\ ~Done(t)
      BY <1>1, RunsHeld DEF Discards, TaskOK
    <2> QED
      BY <1>1, <2>1, LifeThen DEF Discards
  <1>4. ASSUME NEW u \in Tasks \ {t} PROVE LifeOf(u)' = LifeOf(u)
    <2>1. TaskOK(u) /\ TaskOK(u)' /\ Same(u)
      BY BaseFacts DEF Ok, Discards, Same
    <2> QED
      BY <2>1, LifeSame
  <1> QED
    BY <1>2, <1>3, <1>4 DEF Moves

\* ... a running task is done,...
LEMMA EndsLives == ASSUME Ok, NEW t \in Tasks, Ends(t) PROVE Moves(t, "running", "done")
  <1>1. TaskOK(t) /\ TaskOK(t)' /\ client[t] \notin {"new", "refused"} /\ client' = client
    BY BaseFacts DEF Ok, Ends, TaskOK, Held, Runs, InFrame, Live, Steps
  <1>2. LifeOf(t) = "running"
    BY <1>1, LifeNow DEF Ends
  <1>3. LifeOf(t)' = "done"
    BY <1>1, LifeThen DEF Ends
  <1>4. ASSUME NEW u \in Tasks \ {t} PROVE LifeOf(u)' = LifeOf(u)
    <2>1. TaskOK(u) /\ TaskOK(u)' /\ Same(u)
      BY BaseFacts DEF Ok, Ends, Same
    <2> QED
      BY <2>1, LifeSame
  <1> QED
    BY <1>2, <1>3, <1>4 DEF Moves

\* ... a new task is queued,...
LEMMA QueuesLives == ASSUME Ok, NEW t \in Tasks, Queues(t) PROVE Moves(t, "new", "queued")
  <1>1. TaskOK(t) /\ TaskOK(t)' /\ client[t] \in {"new", "refused"}
    BY BaseFacts DEF Ok, Queues
  <1>2. LifeOf(t) = "new"
    BY <1>1, LifeNow
  <1>3. LifeOf(t)' = "queued"
    BY <1>1, LifeThen DEF Queues
  <1>4. ASSUME NEW u \in Tasks \ {t} PROVE LifeOf(u)' = LifeOf(u)
    <2>1. TaskOK(u) /\ TaskOK(u)' /\ Same(u)
      BY BaseFacts DEF Ok, Queues
    <2> QED
      BY <2>1, LifeSame
  <1> QED
    BY <1>2, <1>3, <1>4 DEF Moves

\* ... the result of a task that is done is taken, if there was one,...
LEMMA TakesLives ==
  ASSUME Ok, NEW t \in Tasks, Takes(t)
  PROVE  Moves(t, "done", "over") \/ Lives' = Lives
  <1>1. TaskOK(t) /\ TaskOK(t)' /\ client[t] \notin {"new", "refused"} /\ client'[t] \notin {"new", "refused"}
    BY BaseFacts DEF Ok, Takes
  <1>4. ASSUME NEW u \in Tasks \ {t} PROVE LifeOf(u)' = LifeOf(u)
    <2>1. TaskOK(u) /\ TaskOK(u)' /\ Same(u)
      BY BaseFacts DEF Ok, Takes, Same
    <2> QED
      BY <2>1, LifeSame
  <1>5. CASE Done(t) /\ ~Done(t)'
    <2>1. LifeOf(t) = "done"
      BY <1>1, <1>5, LifeNow
    <2>2. t \notin queue /\ ~Runs(t)
      BY <1>1, <1>5 DEF TaskOK
    <2>3. LifeOf(t)' = "over"
      BY <1>1, <1>5, <2>2, LifeThen DEF Takes
    <2> QED
      BY <1>4, <2>1, <2>3 DEF Moves
  <1>6. CASE Done(t)' <=> Done(t)
    <2>1. Same(t)
      BY <1>1, <1>6 DEF Same, Takes
    <2>2. \A u \in Tasks : LifeOf(u)' = LifeOf(u)
      BY <1>1, <1>4, <2>1, LifeSame
    <2> QED
      BY <2>2, LivesSame
  <1> QED
    BY <1>5, <1>6 DEF Takes

\* A task is in one of the five phases of TaskLife.
LEMMA LifeRange ==
  ASSUME NEW t \in Tasks, TaskOK(t)'
  PROVE  LifeOf(t)' \in {"new", "queued", "running", "done", "over"}
  <1>1. \/ client'[t] \in {"new", "refused"}
        \/ client'[t] \notin {"new", "refused"} /\ t \in queue'
        \/ client'[t] \notin {"new", "refused"} /\ Runs(t)'
        \/ client'[t] \notin {"new", "refused"} /\ Done(t)'
        \/ client'[t] \notin {"new", "refused"} /\ t \notin queue' /\ ~Runs(t)' /\ ~Done(t)'
    OBVIOUS
  <1> QED
    BY <1>1, LifeThen

\* ... or running tasks disappear, each for a reason.
LEMMA FadesLives ==
  ASSUME Ok, Fades
  PROVE  /\ Lives' \in [Tasks -> {"new", "queued", "running", "done", "over"}]
         /\ \A t \in Tasks : Lives'[t] # Lives[t] => /\ Lives'[t] = "over"
                                                     /\ Lives[t] = "running"
                                                     /\ asked # {} \/ t \in Abandoned
  <1>1. \A t \in Tasks : TaskOK(t) /\ TaskOK(t)'
    BY BaseFacts DEF Ok
  <1>2. Lives' \in [Tasks -> {"new", "queued", "running", "done", "over"}]
    BY <1>1, LifeRange DEF Lives
  <1>3. ASSUME NEW t \in Tasks, LifeOf(t)' # LifeOf(t)
        PROVE  LifeOf(t)' = "over" /\ LifeOf(t) = "running" /\ (asked # {} \/ t \in Abandoned)
    <2>1. Runs(t) /\ ~Runs(t)'
      <3>1. ~Same(t)
        BY <1>1, <1>3, LifeSame
      <3> QED
        BY <3>1 DEF Same, Fades
    <2>2. t \notin queue /\ ~Done(t) /\ client[t] \notin {"new", "refused"}
      BY <1>1, <2>1, RunsHeld DEF TaskOK
    <2>3. LifeOf(t) = "running"
      BY <1>1, <2>1, <2>2, LifeNow
    <2>4. LifeOf(t)' = "over"
      <3>1. t \notin queue' /\ ~Done(t)' /\ client'[t] \notin {"new", "refused"}
        BY <2>2 DEF Fades
      <3> QED
        BY <1>1, <2>1, <3>1, LifeThen
    <2> QED
      BY <2>1, <2>3, <2>4 DEF Fades, Abandoned
  <1>4. \A t \in Tasks : Lives[t] = LifeOf(t) /\ Lives'[t] = LifeOf(t)'
    BY DEF Lives
  <1> QED
    BY <1>2, <1>3, <1>4

-----------------------------------------------------------------------------
(* The steps of TaskLife.                                                  *)

\* What a step that asks, abandons and stops nothing keeps.
Kept == UNCHANGED asked /\ Abandoned' = Abandoned /\ Stopped' = Stopped

\* A task that moves makes the move of TaskLife...
LEMMA MapMove ==
  ASSUME Kept, NEW t \in Tasks, NEW a, NEW b, Moves(t, a, b)
  PROVE  Life!Move(t, a, b)
  <1>1. Lives[t] = a /\ Lives' = [Lives EXCEPT ![t] = b]
    BY LivesMove
  <1> QED
    BY <1>1 DEF Life!Move, Lives, Kept, Abandoned, Stopped

\* ... a step that moves none is none of TaskLife...
LEMMA MapSame ==
  ASSUME Kept, Lives' = Lives
  PROVE  UNCHANGED Life!lifeVars
  BY DEF Life!lifeVars, Lives, Kept, Abandoned, Stopped

\* ... and losing tasks is Vanish.
LEMMA MapVanish ==
  ASSUME Kept, Ok, Fades
  PROVE  Life!Vanish
  BY FadesLives DEF Life!Vanish, Lives, Kept, Abandoned, Stopped

\* Every class of steps of a thread is a step of TaskLife.
LEMMA MapWorks ==
  ASSUME Kept, Ok, Asked, Works
  PROVE  Life!LifeNext \/ UNCHANGED Life!lifeVars
  <1>1. CASE AllSame
    BY <1>1, AllSameLives, MapSame
  <1>2. CASE Fades
    BY <1>2, MapVanish DEF Life!LifeNext
  <1>3. ASSUME NEW t \in Tasks, Starts(t) PROVE Life!LifeNext
    <2>1. Life!Start(t)
      BY <1>3, StartsLives, MapMove DEF Life!Start
    <2> QED
      BY <2>1 DEF Life!LifeNext
  <1>4. ASSUME NEW t \in Tasks, Discards(t) PROVE Life!LifeNext
    <2>1. Life!Discard(t)
      BY <1>4, DiscardsLives, MapMove DEF Life!Discard, Discards, Asked
    <2> QED
      BY <2>1 DEF Life!LifeNext
  <1>5. ASSUME NEW t \in Tasks, Ends(t) PROVE Life!LifeNext
    <2>1. Life!Finish(t)
      BY <1>5, EndsLives, MapMove DEF Life!Finish
    <2> QED
      BY <2>1 DEF Life!LifeNext
  <1>6. ASSUME NEW t \in Tasks, Takes(t) PROVE Life!LifeNext \/ UNCHANGED Life!lifeVars
    <2>1. Life!Take(t) \/ UNCHANGED Life!lifeVars
      BY <1>6, TakesLives, MapMove, MapSame DEF Life!Take
    <2> QED
      BY <2>1 DEF Life!LifeNext
  <1> QED
    BY <1>1, <1>2, <1>3, <1>4, <1>5, <1>6 DEF Works

\* Submitting a task is Queue.
LEMMA MapQueues ==
  ASSUME Kept, Ok, NEW t \in Tasks, Queues(t)
  PROVE  Life!LifeNext
  <1>1. Life!Queue(t)
    BY QueuesLives, MapMove DEF Life!Queue
  <1> QED
    BY <1>1 DEF Life!LifeNext

\* Asking for a cancellation is Ask.
LEMMA MapAsk ==
  ASSUME Lives' = Lives, Abandoned' = Abandoned, Stopped' = Stopped,
         NEW t \in Tasks, asked' = asked \cup {t}
  PROVE  Life!LifeNext
  <1>1. Life!Ask(t)
    BY DEF Life!Ask, Lives, Abandoned, Stopped
  <1> QED
    BY <1>1 DEF Life!LifeNext

\* Dropping a handle is Abandon.
LEMMA MapAbandon ==
  ASSUME Stopped' = Stopped, UNCHANGED asked, NEW t \in Tasks, Abandoned' = Abandoned \cup {t},
         Moves(t, "done", "over") \/ Lives' = Lives
  PROVE  Life!LifeNext
  <1>1. Lives' = Lives \/ (Lives[t] = "done" /\ Lives' = [Lives EXCEPT ![t] = "over"])
    BY LivesMove
  <1>2. Life!Abandon(t)
    BY <1>1 DEF Life!Abandon, Lives, Abandoned, Stopped
  <1> QED
    BY <1>2 DEF Life!LifeNext

\* Stopping a pool is Stop.
LEMMA MapStop ==
  ASSUME Stopped' = TRUE, UNCHANGED asked, Abandoned' = Abandoned,
         Lives' = Lives \/ \E t \in Tasks : Moves(t, "done", "over")
  PROVE  Life!LifeNext
  <1>1. Lives' = Lives \/ \E t \in Tasks : Lives[t] = "done" /\ Lives' = [Lives EXCEPT ![t] = "over"]
    BY LivesMove
  <1>2. Life!Stop
    BY <1>1 DEF Life!Stop, Lives, Abandoned, Stopped
  <1> QED
    BY <1>2 DEF Life!LifeNext

\* Which handles are gone changes with the state of one holder at most.
LEMMA HandlesKept ==
  ASSUME ClientType, NEW t \in Tasks, NEW k, client' = [client EXCEPT ![t] = k],
         k \in {"forget", "dropped"} <=> client[t] \in {"forget", "dropped"}
  PROVE  Abandoned' = Abandoned
  <1>1. \A u \in Tasks : client'[u] = IF u = t THEN k ELSE client[u]
    BY DEF ClientType
  <1>2. \A u \in Tasks : client'[u] \in {"forget", "dropped"} <=> client[u] \in {"forget", "dropped"}
    BY <1>1
  <1> QED
    BY <1>2 DEF Abandoned

\* No handle is dropped while the holders do nothing.
LEMMA HandlesSame == ASSUME UNCHANGED client PROVE Abandoned' = Abandoned
  BY DEF Abandoned

\* No pool stops while its state stays.
LEMMA StoppedSame == ASSUME UNCHANGED state PROVE Stopped' = Stopped
  BY DEF Stopped

\* A worker asks for nothing, drops no handle of another and stops no pool.
LEMMA WorkerKept ==
  ASSUME Base, NEW w \in Workers, NEW p \in Pools, WorkerStep(w, p)
  PROVE  Kept
  <1>1. UNCHANGED asked
    BY WorkerCalm DEF Calm
  <1>2. ASSUME UNCHANGED <<state, client>> PROVE Kept
    BY <1>1, <1>2, HandlesSame, StoppedSame DEF Kept
  <1>3. ASSUME NEW t \in Tasks, TryRun(w, p, t) PROVE Kept
    BY <1>2, <1>3 DEF TryRun, threads, clients
  <1>4. CASE Recycle(w, p) \/ Idle(w, p) \/ Begin(w, p) \/ Suspend(w, p) \/ TaskEnd(w, p)
    BY <1>2, <1>4 DEF Recycle, Idle, Begin, Suspend, TaskEnd, threads, clients
  <1>5. CASE Store(w, p) \/ StorePanic(w, p) \/ Notify(w, p) \/ Spin(w, p) \/ sigvtalrm(w, p)
    BY <1>2, <1>5 DEF Store, StorePanic, Notify, Spin, sigvtalrm, threads, clients
  <1>6. ASSUME NEW t \in Tasks, UNCHANGED state, client[t] \in {"idle", "over"},
               client' = [client EXCEPT ![t] = "over"]
        PROVE  Kept
    <2>1. "over" \in {"forget", "dropped"} <=> client[t] \in {"forget", "dropped"}
      BY <1>6
    <2> QED
      BY <1>1, <1>6, <2>1, BaseFacts, HandlesKept, StoppedSame DEF Kept
  <1>7. ASSUME NEW t \in Tasks, JoinInside(w, p, t) PROVE Kept
    <2>1. /\ UNCHANGED state /\ client[t] = "idle"
          /\ client' = [client EXCEPT ![t] = "over"] \/ UNCHANGED client
      BY <1>7 DEF JoinInside, threads
    <2> QED
      BY <1>2, <1>6, <2>1
  <1>8. CASE Look(w, p)
    <2>1. /\ UNCHANGED state /\ Depth(w) > 0 /\ Top(w).at = "look"
          /\ client' = [client EXCEPT ![Top(w).target] = "over"] \/ UNCHANGED client
      BY <1>8 DEF Look, At, threads
    <2>2. PICK t \in Tasks : t = Top(w).target
      BY <2>1, BaseFacts, TopFacts
    <2>3. client[t] \in {"idle", "over"}
      <3>1. CallOK(Top(w).at, t, Top(w).pool, Top(w).task)
        BY <2>1, <2>2, BaseFacts, TopFacts DEF CallsOK
      <3> QED
        BY <2>1, <3>1 DEF CallOK
    <2>4. client' = [client EXCEPT ![t] = "over"] \/ UNCHANGED client
      BY <2>1, <2>2
    <2> QED
      BY <1>2, <1>6, <2>1, <2>3, <2>4
  <1> QED
    BY <1>3, <1>4, <1>5, <1>7, <1>8 DEF WorkerStep

\* Neither does the thread of a pool before the end of do_stop.
LEMMA ThreadKept ==
  ASSUME Base, NEW p \in Pools,
         \/ Schedule(p) \/ Return(p) \/ sigvtalrm_ignored(p) \/ do_stop_again(p) \/ stopping(p)
         \/ \E w \in Workers : PopReady(p, w)
  PROVE  Kept
  <1>1. UNCHANGED asked
    <2>1. Calm
      BY ThreadCalm DEF ThreadStep
    <2> QED
      BY <2>1 DEF Calm
  <1>2. UNCHANGED client
    BY DEF Schedule, Return, sigvtalrm_ignored, do_stop_again, stopping, PopReady, clients
  <1>3. CASE UNCHANGED state
    BY <1>1, <1>2, <1>3, HandlesSame, StoppedSame DEF Kept
  <1>4. CASE stopping(p)
    <2>1. state[p] = "Running" /\ state' = [state EXCEPT ![p] = "Stopping"]
      BY <1>4 DEF stopping
    <2>2. \A q \in Pools : state'[q] = "Stopped" <=> state[q] = "Stopped"
      <3>1. \A q \in Pools : state'[q] = IF q = p THEN "Stopping" ELSE state[q]
        BY <2>1, BaseFacts DEF ThreadType
      <3>2. state'[p] = "Stopping" /\ "Stopping" # "Stopped" /\ "Running" # "Stopped"
        BY <3>1
      <3>3. \A q \in Pools \ {p} : state'[q] = state[q]
        BY <3>1
      <3> QED
        BY <2>1, <3>2, <3>3
    <2>3. Stopped' = Stopped
      <3>1. Stopped' <=> Stopped
        BY <2>2 DEF Stopped
      <3> QED
        BY <3>1 DEF Stopped
    <2> QED
      BY <1>1, <1>2, <2>3, HandlesSame DEF Kept
  <1> QED
    BY <1>3, <1>4 DEF Schedule, Return, sigvtalrm_ignored, do_stop_again, PopReady

\* Neither does the holder of a handle, except by try_cancel_task and drop.
LEMMA HolderKept ==
  ASSUME Base, NEW t \in Tasks, Submit(t) \/ Join(t) \/ Register(t) \/ Wake(t) \/ Forget(t)
  PROVE  Kept
  <1>1. UNCHANGED <<state, asked>>
    BY DEF Submit, Join, Register, Wake, Forget, threads, history
  <1>2. \/ /\ client[t] \in {"new", "idle", "register", "wait"}
           /\ \E k \in {"idle", "refused", "over", "register", "wait"} : client' = [client EXCEPT ![t] = k]
        \/ client[t] = "forget" /\ client' = [client EXCEPT ![t] = "dropped"]
    BY DEF Submit, Join, Register, Wake, Forget
  <1>3. PICK k : /\ client' = [client EXCEPT ![t] = k]
                 /\ k \in {"forget", "dropped"} <=> client[t] \in {"forget", "dropped"}
    BY <1>2
  <1> QED
    BY <1>1, <1>3, BaseFacts, HandlesKept, StoppedSame DEF Kept

\* Every step of the pools is one of TaskLife, or none.
LEMMA LifeStep ==
  ASSUME PoolInv, PoolInv', Next
  PROVE  Life!LifeNext \/ UNCHANGED Life!lifeVars
  <1>1. Base /\ Ok /\ Asked
    BY DEF PoolInv, Base, Ok
  <1>2. ASSUME NEW p \in Pools, NEW w \in Workers, WorkerStep(w, p)
        PROVE  Life!LifeNext \/ UNCHANGED Life!lifeVars
    BY <1>1, <1>2, WorkerLives, WorkerKept, MapWorks
  <1>3. ASSUME NEW p \in Pools, NEW w \in Workers, PopReady(p, w)
        PROVE  Life!LifeNext \/ UNCHANGED Life!lifeVars
    BY <1>1, <1>3, PopLives, ThreadKept, MapWorks
  <1>4. ASSUME NEW p \in Pools,
               Schedule(p) \/ Return(p) \/ sigvtalrm_ignored(p) \/ do_stop_again(p) \/ stopping(p)
        PROVE  Life!LifeNext \/ UNCHANGED Life!lifeVars
    <2>1. AllSame /\ Kept
      BY <1>1, <1>4, QuietLives, ThreadKept
    <2> QED
      BY <1>1, <2>1, MapWorks DEF Works
  <1>5. ASSUME NEW p \in Pools, do_stop(p) PROVE Life!LifeNext
    <2>1. state' = [state EXCEPT ![p] = "Stopped"] /\ UNCHANGED <<client, asked>>
      BY <1>5 DEF do_stop, clients, history
    <2>2. Stopped' = TRUE
      <3>1. state'[p] = "Stopped"
        BY <1>1, <2>1, BaseFacts DEF ThreadType
      <3>2. Stopped'
        BY <3>1 DEF Stopped
      <3> QED
        BY <3>2 DEF Stopped
    <2>3. AllSame \/ \E t \in Tasks : Takes(t)
      BY <1>1, <1>5, StopStep
    <2>4. Lives' = Lives \/ \E t \in Tasks : Moves(t, "done", "over")
      BY <1>1, <2>3, AllSameLives, TakesLives
    <2> QED
      BY <2>1, <2>2, <2>4, HandlesSame, MapStop
  <1>6. ASSUME NEW t \in Tasks, Register(t) \/ Wake(t) \/ Forget(t) \/ Join(t)
        PROVE  Life!LifeNext \/ UNCHANGED Life!lifeVars
    <2>1. (AllSame \/ Takes(t)) /\ Kept
      BY <1>1, <1>6, RegisterStep, JoinStep, HolderKept
    <2> QED
      BY <1>1, <2>1, MapWorks DEF Works
  <1>7. ASSUME NEW t \in Tasks, Submit(t) PROVE Life!LifeNext \/ UNCHANGED Life!lifeVars
    <2>1. (AllSame \/ Queues(t)) /\ Kept
      BY <1>1, <1>7, SubmitStep, HolderKept
    <2> QED
      BY <1>1, <2>1, MapWorks, MapQueues DEF Works
  <1>8. ASSUME NEW t \in Tasks, Drop(t) PROVE Life!LifeNext
    <2>1. /\ client' = [client EXCEPT ![t] = "dropped"] \/ client' = [client EXCEPT ![t] = "forget"]
          /\ UNCHANGED <<state, asked>>
      BY <1>8 DEF Drop, threads, history
    <2>2. Abandoned' = Abandoned \cup {t}
      <3>1. \A u \in Tasks : client'[u] \in {"forget", "dropped"} <=>
                               client[u] \in {"forget", "dropped"} \/ u = t
        BY <1>1, <2>1, BaseFacts DEF ClientType
      <3> QED
        BY <3>1 DEF Abandoned
    <2>3. Moves(t, "done", "over") \/ Lives' = Lives
      BY <1>1, <1>8, DropStep, AllSameLives, TakesLives
    <2> QED
      BY <2>1, <2>2, <2>3, StoppedSame, MapAbandon
  <1>9. ASSUME NEW t \in Tasks, try_cancel_task(t) PROVE Life!LifeNext
    <2>1. UNCHANGED <<state, client>> /\ asked' = asked \cup {t}
      BY <1>9 DEF try_cancel_task, clients
    <2>2. Lives' = Lives
      BY <1>1, <1>9, CancelLives, AllSameLives
    <2> QED
      BY <2>1, <2>2, HandlesSame, StoppedSame, MapAsk
  <1> QED
    BY <1>2, <1>3, <1>4, <1>5, <1>6, <1>7, <1>8, <1>9 DEF Next, ThreadStep, ClientStep, ClientCall

\* New pools are a new TaskLife.
LEMMA LifeStart == Init => Life!LifeInit
  <1> SUFFICES ASSUME Init PROVE Life!LifeInit
    OBVIOUS
  <1>1. \A t \in Tasks : TaskOK(t)
    BY PoolInit DEF PoolInv
  <1>2. client = [t \in Tasks |-> "new"] /\ asked = {} /\ state = [p \in Pools |-> "Running"]
    BY DEF Init
  <1>3. \A t \in Tasks : client[t] = "new"
    BY <1>2
  <1>4. Lives = [t \in Tasks |-> "new"]
    <2>1. \A t \in Tasks : LifeOf(t) = "new"
      BY <1>1, <1>3, LifeNow
    <2> QED
      BY <2>1 DEF Lives
  <1>5. Abandoned = {}
    BY <1>3 DEF Abandoned
  <1>6. Stopped = FALSE
    <2>1. ~Stopped
      BY <1>2 DEF Stopped
    <2> QED
      BY <2>1 DEF Stopped
  <1> QED
    BY <1>2, <1>4, <1>5, <1>6 DEF Life!LifeInit, Lives, Abandoned, Stopped

\* When nothing changes, no life does.
LEMMA LifeStutter == ASSUME UNCHANGED vars PROVE UNCHANGED Life!lifeVars
  <1>1. UNCHANGED <<queue, frames, results, state, client, asked>>
    BY DEF vars, threads, workers, maps, clients, history
  <1>2. \A t \in Tasks : LifeOf(t)' = LifeOf(t)
    BY <1>1 DEF LifeOf, InFrame
  <1> QED
    BY <1>1, <1>2, LivesSame, HandlesSame, StoppedSame, MapSame DEF Kept

\* The pools implement TaskLife, for every number of pools, workers and tasks:
\* a task is started at most once, ends at most once, and disappears without a
\* result only when it was cancelled, its handle was dropped, a cancellation hit
\* its worker or a pool stopped (submit_task, try_run, wait_task_result,
\* clean_task_result, try_cancel_task, stop).
THEOREM TasksLiveProved == Spec => TasksLive
  <1>1. PoolInv /\ PoolInv' /\ [Next]_vars => [Life!LifeNext]_(Life!lifeVars)
    BY LifeStep, LifeStutter
  <1> QED
    BY <1>1, LifeStart, PoolInvariant, PTL DEF Spec, TasksLive, Life!LifeSpec
=============================================================================
