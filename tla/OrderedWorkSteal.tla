-------------------------- MODULE OrderedWorkSteal --------------------------
(***************************************************************************)
(* The work-stealing priority queue of core/src/common/                    *)
(* ordered_work_steal.rs: one global queue (an Injector per priority and a *)
(* counter) and NumLocals local queues (a bounded Worker per priority and  *)
(* a counter), each used by the thread that owns it.                       *)
(*                                                                         *)
(* A step is one access to memory that another thread can see.  The        *)
(* global counter is loaded and stored in different steps, because the     *)
(* code does `len.store(len() + 1)`.  The counter of a local queue is      *)
(* read and written by its owner only, so it changes together with the     *)
(* Worker operation next to it.                                            *)
(*                                                                         *)
(* Worker, Stealer and Injector are the crates st3 and crossbeam: they are *)
(* modelled by what the code relies on.  A steal reserves items with one   *)
(* compare-and-swap and publishes them in the thief's Worker later; until  *)
(* then the victim's slots stay occupied and other thieves are told Busy.  *)
(***************************************************************************)
EXTENDS Integers, Sequences, FiniteSets, Functions

CONSTANTS Items,           \* what is queued: coroutines or tasks
          Prio,            \* the priority of each item, smaller first
          NumLocals,       \* local_queues.len()
          LocalCapacity,   \* local_capacity
          WorkerCapacity,  \* slots of a Worker: st3 rounds the capacity up
          GlobalInterval,  \* 61: how often pop() looks at the global queue first
          TickMax,         \* u32::MAX
          NoItem

Locals == 0 .. NumLocals - 1

Prios == Range(Prio)

ASSUME ConstantsAssumption ==
    /\ IsFiniteSet(Items) /\ Items # {} /\ NoItem \notin Items
    /\ Prio \in [Items -> Int]
    /\ NumLocals \in Nat \ {0}
    /\ LocalCapacity \in Nat \ {0}
    /\ WorkerCapacity \in Nat /\ WorkerCapacity >= LocalCapacity
    /\ GlobalInterval \in Nat \ {0}
    /\ TickMax \in Nat

VARIABLES
    fresh,      \* items nobody has pushed yet
    popped,     \* items a pop() has returned
    shared,     \* shared_queue: priority -> Injector
    shared_len, \* OrderedWorkStealQueue.len
    queue,      \* local_queues: local -> priority -> Worker
    reserved,   \* local -> priority -> slots a running steal keeps occupied
    len,        \* OrderedLocalQueue.len
    tick,       \* OrderedLocalQueue.tick
    stealing,   \* OrderedLocalQueue.stealing
    pc,         \* where the owner of each local queue is
    ret,        \* where it goes on after a call of the global queue
    item,       \* the item a push to the global queue was called for
    moving,     \* the item between two queues, or between a queue and the caller
    key,        \* the priority under which it goes into the global queue
    loot,       \* items reserved by a steal and not yet published
    \* The locals of a call are reset when they go out of scope.
    seen,       \* the value of shared_len the thread has loaded
    todo,       \* priorities the running loop has still to visit
    victim,     \* index of the local queue the steal loop looks at
    left,       \* how many local queues the steal loop has still to visit
    count, done \* push_to_global: how many items to move, how many are moved

queues  == <<shared, shared_len, queue, reserved>>
handle  == <<len, tick, stealing>>
control == <<ret, item, moving, key, loot, seen, todo, victim, left, count, done>>
vars    == <<fresh, popped, queues, handle, pc, control>>

First(p, S) == p \in S /\ \A q \in S : p <= q
Last(p, S)  == p \in S /\ \A q \in S : p >= q

Lower(m, n) == IF m <= n THEN m ELSE n

\* Mutant of the next definition: an ordinary subtraction.
WrappingSub(m, n) == m - n

SaturatingSub(m, n) == IF m >= n THEN m - n ELSE 0

Goto(t, l) == pc' = [pc EXCEPT ![t] = l]

-----------------------------------------------------------------------------
(* The Worker of one priority of one local queue.                          *)

\* capacity() - spare_capacity()
Occupied(l, p) == Len(queue[l][p]) + reserved[l][p]

\* The owner's pop: while a steal runs the slot is not given back.
WorkerPop(l, p) ==
    /\ queue[l][p] # <<>>
    /\ queue' = [queue EXCEPT ![l][p] = Tail(@)]
    /\ reserved' = [reserved EXCEPT ![l][p] = IF @ > 0 THEN @ + 1 ELSE 0]

LocalItems(l) == UNION {Range(queue[l][p]) : p \in Prios}

LocallyEmpty(l) == \A p \in Prios : queue[l][p] = <<>>

-----------------------------------------------------------------------------
(* OrderedWorkStealQueue: push_with_priority and pop, as the steps of the  *)
(* thread t that calls them.                                               *)

\* shared_queue.get_or_insert_with(priority, Injector::new).value().push(item)
SharedInject(t) ==
    /\ pc[t] = "inject"
    /\ shared' = [shared EXCEPT ![key[t]] = Append(@, moving[t])]
    /\ moving' = [moving EXCEPT ![t] = NoItem]
    /\ key' = [key EXCEPT ![t] = NoItem]
    /\ Goto(t, "load_add")
    /\ UNCHANGED <<fresh, popped, shared_len, queue, reserved, handle, ret, item,
                   loot, seen, todo, victim, left, count, done>>

\* self.len() of the argument of store(), after a push and after a pop
SharedLoad(t) ==
    /\ pc[t] \in {"load_add", "load_sub"}
    /\ seen' = [seen EXCEPT ![t] = shared_len]
    /\ Goto(t, IF pc[t] = "load_add" THEN "store_add" ELSE "store_sub")
    /\ UNCHANGED <<fresh, popped, queues, handle, ret, item, moving, key, loot, todo,
                   victim, left, count, done>>

SharedStoreAdd(t) ==
    /\ pc[t] = "store_add"
    /\ shared_len' = seen[t] + 1
    /\ seen' = [seen EXCEPT ![t] = 0]
    /\ Goto(t, ret[t])
    /\ UNCHANGED <<fresh, popped, shared, queue, reserved, handle, ret, item, moving, key,
                   loot, todo, victim, left, count, done>>

\* The pop found an item: it is returned to the caller of pop().
SharedStoreSub(t) ==
    /\ pc[t] = "store_sub"
    /\ shared_len' = SaturatingSub(seen[t], 1)
    /\ popped' = popped \cup {moving[t]}
    /\ seen' = [seen EXCEPT ![t] = 0]
    /\ moving' = [moving EXCEPT ![t] = NoItem]
    /\ Goto(t, "idle")
    /\ UNCHANGED <<fresh, shared, queue, reserved, handle, ret, item, key, loot, todo,
                   victim, left, count, done>>

\* The fast path of pop(): is_empty() reads the counter only.
SharedIsEmpty(t) ==
    /\ pc[t] = "is_empty"
    /\ Goto(t, IF shared_len = 0 THEN ret[t] ELSE "scan")
    /\ todo' = [todo EXCEPT ![t] = IF shared_len = 0 THEN {} ELSE Prios]
    /\ UNCHANGED <<fresh, popped, queues, handle, ret, item, moving, key, loot, seen,
                   victim, left, count, done>>

\* entry.value().steal() of the next priority in ascending order
SharedSteal(t) ==
    /\ pc[t] = "scan"
    /\ \E p \in todo[t] :
         /\ First(p, todo[t])
         /\ shared[p] # <<>>
         /\ moving' = [moving EXCEPT ![t] = Head(shared[p])]
         /\ shared' = [shared EXCEPT ![p] = Tail(@)]
    /\ todo' = [todo EXCEPT ![t] = {}]
    /\ Goto(t, "load_sub")
    /\ UNCHANGED <<fresh, popped, shared_len, queue, reserved, handle, ret, item, key,
                   loot, seen, victim, left, count, done>>

\* Mutant of the next definition: the loop does not end after the last priority.
SharedMissStays(t) ==
    /\ pc[t] = "scan"
    /\ \E p \in todo[t] :
         /\ First(p, todo[t])
         /\ shared[p] = <<>>
         /\ todo' = [todo EXCEPT ![t] = @ \ {p}]
    /\ UNCHANGED <<fresh, popped, queues, handle, pc, ret, item, moving, key, loot, seen,
                   victim, left, count, done>>

SharedMiss(t) ==
    /\ pc[t] = "scan"
    /\ \E p \in todo[t] :
         /\ First(p, todo[t])
         /\ shared[p] = <<>>
         /\ todo' = [todo EXCEPT ![t] = @ \ {p}]
         /\ Goto(t, IF todo[t] = {p} THEN ret[t] ELSE "scan")
    /\ UNCHANGED <<fresh, popped, queues, handle, ret, item, moving, key, loot, seen,
                   victim, left, count, done>>

-----------------------------------------------------------------------------
(* OrderedLocalQueue::push_with_priority and push_to_global.               *)

\* Mutant of the next definition: off by one.
IsLocalFullLate(t) == len[t] > LocalCapacity

IsLocalFull(t) == len[t] >= LocalCapacity

\* The Worker has no free slot, so its push returns Err(item).
WorkerFull(t, i) == Occupied(t, Prio[i]) >= WorkerCapacity

PushLocal(t, i) ==
    /\ pc[t] = "idle"
    /\ i \in fresh
    /\ ~IsLocalFull(t) /\ ~WorkerFull(t, i)
    /\ fresh' = fresh \ {i}
    /\ queue' = [queue EXCEPT ![t][Prio[i]] = Append(@, i)]
    /\ len' = [len EXCEPT ![t] = @ + 1]
    /\ UNCHANGED <<popped, shared, shared_len, reserved, tick, stealing, pc, control>>

\* The queue is full: push_to_global is entered with half of len to move.
PushOverflow(t, i) ==
    /\ pc[t] = "idle"
    /\ i \in fresh
    /\ IsLocalFull(t) \/ WorkerFull(t, i)
    /\ fresh' = fresh \ {i}
    /\ item' = [item EXCEPT ![t] = i]
    /\ count' = [count EXCEPT ![t] = len[t] \div 2]
    /\ done' = [done EXCEPT ![t] = 0]
    /\ todo' = [todo EXCEPT ![t] = Prios]
    /\ Goto(t, "spill")
    /\ UNCHANGED <<popped, queues, handle, ret, moving, key, loot, seen, victim, left>>

\* One turn of `for entry in self.queue.iter().rev()`; after the last entry
\* the enclosing `while done < count` starts over with all of them.
NextSweep(t, p) ==
    todo' = [todo EXCEPT ![t] = IF @ = {p} THEN Prios ELSE @ \ {p}]

\* Mutant of SpillPop: the key of the item push() was called with.
SpillPopWrongKey(t) ==
    /\ pc[t] = "spill"
    /\ done[t] < count[t]
    /\ \E p \in todo[t] :
         /\ Last(p, todo[t])
         /\ WorkerPop(t, p)
         /\ moving' = [moving EXCEPT ![t] = Head(queue[t][p])]
         /\ key' = [key EXCEPT ![t] = Prio[item[t]]]
         /\ NextSweep(t, p)
    /\ done' = [done EXCEPT ![t] = @ + 1]
    /\ ret' = [ret EXCEPT ![t] = "spill"]
    /\ Goto(t, "inject")
    /\ UNCHANGED <<fresh, popped, shared, shared_len, handle, item, loot, seen,
                   victim, left, count>>

SpillPop(t) ==
    /\ pc[t] = "spill"
    /\ done[t] < count[t]
    /\ \E p \in todo[t] :
         /\ Last(p, todo[t])
         /\ WorkerPop(t, p)
         /\ moving' = [moving EXCEPT ![t] = Head(queue[t][p])]
         /\ key' = [key EXCEPT ![t] = p]
         /\ NextSweep(t, p)
    /\ done' = [done EXCEPT ![t] = @ + 1]
    /\ ret' = [ret EXCEPT ![t] = "spill"]
    /\ Goto(t, "inject")
    /\ UNCHANGED <<fresh, popped, shared, shared_len, handle, item, loot, seen,
                   victim, left, count>>

SpillSkip(t) ==
    /\ pc[t] = "spill"
    /\ done[t] < count[t]
    /\ \E p \in todo[t] :
         /\ Last(p, todo[t])
         /\ queue[t][p] = <<>>
         /\ NextSweep(t, p)
    /\ UNCHANGED <<fresh, popped, queues, handle, pc, ret, item, moving, key, loot, seen,
                   victim, left, count, done>>

\* Mutant of the next definition: the pushed item is counted as moved.
SpillDoneOneMore(t) ==
    /\ pc[t] = "spill"
    /\ done[t] >= count[t]
    /\ len' = [len EXCEPT ![t] = SaturatingSub(@, count[t] + 1)]
    /\ moving' = [moving EXCEPT ![t] = item[t]]
    /\ key' = [key EXCEPT ![t] = Prio[item[t]]]
    /\ item' = [item EXCEPT ![t] = NoItem]
    /\ todo' = [todo EXCEPT ![t] = {}]
    /\ count' = [count EXCEPT ![t] = 0]
    /\ done' = [done EXCEPT ![t] = 0]
    /\ ret' = [ret EXCEPT ![t] = "idle"]
    /\ Goto(t, "inject")
    /\ UNCHANGED <<fresh, popped, queues, tick, stealing, loot, seen, victim, left>>

\* "refresh count", then the item itself goes to the global queue.
SpillDone(t) ==
    /\ pc[t] = "spill"
    /\ done[t] >= count[t]
    /\ len' = [len EXCEPT ![t] = SaturatingSub(@, count[t])]
    /\ moving' = [moving EXCEPT ![t] = item[t]]
    /\ key' = [key EXCEPT ![t] = Prio[item[t]]]
    /\ item' = [item EXCEPT ![t] = NoItem]
    /\ todo' = [todo EXCEPT ![t] = {}]
    /\ count' = [count EXCEPT ![t] = 0]
    /\ done' = [done EXCEPT ![t] = 0]
    /\ ret' = [ret EXCEPT ![t] = "idle"]
    /\ Goto(t, "inject")
    /\ UNCHANGED <<fresh, popped, queues, tick, stealing, loot, seen, victim, left>>

-----------------------------------------------------------------------------
(* OrderedLocalQueue::pop and pop_local.                                   *)

\* tick(): every GlobalInterval-th pop starts with the global queue.
Pop(t) ==
    /\ pc[t] = "idle"
    /\ tick' = [tick EXCEPT ![t] = IF @ = TickMax THEN 0 ELSE @ + 1]
    /\ IF tick'[t] % GlobalInterval = 0
         THEN /\ ret' = [ret EXCEPT ![t] = "local"]
              /\ Goto(t, "is_empty")
         ELSE /\ Goto(t, "local")
              /\ UNCHANGED ret
    /\ UNCHANGED <<fresh, popped, queues, len, stealing, item, moving, key, loot, seen,
                   todo, victim, left, count, done>>

\* pop_local finds an item: the first of the first priority that has one.
\* Only thieves remove behind the owner's back and nobody else adds, so a
\* priority found empty stays empty while the loop goes on.
PopLocal(t) ==
    /\ pc[t] \in {"local", "last"}
    /\ \E p \in Prios :
         /\ \A q \in Prios : q < p => queue[t][q] = <<>>
         /\ WorkerPop(t, p)
         /\ popped' = popped \cup {Head(queue[t][p])}
    /\ len' = [len EXCEPT ![t] = SaturatingSub(@, 1)]
    /\ Goto(t, "idle")
    /\ UNCHANGED <<fresh, shared, shared_len, tick, stealing, control>>

\* pop_local returns None after a steal: pop() returns None as well.
PopLast(t) ==
    /\ pc[t] = "last"
    /\ LocallyEmpty(t)
    /\ Goto(t, "idle")
    /\ UNCHANGED <<fresh, popped, queues, handle, control>>

\* pop_local returns None: try_lock, and a random start for the steal loop.
TryLock(t) ==
    /\ pc[t] = "local"
    /\ LocallyEmpty(t)
    /\ IF stealing[t]
         THEN /\ ret' = [ret EXCEPT ![t] = "idle"]
              /\ Goto(t, "is_empty")
              /\ UNCHANGED <<stealing, victim, left, todo>>
         ELSE /\ stealing' = [stealing EXCEPT ![t] = TRUE]
              /\ \E start \in Locals : victim' = [victim EXCEPT ![t] = start]
              /\ left' = [left EXCEPT ![t] = NumLocals]
              /\ todo' = [todo EXCEPT ![t] = Prios]
              /\ Goto(t, "steal")
              /\ UNCHANGED ret
    /\ UNCHANGED <<fresh, popped, queues, len, tick, item, moving, key, loot, seen,
                   count, done>>

HalfCapacity == (LocalCapacity + 1) \div 2

CanSteal(t) == len[t] < HalfCapacity

MaxSteal(t) == SaturatingSub(HalfCapacity, len[t])

\* How many items Stealer::steal takes from priority p of local queue v: none
\* when another thief is at work there (Busy), else the closure's minimum,
\* limited by the room in the thief's own Worker.
StealCount(t, v, p) ==
    IF reserved[v][p] > 0 \/ Occupied(t, p) >= WorkerCapacity
      THEN 0
      ELSE Lower(Lower(MaxSteal(t), WorkerCapacity - Occupied(t, p)),
                 (Len(queue[v][p]) + 1) \div 2)

\* Mutant of the next definition: the victim's items are read and not taken.
StealReserveCopies(t) ==
    /\ pc[t] = "steal"
    /\ left[t] > 0 /\ CanSteal(t)
    /\ \E p \in todo[t] :
         LET v == victim[t]
             n == StealCount(t, v, p)
         IN  /\ First(p, todo[t])
             /\ n > 0
             /\ loot' = [loot EXCEPT ![t] = SubSeq(queue[v][p], 1, n)]
             /\ reserved' = [reserved EXCEPT ![v][p] = n]
             /\ todo' = [todo EXCEPT ![t] = {p}]
    /\ Goto(t, "publish")
    /\ UNCHANGED <<fresh, popped, shared, shared_len, queue, handle, ret, item, moving,
                   key, seen, victim, left, count, done>>

\* The compare-and-swap of a successful steal.  The loop does not leave out
\* the thief's own queue: `ptr::eq(&raw const another, &raw const self.queue)`
\* compares the addresses of two references.
StealReserve(t) ==
    /\ pc[t] = "steal"
    /\ left[t] > 0 /\ CanSteal(t)
    /\ \E p \in todo[t] :
         LET v == victim[t]
             n == StealCount(t, v, p)
         IN  /\ First(p, todo[t])
             /\ n > 0
             /\ loot' = [loot EXCEPT ![t] = SubSeq(queue[v][p], 1, n)]
             /\ queue' = [queue EXCEPT ![v][p] = SubSeq(@, n + 1, Len(@))]
             /\ reserved' = [reserved EXCEPT ![v][p] = n]
             /\ todo' = [todo EXCEPT ![t] = {p}]
    /\ Goto(t, "publish")
    /\ UNCHANGED <<fresh, popped, shared, shared_len, handle, ret, item, moving, key,
                   seen, victim, left, count, done>>

\* Mutant of the next definition: the loop over the queues never ends.
StealMissForever(t) ==
    /\ pc[t] = "steal"
    /\ left[t] > 0 /\ CanSteal(t)
    /\ \E p \in todo[t] :
         /\ First(p, todo[t])
         /\ StealCount(t, victim[t], p) = 0
         /\ IF todo[t] = {p}
              THEN /\ todo' = [todo EXCEPT ![t] = Prios]
                   /\ victim' = [victim EXCEPT ![t] = (@ + 1) % NumLocals]
              ELSE /\ todo' = [todo EXCEPT ![t] = @ \ {p}]
                   /\ UNCHANGED victim
    /\ UNCHANGED <<fresh, popped, queues, handle, pc, ret, item, moving, key, loot, seen,
                   left, count, done>>

\* An empty or a busy Worker: the next priority, then the next local queue.
StealMiss(t) ==
    /\ pc[t] = "steal"
    /\ left[t] > 0 /\ CanSteal(t)
    /\ \E p \in todo[t] :
         /\ First(p, todo[t])
         /\ StealCount(t, victim[t], p) = 0
         /\ IF todo[t] = {p}
              THEN /\ todo' = [todo EXCEPT ![t] = Prios]
                   /\ victim' = [victim EXCEPT ![t] = (@ + 1) % NumLocals]
                   /\ left' = [left EXCEPT ![t] = @ - 1]
              ELSE /\ todo' = [todo EXCEPT ![t] = @ \ {p}]
                   /\ UNCHANGED <<victim, left>>
    /\ UNCHANGED <<fresh, popped, queues, handle, pc, ret, item, moving, key, loot, seen,
                   count, done>>

\* The variables of the steal loop go out of scope.
LeaveLoop(t) ==
    /\ todo' = [todo EXCEPT ![t] = {}]
    /\ victim' = [victim EXCEPT ![t] = 0]
    /\ left' = [left EXCEPT ![t] = 0]

\* Nothing to steal, or the local counter says that there is enough to do:
\* release_lock and pop from the global queue.
StealGiveUp(t) ==
    /\ pc[t] = "steal"
    /\ left[t] = 0 \/ ~CanSteal(t)
    /\ stealing' = [stealing EXCEPT ![t] = FALSE]
    /\ LeaveLoop(t)
    /\ ret' = [ret EXCEPT ![t] = "idle"]
    /\ Goto(t, "is_empty")
    /\ UNCHANGED <<fresh, popped, queues, len, tick, item, moving, key, loot, seen, count,
                   done>>

\* The stolen items appear in the thief's Worker and the victim's slots are
\* given back.
StealPublish(t) ==
    /\ pc[t] = "publish"
    /\ \E p \in todo[t] :
         /\ queue' = [queue EXCEPT ![t][p] = @ \o loot[t]]
         /\ reserved' = [reserved EXCEPT ![victim[t]][p] = 0]
    /\ loot' = [loot EXCEPT ![t] = <<>>]
    /\ Goto(t, "refresh")
    /\ UNCHANGED <<fresh, popped, shared, shared_len, handle, ret, item, moving, key,
                   seen, todo, victim, left, count, done>>

\* "refresh local len" with all that is in the Worker now; release_lock.
StealRefresh(t) ==
    /\ pc[t] = "refresh"
    /\ \E p \in todo[t] : len' = [len EXCEPT ![t] = @ + Occupied(t, p)]
    /\ stealing' = [stealing EXCEPT ![t] = FALSE]
    /\ LeaveLoop(t)
    /\ Goto(t, "last")
    /\ UNCHANGED <<fresh, popped, queues, tick, ret, item, moving, key, loot, seen, count,
                   done>>

-----------------------------------------------------------------------------
Init ==
    /\ fresh = Items
    /\ popped = {}
    /\ shared = [p \in Prios |-> <<>>]
    /\ shared_len = 0
    /\ queue = [l \in Locals |-> [p \in Prios |-> <<>>]]
    /\ reserved = [l \in Locals |-> [p \in Prios |-> 0]]
    /\ len = [l \in Locals |-> 0]
    /\ tick = [l \in Locals |-> 0]
    /\ stealing = [l \in Locals |-> FALSE]
    /\ pc = [l \in Locals |-> "idle"]
    /\ ret = [l \in Locals |-> "idle"]
    /\ item = [l \in Locals |-> NoItem]
    /\ moving = [l \in Locals |-> NoItem]
    /\ key = [l \in Locals |-> NoItem]
    /\ loot = [l \in Locals |-> <<>>]
    /\ seen = [l \in Locals |-> 0]
    /\ todo = [l \in Locals |-> {}]
    /\ victim = [l \in Locals |-> 0]
    /\ left = [l \in Locals |-> 0]
    /\ count = [l \in Locals |-> 0]
    /\ done = [l \in Locals |-> 0]

\* What the thread does to finish the call it is in.
Step(t) ==
    \/ SharedInject(t) \/ SharedLoad(t) \/ SharedStoreAdd(t) \/ SharedStoreSub(t)
    \/ SharedIsEmpty(t) \/ SharedSteal(t) \/ SharedMiss(t)
    \/ SpillPop(t) \/ SpillSkip(t) \/ SpillDone(t)
    \/ PopLocal(t) \/ PopLast(t) \/ TryLock(t)
    \/ StealReserve(t) \/ StealMiss(t) \/ StealGiveUp(t)
    \/ StealPublish(t) \/ StealRefresh(t)

Next ==
    \E t \in Locals :
      \/ \E i \in Items : PushLocal(t, i) \/ PushOverflow(t, i)
      \/ Pop(t)
      \/ Step(t)

Spec == Init /\ [][Next]_vars

\* A thread that has called push or pop keeps running; nobody has to call.
FairSpec == Spec /\ \A t \in Locals : WF_vars(Step(t))

-----------------------------------------------------------------------------
(* Properties.                                                             *)

PopPcs == {"is_empty", "scan", "load_sub", "store_sub", "local", "last",
           "steal", "publish", "refresh"}

PushPcs == {"spill", "inject", "load_add", "store_add"}

Pcs == {"idle"} \cup PopPcs \cup PushPcs

TypeOK ==
    /\ fresh \subseteq Items /\ popped \subseteq Items
    /\ shared \in [Prios -> Seq(Items)]
    /\ shared_len \in Nat
    /\ queue \in [Locals -> [Prios -> Seq(Items)]]
    /\ reserved \in [Locals -> [Prios -> Nat]]
    /\ len \in [Locals -> Nat]
    /\ tick \in [Locals -> 0 .. TickMax]
    /\ stealing \in [Locals -> BOOLEAN]
    /\ pc \in [Locals -> Pcs]
    /\ ret \in [Locals -> {"idle", "spill", "local"}]
    /\ item \in [Locals -> Items \cup {NoItem}]
    /\ moving \in [Locals -> Items \cup {NoItem}]
    /\ key \in [Locals -> Prios \cup {NoItem}]
    /\ loot \in [Locals -> Seq(Items)]
    /\ seen \in [Locals -> Nat]
    /\ todo \in [Locals -> SUBSET Prios]
    /\ victim \in [Locals -> Locals]
    /\ left \in [Locals -> 0 .. NumLocals]
    /\ count \in [Locals -> Nat]
    /\ done \in [Locals -> Nat]

\* Everything that can hold an item, and what it holds.
Containers ==
    {<<"fresh", 0, 0>>, <<"popped", 0, 0>>}
    \cup ({"shared"} \X {0} \X Prios)
    \cup ({"queue"} \X Locals \X Prios)
    \cup ({"item", "moving", "loot"} \X Locals \X {0})

Contents(c) ==
    CASE c[1] = "fresh"  -> fresh
      [] c[1] = "popped" -> popped
      [] c[1] = "shared" -> Range(shared[c[3]])
      [] c[1] = "queue"  -> Range(queue[c[2]][c[3]])
      [] c[1] = "item"   -> {item[c[2]]} \ {NoItem}
      [] c[1] = "moving" -> {moving[c[2]]} \ {NoItem}
      [] c[1] = "loot"   -> Range(loot[c[2]])

\* No push, spill, steal or pop loses an item or makes a second copy of it,
\* whatever the interleaving: every item is in exactly one container, and no
\* queue holds it twice.
EachItemOnce ==
    /\ \A i \in Items : \E c \in Containers :
         i \in Contents(c) /\ \A d \in Containers : i \in Contents(d) => d = c
    /\ \A p \in Prios : IsInjective(shared[p])
    /\ \A l \in Locals : \A p \in Prios : IsInjective(queue[l][p])
    /\ \A l \in Locals : IsInjective(loot[l])

\* push_to_global re-inserts under *entry.key() and a steal under the victim's
\* key: an item never changes its priority on the way.
PriorityKept ==
    /\ \A p \in Prios : \A i \in Range(shared[p]) : Prio[i] = p
    /\ \A l \in Locals, p \in Prios : \A i \in Range(queue[l][p]) : Prio[i] = p

\* local_len() never reports less than the local queue holds, so
\* is_local_empty() is never TRUE while there is something to run: thieves
\* leave the victim's counter too high, never too low.
LocalLenCovers ==
    \A t \in Locals : pc[t] = "idle" => Cardinality(LocalItems(t)) <= len[t]

\* Whatever thieves and spills do, a local queue never holds more than
\* local_capacity items over all of its priorities.
LocalCapacityRespected ==
    \A t \in Locals : Cardinality(LocalItems(t)) <= LocalCapacity

-----------------------------------------------------------------------------
(* What makes the invariants inductive (see OrderedWorkStealProofs).       *)

\* The thread is between the first and the last line of push_to_global's loop.
InSpill(t) ==
    \/ pc[t] = "spill"
    \/ pc[t] \in {"inject", "load_add", "store_add"} /\ ret[t] = "spill"

\* What the locals of a call hold at each place of it.
CallState ==
    \A t \in Locals :
      /\ moving[t] # NoItem <=> pc[t] \in {"inject", "load_sub", "store_sub"}
      /\ pc[t] = "inject" => key[t] \in Prios
      /\ item[t] # NoItem <=> InSpill(t)
      /\ loot[t] # <<>> => pc[t] = "publish"
      /\ pc[t] \in {"publish", "refresh"} => \E p \in Prios : todo[t] = {p}
      /\ pc[t] \in {"inject", "load_add", "store_add"} => ret[t] \in {"idle", "spill"}
      /\ pc[t] \in {"is_empty", "scan"} => ret[t] \in {"idle", "local"}

\* How the owner's counter is related to its queue at each place of a call:
\* push_to_global lowers it once for all the items it has moved, and a steal
\* raises it only after the stolen items can be seen.
LenOK(t) ==
    /\ InSpill(t) => /\ Cardinality(LocalItems(t)) + done[t] <= len[t]
                     /\ done[t] <= count[t]
    /\ ~InSpill(t) /\ pc[t] # "refresh" => Cardinality(LocalItems(t)) <= len[t]
    /\ pc[t] \in {"steal", "publish"} => LocallyEmpty(t)
    /\ pc[t] = "refresh" => \A q \in Prios \ todo[t] : queue[t][q] = <<>>
    /\ Len(loot[t]) <= HalfCapacity

\* Where an item is on its way, it goes with the key of the queue it came from.
KeyOK(t) ==
    /\ pc[t] = "inject" => Prio[moving[t]] = key[t]
    /\ pc[t] = "publish" => \A p \in todo[t], i \in Range(loot[t]) : Prio[i] = p

-----------------------------------------------------------------------------
(* Why pop() returns.                                                      *)

\* The places of pop() from the last to the first one.
PopOrder ==
    [idle |-> 0, store_sub |-> 1, load_sub |-> 2, scan |-> 3, is_empty |-> 4,
     last |-> 5, refresh |-> 6, publish |-> 7, steal |-> 8, local |-> 9]

\* How far the end is: the global queue is looked at first and again last.
PopAt(t) ==
    PopOrder[pc[t]]
      + IF pc[t] \in {"is_empty", "scan"} /\ ret[t] = "local" THEN 8 ELSE 0

\* One turn of a loop of pop(): fewer queues are left, or fewer priorities.
LoopTurn(t) ==
    /\ PopAt(t)' = PopAt(t)
    /\ \/ left'[t] < left[t]
       \/ left'[t] = left[t] /\ todo'[t] \subseteq todo[t] /\ todo'[t] # todo[t]

\* Every step of a thread inside pop() brings it nearer to its return, and no
\* step of another thread takes it further away: the scans of the priorities
\* and of the sibling queues are bounded, however often items move ahead of
\* them, so pop() returns when its thread keeps running.
PopAdvances ==
    [][\A t \in Locals : pc[t] \in PopPcs =>
         IF Step(t) THEN PopAt(t)' < PopAt(t) \/ LoopTurn(t)
                    ELSE UNCHANGED <<pc[t], ret[t], todo[t], left[t]>>]_vars

\* A thread inside pop() never waits for another one: none of its loops stops
\* at a queue that is empty, full or held by another thief.
PopGoesOn == \A t \in Locals : pc[t] \in PopPcs => ENABLED Step(t)

-----------------------------------------------------------------------------
(* What the comments of the code say.                                      *)

\* Every call of push() returns: "If the queue is full, first push half to
\* global, then push the item to global."
PushReturns == \A t \in Locals : pc[t] \in PushPcs ~> pc[t] = "idle"

=============================================================================
