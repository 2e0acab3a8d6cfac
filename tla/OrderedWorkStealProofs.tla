----------------------- MODULE OrderedWorkStealProofs -----------------------
(***************************************************************************)
(* No item is lost or duplicated, items keep their priority, and the       *)
(* counter of a local queue bounds what the queue holds: proofs for any    *)
(* number of local queues, items and priorities and for any capacity.      *)
(***************************************************************************)
EXTENDS OrderedWorkStealTyping

USE ZenonT(10)

-----------------------------------------------------------------------------
(* Every item is in one place.                                             *)

\* The two halves of EachItemOnce.
Placed ==
    \A i \in Items : \E c \in Containers :
      i \in Contents(c) /\ \A d \in Containers : i \in Contents(d) => d = c

Unrepeated ==
    /\ \A p \in Prios : IsInjective(shared[p])
    /\ \A l \in Locals : \A p \in Prios : IsInjective(queue[l][p])
    /\ \A l \in Locals : IsInjective(loot[l])

Items1 == Typed /\ Placed /\ Unrepeated

\* A step takes the items M from container a and puts them into container b.
Moves(M, a, b) ==
    /\ a \in Containers /\ b \in Containers /\ a # b
    /\ M \subseteq Contents(a)
    /\ Contents(a)' = Contents(a) \ M
    /\ Contents(b)' = Contents(b) \cup M
    /\ \A c \in Containers \ {a, b} : Contents(c)' = Contents(c)

\* A move from one container to another keeps every item in one place.
LEMMA MoveKeepsPlaced ==
    ASSUME Placed, NEW M, NEW a, NEW b, Moves(M, a, b)
    PROVE  Placed'
<1> SUFFICES ASSUME NEW i \in Items
             PROVE  \E c \in Containers :
                      /\ i \in Contents(c)'
                      /\ \A d \in Containers : i \in Contents(d)' => d = c
  BY DEF Placed, Containers
<1>1. PICK c \in Containers :
        i \in Contents(c) /\ \A d \in Containers : i \in Contents(d) => d = c
  BY DEF Placed
<1>2. CASE i \in M
  <2>1. c = a
    BY <1>1, <1>2 DEF Moves
  <2>2. i \in Contents(b)'
    BY <1>2 DEF Moves
  <2>3. ASSUME NEW d \in Containers, i \in Contents(d)'
        PROVE  d = b
    BY <1>1, <1>2, <2>1, <2>3 DEF Moves
  <2> QED
    BY <2>2, <2>3 DEF Moves
<1>3. CASE i \notin M
  BY <1>1, <1>3 DEF Moves
<1> QED
  BY <1>2, <1>3

\* The kinds of containers, and what they hold.
LEMMA ContainerKinds ==
    ASSUME NEW c \in Containers
    PROVE  \/ c = <<"fresh", 0, 0>> \/ c = <<"popped", 0, 0>>
           \/ \E p \in Prios : c = <<"shared", 0, p>>
           \/ \E l \in Locals, p \in Prios : c = <<"queue", l, p>>
           \/ \E l \in Locals : c = <<"item", l, 0>>
           \/ \E l \in Locals : c = <<"moving", l, 0>>
           \/ \E l \in Locals : c = <<"loot", l, 0>>
BY SMT DEF Containers

\* The places an item can be in: each variable that holds items is one.
LEMMA AreContainers ==
    /\ <<"fresh", 0, 0>> \in Containers /\ <<"popped", 0, 0>> \in Containers
    /\ \A p \in Prios : <<"shared", 0, p>> \in Containers
    /\ \A l \in Locals, p \in Prios : <<"queue", l, p>> \in Containers
    /\ \A l \in Locals : /\ <<"item", l, 0>> \in Containers
                         /\ <<"moving", l, 0>> \in Containers
                         /\ <<"loot", l, 0>> \in Containers
BY DEF Containers

\* What each kind of place holds, spelled out.
LEMMA ContentsOf ==
    /\ Contents(<<"fresh", 0, 0>>) = fresh
    /\ Contents(<<"popped", 0, 0>>) = popped
    /\ \A p \in Prios : Contents(<<"shared", 0, p>>) = Range(shared[p])
    /\ \A l \in Locals, p \in Prios : Contents(<<"queue", l, p>>) = Range(queue[l][p])
    /\ \A l \in Locals : /\ Contents(<<"item", l, 0>>) = {item[l]} \ {NoItem}
                         /\ Contents(<<"moving", l, 0>>) = {moving[l]} \ {NoItem}
                         /\ Contents(<<"loot", l, 0>>) = Range(loot[l])
BY DEF Contents

\* What each kind of place holds after a step, spelled out.
LEMMA ContentsOfNext ==
    /\ Contents(<<"fresh", 0, 0>>)' = fresh'
    /\ Contents(<<"popped", 0, 0>>)' = popped'
    /\ \A p \in Prios : Contents(<<"shared", 0, p>>)' = Range(shared'[p])
    /\ \A l \in Locals, p \in Prios : Contents(<<"queue", l, p>>)' = Range(queue'[l][p])
    /\ \A l \in Locals : /\ Contents(<<"item", l, 0>>)' = {item'[l]} \ {NoItem}
                         /\ Contents(<<"moving", l, 0>>)' = {moving'[l]} \ {NoItem}
                         /\ Contents(<<"loot", l, 0>>)' = Range(loot'[l])
BY DEF Contents

\* What a step leaves alone, container by container.
LEMMA FrameRule ==
    ASSUME NEW a, NEW b,
           <<"fresh", 0, 0>> \notin {a, b} => fresh' = fresh,
           <<"popped", 0, 0>> \notin {a, b} => popped' = popped,
           \A p \in Prios : <<"shared", 0, p>> \notin {a, b} => shared'[p] = shared[p],
           \A l \in Locals, p \in Prios :
             <<"queue", l, p>> \notin {a, b} => queue'[l][p] = queue[l][p],
           \A l \in Locals : <<"item", l, 0>> \notin {a, b} => item'[l] = item[l],
           \A l \in Locals : <<"moving", l, 0>> \notin {a, b} => moving'[l] = moving[l],
           \A l \in Locals : <<"loot", l, 0>> \notin {a, b} => loot'[l] = loot[l]
    PROVE  \A c \in Containers \ {a, b} : Contents(c)' = Contents(c)
<1> SUFFICES ASSUME NEW c \in Containers, c \notin {a, b}
             PROVE  Contents(c)' = Contents(c)
  OBVIOUS
<1>1. CASE c = <<"fresh", 0, 0>> \/ c = <<"popped", 0, 0>>
  BY <1>1, ContentsOf, ContentsOfNext
<1>2. CASE \E p \in Prios : c = <<"shared", 0, p>>
  BY <1>2, ContentsOf, ContentsOfNext, SMT
<1>3. CASE \E l \in Locals, p \in Prios : c = <<"queue", l, p>>
  BY <1>3, ContentsOf, ContentsOfNext, SMT
<1>4. CASE \E l \in Locals : c = <<"item", l, 0>>
  <2>1. PICK l \in Locals : c = <<"item", l, 0>>
    BY <1>4
  <2>2. item'[l] = item[l]
    BY <2>1
  <2>3. Contents(<<"item", l, 0>>) = {item[l]} \ {NoItem}
    BY ContentsOf
  <2>4. Contents(<<"item", l, 0>>)' = {item'[l]} \ {NoItem}
    BY ContentsOfNext
  <2> QED
    BY <2>1, <2>2, <2>3, <2>4
<1>5. CASE \E l \in Locals : c = <<"moving", l, 0>>
  <2>1. PICK l \in Locals : c = <<"moving", l, 0>>
    BY <1>5
  <2>2. moving'[l] = moving[l]
    BY <2>1
  <2>3. Contents(<<"moving", l, 0>>) = {moving[l]} \ {NoItem}
    BY ContentsOf
  <2>4. Contents(<<"moving", l, 0>>)' = {moving'[l]} \ {NoItem}
    BY ContentsOfNext
  <2> QED
    BY <2>1, <2>2, <2>3, <2>4
<1>6. CASE \E l \in Locals : c = <<"loot", l, 0>>
  <2>1. PICK l \in Locals : c = <<"loot", l, 0>>
    BY <1>6
  <2>2. loot'[l] = loot[l]
    BY <2>1
  <2>3. Contents(<<"loot", l, 0>>) = Range(loot[l])
    BY ContentsOf
  <2>4. Contents(<<"loot", l, 0>>)' = Range(loot'[l])
    BY ContentsOfNext
  <2> QED
    BY <2>1, <2>2, <2>3, <2>4
<1> QED
  BY <1>1, <1>2, <1>3, <1>4, <1>5, <1>6, ContainerKinds

\* The actions that move items.  Each is a move between two containers and
\* leaves no repetition in a queue.
LEMMA PlacedApart ==
    ASSUME Placed, NEW i \in Items, NEW c \in Containers, NEW d \in Containers,
           i \in Contents(c), i \in Contents(d)
    PROVE  c = d
BY DEF Placed

\* Pushing into an injector moves items from one place to another and loses or
\* doubles none.
LEMMA ItemsSharedInject ==
    ASSUME Typed, Placed, Unrepeated, NEW t \in Locals, SharedInject(t)
    PROVE  Placed' /\ Unrepeated'
<1>0. PICK i \in Items, p \in Prios : i = moving[t] /\ p = key[t]
  BY DEF Typed, TypeOK, CallState, SharedInject
<1> DEFINE a == <<"moving", t, 0>>
           b == <<"shared", 0, p>>
<1>1. i # NoItem /\ i = moving[t] /\ shared[p] \in Seq(Items) /\ IsInjective(shared[p])
  BY <1>0, ConstantsAssumption DEF Typed, TypeOK, Unrepeated
<1>2. /\ shared' = [shared EXCEPT ![p] = Append(@, i)]
      /\ moving' = [moving EXCEPT ![t] = NoItem]
      /\ UNCHANGED <<fresh, popped, queue, item, loot>>
  BY <1>0 DEF SharedInject
<1>3. a \in Containers /\ b \in Containers /\ a # b
  BY <1>1, AreContainers
<1>4. Contents(a) = {i} /\ Contents(b) = Range(shared[p])
  BY <1>1, ContentsOf
<1>5. \A x \in Items : x \in Contents(a) => x \notin Contents(b)
  BY <1>3, PlacedApart
<1>6. shared'[p] = Append(shared[p], i) /\ moving'[t] = NoItem
  BY <1>1, <1>2 DEF Typed, TypeOK
<1>7. Contents(a)' = {} /\ Contents(b)' = Range(shared[p]) \cup {i}
  <2>1. Contents(a)' = {moving'[t]} \ {NoItem} /\ Contents(b)' = Range(shared'[p])
    BY ContentsOfNext
  <2>2. Range(Append(shared[p], i)) = Range(shared[p]) \cup {i}
    BY <1>1, AppendFacts, SMT
  <2> QED
    BY <1>6, <2>1, <2>2
<1>8. \A c \in Containers \ {a, b} : Contents(c)' = Contents(c)
  BY <1>1, <1>2, FrameRule DEF Typed, TypeOK
<1>9. Moves({i}, a, b)
  BY <1>1, <1>3, <1>4, <1>7, <1>8 DEF Moves
<1>10. Placed'
  BY <1>9, MoveKeepsPlaced
<1>11. Unrepeated'
  <2>1. IsInjective(shared'[p])
    <3>1. i \notin Range(shared[p])
      BY <1>4, <1>5
    <3> QED
      BY <1>1, <1>6, <3>1, AppendFacts, SMT
  <2> QED
    BY <1>2, <2>1 DEF Typed, TypeOK, Unrepeated
<1> QED
  BY <1>10, <1>11

\* Storing the lowered global counter moves items from one place to another
\* and loses or doubles none.
LEMMA ItemsSharedStoreSub ==
    ASSUME Typed, Placed, Unrepeated, NEW t \in Locals, SharedStoreSub(t)
    PROVE  Placed' /\ Unrepeated'
<1>0. PICK i \in Items : i = moving[t]
  BY DEF Typed, TypeOK, CallState, SharedStoreSub
<1> DEFINE a == <<"moving", t, 0>>
           b == <<"popped", 0, 0>>
<1>1. i # NoItem /\ i = moving[t]
  BY <1>0, ConstantsAssumption
<1>2. /\ popped' = popped \cup {i}
      /\ moving' = [moving EXCEPT ![t] = NoItem]
      /\ UNCHANGED <<fresh, shared, queue, item, loot>>
  BY <1>0 DEF SharedStoreSub
<1>3. a \in Containers /\ b \in Containers /\ a # b
  BY <1>1, AreContainers
<1>4. Contents(a) = {i} /\ Contents(b) = popped
  BY <1>1, ContentsOf
<1>5. \A x \in Items : x \in Contents(a) => x \notin Contents(b)
  BY <1>3, PlacedApart
<1>6. moving'[t] = NoItem
  BY <1>2 DEF Typed, TypeOK
<1>7. Contents(a)' = {} /\ Contents(b)' = popped \cup {i}
  BY <1>2, <1>6, ContentsOfNext
<1>8. \A c \in Containers \ {a, b} : Contents(c)' = Contents(c)
  BY <1>1, <1>2, FrameRule DEF Typed, TypeOK
<1>9. Moves({i}, a, b)
  BY <1>1, <1>3, <1>4, <1>7, <1>8 DEF Moves
<1>10. Placed'
  BY <1>9, MoveKeepsPlaced
<1>11. Unrepeated'
  BY <1>2 DEF Unrepeated
<1> QED
  BY <1>10, <1>11

\* Taking an item from an injector moves items from one place to another and
\* loses or doubles none.
LEMMA ItemsSharedSteal ==
    ASSUME Typed, Placed, Unrepeated, NEW t \in Locals, SharedSteal(t)
    PROVE  Placed' /\ Unrepeated'
<1>0. PICK p \in Prios : /\ shared[p] # <<>>
                          /\ moving' = [moving EXCEPT ![t] = Head(shared[p])]
                          /\ shared' = [shared EXCEPT ![p] = Tail(@)]
  BY DEF SharedSteal, Typed, TypeOK
<1>i. PICK i \in Items : i = Head(shared[p])
  BY <1>0, TailFacts DEF Typed, TypeOK
<1> DEFINE a == <<"shared", 0, p>>
           b == <<"moving", t, 0>>
<1>1. /\ i # NoItem /\ moving[t] = NoItem
      /\ shared[p] \in Seq(Items) /\ IsInjective(shared[p])
      /\ i \in Range(shared[p]) /\ Range(Tail(shared[p])) = Range(shared[p]) \ {i}
  BY <1>0, <1>i, ConstantsAssumption, TailFacts
     DEF Typed, TypeOK, CallState, SharedSteal, Unrepeated
<1>2. /\ shared' = [shared EXCEPT ![p] = Tail(@)]
      /\ moving' = [moving EXCEPT ![t] = i]
      /\ UNCHANGED <<fresh, popped, queue, item, loot>>
  BY <1>0, <1>i DEF SharedSteal
<1>3. a \in Containers /\ b \in Containers /\ a # b
  BY <1>1, AreContainers
<1>4. Contents(a) = Range(shared[p]) /\ Contents(b) = {}
  BY <1>1, ContentsOf
<1>5. \A x \in Items : x \in Contents(a) => x \notin Contents(b)
  BY <1>3, PlacedApart
<1>6. shared'[p] = Tail(shared[p]) /\ moving'[t] = i
  BY <1>2 DEF Typed, TypeOK
<1>7. Contents(a)' = Range(shared[p]) \ {i} /\ Contents(b)' = {i}
  BY <1>1, <1>6, ContentsOfNext
<1>8. \A c \in Containers \ {a, b} : Contents(c)' = Contents(c)
  BY <1>1, <1>2, FrameRule DEF Typed, TypeOK
<1>9. Moves({i}, a, b)
  BY <1>1, <1>3, <1>4, <1>7, <1>8 DEF Moves
<1>10. Placed'
  BY <1>9, MoveKeepsPlaced
<1>11. Unrepeated'
  <2>1. IsInjective(shared'[p])
    BY <1>0, <1>1, <1>6, TailFacts, SMT
  <2> QED
    BY <1>2, <2>1 DEF Typed, TypeOK, Unrepeated
<1> QED
  BY <1>10, <1>11

\* The local case of push moves items from one place to another and loses or
\* doubles none.
LEMMA ItemsPushLocal ==
    ASSUME Typed, Placed, Unrepeated, NEW t \in Locals, NEW i \in Items, PushLocal(t, i)
    PROVE  Placed' /\ Unrepeated'
<1>0. PICK p \in Prios : p = Prio[i]
  BY PriosFacts
<1> DEFINE a == <<"fresh", 0, 0>>
           b == <<"queue", t, p>>
<1>1. /\ i \in fresh /\ queue[t][p] \in Seq(Items) /\ IsInjective(queue[t][p])
  BY ZenonT(60), <1>0 DEF Typed, TypeOK, Unrepeated, PushLocal
<1>2. /\ fresh' = fresh \ {i}
      /\ queue' = [queue EXCEPT ![t][p] = Append(@, i)]
      /\ UNCHANGED <<popped, shared, item, moving, loot>>
  BY <1>0 DEF PushLocal, control
<1>3. a \in Containers /\ b \in Containers /\ a # b
  BY <1>1, AreContainers
<1>4. Contents(a) = fresh /\ Contents(b) = Range(queue[t][p])
  BY <1>1, ContentsOf
<1>5. \A x \in Items : x \in Contents(a) => x \notin Contents(b)
  BY <1>3, PlacedApart
<1>6. queue'[t][p] = Append(queue[t][p], i)
  BY <1>2 DEF Typed, TypeOK
<1>7. Contents(a)' = fresh \ {i} /\ Contents(b)' = Range(queue[t][p]) \cup {i}
  BY <1>1, <1>2, <1>6, ContentsOfNext, AppendFacts, SMT
<1>8. \A c \in Containers \ {a, b} : Contents(c)' = Contents(c)
  BY ZenonT(60), <1>1, <1>2, FrameRule DEF Typed, TypeOK
<1>9. Moves({i}, a, b)
  BY <1>1, <1>3, <1>4, <1>7, <1>8 DEF Moves
<1>10. Placed'
  BY <1>9, MoveKeepsPlaced
<1>11. Unrepeated'
  <2>1. IsInjective(queue'[t][p])
    BY SMTT(60), <1>1, <1>4, <1>5, <1>6, AppendFacts
  <2> QED
    BY <1>2, <2>1 DEF Typed, TypeOK, Unrepeated
<1> QED
  BY <1>10, <1>11

\* push on a full local queue moves items from one place to another and loses
\* or doubles none.
LEMMA ItemsPushOverflow ==
    ASSUME Typed, Placed, Unrepeated, NEW t \in Locals, NEW i \in Items, PushOverflow(t, i)
    PROVE  Placed' /\ Unrepeated'
<1> DEFINE a == <<"fresh", 0, 0>>
           b == <<"item", t, 0>>
<1>1. i \in fresh /\ i # NoItem /\ item[t] = NoItem
  BY ConstantsAssumption DEF Typed, CallState, InSpill, PushOverflow
<1>2. /\ fresh' = fresh \ {i}
      /\ item' = [item EXCEPT ![t] = i]
      /\ UNCHANGED <<popped, shared, queue, moving, loot>>
  BY DEF PushOverflow, queues
<1>3. a \in Containers /\ b \in Containers /\ a # b
  BY <1>1, AreContainers
<1>4. Contents(a) = fresh /\ Contents(b) = {}
  BY <1>1, ContentsOf
<1>5. \A x \in Items : x \in Contents(a) => x \notin Contents(b)
  BY <1>3, PlacedApart
<1>6. item'[t] = i
  BY <1>2 DEF Typed, TypeOK
<1>7. Contents(a)' = fresh \ {i} /\ Contents(b)' = {i}
  BY <1>1, <1>2, <1>6, ContentsOfNext
<1>8. \A c \in Containers \ {a, b} : Contents(c)' = Contents(c)
  BY <1>1, <1>2, FrameRule DEF Typed, TypeOK
<1>9. Moves({i}, a, b)
  BY <1>1, <1>3, <1>4, <1>7, <1>8 DEF Moves
<1>10. Placed'
  BY <1>9, MoveKeepsPlaced
<1>11. Unrepeated'
  BY <1>2 DEF Unrepeated
<1> QED
  BY <1>10, <1>11

\* The end of the spill moves items from one place to another and loses or
\* doubles none.
LEMMA ItemsSpillDone ==
    ASSUME Typed, Placed, Unrepeated, NEW t \in Locals, SpillDone(t)
    PROVE  Placed' /\ Unrepeated'
<1>0. PICK i \in Items : i = item[t]
  BY DEF Typed, TypeOK, CallState, InSpill, SpillDone
<1> DEFINE a == <<"item", t, 0>>
           b == <<"moving", t, 0>>
<1>1. i # NoItem /\ i = item[t] /\ moving[t] = NoItem
  BY <1>0, ConstantsAssumption DEF Typed, CallState, SpillDone
<1>2. /\ item' = [item EXCEPT ![t] = NoItem]
      /\ moving' = [moving EXCEPT ![t] = i]
      /\ UNCHANGED <<fresh, popped, shared, queue, loot>>
  BY <1>0 DEF SpillDone, queues
<1>3. a \in Containers /\ b \in Containers /\ a # b
  BY <1>1, AreContainers
<1>4. Contents(a) = {i} /\ Contents(b) = {}
  BY <1>1, ContentsOf
<1>5. \A x \in Items : x \in Contents(a) => x \notin Contents(b)
  BY <1>3, PlacedApart
<1>6. item'[t] = NoItem /\ moving'[t] = i
  BY <1>2 DEF Typed, TypeOK
<1>7. Contents(a)' = {} /\ Contents(b)' = {i}
  BY <1>1, <1>6, ContentsOfNext
<1>8. \A c \in Containers \ {a, b} : Contents(c)' = Contents(c)
  BY <1>1, <1>2, FrameRule DEF Typed, TypeOK
<1>9. Moves({i}, a, b)
  BY <1>1, <1>3, <1>4, <1>7, <1>8 DEF Moves
<1>10. Placed'
  BY <1>9, MoveKeepsPlaced
<1>11. Unrepeated'
  BY <1>2 DEF Unrepeated
<1> QED
  BY <1>10, <1>11

\* Popping an item to spill moves items from one place to another and loses or
\* doubles none.
LEMMA ItemsSpillPop ==
    ASSUME Typed, Placed, Unrepeated, NEW t \in Locals, SpillPop(t)
    PROVE  Placed' /\ Unrepeated'
<1>0. PICK p \in Prios : /\ WorkerPop(t, p)
                          /\ moving' = [moving EXCEPT ![t] = Head(queue[t][p])]
  BY DEF SpillPop, Typed, TypeOK
<1>i. PICK i \in Items : i = Head(queue[t][p])
  BY <1>0, TailFacts, SMT DEF Typed, TypeOK, WorkerPop
<1> DEFINE a == <<"queue", t, p>>
           b == <<"moving", t, 0>>
<1>1. /\ i # NoItem /\ moving[t] = NoItem
      /\ queue[t][p] \in Seq(Items) /\ queue[t][p] # <<>> /\ IsInjective(queue[t][p])
      /\ i \in Range(queue[t][p])
      /\ Range(Tail(queue[t][p])) = Range(queue[t][p]) \ {i}
  <2>1. i # NoItem /\ moving[t] = NoItem
    BY ConstantsAssumption DEF Typed, CallState, SpillPop
  <2>2. queue[t][p] \in Seq(Items) /\ queue[t][p] # <<>> /\ IsInjective(queue[t][p])
    BY <1>0 DEF Typed, TypeOK, WorkerPop, Unrepeated
  <2> QED
    BY <1>i, <2>1, <2>2, TailFacts
<1>2. /\ queue' = [queue EXCEPT ![t][p] = Tail(@)]
      /\ moving' = [moving EXCEPT ![t] = i]
      /\ UNCHANGED <<fresh, popped, shared, item, loot>>
  BY <1>0, <1>i DEF SpillPop, WorkerPop, control
<1>3. a \in Containers /\ b \in Containers /\ a # b
  BY <1>1, AreContainers
<1>4. Contents(a) = Range(queue[t][p]) /\ Contents(b) = {}
  BY <1>1, ContentsOf
<1>5. \A x \in Items : x \in Contents(a) => x \notin Contents(b)
  BY <1>3, PlacedApart
<1>6. queue'[t][p] = Tail(queue[t][p]) /\ moving'[t] = i
  BY <1>2 DEF Typed, TypeOK
<1>7. Contents(a)' = Range(queue[t][p]) \ {i} /\ Contents(b)' = {i}
  <2>1. Contents(a)' = Range(queue'[t][p]) /\ Contents(b)' = {moving'[t]} \ {NoItem}
    BY ContentsOfNext
  <2> QED
    BY <1>1, <1>6, <2>1
<1>8. \A c \in Containers \ {a, b} : Contents(c)' = Contents(c)
  BY <1>1, <1>2, FrameRule DEF Typed, TypeOK
<1>9. Moves({i}, a, b)
  BY <1>1, <1>3, <1>4, <1>7, <1>8 DEF Moves
<1>10. Placed'
  BY <1>9, MoveKeepsPlaced
<1>11. Unrepeated'
  <2>0. IsInjective(Tail(queue[t][p]))
    BY <1>1, TailFacts
  <2>1. IsInjective(queue'[t][p])
    BY <1>6, <2>0
  <2> QED
    BY <1>2, <2>1 DEF Typed, TypeOK, Unrepeated
<1> QED
  BY <1>10, <1>11

\* pop_local moves items from one place to another and loses or doubles none.
LEMMA ItemsPopLocal ==
    ASSUME Typed, Placed, Unrepeated, NEW t \in Locals, PopLocal(t)
    PROVE  Placed' /\ Unrepeated'
<1>0. PICK p \in Prios : /\ WorkerPop(t, p)
                          /\ popped' = popped \cup {Head(queue[t][p])}
  BY DEF PopLocal, Typed, TypeOK
<1>i. PICK i \in Items : i = Head(queue[t][p])
  BY SMTT(60), <1>0, TailFacts DEF Typed, TypeOK, WorkerPop
<1> DEFINE a == <<"queue", t, p>>
           b == <<"popped", 0, 0>>
<1>1. /\ i # NoItem
      /\ queue[t][p] \in Seq(Items) /\ queue[t][p] # <<>> /\ IsInjective(queue[t][p])
      /\ i \in Range(queue[t][p])
      /\ Range(Tail(queue[t][p])) = Range(queue[t][p]) \ {i}
  <2>1. i # NoItem
    BY ConstantsAssumption DEF Typed, CallState, PopLocal
  <2>2. queue[t][p] \in Seq(Items) /\ queue[t][p] # <<>> /\ IsInjective(queue[t][p])
    BY <1>0 DEF Typed, TypeOK, WorkerPop, Unrepeated
  <2> QED
    BY <1>i, <2>1, <2>2, TailFacts
<1>2. /\ queue' = [queue EXCEPT ![t][p] = Tail(@)]
      /\ popped' = popped \cup {i}
      /\ UNCHANGED <<fresh, shared, item, moving, loot>>
  BY <1>0, <1>i DEF PopLocal, WorkerPop, control
<1>3. a \in Containers /\ b \in Containers /\ a # b
  BY <1>1, AreContainers
<1>4. Contents(a) = Range(queue[t][p]) /\ Contents(b) = popped
  BY <1>1, ContentsOf
<1>5. \A x \in Items : x \in Contents(a) => x \notin Contents(b)
  BY <1>3, PlacedApart
<1>6. queue'[t][p] = Tail(queue[t][p])
  BY <1>2 DEF Typed, TypeOK
<1>7. Contents(a)' = Range(queue[t][p]) \ {i} /\ Contents(b)' = popped \cup {i}
  BY <1>1, <1>2, <1>6, ContentsOfNext, SMT
<1>8. \A c \in Containers \ {a, b} : Contents(c)' = Contents(c)
  BY <1>1, <1>2, FrameRule DEF Typed, TypeOK
<1>9. Moves({i}, a, b)
  BY <1>1, <1>3, <1>4, <1>7, <1>8 DEF Moves
<1>10. Placed'
  BY <1>9, MoveKeepsPlaced
<1>11. Unrepeated'
  <2>1. IsInjective(queue'[t][p])
    BY <1>1, <1>6, TailFacts
  <2> QED
    BY <1>2, <2>1 DEF Typed, TypeOK, Unrepeated
<1> QED
  BY <1>10, <1>11

\* A steal takes the first n items of one Worker of the victim.
LEMMA StealMoves ==
    ASSUME Typed, NEW t \in Locals, StealReserve(t)
    PROVE  \E v \in Locals, p \in Prios, n \in Nat :
             /\ n \in 1 .. Len(queue[v][p]) /\ n <= HalfCapacity
             /\ loot' = [loot EXCEPT ![t] = SubSeq(queue[v][p], 1, n)]
             /\ queue' = [queue EXCEPT ![v][p] = SubSeq(@, n + 1, Len(@))]
             /\ todo' = [todo EXCEPT ![t] = {p}]
<1>1. PICK p \in todo[t] :
        /\ StealCount(t, victim[t], p) > 0
        /\ loot' = [loot EXCEPT ![t] =
                     SubSeq(queue[victim[t]][p], 1, StealCount(t, victim[t], p))]
        /\ queue' = [queue EXCEPT ![victim[t]][p] =
                      SubSeq(@, StealCount(t, victim[t], p) + 1, Len(@))]
        /\ todo' = [todo EXCEPT ![t] = {p}]
  BY DEF StealReserve
<1>2. p \in Prios /\ victim[t] \in Locals
  BY DEF Typed, TypeOK
<1>3. /\ StealCount(t, victim[t], p) \in 1 .. Len(queue[victim[t]][p])
      /\ StealCount(t, victim[t], p) <= HalfCapacity
  BY <1>1, <1>2, StealCountBounds
<1>4. StealCount(t, victim[t], p) \in Nat
  BY SMTT(60), <1>3
<1> QED
  BY <1>1, <1>2, <1>3, <1>4

\* The compare-and-swap of a steal moves items from one place to another and
\* loses or doubles none.
LEMMA ItemsStealReserve ==
    ASSUME Typed, Placed, Unrepeated, NEW t \in Locals, StealReserve(t)
    PROVE  Placed' /\ Unrepeated'
<1>0. PICK v \in Locals, p \in Prios, n \in Nat :
        /\ n \in 1 .. Len(queue[v][p])
        /\ loot' = [loot EXCEPT ![t] = SubSeq(queue[v][p], 1, n)]
        /\ queue' = [queue EXCEPT ![v][p] = SubSeq(@, n + 1, Len(@))]
  BY SMTT(60), StealMoves
<1>m. PICK M : M = Range(SubSeq(queue[v][p], 1, n))
  OBVIOUS
<1> DEFINE a == <<"queue", v, p>>
           b == <<"loot", t, 0>>
<1>q. queue[v][p] \in Seq(Items) /\ IsInjective(queue[v][p]) /\ loot[t] = <<>>
  <2>1. queue[v][p] \in Seq(Items)
    BY DEF Typed, TypeOK
  <2>2. IsInjective(queue[v][p])
    BY DEF Unrepeated
  <2>3. loot[t] = <<>>
    BY DEF Typed, CallState, StealReserve
  <2> QED
    BY <2>1, <2>2, <2>3
<1>r. /\ M \subseteq Range(queue[v][p])
      /\ Range(SubSeq(queue[v][p], n + 1, Len(queue[v][p]))) = Range(queue[v][p]) \ M
      /\ IsInjective(SubSeq(queue[v][p], 1, n))
      /\ IsInjective(SubSeq(queue[v][p], n + 1, Len(queue[v][p])))
  BY <1>0, <1>q, <1>m, SplitFacts, SMT
<1>s. Range(loot[t]) = {}
  BY <1>q, SMT DEF Range
<1>1. M \subseteq Range(queue[v][p]) /\ Range(loot[t]) = {}
  BY <1>r, <1>s
<1>2. /\ loot' = [loot EXCEPT ![t] = SubSeq(queue[v][p], 1, n)]
      /\ queue' = [queue EXCEPT ![v][p] = SubSeq(@, n + 1, Len(@))]
      /\ UNCHANGED <<fresh, popped, shared, item, moving>>
  BY <1>0 DEF StealReserve
<1>3. a \in Containers /\ b \in Containers /\ a # b
  BY <1>1, AreContainers
<1>4. Contents(a) = Range(queue[v][p]) /\ Contents(b) = {}
  BY <1>1, ContentsOf
<1>5. \A x \in Items : x \in Contents(a) => x \notin Contents(b)
  BY <1>3, PlacedApart
<1>6. /\ queue'[v][p] = SubSeq(queue[v][p], n + 1, Len(queue[v][p]))
      /\ loot'[t] = SubSeq(queue[v][p], 1, n)
  BY <1>2 DEF Typed, TypeOK
<1>7. Contents(a)' = Range(queue[v][p]) \ M /\ Contents(b)' = M
  BY ZenonT(60), <1>m, <1>r, <1>6, ContentsOfNext
<1>8. \A c \in Containers \ {a, b} : Contents(c)' = Contents(c)
  BY <1>1, <1>2, FrameRule DEF Typed, TypeOK
<1>9. Moves(M, a, b)
  BY <1>1, <1>3, <1>4, <1>7, <1>8 DEF Moves
<1>10. Placed'
  BY <1>9, MoveKeepsPlaced
<1>11. Unrepeated'
  <2>1. IsInjective(queue'[v][p]) /\ IsInjective(loot'[t])
    BY <1>r, <1>6
  <2> QED
    BY <1>2, <2>1 DEF Typed, TypeOK, Unrepeated
<1> QED
  BY <1>10, <1>11

\* The arrival of stolen items moves items from one place to another and loses
\* or doubles none.
LEMMA ItemsStealPublish ==
    ASSUME Typed, Placed, Unrepeated, NEW t \in Locals, StealPublish(t)
    PROVE  Placed' /\ Unrepeated'
<1>0. PICK p \in Prios : queue' = [queue EXCEPT ![t][p] = @ \o loot[t]]
  BY DEF StealPublish, Typed, TypeOK
<1>m. PICK M : M = Range(loot[t])
  OBVIOUS
<1> DEFINE a == <<"loot", t, 0>>
           b == <<"queue", t, p>>
<1>1. /\ queue[t][p] \in Seq(Items) /\ IsInjective(queue[t][p])
      /\ loot[t] \in Seq(Items) /\ IsInjective(loot[t])
      /\ M = Range(loot[t]) /\ M \subseteq Items
  BY <1>m, RangeOfSeq, SMT DEF Typed, TypeOK, Unrepeated
<1>2. /\ loot' = [loot EXCEPT ![t] = <<>>]
      /\ queue' = [queue EXCEPT ![t][p] = @ \o loot[t]]
      /\ UNCHANGED <<fresh, popped, shared, item, moving>>
  BY <1>0 DEF StealPublish
<1>3. a \in Containers /\ b \in Containers /\ a # b
  BY <1>1, AreContainers
<1>4. Contents(a) = M /\ Contents(b) = Range(queue[t][p])
  BY <1>1, ContentsOf
<1>5. \A x \in Items : x \in Contents(a) => x \notin Contents(b)
  BY <1>3, PlacedApart
<1>6. queue'[t][p] = queue[t][p] \o loot[t] /\ loot'[t] = <<>>
  BY <1>2 DEF Typed, TypeOK
<1>r. Range(queue[t][p] \o loot[t]) = Range(queue[t][p]) \cup M
  <2>1. queue[t][p] \in Seq(Items) /\ loot[t] \in Seq(Items) /\ M = Range(loot[t])
    BY <1>1
  <2>2. Range(queue[t][p] \o loot[t]) = Range(queue[t][p]) \cup Range(loot[t])
    BY <2>1, ConcatFacts
  <2> QED
    BY <2>1, <2>2
<1>s. Range(<<>>) = {} /\ IsInjective(<<>>)
  BY EmptyRange
<1>7. Contents(a)' = {} /\ Contents(b)' = Range(queue[t][p]) \cup M
  BY <1>6, <1>r, <1>s, ContentsOfNext
<1>8. \A c \in Containers \ {a, b} : Contents(c)' = Contents(c)
  BY ZenonT(60), <1>1, <1>2, FrameRule DEF Typed, TypeOK
<1>9. Moves(M, a, b)
  BY <1>1, <1>3, <1>4, <1>7, <1>8 DEF Moves
<1>10. Placed'
  BY <1>9, MoveKeepsPlaced
<1>11. Unrepeated'
  <2>1. Range(queue[t][p]) \cap Range(loot[t]) = {}
    BY <1>1, <1>4, <1>5
  <2>2. IsInjective(queue'[t][p]) /\ IsInjective(loot'[t])
    BY SMTT(60), <1>1, <1>6, <1>s, <2>1, ConcatFacts
  <2> QED
    BY <1>2, <2>2 DEF Typed, TypeOK, Unrepeated
<1> QED
  BY <1>10, <1>11

\* The other actions leave all containers alone.
LEMMA ItemsUnchanged ==
    ASSUME Placed, Unrepeated, UNCHANGED <<fresh, popped, shared, queue, item, moving, loot>>
    PROVE  Placed' /\ Unrepeated'
<1>1. \A c \in Containers : Contents(c)' = Contents(c)
  BY DEF Contents
<1>2. Placed'
  BY <1>1, SMT DEF Placed
<1>3. Unrepeated'
  BY DEF Unrepeated
<1> QED
  BY <1>2, <1>3

\* Every step keeps each item in exactly one place and at one position there.
LEMMA ItemsNext == Typed /\ Placed /\ Unrepeated /\ [Next]_vars => Placed' /\ Unrepeated'
<1> SUFFICES ASSUME Typed, Placed, Unrepeated, [Next]_vars
             PROVE  Placed' /\ Unrepeated'
  OBVIOUS
<1>1. ASSUME NEW t \in Locals, NEW i \in Items, PushLocal(t, i) \/ PushOverflow(t, i)
      PROVE  Placed' /\ Unrepeated'
  BY <1>1, ItemsPushLocal, ItemsPushOverflow
<1>2. ASSUME NEW t \in Locals,
             \/ SharedInject(t) \/ SharedStoreSub(t) \/ SharedSteal(t) \/ SpillPop(t)
             \/ SpillDone(t) \/ PopLocal(t) \/ StealReserve(t) \/ StealPublish(t)
      PROVE  Placed' /\ Unrepeated'
  BY <1>2, ItemsSharedInject, ItemsSharedStoreSub, ItemsSharedSteal, ItemsSpillPop,
     ItemsSpillDone, ItemsPopLocal, ItemsStealReserve, ItemsStealPublish
<1>3. ASSUME NEW t \in Locals,
             \/ Pop(t) \/ SharedLoad(t) \/ SharedStoreAdd(t) \/ SharedIsEmpty(t)
             \/ SharedMiss(t) \/ SpillSkip(t) \/ PopLast(t) \/ TryLock(t) \/ StealMiss(t)
             \/ StealGiveUp(t) \/ StealRefresh(t)
      PROVE  Placed' /\ Unrepeated'
  <2>1. UNCHANGED <<fresh, popped, shared, queue, item, moving, loot>>
    BY <1>3 DEF Pop, SharedLoad, SharedStoreAdd, SharedIsEmpty, SharedMiss, SpillSkip,
       PopLast, TryLock, StealMiss, StealGiveUp, StealRefresh, queues, control
  <2> QED
    BY <2>1, ItemsUnchanged
<1>4. CASE UNCHANGED vars
  BY <1>4, ItemsUnchanged DEF vars, queues, control
<1> QED
  BY <1>1, <1>2, <1>3, <1>4 DEF Next, Step

\* At first no item has been pushed, so each is in its one place.
LEMMA ItemsInit == Init => Placed /\ Unrepeated
<1> SUFFICES ASSUME Init PROVE Placed /\ Unrepeated
  OBVIOUS
<1>1. Range(<<>>) = {} /\ IsInjective(<<>>)
  BY EmptyRange
<1>2. Contents(<<"fresh", 0, 0>>) = Items
  BY ContentsOf DEF Init
<1>3. ASSUME NEW c \in Containers, c # <<"fresh", 0, 0>>
      PROVE  Contents(c) = {}
  <2>1. /\ popped = {}
        /\ \A p \in Prios : Range(shared[p]) = {}
        /\ \A l \in Locals, p \in Prios : Range(queue[l][p]) = {}
        /\ \A l \in Locals : /\ {item[l]} \ {NoItem} = {}
                             /\ {moving[l]} \ {NoItem} = {}
                             /\ Range(loot[l]) = {}
    BY <1>1 DEF Init
  <2>2. CASE c = <<"popped", 0, 0>> \/ \E p \in Prios : c = <<"shared", 0, p>>
    BY <2>1, <2>2, ContentsOf
  <2>3. CASE \E l \in Locals, p \in Prios : c = <<"queue", l, p>>
    BY SMTT(60), <2>1, <2>3, ContentsOf
  <2>4. ASSUME NEW l \in Locals
        PROVE  /\ Contents(<<"item", l, 0>>) = {} /\ Contents(<<"moving", l, 0>>) = {}
               /\ Contents(<<"loot", l, 0>>) = {}
    BY <2>1, ContentsOf
  <2> QED
    BY <1>3, <2>2, <2>3, <2>4, ContainerKinds
<1>4. Placed
  BY <1>2, <1>3, AreContainers DEF Placed
<1>5. Unrepeated
  BY <1>1 DEF Init, Unrepeated
<1> QED
  BY <1>4, <1>5

\* Whatever pushes, spills, steals and pops do at the same time, every item is
\* in exactly one place and no queue holds it twice.
THEOREM ItemsNeverLostOrDoubled == Spec => []EachItemOnce
<1> DEFINE Inv == Typed /\ Placed /\ Unrepeated
<1>1. Init => Inv
  BY TypedInit, ItemsInit
<1>2. Inv /\ [Next]_vars => Inv'
  BY TypedNext, ItemsNext
<1>3. Inv => EachItemOnce
  BY DEF Placed, Unrepeated, EachItemOnce
<1> QED
  BY <1>1, <1>2, <1>3, PTL DEF Spec

-----------------------------------------------------------------------------
(* Items stay in the injectors and workers of their own priority, whatever *)
(* is spilled, stolen and popped at the same time.                         *)

Keyed == PriorityKept /\ \A t \in Locals : KeyOK(t)

\* Steps that put nothing new into a queue.
LEMMA KeyedShrink ==
    ASSUME Keyed,
           \A p \in Prios : Range(shared'[p]) \subseteq Range(shared[p]),
           \A l \in Locals, p \in Prios : Range(queue'[l][p]) \subseteq Range(queue[l][p]),
           \A t \in Locals : KeyOK(t)'
    PROVE  Keyed'
BY DEF Keyed, PriorityKept

\* Every step keeps items in the queues of their own priority.
LEMMA KeyedNext == Items1 /\ Keyed /\ [Next]_vars => Keyed'
<1> SUFFICES ASSUME Items1, Keyed, [Next]_vars
             PROVE  Keyed'
  OBVIOUS
<1> USE DEF Items1
<1>1. ASSUME NEW t \in Locals, NEW i \in Items, PushLocal(t, i)
      PROVE  Keyed'
  <2>1. /\ queue' = [queue EXCEPT ![t][Prio[i]] = Append(@, i)]
        /\ UNCHANGED <<shared, pc, moving, key, loot, todo>>
    BY <1>1 DEF PushLocal, control
  <2>2. Prio[i] \in Prios
    BY PriosFacts
  <2>3. ASSUME NEW l \in Locals, NEW p \in Prios, NEW j \in Range(queue'[l][p])
        PROVE  Prio[j] = p
    <3>1. CASE l = t /\ p = Prio[i]
      <4>1. queue[t][p] \in Seq(Items) /\ queue'[l][p] = Append(queue[t][p], i)
        BY <2>1, <3>1 DEF Typed, TypeOK
      <4>2. j \in Range(queue[t][p]) \cup {i}
        BY <2>3, <4>1, AppendFacts, SMT
      <4> QED
        BY <3>1, <4>2 DEF Keyed, PriorityKept
    <3>2. CASE ~(l = t /\ p = Prio[i])
      <4>1. queue'[l][p] = queue[l][p]
        BY <2>1, <2>2, <3>2 DEF Typed, TypeOK
      <4> QED
        BY <2>3, <4>1 DEF Keyed, PriorityKept
    <3> QED
      BY <3>1, <3>2
  <2> QED
    BY <2>1, <2>3 DEF Keyed, PriorityKept, KeyOK
<1>2. ASSUME NEW t \in Locals, SharedInject(t)
      PROVE  Keyed'
  <2>1. /\ pc[t] = "inject" /\ pc' = [pc EXCEPT ![t] = "load_add"]
        /\ shared' = [shared EXCEPT ![key[t]] = Append(@, moving[t])]
        /\ moving' = [moving EXCEPT ![t] = NoItem]
        /\ key' = [key EXCEPT ![t] = NoItem]
        /\ UNCHANGED <<queue, loot, todo>>
    BY <1>2 DEF SharedInject, Goto
  <2>2. moving[t] \in Items /\ key[t] \in Prios /\ Prio[moving[t]] = key[t]
    BY <2>1, SMT DEF Typed, TypeOK, CallState, Keyed, KeyOK
  <2>3. ASSUME NEW p \in Prios, NEW j \in Range(shared'[p])
        PROVE  Prio[j] = p
    <3>1. CASE p = key[t]
      <4>1. shared[p] \in Seq(Items) /\ shared'[p] = Append(shared[p], moving[t])
        BY <2>1, <3>1 DEF Typed, TypeOK
      <4>2. j \in Range(shared[p]) \cup {moving[t]}
        BY <2>2, <2>3, <4>1, AppendFacts, SMT
      <4> QED
        BY <2>2, <3>1, <4>2 DEF Keyed, PriorityKept
    <3>2. CASE p # key[t]
      <4>1. shared'[p] = shared[p]
        BY <2>1, <3>2 DEF Typed, TypeOK
      <4> QED
        BY <2>3, <4>1 DEF Keyed, PriorityKept
    <3> QED
      BY <3>1, <3>2
  <2>4. \A u \in Locals : KeyOK(u)'
    BY <2>1 DEF Keyed, KeyOK, Typed, TypeOK
  <2> QED
    BY <2>1, <2>3, <2>4 DEF Keyed, PriorityKept
<1>3. ASSUME NEW t \in Locals, SharedSteal(t)
      PROVE  Keyed'
  <2>1. PICK p \in Prios : shared[p] # <<>> /\ shared' = [shared EXCEPT ![p] = Tail(@)]
    BY <1>3 DEF SharedSteal, Typed, TypeOK
  <2>2. /\ pc' = [pc EXCEPT ![t] = "load_sub"] /\ \A u \in Locals \ {t} : moving'[u] = moving[u]
        /\ \A u \in Locals \ {t} : todo'[u] = todo[u]
        /\ UNCHANGED <<queue, key, loot>>
    BY <1>3 DEF SharedSteal, Goto, Typed, TypeOK
  <2>3. \A q \in Prios : Range(shared'[q]) \subseteq Range(shared[q])
    BY <2>1, TailFacts, SMT DEF Typed, TypeOK
  <2>4. \A u \in Locals : KeyOK(u)'
    BY <2>2 DEF Keyed, KeyOK, Typed, TypeOK
  <2> QED
    BY <2>2, <2>3, <2>4, KeyedShrink
<1>4. ASSUME NEW t \in Locals, SpillPop(t)
      PROVE  Keyed'
  <2>1. PICK p \in Prios :
          /\ queue[t][p] # <<>> /\ queue' = [queue EXCEPT ![t][p] = Tail(@)]
          /\ moving' = [moving EXCEPT ![t] = Head(queue[t][p])]
          /\ key' = [key EXCEPT ![t] = p]
    BY <1>4 DEF SpillPop, WorkerPop, Typed, TypeOK
  <2>2. /\ pc' = [pc EXCEPT ![t] = "inject"] /\ UNCHANGED <<shared, loot>>
        /\ \A u \in Locals \ {t} : todo'[u] = todo[u]
    BY <1>4 DEF SpillPop, Goto, NextSweep, Typed, TypeOK
  <2>3. queue[t][p] \in Seq(Items) /\ Head(queue[t][p]) \in Range(queue[t][p])
        /\ Range(Tail(queue[t][p])) \subseteq Range(queue[t][p])
    BY <2>1, TailFacts, SMT DEF Typed, TypeOK
  <2>4. Prio[Head(queue[t][p])] = p
    BY <2>3 DEF Keyed, PriorityKept
  <2>5. \A l \in Locals, q \in Prios : Range(queue'[l][q]) \subseteq Range(queue[l][q])
    BY <2>1, <2>3 DEF Typed, TypeOK
  <2>6. \A u \in Locals : KeyOK(u)'
    BY <2>1, <2>2, <2>4 DEF Keyed, KeyOK, Typed, TypeOK
  <2> QED
    BY <2>2, <2>5, <2>6, KeyedShrink
<1>5. ASSUME NEW t \in Locals, SpillDone(t)
      PROVE  Keyed'
  <2>1. /\ moving' = [moving EXCEPT ![t] = item[t]]
        /\ key' = [key EXCEPT ![t] = Prio[item[t]]]
        /\ pc' = [pc EXCEPT ![t] = "inject"] /\ todo' = [todo EXCEPT ![t] = {}]
        /\ UNCHANGED <<shared, queue, loot>>
    BY <1>5 DEF SpillDone, Goto, queues
  <2>2. \A u \in Locals : KeyOK(u)'
    BY <2>1 DEF Keyed, KeyOK, Typed, TypeOK
  <2> QED
    BY <2>1, <2>2, KeyedShrink
<1>6. ASSUME NEW t \in Locals, PopLocal(t)
      PROVE  Keyed'
  <2>1. PICK p \in Prios :
          queue[t][p] # <<>> /\ queue' = [queue EXCEPT ![t][p] = Tail(@)]
    BY <1>6 DEF PopLocal, WorkerPop
  <2>2. pc' = [pc EXCEPT ![t] = "idle"] /\ UNCHANGED <<shared, moving, key, loot, todo>>
    BY <1>6 DEF PopLocal, Goto, control
  <2>0. Range(Tail(queue[t][p])) \subseteq Range(queue[t][p])
    BY <2>1, TailFacts, SMT DEF Typed, TypeOK
  <2>3. \A l \in Locals, q \in Prios : Range(queue'[l][q]) \subseteq Range(queue[l][q])
    BY <2>0, <2>1 DEF Typed, TypeOK
  <2>4. \A u \in Locals : KeyOK(u)'
    BY SMTT(60), <2>2 DEF Keyed, KeyOK, Typed, TypeOK
  <2> QED
    BY <2>2, <2>3, <2>4, KeyedShrink
<1>7. ASSUME NEW t \in Locals, StealReserve(t)
      PROVE  Keyed'
  <2>1. PICK v \in Locals, p \in Prios, n \in Nat :
          /\ n \in 1 .. Len(queue[v][p])
          /\ loot' = [loot EXCEPT ![t] = SubSeq(queue[v][p], 1, n)]
          /\ queue' = [queue EXCEPT ![v][p] = SubSeq(@, n + 1, Len(@))]
          /\ todo' = [todo EXCEPT ![t] = {p}]
    BY <1>7, StealMoves
  <2>2. pc' = [pc EXCEPT ![t] = "publish"] /\ UNCHANGED <<shared, moving, key>>
    BY <1>7 DEF StealReserve, Goto
  <2>3. /\ Range(SubSeq(queue[v][p], 1, n)) \subseteq Range(queue[v][p])
        /\ Range(SubSeq(queue[v][p], n + 1, Len(queue[v][p]))) \subseteq Range(queue[v][p])
    <3>1. queue[v][p] \in Seq(Items)
      BY DEF Typed, TypeOK
    <3> QED
      BY <2>1, <3>1, SplitFacts
  <2>4. \A l \in Locals, q \in Prios : Range(queue'[l][q]) \subseteq Range(queue[l][q])
    BY <2>1, <2>3 DEF Typed, TypeOK
  <2>5. \A i \in Range(SubSeq(queue[v][p], 1, n)) : Prio[i] = p
    BY <2>3 DEF Keyed, PriorityKept
  <2>6. \A u \in Locals : KeyOK(u)'
    BY ZenonT(60), <2>1, <2>2, <2>5 DEF Keyed, KeyOK, Typed, TypeOK
  <2> QED
    BY <2>2, <2>4, <2>6, KeyedShrink
<1>8. ASSUME NEW t \in Locals, StealPublish(t)
      PROVE  Keyed'
  <2>1. PICK p \in todo[t] : queue' = [queue EXCEPT ![t][p] = @ \o loot[t]]
    BY <1>8 DEF StealPublish
  <2>2. /\ pc[t] = "publish" /\ pc' = [pc EXCEPT ![t] = "refresh"]
        /\ loot' = [loot EXCEPT ![t] = <<>>] /\ UNCHANGED <<shared, moving, key, todo>>
    BY <1>8 DEF StealPublish, Goto
  <2>3. ASSUME NEW l \in Locals, NEW q \in Prios, NEW j \in Range(queue'[l][q])
        PROVE  Prio[j] = q
    <3>1. CASE l = t /\ p = q
      <4>1. queue[t][p] \in Seq(Items) /\ loot[t] \in Seq(Items)
            /\ queue'[l][q] = queue[t][p] \o loot[t]
        BY <2>1, <3>1 DEF Typed, TypeOK
      <4>2. j \in Range(queue[t][p]) \cup Range(loot[t])
        BY <2>3, <4>1, ConcatFacts
      <4> QED
        BY <2>2, <3>1, <4>2, SMT DEF Keyed, PriorityKept, KeyOK
    <3>2. CASE ~(l = t /\ p = q)
      <4>1. queue'[l][q] = queue[l][q]
        BY <2>1, <3>2 DEF Typed, TypeOK
      <4> QED
        BY <2>3, <4>1 DEF Keyed, PriorityKept
    <3> QED
      BY <3>1, <3>2
  <2>4. \A u \in Locals : KeyOK(u)'
    BY SMTT(60), <2>2 DEF Keyed, KeyOK, Typed, TypeOK
  <2> QED
    BY <2>2, <2>3, <2>4 DEF Keyed, PriorityKept
<1>9. ASSUME UNCHANGED <<shared, queue, key, loot>>,
             \A u \in Locals :
               /\ pc'[u] \in {"inject", "publish"} => pc[u] = pc'[u]
               /\ pc'[u] = "inject" => moving'[u] = moving[u]
               /\ pc'[u] = "publish" => todo'[u] = todo[u]
      PROVE  Keyed'
  <2>1. \A u \in Locals : KeyOK(u)'
    BY <1>9 DEF Keyed, KeyOK
  <2> QED
    BY <1>9, <2>1, KeyedShrink
<1>10. ASSUME NEW t \in Locals, \E i \in Items : PushOverflow(t, i)
       PROVE  Keyed'
  BY SMTT(60), <1>9, <1>10 DEF PushOverflow, Goto, queues, Typed, TypeOK
<1>11. ASSUME NEW t \in Locals, Pop(t) \/ SharedLoad(t) \/ SharedIsEmpty(t)
       PROVE  Keyed'
  <2>1. CASE Pop(t) \/ SharedLoad(t)
    <3>1. /\ pc'[t] \in {"is_empty", "local", "store_add", "store_sub"}
          /\ \A u \in Locals \ {t} : pc'[u] = pc[u]
          /\ UNCHANGED <<shared, queue, key, loot, moving, todo>>
      BY <2>1, SMT DEF Pop, SharedLoad, Goto, queues, Typed, TypeOK
    <3> QED
      BY <1>9, <3>1
  <2>2. CASE SharedIsEmpty(t)
    <3>1. /\ pc'[t] \in {"idle", "local", "scan"}
          /\ \A u \in Locals \ {t} : pc'[u] = pc[u] /\ todo'[u] = todo[u]
          /\ UNCHANGED <<shared, queue, key, loot, moving>>
      BY <2>2 DEF SharedIsEmpty, Goto, queues, Typed, TypeOK, CallState
    <3> QED
      BY <1>9, <3>1
  <2> QED
    BY <1>11, <2>1, <2>2
<1>12. ASSUME NEW t \in Locals, SharedStoreAdd(t) \/ SharedStoreSub(t)
       PROVE  Keyed'
  BY ZenonT(60), <1>9, <1>12 DEF SharedStoreAdd, SharedStoreSub, Goto, queues, Typed, TypeOK, CallState
<1>13. ASSUME NEW t \in Locals, SharedMiss(t)
       PROVE  Keyed'
  <2>1. /\ pc'[t] \in {"idle", "local", "scan"}
        /\ \A u \in Locals \ {t} : pc'[u] = pc[u] /\ todo'[u] = todo[u]
        /\ UNCHANGED <<shared, queue, key, loot, moving>>
    BY <1>13 DEF SharedMiss, Goto, queues, Typed, TypeOK, CallState
  <2> QED
    BY <1>9, <2>1
<1>14. ASSUME NEW t \in Locals, SpillSkip(t) \/ StealMiss(t)
       PROVE  Keyed'
  <2>1. /\ pc[t] \in {"spill", "steal"} /\ UNCHANGED pc
        /\ \A u \in Locals \ {t} : todo'[u] = todo[u]
        /\ UNCHANGED <<shared, queue, key, loot, moving>>
    BY ZenonT(60), <1>14 DEF SpillSkip, StealMiss, NextSweep, queues, Typed, TypeOK
  <2> QED
    BY <1>9, <2>1
<1>15. ASSUME NEW t \in Locals, PopLast(t) \/ TryLock(t)
       PROVE  Keyed'
  <2>1. /\ pc'[t] \in {"idle", "is_empty", "steal"}
        /\ \A u \in Locals \ {t} : pc'[u] = pc[u] /\ todo'[u] = todo[u]
        /\ UNCHANGED <<shared, queue, key, loot, moving>>
    BY SMTT(60), <1>15 DEF PopLast, TryLock, Goto, queues, control, Typed, TypeOK
  <2> QED
    BY <1>9, <2>1
<1>16. ASSUME NEW t \in Locals, StealGiveUp(t) \/ StealRefresh(t)
       PROVE  Keyed'
  <2>1. /\ pc'[t] \in {"is_empty", "last"}
        /\ \A u \in Locals \ {t} : pc'[u] = pc[u] /\ todo'[u] = todo[u]
        /\ UNCHANGED <<shared, queue, key, loot, moving>>
    BY SMTT(60), <1>16 DEF StealGiveUp, StealRefresh, LeaveLoop, Goto, queues, Typed, TypeOK
  <2> QED
    BY <1>9, <2>1
<1>17. CASE UNCHANGED vars
  BY <1>9, <1>17 DEF vars, queues, control
<1> QED
  BY <1>1, <1>2, <1>3, <1>4, <1>5, <1>6, <1>7, <1>8, <1>10, <1>11, <1>12, <1>13, <1>14,
     <1>15, <1>16, <1>17 DEF Next, Step

\* Empty queues hold no item of a wrong priority.
LEMMA KeyedInit == Init => Keyed
<1> SUFFICES ASSUME Init
             PROVE  Keyed
  OBVIOUS
<1>1. \A s : s = <<>> => Range(s) = {}
  BY EmptyRange
<1>2. /\ \A p \in Prios : Range(shared[p]) = {}
      /\ \A l \in Locals, p \in Prios : Range(queue[l][p]) = {}
  BY <1>1 DEF Init
<1> QED
  BY <1>2 DEF Keyed, PriorityKept, KeyOK, Init

\* No spill and no steal changes the priority of an item, for every number of
\* threads, items and priorities and for every capacity.
THEOREM PriorityNeverChanged == Spec => []PriorityKept
<1> DEFINE Inv == Items1 /\ Keyed
<1>1. Init => Inv
  BY TypedInit, ItemsInit, KeyedInit DEF Items1
<1>2. Inv /\ [Next]_vars => Inv'
  BY TypedNext, ItemsNext, KeyedNext DEF Items1
<1>3. Inv => PriorityKept
  BY DEF Keyed
<1> QED
  BY <1>1, <1>2, <1>3, PTL DEF Spec

-----------------------------------------------------------------------------
(* The counter of a local queue and what the queue holds, although thieves *)
(* never lower the victim's counter: first the steps of the owner alone    *)
(* (push, spill and pop_local), then the steps of a thief.                 *)

CountedAt(t) == LenOK(t) /\ Cardinality(LocalItems(t)) <= LocalCapacity

Counted == \A t \in Locals : CountedAt(t)

-----------------------------------------------------------------------------
(* The items of a local queue.                                             *)

\* A local queue holds finitely many items.
LEMMA LocalItemsFinite ==
    ASSUME TypeOK, NEW l \in Locals
    PROVE  /\ LocalItems(l) \subseteq Items
           /\ IsFiniteSet(LocalItems(l))
           /\ Cardinality(LocalItems(l)) \in Nat
<1>1. \A p \in Prios : queue[l][p] \in Seq(Items)
  BY DEF TypeOK
<1>2. \A p \in Prios : Range(queue[l][p]) \subseteq Items
  BY <1>1, SMT DEF Range
<1>3. LocalItems(l) \subseteq Items
  BY <1>2 DEF LocalItems
<1>4. IsFiniteSet(LocalItems(l))
  BY <1>3, FS_Subset, ConstantsAssumption
<1> QED
  BY <1>3, <1>4, FS_CardinalityType

\* A queue out of which items go has no more items than before.
LEMMA LocalItemsShrink ==
    ASSUME TypeOK, TypeOK', NEW l \in Locals,
           \A p \in Prios : Range(queue'[l][p]) \subseteq Range(queue[l][p])
    PROVE  /\ LocalItems(l)' \subseteq LocalItems(l)
           /\ Cardinality(LocalItems(l)') <= Cardinality(LocalItems(l))
           /\ Cardinality(LocalItems(l)') \in Nat
<1>1. LocalItems(l)' \subseteq LocalItems(l)
  BY DEF LocalItems
<1>2. IsFiniteSet(LocalItems(l))
  BY LocalItemsFinite
<1>3. IsFiniteSet(LocalItems(l)') /\ Cardinality(LocalItems(l)') <= Cardinality(LocalItems(l))
  BY <1>1, <1>2, FS_Subset
<1> QED
  BY <1>1, <1>3, FS_CardinalityType

\* A queue that loses its head has one item less.
LEMMA LocalItemsPop ==
    ASSUME Typed, TypeOK', Placed, Unrepeated, NEW l \in Locals, NEW p \in Prios,
           queue[l][p] # <<>>,
           queue' = [queue EXCEPT ![l][p] = Tail(@)]
    PROVE  /\ \A u \in Locals, q \in Prios :
                Range(queue'[u][q]) \subseteq Range(queue[u][q])
           /\ Cardinality(LocalItems(l)') + 1 <= Cardinality(LocalItems(l))
<1>1. queue[l][p] \in Seq(Items)
  BY SMTT(60) DEF Typed, TypeOK
<1>2. IsInjective(queue[l][p])
  BY DEF Unrepeated
<1>3. /\ Head(queue[l][p]) \in Range(queue[l][p])
      /\ Range(Tail(queue[l][p])) = Range(queue[l][p]) \ {Head(queue[l][p])}
  BY <1>1, <1>2, TailFacts
<1>4. PICK h : h = Head(queue[l][p])
  OBVIOUS
<1>5. /\ queue'[l][p] = Tail(queue[l][p])
      /\ \A u \in Locals, q \in Prios : u # l \/ q # p => queue'[u][q] = queue[u][q]
  BY SMTT(60) DEF Typed, TypeOK
<1>6. \A u \in Locals, q \in Prios : Range(queue'[u][q]) \subseteq Range(queue[u][q])
  BY <1>3, <1>5
<1>7. LocalItems(l)' \subseteq LocalItems(l)
  BY <1>6 DEF LocalItems
<1>8. ASSUME NEW q \in Prios, h \in Range(queue[l][q])
      PROVE  q = p
  <2>1. /\ <<"queue", l, q>> \in Containers /\ <<"queue", l, p>> \in Containers
        /\ Contents(<<"queue", l, q>>) = Range(queue[l][q])
        /\ Contents(<<"queue", l, p>>) = Range(queue[l][p])
    BY AreContainers, ContentsOf
  <2>2. h \in Items
    BY <1>1, <1>4, TailFacts
  <2>3. <<"queue", l, q>> = <<"queue", l, p>>
    BY <1>3, <1>4, <1>8, <2>1, <2>2, PlacedApart, SMT
  <2> QED
    BY <2>3
<1>9. h \in LocalItems(l) /\ h \notin LocalItems(l)'
  BY <1>3, <1>4, <1>5, <1>8, SMT DEF LocalItems
<1>10. IsFiniteSet(LocalItems(l)) /\ Cardinality(LocalItems(l)) \in Nat
  BY LocalItemsFinite DEF Typed
<1>11. LocalItems(l)' \subseteq LocalItems(l) \ {h}
  BY <1>7, <1>9
<1>12. /\ IsFiniteSet(LocalItems(l) \ {h})
       /\ Cardinality(LocalItems(l) \ {h}) = Cardinality(LocalItems(l)) - 1
  BY <1>9, <1>10, FS_RemoveElement
<1>13. /\ Cardinality(LocalItems(l)') <= Cardinality(LocalItems(l) \ {h})
       /\ IsFiniteSet(LocalItems(l)')
  BY <1>11, <1>12, FS_Subset
<1>14. Cardinality(LocalItems(l)') \in Nat
  BY <1>13, FS_CardinalityType
<1> QED
  BY <1>6, <1>10, <1>12, <1>13, <1>14, SMT

\* An empty queue holds no item.
LEMMA NoLocalItems ==
    ASSUME NEW l \in Locals, LocallyEmpty(l)
    PROVE  Cardinality(LocalItems(l)) = 0
<1>1. Range(<<>>) = {}
  BY SMT DEF Range
<1>2. LocalItems(l) = {}
  BY <1>1 DEF LocalItems, LocallyEmpty
<1> QED
  BY <1>2, FS_EmptySet

\* A thread that does not move keeps its bounds: others only take from it.
LEMMA CountedOther ==
    ASSUME TypeOK, TypeOK', NEW u \in Locals, CountedAt(u),
           \A p \in Prios : Range(queue'[u][p]) \subseteq Range(queue[u][p]),
           pc'[u] = pc[u], ret'[u] = ret[u], len'[u] = len[u], count'[u] = count[u],
           done'[u] = done[u], todo'[u] = todo[u], loot'[u] = loot[u]
    PROVE  CountedAt(u)'
<1>1. /\ Cardinality(LocalItems(u)') <= Cardinality(LocalItems(u))
      /\ Cardinality(LocalItems(u)) \in Nat /\ Cardinality(LocalItems(u)') \in Nat
  BY LocalItemsShrink, LocalItemsFinite
<1>2. \A p \in Prios : queue[u][p] = <<>> => queue'[u][p] = <<>>
  <2> SUFFICES ASSUME NEW p \in Prios, queue[u][p] = <<>>
               PROVE  queue'[u][p] = <<>>
    OBVIOUS
  <2>1. \A s : s = <<>> => Range(s) = {}
    BY EmptyRange
  <2>2. Range(queue'[u][p]) = {}
    BY <2>1
  <2>3. queue'[u][p] \in Seq(Items)
    BY SMTT(60) DEF TypeOK
  <2> QED
    BY <2>2, <2>3, TailFacts
<1>3. InSpill(u)' = InSpill(u)
  BY DEF InSpill
<1>4. LocallyEmpty(u) => LocallyEmpty(u)'
  BY <1>2 DEF LocallyEmpty
<1>5. /\ len[u] \in Nat /\ done[u] \in Nat /\ count[u] \in Nat
      /\ LocalCapacity \in Nat
  BY ConstantsAssumption DEF TypeOK
<1>6. Cardinality(LocalItems(u)') <= LocalCapacity
  BY SMTT(60), <1>1, <1>5 DEF CountedAt
<1> QED
  BY SMTT(60), <1>1, <1>2, <1>3, <1>4, <1>5, <1>6 DEF CountedAt, LenOK

\* What is left to show of a step of t: nobody's queue but t's grows, the rest
\* of the state of the other threads stays, and t keeps its own bounds.
LEMMA CountedStep ==
    ASSUME TypeOK, TypeOK', Counted, NEW t \in Locals, CountedAt(t)',
           \A u \in Locals \ {t} :
             /\ pc'[u] = pc[u] /\ ret'[u] = ret[u] /\ len'[u] = len[u]
             /\ count'[u] = count[u] /\ done'[u] = done[u]
             /\ todo'[u] = todo[u] /\ loot'[u] = loot[u]
             /\ \A p \in Prios : Range(queue'[u][p]) \subseteq Range(queue[u][p])
    PROVE  Counted'
BY CountedOther DEF Counted

\* A step of t that leaves the queues alone.
LEMMA CountedQuiet ==
    ASSUME TypeOK, TypeOK', Counted, NEW t \in Locals, UNCHANGED queue,
           \A u \in Locals \ {t} :
             /\ pc'[u] = pc[u] /\ ret'[u] = ret[u] /\ len'[u] = len[u]
             /\ count'[u] = count[u] /\ done'[u] = done[u]
             /\ todo'[u] = todo[u] /\ loot'[u] = loot[u],
           LenOK(t)'
    PROVE  Counted'
<1>1. LocalItems(t)' = LocalItems(t)
  BY DEF LocalItems
<1>2. CountedAt(t)'
  BY <1>1 DEF Counted, CountedAt
<1> QED
  BY <1>2, CountedStep

\* push_with_priority keeps the owner's counter at or above what its workers
\* hold, and the workers within their capacity.
LEMMA CountedPush ==
    ASSUME Typed, TypeOK', Counted, NEW t \in Locals, NEW i \in Items, PushLocal(t, i)
    PROVE  Counted'
<1>1. /\ pc[t] = "idle" /\ len[t] < LocalCapacity
      /\ queue' = [queue EXCEPT ![t][Prio[i]] = Append(@, i)]
      /\ len' = [len EXCEPT ![t] = @ + 1]
      /\ UNCHANGED <<pc, ret, count, done, todo, loot>>
  BY SMTT(60), ConstantsAssumption DEF PushLocal, IsLocalFull, control, Typed, TypeOK
<1>2. PICK p \in Prios : p = Prio[i]
  BY PriosFacts
<1>3. /\ queue[t][p] \in Seq(Items) /\ len[t] \in Nat
      /\ queue'[t][p] = Append(queue[t][p], i)
      /\ \A u \in Locals, q \in Prios : u # t \/ q # p => queue'[u][q] = queue[u][q]
  <2>0. PICK s : s = Append(queue[t][p], i)
    OBVIOUS
  <2>1. queue' = [queue EXCEPT ![t][p] = s]
    BY <1>1, <1>2, <2>0
  <2>2. queue[t][p] \in Seq(Items) /\ len[t] \in Nat
    BY SMTT(60) DEF Typed, TypeOK
  <2>3. queue \in [Locals -> [Prios -> Seq(Items)]]
    BY DEF Typed, TypeOK
  <2>4. /\ queue'[t][p] = s
        /\ \A u \in Locals, q \in Prios : u # t \/ q # p => queue'[u][q] = queue[u][q]
    BY <2>1, <2>3
  <2> QED
    BY <2>0, <2>2, <2>4
<1>4. Range(queue'[t][p]) = Range(queue[t][p]) \cup {i}
  BY SMTT(60), <1>3, AppendFacts
<1>5. LocalItems(t)' \subseteq LocalItems(t) \cup {i}
  BY <1>3, <1>4 DEF LocalItems
<1>6. IsFiniteSet(LocalItems(t)) /\ Cardinality(LocalItems(t)) \in Nat
  BY LocalItemsFinite DEF Typed
<1>7. /\ IsFiniteSet(LocalItems(t) \cup {i})
      /\ Cardinality(LocalItems(t) \cup {i}) =
           IF i \in LocalItems(t) THEN Cardinality(LocalItems(t))
                                  ELSE Cardinality(LocalItems(t)) + 1
  BY <1>6, FS_AddElement
<1>8. /\ Cardinality(LocalItems(t)') <= Cardinality(LocalItems(t) \cup {i})
      /\ Cardinality(LocalItems(t)') \in Nat
  BY <1>5, <1>7, FS_Subset, FS_CardinalityType
<1>9. Cardinality(LocalItems(t)') <= Cardinality(LocalItems(t)) + 1
  BY <1>6, <1>7, <1>8, SMT
<1>10. Cardinality(LocalItems(t)) <= len[t] /\ Len(loot[t]) <= HalfCapacity
  BY <1>1 DEF Counted, CountedAt, LenOK, InSpill
<1>11. /\ Cardinality(LocalItems(t)') <= len[t] + 1
       /\ Cardinality(LocalItems(t)') <= LocalCapacity
  <2>1. len[t] + 1 <= LocalCapacity /\ LocalCapacity \in Nat
    BY SMTT(60), <1>1, <1>3, ConstantsAssumption
  <2> QED
    BY SMTT(60), <1>3, <1>6, <1>8, <1>9, <1>10, <2>1
<1>12. len'[t] = len[t] + 1 /\ pc'[t] = "idle" /\ loot'[t] = loot[t]
  BY <1>1 DEF Typed, TypeOK
<1>13. CountedAt(t)'
  BY <1>10, <1>11, <1>12 DEF CountedAt, LenOK, InSpill
<1> QED
  BY <1>1, <1>3, <1>13, CountedStep DEF Typed, TypeOK

\* Popping an item to spill keeps the owner's counter at or above what its
\* workers hold, and the workers within their capacity.
LEMMA CountedSpillPop ==
    ASSUME Typed, TypeOK', Placed, Unrepeated, Counted, NEW t \in Locals, SpillPop(t)
    PROVE  Counted'
<1>1. PICK p \in Prios : queue[t][p] # <<>> /\ queue' = [queue EXCEPT ![t][p] = Tail(@)]
  BY DEF SpillPop, WorkerPop, Typed, TypeOK
<1>2. /\ pc[t] = "spill" /\ done[t] < count[t]
      /\ pc' = [pc EXCEPT ![t] = "inject"] /\ ret' = [ret EXCEPT ![t] = "spill"]
      /\ done' = [done EXCEPT ![t] = @ + 1]
      /\ \A u \in Locals \ {t} : todo'[u] = todo[u]
      /\ UNCHANGED <<len, count, loot>>
  <2>1. /\ pc[t] = "spill" /\ done[t] < count[t]
        /\ pc' = [pc EXCEPT ![t] = "inject"] /\ ret' = [ret EXCEPT ![t] = "spill"]
        /\ done' = [done EXCEPT ![t] = @ + 1]
        /\ UNCHANGED <<len, count, loot>>
    BY DEF SpillPop, Goto, handle
  <2>2. PICK q \in todo[t] : NextSweep(t, q)
    BY DEF SpillPop
  <2>3. PICK S : S = IF todo[t] = {q} THEN Prios ELSE todo[t] \ {q}
    OBVIOUS
  <2>4. todo' = [todo EXCEPT ![t] = S]
    BY <2>2, <2>3 DEF NextSweep
  <2>5. todo \in [Locals -> SUBSET Prios]
    BY DEF Typed, TypeOK
  <2>6. \A u \in Locals \ {t} : todo'[u] = todo[u]
    BY <2>4, <2>5
  <2> QED
    BY <2>1, <2>6
<1>3. /\ \A u \in Locals, q \in Prios : Range(queue'[u][q]) \subseteq Range(queue[u][q])
      /\ Cardinality(LocalItems(t)') + 1 <= Cardinality(LocalItems(t))
  BY <1>1, LocalItemsPop
<1>4. /\ Cardinality(LocalItems(t)) \in Nat
      /\ Cardinality(LocalItems(t)') \in Nat
  BY <1>3, LocalItemsFinite, LocalItemsShrink DEF Typed
<1>5. /\ Cardinality(LocalItems(t)) + done[t] <= len[t]
      /\ Cardinality(LocalItems(t)) <= LocalCapacity
      /\ Len(loot[t]) <= HalfCapacity
  BY <1>2 DEF Counted, CountedAt, LenOK, InSpill
<1>6. /\ done[t] \in Nat /\ len[t] \in Nat /\ count[t] \in Nat
      /\ pc'[t] = "inject" /\ done'[t] = done[t] + 1
      /\ len'[t] = len[t] /\ count'[t] = count[t] /\ loot'[t] = loot[t]
      /\ LocalCapacity \in Nat
  BY ZenonT(60), <1>2, ConstantsAssumption DEF Typed, TypeOK
<1>7. /\ Cardinality(LocalItems(t)') + (done[t] + 1) <= len[t]
      /\ Cardinality(LocalItems(t)') <= len[t]
      /\ Cardinality(LocalItems(t)') <= LocalCapacity
      /\ done[t] + 1 <= count[t]
  <2>1. PICK n \in Nat, k \in Nat :
          n = Cardinality(LocalItems(t)) /\ k = Cardinality(LocalItems(t)')
    BY <1>4
  <2>2. PICK d \in Nat, l \in Nat, c \in Nat : d = done[t] /\ l = len[t] /\ c = count[t]
    BY <1>6
  <2>3. k + 1 <= n /\ n + d <= l /\ n <= LocalCapacity /\ d < c /\ LocalCapacity \in Nat
    BY <1>2, <1>3, <1>5, <1>6, <2>1, <2>2
  <2>4. k + (d + 1) <= l /\ k <= l /\ k <= LocalCapacity /\ d + 1 <= c
    BY <2>3, SMT
  <2> QED
    BY <2>1, <2>2, <2>4
<1>8. CountedAt(t)'
  BY <1>5, <1>6, <1>7 DEF CountedAt, LenOK, InSpill
<1> QED
  BY <1>2, <1>3, <1>8, CountedStep DEF Typed, TypeOK

\* pop_local keeps the owner's counter at or above what its workers hold, and
\* the workers within their capacity.
LEMMA CountedPopLocal ==
    ASSUME Typed, TypeOK', Placed, Unrepeated, Counted, NEW t \in Locals, PopLocal(t)
    PROVE  Counted'
<1>1. PICK p \in Prios : queue[t][p] # <<>> /\ queue' = [queue EXCEPT ![t][p] = Tail(@)]
  BY DEF PopLocal, WorkerPop
<1>2. /\ pc[t] \in {"local", "last"} /\ pc' = [pc EXCEPT ![t] = "idle"]
      /\ len' = [len EXCEPT ![t] = SaturatingSub(@, 1)]
      /\ UNCHANGED <<ret, count, done, todo, loot>>
  BY DEF PopLocal, Goto, control
<1>3. /\ \A u \in Locals, q \in Prios : Range(queue'[u][q]) \subseteq Range(queue[u][q])
      /\ Cardinality(LocalItems(t)') + 1 <= Cardinality(LocalItems(t))
  BY <1>1, LocalItemsPop
<1>4. /\ Cardinality(LocalItems(t)) \in Nat
      /\ Cardinality(LocalItems(t)') \in Nat
  BY <1>3, LocalItemsFinite, LocalItemsShrink DEF Typed
<1>5. /\ Cardinality(LocalItems(t)) <= len[t]
      /\ Cardinality(LocalItems(t)) <= LocalCapacity
      /\ Len(loot[t]) <= HalfCapacity
  BY <1>2 DEF Counted, CountedAt, LenOK, InSpill
<1>6. /\ len[t] \in Nat /\ LocalCapacity \in Nat
      /\ pc'[t] = "idle" /\ loot'[t] = loot[t]
      /\ len'[t] = SaturatingSub(len[t], 1)
  BY <1>2, ConstantsAssumption DEF Typed, TypeOK
<1>7. SaturatingSub(len[t], 1) = len[t] - 1
  BY SMTT(60), <1>3, <1>4, <1>5, <1>6 DEF SaturatingSub
<1>8. /\ Cardinality(LocalItems(t)') <= len'[t]
      /\ Cardinality(LocalItems(t)') <= LocalCapacity
  BY <1>3, <1>4, <1>5, <1>6, <1>7, SMT
<1>9. CountedAt(t)'
  BY <1>5, <1>6, <1>8 DEF CountedAt, LenOK, InSpill
<1> QED
  BY <1>2, <1>3, <1>9, CountedStep DEF Typed, TypeOK

\* The compare-and-swap of a steal keeps the owner's counter at or above what
\* its workers hold, and the workers within their capacity.
LEMMA CountedStealReserve ==
    ASSUME Typed, TypeOK', Counted, NEW t \in Locals, StealReserve(t)
    PROVE  Counted'
<1>1. PICK v \in Locals, p \in Prios, n \in Nat :
        /\ n \in 1 .. Len(queue[v][p]) /\ n <= HalfCapacity
        /\ loot' = [loot EXCEPT ![t] = SubSeq(queue[v][p], 1, n)]
        /\ queue' = [queue EXCEPT ![v][p] = SubSeq(@, n + 1, Len(@))]
        /\ todo' = [todo EXCEPT ![t] = {p}]
  BY StealMoves
<1>2. /\ pc[t] = "steal" /\ pc' = [pc EXCEPT ![t] = "publish"]
      /\ UNCHANGED <<len, ret, count, done>>
  BY DEF StealReserve, Goto, handle
<1>3. queue[v][p] \in Seq(Items)
  BY SMTT(60) DEF Typed, TypeOK
<1>4. /\ Len(SubSeq(queue[v][p], 1, n)) = n
      /\ Range(SubSeq(queue[v][p], n + 1, Len(queue[v][p]))) \subseteq Range(queue[v][p])
  BY <1>1, <1>3, SplitFacts
<1>5. \A u \in Locals, q \in Prios : Range(queue'[u][q]) \subseteq Range(queue[u][q])
  <2>0. PICK s : s = SubSeq(queue[v][p], n + 1, Len(queue[v][p]))
    OBVIOUS
  <2>1. queue' = [queue EXCEPT ![v][p] = s]
    BY <1>1, <2>0
  <2>3. queue \in [Locals -> [Prios -> Seq(Items)]]
    BY DEF Typed, TypeOK
  <2>2. /\ queue'[v][p] = s
        /\ \A u \in Locals, q \in Prios : u # v \/ q # p => queue'[u][q] = queue[u][q]
    BY <2>1, <2>3
  <2> QED
    BY <1>4, <2>0, <2>2
<1>6. LocallyEmpty(t) /\ CountedAt(t)
  BY <1>2 DEF Counted, CountedAt, LenOK
<1>7. LocallyEmpty(t)'
  <2>1. \A q \in Prios : queue[t][q] = <<>> /\ queue'[t][q] \in Seq(Items)
    BY <1>6 DEF LocallyEmpty, TypeOK
  <2>2. \A s : s = <<>> => Range(s) = {}
    BY EmptyRange
  <2>3. \A q \in Prios : Range(queue'[t][q]) = {}
    BY <1>5, <2>1, <2>2
  <2>4. \A q \in Prios : queue'[t][q] = <<>>
    BY <2>1, <2>3, TailFacts
  <2> QED
    BY <2>4 DEF LocallyEmpty
<1>8. /\ Cardinality(LocalItems(t)') <= Cardinality(LocalItems(t))
      /\ Cardinality(LocalItems(t)') \in Nat
      /\ Cardinality(LocalItems(t)) \in Nat
  BY <1>5, LocalItemsShrink, LocalItemsFinite DEF Typed
<1>9. /\ Cardinality(LocalItems(t)) <= len[t]
      /\ Cardinality(LocalItems(t)) <= LocalCapacity
      /\ len[t] \in Nat /\ LocalCapacity \in Nat
  BY <1>2, <1>6, ConstantsAssumption DEF CountedAt, LenOK, InSpill, Typed, TypeOK
<1>10. /\ Cardinality(LocalItems(t)') <= len[t]
       /\ Cardinality(LocalItems(t)') <= LocalCapacity
  BY <1>8, <1>9, SMT
<1>11. /\ pc'[t] = "publish" /\ len'[t] = len[t]
       /\ Len(loot'[t]) <= HalfCapacity
  BY ZenonT(60), <1>1, <1>2, <1>4 DEF Typed, TypeOK
<1>12. CountedAt(t)'
  BY <1>7, <1>10, <1>11 DEF CountedAt, LenOK, InSpill
<1> QED
  BY <1>1, <1>2, <1>5, <1>12, CountedStep DEF Typed, TypeOK

\* The arrival of stolen items keeps the owner's counter at or above what its
\* workers hold, and the workers within their capacity.
LEMMA CountedStealPublish ==
    ASSUME Typed, TypeOK', Counted, NEW t \in Locals, StealPublish(t)
    PROVE  Counted'
<1>1. PICK p \in Prios : todo[t] = {p}
  BY DEF StealPublish, Typed, CallState
<1>2. /\ pc[t] = "publish" /\ pc' = [pc EXCEPT ![t] = "refresh"]
      /\ queue' = [queue EXCEPT ![t][p] = @ \o loot[t]]
      /\ loot' = [loot EXCEPT ![t] = <<>>]
      /\ UNCHANGED <<len, ret, count, done, todo>>
  BY <1>1 DEF StealPublish, Goto, handle
<1>3. /\ queue[t][p] = <<>> /\ loot[t] \in Seq(Items)
      /\ \A q \in Prios : queue[t][q] = <<>>
      /\ Len(loot[t]) <= HalfCapacity
  BY <1>2 DEF Counted, CountedAt, LenOK, LocallyEmpty, Typed, TypeOK
<1>4. /\ queue'[t][p] = loot[t]
      /\ \A u \in Locals, q \in Prios : u # t \/ q # p => queue'[u][q] = queue[u][q]
  BY SMTT(60), <1>2, <1>3 DEF Typed, TypeOK
<1>5. Range(queue'[t][p]) = Range(loot[t]) /\ \A q \in Prios \ {p} : queue'[t][q] = <<>>
  BY <1>3, <1>4
<1>6. LocalItems(t)' = Range(loot[t])
  <2>1. \A s : s = <<>> => Range(s) = {}
    BY EmptyRange
  <2>2. \A q \in Prios \ {p} : Range(queue'[t][q]) = {}
    BY <1>5, <2>1
  <2> QED
    BY <1>5, <2>2 DEF LocalItems
<1>7. IsFiniteSet(Range(loot[t])) /\ Cardinality(Range(loot[t])) <= Len(loot[t])
  BY <1>3, RangeCardinality
<1>8. HalfCapacity <= LocalCapacity /\ HalfCapacity \in Nat /\ LocalCapacity \in Nat
  <2>1. \A k \in Nat \ {0} : (k + 1) \div 2 <= k /\ (k + 1) \div 2 \in Nat
    BY SMT
  <2> QED
    BY <2>1, ConstantsAssumption DEF HalfCapacity
<1>9. Cardinality(Range(loot[t])) \in Nat /\ Len(loot[t]) \in Nat
  BY <1>3, <1>7, FS_CardinalityType, LenProperties
<1>10. Cardinality(LocalItems(t)') <= LocalCapacity
  BY <1>3, <1>6, <1>7, <1>8, <1>9, SMT
<1>11. /\ pc'[t] = "refresh" /\ todo'[t] = {p}
       /\ Len(loot'[t]) = 0 /\ 0 <= HalfCapacity
  BY SMTT(60), <1>1, <1>2, <1>8 DEF Typed, TypeOK
<1>12. \A q \in Prios \ todo'[t] : queue'[t][q] = <<>>
  BY <1>5, <1>11
<1>13. CountedAt(t)'
  BY <1>10, <1>11, <1>12 DEF CountedAt, LenOK, InSpill
<1> QED
  BY <1>2, <1>4, <1>13, CountedStep DEF Typed, TypeOK

\* The update of the counter after a steal keeps the owner's counter at or
\* above what its workers hold, and the workers within their capacity.
LEMMA CountedStealRefresh ==
    ASSUME Typed, TypeOK', Counted, NEW t \in Locals, StealRefresh(t)
    PROVE  Counted'
<1>1. PICK p \in Prios : todo[t] = {p}
  BY DEF StealRefresh, Typed, CallState
<1>2. /\ pc[t] = "refresh" /\ pc' = [pc EXCEPT ![t] = "last"]
      /\ len' = [len EXCEPT ![t] = @ + Occupied(t, p)]
      /\ todo' = [todo EXCEPT ![t] = {}]
      /\ UNCHANGED <<queue, ret, count, done, loot>>
  BY <1>1 DEF StealRefresh, LeaveLoop, Goto, queues
<1>3. /\ queue[t][p] \in Seq(Items) /\ reserved[t][p] \in Nat /\ len[t] \in Nat
      /\ Len(loot[t]) <= HalfCapacity
      /\ \A q \in Prios \ {p} : queue[t][q] = <<>>
  <2>1. LenOK(t)
    BY DEF Counted, CountedAt
  <2>2. queue[t][p] \in Seq(Items) /\ reserved[t][p] \in Nat /\ len[t] \in Nat
    BY DEF Typed, TypeOK
  <2> QED
    BY <1>1, <1>2, <2>1, <2>2 DEF LenOK
<1>4. LocalItems(t) = Range(queue[t][p])
  <2>1. \A s : s = <<>> => Range(s) = {}
    BY EmptyRange
  <2>2. \A q \in Prios \ {p} : Range(queue[t][q]) = {}
    BY <1>3, <2>1
  <2> QED
    BY <2>2 DEF LocalItems
<1>5. /\ Cardinality(LocalItems(t)) <= Len(queue[t][p])
      /\ Cardinality(LocalItems(t)) \in Nat /\ Len(queue[t][p]) \in Nat
  BY <1>3, <1>4, RangeCardinality, FS_CardinalityType, LenProperties
<1>6. Cardinality(LocalItems(t)) <= len[t] + Occupied(t, p)
  BY SMTT(60), <1>3, <1>5 DEF Occupied
<1>7. pc'[t] = "last" /\ len'[t] = len[t] + Occupied(t, p) /\ loot'[t] = loot[t]
  BY <1>2 DEF Typed, TypeOK
<1>8. LocalItems(t)' = LocalItems(t)
  BY <1>2 DEF LocalItems
<1>9. LenOK(t)'
  BY <1>3, <1>6, <1>7, <1>8 DEF LenOK, InSpill
<1> QED
  BY <1>2, <1>9, CountedQuiet DEF Typed, TypeOK

\* push on a full local queue keeps the owner's counter at or above what its
\* workers hold, and the workers within their capacity.
LEMMA CountedPushOverflow ==
    ASSUME Typed, TypeOK', Counted, NEW t \in Locals, NEW i \in Items, PushOverflow(t, i)
    PROVE  Counted'
<1>1. /\ pc[t] = "idle" /\ pc' = [pc EXCEPT ![t] = "spill"]
      /\ done' = [done EXCEPT ![t] = 0] /\ count' = [count EXCEPT ![t] = len[t] \div 2]
      /\ todo' = [todo EXCEPT ![t] = Prios]
      /\ UNCHANGED <<queue, len, ret, loot>>
  BY DEF PushOverflow, Goto, queues, handle
<1>2. LocalItems(t)' = LocalItems(t)
  BY <1>1 DEF LocalItems
<1>3. /\ pc'[t] = "spill" /\ done'[t] = 0 /\ count'[t] \in Nat
      /\ len'[t] = len[t] /\ loot'[t] = loot[t]
  BY ZenonT(60), <1>1 DEF Typed, TypeOK
<1>4. /\ Cardinality(LocalItems(t)) <= len[t] /\ Cardinality(LocalItems(t)) \in Nat
      /\ Len(loot[t]) <= HalfCapacity
  BY <1>1, LocalItemsFinite DEF Counted, CountedAt, LenOK, InSpill, Typed
<1>5. LenOK(t)'
  BY SMTT(60), <1>2, <1>3, <1>4 DEF LenOK, InSpill
<1> QED
  BY <1>1, <1>5, CountedQuiet DEF Typed, TypeOK

\* The end of the spill keeps the owner's counter at or above what its workers
\* hold, and the workers within their capacity.
LEMMA CountedSpillDone ==
    ASSUME Typed, TypeOK', Counted, NEW t \in Locals, SpillDone(t)
    PROVE  Counted'
<1>1. /\ pc[t] = "spill" /\ pc' = [pc EXCEPT ![t] = "inject"]
      /\ done[t] >= count[t]
      /\ done' = [done EXCEPT ![t] = 0] /\ count' = [count EXCEPT ![t] = 0]
      /\ ret' = [ret EXCEPT ![t] = "idle"]
      /\ len' = [len EXCEPT ![t] = SaturatingSub(@, count[t])]
      /\ todo' = [todo EXCEPT ![t] = {}]
      /\ UNCHANGED <<queue, loot>>
  BY DEF SpillDone, Goto, queues
<1>2. LocalItems(t)' = LocalItems(t)
  BY <1>1 DEF LocalItems
<1>3. /\ pc'[t] = "inject" /\ ret'[t] = "idle" /\ loot'[t] = loot[t]
      /\ len'[t] = SaturatingSub(len[t], count[t])
      /\ len[t] \in Nat /\ count[t] \in Nat /\ done[t] \in Nat
  BY ZenonT(60), <1>1 DEF Typed, TypeOK
<1>4. /\ Cardinality(LocalItems(t)) + done[t] <= len[t]
      /\ Cardinality(LocalItems(t)) \in Nat /\ Len(loot[t]) <= HalfCapacity
  BY <1>1, LocalItemsFinite DEF Counted, CountedAt, LenOK, InSpill, Typed
<1>5. Cardinality(LocalItems(t)) <= SaturatingSub(len[t], count[t])
  BY <1>1, <1>3, <1>4, SMT DEF SaturatingSub
<1>6. LenOK(t)'
  BY <1>2, <1>3, <1>4, <1>5 DEF LenOK, InSpill
<1> QED
  BY <1>1, <1>6, CountedQuiet DEF Typed, TypeOK

\* Steps that move between places where len bounds the queue.
LEMMA CountedRest ==
    ASSUME Typed, TypeOK', Counted, NEW t \in Locals,
           UNCHANGED <<queue, len, count, done, loot>>,
           \A u \in Locals \ {t} :
             pc'[u] = pc[u] /\ ret'[u] = ret[u] /\ todo'[u] = todo[u],
           pc[t] # "refresh", pc'[t] # "refresh",
           InSpill(t)' = InSpill(t),
           pc'[t] \in {"steal", "publish"} => pc'[t] = pc[t] \/ LocallyEmpty(t)
    PROVE  Counted'
<1>1. LocalItems(t)' = LocalItems(t) /\ LocallyEmpty(t)' = LocallyEmpty(t)
  BY DEF LocalItems, LocallyEmpty
<1>2. LenOK(t)'
  BY <1>1 DEF Counted, CountedAt, LenOK
<1> QED
  BY <1>2, CountedQuiet DEF Typed

\* Every step keeps the counter of a local queue at or above its content.
LEMMA CountedNext == Items1 /\ TypeOK' /\ Counted /\ [Next]_vars => Counted'
<1> SUFFICES ASSUME Items1, TypeOK', Counted, [Next]_vars
             PROVE  Counted'
  OBVIOUS
<1> USE DEF Items1
<1>1. ASSUME NEW t \in Locals, SharedInject(t)
      PROVE  Counted'
  <2>1. /\ pc[t] = "inject" /\ pc'[t] = "load_add"
        /\ \A u \in Locals \ {t} : pc'[u] = pc[u]
        /\ UNCHANGED <<queue, len, count, done, loot, ret, todo>>
    BY SMTT(60), <1>1 DEF SharedInject, Goto, handle, Typed, TypeOK
  <2>2. InSpill(t)' = InSpill(t)
    BY <2>1 DEF InSpill
  <2> QED
    BY <2>1, <2>2, CountedRest
<1>2. ASSUME NEW t \in Locals, SharedLoad(t)
      PROVE  Counted'
  <2>1. /\ pc[t] = "load_add" => pc'[t] = "store_add"
        /\ pc[t] = "load_sub" => pc'[t] = "store_sub"
        /\ pc[t] \in {"load_add", "load_sub"}
        /\ \A u \in Locals \ {t} : pc'[u] = pc[u]
        /\ UNCHANGED <<queue, len, count, done, loot, ret, todo>>
    BY <1>2 DEF SharedLoad, Goto, queues, handle, Typed, TypeOK
  <2>2. InSpill(t)' = InSpill(t)
    BY <2>1 DEF InSpill
  <2> QED
    BY <2>1, <2>2, CountedRest
<1>3. ASSUME NEW t \in Locals, SharedStoreAdd(t)
      PROVE  Counted'
  <2>1. /\ pc[t] = "store_add" /\ pc'[t] = ret[t] /\ ret[t] \in {"idle", "spill"}
        /\ \A u \in Locals \ {t} : pc'[u] = pc[u]
        /\ UNCHANGED <<queue, len, count, done, loot, ret, todo>>
    BY ZenonT(60), <1>3 DEF SharedStoreAdd, Goto, handle, Typed, TypeOK, CallState
  <2>2. InSpill(t)' = InSpill(t)
    BY <2>1 DEF InSpill
  <2> QED
    BY <2>1, <2>2, CountedRest
<1>4. ASSUME NEW t \in Locals,
             SharedStoreSub(t) \/ SharedIsEmpty(t) \/ SharedSteal(t) \/ SharedMiss(t)
      PROVE  Counted'
  <2>1. /\ pc[t] \in {"store_sub", "is_empty", "scan"}
        /\ pc'[t] \in {"idle", "local", "scan", "load_sub"}
    BY ZenonT(60), <1>4 DEF SharedStoreSub, SharedIsEmpty, SharedSteal, SharedMiss, Goto, Typed,
                TypeOK, CallState
  <2>2. /\ \A u \in Locals \ {t} : pc'[u] = pc[u] /\ todo'[u] = todo[u]
        /\ UNCHANGED <<queue, len, count, done, loot, ret>>
    BY ZenonT(60), <1>4 DEF SharedStoreSub, SharedIsEmpty, SharedSteal, SharedMiss, Goto, queues,
                handle, Typed, TypeOK
  <2>3. InSpill(t)' = InSpill(t)
    BY <2>1 DEF InSpill
  <2> QED
    BY <2>1, <2>2, <2>3, CountedRest
<1>5. ASSUME NEW t \in Locals, Pop(t)
      PROVE  Counted'
  <2>1. /\ pc[t] = "idle" /\ pc'[t] \in {"is_empty", "local"}
        /\ \A u \in Locals \ {t} : pc'[u] = pc[u] /\ ret'[u] = ret[u]
        /\ UNCHANGED <<queue, len, count, done, loot, todo>>
    BY SMTT(60), <1>5 DEF Pop, Goto, queues, Typed, TypeOK
  <2>2. InSpill(t)' = InSpill(t)
    BY <2>1 DEF InSpill
  <2> QED
    BY <2>1, <2>2, CountedRest
<1>6. ASSUME NEW t \in Locals, SpillSkip(t) \/ StealMiss(t)
      PROVE  Counted'
  <2>1. /\ pc[t] \in {"spill", "steal"}
        /\ \A u \in Locals \ {t} : todo'[u] = todo[u]
        /\ UNCHANGED <<pc, ret, queue, len, count, done, loot>>
    <3>1. CASE SpillSkip(t)
      BY <3>1 DEF SpillSkip, NextSweep, queues, handle, Typed, TypeOK
    <3>2. CASE StealMiss(t)
      <4>1. \/ todo' = [todo EXCEPT ![t] = Prios]
            \/ \E p \in Prios : todo' = [todo EXCEPT ![t] = todo[t] \ {p}]
        BY <3>2 DEF StealMiss, Typed, TypeOK
      <4>2. /\ pc[t] = "steal" /\ UNCHANGED <<pc, ret, queue, len, count, done, loot>>
        BY <3>2 DEF StealMiss, queues, handle
      <4> QED
        BY ZenonT(60), <4>1, <4>2 DEF Typed, TypeOK
    <3> QED
      BY <1>6, <3>1, <3>2
  <2>2. InSpill(t)' = InSpill(t)
    BY <2>1 DEF InSpill
  <2> QED
    BY <2>1, <2>2, CountedRest
<1>7. ASSUME NEW t \in Locals, PopLast(t) \/ TryLock(t) \/ StealGiveUp(t)
      PROVE  Counted'
  <2>1. /\ pc[t] \in {"last", "local", "steal"} /\ pc'[t] \in {"idle", "is_empty", "steal"}
        /\ pc'[t] = "steal" => LocallyEmpty(t)
    BY SMTT(60), <1>7 DEF PopLast, TryLock, StealGiveUp, Goto, Typed, TypeOK
  <2>2. /\ \A u \in Locals \ {t} : pc'[u] = pc[u] /\ todo'[u] = todo[u] /\ ret'[u] = ret[u]
        /\ UNCHANGED <<queue, len, count, done, loot>>
    <3>1. CASE PopLast(t)
      BY <3>1 DEF PopLast, Goto, queues, handle, control, Typed, TypeOK
    <3>2. CASE TryLock(t)
      BY SMTT(60), <3>2 DEF TryLock, Goto, queues, Typed, TypeOK
    <3>3. CASE StealGiveUp(t)
      <4>1. /\ pc' = [pc EXCEPT ![t] = "is_empty"] /\ todo' = [todo EXCEPT ![t] = {}]
            /\ ret' = [ret EXCEPT ![t] = "idle"]
            /\ UNCHANGED <<queue, len, count, done, loot>>
        BY <3>3 DEF StealGiveUp, LeaveLoop, Goto, queues
      <4> QED
        BY ZenonT(60), <4>1 DEF Typed, TypeOK
    <3> QED
      BY <1>7, <3>1, <3>2, <3>3
  <2>3. InSpill(t)' = InSpill(t)
    BY <2>1 DEF InSpill
  <2> QED
    BY <2>1, <2>2, <2>3, CountedRest
<1>8. ASSUME UNCHANGED vars
      PROVE  Counted'
  <2>1. UNCHANGED <<queue, len, pc, ret, todo, count, done, loot>>
    BY <1>8 DEF vars, queues, handle, control
  <2>2. ASSUME NEW u \in Locals
        PROVE  CountedAt(u)'
    BY <2>1, CountedOther DEF Counted, Typed
  <2> QED
    BY <2>2 DEF Counted
<1> QED
  BY <1>1, <1>2, <1>3, <1>4, <1>5, <1>6, <1>7, <1>8, CountedPush, CountedPushOverflow,
     CountedSpillPop, CountedSpillDone, CountedPopLocal, CountedStealReserve,
     CountedStealPublish, CountedStealRefresh DEF Next, Step

\* Empty queues with counters at zero satisfy the invariant.
LEMMA CountedInit == Init => Counted
<1> SUFFICES ASSUME Init
             PROVE  Counted
  OBVIOUS
<1>1. \A t \in Locals : LocallyEmpty(t)
  BY DEF Init, LocallyEmpty
<1>2. \A t \in Locals : Cardinality(LocalItems(t)) = 0
  BY <1>1, NoLocalItems
<1>3. 0 <= HalfCapacity /\ 0 <= LocalCapacity
  <2>1. \A k \in Nat \ {0} : 0 <= (k + 1) \div 2
    BY SMT
  <2> QED
    BY <2>1, ConstantsAssumption, SMT DEF HalfCapacity
<1>4. \A t \in Locals : /\ pc[t] = "idle" /\ len[t] = 0 /\ Len(loot[t]) = 0
  BY DEF Init
<1> QED
  BY <1>2, <1>3, <1>4, SMT DEF Counted, CountedAt, LenOK, InSpill

\* local_len() bounds what the local queue holds, and the queue never exceeds
\* its capacity, for every number of threads, items and priorities and for
\* every capacity.
THEOREM LocalBoundsKept == Spec => [](LocalLenCovers /\ LocalCapacityRespected)
<1> DEFINE Inv == Items1 /\ Counted
<1>1. Init => Inv
  BY TypedInit, ItemsInit, CountedInit DEF Items1
<1>2. Inv /\ [Next]_vars => Inv'
  <2> SUFFICES ASSUME Inv, [Next]_vars
               PROVE  Inv'
    OBVIOUS
  <2>1. Typed' /\ Placed' /\ Unrepeated'
    BY TypedNext, ItemsNext DEF Items1
  <2>2. TypeOK'
    BY <2>1 DEF Typed
  <2> QED
    BY <2>1, <2>2, CountedNext DEF Items1
<1>3. Inv => LocalLenCovers /\ LocalCapacityRespected
  BY DEF Counted, CountedAt, LenOK, InSpill, LocalLenCovers, LocalCapacityRespected
<1> QED
  BY <1>1, <1>2, <1>3, PTL DEF Spec

=============================================================================
