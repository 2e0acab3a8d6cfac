----------------------- MODULE OrderedWorkStealTyping -----------------------
(***************************************************************************)
(* Type correctness of OrderedWorkSteal, and that pop() comes to its end,  *)
(* for any number of local queues, items and priorities and for any        *)
(* capacity.  TypeOK is not inductive by itself: what a step puts into a   *)
(* queue or hands to the caller is an item only because of where the       *)
(* thread is in its call (CallState).                                      *)
(***************************************************************************)
EXTENDS OrderedWorkSteal, SequenceTheorems, FiniteSetTheorems, FunctionTheorems, TLAPS

-----------------------------------------------------------------------------
(* Facts about the queues of the model, which are sequences without        *)
(* repetition: what pushing, popping, splitting and joining them does to   *)
(* the set of their elements.                                              *)

\* Appending x adds x to the elements and keeps a queue free of repetition when
\* x was not in it (Injector::push, Worker::push).
LEMMA AppendFacts ==
    ASSUME NEW S, NEW s \in Seq(S), NEW x \in S
    PROVE  /\ Append(s, x) \in Seq(S)
           /\ Range(Append(s, x)) = Range(s) \cup {x}
           /\ IsInjective(s) /\ x \notin Range(s) => IsInjective(Append(s, x))
<1>1. /\ Append(s, x) \in Seq(S)
      /\ DOMAIN Append(s, x) = 1 .. Len(s) + 1
      /\ DOMAIN s = 1 .. Len(s)
      /\ Len(s) \in Nat
      /\ \A i \in 1 .. Len(s) : Append(s, x)[i] = s[i]
      /\ Append(s, x)[Len(s) + 1] = x
  BY AppendProperties, LenProperties
<1>2. Range(Append(s, x)) = Range(s) \cup {x}
  BY <1>1 DEF Range
<1>3. IsInjective(s) /\ x \notin Range(s) => IsInjective(Append(s, x))
  BY <1>1 DEF Range, IsInjective
<1> QED
  BY <1>1, <1>2, <1>3

\* Taking the head off a queue without repetition removes exactly that element
\* (Worker::pop, Injector::steal).
LEMMA TailFacts ==
    ASSUME NEW S, NEW s \in Seq(S), s # <<>>
    PROVE  /\ Head(s) \in S /\ Head(s) \in Range(s)
           /\ Tail(s) \in Seq(S)
           /\ Range(Tail(s)) \subseteq Range(s)
           /\ IsInjective(s) => /\ Range(Tail(s)) = Range(s) \ {Head(s)}
                                /\ IsInjective(Tail(s))
<1>1. /\ Head(s) \in S
      /\ Tail(s) \in Seq(S)
      /\ Len(s) \in Nat \ {0}
      /\ DOMAIN s = 1 .. Len(s)
      /\ DOMAIN Tail(s) = 1 .. Len(s) - 1
      /\ \A i \in 1 .. Len(s) - 1 : Tail(s)[i] = s[i + 1]
      /\ Head(s) = s[1]
  BY HeadTailProperties, LenProperties, EmptySeq
<1>2. Head(s) \in Range(s)
  BY <1>1 DEF Range
<1>3. Range(Tail(s)) \subseteq Range(s)
  BY <1>1 DEF Range
<1>4. ASSUME IsInjective(s)
      PROVE  Range(Tail(s)) = Range(s) \ {Head(s)}
  <2>1. \A i \in 2 .. Len(s) : s[i] # s[1] /\ s[i] = Tail(s)[i - 1]
    BY <1>1, <1>4 DEF IsInjective
  <2>2. \A x \in Range(s) \ {Head(s)} : x \in Range(Tail(s))
    <3> SUFFICES ASSUME NEW j \in 1 .. Len(s), s[j] # s[1]
                 PROVE  s[j] \in Range(Tail(s))
      BY <1>1 DEF Range
    <3>1. j - 1 \in 1 .. Len(s) - 1 /\ Tail(s)[j - 1] = s[j]
      BY <1>1, <2>1
    <3> QED
      BY <1>1, <3>1 DEF Range
  <2>3. \A x \in Range(Tail(s)) : x # Head(s)
    <3> SUFFICES ASSUME NEW j \in 1 .. Len(s) - 1
                 PROVE  Tail(s)[j] # s[1]
      BY <1>1 DEF Range
    <3>1. j + 1 \in 2 .. Len(s) /\ Tail(s)[j] = s[j + 1]
      BY <1>1
    <3> QED
      BY <2>1, <3>1
  <2> QED
    BY <1>3, <2>2, <2>3
<1>5. ASSUME IsInjective(s)
      PROVE  IsInjective(Tail(s))
  BY <1>1, <1>5 DEF IsInjective
<1> QED
  BY <1>1, <1>2, <1>3, <1>4, <1>5

\* Cutting a queue without repetition in two parts its elements (Stealer::steal).
LEMMA SplitFacts ==
    ASSUME NEW S, NEW s \in Seq(S), NEW n \in 1 .. Len(s)
    PROVE  /\ SubSeq(s, 1, n) \in Seq(S) /\ SubSeq(s, n + 1, Len(s)) \in Seq(S)
           /\ Len(SubSeq(s, 1, n)) = n
           /\ Range(SubSeq(s, 1, n)) \subseteq Range(s)
           /\ Range(SubSeq(s, n + 1, Len(s))) \subseteq Range(s)
           /\ IsInjective(s) =>
                /\ Range(SubSeq(s, n + 1, Len(s))) = Range(s) \ Range(SubSeq(s, 1, n))
                /\ IsInjective(SubSeq(s, 1, n))
                /\ IsInjective(SubSeq(s, n + 1, Len(s)))
<1> DEFINE a == SubSeq(s, 1, n)
           b == SubSeq(s, n + 1, Len(s))
<1>1. /\ Len(s) \in Nat /\ DOMAIN s = 1 .. Len(s)
      /\ \A i \in 1 .. Len(s) : s[i] \in S
  BY LenProperties, ElementOfSeq
<1>2. /\ a \in Seq(S) /\ Len(a) = n
      /\ \A i \in 1 .. n : a[i] = s[i]
  <2>1. \A i \in 1 .. n : s[i] \in S
    BY <1>1
  <2>2. /\ SubSeq(s, 1, n) \in Seq(S)
        /\ Len(SubSeq(s, 1, n)) = IF 1 <= n THEN n - 1 + 1 ELSE 0
        /\ \A i \in 1 .. n - 1 + 1 : SubSeq(s, 1, n)[i] = s[1 + i - 1]
    BY <2>1, SubSeqProperties
  <2> QED
    BY <2>2
<1>3. /\ b \in Seq(S) /\ Len(b) = Len(s) - n
      /\ \A i \in 1 .. Len(s) - n : b[i] = s[n + i]
  <2>1. \A i \in n + 1 .. Len(s) : s[i] \in S
    BY <1>1
  <2>2. /\ SubSeq(s, n + 1, Len(s)) \in Seq(S)
        /\ Len(SubSeq(s, n + 1, Len(s))) =
             IF n + 1 <= Len(s) THEN Len(s) - (n + 1) + 1 ELSE 0
        /\ \A i \in 1 .. Len(s) - (n + 1) + 1 :
             SubSeq(s, n + 1, Len(s))[i] = s[n + 1 + i - 1]
    BY <1>1, <2>1, SubSeqProperties
  <2>3. \A i \in 1 .. Len(s) - n : b[i] = s[n + i]
    <3> SUFFICES ASSUME NEW i \in 1 .. Len(s) - n
                 PROVE  b[i] = s[n + i]
      OBVIOUS
    <3>1. i \in 1 .. Len(s) - (n + 1) + 1 /\ n + 1 + i - 1 = n + i
      BY <1>1
    <3> QED
      BY <2>2, <3>1
  <2>4. Len(s) \in Nat
    BY <1>1
  <2>5. Len(b) = Len(s) - n
    <3>1. CASE n + 1 <= Len(s)
      <4>1. Len(b) = Len(s) - (n + 1) + 1
        BY <2>2, <3>1
      <4>2. Len(s) - (n + 1) + 1 = Len(s) - n
        BY <2>4
      <4> QED
        BY <4>1, <4>2
    <3>2. CASE ~(n + 1 <= Len(s))
      <4>1. Len(b) = 0
        BY <2>2, <3>2
      <4>2. Len(s) - n = 0
        BY <2>4, <3>2
      <4> QED
        BY <4>1, <4>2
    <3> QED
      BY <3>1, <3>2
  <2> QED
    BY <2>2, <2>3, <2>5
<1>4. DOMAIN a = 1 .. n /\ DOMAIN b = 1 .. Len(s) - n
  BY <1>2, <1>3, LenProperties
<1> HIDE DEF a, b
<1>5. Range(a) \subseteq Range(s) /\ Range(b) \subseteq Range(s)
  <2>1. \A i \in 1 .. n : i \in 1 .. Len(s)
    BY <1>1
  <2>2. \A i \in 1 .. Len(s) - n : n + i \in 1 .. Len(s)
    BY <1>1
  <2>3. \A i \in 1 .. n : a[i] \in Range(s)
    BY <1>1, <1>2, <2>1 DEF Range
  <2>4. \A i \in 1 .. Len(s) - n : b[i] \in Range(s)
    BY <1>1, <1>3, <2>2 DEF Range
  <2> QED
    BY <1>4, <2>3, <2>4 DEF Range
<1>6. ASSUME IsInjective(s)
      PROVE  Range(b) = Range(s) \ Range(a)
  <2>1. \A x \in Range(b) : x \notin Range(a)
    <3> SUFFICES ASSUME NEW j \in 1 .. Len(s) - n, NEW i \in 1 .. n, b[j] = a[i]
                 PROVE  FALSE
      BY <1>4 DEF Range
    <3>1. n + j \in 1 .. Len(s) /\ i \in 1 .. Len(s) /\ n + j # i
      BY <1>1
    <3>2. s[n + j] = s[i]
      BY <1>2, <1>3
    <3> QED
      BY <1>1, <1>6, <3>1, <3>2 DEF IsInjective
  <2>2. \A x \in Range(s) : x \in Range(a) \/ x \in Range(b)
    <3> SUFFICES ASSUME NEW j \in 1 .. Len(s)
                 PROVE  s[j] \in Range(a) \/ s[j] \in Range(b)
      BY <1>1 DEF Range
    <3>1. CASE j <= n
      BY <1>1, <1>2, <1>4, <3>1 DEF Range
    <3>2. CASE j > n
      <4>1. j - n \in 1 .. Len(s) - n /\ b[j - n] = s[j]
        BY <1>1, <1>3, <3>2
      <4> QED
        BY <1>4, <4>1 DEF Range
    <3> QED
      BY <1>1, <3>1, <3>2
  <2> QED
    BY <1>5, <2>1, <2>2
<1>7. ASSUME IsInjective(s)
      PROVE  IsInjective(a) /\ IsInjective(b)
  <2>1. ASSUME NEW i \in 1 .. n, NEW j \in 1 .. n, a[i] = a[j]
        PROVE  i = j
    <3>1. i \in 1 .. Len(s) /\ j \in 1 .. Len(s) /\ s[i] = s[j]
      BY <1>1, <1>2, <2>1
    <3> QED
      BY <1>1, <1>7, <3>1 DEF IsInjective
  <2>2. ASSUME NEW i \in 1 .. Len(s) - n, NEW j \in 1 .. Len(s) - n, b[i] = b[j]
        PROVE  i = j
    <3>1. n + i \in 1 .. Len(s) /\ n + j \in 1 .. Len(s)
      BY <1>1
    <3>2. s[n + i] = s[n + j]
      BY <1>3, <2>2
    <3>3. n + i = n + j
      BY <1>1, <1>7, <3>1, <3>2 DEF IsInjective
    <3> QED
      BY <1>1, <3>3
  <2> QED
    BY <1>4, <2>1, <2>2 DEF IsInjective
<1> QED
  BY <1>2, <1>3, <1>5, <1>6, <1>7 DEF a, b

\* Joining two queues joins their elements (a steal's items being published).
LEMMA ConcatFacts ==
    ASSUME NEW S, NEW s \in Seq(S), NEW u \in Seq(S)
    PROVE  /\ s \o u \in Seq(S)
           /\ Range(s \o u) = Range(s) \cup Range(u)
           /\ IsInjective(s) /\ IsInjective(u) /\ Range(s) \cap Range(u) = {}
                => IsInjective(s \o u)
<1>1. /\ s \o u \in Seq(S) /\ Len(s \o u) = Len(s) + Len(u)
      /\ \A i \in 1 .. Len(s) + Len(u) :
           (s \o u)[i] = IF i <= Len(s) THEN s[i] ELSE u[i - Len(s)]
  BY ConcatProperties
<1>2. /\ Len(s) \in Nat /\ DOMAIN s = 1 .. Len(s)
      /\ Len(u) \in Nat /\ DOMAIN u = 1 .. Len(u)
      /\ DOMAIN (s \o u) = 1 .. Len(s) + Len(u)
  BY <1>1, LenProperties
<1>3. Range(s \o u) = Range(s) \cup Range(u)
  BY RangeConcatenation
<1>4. ASSUME IsInjective(s), IsInjective(u), Range(s) \cap Range(u) = {},
             NEW i \in 1 .. Len(s) + Len(u), NEW j \in 1 .. Len(s) + Len(u),
             (s \o u)[i] = (s \o u)[j]
      PROVE  i = j
  <2>1. CASE i <= Len(s) /\ j <= Len(s)
    BY <1>1, <1>2, <1>4, <2>1 DEF IsInjective
  <2>2. CASE i > Len(s) /\ j > Len(s)
    <3>1. /\ i - Len(s) \in 1 .. Len(u) /\ j - Len(s) \in 1 .. Len(u)
          /\ u[i - Len(s)] = u[j - Len(s)]
      BY <1>1, <1>2, <1>4, <2>2
    <3> QED
      BY <1>2, <1>4, <3>1 DEF IsInjective
  <2>a. \A k \in 1 .. Len(s) + Len(u) :
           /\ k <= Len(s) => (s \o u)[k] \in Range(s)
           /\ k > Len(s) => (s \o u)[k] \in Range(u)
    <3> SUFFICES ASSUME NEW k \in 1 .. Len(s) + Len(u)
                 PROVE  /\ k <= Len(s) => (s \o u)[k] \in Range(s)
                        /\ k > Len(s) => (s \o u)[k] \in Range(u)
      OBVIOUS
    <3>1. CASE k <= Len(s)
      BY <1>1, <1>2, <3>1 DEF Range
    <3>2. CASE k > Len(s)
      <4>1. k - Len(s) \in 1 .. Len(u) /\ (s \o u)[k] = u[k - Len(s)]
        BY <1>1, <1>2, <3>2
      <4> QED
        BY <1>2, <3>2, <4>1 DEF Range
    <3> QED
      BY <1>2, <3>1, <3>2
  <2>3. CASE i <= Len(s) /\ j > Len(s)
    BY <1>4, <2>a, <2>3
  <2>4. CASE i > Len(s) /\ j <= Len(s)
    BY <1>4, <2>a, <2>4
  <2> QED
    BY <1>2, <2>1, <2>2, <2>3, <2>4
<1> QED
  BY <1>1, <1>2, <1>3, <1>4 DEF IsInjective

\* The empty queue has no elements.
LEMMA EmptyRange ==
    /\ \A s : s = <<>> => Range(s) = {}
    /\ Range(<<>>) = {} /\ IsInjective(<<>>)
BY DEF Range, IsInjective

\* A queue has no more elements than places.
LEMMA RangeCardinality ==
    ASSUME NEW S, NEW s \in Seq(S)
    PROVE  IsFiniteSet(Range(s)) /\ Cardinality(Range(s)) <= Len(s)
<1>1. Len(s) \in Nat /\ s \in [1 .. Len(s) -> S]
  BY LenProperties
<1>2. s \in Surjection(1 .. Len(s), Range(s))
  BY <1>1, Fun_RangeProperties
<1>3. IsFiniteSet(1 .. Len(s)) /\ Cardinality(1 .. Len(s)) = Len(s)
  <2>1. PICK n \in Nat : n = Len(s)
    BY <1>1
  <2>2. IsFiniteSet(1 .. n) /\ Cardinality(1 .. n) = IF 1 > n THEN 0 ELSE n - 1 + 1
    BY FS_Interval
  <2>3. Cardinality(1 .. n) = n
    BY <2>2
  <2> QED
    BY <2>1, <2>2, <2>3
<1> QED
  BY <1>2, <1>3, FS_Surjection

-----------------------------------------------------------------------------
(* Type correctness.  Most steps below need sets and functions and no      *)
(* arithmetic.                                                             *)

USE ZenonT(10)

Typed == TypeOK /\ CallState

\* Arithmetic of usize: saturating_sub stays a natural number.
LEMMA SaturatingSubType ==
    ASSUME NEW m \in Nat, NEW n \in Nat
    PROVE  SaturatingSub(m, n) \in Nat
BY SMT DEF SaturatingSub

\* The local queues are numbered from 0 and the neighbour of a queue, which
\* round robin and stealing go to next, is a local queue.
LEMMA LocalsFacts ==
    /\ 0 \in Locals
    /\ \A l \in Locals : (l + 1) % NumLocals \in Locals
BY ConstantsAssumption, SMT DEF Locals

\* The priority of every item has an injector and a worker.
LEMMA PriosFacts == \A i \in Items : Prio[i] \in Prios
BY ConstantsAssumption DEF Prios, Range

\* Priorities are integers (c_longlong in the code), so they can be compared.
LEMMA PriosInt == Prios \subseteq Int
BY ConstantsAssumption DEF Prios, Range

\* The queues are created well typed, with nobody in a call.
LEMMA TypedInit == Init => Typed
<1> SUFFICES ASSUME Init PROVE Typed
  OBVIOUS
<1>1. TypeOK
  BY ConstantsAssumption, LocalsFacts, SMT DEF Init, TypeOK, Pcs, Locals
<1>2. CallState
  BY DEF Init, CallState, InSpill
<1> QED
  BY <1>1, <1>2 DEF Typed

\* Pushing into an injector keeps the types and what the place of the caller
\* says of its locals.
LEMMA TypedSharedInject ==
    ASSUME Typed, NEW t \in Locals, SharedInject(t)
    PROVE  Typed'
<1>1. moving[t] \in Items /\ key[t] \in Prios
  BY DEF Typed, TypeOK, CallState, SharedInject
<1>2. Append(shared[key[t]], moving[t]) \in Seq(Items)
  BY <1>1, SMT DEF Typed, TypeOK
<1>3. TypeOK'
  BY <1>1, <1>2 DEF Typed, TypeOK, SharedInject, Goto, Pcs, PushPcs, handle
<1>4. CallState'
  BY ConstantsAssumption DEF Typed, TypeOK, CallState, InSpill, SharedInject, Goto, handle
<1> QED
  BY <1>3, <1>4 DEF Typed


\* The closure of pop()'s steal never asks for more than the victim holds nor
\* for more than the thief's counter allows (max_steal).
LEMMA StealCountBounds ==
    ASSUME Typed, NEW t \in Locals, NEW v \in Locals, NEW p \in Prios,
           StealCount(t, v, p) > 0
    PROVE  /\ StealCount(t, v, p) \in 1 .. Len(queue[v][p])
           /\ StealCount(t, v, p) <= HalfCapacity
<1>1. /\ Len(queue[v][p]) \in Nat /\ Len(queue[t][p]) \in Nat
      /\ reserved[t][p] \in Nat /\ len[t] \in Nat /\ HalfCapacity \in Nat
  <2>1. queue[v][p] \in Seq(Items) /\ queue[t][p] \in Seq(Items)
    BY DEF Typed, TypeOK
  <2>2. reserved[t][p] \in Nat /\ len[t] \in Nat
    BY DEF Typed, TypeOK
  <2>3. HalfCapacity \in Nat
    BY ConstantsAssumption, SMT DEF HalfCapacity
  <2> QED
    BY <2>1, <2>2, <2>3, LenProperties
<1>2. MaxSteal(t) \in Nat /\ MaxSteal(t) <= HalfCapacity
  BY <1>1, SMT DEF MaxSteal, SaturatingSub
<1>3. Occupied(t, p) \in Nat
  BY <1>1, SMT DEF Occupied
<1> DEFINE busy == reserved[v][p] > 0 \/ Occupied(t, p) >= WorkerCapacity
           half == (Len(queue[v][p]) + 1) \div 2
           n    == StealCount(t, v, p)
<1>4. n = IF busy THEN 0
          ELSE Lower(Lower(MaxSteal(t), WorkerCapacity - Occupied(t, p)), half)
  BY DEF StealCount
<1>5. ~busy => WorkerCapacity - Occupied(t, p) \in Nat
  BY <1>3, ConstantsAssumption, SMT
<1>6. half \in Nat /\ half <= Len(queue[v][p])
  <2>1. \A k \in Nat : (k + 1) \div 2 \in Nat /\ (k + 1) \div 2 <= k
    BY SMT
  <2> QED
    BY <1>1, <2>1
<1>7. n > 0
  OBVIOUS
<1> HIDE DEF busy, half, n
<1>8. ~busy
  BY <1>4, <1>7, SMT
<1>9. n \in Nat /\ n <= half /\ n <= MaxSteal(t)
  BY <1>2, <1>4, <1>5, <1>6, <1>8, SMT DEF Lower
<1> QED
  BY <1>1, <1>2, <1>6, <1>7, <1>9, SMT DEF n

\* Loading the global counter keeps the types and what the place of the caller
\* says of its locals.
LEMMA TypedSharedLoad ==
    ASSUME Typed, NEW t \in Locals, SharedLoad(t)
    PROVE  Typed'
<1>8. TypeOK'
  BY DEF Typed, TypeOK, Goto, Pcs, PushPcs, PopPcs, queues, handle, control,
     SharedLoad
<1>9. CallState'
  BY SMTT(60), ConstantsAssumption
     DEF Typed, TypeOK, CallState, InSpill, Goto, queues, handle, control,
     SharedLoad
<1> QED
  BY <1>8, <1>9 DEF Typed

\* Storing the raised global counter keeps the types and what the place of the
\* caller says of its locals.
LEMMA TypedSharedStoreAdd ==
    ASSUME Typed, NEW t \in Locals, SharedStoreAdd(t)
    PROVE  Typed'
<1>1. seen[t] + 1 \in Nat /\ ret[t] \in Pcs
  BY SMT DEF Typed, TypeOK, Pcs, PushPcs, PopPcs
<1>8. TypeOK'
  BY <1>1 DEF Typed, TypeOK, Goto, Pcs, PushPcs, PopPcs, queues, handle, control,
     SharedStoreAdd
<1>9. CallState'
  BY ZenonT(60), ConstantsAssumption
     DEF Typed, TypeOK, CallState, InSpill, Goto, queues, handle, control,
     SharedStoreAdd
<1> QED
  BY <1>8, <1>9 DEF Typed

\* Storing the lowered global counter keeps the types and what the place of
\* the caller says of its locals.
LEMMA TypedSharedStoreSub ==
    ASSUME Typed, NEW t \in Locals, SharedStoreSub(t)
    PROVE  Typed'
<1>1. SaturatingSub(seen[t], 1) \in Nat
  BY SaturatingSubType DEF Typed, TypeOK
<1>2. moving[t] \in Items
  BY DEF Typed, TypeOK, CallState, SharedStoreSub
<1>8. TypeOK'
  BY <1>1, <1>2 DEF Typed, TypeOK, Goto, Pcs, PushPcs, PopPcs, queues, handle, control,
     SharedStoreSub
<1>9. CallState'
  BY SMTT(60), ConstantsAssumption
     DEF Typed, TypeOK, CallState, InSpill, Goto, queues, handle, control,
     SharedStoreSub
<1> QED
  BY <1>8, <1>9 DEF Typed

\* The fast path of the global pop keeps the types and what the place of the
\* caller says of its locals.
LEMMA TypedSharedIsEmpty ==
    ASSUME Typed, NEW t \in Locals, SharedIsEmpty(t)
    PROVE  Typed'
<1>8. TypeOK'
  BY DEF Typed, TypeOK, Goto, Pcs, PushPcs, PopPcs, queues, handle, control,
     SharedIsEmpty
<1>9. CallState'
  BY ZenonT(60), ConstantsAssumption
     DEF Typed, TypeOK, CallState, InSpill, Goto, queues, handle, control,
     SharedIsEmpty
<1> QED
  BY <1>8, <1>9 DEF Typed

\* Taking an item from an injector keeps the types and what the place of the
\* caller says of its locals.
LEMMA TypedSharedSteal ==
    ASSUME Typed, NEW t \in Locals, SharedSteal(t)
    PROVE  Typed'
<1>1. PICK p \in todo[t] :
        /\ shared[p] # <<>>
        /\ moving' = [moving EXCEPT ![t] = Head(shared[p])]
        /\ shared' = [shared EXCEPT ![p] = Tail(@)]
  BY DEF SharedSteal
<1>2. p \in Prios /\ shared[p] \in Seq(Items)
  BY DEF Typed, TypeOK
<1>3. Head(shared[p]) \in Items /\ Tail(shared[p]) \in Seq(Items)
  BY <1>1, <1>2, TailFacts
<1>8. TypeOK'
  BY <1>1, <1>2, <1>3 DEF Typed, TypeOK, Goto, Pcs, PushPcs, PopPcs, queues, handle, control,
     SharedSteal
<1>9. CallState'
  <2>1. /\ pc[t] = "scan" /\ pc' = [pc EXCEPT ![t] = "load_sub"]
        /\ todo' = [todo EXCEPT ![t] = {}]
        /\ UNCHANGED <<ret, item, key, loot>>
    BY DEF SharedSteal, Goto
  <2>2. Head(shared[p]) # NoItem
    BY <1>3, ConstantsAssumption
  <2> QED
    BY SMTT(60), <1>1, <2>1, <2>2 DEF Typed, TypeOK, CallState, InSpill
<1> QED
  BY <1>8, <1>9 DEF Typed

\* An empty injector keeps the types and what the place of the caller says of
\* its locals.
LEMMA TypedSharedMiss ==
    ASSUME Typed, NEW t \in Locals, SharedMiss(t)
    PROVE  Typed'
<1>1. PICK p \in todo[t] :
        /\ todo' = [todo EXCEPT ![t] = @ \ {p}]
        /\ Goto(t, IF todo[t] = {p} THEN ret[t] ELSE "scan")
  BY DEF SharedMiss
<1>2. /\ pc' \in [Locals -> Pcs] /\ todo' \in [Locals -> SUBSET Prios]
      /\ pc'[t] \in {"idle", "local", "scan"}
      /\ \A u \in Locals \ {t} : pc'[u] = pc[u] /\ todo'[u] = todo[u]
  BY SMTT(60), <1>1 DEF Typed, TypeOK, CallState, Goto, Pcs, PushPcs, PopPcs, SharedMiss
<1>3. pc[t] = "scan"
  BY DEF SharedMiss
<1>7. UNCHANGED <<fresh, popped, shared, shared_len, queue, reserved, len,
                  tick, stealing, ret, item, moving, key, loot, seen,
                victim, left, count, done>>
  BY DEF SharedMiss, queues, handle, control
<1>8. TypeOK'
  BY <1>2, <1>7 DEF Typed, TypeOK
<1>9. CallState'
  <2>1. ret[t] \in {"idle", "local"} /\ moving[t] = NoItem /\ item[t] = NoItem
        /\ loot[t] = <<>>
    BY <1>3 DEF Typed, CallState, InSpill
  <2> QED
    BY <1>2, <1>7, <2>1 DEF Typed, CallState, InSpill
<1> QED
  BY <1>8, <1>9 DEF Typed

\* The local case of push keeps the types and what the place of the caller
\* says of its locals.
LEMMA TypedPushLocal ==
    ASSUME Typed, NEW t \in Locals, NEW i \in Items, PushLocal(t, i)
    PROVE  Typed'
<1>1. Append(queue[t][Prio[i]], i) \in Seq(Items)
  BY PriosFacts, SMT DEF Typed, TypeOK
<1>2. queue' \in [Locals -> [Prios -> Seq(Items)]]
  BY <1>1, PriosFacts DEF Typed, TypeOK, PushLocal
<1>3. fresh' \subseteq Items /\ len' \in [Locals -> Nat]
  <2>1. fresh' = fresh \ {i} /\ len' = [len EXCEPT ![t] = @ + 1]
    BY DEF PushLocal
  <2> QED
    BY <2>1, SMT DEF Typed, TypeOK
<1>7. UNCHANGED <<popped, shared, shared_len, reserved, tick, stealing, pc, ret, item,
                  moving, key, loot, seen, todo, victim, left, count, done>>
  BY DEF PushLocal, queues, handle, control
<1>8. TypeOK'
  BY <1>2, <1>3, <1>7 DEF Typed, TypeOK
<1>9. CallState'
  BY <1>2, <1>7, ConstantsAssumption
     DEF Typed, TypeOK, CallState, InSpill
<1> QED
  BY <1>8, <1>9 DEF Typed

\* push on a full local queue keeps the types and what the place of the caller
\* says of its locals.
LEMMA TypedPushOverflow ==
    ASSUME Typed, NEW t \in Locals, NEW i \in Items, PushOverflow(t, i)
    PROVE  Typed'
<1>1. len[t] \div 2 \in Nat
  BY SMT DEF Typed, TypeOK
<1>8. TypeOK'
  BY <1>1 DEF Typed, TypeOK, Goto, Pcs, PushPcs, PopPcs, queues, handle, control,
     PushOverflow
<1>9. CallState'
  BY SMTT(60), ConstantsAssumption
     DEF Typed, TypeOK, CallState, InSpill, Goto, queues, handle, control,
     PushOverflow
<1> QED
  BY <1>8, <1>9 DEF Typed

\* The spill of push_with_priority skipping a worker keeps the types and what
\* the place of the caller says of its locals.
LEMMA TypedSpillSkip ==
    ASSUME Typed, NEW t \in Locals, SpillSkip(t)
    PROVE  Typed'
<1>1. /\ todo' \in [Locals -> SUBSET Prios]
      /\ \A u \in Locals \ {t} : todo'[u] = todo[u]
  BY SMTT(60) DEF Typed, TypeOK, SpillSkip, NextSweep
<1>2. pc[t] = "spill"
  BY DEF SpillSkip
<1>7. UNCHANGED <<fresh, popped, shared, shared_len, queue, reserved, len,
                  tick, stealing, pc, ret, item, moving, key, loot, seen,
                victim, left, count, done>>
  BY DEF SpillSkip, queues, handle, control
<1>8. TypeOK'
  BY <1>1, <1>7 DEF Typed, TypeOK
<1>9. CallState'
  BY ZenonT(60), <1>1, <1>2, <1>7, ConstantsAssumption
     DEF Typed, TypeOK, CallState, InSpill
<1> QED
  BY <1>8, <1>9 DEF Typed

\* The end of the spill keeps the types and what the place of the caller says
\* of its locals.
LEMMA TypedSpillDone ==
    ASSUME Typed, NEW t \in Locals, SpillDone(t)
    PROVE  Typed'
<1>1. SaturatingSub(len[t], count[t]) \in Nat
  BY SaturatingSubType DEF Typed, TypeOK
<1>2. Prio[item[t]] \in Prios
  BY SMTT(60), PriosFacts DEF Typed, TypeOK, CallState, InSpill, SpillDone
<1>8. TypeOK'
  BY <1>1, <1>2 DEF Typed, TypeOK, Goto, Pcs, PushPcs, PopPcs, queues, handle, control,
     SpillDone
<1>9. CallState'
  BY ZenonT(60), ConstantsAssumption, <1>2
     DEF Typed, TypeOK, CallState, InSpill, Goto, queues, handle, control,
     SpillDone
<1> QED
  BY <1>8, <1>9 DEF Typed

\* The start of pop keeps the types and what the place of the caller says of
\* its locals.
LEMMA TypedPop ==
    ASSUME Typed, NEW t \in Locals, Pop(t)
    PROVE  Typed'
<1>1. (IF tick[t] = TickMax THEN 0 ELSE tick[t] + 1) \in 0 .. TickMax
  BY ConstantsAssumption, SMT DEF Typed, TypeOK
<1>2. /\ pc'[t] \in {"local", "is_empty"}
      /\ pc'[t] = "is_empty" => ret'[t] = "local"
      /\ \A u \in Locals \ {t} : pc'[u] = pc[u] /\ ret'[u] = ret[u]
  BY SMT DEF Typed, TypeOK, Pop, Goto
<1>8. TypeOK'
  BY <1>1 DEF Typed, TypeOK, Goto, Pcs, PushPcs, PopPcs, queues, handle, control,
     Pop
<1>9. CallState'
  BY ZenonT(60), ConstantsAssumption, <1>2
     DEF Typed, TypeOK, CallState, InSpill, Goto, queues, handle, control,
     Pop
<1> QED
  BY <1>8, <1>9 DEF Typed

\* The last look of pop at the global queue keeps the types and what the place
\* of the caller says of its locals.
LEMMA TypedPopLast ==
    ASSUME Typed, NEW t \in Locals, PopLast(t)
    PROVE  Typed'
<1>8. TypeOK'
  BY DEF Typed, TypeOK, Goto, Pcs, PushPcs, PopPcs, queues, handle, control,
     PopLast
<1>9. CallState'
  BY ConstantsAssumption
     DEF Typed, TypeOK, CallState, InSpill, Goto, queues, handle, control,
     PopLast
<1> QED
  BY <1>8, <1>9 DEF Typed

\* try_lock of the stealing flag keeps the types and what the place of the
\* caller says of its locals.
LEMMA TypedTryLock ==
    ASSUME Typed, NEW t \in Locals, TryLock(t)
    PROVE  Typed'
<1>1. CASE stealing[t]
  <2>1. /\ ret' = [ret EXCEPT ![t] = "idle"] /\ pc' = [pc EXCEPT ![t] = "is_empty"]
        /\ UNCHANGED <<stealing, victim, left, todo>>
        /\ UNCHANGED <<fresh, popped, shared, shared_len, queue, reserved, len, tick, item,
                       moving, key, loot, seen, count, done>>
        /\ pc[t] = "local"
    BY <1>1 DEF TryLock, Goto, queues
  <2>2. TypeOK'
    BY <2>1 DEF Typed, TypeOK, Pcs, PopPcs
  <2>3. CallState'
    BY <2>1 DEF Typed, TypeOK, CallState, InSpill
  <2> QED
    BY <2>2, <2>3 DEF Typed
<1>2. CASE ~stealing[t]
  <2>1. /\ stealing' = [stealing EXCEPT ![t] = TRUE] /\ pc' = [pc EXCEPT ![t] = "steal"]
        /\ left' = [left EXCEPT ![t] = NumLocals] /\ todo' = [todo EXCEPT ![t] = Prios]
        /\ UNCHANGED <<ret, fresh, popped, shared, shared_len, queue, reserved, len, tick,
                       item, moving, key, loot, seen, count, done>>
        /\ pc[t] = "local"
    BY <1>2 DEF TryLock, Goto, queues
  <2>2. PICK start \in Locals : victim' = [victim EXCEPT ![t] = start]
    BY <1>2 DEF TryLock
  <2>3. NumLocals \in 0 .. NumLocals
    BY ConstantsAssumption, SMT
  <2>4. TypeOK'
    BY <2>1, <2>2, <2>3 DEF Typed, TypeOK, Pcs, PopPcs
  <2>5. CallState'
    BY <2>1 DEF Typed, TypeOK, CallState, InSpill
  <2> QED
    BY <2>4, <2>5 DEF Typed
<1> QED
  BY <1>1, <1>2

\* A steal that finds nothing keeps the types and what the place of the caller
\* says of its locals.
LEMMA TypedStealMiss ==
    ASSUME Typed, NEW t \in Locals, StealMiss(t)
    PROVE  Typed'
<1>1. /\ pc[t] = "steal" /\ left[t] > 0
      /\ UNCHANGED <<fresh, popped, shared, shared_len, queue, reserved, len, tick,
                     stealing, pc, ret, item, moving, key, loot, seen, count, done>>
  BY DEF StealMiss, queues, handle
<1>2. PICK p \in todo[t] :
        \/ /\ todo' = [todo EXCEPT ![t] = Prios]
           /\ victim' = [victim EXCEPT ![t] = (@ + 1) % NumLocals]
           /\ left' = [left EXCEPT ![t] = @ - 1]
        \/ /\ todo' = [todo EXCEPT ![t] = @ \ {p}]
           /\ UNCHANGED <<victim, left>>
  BY DEF StealMiss
<1>3. left[t] - 1 \in 0 .. NumLocals
  BY <1>1, ConstantsAssumption, SMT DEF Typed, TypeOK
<1>4. (victim[t] + 1) % NumLocals \in Locals
  BY LocalsFacts DEF Typed, TypeOK
<1>5. /\ todo' \in [Locals -> SUBSET Prios]
      /\ victim' \in [Locals -> Locals]
      /\ left' \in [Locals -> 0 .. NumLocals]
      /\ \A u \in Locals \ {t} : todo'[u] = todo[u]
  <2>1. CASE /\ todo' = [todo EXCEPT ![t] = Prios]
             /\ victim' = [victim EXCEPT ![t] = (@ + 1) % NumLocals]
             /\ left' = [left EXCEPT ![t] = @ - 1]
    <3>1. victim' \in [Locals -> Locals]
      BY <1>4, <2>1 DEF Typed, TypeOK
    <3>2. left' \in [Locals -> 0 .. NumLocals]
      BY <1>3, <2>1 DEF Typed, TypeOK
    <3>3. todo' \in [Locals -> SUBSET Prios]
      BY <2>1 DEF Typed, TypeOK
    <3>4. \A u \in Locals \ {t} : todo'[u] = todo[u]
      BY <2>1 DEF Typed, TypeOK
    <3> QED
      BY <3>1, <3>2, <3>3, <3>4
  <2>2. CASE /\ todo' = [todo EXCEPT ![t] = @ \ {p}]
             /\ UNCHANGED <<victim, left>>
    BY <2>2 DEF Typed, TypeOK
  <2> QED
    BY <1>2, <2>1, <2>2
<1>6. TypeOK'
  BY <1>1, <1>5 DEF Typed, TypeOK
<1>7. CallState'
  BY ZenonT(60), <1>1, <1>5 DEF Typed, TypeOK, CallState, InSpill
<1> QED
  BY <1>6, <1>7 DEF Typed

\* The end of a fruitless steal keeps the types and what the place of the
\* caller says of its locals.
LEMMA TypedStealGiveUp ==
    ASSUME Typed, NEW t \in Locals, StealGiveUp(t)
    PROVE  Typed'
<1>1. /\ todo' \in [Locals -> SUBSET Prios]
      /\ victim' \in [Locals -> Locals]
      /\ left' \in [Locals -> 0 .. NumLocals]
  BY SMTT(60), ConstantsAssumption, LocalsFacts DEF Typed, TypeOK, StealGiveUp, LeaveLoop
<1>8. TypeOK'
  BY <1>1 DEF Typed, TypeOK, Goto, Pcs, PushPcs, PopPcs, queues, handle, control,
     StealGiveUp
<1>9. CallState'
  BY ConstantsAssumption
     DEF Typed, TypeOK, CallState, InSpill, Goto, queues, handle, control,
     StealGiveUp, LeaveLoop
<1> QED
  BY <1>8, <1>9 DEF Typed

\* The update of the counter after a steal keeps the types and what the place
\* of the caller says of its locals.
LEMMA TypedStealRefresh ==
    ASSUME Typed, NEW t \in Locals, StealRefresh(t)
    PROVE  Typed'
<1>1. /\ pc[t] = "refresh" /\ pc' = [pc EXCEPT ![t] = "last"]
      /\ stealing' = [stealing EXCEPT ![t] = FALSE]
      /\ todo' = [todo EXCEPT ![t] = {}]
      /\ victim' = [victim EXCEPT ![t] = 0]
      /\ left' = [left EXCEPT ![t] = 0]
      /\ UNCHANGED <<fresh, popped, shared, shared_len, queue, reserved, tick, ret, item,
                     moving, key, loot, seen, count, done>>
  BY DEF StealRefresh, LeaveLoop, Goto, queues
<1>2. PICK p \in todo[t] : len' = [len EXCEPT ![t] = @ + Occupied(t, p)]
  BY DEF StealRefresh
<1>3. p \in Prios /\ len[t] + Occupied(t, p) \in Nat
  BY SMT DEF Typed, TypeOK, Occupied
<1>4. 0 \in 0 .. NumLocals
  BY ConstantsAssumption, SMT
<1>5. TypeOK'
  BY <1>1, <1>2, <1>3, <1>4, LocalsFacts DEF Typed, TypeOK, Pcs, PopPcs
<1>6. CallState'
  BY <1>1 DEF Typed, TypeOK, CallState, InSpill
<1> QED
  BY <1>5, <1>6 DEF Typed

\* The compare-and-swap of a steal keeps the types and what the place of the
\* caller says of its locals.
LEMMA TypedStealReserve ==
    ASSUME Typed, NEW t \in Locals, StealReserve(t)
    PROVE  Typed'
<1>1. PICK p \in todo[t] :
        /\ StealCount(t, victim[t], p) > 0
        /\ loot' = [loot EXCEPT ![t] =
                     SubSeq(queue[victim[t]][p], 1, StealCount(t, victim[t], p))]
        /\ queue' = [queue EXCEPT ![victim[t]][p] =
                      SubSeq(@, StealCount(t, victim[t], p) + 1, Len(@))]
        /\ reserved' = [reserved EXCEPT ![victim[t]][p] = StealCount(t, victim[t], p)]
        /\ todo' = [todo EXCEPT ![t] = {p}]
  BY DEF StealReserve
<1>2. p \in Prios /\ victim[t] \in Locals
  BY DEF Typed, TypeOK
<1>3. StealCount(t, victim[t], p) \in 1 .. Len(queue[victim[t]][p])
  BY <1>1, <1>2, StealCountBounds
<1> DEFINE n == StealCount(t, victim[t], p)
<1>4. /\ SubSeq(queue[victim[t]][p], 1, n) \in Seq(Items)
      /\ SubSeq(queue[victim[t]][p], n + 1, Len(queue[victim[t]][p])) \in Seq(Items)
      /\ n \in Nat
  <2>1. queue[victim[t]][p] \in Seq(Items) /\ n \in 1 .. Len(queue[victim[t]][p])
    BY <1>2, <1>3 DEF Typed, TypeOK
  <2> HIDE DEF n
  <2>2. n \in Nat
    BY <2>1, LenProperties, SMT
  <2> QED
    BY <2>1, <2>2, SplitFacts
<1> HIDE DEF n
<1>5. /\ loot' \in [Locals -> Seq(Items)]
      /\ queue' \in [Locals -> [Prios -> Seq(Items)]]
      /\ reserved' \in [Locals -> [Prios -> Nat]]
      /\ todo' \in [Locals -> SUBSET Prios]
  BY <1>1, <1>2, <1>4 DEF Typed, TypeOK, n
<1>8. TypeOK'
  BY <1>5 DEF Typed, TypeOK, Goto, Pcs, PushPcs, PopPcs, queues, handle, control,
     StealReserve
<1>9. CallState'
  BY ZenonT(60), ConstantsAssumption, <1>1, <1>2
     DEF Typed, TypeOK, CallState, InSpill, Goto, queues, handle, control,
     StealReserve
<1> QED
  BY <1>8, <1>9 DEF Typed

\* The arrival of stolen items keeps the types and what the place of the
\* caller says of its locals.
LEMMA TypedStealPublish ==
    ASSUME Typed, NEW t \in Locals, StealPublish(t)
    PROVE  Typed'
<1>1. PICK p \in todo[t] :
        /\ queue' = [queue EXCEPT ![t][p] = @ \o loot[t]]
        /\ reserved' = [reserved EXCEPT ![victim[t]][p] = 0]
  BY DEF StealPublish
<1>2. p \in Prios /\ victim[t] \in Locals /\ queue[t][p] \o loot[t] \in Seq(Items)
  BY ConcatFacts DEF Typed, TypeOK
<1>3. /\ queue' \in [Locals -> [Prios -> Seq(Items)]]
      /\ reserved' \in [Locals -> [Prios -> Nat]]
  BY <1>1, <1>2 DEF Typed, TypeOK
<1>4. /\ loot' = [loot EXCEPT ![t] = <<>>] /\ pc' = [pc EXCEPT ![t] = "refresh"]
      /\ pc[t] = "publish"
  BY DEF StealPublish, Goto
<1>7. UNCHANGED <<fresh, popped, shared, shared_len, len, tick, stealing, ret,
                  item, moving, key,
                seen, todo, victim, left, count, done>>
  BY DEF StealPublish, queues, handle, control
<1>8. TypeOK'
  <2>1. pc' \in [Locals -> Pcs] /\ loot' \in [Locals -> Seq(Items)]
    BY <1>4, EmptySeq DEF Typed, TypeOK, Pcs, PopPcs
  <2> QED
    BY <1>3, <1>7, <2>1 DEF Typed, TypeOK
<1>9. CallState'
  BY <1>4, <1>7, ConstantsAssumption
     DEF Typed, TypeOK, CallState, InSpill
<1> QED
  BY <1>8, <1>9 DEF Typed

\* Popping an item to spill keeps the types and what the place of the caller
\* says of its locals.
LEMMA TypedSpillPop ==
    ASSUME Typed, NEW t \in Locals, SpillPop(t)
    PROVE  Typed'
<1>1. PICK p \in todo[t] : /\ WorkerPop(t, p)
                       /\ moving' = [moving EXCEPT ![t] = Head(queue[t][p])]
                       /\ key' = [key EXCEPT ![t] = p] /\ NextSweep(t, p)
  BY DEF SpillPop
<1>2. /\ p \in Prios
      /\ Head(queue[t][p]) \in Items /\ Tail(queue[t][p]) \in Seq(Items)
      /\ (IF reserved[t][p] > 0 THEN reserved[t][p] + 1 ELSE 0) \in Nat
  BY SMTT(60), <1>1, TailFacts DEF Typed, TypeOK, WorkerPop
<1>3. /\ queue' \in [Locals -> [Prios -> Seq(Items)]]
      /\ reserved' \in [Locals -> [Prios -> Nat]]
  BY <1>1, <1>2 DEF Typed, TypeOK, WorkerPop
<1>4. /\ moving' \in [Locals -> Items \cup {NoItem}]
      /\ key' \in [Locals -> Prios \cup {NoItem}]
      /\ todo' \in [Locals -> SUBSET Prios]
      /\ done' \in [Locals -> Nat]
  <2>1. done' = [done EXCEPT ![t] = @ + 1]
    BY DEF SpillPop
  <2> QED
    BY SMTT(60), <1>1, <1>2, <2>1 DEF Typed, TypeOK, NextSweep
<1>8. TypeOK'
  BY <1>3, <1>4 DEF Typed, TypeOK, Goto, Pcs, PushPcs, PopPcs, queues, handle, control,
     SpillPop
<1>9. CallState'
  BY ZenonT(60), ConstantsAssumption, <1>1, <1>2
     DEF Typed, TypeOK, CallState, InSpill, Goto, queues, handle, control,
     SpillPop, NextSweep
<1> QED
  BY <1>8, <1>9 DEF Typed

\* pop_local keeps the types and what the place of the caller says of its
\* locals.
LEMMA TypedPopLocal ==
    ASSUME Typed, NEW t \in Locals, PopLocal(t)
    PROVE  Typed'
<1>1. PICK p \in Prios : /\ WorkerPop(t, p)
                       /\ popped' = popped \cup {Head(queue[t][p])}
  BY DEF PopLocal
<1>2. /\ p \in Prios
      /\ Head(queue[t][p]) \in Items /\ Tail(queue[t][p]) \in Seq(Items)
      /\ (IF reserved[t][p] > 0 THEN reserved[t][p] + 1 ELSE 0) \in Nat
  BY SMTT(60), <1>1, TailFacts DEF Typed, TypeOK, WorkerPop
<1>3. SaturatingSub(len[t], 1) \in Nat
  BY SaturatingSubType DEF Typed, TypeOK
<1>8. TypeOK'
  BY <1>1, <1>2, <1>3 DEF Typed, TypeOK, Goto, Pcs, PushPcs, PopPcs, queues, handle, control,
     PopLocal, WorkerPop
<1>9. CallState'
  BY ZenonT(60), ConstantsAssumption, <1>1, <1>2
     DEF Typed, TypeOK, CallState, InSpill, Goto, queues, handle, control,
     PopLocal, WorkerPop
<1> QED
  BY <1>8, <1>9 DEF Typed

\* Every step of push, pop and steal keeps the types.
LEMMA TypedNext == Typed /\ [Next]_vars => Typed'
<1> SUFFICES ASSUME Typed, [Next]_vars
             PROVE  Typed'
  OBVIOUS
<1>1. ASSUME NEW t \in Locals, NEW i \in Items, PushLocal(t, i) \/ PushOverflow(t, i)
      PROVE  Typed'
  BY <1>1, TypedPushLocal, TypedPushOverflow
<1>2. ASSUME NEW t \in Locals, Pop(t)
      PROVE  Typed'
  BY <1>2, TypedPop
<1>3. ASSUME NEW t \in Locals, Step(t)
      PROVE  Typed'
  BY <1>3, TypedSharedInject, TypedSharedLoad, TypedSharedStoreAdd,
     TypedSharedStoreSub, TypedSharedIsEmpty, TypedSharedSteal, TypedSharedMiss,
     TypedSpillPop, TypedSpillSkip, TypedSpillDone, TypedPopLocal, TypedPopLast,
     TypedTryLock, TypedStealReserve, TypedStealMiss, TypedStealGiveUp,
     TypedStealPublish, TypedStealRefresh
     DEF Step
<1>4. CASE UNCHANGED vars
  BY <1>4 DEF Typed, TypeOK, CallState, InSpill, vars, queues, handle, control
<1> QED
  BY <1>1, <1>2, <1>3, <1>4 DEF Next

\* In every reachable state the queues hold items, the counters are natural
\* numbers (no usize underflow) and each thread is at a known place of push or
\* pop, with its locals as CallState says.
THEOREM TypeCorrect == Spec => [](TypeOK /\ CallState)
<1>1. Init => Typed
  BY TypedInit
<1>2. Typed /\ [Next]_vars => Typed'
  BY TypedNext
<1> QED
  BY <1>1, <1>2, PTL DEF Spec, Typed

-----------------------------------------------------------------------------
(* pop() comes to its end.                                                 *)

\* The numbers of the places of pop().
LEMMA PopOrderValues ==
    /\ PopOrder["idle"] = 0 /\ PopOrder["store_sub"] = 1 /\ PopOrder["load_sub"] = 2
    /\ PopOrder["scan"] = 3 /\ PopOrder["is_empty"] = 4 /\ PopOrder["last"] = 5
    /\ PopOrder["refresh"] = 6 /\ PopOrder["publish"] = 7 /\ PopOrder["steal"] = 8
    /\ PopOrder["local"] = 9
BY SMT DEF PopOrder

\* Outside the pop of the global queue the place is the program counter.
LEMMA PlainPlace ==
    ASSUME NEW t
    PROVE  /\ pc[t] \notin {"is_empty", "scan"} => PopAt(t) = PopOrder[pc[t]] + 0
           /\ (pc[t] \notin {"is_empty", "scan"} => PopAt(t) = PopOrder[pc[t]] + 0)'
           /\ pc[t] \in {"is_empty", "scan"} /\ ret[t] = "idle" =>
                PopAt(t) = PopOrder[pc[t]] + 0
           /\ (pc[t] \in {"is_empty", "scan"} /\ ret[t] = "idle" =>
                PopAt(t) = PopOrder[pc[t]] + 0)'
           /\ pc[t] \in {"is_empty", "scan"} /\ ret[t] = "local" =>
                PopAt(t) = PopOrder[pc[t]] + 8
           /\ (pc[t] \in {"is_empty", "scan"} /\ ret[t] = "local" =>
                PopAt(t) = PopOrder[pc[t]] + 8)'
BY SMT DEF PopAt

\* The pop of the global queue: the fast path, the scan of the priorities and
\* the update of the counter.
LEMMA SharedAdvances ==
    ASSUME Typed, NEW t \in Locals,
           \/ SharedIsEmpty(t) \/ SharedSteal(t) \/ SharedMiss(t)
           \/ SharedStoreSub(t)
           \/ pc[t] = "load_sub" /\ SharedLoad(t)
    PROVE  PopAt(t)' < PopAt(t) \/ LoopTurn(t)
<1>1. /\ pc \in [Locals -> Pcs] /\ todo \in [Locals -> SUBSET Prios]
      /\ ret \in [Locals -> {"idle", "spill", "local"}]
      /\ pc[t] \in {"is_empty", "scan"} => ret[t] \in {"idle", "local"}
  BY DEF Typed, TypeOK, CallState
<1>2. CASE SharedIsEmpty(t)
  <2>1. /\ pc[t] = "is_empty" /\ ret'[t] = ret[t]
        /\ pc'[t] = ret[t] \/ pc'[t] = "scan"
    BY <1>1, <1>2 DEF SharedIsEmpty, Goto
  <2>2. CASE ret[t] = "local"
    <3>1. PopAt(t) = 12 /\ PopAt(t)' \in {9, 11}
      BY <2>1, <2>2, PlainPlace, PopOrderValues, SMT
    <3> QED
      BY <3>1, SMT
  <2>3. CASE ret[t] = "idle"
    <3>1. PopAt(t) = 4 /\ PopAt(t)' \in {0, 3}
      BY <2>1, <2>3, PlainPlace, PopOrderValues, SMT
    <3> QED
      BY <3>1, SMT
  <2> QED
    BY <1>1, <2>1, <2>2, <2>3
<1>3. CASE SharedSteal(t)
  <2>1. pc[t] = "scan" /\ pc'[t] = "load_sub"
    BY <1>1, <1>3 DEF SharedSteal, Goto
  <2>2. PopAt(t) \in {3, 11} /\ PopAt(t)' = 2
    BY <1>1, <2>1, PlainPlace, PopOrderValues, SMT
  <2> QED
    BY <2>2, SMT
<1>4. CASE SharedMiss(t)
  <2>1. PICK p \in todo[t] :
          /\ todo' = [todo EXCEPT ![t] = @ \ {p}]
          /\ Goto(t, IF todo[t] = {p} THEN ret[t] ELSE "scan")
    BY <1>4 DEF SharedMiss
  <2>2. /\ pc[t] = "scan" /\ ret'[t] = ret[t] /\ left'[t] = left[t]
        /\ pc'[t] = ret[t] \/ pc'[t] = "scan"
    BY <1>1, <1>4, <2>1 DEF SharedMiss, Goto
  <2>3. todo'[t] \subseteq todo[t] /\ todo'[t] # todo[t]
    BY <1>1, <2>1
  <2>4. CASE pc'[t] = "scan"
    <3>1. PopAt(t)' = PopAt(t)
      BY <1>1, <2>2, <2>4, PlainPlace
    <3> QED
      BY <2>2, <2>3, <3>1 DEF LoopTurn
  <2>5. CASE pc'[t] = ret[t] /\ ret[t] = "local"
    <3>1. PopAt(t) = 11 /\ PopAt(t)' = 9
      BY <2>2, <2>5, PlainPlace, PopOrderValues, SMT
    <3> QED
      BY <3>1, SMT
  <2>6. CASE pc'[t] = ret[t] /\ ret[t] = "idle"
    <3>1. PopAt(t) = 3 /\ PopAt(t)' = 0
      BY <2>2, <2>6, PlainPlace, PopOrderValues, SMT
    <3> QED
      BY <3>1, SMT
  <2> QED
    BY <1>1, <2>2, <2>4, <2>5, <2>6
<1>5. CASE pc[t] = "load_sub" /\ SharedLoad(t)
  <2>1. pc[t] = "load_sub" /\ pc'[t] = "store_sub"
    BY <1>1, <1>5 DEF SharedLoad, Goto
  <2>2. PopAt(t) = 2 /\ PopAt(t)' = 1
    BY <2>1, PlainPlace, PopOrderValues, SMT
  <2> QED
    BY <2>2, SMT
<1>6. CASE SharedStoreSub(t)
  <2>1. pc[t] = "store_sub" /\ pc'[t] = "idle"
    BY <1>1, <1>6 DEF SharedStoreSub, Goto
  <2>2. PopAt(t) = 1 /\ PopAt(t)' = 0
    BY <2>1, PlainPlace, PopOrderValues, SMT
  <2> QED
    BY <2>2, SMT
<1> QED
  BY <1>2, <1>3, <1>4, <1>5, <1>6

\* pop_local and the loop over the sibling queues.
LEMMA LocalAdvances ==
    ASSUME Typed, NEW t \in Locals,
           \/ PopLocal(t) \/ PopLast(t) \/ TryLock(t)
           \/ StealReserve(t) \/ StealMiss(t) \/ StealGiveUp(t)
           \/ StealPublish(t) \/ StealRefresh(t)
    PROVE  PopAt(t)' < PopAt(t) \/ LoopTurn(t)
<1>1. /\ pc \in [Locals -> Pcs] /\ todo \in [Locals -> SUBSET Prios]
      /\ ret \in [Locals -> {"idle", "spill", "local"}]
      /\ left \in [Locals -> 0 .. NumLocals] /\ NumLocals \in Nat
  BY ConstantsAssumption DEF Typed, TypeOK
<1>2. CASE PopLocal(t) \/ PopLast(t)
  <2>1. pc[t] \in {"local", "last"} /\ pc'[t] = "idle"
    BY <1>1, <1>2 DEF PopLocal, PopLast, Goto
  <2>2. PopAt(t) \in {5, 9} /\ PopAt(t)' = 0
    BY <2>1, PlainPlace, PopOrderValues, SMT
  <2> QED
    BY <2>2, SMT
<1>3. CASE TryLock(t)
  <2>1. /\ pc[t] = "local"
        /\ \/ pc'[t] = "steal"
           \/ pc'[t] = "is_empty" /\ ret'[t] = "idle"
    <3>1. CASE stealing[t]
      BY <1>1, <1>3, <3>1 DEF TryLock, Goto
    <3>2. CASE ~stealing[t]
      <4>1. pc[t] = "local" /\ pc' = [pc EXCEPT ![t] = "steal"]
        BY <1>3, <3>2, SMT DEF TryLock, Goto
      <4> QED
        BY <1>1, <4>1
    <3> QED
      BY <3>1, <3>2
  <2>2. PopAt(t) = 9 /\ PopAt(t)' \in {8, 4}
    BY <2>1, PlainPlace, PopOrderValues, SMT
  <2> QED
    BY <2>2, SMT
<1>4. CASE StealReserve(t)
  <2>1. pc[t] = "steal" /\ pc'[t] = "publish"
    BY <1>1, <1>4 DEF StealReserve, Goto
  <2>2. PopAt(t) = 8 /\ PopAt(t)' = 7
    BY <2>1, PlainPlace, PopOrderValues, SMT
  <2> QED
    BY <2>2, SMT
<1>5. CASE StealMiss(t)
  <2>1. PICK p \in todo[t] :
          IF todo[t] = {p}
            THEN left' = [left EXCEPT ![t] = @ - 1]
            ELSE /\ todo' = [todo EXCEPT ![t] = @ \ {p}]
                 /\ left' = left
    BY <1>5 DEF StealMiss
  <2>2. pc' = pc /\ ret' = ret
    BY <1>5 DEF StealMiss
  <2>3. PopAt(t)' = PopAt(t)
    BY <2>2 DEF PopAt
  <2>4. CASE todo[t] = {p}
    <3>1. left'[t] = left[t] - 1 /\ left[t] \in Nat
      BY <1>1, <2>1, <2>4, SMT
    <3>2. left'[t] < left[t]
      BY <3>1, SMT
    <3> QED
      BY <2>3, <3>2 DEF LoopTurn
  <2>5. CASE todo[t] # {p}
    <3>1. left'[t] = left[t] /\ todo'[t] \subseteq todo[t] /\ todo'[t] # todo[t]
      BY <1>1, <2>1, <2>5
    <3> QED
      BY <2>3, <3>1 DEF LoopTurn
  <2> QED
    BY <2>4, <2>5
<1>6. CASE StealGiveUp(t)
  <2>1. pc[t] = "steal" /\ pc'[t] = "is_empty" /\ ret'[t] = "idle"
    BY <1>1, <1>6 DEF StealGiveUp, Goto
  <2>2. PopAt(t) = 8 /\ PopAt(t)' = 4
    BY <2>1, PlainPlace, PopOrderValues, SMT
  <2> QED
    BY <2>2, SMT
<1>7. CASE StealPublish(t)
  <2>1. pc[t] = "publish" /\ pc'[t] = "refresh"
    BY <1>1, <1>7 DEF StealPublish, Goto
  <2>2. PopAt(t) = 7 /\ PopAt(t)' = 6
    BY <2>1, PlainPlace, PopOrderValues, SMT
  <2> QED
    BY <2>2, SMT
<1>8. CASE StealRefresh(t)
  <2>1. pc[t] = "refresh" /\ pc'[t] = "last"
    BY <1>1, <1>8 DEF StealRefresh, Goto
  <2>2. PopAt(t) = 6 /\ PopAt(t)' = 5
    BY <2>1, PlainPlace, PopOrderValues, SMT
  <2> QED
    BY <2>2, SMT
<1> QED
  BY <1>2, <1>3, <1>4, <1>5, <1>6, <1>7, <1>8

\* A thread changes no other thread's place or loop variables.
LEMMA OthersStay ==
    ASSUME Typed, NEW t \in Locals, NEW u \in Locals, u # t,
           \/ \E i \in Items : PushLocal(u, i) \/ PushOverflow(u, i)
           \/ Pop(u)
           \/ Step(u)
    PROVE  pc'[t] = pc[t] /\ ret'[t] = ret[t] /\ todo'[t] = todo[t] /\ left'[t] = left[t]
<1>1. /\ pc \in [Locals -> Pcs] /\ todo \in [Locals -> SUBSET Prios]
      /\ ret \in [Locals -> {"idle", "spill", "local"}]
      /\ left \in [Locals -> 0 .. NumLocals]
  BY DEF Typed, TypeOK
<1>2. CASE \E i \in Items : PushLocal(u, i) \/ PushOverflow(u, i)
  BY <1>1, <1>2 DEF PushLocal, PushOverflow, Goto, control
<1>3. CASE Pop(u)
  BY <1>1, <1>3 DEF Pop, Goto
<1>4. CASE SharedInject(u) \/ SharedLoad(u) \/ SharedStoreAdd(u) \/ SharedStoreSub(u)
  BY <1>1, <1>4 DEF SharedInject, SharedLoad, SharedStoreAdd, SharedStoreSub, Goto
<1>5. CASE SharedIsEmpty(u) \/ SharedSteal(u)
  BY <1>1, <1>5 DEF SharedIsEmpty, SharedSteal, Goto
<1>6. CASE SharedMiss(u)
  BY <1>1, <1>6 DEF SharedMiss, Goto
<1>7. CASE SpillPop(u)
  BY <1>1, <1>7 DEF SpillPop, NextSweep, Goto
<1>8. CASE SpillSkip(u) \/ SpillDone(u)
  BY <1>1, <1>8 DEF SpillSkip, SpillDone, NextSweep, Goto
<1>9. CASE PopLocal(u) \/ PopLast(u) \/ TryLock(u)
  BY <1>1, <1>9 DEF PopLocal, PopLast, TryLock, Goto, control
<1>10. CASE StealReserve(u)
  BY <1>1, <1>10 DEF StealReserve, Goto
<1>11. CASE StealMiss(u)
  BY <1>1, <1>11 DEF StealMiss
<1>12. CASE StealGiveUp(u) \/ StealPublish(u) \/ StealRefresh(u)
  BY <1>1, <1>12 DEF StealGiveUp, StealPublish, StealRefresh, LeaveLoop, Goto
<1> QED
  BY <1>2, <1>3, <1>4, <1>5, <1>6, <1>7, <1>8, <1>9, <1>10, <1>11, <1>12 DEF Step

\* Every step of a thread inside OrderedLocalQueue::pop brings it nearer to its
\* return, for any number of threads, items, priorities and any capacity: a
\* later place of the function, a sibling queue or a priority less to look at.
THEOREM PopComesToAnEnd == Spec => PopAdvances
<1> DEFINE Advance ==
      \A t \in Locals : pc[t] \in PopPcs =>
        IF Step(t) THEN PopAt(t)' < PopAt(t) \/ LoopTurn(t)
                   ELSE UNCHANGED <<pc[t], ret[t], todo[t], left[t]>>
<1>1. ASSUME Typed, Next PROVE Advance
  <2> SUFFICES ASSUME NEW t \in Locals, pc[t] \in PopPcs
               PROVE  IF Step(t) THEN PopAt(t)' < PopAt(t) \/ LoopTurn(t)
                        ELSE UNCHANGED <<pc[t], ret[t], todo[t], left[t]>>
    OBVIOUS
  <2>1. CASE Step(t)
    <3>1. pc[t] \notin PushPcs /\ pc[t] # "idle"
      BY DEF PopPcs, PushPcs
    <3>2. /\ ~SharedInject(t) /\ ~SharedStoreAdd(t) /\ ~SpillPop(t) /\ ~SpillSkip(t)
          /\ ~SpillDone(t) /\ (SharedLoad(t) => pc[t] = "load_sub")
      BY <3>1 DEF PushPcs, SharedInject, SharedStoreAdd, SpillPop, SpillSkip, SpillDone,
                  SharedLoad
    <3>3. PopAt(t)' < PopAt(t) \/ LoopTurn(t)
      BY <1>1, <2>1, <3>2, SharedAdvances, LocalAdvances DEF Step
    <3> QED
      BY <2>1, <3>3
  <2>2. CASE ~Step(t)
    <3>1. PICK u \in Locals : \/ \E i \in Items : PushLocal(u, i) \/ PushOverflow(u, i)
                              \/ Pop(u)
                              \/ Step(u)
      BY <1>1 DEF Next
    <3>2. u # t
      BY <2>2, <3>1 DEF PushLocal, PushOverflow, Pop, PopPcs
    <3>3. pc'[t] = pc[t] /\ ret'[t] = ret[t] /\ todo'[t] = todo[t] /\ left'[t] = left[t]
      BY <1>1, <3>1, <3>2, OthersStay
    <3> QED
      BY <2>2, <3>3
  <2> QED
    BY <2>1, <2>2
<1>2. Typed /\ [Next]_vars => [Advance]_vars
  BY <1>1
<1>3. Spec => []Typed
  BY TypeCorrect, PTL DEF Typed
<1> QED
  BY <1>2, <1>3, PTL DEF Spec, PopAdvances

=============================================================================
