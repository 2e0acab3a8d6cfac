-------------------------- MODULE MCCoroutinePool --------------------------
EXTENDS CoroutinePool, TLC

CONSTANTS p1, p2, w1, w2, t1, t2

TheRing == <<p1, p2>>
OneRing == <<p1>>

\* The second task is joined by the first one, inside of its coroutine.
NestedJoin == [t \in Tasks |-> IF t = t2 THEN t1 ELSE Outside]

\* Nobody waits inside of a coroutine.
OutsideJoin == [t \in Tasks |-> Outside]

WorkerSymmetry == Permutations(Workers)
=============================================================================
