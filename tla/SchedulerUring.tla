-------------------------- MODULE SchedulerUring ----------------------------
(***************************************************************************)
(* io_uring in Scheduler: whose result a coroutine takes, and when.        *)
(*                                                                         *)
(* ServedInv  an operation that is pending has its entry in the wait table *)
(*            of its loop, or is just being handed over; without the       *)
(*            selector's waits, with and without time limits.              *)
(* UringInv   a coroutine that waits has a token and the entry of its      *)
(*            operation; without time limits.                              *)
(* CalmInv    no assertion fails.                                          *)
(*                                                                         *)
(* The last part counts the places of a coroutine.                         *)
(***************************************************************************)
EXTENDS SchedulerProofs

USE ZenonT(30)

-----------------------------------------------------------------------------
(* Operations of io_uring and their results.                               *)

\* The completions that wait in the ring of loop e...
Queued(e) == {cq[e][i] : i \in DOMAIN cq[e]}

\* ... and all operations of which loop e has not yet heard.
Pending(e) == inflight[e] \cup Queued(e)

\* Between the submission and the entry in the wait table.
Handed(c) == at[c] \in {"uring_wait", "limit_wait"}

\* Operation o has been handed to e by a coroutine between the two.
Given(e, o) == Handed(o[1]) /\ home[o[1]] = e /\ o = Op(o[1])

\* An operation completes once.
RingOK(e) ==
    /\ inflight[e] \cap Queued(e) = {}
    /\ \A i, j \in DOMAIN cq[e] : cq[e][i] = cq[e][j] => i = j

\* Operations are numbered downwards.  Whatever of a coroutine that is alive is
\* pending at e has its entry in the table of e, but for an operation just
\* handed over, and there is at most one entry.
OpOK(e, o) ==
    /\ o \in Pending(e) \cup table[e] => ops[o[1]] <= o[2]
    /\ at[o[1]] # "dead" => (o \in Pending(e) <=> o \in table[e] \/ Given(e, o))
    /\ Handed(o[1]) /\ o = Op(o[1]) => o \notin table[e]
    /\ o \in table[e] /\ at[o[1]] # "dead" => \A p \in table[e] : p[1] = o[1] => p = o

\* Between the two steps the coroutine runs on the thread of the loop.
HandedOK(c) ==
    /\ at[c] \notin {"nio", "nio_back", "again"}
    /\ Handed(c) => home[c] \in Loops /\ co[home[c]] = c /\ pc[home[c]] = "run"

\* A stored result is the one of the operation it is stored for.
OwnResults == \A r \in result : r[1] = r[2] \/ at[r[1][1]] = "dead"

\* That is so for all loops, operations and coroutines.
Served ==
    /\ \A e \in Loops : RingOK(e)
    /\ \A e \in Loops, o \in Ops : OpOK(e, o)
    /\ \A c \in Cos : HandedOK(c)
    /\ OwnResults

\* Operations are pairs of a coroutine and a number.
LEMMA OpsTyped ==
    /\ \A o \in Ops : o[1] \in Cos /\ o[2] \in Int /\ o = <<o[1], o[2]>>
    /\ \A c, d, m, n : <<c, m>> = <<d, n>> => c = d /\ m = n
    /\ \A c, n : <<c, n>>[1] = c /\ <<c, n>>[2] = n
  BY SchedulerAssumption, SMTT(30) DEF Ops

\* A step that neither hands over an operation of d nor enters it in the table.
Calm(d) ==
    /\ ops'[d] \in Int /\ ops'[d] <= ops[d]
    /\ at[d] = "dead" => at'[d] = "dead"
    /\ at'[d] \notin {"nio", "nio_back", "again"}
    /\ IF Handed(d)' THEN /\ Handed(d) /\ home'[d] = home[d] /\ ops'[d] = ops[d]
                          /\ co'[home[d]] = d /\ pc'[home[d]] = "run"
       ELSE at'[d] = "dead" \/ ~Handed(d)

\* A coroutine that is still is calm...
LEMMA StillCalm ==
    ASSUME OnceInv, NEW d \in Cos, HandedOK(d), Still(d)
    PROVE  Calm(d)
  <1>1. ops'[d] \in Int /\ ops'[d] <= ops[d]
    <2>1. ops[d] \in Int /\ ops'[d] = ops[d]
      BY OnceTypes, SMTT(30) DEF BodyType, Still
    <2> QED
      BY <2>1, SMTT(30)
  <1> QED
    BY <1>1 DEF Calm, HandedOK, Handed, Still, Stays

\* ... and so is one that moves outside of the two steps.
LEMMA MovedCalm ==
    ASSUME NEW d \in Cos, ~Handed(d), ~Handed(d)', ops'[d] \in Int, ops'[d] <= ops[d],
           at[d] = "dead" => at'[d] = "dead", at'[d] \notin {"nio", "nio_back", "again"}
    PROVE  Calm(d)
  BY DEF Calm

\* What is so of an operation stays so when its coroutine is calm and neither
\* the ring nor the entries of the coroutine change.
LEMMA OpCalm ==
    ASSUME BodyType, NEW e \in Loops, NEW o \in Ops, OpOK(e, o), Calm(o[1]),
           o \in Pending(e)' <=> o \in Pending(e),
           \A p \in table[e] \cup table'[e] : p[1] = o[1] => (p \in table'[e] <=> p \in table[e])
    PROVE  OpOK(e, o)'
  <1>1. o[1] \in Cos /\ o[2] \in Int
    BY OpsTyped
  <1>2. ops[o[1]] <= o[2] => ops'[o[1]] <= o[2]
    <2>1. ops[o[1]] \in Int /\ ops'[o[1]] \in Int /\ ops'[o[1]] <= ops[o[1]]
      BY <1>1, SMTT(30) DEF BodyType, Calm
    <2> QED
      BY <1>1, <2>1, SMTT(30)
  <1>3. o \in table'[e] <=> o \in table[e]
    OBVIOUS
  <1>4. at'[o[1]] # "dead" => (Given(e, o)' <=> Given(e, o))
    BY DEF Calm, Given, Op, Handed
  <1>5. Handed(o[1])' /\ (o = Op(o[1]))' => Handed(o[1]) /\ o = Op(o[1])
    BY DEF Calm, Op
  <1>6. at'[o[1]] # "dead" => at[o[1]] # "dead"
    BY DEF Calm
  <1>7. (o \in Pending(e) \cup table[e] => ops[o[1]] <= o[2])'
    BY <1>2, <1>3 DEF OpOK
  <1>8. (at[o[1]] # "dead" => (o \in Pending(e) <=> o \in table[e] \/ Given(e, o)))'
    BY <1>3, <1>4, <1>6 DEF OpOK
  <1>9. (Handed(o[1]) /\ o = Op(o[1]) => o \notin table[e])'
    BY <1>3, <1>5 DEF OpOK
  <1>10. (o \in table[e] /\ at[o[1]] # "dead" => \A p \in table[e] : p[1] = o[1] => p = o)'
    BY <1>3, <1>6 DEF OpOK
  <1> QED
    BY <1>7, <1>8, <1>9, <1>10 DEF OpOK

\* So does what is so between the two steps.
LEMMA HandedCalm == ASSUME NEW d \in Cos, HandedOK(d), Calm(d) PROVE HandedOK(d)'
  BY DEF HandedOK, Calm, Handed

\* When all coroutines are calm, operations go on being served...
LEMMA ServedCalm ==
    ASSUME OnceInv, Served, \A d \in Cos : Calm(d), UNCHANGED <<table, result>>,
           \A e \in Loops : Pending(e)' = Pending(e) /\ RingOK(e)'
    PROVE  Served'
  <1>1. BodyType /\ IoType /\ \A o \in Ops : o[1] \in Cos
    BY OnceTypes, OpsTyped
  <1>2. \A e \in Loops, o \in Ops : OpOK(e, o)'
    BY <1>1, OpCalm DEF Served
  <1>3. \A c \in Cos : HandedOK(c)'
    BY HandedCalm DEF Served
  <1>4. OwnResults'
    <2>1. \A r \in result : r[1] \in Ops
      BY <1>1, SMTT(30) DEF IoType
    <2> QED
      BY <1>1, <2>1 DEF Served, OwnResults, Calm
  <1> QED
    BY <1>2, <1>3, <1>4 DEF Served

\* ... in particular when the rings do not change.
LEMMA ServedSame ==
    ASSUME OnceInv, Served, \A d \in Cos : Calm(d), UNCHANGED <<inflight, cq, table, result>>
    PROVE  Served'
  <1>1. \A e \in Loops : Pending(e)' = Pending(e) /\ RingOK(e)'
    <2>1. \A e \in Loops : Queued(e)' = Queued(e)
      BY SMTT(30) DEF Queued
    <2> QED
      BY <2>1 DEF Served, Pending, RingOK
  <1> QED
    BY <1>1, ServedCalm

\* A coroutine that is not running is not between the two steps.
LEMMA NotHanded ==
    ASSUME NEW c \in Cos, HandedOK(c), NEW k, NEW l, In(c, k, l),
           k # "run" \/ pc[l] # "run"
    PROVE  ~Handed(c)
  BY DEF HandedOK, In

\* What a coroutine does by itself, apart from submitting an operation and
\* entering it in the table.
LEMMA BodyCalm ==
    ASSUME "nio" \notin Waits, OnceInv, Served, NEW s \in Loops, NEW c \in Cos, NEW n, NEW ts,
           NEW r,
           \/ Suspend(s, c) \/ Until(s, c, ts) \/ suspend_with(s, c) \/ Enter(s, c, n)
           \/ Exit(s, c) \/ UringBack(s, c) \/ LimitBack(s, c) \/ UringResult(s, c)
           \/ wait_just(s, c, ts, r)
    PROVE  Calm(c) /\ OthersStill(c) /\ UNCHANGED <<inflight, cq, table, result>>
  <1>1. BodyType /\ HandedOK(c)
    BY OnceTypes DEF Served
  <1>2. ~wait_just(s, c, ts, r)
    BY DEF wait_just
  <1>3. UNCHANGED <<inflight, cq, table, result>> /\ OthersStill(c)
    <2>1. OthersStill(c)
      BY BodyStill
    <2> QED
      BY <1>2, <2>1 DEF Suspend, Until, suspend_with, Enter, Exit, UringBack, LimitBack,
         UringResult, io
  <1>4. ops'[c] = ops[c] \/ (ops[c] > 0 /\ ops'[c] = ops[c] - 1)
    BY <1>1, <1>2 DEF Suspend, Until, suspend_with, Enter, Exit, UringBack, LimitBack,
       UringResult, Operation, BodyType
  <1>5. ops'[c] \in Int /\ ops'[c] <= ops[c]
    <2>1. ops[c] \in Int
      BY <1>1, SMTT(30) DEF BodyType
    <2> QED
      BY <1>4, <2>1, SMTT(30)
  <1>6. at[c] \in {"body", "until", "call", "uring", "limit", "uring_back", "limit_back",
                   "result", "exit"}
    <2>1. suspend_with(s, c) => at[c] \in {"until", "nio", "uring", "limit"}
      BY <1>1, YieldPlaces
    <2> QED
      BY <1>1, <1>2, <2>1 DEF Suspend, Until, Enter, Exit, UringBack, LimitBack, UringResult,
         At, HandedOK
  <1>7. at'[c] \in {"body", "until", "call", "uring_back", "limit_back", "result", "exit"}
    <2>1. suspend_with(s, c) => at'[c] \in {"body", "uring_back", "limit_back"}
      BY <1>1, <1>6, YieldPlaces
    <2>2. LimitBack(s, c) => at'[c] \in {"exit", "result"}
      BY <1>1, SMTT(30) DEF LimitBack, GoOn, BodyType
    <2> QED
      BY <1>1, <1>2, <2>1, <2>2 DEF Suspend, Until, Enter, Exit, UringBack, UringResult, GoOn,
         At, BodyType
  <1>8. ~Handed(c) /\ ~Handed(c)' /\ at[c] # "dead" /\ at'[c] \notin {"nio", "nio_back", "again"}
    BY <1>6, <1>7 DEF Handed
  <1> QED
    BY <1>3, <1>5, <1>8, MovedCalm

\* Steps of the scheduler, the signals and the environment: no coroutine gets
\* further in what it does.
LEMMA SchedulingCalm ==
    ASSUME DueInv, Served, NEW s, NEW c, NEW end,
           \/ Tick
           \/ c \in Cos /\ (Submit(c) \/ TryCancel(c))
           \/ s \in Loops /\ (\/ check_ready(s) \/ PopNone(s)
                             \/ sigurg_handler(s) \/ sigvtalrm_handler(s))
           \/ s \in Loops /\ c \in Cos
              /\ (\/ DropCancelled(s, c) \/ Resume(s, c) \/ YieldRunning(s, c)
                  \/ YieldSyscall(s, c) \/ Finish(s, c, end) \/ Fire(s, c) \/ Preempt(s, c))
    PROVE  (\A d \in Cos : Calm(d)) /\ UNCHANGED <<inflight, cq, table, result>>
  <1>0. OnceInv /\ BodyType /\ ThreadType /\ Once /\ NoCo \notin Cos
        /\ \A d \in Cos : HandedOK(d) /\ ops[d] \in Int
    <2>1. BodyType => \A d \in Cos : ops[d] \in Int
      BY SMTT(30) DEF BodyType
    <2> QED
      BY <2>1, OnceTypes DEF DueInv, Served
  <1>1. \A d \in Cos : ops[d] <= ops[d]
    BY <1>0, SMTT(30)
  <1>2. UNCHANGED <<inflight, cq, table, result>>
    BY DEF Submit, DropCancelled, Resume, YieldRunning, YieldSyscall, Finish, check_ready,
       PopNone, Fire, Tick, TryCancel, sigurg_handler, sigvtalrm_handler, Preempt, io
  <1>3. ASSUME NEW d \in Cos, Still(d) PROVE Calm(d)
    BY <1>0, <1>3, StillCalm
  <1>4. ASSUME NEW d \in Cos, ~Handed(d), at'[d] = at[d], ops'[d] = ops[d] PROVE Calm(d)
    BY <1>0, <1>1, <1>4, MovedCalm DEF Handed, HandedOK
  <1>5. ASSUME c \in Cos, NEW end1,
               \/ Submit(c)
               \/ s \in Loops /\ (\/ DropCancelled(s, c) \/ Resume(s, c) \/ YieldRunning(s, c)
                                 \/ YieldSyscall(s, c) \/ Finish(s, c, end1))
        PROVE  \A d \in Cos : Calm(d)
    <2>1. OthersStill(c)
      BY <1>0, <1>5, SubmitMoves, DropMoves, ResumeMoves, YieldRunningMoves,
         YieldSyscallMoves, FinishMoves
    <2>2. ~Handed(c)
      <3>1. CASE \/ Submit(c)
                 \/ s \in Loops /\ (DropCancelled(s, c) \/ Resume(s, c))
        BY <1>0, <1>5, <3>1, SubmitMoves, DropMoves, ResumeMoves, NotHanded
      <3>2. CASE s \in Loops /\ (YieldRunning(s, c) \/ YieldSyscall(s, c))
        <4>1. In(c, "run", s) /\ pc[s] = "yield"
          BY <1>0, <1>5, <3>2, YieldRunningMoves, YieldSyscallMoves DEF YieldRunning, YieldSyscall
        <4> QED
          BY <1>0, <1>5, <4>1, NotHanded
      <3>3. CASE s \in Loops /\ Finish(s, c, end1)
        BY <3>3 DEF Finish, At, Handed
      <3> QED
        BY <1>5, <3>1, <3>2, <3>3
    <2>3. UNCHANGED body
      BY <1>5 DEF Submit, DropCancelled, Resume, YieldRunning, YieldSyscall, Finish
    <2> QED
      BY <1>3, <1>4, <2>1, <2>2, <2>3 DEF OthersStill, body
  <1>6. ASSUME s \in Loops, check_ready(s) PROVE \A d \in Cos : Calm(d)
    <2>1. UNCHANGED body
      BY <1>6 DEF check_ready
    <2>2. \A d \in Cos : Still(d) \/ In(d, "suspend", s) \/ In(d, "syscall", s)
      BY <1>0, <1>6, CheckMoves
    <2> QED
      BY <1>0, <1>3, <1>4, <2>1, <2>2, NotHanded DEF body
  <1>7. ASSUME \/ Tick
               \/ c \in Cos /\ TryCancel(c)
               \/ s \in Loops /\ PopNone(s)
               \/ s \in Loops /\ c \in Cos /\ Fire(s, c)
        PROVE  \A d \in Cos : Calm(d)
    BY <1>0, <1>3, <1>7, AllStill, CancelStill
  <1>8. ASSUME s \in Loops, sigurg_handler(s) PROVE \A d \in Cos : Calm(d)
    <2>1. \A d \in Cos : co[s] # d => Still(d)
      BY <1>0, <1>8, SignalStill
    <2>2. ASSUME NEW d \in Cos, co[s] = d PROVE Calm(d)
      <3>1. UNCHANGED <<body, co>>
        BY <1>8 DEF sigurg_handler
      <3>2. CASE Preemptible(s)
        <4>1. state[d].kind = "Running" /\ DueOnThread(s, d)
          BY <1>8, <2>2, <3>2 DEF Preemptible, DueInv, Dues, DueOK
        <4>2. ~Handed(d)
          BY <4>1 DEF DueOnThread, Handed
        <4> QED
          BY <1>4, <3>1, <4>2 DEF body
      <3>3. CASE ~Preemptible(s)
        <4>1. UNCHANGED pc
          BY <1>8, <3>3 DEF sigurg_handler
        <4> QED
          BY <1>0, <1>1, <3>1, <4>1 DEF body, Calm, Handed, HandedOK
      <3> QED
        BY <3>2, <3>3
    <2> QED
      BY <1>3, <2>1, <2>2
  <1>9. ASSUME s \in Loops, sigvtalrm_handler(s) PROVE \A d \in Cos : Calm(d)
    <2>1. (\A d \in Cos : co[s] # d => Still(d)) /\ UNCHANGED <<co, home, ops>>
      BY <1>0, <1>9, SignalStill
    <2>2. ASSUME NEW d \in Cos, co[s] = d PROVE Calm(d)
      <3>1. CASE pc[s] = "run"
        <4>1. at'[d] = "dead"
          BY <1>0, <1>9, <2>2, <3>1 DEF sigvtalrm_handler, GoOn, BodyType
        <4> QED
          BY <1>0, <1>1, <2>1, <4>1 DEF Calm, Handed
      <3>2. CASE pc[s] # "run"
        <4>1. UNCHANGED <<pc, at>>
          BY <1>9, <3>2 DEF sigvtalrm_handler
        <4> QED
          BY <1>0, <1>1, <2>1, <4>1 DEF Calm, Handed, HandedOK
      <3> QED
        BY <3>1, <3>2
    <2> QED
      BY <1>3, <2>1, <2>2
  <1>10. ASSUME s \in Loops, c \in Cos, Preempt(s, c) PROVE \A d \in Cos : Calm(d)
    <2>1. OthersStill(c)
      BY <1>0, <1>10, BodyStill
    <2>2. state[c].kind = "Running" /\ DueOnThread(s, c) /\ at' = at
      BY <1>10 DEF Preempt, DueInv, Dues, DueOK
    <2>3. ~Handed(c) /\ ~Handed(c)'
      BY <2>2 DEF DueOnThread, Handed
    <2>4. ops'[c] = ops[c] - 1
      BY <1>0, <1>10 DEF Preempt, Operation, BodyType
    <2>5. ops'[c] \in Int /\ ops'[c] <= ops[c]
      <3>1. ops[c] \in Int
        BY <1>0, <1>10
      <3> QED
        BY <2>4, <3>1, SMTT(30)
    <2>6. Calm(c)
      BY <1>0, <1>10, <2>2, <2>3, <2>5, MovedCalm DEF HandedOK
    <2> QED
      BY <1>3, <2>1, <2>6 DEF OthersStill
  <1> QED
    BY <1>2, <1>5, <1>6, <1>7, <1>8, <1>9, <1>10

\* An operation ends: it goes from one part of the ring to the other.
LEMMA CompletionServed ==
    ASSUME OnceInv, Served, NEW e \in Loops, NEW o \in Ops, Completion(e, o)
    PROVE  Served'
  <1>1. IoType /\ \A d \in Cos : Calm(d)
    BY OnceTypes, AllStill, StillCalm DEF Served
  <1>2. /\ o \in inflight[e] /\ inflight' = [inflight EXCEPT ![e] = @ \ {o}]
        /\ cq' = [cq EXCEPT ![e] = Append(@, o)] /\ UNCHANGED <<table, result>>
    BY DEF Completion
  <1>3. /\ inflight'[e] = inflight[e] \ {o} /\ cq'[e] = Append(cq[e], o)
        /\ cq[e] \in Seq(Ops) /\ \A k \in Loops \ {e} : inflight'[k] = inflight[k] /\ cq'[k] = cq[k]
    BY <1>1, <1>2 DEF IoType
  <1>4. o \notin Queued(e) /\ \A i, j \in DOMAIN cq[e] : cq[e][i] = cq[e][j] => i = j
    BY <1>2 DEF Served, RingOK
  <1>5. Queued(e)' = Queued(e) \cup {o}
    BY <1>3, SMTT(30) DEF Queued
  <1>6. (\A i, j \in DOMAIN cq[e] : cq[e][i] = cq[e][j] => i = j)'
    BY <1>3, <1>4, SMTT(30) DEF Queued
  <1>7. RingOK(e)' /\ Pending(e)' = Pending(e)
    BY <1>2, <1>3, <1>5, <1>6 DEF Served, RingOK, Pending
  <1>8. ASSUME NEW k \in Loops \ {e} PROVE RingOK(k)' /\ Pending(k)' = Pending(k)
    <2>1. Queued(k)' = Queued(k)
      BY <1>3, SMTT(30) DEF Queued
    <2> QED
      BY <1>3, <2>1 DEF Served, RingOK, Pending
  <1> QED
    BY <1>1, <1>2, <1>7, <1>8, ServedCalm

\* An operation is handed over: it has a new number, smaller than all others
\* of the coroutine.
LEMMA SubmitServed ==
    ASSUME OnceInv, Served, NEW s \in Loops, NEW c \in Cos, NEW l \in {"uring", "limit"},
           uring_submit(s, c, l)
    PROVE  Served'
  <1> DEFINE new == Op(c)'
  <1>1. /\ BodyType /\ IoType /\ OthersStill(c) /\ In(c, "run", s) /\ pc[s] = "run" /\ co' = co
        /\ \A d \in Cos : HandedOK(d)
    BY OnceTypes, BodyStill DEF Served
  <1>2. /\ at[c] = "call" /\ ops[c] > 0 /\ ops' = [ops EXCEPT ![c] = @ - 1]
        /\ inflight' = [inflight EXCEPT ![s] = @ \cup {new}]
        /\ home' = [home EXCEPT ![c] = s] /\ at' = [at EXCEPT ![c] = Submitted[l]]
        /\ UNCHANGED <<pc, cq, table, result>>
    BY DEF uring_submit, At, Operation, GoOn, thread
  <1>3. Submitted[l] \in {"uring_wait", "limit_wait"}
    BY SMTT(30) DEF Submitted
  <1>4. at'[c] \in {"uring_wait", "limit_wait"} /\ home'[c] = s
    BY <1>1, <1>2, <1>3 DEF BodyType
  <1>5. ops[c] \in 0 .. MaxOps
    BY <1>1 DEF BodyType
  <1>6. ops'[c] = ops[c] - 1
    BY <1>1, <1>2 DEF BodyType
  <1>7. new = <<c, ops[c] - 1>> /\ new \in Ops /\ new[1] = c
    BY <1>2, <1>5, <1>6, SchedulerAssumption, SMTT(30) DEF Op, Ops
  <1>8. ASSUME NEW e \in Loops, NEW o \in Pending(e) \cup table[e], o \in Ops, o[1] = c
        PROVE  o # new /\ ops'[c] <= o[2]
    <2>1. ops[c] <= o[2] /\ o[2] \in Int
      BY <1>8, OpsTyped DEF Served, OpOK
    <2> QED
      BY <1>5, <1>6, <1>7, <2>1, SMTT(30)
  <1>9. new \notin table[s] /\ new \notin Pending(s) /\ \A e \in Loops : new \notin table[e]
    BY <1>7, <1>8
  <1>10. /\ inflight'[s] = inflight[s] \cup {new}
         /\ \A k \in Loops \ {s} : inflight'[k] = inflight[k]
    BY <1>1, <1>2 DEF IoType
  <1>11. \A k \in Loops : Queued(k)' = Queued(k)
    BY <1>2, SMTT(30) DEF Queued
  <1>12. /\ Pending(s)' = Pending(s) \cup {new}
         /\ \A k \in Loops \ {s} : Pending(k)' = Pending(k)
    BY <1>10, <1>11 DEF Pending
  <1>13. \A e \in Loops : RingOK(e)'
    <2>1. RingOK(s)'
      <3>1. new \notin Queued(s) /\ inflight[s] \cap Queued(s) = {}
        BY <1>9 DEF Served, RingOK, Pending
      <3>2. (inflight[s] \cap Queued(s))' = {}
        BY <1>10, <1>11, <3>1
      <3>3. cq' = cq /\ \A i, j \in DOMAIN cq[s] : cq[s][i] = cq[s][j] => i = j
        BY <1>2 DEF Served, RingOK
      <3> QED
        BY <3>2, <3>3 DEF RingOK
    <2> QED
      BY <1>2, <1>10, <1>11, <2>1 DEF Served, RingOK
  <1>14. \A d \in Cos \ {c} : Calm(d)
    BY <1>1, StillCalm DEF OthersStill
  <1> HIDE DEF new
  <1>15. ASSUME NEW e \in Loops, NEW o \in Ops PROVE OpOK(e, o)'
    <2>1. CASE o[1] # c
      <3>1. o \in Pending(e)' <=> o \in Pending(e)
        BY <1>7, <1>12, <2>1
      <3>2. Calm(o[1])
        BY <1>14, <2>1, OpsTyped
      <3> QED
        BY <1>1, <1>2, <3>1, <3>2, OpCalm DEF Served
    <2>2. CASE o[1] = c
      <3>1. OpOK(e, o) /\ ~Handed(c) /\ at[c] # "dead" /\ Handed(c)' /\ table' = table
        BY <1>2, <1>4 DEF Served, Handed
      <3>2. o \in Pending(e) <=> o \in table[e]
        BY <2>2, <3>1 DEF OpOK, Given
      <3>3. Given(e, o)' <=> e = s /\ o = new
        BY <1>4, <2>2, <3>1 DEF Given, new
      <3>4. o \in Pending(e)' <=> o \in Pending(e) \/ (e = s /\ o = new)
        BY <1>12
      <3>5. o \in Pending(e)' \cup table'[e] => ops'[o[1]] <= o[2]
        <4>1. o = new => ops'[c] <= o[2]
          BY <1>5, <1>6, <1>7, SMTT(30)
        <4> QED
          BY <1>8, <2>2, <3>1, <3>4, <4>1
      <3>6. o = new => o \notin table'[e]
        BY <1>9, <3>1
      <3> QED
        BY <2>2, <3>1, <3>2, <3>3, <3>4, <3>5, <3>6 DEF OpOK, new
    <2> QED
      BY <2>1, <2>2
  <1>16. \A d \in Cos : HandedOK(d)'
    <2>1. HandedOK(c)'
      BY <1>1, <1>2, <1>4 DEF HandedOK, In
    <2> QED
      BY <1>1, <1>14, <2>1, HandedCalm
  <1>17. OwnResults'
    <2>1. \A r \in result : r[1][1] \in Cos
      BY <1>1, SMTT(30) DEF IoType, Ops
    <2>2. \A d \in Cos : at[d] = "dead" => at'[d] = "dead"
      BY <1>2, <1>14 DEF Calm
    <2> QED
      BY <1>2, <2>1, <2>2 DEF Served, OwnResults
  <1> QED
    BY <1>13, <1>15, <1>16, <1>17 DEF Served

\* The operation is entered in the wait table, which had no entry of the
\* coroutine.
LEMMA WaitServed ==
    ASSUME OnceInv, Served, NEW s \in Loops, NEW c \in Cos, NEW l \in {"uring", "limit"}, NEW ts,
           uring_wait(s, c, l, ts), ~panicked'
    PROVE  Served'
  <1>1. /\ BodyType /\ IoType /\ OthersStill(c) /\ co' = co /\ \A d \in Cos : HandedOK(d)
    BY OnceTypes, BodyStill DEF Served
  <1>2. Submitted[l] \in {"uring_wait", "limit_wait"}
    BY SMTT(30) DEF Submitted
  <1>3. /\ Handed(c) /\ at' = [at EXCEPT ![c] = l]
        /\ table' = [table EXCEPT ![home[c]] = {o \in @ : o[1] # c} \cup {Op(c)}]
        /\ UNCHANGED <<inflight, cq, result, home, ops, pc>> /\ ~Occupied(c)
    BY <1>2 DEF uring_wait, At, Handed, GoOn, thread
  <1>4. home[c] \in Loops /\ at[c] # "dead" /\ at'[c] = l
    BY <1>1, <1>3 DEF HandedOK, BodyType, Handed
  <1>5. \A o \in table[home[c]] : o[1] # c
    BY <1>3 DEF Occupied
  <1>6. /\ table'[home[c]] = table[home[c]] \cup {Op(c)}
        /\ \A k \in Loops \ {home[c]} : table'[k] = table[k]
    BY <1>1, <1>3, <1>4, <1>5 DEF IoType
  <1>7. \A k \in Loops : Queued(k)' = Queued(k)
    BY <1>3, SMTT(30) DEF Queued
  <1>8. \A k \in Loops : Pending(k)' = Pending(k) /\ RingOK(k)'
    BY <1>3, <1>7 DEF Served, Pending, RingOK
  <1>9. \A d \in Cos \ {c} : Calm(d)
    BY <1>1, StillCalm DEF OthersStill
  <1>10. Op(c) \in Ops /\ Op(c)[1] = c /\ Op(c)[2] = ops[c]
    BY <1>1, SMTT(30) DEF BodyType, Op, Ops
  <1>11. ops[c] <= ops[c]
    BY <1>1, SMTT(30) DEF BodyType
  <1>12. ASSUME NEW e \in Loops, NEW o \in Ops PROVE OpOK(e, o)'
    <2>1. CASE o[1] # c
      <3>1. Calm(o[1])
        BY <1>9, <2>1, OpsTyped
      <3>2. \A p \in table[e] \cup table'[e] :
              p[1] = o[1] => (p \in table'[e] <=> p \in table[e])
        BY <1>6, <1>10, <2>1
      <3> QED
        BY <1>1, <1>8, <3>1, <3>2, OpCalm DEF Served
    <2>2. CASE o[1] = c
      <3>1. OpOK(e, o) /\ ~Handed(c)' /\ ops' = ops
        BY <1>3, <1>4 DEF Served, Handed
      <3>2. Given(e, o) <=> e = home[c] /\ o = Op(c)
        BY <1>3, <2>2 DEF Given
      <3>3. o \in table'[e] <=> o \in table[e] \/ (e = home[c] /\ o = Op(c))
        BY <1>6
      <3>4. o \in Pending(e)' <=> o \in table'[e]
        BY <1>4, <1>8, <2>2, <3>1, <3>2, <3>3 DEF OpOK
      <3>5. ~Given(e, o)'
        BY <2>2, <3>1 DEF Given
      <3>6. \A p \in table'[e] : p[1] = c => p = o \/ o \notin table'[e]
        <4>1. CASE e = home[c]
          BY <1>5, <1>6, <2>2, <4>1
        <4>2. CASE e # home[c]
          <5>1. table'[e] = table[e]
            BY <1>6, <4>2
          <5> QED
            BY <1>4, <2>2, <3>1, <5>1 DEF OpOK
        <4> QED
          BY <4>1, <4>2
      <3>7. o \in Pending(e)' \cup table'[e] => ops'[o[1]] <= o[2]
        BY <1>8, <1>10, <1>11, <2>2, <3>1, <3>3, <3>4 DEF OpOK
      <3> QED
        BY <2>2, <3>1, <3>4, <3>5, <3>6, <3>7 DEF OpOK
    <2> QED
      BY <2>1, <2>2
  <1>13. \A d \in Cos : HandedOK(d)'
    <2>1. HandedOK(c)'
      BY <1>4 DEF HandedOK, Handed
    <2> QED
      BY <1>1, <1>9, <2>1, HandedCalm
  <1>14. OwnResults'
    <2>1. \A r \in result : r[1][1] \in Cos
      BY <1>1, SMTT(30) DEF IoType, Ops
    <2>2. \A d \in Cos : at[d] = "dead" => at'[d] = "dead"
      BY <1>4, <1>9 DEF Calm
    <2> QED
      BY <1>3, <2>1, <2>2 DEF Served, OwnResults
  <1> QED
    BY <1>8, <1>12, <1>13, <1>14 DEF Served

\* A completion that carries the token of a coroutine that is alive is the one
\* of the operation with which the coroutine waits in the table.
LEMMA CompletionIsOwn ==
    ASSUME IoType, Served, NEW e \in Loops, NEW o \in table[e], NEW p \in Queued(e),
           p[1] = o[1], at[o[1]] # "dead", ~Given(e, p)
    PROVE  p = o
  <1>1. o \in Ops
    BY DEF IoType
  <1>2. p \in Ops
    BY SMTT(30) DEF IoType, Queued
  <1>3. p \in table[e]
    BY <1>2 DEF Served, OpOK, Pending
  <1> QED
    BY <1>1, <1>3 DEF Served, OpOK

\* And the table finds it: the first completion with the token is that one.
LEMMA CompletionFound ==
    ASSUME IoType, Served, NEW e \in Loops, \A p \in Ops : ~Given(e, p),
           NEW o \in table[e], o \in Queued(e), at[o[1]] # "dead"
    PROVE  <<o, o>> \in Results(e)
  <1>1. Queued(e) \subseteq Ops /\ o \in Ops
    BY SMTT(30) DEF IoType, Queued
  <1>2. PICK i \in DOMAIN cq[e] : o = cq[e][i]
    BY DEF Queued
  <1>3. \A j \in DOMAIN cq[e] : cq[e][j] \in Queued(e) /\ (cq[e][j] = cq[e][i] => j = i)
    BY DEF Queued, Served, RingOK
  <1>4. \A j \in DOMAIN cq[e] : cq[e][j][1] = o[1] => j = i
    BY <1>1, <1>2, <1>3, CompletionIsOwn
  <1>5. i \in Nat /\ \A j \in 1 .. i - 1 : j \in DOMAIN cq[e] /\ j # i
    BY SMTT(30) DEF IoType
  <1>6. \A j \in 1 .. i - 1 : cq[e][j][1] # o[1]
    BY <1>4, <1>5
  <1> QED
    BY <1>1, <1>2, <1>6, SMTT(30) DEF Results

\* select(): every result goes to the operation it belongs to.
LEMMA SelectServed ==
    ASSUME OnceInv, Served, NEW s \in Loops, Select(s)
    PROVE  Served'
  <1>1. /\ BodyType /\ IoType /\ \A d \in Cos : HandedOK(d)
        /\ co[s] \notin Cos /\ UNCHANGED <<co, at, home, ops, inflight>>
    BY OnceTypes DEF Served, Select, resume, OnceInv, Seated, body
  <1>2. /\ table' = [table EXCEPT ![s] = Waiters(s)]
        /\ result' = result \cup Results(s)
        /\ cq' = [cq EXCEPT ![s] = <<>>]
    BY DEF Select, resume
  <1>3. /\ table'[s] = Waiters(s) /\ cq'[s] = <<>>
        /\ \A k \in Loops \ {s} : table'[k] = table[k] /\ cq'[k] = cq[k]
    BY <1>1, <1>2 DEF IoType
  <1>4. \A d \in Cos : Calm(d)
    <2>1. ASSUME NEW d \in Cos, Still(d) PROVE Calm(d)
      BY <1>1, <2>1, StillCalm
    <2>2. ASSUME NEW d \in Cos, Woken(s, d) PROVE Calm(d)
      <3>1. ~Handed(d) /\ In(d, "syscall", s)
        BY <1>1, <2>2, NotHanded DEF Woken
      <3>2. ops'[d] \in Int /\ ops'[d] <= ops[d]
        <4>1. ops[d] \in Int /\ ops'[d] = ops[d]
          BY <1>1, SMTT(30) DEF BodyType
        <4> QED
          BY <4>1, SMTT(30)
      <3> QED
        BY <1>1, <3>1, <3>2, MovedCalm DEF Handed, HandedOK
    <2> QED
      BY <2>1, <2>2, SelectMoves
  <1>5. \A o \in Ops : ~Given(s, o) /\ ~Given(s, o)'
    <2>1. ASSUME NEW o \in Ops PROVE ~Given(s, o)
      <3>1. o[1] \in Cos
        BY OpsTyped
      <3> QED
        BY <1>1, <3>1 DEF Given, HandedOK
    <2>2. ASSUME NEW o \in Ops PROVE Given(s, o)' => Given(s, o)
      BY <1>1 DEF Given, Handed, Op
    <2> QED
      BY <2>1, <2>2
  <1>6. Queued(s) \subseteq Ops /\ table[s] \subseteq Ops /\ Waiters(s) \subseteq table[s]
    BY <1>1, SMTT(30) DEF IoType, Queued, Waiters
  <1>7. ASSUME NEW r \in Results(s)
        PROVE  /\ r[1] \in table[s] /\ r[2] \in Queued(s) /\ r[1] \in Ops
               /\ at[r[1][1]] # "dead" => r[1] = r[2]
    <2>1. r[1] \in table[s] /\ r[2] \in Queued(s) /\ r[1][1] = r[2][1]
      BY <1>7, SMTT(30) DEF Results, Queued
    <2> QED
      BY <1>1, <1>5, <1>6, <2>1, CompletionIsOwn
  <1>8. ASSUME NEW o \in table[s], o \in Queued(s), at[o[1]] # "dead"
        PROVE  o \notin Waiters(s)
    <2>1. <<o, o>> \in Results(s) /\ <<o, o>>[1] = o
      BY <1>1, <1>5, <1>8, CompletionFound, OpsTyped
    <2> QED
      BY <2>1 DEF Waiters
  <1>9. Queued(s)' = {} /\ RingOK(s)'
    <2>1. DOMAIN cq'[s] = {}
      BY <1>3, SMTT(30)
    <2>2. Queued(s)' = {}
      BY <2>1, SMTT(30) DEF Queued
    <2> QED
      BY <2>1, <2>2 DEF RingOK
  <1>10. ASSUME NEW o \in Ops PROVE OpOK(s, o)'
    <2>1. o \in Pending(s)' <=> o \in inflight[s]
      BY <1>1, <1>9 DEF Pending
    <2>2. OpOK(s, o) /\ ~Given(s, o) /\ ~Given(s, o)'
      BY <1>5 DEF Served
    <2>3. ASSUME at[o[1]] # "dead" PROVE o \in inflight[s] <=> o \in Waiters(s)
      <3>1. o \in Pending(s) <=> o \in table[s]
        BY <2>2, <2>3 DEF OpOK
      <3>2. ASSUME o \in inflight[s] PROVE o \in Waiters(s)
        <4>1. o \in table[s] /\ o \notin Queued(s)
          BY <3>1, <3>2 DEF Pending, Served, RingOK
        <4>2. \A r \in Results(s) : r[1] # o
          BY <1>7, <2>3, <4>1
        <4> QED
          BY <4>1, <4>2 DEF Waiters
      <3>3. ASSUME o \in Waiters(s) PROVE o \in inflight[s]
        BY <1>6, <1>8, <2>3, <3>1, <3>3 DEF Pending
      <3> QED
        BY <3>2, <3>3
    <2>4. (o \in Pending(s) \cup table[s] => ops[o[1]] <= o[2])'
      BY <1>1, <1>3, <1>6, <2>1, <2>2 DEF OpOK, Pending
    <2>5. (at[o[1]] # "dead" => (o \in Pending(s) <=> o \in table[s] \/ Given(s, o)))'
      BY <1>1, <1>3, <2>1, <2>2, <2>3
    <2>6. (Handed(o[1]) /\ o = Op(o[1]) => o \notin table[s])'
      BY <1>1, <1>3, <1>6, <2>2 DEF OpOK, Handed, Op
    <2>7. (o \in table[s] /\ at[o[1]] # "dead" => \A p \in table[s] : p[1] = o[1] => p = o)'
      BY <1>1, <1>3, <1>6, <2>2 DEF OpOK
    <2> QED
      BY <2>4, <2>5, <2>6, <2>7 DEF OpOK
  <1>11. ASSUME NEW e \in Loops \ {s}
         PROVE  RingOK(e)' /\ \A o \in Ops : OpOK(e, o)'
    <2>1. Queued(e)' = Queued(e)
      BY <1>3, SMTT(30) DEF Queued
    <2>2. RingOK(e)' /\ Pending(e)' = Pending(e)
      BY <1>1, <1>3, <2>1 DEF Served, RingOK, Pending
    <2>3. BodyType /\ table'[e] = table[e]
      BY <1>1, <1>3
    <2>4. ASSUME NEW o \in Ops PROVE OpOK(e, o)'
      <3>1. OpOK(e, o) /\ o[1] \in Cos
        BY OpsTyped DEF Served
      <3>2. Calm(o[1])
        BY <1>4, <3>1
      <3> QED
        BY <2>2, <2>3, <3>1, <3>2, OpCalm
    <2> QED
      BY <2>2, <2>4
  <1>12. \A d \in Cos : HandedOK(d)'
    BY <1>1, <1>4, HandedCalm
  <1>13. OwnResults'
    BY <1>1, <1>2, <1>7 DEF Served, OwnResults
  <1> QED
    BY <1>9, <1>10, <1>11, <1>12, <1>13 DEF Served


\* After a panic the model stops.
LEMMA PanicStops == Next => ~panicked
  <1>1. ASSUME NEW s, NEW c, NEW ts, NEW n, NEW r, NEW l,
               \/ Suspend(s, c) \/ Until(s, c, ts) \/ suspend_with(s, c)
               \/ Enter(s, c, n) \/ Exit(s, c) \/ wait_just(s, c, ts, r) \/ WaitBack(s, c)
               \/ uring_submit(s, c, l) \/ uring_wait(s, c, l, ts) \/ UringBack(s, c)
               \/ LimitBack(s, c) \/ UringResult(s, c) \/ Unreachable(s, c) \/ Finish(s, c, n)
        PROVE  ~panicked
    BY <1>1 DEF Suspend, Until, suspend_with, Enter, Exit, wait_just, WaitBack, uring_submit,
           uring_wait, UringBack, LimitBack, UringResult, Unreachable, Finish, At
  <1>2. ASSUME NEW s, NEW c, NEW o,
               \/ check_ready(s) \/ PopNone(s) \/ Select(s) \/ sigurg_handler(s)
               \/ sigvtalrm_handler(s) \/ DropCancelled(s, c) \/ Resume(s, c)
               \/ YieldRunning(s, c) \/ YieldSyscall(s, c) \/ Tick \/ Submit(c)
               \/ TryCancel(c) \/ Fire(s, c) \/ Preempt(s, c) \/ Completion(s, o)
        PROVE  ~panicked
    BY <1>2 DEF check_ready, PopNone, Select, sigurg_handler, sigvtalrm_handler,
           DropCancelled, Resume, YieldRunning, YieldSyscall, Tick, Submit, TryCancel, Fire,
           Preempt, Completion
  <1>3. ASSUME NEW s, NEW c, Body(s, c) PROVE ~panicked
    BY <1>1, <1>3 DEF Body
  <1>4. ASSUME NEW s, Step(s) PROVE ~panicked
    BY <1>2, <1>3, <1>4 DEF Step
  <1> QED
    BY <1>2, <1>4 DEF Next

\* One step: every operation keeps being served, unless the step panics.
LEMMA ServedStep ==
    ASSUME "nio" \notin Waits, DueInv, Served, Next, ~panicked'
    PROVE  Served'
  <1>0. OnceInv
    BY DEF DueInv
  <1>1. ASSUME NEW s \in Loops, NEW c \in Cos, NEW n, NEW ts, NEW r,
               \/ Suspend(s, c) \/ Until(s, c, ts) \/ suspend_with(s, c) \/ Enter(s, c, n)
               \/ Exit(s, c) \/ UringBack(s, c) \/ LimitBack(s, c) \/ UringResult(s, c)
               \/ wait_just(s, c, ts, r)
        PROVE  Served'
    <2>1. Calm(c) /\ OthersStill(c) /\ UNCHANGED <<inflight, cq, table, result>>
      BY <1>0, <1>1, BodyCalm
    <2>2. \A d \in Cos : Calm(d)
      BY <1>0, <2>1, StillCalm DEF OthersStill, Served
    <2> QED
      BY <1>0, <2>1, <2>2, ServedSame
  <1>2. ASSUME NEW s, NEW c, NEW end,
               \/ Tick
               \/ c \in Cos /\ (Submit(c) \/ TryCancel(c))
               \/ s \in Loops /\ (\/ check_ready(s) \/ PopNone(s)
                                 \/ sigurg_handler(s) \/ sigvtalrm_handler(s))
               \/ s \in Loops /\ c \in Cos
                  /\ (\/ DropCancelled(s, c) \/ Resume(s, c) \/ YieldRunning(s, c)
                      \/ YieldSyscall(s, c) \/ Finish(s, c, end) \/ Fire(s, c) \/ Preempt(s, c))
        PROVE  Served'
    <2>1. (\A d \in Cos : Calm(d)) /\ UNCHANGED <<inflight, cq, table, result>>
      BY <1>2, SchedulingCalm
    <2> QED
      BY <1>0, <2>1, ServedSame
  <1>3. ASSUME NEW s \in Loops, NEW c \in Cos, WaitBack(s, c) \/ Unreachable(s, c)
        PROVE  FALSE
    BY <1>3 DEF WaitBack, Unreachable, At, Served, HandedOK
  <1>4. ASSUME NEW s \in Loops, NEW c \in Cos, Body(s, c) PROVE Served'
    <2>1. ASSUME NEW l \in {"uring", "limit"}, NEW ts,
                 uring_submit(s, c, l) \/ uring_wait(s, c, l, ts)
          PROVE  Served'
      BY <1>0, <2>1, SubmitServed, WaitServed
    <2> QED
      BY <1>1, <1>2, <1>3, <1>4, <2>1 DEF Body
  <1>5. ASSUME NEW s \in Loops, Step(s) PROVE Served'
    <2>1. ASSUME Select(s) PROVE Served'
      BY <1>0, <2>1, SelectServed
    <2>2. ASSUME check_ready(s) \/ PopNone(s) \/ sigurg_handler(s) \/ sigvtalrm_handler(s)
          PROVE  Served'
      BY <1>2, <2>2
    <2>3. ASSUME NEW c \in Cos, \/ DropCancelled(s, c) \/ Resume(s, c)
                                \/ YieldRunning(s, c) \/ YieldSyscall(s, c)
          PROVE  Served'
      BY <1>2, <2>3
    <2> QED
      BY <1>4, <1>5, <2>1, <2>2, <2>3 DEF Step
  <1> QED
    BY <1>0, <1>2, <1>5, CompletionServed DEF Next


\* The inductive invariant for ResultIsOwn.
ServedInv == DueInv /\ (~panicked => Served)

\* It holds initially.
LEMMA ServedInit == Init => Served
  <1> SUFFICES ASSUME Init PROVE Served
    OBVIOUS
  <1>1. \A e \in Loops : cq[e] = <<>> /\ inflight[e] = {} /\ table[e] = {}
    BY DEF Init
  <1>2. \A e \in Loops : Queued(e) = {} /\ DOMAIN cq[e] = {}
    BY <1>1, SMTT(30) DEF Queued
  <1>3. \A c \in Cos : at[c] = "body" /\ ~Handed(c)
    BY DEF Init, Handed
  <1>4. \A e \in Loops : RingOK(e) /\ Pending(e) = {}
    BY <1>1, <1>2 DEF RingOK, Pending
  <1>5. \A e \in Loops, o \in Ops : OpOK(e, o)
    BY <1>1, <1>3, <1>4, OpsTyped DEF OpOK, Given
  <1>6. (\A c \in Cos : HandedOK(c)) /\ OwnResults
    BY <1>3 DEF HandedOK, OwnResults, Init
  <1> QED
    BY <1>4, <1>5, <1>6 DEF Served

\* It is inductive.
LEMMA ServedNext == ASSUME "nio" \notin Waits PROVE ServedInv /\ [Next]_vars => ServedInv'
  <1>1. ASSUME ServedInv, Next PROVE ~panicked' => Served'
    BY <1>1, PanicStops, ServedStep DEF ServedInv
  <1>2. ASSUME ServedInv, UNCHANGED vars PROVE ~panicked' => Served'
    <2> SUFFICES ASSUME ~panicked' PROVE Served'
      OBVIOUS
    <2>1. Served /\ OnceInv /\ UNCHANGED <<inflight, cq, table, result>>
      BY <1>2 DEF ServedInv, DueInv, vars, io
    <2>2. \A d \in Cos : Calm(d)
      BY <1>2, <2>1, AllStillStutter, StillCalm DEF Served
    <2> QED
      BY <2>1, <2>2, ServedSame
  <1> QED
    BY <1>1, <1>2, DueNext DEF ServedInv

\* A coroutine that takes the result of its io_uring operation takes the result
\* of that operation: for any number of event loops, coroutines and operations
\* in flight, with and without time limits, and whatever is cancelled.
THEOREM OwnResult == ASSUME "nio" \notin Waits PROVE Spec => []ResultIsOwn
  <1>1. ServedInv => ResultIsOwn
    <2> SUFFICES ASSUME ServedInv, NEW s \in Loops, NEW c \in Cos, At(s, c, "result"),
                        NEW r \in result, r[1] = Op(c)
                 PROVE  r[2] = r[1]
      BY DEF ResultIsOwn
    <2>1. Op(c)[1] = c
      BY OpsTyped DEF Op
    <2>2. at[c] # "dead" /\ Served /\ r[1][1] = c
      BY <2>1 DEF ServedInv, At
    <2> QED
      BY <2>2 DEF Served, OwnResults
  <1>2. Init => ServedInv
    BY DueInit, ServedInit DEF ServedInv
  <1> QED
    BY <1>1, <1>2, ServedNext, PTL DEF Spec

-----------------------------------------------------------------------------
(* io_uring without time limits: a coroutine comes back from its wait only *)
(* when its operation is done.                                             *)

\* Coroutine c waits with its operation at event loop s.
ParkedAt(c, s) ==
    \/ at[c] = "uring" /\ co[s] = c
    \/ at[c] = "uring_back" /\ co[s] = c /\ pc[s] = "yield"
    \/ at[c] = "uring_back" /\ c \in syscall[s]

\* While it waits its token is valid and the wait table has exactly the
\* operation it has begun last; when it no longer waits the result is there.
UringOK(c) ==
    /\ \A s \in Loops : ParkedAt(c, s) => s = home[c] /\ Op(c) \in table[s] /\ c \in tokens
    /\ \A s \in Loops : \A o \in table[s] : o[1] = c => o = Op(c) /\ ParkedAt(c, s)
    /\ at[c] \in {"uring", "uring_back"} => Answered(c) \/ \E s \in Loops : ParkedAt(c, s)
    /\ Handed(c) => c \in tokens

\* That is so for every coroutine that is alive, and the selector has nothing
\* registered.
Uring ==
    /\ \A e \in Loops : interest[e] = {} /\ events[e] = {}
    /\ \A c \in Cos : at[c] = "dead" \/ UringOK(c)

\* The entries of c in the wait tables stay, and so do its token and results.
Kept(c) ==
    /\ \A s \in Loops : \A o \in table[s] \cup table'[s] :
          o[1] = c => (o \in table'[s] <=> o \in table[s])
    /\ c \in tokens => c \in tokens'
    /\ result \subseteq result'

\* A coroutine waits where it has waited, if at all.
LEMMA SameUring ==
    ASSUME NEW c \in Cos, UringOK(c), Kept(c), at'[c] = at[c], ops'[c] = ops[c],
           home'[c] = home[c], \A s \in Loops : ParkedAt(c, s)' <=> ParkedAt(c, s)
    PROVE  UringOK(c)'
  <1>1. Op(c)' = Op(c) /\ Op(c)[1] = c
    BY OpsTyped DEF Op
  <1>2. Answered(c) => Answered(c)'
    BY <1>1 DEF Answered, Kept
  <1>3. \A s \in Loops : Op(c) \in table[s] => Op(c) \in table'[s]
    BY <1>1 DEF Kept
  <1>4. (\A s \in Loops : ParkedAt(c, s) => s = home[c] /\ Op(c) \in table[s] /\ c \in tokens)'
    BY <1>1, <1>3 DEF UringOK, Kept
  <1>5. (\A s \in Loops : \A o \in table[s] : o[1] = c => o = Op(c) /\ ParkedAt(c, s))'
    BY <1>1 DEF UringOK, Kept
  <1>6. (at[c] \in {"uring", "uring_back"} =>
            Answered(c) \/ \E s \in Loops : ParkedAt(c, s))'
    BY <1>2 DEF UringOK
  <1>7. (Handed(c) => c \in tokens)'
    BY DEF UringOK, Kept, Handed
  <1> QED
    BY <1>4, <1>5, <1>6, <1>7 DEF UringOK

\* In particular one that is still...
LEMMA StillUring ==
    ASSUME NEW c \in Cos, UringOK(c), Still(c), Kept(c)
    PROVE  UringOK(c)'
  <1>1. \A s \in Loops : ParkedAt(c, s)' <=> ParkedAt(c, s)
    BY DEF ParkedAt, Still, Stays
  <1> QED
    BY <1>1, SameUring DEF Still

\* A coroutine that does not wait has no entry in a wait table.
LEMMA FreeUring ==
    ASSUME NEW c \in Cos, UringOK(c), Kept(c), \A s \in Loops : ~ParkedAt(c, s),
           at'[c] \notin {"uring", "uring_back"}, Handed(c)' => c \in tokens'
    PROVE  UringOK(c)'
  <1>1. \A s \in Loops : \A o \in table[s] : o[1] # c
    BY DEF UringOK
  <1>2. \A s \in Loops : \A o \in table'[s] : o[1] # c
    BY <1>1 DEF Kept
  <1>3. \A s \in Loops : ~ParkedAt(c, s)'
    BY DEF ParkedAt
  <1> QED
    BY <1>2, <1>3 DEF UringOK

\* ... when the I/O state stays as it is.
LEMMA KeptSame ==
    ASSUME UNCHANGED <<table, result>>, tokens \subseteq tokens'
    PROVE  \A c \in Cos : Kept(c)
  BY DEF Kept

\* All others are still.
LEMMA OthersUring ==
    ASSUME Uring, NEW c \in Cos, OthersStill(c), \A d \in Cos : d # c => Kept(d),
           at'[c] = "dead" \/ UringOK(c)', UNCHANGED <<interest, events>>
    PROVE  Uring'
  <1>1. \A d \in Cos \ {c} : (at[d] = "dead" \/ UringOK(d))'
    <2> SUFFICES ASSUME NEW d \in Cos \ {c} PROVE at'[d] = "dead" \/ UringOK(d)'
      OBVIOUS
    <2>1. Still(d) /\ Kept(d)
      BY DEF OthersStill
    <2>2. at[d] = "dead" => at'[d] = "dead"
      BY <2>1 DEF Still
    <2> QED
      BY <2>1, <2>2, StillUring DEF Uring
  <1> QED
    BY <1>1 DEF Uring

\* What the stages say of the coroutine that runs on a thread.
LEMMA RunPlaces ==
    ASSUME StageInv, NEW s \in Loops, NEW c \in Cos, co[s] = c
    PROVE  /\ state[c].kind = "Running" => at[c] \notin {"uring", "uring_back"}
           /\ at[c] \in {"uring_back", "nio_back"} /\ pc[s] = "yield" => state[c].call = "Suspend"
           /\ at[c] = "uring" => pc[s] = "run"
  BY DEF StageInv, Stages, StageOK, RunStage, IsCall

\* Where a coroutine is decides at which loops it can wait.
LEMMA NotParked ==
    ASSUME NEW c \in Cos, NEW k, NEW l, k \notin {"run", "syscall"}
    PROVE  /\ In(c, k, l) => \A s \in Loops : ~ParkedAt(c, s)
           /\ In(c, k, l)' => \A s \in Loops : ~ParkedAt(c, s)'
  BY DEF In, ParkedAt

\* A coroutine moves, and waits where it has waited.
LEMMA MovedUring ==
    ASSUME Uring, NEW c \in Cos, OthersStill(c), UNCHANGED <<body, io>>,
           at[c] = "dead" \/ \A s \in Loops : ParkedAt(c, s)' <=> ParkedAt(c, s)
    PROVE  Uring'
  <1>1. \A d \in Cos : Kept(d)
    BY KeptSame DEF io
  <1>2. at'[c] = "dead" \/ UringOK(c)'
    BY <1>1, SameUring DEF Uring, body
  <1> QED
    BY <1>1, <1>2, OthersUring DEF io

\* No coroutine moves.
LEMMA AllUring ==
    ASSUME Uring, \A d \in Cos : Still(d) /\ Kept(d), UNCHANGED <<interest, events>>
    PROVE  Uring'
  <1> SUFFICES ASSUME NEW d \in Cos, at'[d] # "dead" PROVE UringOK(d)'
    BY DEF Uring
  <1> QED
    BY StillUring DEF Uring, Still

-----------------------------------------------------------------------------

\* What a coroutine does by itself.
LEMMA UringBody ==
    ASSUME Waits \subseteq {"uring"}, StageInv, Uring, NEW s \in Loops, NEW c \in Cos, NEW n,
           NEW ts, NEW r,
           \/ Suspend(s, c) \/ Until(s, c, ts) \/ suspend_with(s, c) \/ Enter(s, c, n)
           \/ Exit(s, c) \/ UringBack(s, c) \/ LimitBack(s, c) \/ UringResult(s, c)
           \/ wait_just(s, c, ts, r) \/ Preempt(s, c)
    PROVE  Uring'
  <1>0. OnceInv /\ BodyType /\ ThreadType /\ StageOK(c)
    BY OnceTypes DEF StageInv, DueInv, Stages
  <1>1. /\ In(c, "run", s) /\ In(c, "run", s)' /\ OthersStill(c) /\ pc[s] = "run"
        /\ UNCHANGED <<queues, co>>
    BY <1>0, BodyStill
  <1>2. ~wait_just(s, c, ts, r) /\ ~LimitBack(s, c)
    BY <1>0 DEF wait_just, LimitBack, At, StageOK, StageBase
  <1>3. UNCHANGED io
    BY <1>2 DEF Suspend, Until, suspend_with, Enter, Exit, UringBack, UringResult, Preempt
  <1>4. \A d \in Cos : Kept(d)
    BY <1>3, KeptSame DEF io
  <1>5. CASE /\ at[c] \notin {"uring", "dead"}
             /\ at'[c] \notin {"uring", "uring_back"} /\ ~Handed(c)'
    <2>1. \A e \in Loops : ~ParkedAt(c, e)
      BY <1>1, <1>5 DEF ParkedAt, In
    <2> QED
      BY <1>1, <1>3, <1>4, <1>5, <2>1, FreeUring, OthersUring DEF Uring, io
  <1>6. CASE suspend_with(s, c) /\ at[c] = "uring"
    <2>1. at' = [at EXCEPT ![c] = "uring_back"]
      BY <1>0, <1>6, YieldPlaces DEF BodyType
    <2>2. at'[c] = "uring_back" /\ pc'[s] = "yield" /\ UNCHANGED <<home, ops>>
      BY <1>0, <1>6, <2>1 DEF suspend_with, Goto, BodyType, ThreadType
    <2>3. \A e \in Loops : ParkedAt(c, e) <=> e = s
      BY <1>1, <1>6 DEF ParkedAt, In
    <2>4. \A e \in Loops : ParkedAt(c, e)' <=> e = s
      BY <1>1, <2>2 DEF ParkedAt, In
    <2>5. UringOK(c) /\ Op(c)' = Op(c) /\ ~Handed(c)'
      BY <1>6, <2>2 DEF Uring, Op, Handed
    <2>6. UringOK(c)'
      BY <1>3, <2>2, <2>3, <2>4, <2>5 DEF UringOK, io
    <2> QED
      BY <1>1, <1>3, <1>4, <2>6, OthersUring DEF io
  <1>7. at[c] \notin {"uring", "dead"} \/ (suspend_with(s, c) /\ at[c] = "uring") \/ Preempt(s, c)
    <2>1. suspend_with(s, c) => at[c] \in {"until", "nio", "uring", "limit"}
      BY <1>0, YieldPlaces
    <2> QED
      BY <1>2, <2>1 DEF Suspend, Until, Enter, Exit, UringBack, UringResult, At
  <1>8. CASE Preempt(s, c)
    <2>1. at' = at /\ state[c].kind = "Running" /\ co[s] = c
      BY <1>8 DEF Preempt
    <2>2. DueOnThread(s, c)
      BY <2>1 DEF StageInv, DueInv, Dues, DueOK
    <2>3. at[c] \in {"body", "until", "dead"}
      BY <2>1, <2>2 DEF DueOnThread
    <2>4. CASE at[c] = "dead"
      BY <1>1, <1>3, <1>4, <2>1, <2>4, OthersUring DEF io
    <2>5. CASE at[c] # "dead"
      BY <1>5, <2>1, <2>3, <2>5 DEF Handed
    <2> QED
      BY <2>4, <2>5
  <1>9. CASE ~Preempt(s, c) /\ at[c] \notin {"uring", "dead"}
    <2>1. at'[c] \in {"body", "until", "call", "result", "exit", "nio_back", "limit_back"}
      <3>1. suspend_with(s, c) => at'[c] \in {"body", "nio_back", "limit_back"}
        BY <1>0, <1>9, YieldPlaces
      <3> QED
        BY <1>0, <1>2, <1>9, <3>1 DEF Suspend, Until, Enter, Exit, UringBack, UringResult, GoOn,
           At, BodyType
    <2> QED
      BY <1>5, <1>9, <2>1 DEF Handed
  <1> QED
    BY <1>6, <1>7, <1>8, <1>9

\* An operation is submitted: the coroutine gets its token.
LEMMA UringSubmit ==
    ASSUME OnceInv, Uring, NEW s \in Loops, NEW c \in Cos, NEW l \in {"uring", "limit"},
           uring_submit(s, c, l)
    PROVE  Uring'
  <1>0. BodyType
    BY OnceTypes
  <1>1. /\ In(c, "run", s) /\ OthersStill(c) /\ UNCHANGED <<table, result, interest, events>>
        /\ tokens' = tokens \cup {c} /\ at[c] = "call" /\ at' = [at EXCEPT ![c] = Submitted[l]]
    BY BodyStill DEF uring_submit, At, GoOn
  <1>2. at'[c] \in {"uring_wait", "limit_wait"}
    <2>1. Submitted[l] \in {"uring_wait", "limit_wait"}
      BY SMTT(30) DEF Submitted
    <2> QED
      BY <1>0, <1>1, <2>1 DEF BodyType
  <1>3. \A d \in Cos : Kept(d)
    BY <1>1, KeptSame
  <1>4. UringOK(c) /\ \A e \in Loops : ~ParkedAt(c, e)
    BY <1>1 DEF Uring, ParkedAt
  <1>5. UringOK(c)'
    BY <1>1, <1>2, <1>3, <1>4, FreeUring
  <1> QED
    BY <1>1, <1>3, <1>5, OthersUring

\* The operation is entered in the wait table: there is no entry yet.
LEMMA UringWait ==
    ASSUME StageInv, Served, Uring, NEW s \in Loops, NEW c \in Cos,
           NEW l \in {"uring", "limit"}, NEW ts, uring_wait(s, c, l, ts)
    PROVE  Uring' /\ ~panicked'
  <1>0. OnceInv /\ BodyType /\ IoType /\ HandedOK(c) /\ StageOK(c)
    BY OnceTypes DEF StageInv, DueInv, Served, Stages
  <1>1. /\ In(c, "run", s) /\ In(c, "run", s)' /\ OthersStill(c)
    BY <1>0, BodyStill
  <1>2. Submitted["uring"] = "uring_wait" /\ Submitted["limit"] = "limit_wait"
    BY SMTT(30) DEF Submitted
  <1>3. l = "uring" /\ at[c] = "uring_wait"
    BY <1>0, <1>2 DEF uring_wait, At, StageOK, StageBase
  <1>4. /\ at' = [at EXCEPT ![c] = "uring"] /\ panicked' = Occupied(c)
        /\ table' = [table EXCEPT ![home[c]] = {o \in @ : o[1] # c} \cup {Op(c)}]
        /\ UNCHANGED <<tokens, result, interest, events, home, ops>>
    BY <1>3 DEF uring_wait, GoOn
  <1>5. home[c] = s
    BY <1>0, <1>1, <1>3 DEF HandedOK, Handed, In
  <1>6. UringOK(c) /\ (\A e \in Loops : ~ParkedAt(c, e)) /\ c \in tokens
    BY <1>3 DEF Uring, ParkedAt, UringOK, Handed
  <1>7. \A e \in Loops : \A o \in table[e] : o[1] # c
    BY <1>6 DEF UringOK
  <1>8. ~panicked'
    BY <1>4, <1>5, <1>7 DEF Occupied
  <1>9. /\ table'[s] = table[s] \cup {Op(c)}
        /\ \A k \in Loops \ {s} : table'[k] = table[k]
    BY <1>0, <1>4, <1>5, <1>7 DEF IoType
  <1>10. Op(c)[1] = c /\ Op(c)' = Op(c) /\ at'[c] = "uring" /\ home'[c] = s
    BY <1>0, <1>4, <1>5, OpsTyped DEF Op, BodyType
  <1>11. \A e \in Loops : ParkedAt(c, e)' <=> e = s
    BY <1>1, <1>10 DEF ParkedAt, In
  <1>12. \A e \in Loops : \A o \in table'[e] : o[1] = c => o = Op(c) /\ e = s
    BY <1>7, <1>9
  <1>13. UringOK(c)'
    <2>1. (\A e \in Loops : ParkedAt(c, e) => e = home[c] /\ Op(c) \in table[e] /\ c \in tokens)'
      BY <1>4, <1>6, <1>9, <1>10, <1>11
    <2>2. (\A e \in Loops : \A o \in table[e] : o[1] = c => o = Op(c) /\ ParkedAt(c, e))'
      BY <1>10, <1>11, <1>12
    <2> QED
      BY <1>10, <1>11, <2>1, <2>2 DEF UringOK, Handed
  <1>14. \A d \in Cos : d # c => Kept(d)
    BY <1>4, <1>9, <1>10 DEF Kept
  <1> QED
    BY <1>1, <1>4, <1>8, <1>13, <1>14, OthersUring

\* Coroutines are handed from queue to queue.
LEMMA UringMoves ==
    ASSUME StageInv, Uring, NEW s \in Loops, NEW c \in Cos, NEW end,
           \/ DropCancelled(s, c) \/ Resume(s, c)
           \/ YieldRunning(s, c) \/ YieldSyscall(s, c) \/ Finish(s, c, end)
    PROVE  Uring'
  <1>0. OnceInv /\ ThreadType /\ StageOK(c) /\ DueOK(c)
    BY OnceTypes DEF StageInv, DueInv, Stages, Dues
  <1>1. UNCHANGED <<body, io>>
    BY DEF DropCancelled, Resume, YieldRunning, YieldSyscall, Finish
  <1>3. CASE DropCancelled(s, c)
    <2>1. In(c, "ready", NoCo) /\ In(c, "dropped", NoCo)' /\ OthersStill(c)
      BY <1>0, <1>3, DropMoves
    <2> QED
      BY <1>1, <2>1, NotParked, MovedUring
  <1>4. CASE Resume(s, c)
    <2>1. /\ In(c, "ready", NoCo) /\ OthersStill(c)
          /\ In(c, "dropped", NoCo)' \/ (In(c, "run", s)' /\ pc'[s] = "run")
      <3>1. CanRun(state[c], now) => pc'[s] = "run"
        BY <1>0, <1>4 DEF Resume, Goto, ThreadType
      <3> QED
        BY <1>0, <1>4, <3>1, ResumeMoves
    <2>2. ReadyStage(c)
      BY <1>0, <2>1 DEF StageOK, In
    <2>3. at'[c] # "uring"
      BY <1>1, <2>2 DEF ReadyStage, body
    <2>4. \A e \in Loops : ~ParkedAt(c, e)'
      <3>1. CASE In(c, "dropped", NoCo)'
        BY <3>1, NotParked
      <3>2. CASE In(c, "run", s)' /\ pc'[s] = "run"
        BY <2>3, <3>2 DEF ParkedAt, In
      <3> QED
        BY <2>1, <3>1, <3>2
    <2>5. \A e \in Loops : ~ParkedAt(c, e)
      BY <2>1, NotParked
    <2> QED
      BY <1>1, <2>1, <2>4, <2>5, MovedUring
  <1>5. CASE YieldRunning(s, c)
    <2>1. OthersStill(c) /\ co[s] = c /\ state[c].kind = "Running"
      BY <1>0, <1>5, YieldRunningMoves DEF YieldRunning
    <2>2. at[c] \notin {"uring", "uring_back"} /\ at' = at
      BY <1>1, <2>1, RunPlaces DEF body
    <2>3. \A e \in Loops : ~ParkedAt(c, e) /\ ~ParkedAt(c, e)'
      BY <2>2 DEF ParkedAt
    <2> QED
      BY <1>1, <2>1, <2>3, MovedUring
  <1>6. CASE YieldSyscall(s, c)
    <2>1. In(c, "run", s) /\ In(c, "syscall", s)' /\ OthersStill(c) /\ pc[s] = "yield" /\ co[s] = c
      BY <1>0, <1>6, YieldSyscallMoves DEF YieldSyscall
    <2>2. at[c] # "uring" /\ at' = at
      BY <1>1, <2>1, RunPlaces DEF body
    <2>3. \A e \in Loops : ParkedAt(c, e) <=> at[c] = "uring_back" /\ e = s
      BY <2>1, <2>2, SMTT(30) DEF ParkedAt, In
    <2>4. \A e \in Loops : ParkedAt(c, e)' <=> at[c] = "uring_back" /\ e = s
      BY <2>1, <2>2 DEF ParkedAt, In
    <2> QED
      BY <1>1, <2>1, <2>3, <2>4, MovedUring
  <1>7. CASE Finish(s, c, end)
    <2>1. OthersStill(c) /\ at[c] = "body" /\ at' = at
      BY <1>0, <1>1, <1>7, FinishMoves DEF Finish, At, body
    <2>2. \A e \in Loops : ~ParkedAt(c, e) /\ ~ParkedAt(c, e)'
      BY <2>1 DEF ParkedAt
    <2> QED
      BY <1>1, <2>1, <2>2, MovedUring
  <1> QED
    BY <1>3, <1>4, <1>5, <1>6, <1>7

\* No timer ends a wait.
LEMMA UringCheck ==
    ASSUME StageInv, Uring, NEW s \in Loops, check_ready(s)
    PROVE  Uring'
  <1>1. OnceInv /\ StateType /\ UNCHANGED <<body, io>>
    BY OnceTypes DEF StageInv, DueInv, check_ready
  <1>2. \A d \in Cos : Kept(d)
    BY <1>1, KeptSame DEF io
  <1>3. ASSUME NEW d \in Cos, UringOK(d) PROVE UringOK(d)'
    <2>1. CASE Still(d)
      BY <1>2, <1>3, <2>1, StillUring
    <2>2. CASE In(d, "suspend", s) /\ In(d, "ready", NoCo)'
      BY <1>1, <1>2, <1>3, <2>2, NotParked, SameUring DEF body
    <2>3. CASE \E t \in timers[s] : t[1] <= now
      <3>1. "uring" \notin Waits
        BY <1>1, <2>3, NoTimeout DEF StageInv, Stages
      <3>2. at[d] \notin {"uring", "uring_back"} /\ at' = at
        BY <1>1, <3>1 DEF StageInv, Stages, StageOK, StageBase, body
      <3>3. \A e \in Loops : ~ParkedAt(d, e) /\ ~ParkedAt(d, e)'
        BY <3>2 DEF ParkedAt
      <3> QED
        BY <1>1, <1>2, <1>3, <3>3, SameUring DEF body
    <2> QED
      BY <1>1, <2>1, <2>2, <2>3, CheckMoves
  <1> QED
    BY <1>1, <1>3 DEF Uring, body, io

\* A signal preempts or cancels the coroutine of the thread.
LEMMA UringSignal ==
    ASSUME StageInv, Uring, NEW s \in Loops, sigurg_handler(s) \/ sigvtalrm_handler(s)
    PROVE  Uring'
  <1>0. OnceInv /\ ThreadType /\ BodyType
    BY OnceTypes DEF StageInv, DueInv
  <1>1. /\ \A d \in Cos : co[s] # d => Still(d)
        /\ UNCHANGED <<queues, co, state, home, ops, io>> /\ \A d \in Cos : Stays(d)
    BY <1>0, SignalStill DEF sigurg_handler, sigvtalrm_handler
  <1>2. \A d \in Cos : Kept(d)
    BY <1>1, KeptSame DEF io
  <1>3. CASE co[s] \notin Cos
    BY <1>1, <1>2, <1>3, AllUring DEF io
  <1>4. ASSUME NEW c \in Cos, c = co[s], sigvtalrm_handler(s), pc[s] = "run"
        PROVE  Uring'
    <2>1. OthersStill(c) /\ at'[c] = "dead"
      BY <1>0, <1>1, <1>4 DEF sigvtalrm_handler, GoOn, BodyType, OthersStill
    <2> QED
      BY <1>1, <1>2, <1>4, <2>1, OthersUring DEF io
  <1>5. ASSUME NEW c \in Cos, c = co[s], ~(sigvtalrm_handler(s) /\ pc[s] = "run")
        PROVE  Uring'
    <2>1. UNCHANGED <<body, io>> /\ OthersStill(c)
      BY <1>1, <1>5 DEF sigurg_handler, sigvtalrm_handler, body, OthersStill
    <2>2. \/ UNCHANGED pc
          \/ state[c].kind = "Running"
      BY <1>5 DEF sigurg_handler, sigvtalrm_handler, Preemptible
    <2>3. CASE UNCHANGED pc
      <3>1. \A e \in Loops : ParkedAt(c, e)' <=> ParkedAt(c, e)
        BY <1>1, <2>1, <2>3 DEF ParkedAt, queues, body
      <3> QED
        BY <1>5, <2>1, <3>1, MovedUring
    <2>4. CASE state[c].kind = "Running"
      <3>1. at[c] \notin {"uring", "uring_back"} /\ at' = at
        BY <1>5, <2>1, <2>4, RunPlaces DEF body
      <3>2. \A e \in Loops : ~ParkedAt(c, e) /\ ~ParkedAt(c, e)'
        BY <1>1, <3>1 DEF ParkedAt
      <3> QED
        BY <1>5, <2>1, <3>2, MovedUring
    <2> QED
      BY <2>2, <2>3, <2>4
  <1> QED
    BY <1>3, <1>4, <1>5

\* select(): whose operation is done finds the coroutine waiting, stores the
\* result and wakes it.
LEMMA UringSelect ==
    ASSUME OnceInv, Served, Uring, NEW s \in Loops, Select(s)
    PROVE  Uring'
  <1>1. /\ IoType /\ \A d \in Cos : HandedOK(d)
        /\ co[s] \notin Cos /\ UNCHANGED <<co, at, home, ops, interest>>
    BY OnceTypes DEF Served, Select, resume, OnceInv, Seated, body
  <1>2. /\ table' = [table EXCEPT ![s] = Waiters(s)]
        /\ result' = result \cup Results(s)
        /\ tokens' = tokens \ Reported(s)
        /\ events' = [events EXCEPT ![s] = {}]
    BY DEF Select, resume
  <1>3. /\ table'[s] = Waiters(s) /\ \A k \in Loops \ {s} : table'[k] = table[k]
        /\ \A e \in Loops : interest'[e] = {} /\ events'[e] = {}
    BY <1>1, <1>2 DEF IoType, Uring
  <1>4. \A o \in Ops : ~Given(s, o)
    BY <1>1, OpsTyped, SMTT(30) DEF Given, HandedOK
  <1>5. \A d : d \in Reported(s) <=> \E p \in Queued(s) : p[1] = d
    <2>1. events[s] = {}
      BY DEF Uring
    <2> QED
      BY <2>1 DEF Reported, Queued
  <1>6. Queued(s) \subseteq Ops
    BY <1>1, SMTT(30) DEF IoType, Queued
  <1>7. ASSUME NEW d \in Cos, UringOK(d), d \notin Reported(s) PROVE UringOK(d)'
    <2>1. Still(d)
      BY <1>7, SelectMoves DEF Woken
    <2>2. \A r \in Results(s) : r[1][1] # d
      <3>1. \A r \in Results(s) : r[2] \in Queued(s) /\ r[1][1] = r[2][1]
        BY SMTT(30) DEF Results, Queued
      <3> QED
        BY <1>5, <1>7, <3>1
    <2>3. \A o \in table[s] : o[1] = d => o \in Waiters(s)
      BY <2>2 DEF Waiters
    <2>4. Waiters(s) \subseteq table[s]
      BY DEF Waiters
    <2>5. Kept(d)
      <3>1. \A e \in Loops : \A o \in table[e] \cup table'[e] :
                o[1] = d => (o \in table'[e] <=> o \in table[e])
        BY <1>3, <2>3, <2>4
      <3> QED
        BY <1>2, <1>7, <3>1 DEF Kept
    <2> QED
      BY <1>7, <2>1, <2>5, StillUring
  <1>8. ASSUME NEW d \in Cos, UringOK(d), d \in Reported(s), at[d] # "dead" PROVE UringOK(d)'
    <2>1. PICK p \in Queued(s) : p[1] = d
      BY <1>5, <1>8
    <2>2. p \in table[s]
      BY <1>4, <1>6, <1>8, <2>1 DEF Served, OpOK, Pending
    <2>3. p = Op(d) /\ ParkedAt(d, s) /\ s = home[d] /\ d \in tokens
      BY <1>8, <2>1, <2>2 DEF UringOK
    <2>4. at[d] = "uring_back" /\ d \in syscall[s]
      BY <1>1, <2>3 DEF ParkedAt
    <2>5. In(d, "ready", NoCo)'
      BY <1>8, <2>3, <2>4, SelectMoves DEF Woken
    <2>6. <<p, p>> \in Results(s) /\ <<p, p>>[1] = p
      BY <1>1, <1>4, <1>8, <2>1, <2>2, CompletionFound, OpsTyped
    <2>7. Answered(d)'
      <3>1. Op(d)' = p
        BY <1>1, <2>3 DEF Op
      <3> QED
        BY <1>2, <2>6, <3>1 DEF Answered
    <2>8. \A e \in Loops : \A o \in table'[e] : o[1] # d
      <3>1. p \notin Waiters(s)
        BY <2>6 DEF Waiters
      <3>2. \A o \in Waiters(s) : o \in table[s]
        BY DEF Waiters
      <3>3. \A e \in Loops : \A o \in table[e] : o[1] = d => o = p /\ e = s
        BY <1>8, <2>3 DEF UringOK
      <3> QED
        BY <1>3, <3>1, <3>2, <3>3, SMTT(30)
    <2>9. ~Handed(d)' /\ \A e \in Loops : ~ParkedAt(d, e)'
      BY <1>1, <2>4, <2>5, NotParked DEF Handed
    <2> QED
      BY <2>7, <2>8, <2>9 DEF UringOK
  <1> QED
    BY <1>1, <1>3, <1>7, <1>8 DEF Uring

\* One step of a build that only waits with io_uring, without time limits.
LEMMA UringStep ==
    ASSUME Waits \subseteq {"uring"}, StageInv, Served, Uring, Next, ~panicked'
    PROVE  Uring'
  <1>0. OnceInv
    BY DEF StageInv, DueInv
  <1>1. ASSUME NEW s \in Loops, NEW c \in Cos, Body(s, c) PROVE Uring'
    <2>1. ASSUME NEW n, NEW ts, NEW r,
                 \/ Suspend(s, c) \/ Until(s, c, ts) \/ suspend_with(s, c) \/ Enter(s, c, n)
                 \/ Exit(s, c) \/ UringBack(s, c) \/ LimitBack(s, c) \/ UringResult(s, c)
                 \/ wait_just(s, c, ts, r)
          PROVE  Uring'
      BY <2>1, UringBody
    <2>2. ASSUME NEW l \in {"uring", "limit"}, NEW ts,
                 uring_submit(s, c, l) \/ uring_wait(s, c, l, ts)
          PROVE  Uring'
      BY <1>0, <2>2, UringSubmit, UringWait
    <2>3. ASSUME NEW end, Finish(s, c, end) PROVE Uring'
      BY <2>3, UringMoves
    <2>4. ~WaitBack(s, c) /\ ~Unreachable(s, c)
      BY DEF WaitBack, Unreachable, At, Served, HandedOK
    <2> QED
      BY <1>1, <2>1, <2>2, <2>3, <2>4 DEF Body
  <1>2. ASSUME NEW s, NEW c, NEW o,
               \/ s \in Loops /\ (PopNone(s) \/ Completion(s, o))
               \/ TryCancel(c) \/ Tick
        PROVE  Uring'
    <2>1. \A d \in Cos : Still(d)
      BY <1>0, <1>2, AllStill, CancelStill
    <2>2. UNCHANGED <<tokens, table, result, interest, events>>
      BY <1>2 DEF PopNone, Completion, TryCancel, Tick, io
    <2>3. \A d \in Cos : Kept(d)
      BY <2>2, KeptSame
    <2> QED
      BY <2>1, <2>2, <2>3, AllUring
  <1>3. ASSUME NEW s \in Loops, Step(s) PROVE Uring'
    <2>1. ASSUME NEW c \in Cos, \/ DropCancelled(s, c) \/ Resume(s, c)
                                \/ YieldRunning(s, c) \/ YieldSyscall(s, c)
          PROVE  Uring'
      BY <2>1, UringMoves
    <2> QED
      BY <1>0, <1>1, <1>2, <1>3, <2>1, UringCheck, UringSelect, UringSignal DEF Step
  <1>4. ASSUME NEW s \in Loops, NEW c \in Cos, Fire(s, c) PROVE FALSE
    BY <1>4 DEF Fire, Uring
  <1>5. ASSUME NEW s \in Loops, NEW c \in Cos, Preempt(s, c) PROVE Uring'
    BY <1>5, UringBody
  <1>6. ASSUME NEW c \in Cos, Submit(c) PROVE Uring'
    <2>1. In(c, "fresh", NoCo) /\ In(c, "ready", NoCo)' /\ OthersStill(c)
      BY <1>0, <1>6, SubmitMoves
    <2>2. UNCHANGED <<body, io>>
      BY <1>6 DEF Submit
    <2> QED
      BY <2>1, <2>2, NotParked, MovedUring
  <1> QED
    BY <1>2, <1>3, <1>4, <1>5, <1>6 DEF Next

\* Initially nobody waits.
LEMMA UringInit == Init => Uring
  <1> SUFFICES ASSUME Init PROVE Uring
    OBVIOUS
  <1>1. \A e \in Loops : interest[e] = {} /\ events[e] = {} /\ table[e] = {}
    BY DEF Init
  <1>2. \A c \in Cos : at[c] = "body" /\ UringOK(c)
    BY <1>1 DEF Init, UringOK, ParkedAt, Handed
  <1> QED
    BY <1>1, <1>2 DEF Uring

\* The inductive invariant for UringDoneOnReturn.
UringInv == StageInv /\ (~panicked => Served /\ Uring)

\* It is inductive.
LEMMA UringNext ==
    ASSUME Waits \subseteq {"uring"} PROVE UringInv /\ [Next]_vars => UringInv'
  <1>0. "nio" \notin Waits /\ OneWait
    BY DEF OneWait
  <1>1. ASSUME UringInv, [Next]_vars PROVE ~panicked' => Served'
    <2>1. ServedInv
      BY <1>1 DEF UringInv, StageInv, ServedInv
    <2>2. ServedInv'
      BY <1>0, <1>1, <2>1, ServedNext
    <2> QED
      BY <2>2 DEF ServedInv
  <1>2. ASSUME UringInv, Next PROVE ~panicked' => Uring'
    BY <1>2, PanicStops, UringStep DEF UringInv
  <1>3. ASSUME UringInv, UNCHANGED vars PROVE ~panicked' => Uring'
    <2>1. UNCHANGED io /\ panicked' = panicked
      BY <1>3 DEF vars
    <2>2. \A d \in Cos : Kept(d)
      BY <2>1, KeptSame DEF io
    <2> QED
      BY <1>3, <2>1, <2>2, AllStillStutter, AllUring DEF UringInv, io
  <1> QED
    BY <1>0, <1>1, <1>2, <1>3, StageNext DEF UringInv

\* When a coroutine comes back from the suspend() of an io_uring call without a
\* limit its operation has been executed and the result is there: nothing but
\* the completion resumes it.
THEOREM DoneOnReturn ==
    ASSUME Waits \subseteq {"uring"} PROVE Spec => []UringDoneOnReturn
  <1>1. UringInv => UringDoneOnReturn
    <2> SUFFICES ASSUME UringInv, NEW s \in Loops, NEW c \in Cos, At(s, c, "uring_back")
                 PROVE  Answered(c)
      BY DEF UringDoneOnReturn
    <2>1. UringOK(c) /\ at[c] = "uring_back" /\ co[s] = c /\ pc[s] = "run" /\ OnceInv
      BY DEF UringInv, Uring, At, StageInv, DueInv
    <2>2. In(c, "run", s)
      BY <2>1, OnceTypes, InRun
    <2>3. \A e \in Loops : ~ParkedAt(c, e)
      BY <2>1, <2>2 DEF ParkedAt, In
    <2> QED
      BY <2>1, <2>3 DEF UringOK
  <1>2. Init => UringInv
    BY StageInit, ServedInit, UringInit DEF UringInv
  <1> QED
    BY <1>1, <1>2, UringNext, PTL DEF Spec

\* Only waking, entering the wait table and the unreachable!() can panic.
LEMMA PanicStep ==
    ASSUME NEW s, NEW c, NEW ts, NEW n, NEW r, NEW l, NEW o,
           \/ Suspend(s, c) \/ Until(s, c, ts) \/ suspend_with(s, c)
           \/ Enter(s, c, n) \/ Exit(s, c) \/ wait_just(s, c, ts, r)
           \/ uring_submit(s, c, l) \/ UringBack(s, c)
           \/ LimitBack(s, c) \/ UringResult(s, c) \/ Finish(s, c, n)
           \/ PopNone(s) \/ sigurg_handler(s)
           \/ sigvtalrm_handler(s) \/ DropCancelled(s, c) \/ Resume(s, c)
           \/ YieldRunning(s, c) \/ YieldSyscall(s, c) \/ Tick \/ Submit(c)
           \/ TryCancel(c) \/ Fire(s, c) \/ Preempt(s, c) \/ Completion(s, o)
    PROVE  panicked' = panicked
  BY DEF Suspend, Until, suspend_with, Enter, Exit, wait_just, uring_submit, UringBack,
     LimitBack, UringResult, Finish, PopNone, sigurg_handler, sigvtalrm_handler,
     DropCancelled, Resume, YieldRunning, YieldSyscall, Tick, Submit, TryCancel, Fire,
     Preempt, Completion

\* The assertions of check_ready() and try_resume() hold: whoever is in the
\* syscall table is in a call, and suspended.
LEMMA WakingCalm ==
    ASSUME WakeInv, "SIGVTALRM" \notin Signals, NEW s \in Loops, NEW c,
           check_ready(s) \/ Select(s) \/ (c \in Cos /\ WaitBack(s, c))
    PROVE  ~panicked'
  <1>0. OnceInv /\ QueueType
    BY OnceTypes DEF WakeInv, StageInv, DueInv
  <1>1. \A e \in Loops : \A d \in syscall[e] : IsCall(state[d], "Suspend")
    BY TableWakes
  <1>2. ASSUME NEW e \in Loops, NEW st, resume(e, st), \A d \in syscall[e] : st[d] = state[d]
        PROVE  ~panicked'
    BY <1>1, <1>2 DEF resume
  <1>3. CASE check_ready(s)
    BY <1>1, <1>3 DEF check_ready
  <1>4. CASE Select(s)
    BY <1>2, <1>4 DEF Select
  <1>5. CASE c \in Cos /\ WaitBack(s, c)
    <2>1. In(c, "run", s) /\ home[c] \in Loops
      BY <1>0, <1>5, WaitBackMoves
    <2>2. \A d \in syscall[home[c]] : d # c /\ d \in Cos
      BY <1>0, <2>1 DEF In, QueueType
    <2>3. StateType
      BY <1>0, OnceTypes
    <2>4. \A d \in syscall[home[c]] :
             [state EXCEPT ![c] = Back(@, {"Callback", "Timeout"})][d] = state[d]
      BY <2>2, <2>3 DEF StateType
    <2> QED
      BY <1>2, <1>5, <2>1, <2>4 DEF WaitBack
  <1> QED
    BY <1>3, <1>4, <1>5

\* The inductive invariant for NoPanic.
CalmInv == WakeInv /\ ~panicked /\ (Waits \subseteq {"uring"} => Served /\ Uring)

\* No step panics.
LEMMA CalmStep ==
    ASSUME OneWait, "SIGVTALRM" \notin Signals, CalmInv, Next
    PROVE  ~panicked'
  <1>0. WakeInv /\ ~panicked /\ StageInv
    BY DEF CalmInv, WakeInv
  <1>1. ASSUME NEW s \in Loops, NEW c \in Cos, Body(s, c) PROVE ~panicked'
    <2>1. ~Unreachable(s, c)
      BY <1>0 DEF Unreachable, At, WakeInv, NoDead
    <2>2. ASSUME NEW l \in {"uring", "limit"}, NEW ts, uring_wait(s, c, l, ts) PROVE ~panicked'
      <3>1. Submitted["uring"] = "uring_wait" /\ Submitted["limit"] = "limit_wait"
        BY SMTT(30) DEF Submitted
      <3>2. at[c] \in {"uring_wait", "limit_wait"}
        BY <2>2, <3>1 DEF uring_wait, At
      <3>3. "uring" \in Waits
        BY <1>0, <3>2 DEF StageInv, Stages, StageOK, StageBase
      <3>4. Served /\ Uring
        BY <3>3 DEF OneWait, CalmInv
      <3> QED
        BY <1>0, <2>2, <3>4, UringWait
    <2> QED
      BY <1>0, <1>1, <2>1, <2>2, PanicStep, WakingCalm DEF Body
  <1>2. ASSUME NEW s \in Loops, Step(s) PROVE ~panicked'
    BY <1>0, <1>1, <1>2, PanicStep, WakingCalm DEF Step
  <1> QED
    BY <1>0, <1>2, PanicStep DEF Next

\* No assert! and no unreachable! is hit.
THEOREM NeverPanics ==
    ASSUME OneWait, "SIGVTALRM" \notin Signals PROVE Spec => []NoPanic
  <1>1. CalmInv => NoPanic
    BY DEF CalmInv, NoPanic
  <1>2. Init => CalmInv
    BY WakeInit, ServedInit, UringInit DEF CalmInv, Init
  <1>3. CalmInv /\ [Next]_vars => CalmInv'
    <2> SUFFICES ASSUME CalmInv, [Next]_vars PROVE CalmInv'
      OBVIOUS
    <2>1. ~panicked'
      <3>1. UNCHANGED vars => panicked' = panicked
        BY DEF vars
      <3> QED
        BY <3>1, CalmStep DEF CalmInv
    <2>2. WakeInv'
      BY WakeNext DEF CalmInv
    <2>3. ASSUME Waits \subseteq {"uring"} PROVE Served' /\ Uring'
      <3>1. UringInv
        BY <2>3 DEF CalmInv, WakeInv, UringInv
      <3>2. UringInv'
        BY <2>3, <3>1, UringNext
      <3> QED
        BY <2>1, <3>2 DEF UringInv
    <2> QED
      BY <2>1, <2>2, <2>3 DEF CalmInv
  <1> QED
    BY <1>1, <1>2, <1>3, PTL DEF Spec

-----------------------------------------------------------------------------
(* Each coroutine is in one place.                                         *)

INSTANCE FiniteSetTheorems

\* One place is one owner.
LEMMA OneOwner == ASSUME Once, NEW c \in Cos PROVE Cardinality(Owners(c)) = 1
  <1>1. PICK k \in Spots, l \in Loops \cup {NoCo} : In(c, k, l)
    BY DEF Once, InOne
  <1>2. \E o : Owners(c) = {o}
    <2>1. /\ {c} \cap fresh = IF k = "fresh" THEN {c} ELSE {}
          /\ {c} \cap ready = IF k = "ready" THEN {c} ELSE {}
          /\ {c} \cap finished = IF k = "finished" THEN {c} ELSE {}
          /\ {c} \cap dropped = IF k = "dropped" THEN {c} ELSE {}
      BY <1>1, SMTT(30) DEF In
    <2>2. /\ {s \in Loops : co[s] = c} = IF k = "run" THEN {l} ELSE {}
          /\ {s \in Loops : c \in suspend[s]} = IF k = "suspend" THEN {l} ELSE {}
          /\ {s \in Loops : c \in syscall[s]} = IF k = "syscall" THEN {l} ELSE {}
      BY <1>1, SMTT(30) DEF In
    <2>3. \A x, y : ({x} \X {y}) = {<<x, y>>} /\ ({} \X {y}) = {}
      BY SMTT(30)
    <2>4. CASE k = "fresh"
      <3>1. Owners(c) = {<<c, "fresh">>}
        BY <2>1, <2>2, <2>3, <2>4, SMTT(30) DEF Owners
      <3> QED
        BY <3>1
    <2>5. CASE k = "ready"
      <3>1. Owners(c) = {<<c, "ready">>}
        BY <2>1, <2>2, <2>3, <2>5, SMTT(30) DEF Owners
      <3> QED
        BY <3>1
    <2>6. CASE k = "finished"
      <3>1. Owners(c) = {<<c, "finished">>}
        BY <2>1, <2>2, <2>3, <2>6, SMTT(30) DEF Owners
      <3> QED
        BY <3>1
    <2>7. CASE k = "dropped"
      <3>1. Owners(c) = {<<c, "dropped">>}
        BY <2>1, <2>2, <2>3, <2>7, SMTT(30) DEF Owners
      <3> QED
        BY <3>1
    <2>8. CASE k = "run"
      <3>1. Owners(c) = {<<l, "run">>}
        BY <2>1, <2>2, <2>3, <2>8, SMTT(30) DEF Owners
      <3> QED
        BY <3>1
    <2>9. CASE k = "suspend"
      <3>1. Owners(c) = {<<l, "suspend">>}
        BY <2>1, <2>2, <2>3, <2>9, SMTT(30) DEF Owners
      <3> QED
        BY <3>1
    <2>10. CASE k = "syscall"
      <3>1. Owners(c) = {<<l, "syscall">>}
        BY <2>1, <2>2, <2>3, <2>10, SMTT(30) DEF Owners
      <3> QED
        BY <3>1
    <2> QED
      BY <2>4, <2>5, <2>6, <2>7, <2>8, <2>9, <2>10 DEF Spots
  <1> QED
    BY <1>2, FS_Singleton

\* do_schedule, check_ready and try_resume hand a coroutine on by value: it is
\* in exactly one place, for any number of threads and coroutines, all kinds of
\* waits, and all signals.
THEOREM CoroutineOnce == Spec => []EachCoroutineOnce
  <1>1. OnceInv => EachCoroutineOnce
    BY OneOwner DEF OnceInv, EachCoroutineOnce
  <1> QED
    BY <1>1, OnceInit, OnceNext, PTL DEF Spec
=============================================================================
