----------------------------- MODULE TimedCalls -----------------------------
(***************************************************************************)
(* The hooked calls that wait for time to pass or for another thread:      *)
(* sleep, usleep, nanosleep and Sleep; poll, WSAPoll and select;           *)
(* pthread_cond_timedwait and WaitOnAddress; pthread_mutex_lock.  They are *)
(* loops of a raw call that does not wait long and of                      *)
(* EventLoops::wait_event, which returns no earlier than it was told to,   *)
(* or with an error.  Time is counted from the start of a call.            *)
(***************************************************************************)
EXTENDS Integers, FiniteSets

CONSTANTS
    Sleepers,       \* the threads and coroutines that make these calls
    SleepTimes,     \* durations of a sleep
    PollTimeouts,   \* timeouts of poll, in milliseconds
    SelectTimeouts, \* timeouts of select, in microseconds
    Deadlines,      \* time to the deadline of a wait for another thread
    Micros,         \* microseconds in a millisecond
    WaitSlice,      \* the longest wait of such a call at a time (10 ms)
    MaxAge,         \* the longest of these times
    MaxTimed        \* timed calls in all

ASSUME TimedConstants ==
    /\ "nobody" \notin Sleepers
    /\ Micros \in Nat \ {0} /\ WaitSlice \in Nat \ {0}
    /\ MaxAge \in Nat /\ MaxTimed \in Nat
    /\ SleepTimes \cup PollTimeouts \cup SelectTimeouts \cup Deadlines
         \subseteq 0..MaxAge

VARIABLES
    timed,      \* the call each sleeper is in
    owner,      \* who holds the mutex, or "nobody"
    changed,    \* has the word WaitOnAddress watches changed?
    calls       \* timed calls made so far

tvars == <<timed, owner, changed, calls>>

Unending == MaxAge + 1

Least(a, b) == IF a < b THEN a ELSE b

Awake == [pc |-> "out", kind |-> "none", due |-> 0, age |-> 0, rest |-> 0,
          t |-> 0, x |-> 1, asked |-> 0, r |-> "none", failed |-> FALSE]

InTimed(c) == timed[c].pc \notin {"out", "ret"}

\* Whoever returned takes the result before anybody else moves.
Settled == \A c \in Sleepers : timed[c].pc # "ret"
In(c, pc) == Settled /\ timed[c].pc = pc
To(c, rec) == timed' = [timed EXCEPT ![c] = rec]
Ret(c, r) == To(c, [timed[c] EXCEPT !.pc = "ret", !.r = r])

\* EventLoops::wait_event(d): on to pc, to leave it after d or with an error.
Wait(c, k, pc, d) == To(c, [k EXCEPT !.pc = pc, !.rest = d])
Over(c, pc) == In(c, pc) /\ timed[c].rest = 0

TimeLeft(k) ==
    IF k.due = Unending THEN Unending
    ELSE IF k.age >= k.due THEN 0 ELSE k.due - k.age

\* Calls that wait for one another overlap; the others are made one by one.
Joint == {"cond", "lock", "address"}

Make(c, kind, due, rec) ==
    /\ Settled /\ ~InTimed(c) /\ calls < MaxTimed
    /\ \A s \in Sleepers : InTimed(s) => {kind, timed[s].kind} \subseteq Joint
    /\ To(c, [rec EXCEPT !.kind = kind, !.due = due])
    /\ calls' = calls + 1
-----------------------------------------------------------------------------
(* sleep, usleep, nanosleep and Sleep: one wait, whose error is ignored.   *)
Sleeping(c, t) ==
    /\ Make(c, "sleep", t, [Awake EXCEPT !.pc = "sleep", !.rest = t])
    /\ UNCHANGED <<owner, changed>>

\* nanosleep with a time out of range: EINVAL.
Refused(c) ==
    /\ Make(c, "sleep", 0, [Awake EXCEPT !.pc = "ret", !.r = "invalid"])
    /\ UNCHANGED <<owner, changed>>

SleepEnds(c) ==
    /\ In(c, "sleep")
    /\ \/ timed[c].rest = 0 /\ Ret(c, "ok")
       \/ To(c, [timed[c] EXCEPT !.pc = "ret", !.r = "ok", !.failed = TRUE])
    /\ UNCHANGED <<owner, changed, calls>>
-----------------------------------------------------------------------------
(* poll and select: ask without waiting, then wait x ms, with x doubling   *)
(* up to 16.  poll counts its timeout down in milliseconds; select holds   *)
(* microseconds, but waits min(t, x) milliseconds and subtracts x.         *)
Poll(c, t) ==
    /\ Make(c, "poll", t, [Awake EXCEPT !.pc = "probe", !.t = t])
    /\ UNCHANGED <<owner, changed>>

Select(c, t) ==
    /\ Make(c, "select", t, [Awake EXCEPT !.pc = "probe", !.t = t])
    /\ UNCHANGED <<owner, changed>>

\* The clock counts milliseconds for poll and microseconds for select.
Unit(k) == IF k.kind = "select" THEN Micros ELSE 1

Probe(c) ==
    /\ In(c, "probe")
    /\ LET k == timed[c]
           d == Least(k.t, k.x)
       IN  \/ Ret(c, "ready")
           \/ k.t = 0 /\ Ret(c, "none")
           \/ /\ k.t # 0
              /\ Wait(c, [k EXCEPT !.asked = @ + d], "pause", d * Unit(k))
    /\ UNCHANGED <<owner, changed, calls>>

\* Mutants of Backoff: t may become negative; x doubles before it is used.
Backoff_below(k) ==
    [k EXCEPT !.pc = "probe", !.rest = 0,
              !.t = IF @ = Unending THEN @ ELSE @ - k.x,
              !.x = IF @ < 16 THEN 2 * @ ELSE @]
Backoff_twice(k) ==
    [k EXCEPT !.pc = "probe", !.rest = 0, !.x = IF @ < 16 THEN 2 * @ ELSE @,
              !.t = IF @ = Unending THEN @ ELSE IF @ > 2 * k.x THEN @ - 2 * k.x ELSE 0]

\* After the wait, or its ignored error.
Backoff(k) ==
    [k EXCEPT !.pc = "probe", !.rest = 0,
              !.t = IF @ = Unending THEN @ ELSE IF @ > k.x THEN @ - k.x ELSE 0,
              !.x = IF @ < 16 THEN 2 * @ ELSE @,
              !.asked = IF k.t = Unending THEN 0 ELSE @]

PauseEnds(c) ==
    /\ In(c, "pause")
    /\ \/ timed[c].rest = 0 /\ To(c, Backoff(timed[c]))
       \/ To(c, [Backoff(timed[c]) EXCEPT !.failed = TRUE])
    /\ UNCHANGED <<owner, changed, calls>>
-----------------------------------------------------------------------------
(* pthread_cond_timedwait: the raw wait for at most a slice, which gives   *)
(* the mutex up and takes it back, then wait_event for at most a slice     *)
(* with the mutex held, until the raw wait ends with anything but          *)
(* ETIMEDOUT or the deadline is over.                                      *)
CondWait(c, d) ==
    /\ owner = c
    /\ Make(c, "cond", d, [Awake EXCEPT !.pc = "cond"])
    /\ UNCHANGED <<owner, changed>>

Slice(k) == Least(TimeLeft(k), WaitSlice)

CondLoop(c) ==
    /\ In(c, "cond")
    /\ IF TimeLeft(timed[c]) = 0
       THEN Ret(c, "timedout") /\ UNCHANGED owner
       ELSE /\ To(c, [timed[c] EXCEPT !.pc = "asleep", !.rest = Slice(timed[c])])
            /\ owner' = "nobody"
    /\ UNCHANGED <<changed, calls>>

\* pthread_cond_signal by some other thread.
Signal(c) ==
    /\ In(c, "asleep")
    /\ To(c, [timed[c] EXCEPT !.pc = "relock", !.r = "ok"])
    /\ UNCHANGED <<owner, changed, calls>>

CondTimesOut(c) ==
    /\ Over(c, "asleep")
    /\ To(c, [timed[c] EXCEPT !.pc = "relock", !.r = "timedout"])
    /\ UNCHANGED <<owner, changed, calls>>

\* Mutant of Relock: a wait that timed out returns at once.
Relock_less(c) ==
    /\ In(c, "relock")
    /\ LET k == timed[c] IN
         \/ k.r = "timedout" /\ TimeLeft(k) = 0 /\ Ret(c, k.r) /\ UNCHANGED owner
         \/ k.r = "ok" /\ owner = "nobody" /\ owner' = c /\ Ret(c, k.r)
    /\ UNCHANGED <<changed, calls>>

Relock(c) ==
    /\ In(c, "relock") /\ owner = "nobody"
    /\ owner' = c
    /\ LET k == timed[c] IN
         IF k.r # "timedout" \/ TimeLeft(k) = 0 THEN Ret(c, k.r)
         ELSE Wait(c, k, "event", Slice(k))
    /\ UNCHANGED <<changed, calls>>

CondEvent(c) ==
    /\ In(c, "event")
    /\ \/ timed[c].rest = 0 /\ To(c, [timed[c] EXCEPT !.pc = "cond"])
       \/ To(c, [timed[c] EXCEPT !.pc = "ret", !.failed = TRUE])
    /\ UNCHANGED <<owner, changed, calls>>
-----------------------------------------------------------------------------
(* WaitOnAddress: the raw wait, which returns at once if the word differs  *)
(* from the one given, then wait_event.                                    *)
AddressWait(c, d) ==
    /\ Make(c, "address", d, [Awake EXCEPT !.pc = "address"])
    /\ UNCHANGED <<owner, changed>>

AddressLoop(c) ==
    /\ In(c, "address")
    /\ LET k == timed[c] IN
         IF TimeLeft(k) = 0 THEN Ret(c, "timedout")
         ELSE To(c, [k EXCEPT !.pc = "watch", !.rest = Least(TimeLeft(k), 1)])
    /\ UNCHANGED <<owner, changed, calls>>

Watch(c) ==
    /\ In(c, "watch")
    /\ LET k == timed[c] IN
       \/ changed /\ Ret(c, "ok")
       \/ /\ ~changed /\ k.rest = 0
          /\ IF TimeLeft(k) = 0 THEN Ret(c, "timedout")
             ELSE Wait(c, k, "aevent", Slice(k))
    /\ UNCHANGED <<owner, changed, calls>>

AddressEvent(c) ==
    /\ In(c, "aevent")
    /\ \/ timed[c].rest = 0 /\ To(c, [timed[c] EXCEPT !.pc = "address"])
       \/ To(c, [timed[c] EXCEPT !.pc = "ret", !.r = "timedout", !.failed = TRUE])
    /\ UNCHANGED <<owner, changed, calls>>

\* Another thread stores to the word and wakes.
StoreWord ==
    /\ Settled /\ ~changed /\ \E c \in Sleepers : timed[c].kind = "address"
    /\ changed' = TRUE
    /\ UNCHANGED <<timed, owner, calls>>
-----------------------------------------------------------------------------
(* pthread_mutex_lock in a coroutine: trylock, and wait_event while busy.  *)
MutexLock(c) ==
    /\ owner # c
    /\ Make(c, "lock", Unending, [Awake EXCEPT !.pc = "try"])
    /\ UNCHANGED <<owner, changed>>

TryLock(c) ==
    /\ In(c, "try")
    /\ IF owner = "nobody"
       THEN owner' = c /\ Ret(c, "ok")
       ELSE Wait(c, timed[c], "busy", WaitSlice) /\ UNCHANGED owner
    /\ UNCHANGED <<changed, calls>>

BusyEnds(c) ==
    /\ In(c, "busy")
    /\ \/ timed[c].rest = 0 /\ To(c, [timed[c] EXCEPT !.pc = "try"])
       \/ To(c, [timed[c] EXCEPT !.pc = "ret", !.r = "busy", !.failed = TRUE])
    /\ UNCHANGED <<owner, changed, calls>>

\* The raw pthread_mutex_unlock.
Unlock(c) ==
    /\ owner = c /\ In(c, "out")
    /\ owner' = "nobody"
    /\ UNCHANGED <<timed, changed, calls>>

Returns(c) ==
    /\ timed[c].pc = "ret"
    /\ To(c, Awake)
    /\ UNCHANGED <<owner, changed, calls>>
-----------------------------------------------------------------------------
\* A clock that has reached the end of its call's time stops.
Older(k) == [k EXCEPT !.age = IF k.due = Unending THEN 0 ELSE Least(@ + 1, k.due),
                      !.rest = IF @ = 0 THEN 0 ELSE @ - 1]

TimePasses ==
    /\ Settled /\ \E c \in Sleepers : InTimed(c) /\ Older(timed[c]) # timed[c]
    /\ timed' = [c \in Sleepers |-> IF InTimed(c) THEN Older(timed[c]) ELSE timed[c]]
    /\ UNCHANGED <<owner, changed, calls>>

TimedInit ==
    /\ timed = [c \in Sleepers |-> Awake]
    /\ owner = "nobody"
    /\ changed = FALSE
    /\ calls = 0

TimedStep(c) ==
    \/ SleepEnds(c) \/ Probe(c) \/ PauseEnds(c) \/ CondLoop(c) \/ CondTimesOut(c)
    \/ Relock(c) \/ CondEvent(c) \/ AddressLoop(c) \/ Watch(c) \/ AddressEvent(c)
    \/ TryLock(c) \/ BusyEnds(c) \/ Unlock(c) \/ Returns(c)

TimedNext ==
    \/ \E c \in Sleepers :
         \/ TimedStep(c) \/ Signal(c) \/ MutexLock(c) \/ Refused(c)
         \/ \E t \in SleepTimes : Sleeping(c, t)
         \/ \E t \in PollTimeouts \cup {Unending} : Poll(c, t)
         \/ \E t \in SelectTimeouts : Select(c, t)
         \/ \E d \in Deadlines \cup {Unending} : CondWait(c, d) \/ AddressWait(c, d)
    \/ StoreWord \/ TimePasses
-----------------------------------------------------------------------------
\* The longest single wait of a call.
LongestWait(k) ==
    CASE k.kind = "sleep" -> MaxAge
      [] k.kind \in {"poll", "select"} -> 16 * Unit(k)
      [] OTHER -> WaitSlice

TimedTypeOK ==
    /\ owner \in Sleepers \cup {"nobody"}
    /\ calls \in 0..MaxTimed
    /\ \A c \in Sleepers :
         /\ timed[c].age \in 0..MaxAge /\ timed[c].rest \in 0..LongestWait(timed[c])
         /\ timed[c].t \in 0..Unending /\ timed[c].x \in {1, 2, 4, 8, 16}
         /\ timed[c].r \in {"none", "ok", "ready", "timedout", "busy", "invalid"}

Back(c, kinds) == timed[c].pc = "ret" /\ timed[c].kind \in kinds

(* A sleep, a poll or select that reports nothing, and a                   *)
(* pthread_cond_timedwait or WaitOnAddress that reports a timeout have     *)
(* lasted as long as they were asked to, unless a wait failed; and the     *)
(* waits of a poll or select add up to its timeout, in its own count.      *)
NotEarly ==
    \A c \in Sleepers :
        LET k == timed[c] IN
        /\ (\/ Back(c, {"sleep"})
            \/ Back(c, {"poll", "select", "cond", "address"}) /\ k.r \notin {"ready", "ok"})
           => (k.failed \/ k.age >= k.due)
        /\ (Back(c, {"poll", "select"}) /\ k.r = "none") => k.asked = k.due

(* However pthread_cond_timedwait returns, its caller holds the mutex; so  *)
(* does the caller of a pthread_mutex_lock that returned 0, and one that   *)
(* got EBUSY does not.                                                     *)
LockTruth ==
    \A c \in Sleepers :
        /\ Back(c, {"cond"}) => owner = c
        /\ Back(c, {"lock"}) => (owner = c <=> timed[c].r = "ok")

(* Every timed call with a deadline returns, and so does every lock,       *)
(* unless it contends with a wait that has none: the holder of the mutex   *)
(* may be in it, and trylock may miss each time that wait gives it up.     *)
TimedReturns ==
    \A c \in Sleepers :
        (InTimed(c) /\ (timed[c].due <= MaxAge \/ timed[c].kind = "lock"))
        ~> (~InTimed(c) \/ \E s \in Sleepers : /\ timed[s].kind \in {"cond", "address"}
                                              /\ timed[s].due = Unending)
=============================================================================
