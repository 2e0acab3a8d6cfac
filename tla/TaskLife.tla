------------------------------ MODULE TaskLife ------------------------------
(***************************************************************************)
(* What a coroutine pool promises about a task, without queues, workers,   *)
(* results or threads: a task is started once, ends once, and disappears   *)
(* without a result only for a reason.  The reasons are the ones the pool  *)
(* has: somebody asked to cancel it before it started, some cancellation   *)
(* hit the coroutine it ran on, its handle was dropped, or a pool stopped. *)
(***************************************************************************)
EXTENDS FiniteSets

CONSTANT Tasks

VARIABLES
  life,       \* [Tasks -> {"new", "queued", "running", "done", "over"}]
  asked,      \* tasks somebody asked to cancel
  abandoned,  \* tasks whose handle was dropped
  stopped     \* has a pool been stopped?

lifeVars == <<life, asked, abandoned, stopped>>

LifeInit ==
  /\ life = [t \in Tasks |-> "new"]
  /\ asked = {}
  /\ abandoned = {}
  /\ stopped = FALSE

Move(t, from, to) ==
  /\ life[t] = from
  /\ life' = [life EXCEPT ![t] = to]
  /\ UNCHANGED <<asked, abandoned, stopped>>

Queue(t) == Move(t, "new", "queued")

Start(t) == Move(t, "queued", "running")

Finish(t) == Move(t, "running", "done")

\* The result is given to whoever has the handle.
Take(t) == Move(t, "done", "over")

\* A task that has not started disappears only when it was to be cancelled.
Discard(t) == t \in asked /\ Move(t, "queued", "over")

\* A task that runs disappears when its handle is gone, or when a
\* cancellation (of this task or of another one) hits its coroutine, which
\* may hold more tasks than one.
Vanish ==
  /\ life' \in [Tasks -> {"new", "queued", "running", "done", "over"}]
  /\ \A t \in Tasks :
       life'[t] # life[t] =>
         /\ life'[t] = "over"
         /\ life[t] = "running"
         /\ asked # {} \/ t \in abandoned
  /\ UNCHANGED <<asked, abandoned, stopped>>

\* A pool that stops replaces a result nobody has taken.
Replace(t) == stopped /\ Move(t, "done", "over")

Ask(t) ==
  /\ asked' = asked \cup {t}
  /\ UNCHANGED <<life, abandoned, stopped>>

Abandon(t) ==
  /\ abandoned' = abandoned \cup {t}
  /\ \/ UNCHANGED life
     \/ life[t] = "done" /\ life' = [life EXCEPT ![t] = "over"]
  /\ UNCHANGED <<asked, stopped>>

Stop ==
  /\ stopped' = TRUE
  /\ \/ UNCHANGED life
     \/ \E t \in Tasks : /\ life[t] = "done"
                         /\ life' = [life EXCEPT ![t] = "over"]
  /\ UNCHANGED <<asked, abandoned>>

LifeNext ==
  \/ \E t \in Tasks :
       \/ Queue(t) \/ Start(t) \/ Finish(t) \/ Take(t) \/ Discard(t)
       \/ Replace(t) \/ Ask(t) \/ Abandon(t)
  \/ Vanish \/ Stop

LifeSpec == LifeInit /\ [][LifeNext]_lifeVars
=============================================================================
