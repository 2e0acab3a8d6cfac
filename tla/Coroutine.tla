----------------------------- MODULE Coroutine -----------------------------
(***************************************************************************)
(* The states of a coroutine and the changes core/src/coroutine/state.rs   *)
(* allows: for each method the condition under which it returns Ok, and    *)
(* the state it leaves.                                                    *)
(***************************************************************************)
EXTENDS Integers

CONSTANTS Names,   \* the names of the system calls
          NoName

State(kind, name, call, ts) == [kind |-> kind, name |-> name, call |-> call, ts |-> ts]

Ready            == State("Ready", NoName, "none", 0)
Running          == State("Running", NoName, "none", 0)
Suspended(ts)    == State("Suspend", NoName, "none", ts)
InCall(n, sc, ts) == State("Syscall", n, sc, ts)
Cancelled        == State("Cancelled", NoName, "none", 0)
Complete         == State("Complete", NoName, "none", 0)
Failed           == State("Error", NoName, "none", 0)

Kinds == {"Ready", "Running", "Suspend", "Syscall", "Cancelled", "Complete", "Error"}
Calls == {"none", "Executing", "Suspend", "Timeout", "Callback"}

IsCall(st, sc) == st.kind = "Syscall" /\ st.call = sc

\* ready()
CanBeReady(st, now) == st.kind = "Ready" \/ (st.kind = "Suspend" /\ st.ts <= now)

\* running(): a call that came back by a callback or a timeout keeps its state.
CanRun(st, now) ==
    \/ st.kind \in {"Running", "Ready"}
    \/ st.kind = "Suspend" /\ st.ts <= now
    \/ st.kind = "Syscall" /\ st.call # "Suspend"

Run_call(st) == IF st.kind = "Syscall" THEN st ELSE Running

Run(st) == IF st.kind = "Syscall" /\ st.call # "Executing" THEN st ELSE Running

\* syscall(): from Running, or within the call of the same name.
CanCall(st, n) == st.kind = "Running" \/ (st.kind = "Syscall" /\ st.name = n)

\* The callers log an error and go on.
TryRun(st, now) == IF CanRun(st, now) THEN Run(st) ELSE st

TryCall(st, n, sc, ts) == IF CanCall(st, n) THEN InCall(n, sc, ts) ELSE st
=============================================================================
