---------------------------- MODULE EventSources ----------------------------
(***************************************************************************)
(* What the event loops wait for: readiness of descriptors (Selector) and  *)
(* completions (Rings).  The two share no state; a behaviour exercises one *)
(* of them, chosen at the start.                                           *)
(***************************************************************************)
EXTENDS Selector, Rings

VARIABLE source     \* "selector" or "ring"

evars == <<svars, rvars, source>>

SourcesInit ==
    /\ source \in {"selector", "ring"}
    /\ SelectorInit /\ RingsInit
    /\ source = "selector" => system = "linux"
    /\ source = "ring" => \A c \in Waiters : homes[c] = Loops[1]

Readiness(A) == source = "selector" /\ A /\ UNCHANGED <<rvars, source>>
Completions(A) == source = "ring" /\ A /\ UNCHANGED <<svars, source>>

SourcesNext == Readiness(SelectorNext) \/ Completions(RingsNext)

(* The event loop keeps selecting (on Windows, also with time left to wait *)
(* for), and the kernel takes what is submitted and completes it.          *)
SourcesSpec ==
    /\ SourcesInit /\ [][SourcesNext]_evars
    /\ WF_evars(Completions(RingsLoop))
    /\ WF_evars(Completions(Take))
    /\ WF_evars(Completions(\E o \in inflight : Complete(o)))

SourcesTypeOK == SelectorTypeOK /\ RingsTypeOK
=============================================================================
