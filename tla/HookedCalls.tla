---------------------------- MODULE HookedCalls ----------------------------
(***************************************************************************)
(* The hooked system calls of a process: those on one socket               *)
(* (SocketCalls) or those that wait for time or for another thread         *)
(* (TimedCalls).  The two share no state, so a behaviour exercises one of  *)
(* them, chosen at the start.                                              *)
(***************************************************************************)
EXTENDS SocketCalls, TimedCalls

VARIABLE program    \* "sockets" or "timed"

hvars == <<vars, tvars, program>>

\* The socket of a process that makes no call on it.
Unused == os = "unix" /\ nonblocking = FALSE /\ conn = "idle"
          /\ kernel = [d \in Dirs |-> Forever]

HookedInit ==
    /\ program \in {"sockets", "timed"}
    /\ Init /\ TimedInit
    /\ program = "timed" => Unused

Sockets(A) == program = "sockets" /\ A /\ UNCHANGED <<tvars, program>>
Timers(A) == program = "timed" /\ A /\ UNCHANGED <<vars, program>>

HookedNext == Sockets(Next) \/ Timers(TimedNext)

(* Some call on the socket that can go on does, every timed call does, and *)
(* time passes; nothing is assumed of the network, nor of the threads that *)
(* signal a condition or store to a word.                                  *)
HookedSpec ==
    /\ HookedInit /\ [][HookedNext]_hvars
    /\ WF_hvars(Sockets(\E c \in Callers : Step(c)))
    /\ WF_hvars(Sockets(Tick))
    /\ \A c \in Sleepers : WF_hvars(Timers(TimedStep(c)))
    /\ WF_hvars(Timers(TimePasses))

HookedTypeOK == TypeOK /\ TimedTypeOK

(* A call on a socket with a time limit returns even if the peer never     *)
(* answers, as long as no other call overlaps with it; a timed call with a *)
(* deadline returns, and so does a lock that does not contend with a wait  *)
(* without one.                                                            *)
EveryCallReturns == CallsReturn /\ TimedReturns
=============================================================================
