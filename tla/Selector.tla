------------------------------ MODULE Selector ------------------------------
(***************************************************************************)
(* The readiness selectors (core/src/net/selector) of several event loops, *)
(* and the calls that use them: waiting for a descriptor, and shutdown and *)
(* close.  Each event loop has a poller of its own; what is registered is  *)
(* recorded in statics of the process.  A descriptor is registered with    *)
(* the token of the coroutine that waits first, folded to half its width.  *)
(***************************************************************************)
EXTENDS Integers, Sequences, FiniteSets

CONSTANTS
    Loops,      \* the event loops, a sequence
    Fds,        \* descriptors
    Waiters,    \* ids of the coroutines, two binary digits wide
    MaxWaits    \* waits in all

ASSUME SelectorConstants ==
    Loops \in Seq(STRING) /\ Fds \subseteq Nat /\ Waiters \subseteq 1..3
    /\ MaxWaits \in Nat

VARIABLES
    sel,                \* the statics and what the pollers are interested in
    COROUTINE_TOKENS,
    waiting,            \* what each coroutine waits for, or NoWait
    homes,              \* the event loop each coroutine runs on
    opened,             \* descriptors that are open
    used,               \* the loops that handled a descriptor since it was clean
    waits               \* waits made so far

svars == <<sel, COROUTINE_TOKENS, waiting, homes, opened, used, waits>>

Ways == {"read", "write"}
Other(d) == IF d = "read" THEN "write" ELSE "read"
Pollers == {Loops[i] : i \in DOMAIN Loops}
NoWait == <<>>
Gone == -1
Ids == 0..3

\* (token >> 32) ^ token, in 32 bits.
Fold(t) == ((t \div 2) + t) % 2

\* A descriptor a poller does not know.
Unregistered == [known |-> FALSE, dirs |-> {}, token |-> 0]

\* sel.rec: READABLE_RECORDS and WRITABLE_RECORDS; sel.tok:
\* READABLE_TOKEN_RECORDS and WRITABLE_TOKEN_RECORDS; sel.fd: TOKEN_FD.
Blank ==
    [rec |-> [d \in Ways |-> {}], tok |-> [d \in Ways |-> [f \in Fds |-> Gone]],
     fd |-> [t \in Ids |-> Gone], poll |-> [l \in Pollers |-> [f \in Fds |-> Unregistered]]]

Ok(s) == [ok |-> TRUE, s |-> s]
Err(s) == [ok |-> FALSE, s |-> s]
-----------------------------------------------------------------------------
(* register and reregister (epoll refuses the one for a descriptor it has, *)
(* the other for one it has not), and deregister.                          *)
SetInterest(s, l, f, t, dirs, known) ==
    IF s.poll[l][f].known # known THEN Err(s)
    ELSE Ok([s EXCEPT !.poll[l][f] = [known |-> TRUE, dirs |-> dirs, token |-> t],
                      !.fd[t] = f])
register(s, l, f, t, dirs) == SetInterest(s, l, f, t, dirs, FALSE)
reregister(s, l, f, t, dirs) == SetInterest(s, l, f, t, dirs, TRUE)
deregister(s, l, f, t) ==
    IF s.poll[l][f].known
    THEN Ok([s EXCEPT !.poll[l][f] = Unregistered, !.fd[t] = Gone]) ELSE Err(s)

\* add_read_event and add_write_event.
add_event(s, l, f, d, t) ==
    LET done(a) == IF a.ok THEN Ok([a.s EXCEPT !.rec[d] = @ \cup {f}, !.tok[d][f] = t])
                   ELSE a
        again == reregister(s, l, f, t, Ways)
    IN  IF f \in s.rec[d] THEN Ok(s)
        ELSE IF f \in s.rec[Other(d)]
             THEN done(IF again.ok THEN again ELSE register(s, l, f, t, Ways))
             ELSE done(register(s, l, f, t, {d}))

\* Mutant of del_event: the write record is forgotten.
del_event_read(s, l, f) ==
    LET a == deregister(s, l, f, 0)
    IN  IF a.ok THEN Ok([a.s EXCEPT !.rec["read"] = @ \ {f}]) ELSE a

\* The token records of both directions go, whether or not the poller agrees.
del_event(s, l, f) ==
    LET r == s.tok["read"][f]
        w == s.tok["write"][f]
        t == IF r # Gone THEN r ELSE IF w # Gone THEN w ELSE 0
        a == deregister([s EXCEPT !.tok = [d \in Ways |-> [@[d] EXCEPT ![f] = Gone]]], l, f, t)
    IN  IF \A d \in Ways : f \notin s.rec[d] THEN Ok(s)
        ELSE IF a.ok THEN Ok([a.s EXCEPT !.rec = [d \in Ways |-> @[d] \ {f}]]) ELSE a

\* del_read_event and del_write_event.
del_way(s, l, f, d) ==
    LET t == s.tok[Other(d)][f]
        a == reregister(s, l, f, IF t = Gone THEN 0 ELSE t, {Other(d)})
    IN  IF f \notin s.rec[d] THEN Ok(s)
        ELSE IF f \notin s.rec[Other(d)] THEN del_event(s, l, f)
        ELSE IF a.ok THEN Ok([a.s EXCEPT !.rec[d] = @ \ {f}, !.tok[d][f] = Gone]) ELSE a

\* EventLoops::del_event, del_read_event and del_write_event: at the current
\* loop, or, off the event loops, at each in turn until one fails.
Removed(s, ls, f, how) ==
    LET one(a, l) == IF how = "both" THEN del_event(a, l, f) ELSE del_way(a, l, f, how)
        upto[i \in 0..Len(ls)] ==
            IF i = 0 THEN Ok(s)
            ELSE IF upto[i - 1].ok THEN one(upto[i - 1].s, ls[i]) ELSE upto[i - 1]
    IN  upto[Len(ls)].s
-----------------------------------------------------------------------------
(* wait_read_event and wait_write_event: the coroutine's token, the        *)
(* registration, and a wait.  The kernel may refuse to register.           *)
WaitFor(c, f, d) ==
    /\ waiting[c] = NoWait /\ f \in opened /\ waits < MaxWaits
    /\ COROUTINE_TOKENS' = COROUTINE_TOKENS \cup {c}
    /\ waits' = waits + 1
    /\ used' = [used EXCEPT ![f] = @ \cup {homes[c]}]
    /\ LET a == add_event(sel, homes[c], f, d, c) IN
         \/ a.ok /\ sel' = a.s /\ waiting' = [waiting EXCEPT ![c] = <<f, d>>]
         \/ f \notin sel.rec[d] /\ UNCHANGED <<sel, waiting>>
    /\ UNCHANGED <<homes, opened>>

\* A poller reports a descriptor; the token is looked up as it was folded.
select(l, f, dirs) ==
    /\ f \in opened /\ dirs # {} /\ dirs \subseteq sel.poll[l][f].dirs
    /\ LET t == Fold(sel.poll[l][f].token)
           g == IF sel.fd[t] = Gone THEN 0 ELSE sel.fd[t]
           woken == t \in COROUTINE_TOKENS /\ t \in Waiters /\ homes[t] = l
       IN  /\ sel' = [sel EXCEPT !.fd[t] = Gone,
                        !.tok = [d \in Ways |-> IF d \in dirs /\ g \in Fds
                                                THEN [@[d] EXCEPT ![g] = Gone] ELSE @[d]]]
           /\ COROUTINE_TOKENS' = COROUTINE_TOKENS \ {t}
           /\ waiting' = IF woken THEN [waiting EXCEPT ![t] = NoWait] ELSE waiting
    /\ UNCHANGED <<homes, opened, used, waits>>

\* The time of a wait is over.
WaitOver(c) ==
    /\ waiting[c] # NoWait
    /\ waiting' = [waiting EXCEPT ![c] = NoWait]
    /\ UNCHANGED <<sel, COROUTINE_TOKENS, homes, opened, used, waits>>

\* Where shutdown or close is called: on one event loop, or on none.
Places == {<<l>> : l \in Pollers} \cup {Loops}

Shutdown(ls, f, how) ==
    /\ f \in opened /\ \E d \in Ways : f \in sel.rec[d]
    /\ sel' = Removed(sel, ls, f, how)
    /\ used' = [used EXCEPT ![f] = @ \cup {ls[i] : i \in DOMAIN ls}]
    /\ UNCHANGED <<COROUTINE_TOKENS, waiting, homes, opened, waits>>

\* del_event, whose error is ignored, and the raw call: the kernel removes
\* the descriptor from every poller.
Close(ls, f) ==
    /\ f \in opened
    /\ LET s == Removed(sel, ls, f, "both")
           closed == [s EXCEPT !.poll = [l \in Pollers |-> [@[l] EXCEPT ![f] = Unregistered]]]
       IN  /\ sel' = closed
           /\ used' = [used EXCEPT ![f] =
                         IF \E d \in Ways : f \in s.rec[d] THEN @ \cup Pollers ELSE {}]
    /\ opened' = opened \ {f}
    /\ UNCHANGED <<COROUTINE_TOKENS, waiting, homes, waits>>

\* The number is given to a new descriptor.
Reopen(f) ==
    /\ f \notin opened
    /\ opened' = opened \cup {f}
    /\ UNCHANGED <<sel, COROUTINE_TOKENS, waiting, homes, used, waits>>

SelectorInit ==
    /\ sel = Blank
    /\ COROUTINE_TOKENS = {}
    /\ waiting = [c \in Waiters |-> NoWait]
    /\ homes \in [Waiters -> Pollers]
    /\ opened = Fds
    /\ used = [f \in Fds |-> {}]
    /\ waits = 0

SelectorNext ==
    \/ \E c \in Waiters, f \in Fds, d \in Ways : WaitFor(c, f, d)
    \/ \E c \in Waiters : WaitOver(c)
    \/ \E l \in Pollers, f \in Fds, dirs \in SUBSET Ways : select(l, f, dirs)
    \/ \E ls \in Places, f \in Fds, how \in Ways \cup {"both"} : Shutdown(ls, f, how)
    \/ \E ls \in Places, f \in Fds : Close(ls, f)
    \/ \E f \in Fds : Reopen(f)
-----------------------------------------------------------------------------
SelectorTypeOK ==
    /\ sel.rec \in [Ways -> SUBSET Fds]
    /\ sel.tok \in [Ways -> [Fds -> Ids \cup {Gone}]]
    /\ sel.fd \in [Ids -> Fds \cup {Gone}]
    /\ COROUTINE_TOKENS \subseteq Waiters

(* As long as only one event loop handles a descriptor, the records say    *)
(* exactly what its poller is interested in, so that a wait registers it   *)
(* when it must and close leaves nothing behind for the next descriptor of *)
(* that number.  And a coroutine that waits is in COROUTINE_TOKENS, where  *)
(* resume looks for it, unless the id of another one folds to its own.     *)
InterestsTracked ==
    /\ \A f \in Fds : Cardinality(used[f]) <= 1 =>
         \A d \in Ways : f \in sel.rec[d] <=> \E l \in Pollers : d \in sel.poll[l][f].dirs
    /\ \A c \in Waiters : waiting[c] # NoWait =>
         c \in COROUTINE_TOKENS \/ \E x \in Waiters \ {c} : Fold(x) = c
=============================================================================
