------------------------------- MODULE Rings -------------------------------
(***************************************************************************)
(* Completion-based calls of one event loop: the io_uring operator         *)
(* (core/src/net/operator/linux) or the IOCP one (.../windows), the wait   *)
(* table of the event loop, and the layer of a hooked call that hands it   *)
(* to them.  The coroutines of a loop and the loop itself run on one       *)
(* thread; the kernel runs beside it.  A completion carries only the token *)
(* of its coroutine.                                                       *)
(***************************************************************************)
EXTENDS Integers, Sequences, FiniteSets, Functions, TLC

U == INSTANCE UnixCalls
W == INSTANCE WindowsCalls

CONSTANTS
    Clients,    \* coroutines that make calls
    SqSize,     \* entries of the submission queue (1024)
    MaxOps,     \* calls and failures of system calls in all
    Timers      \* does select add a timeout to the ring?

ASSUME RingConstants ==
    SqSize \in Nat \ {0} /\ MaxOps \in Nat /\ Timers \in BOOLEAN

VARIABLES
    system,     \* "linux" or "windows"
    sq, backlog,\* submission queue and its overflow
    polling,    \* is the kernel's submission thread awake?
    inflight,   \* operations the kernel works on
    cq,         \* completions, in order
    wait_table, \* token -> the operation whose caller waits, or NoOp
    client,     \* per coroutine: is it suspended, and the number of its call
    selecting,  \* where the loop is in select, and the completions it saw
    ran,        \* operations carried out, by the kernel's ring or directly
    twice,      \* coroutines with an operation carried out more than once,
    alien,      \* ... that got the result of another call,
    loose,      \* ... with a completion that no call waits for
    faults,
    broken      \* a failed assert

rvars == <<system, sq, backlog, polling, inflight, cq, wait_table, client,
           selecting, ran, twice, alien, loose, faults, broken>>

queues == <<sq, backlog, polling>>
history == <<ran, twice, alien, loose>>

NoOp == <<>>
TimerOp == <<"timer", 0, "timeout">>

(* The opcode of the entry that each function of the io_uring operator     *)
(* builds.                                                                 *)
FileEntries ==
    [openat |-> "OpenAt", mkdirat |-> "MkDirAt", renameat |-> "RenameAt",
     renameat2 |-> "RenameAt", fsync |-> "Fsync"]
SocketEntries ==
    [socket |-> "Socket", accept |-> "Accept", accept4 |-> "Accept",
     connect |-> "Connect", shutdown |-> "Shutdown", close |-> "Close"]
ReadEntries ==
    [recv |-> "Recv", read |-> "Read", pread |-> "Read", readv |-> "Readv",
     preadv |-> "Readv", recvmsg |-> "RecvMsg"]
WriteEntries ==
    [send |-> "Send", sendto |-> "SendZc", write |-> "Write", pwrite |-> "Write",
     writev |-> "Writev", pwritev |-> "Writev", sendmsg |-> "SendMsg"]
Entries == FileEntries @@ SocketEntries @@ ReadEntries @@ WriteEntries

RingCalls == {n \in DOMAIN U!calls_by_name : U!calls_by_name[n].ring # "none"}

\* Each call with an io_uring layer has its function in the operator.
ASSUME EntriesComplete == RingCalls \subseteq DOMAIN Entries

\* How a call uses the operator: "plain" waits without limit, "limited" as long
\* as the socket's limit says; a zero-copy send has a limit and completes twice.
UringKinds ==
    {IF Entries[n] = "SendZc" THEN "zerocopy"
     ELSE IF U!calls_by_name[n].ring = "plain" THEN "plain" ELSE "limited" : n \in RingCalls}
IocpKinds == {"limited" : c \in {x \in W!Chains_w : x.ring # "none"}}
Layers == IF system = "linux" THEN UringKinds ELSE IocpKinds

InOp(c) == client[c].suspended
Made == FoldFunction(LAMBDA k, n : k.n + n, 0, client)
Current(c, kind) == <<c, client[c].n + 1, kind>>
Free == selecting.pc = "idle" /\ ~broken
Fault == Made + faults < MaxOps /\ faults' = faults + 1

Carry(o) ==
    /\ ran' = ran \cup {<<o[1], o[2]>>}
    /\ twice' = IF <<o[1], o[2]>> \in ran THEN twice \cup {o[1]} ELSE twice

Over(c, n) == client' = [client EXCEPT ![c] = [suspended |-> FALSE, n |-> n]]
-----------------------------------------------------------------------------
\* Mutant of push_sq: one entry more than fits.
push_sq_over(o) ==
    IF Len(sq) <= SqSize THEN sq' = Append(sq, o) /\ UNCHANGED backlog
    ELSE backlog' = Append(backlog, o) /\ UNCHANGED sq

\* Mutant of push_sq: the entry goes to the backlog as well.
push_sq_both(o) ==
    /\ sq' = IF Len(sq) < SqSize THEN Append(sq, o) ELSE sq
    /\ backlog' = Append(backlog, o)

(* push_sq: into the queue, or the backlog if it is full.                  *)
push_sq(o) ==
    IF Len(sq) < SqSize THEN sq' = Append(sq, o) /\ UNCHANGED backlog
    ELSE backlog' = Append(backlog, o) /\ UNCHANGED sq

\* The layer's call on the operator, and the wait table: insert asserts that
\* the token is not there.
Insert(c, o) ==
    /\ broken' = (wait_table[c] # NoOp)
    /\ wait_table' = [wait_table EXCEPT ![c] = o]
    /\ client' = [client EXCEPT ![c] = [suspended |-> TRUE, n |-> o[2]]]

\* The operation is not supported, or cannot be started: the next layer of the
\* call carries it out.
Direct(c, o) ==
    /\ Carry(o)
    /\ Over(c, o[2])
    /\ UNCHANGED <<wait_table, broken>>

Operation(c, kind) ==
    /\ Free /\ ~InOp(c) /\ Made + faults < MaxOps /\ kind \in Layers

\* io_uring: push_sq and submit.  An error of submit leaves the entry where it
\* is, and the call is made directly as well.
Uring(c, kind) ==
    LET o == Current(c, kind) IN
    /\ system = "linux" /\ Operation(c, kind)
    /\ push_sq(o)
    /\ \/ /\ polling' = TRUE
          /\ Insert(c, o)
          /\ UNCHANGED <<ran, twice, faults, loose>>
       \/ /\ Fault /\ Direct(c, o)
          /\ loose' = loose \cup {c}
          /\ UNCHANGED polling
    /\ UNCHANGED <<system, inflight, cq, selecting, alien>>

\* The kernel does not know the operation.
Unsupported(c, kind) ==
    /\ system = "linux" /\ Operation(c, kind) /\ Fault
    /\ Direct(c, Current(c, kind))
    /\ UNCHANGED <<system, queues, inflight, cq, selecting, alien, loose>>

\* IOCP: the handle is bound to the port and the overlapped call made, which
\* starts the operation or fails without it.
Iocp(c, kind) ==
    LET o == Current(c, kind) IN
    /\ system = "windows" /\ Operation(c, kind)
    /\ \/ /\ inflight' = inflight \cup {o}
          /\ Insert(c, o)
          /\ UNCHANGED <<ran, twice, faults>>
       \/ Fault /\ Direct(c, o) /\ UNCHANGED inflight
    /\ UNCHANGED <<system, queues, cq, selecting, alien, loose>>

\* The socket's time limit is over before the operation completes: ETIMEDOUT.
\* The operation and its entry in the wait table stay.
Expire(c) ==
    /\ system = "linux" /\ Free /\ InOp(c) /\ wait_table[c][3] # "plain"
    /\ Over(c, client[c].n)
    /\ UNCHANGED <<system, queues, inflight, cq, wait_table, selecting, history, faults,
                   broken>>

\* accept on Windows does not look at the state it comes back in: it waits for
\* the result on a condition variable, and the thread with it.
BlockInAccept(c) ==
    /\ system = "windows" /\ Free /\ InOp(c)
    /\ selecting' = [pc |-> "blocked", seen |-> 0]
    /\ UNCHANGED <<system, queues, inflight, cq, wait_table, client, history, faults,
                   broken>>
-----------------------------------------------------------------------------
(* The kernel.  A timer only ends a wait: adapt_io_uring skips its          *)
(* completion.                                                             *)
Take ==
    /\ polling /\ sq # <<>>
    /\ sq' = Tail(sq)
    /\ inflight' = inflight \cup ({Head(sq)} \ {TimerOp})
    /\ UNCHANGED <<system, backlog, polling, cq, wait_table, client, selecting, history,
                   faults, broken>>

\* setup_sqpoll: the thread sleeps when it has had nothing to do for a while.
Doze ==
    /\ polling /\ sq = <<>>
    /\ polling' = FALSE
    /\ UNCHANGED <<system, sq, backlog, inflight, cq, wait_table, client, selecting, history,
                   faults, broken>>

Complete(o) ==
    /\ o \in inflight
    /\ inflight' = inflight \ {o}
    /\ cq' = cq \o (IF o[3] = "zerocopy" THEN <<o, o>> ELSE <<o>>)
    /\ loose' = IF o[3] = "zerocopy" THEN loose \cup {o[1]} ELSE loose
    /\ Carry(o)
    /\ UNCHANGED <<system, queues, wait_table, client, selecting, alien, faults, broken>>
-----------------------------------------------------------------------------
(* select of the operator, in wait_just of the event loop.                 *)
Stay(s) == selecting' = s
Idle == [pc |-> "idle", seen |-> 0]

\* timeout_add: push_sq and submit, if there is a time to wait for.
timeout_add ==
    /\ system = "linux" /\ Free
    /\ IF Timers /\ TimerOp \notin Range(sq) \cup Range(backlog)
       THEN push_sq(TimerOp) ELSE UNCHANGED <<sq, backlog>>
    /\ \/ polling' = TRUE /\ Stay([Idle EXCEPT !.pc = "enter"]) /\ UNCHANGED faults
       \/ Fault /\ UNCHANGED <<polling, selecting>>
    /\ UNCHANGED <<system, inflight, cq, wait_table, client, history, broken>>

\* submit_and_wait: EBUSY and EINTR count as nothing submitted, any other error
\* ends the select.
do_select ==
    /\ selecting.pc = "enter"
    /\ \/ polling' = TRUE /\ Stay([pc |-> "backlog", seen |-> Len(cq)]) /\ UNCHANGED faults
       \/ Fault /\ UNCHANGED polling
          /\ selecting' \in {Idle, [pc |-> "backlog", seen |-> Len(cq)]}
    /\ UNCHANGED <<system, sq, backlog, inflight, cq, wait_table, client, history,
                   broken>>

Reaping == IF selecting.seen = 0 THEN Idle ELSE [selecting EXCEPT !.pc = "reap"]

\* Mutant of CleanBacklog: an entry that does not fit is dropped.
CleanBacklog_drop ==
    /\ selecting.pc = "backlog"
    /\ IF backlog = <<>> THEN Stay(Reaping) /\ UNCHANGED <<sq, backlog>>
       ELSE /\ backlog' = Tail(backlog)
            /\ sq' = IF Len(sq) < SqSize THEN Append(sq, Head(backlog)) ELSE sq
            /\ UNCHANGED selecting
    /\ UNCHANGED <<system, polling, inflight, cq, wait_table, client, history, faults,
                   broken>>

\* One turn of the loop that empties the backlog.
CleanBacklog ==
    /\ selecting.pc = "backlog"
    /\ \/ /\ Len(sq) = SqSize /\ Fault
          /\ selecting' \in {Idle, Reaping}
          /\ UNCHANGED <<sq, backlog, polling>>
       \/ /\ polling' = (polling \/ Len(sq) = SqSize)
          /\ UNCHANGED faults
          /\ IF backlog # <<>> /\ Len(sq) < SqSize
             THEN /\ sq' = Append(sq, Head(backlog))
                  /\ backlog' = Tail(backlog)
                  /\ UNCHANGED selecting
             ELSE Stay(Reaping) /\ UNCHANGED <<sq, backlog>>
    /\ UNCHANGED <<system, inflight, cq, wait_table, client, history, broken>>

\* GetQueuedCompletionStatusEx, unless no time is left to wait.
do_select_w ==
    /\ system = "windows" /\ Free /\ cq # <<>>
    /\ Stay([pc |-> "reap", seen |-> Len(cq)])
    /\ UNCHANGED <<system, queues, inflight, cq, wait_table, client, history, faults,
                   broken>>

\* adapt_io_uring and adapt_iocp: each completion that was seen gives its result
\* to whoever is in the wait table under its token, and resumes it.
Reap ==
    /\ selecting.pc = "reap" /\ ~broken
    /\ LET c == Head(cq)[1] IN
       /\ cq' = Tail(cq)
       /\ Stay(IF selecting.seen = 1 THEN Idle ELSE [selecting EXCEPT !.seen = @ - 1])
       /\ wait_table' = [wait_table EXCEPT ![c] = NoOp]
       /\ IF wait_table[c] # NoOp /\ InOp(c)
          THEN /\ Over(c, client[c].n)
               /\ alien' = IF Head(cq)[2] = client[c].n THEN alien ELSE alien \cup {c}
          ELSE UNCHANGED <<client, alien>>
    /\ UNCHANGED <<system, queues, inflight, ran, twice, loose, faults, broken>>

RingsInit ==
    /\ system \in {"linux", "windows"}
    /\ sq = <<>> /\ backlog = <<>> /\ polling = FALSE
    /\ inflight = {} /\ cq = <<>>
    /\ wait_table = [c \in Clients |-> NoOp]
    /\ client = [c \in Clients |-> [suspended |-> FALSE, n |-> 0]]
    /\ selecting = Idle
    /\ ran = {} /\ twice = {} /\ alien = {} /\ loose = {}
    /\ faults = 0 /\ broken = FALSE

RingsLoop == timeout_add \/ do_select \/ CleanBacklog \/ do_select_w \/ Reap
Kernel == Take \/ \E o \in inflight : Complete(o)

RingsNext ==
    \/ \E c \in Clients, kind \in Layers : Uring(c, kind) \/ Unsupported(c, kind) \/ Iocp(c, kind)
    \/ \E c \in Clients : Expire(c) \/ BlockInAccept(c)
    \/ Kernel \/ Doze \/ RingsLoop
-----------------------------------------------------------------------------
RingsTypeOK ==
    /\ Len(sq) <= SqSize
    /\ \A c \in Clients : client[c].n \in 0..MaxOps
    /\ selecting.seen \in 0..Len(cq)
    /\ Made + faults <= MaxOps + 1

(* A call handed to the ring is carried out once, whatever queue it went   *)
(* through, and the result its caller gets is that of this very call,      *)
(* unless an earlier or the same submit reported an error, or a zero-copy  *)
(* send left a second completion behind.                                   *)
OwnResultOnce == twice \cup alien \subseteq loose

(* Every call handed to the ring returns, also when the submission queue   *)
(* was full and it went through the backlog; unless an assert failed, or   *)
(* an accept on Windows reached its limit and blocks the loop's thread.    *)
RingCallsReturn ==
    \A c \in Clients : InOp(c) ~> (~InOp(c) \/ broken \/ selecting.pc = "blocked")
=============================================================================
