---------------------------- MODULE SocketCalls ----------------------------
(***************************************************************************)
(* Hooked calls on one socket: the transfer layers of the nio macros,      *)
(* connect, setsockopt and ioctlsocket, made by several threads or         *)
(* coroutines at once, on Unix and on Windows.                             *)
(*                                                                         *)
(* A call puts a blocking socket into non-blocking mode, reads the         *)
(* socket's time limit through a process-wide cache, and repeats the raw   *)
(* call, waiting for an event for at most a SLICE in between; it restores  *)
(* the mode before it returns.  The kernel's side of the socket, and the   *)
(* end of a wait (EventLoops::wait_read_event may return early, late or    *)
(* with an error), are the environment.                                    *)
(***************************************************************************)
EXTENDS Integers, Sequences, FiniteSets

U == INSTANCE UnixCalls
W == INSTANCE WindowsCalls

CONSTANTS
    Callers,    \* threads and coroutines that use the socket
    MaxLimit,   \* largest finite time limit, in slices
    MaxCalls,   \* calls made on the socket in all
    Overlaps,       \* the pairs of kinds of calls that may overlap
    Commands,   \* the ioctlsocket commands the program uses
    Lengths,    \* buffer lengths of a plain transfer
    Vectors     \* lengths of the buffers of a vectored one

ASSUME SocketConstants ==
    /\ MaxLimit \in Nat \ {0} /\ MaxCalls \in Nat
    /\ Commands \subseteq {"FIONBIO", "FIONREAD"} /\ Lengths \subseteq Nat
    /\ \A v \in Vectors : v \in Seq(Nat \ {0}) /\ Len(v) = 2 /\ v[2] <= 2

VARIABLES
    os,             \* "unix" or "windows"
    nonblocking,    \* the kernel's mode of the socket
    NON_BLOCKING,   \* Windows: is the socket in the set of that name?
    wanted,         \* the mode the program chose last
    kernel,         \* SO_RCVTIMEO and SO_SNDTIMEO
    limits,         \* RECV_TIME_LIMIT and SEND_TIME_LIMIT
    conn,           \* "idle", "pending", "up", "refused" or "timedout"
    call,           \* the call each caller is in, or was in last
    made,           \* calls made so far
    shared,         \* did two calls ever overlap?
    aborted         \* a failed assert in an extern "C" function

vars == <<os, nonblocking, NON_BLOCKING, wanted, kernel, limits, conn,
          call, made, shared, aborted>>

mode == <<nonblocking, NON_BLOCKING, wanted>>
fixed == <<os, wanted, kernel, made, shared>>

Dirs == {"recv", "send"}
Forever == MaxLimit + 1
Limits == 1..Forever
None == 0

\* No call yet.
Idle == [pc |-> "idle", kind |-> "none", dir |-> "send", lens |-> <<>>,
         blocking |-> FALSE, on |-> FALSE, age |-> 0, left |-> 0, at |-> 1, done |-> 0,
         shift |-> 0, r |-> -1, errno |-> "ok", connected |-> FALSE,
         failed |-> FALSE, moved |-> 0]

Transfers == IF os = "unix" THEN U!transfers ELSE W!transfers_w
Plans == {p.nio : p \in IF os = "unix" THEN U!Chains ELSE W!Chains_w}

Rules(c) == Transfers[call[c].kind]
Dir(c) == call[c].dir
InCall(c) == call[c].pc \notin {"idle", "done"}
Quiet == \A c \in Callers : ~InCall(c)

\* A caller that returned takes its result before anybody else moves: what it
\* does with it is no business of the socket.
Running == ~aborted /\ \A c \in Callers : call[c].pc # "done"

At(c, pc) == Running /\ call[c].pc = pc
Becomes(c, rec) == call' = [call EXCEPT ![c] = rec]
Goto(c, pc) == Becomes(c, [call[c] EXCEPT !.pc = pc])

\* Mutant of Left: over one unit early.
Left_less(limit, age) ==
    IF limit = Forever THEN Forever ELSE IF age + 1 >= limit THEN 0 ELSE limit - age

\* left_time: what the limit leaves after the time since start_time.
Left(limit, age) ==
    IF limit = Forever THEN Forever ELSE IF age >= limit THEN 0 ELSE limit - age

Total(s) == IF s = <<>> THEN 0 ELSE IF Len(s) = 1 THEN s[1] ELSE s[1] + s[2]
\* length and stage in the loops over a vector: the bytes up to the end, and
\* up to the start, of the buffer being filled.
Upto(k) == Total(SubSeq(k.lens, 1, k.at))
Stage(k) == Total(SubSeq(k.lens, 1, k.at - 1))
Offset(k) == IF k.done > Stage(k) THEN k.done - Stage(k) ELSE 0
-----------------------------------------------------------------------------
(* Entering a call: is_blocking, then set_non_blocking for a blocking      *)
(* socket.                                                                 *)

Begin(c, rec) ==
    /\ \A x \in Callers : InCall(x) => {call[x].kind, rec.kind} \in Overlaps
    /\ Becomes(c, rec)
    /\ made' = made + 1
    /\ shared' = (shared \/ ~Quiet)

\* A transfer, on a connected (or listening) socket.
Enter(c, kind, lens) ==
    /\ kind \in DOMAIN Transfers \cap Plans /\ conn = "up"
    /\ IF Transfers[kind].vector THEN lens \in Vectors
       ELSE IF kind = "read" THEN lens = <<1>> ELSE lens \in {<<n>> : n \in Lengths}
    /\ Begin(c, [Idle EXCEPT !.pc = "mode", !.kind = kind, !.lens = lens,
                    !.dir = Transfers[kind].dir, !.r = Transfers[kind].start])
    /\ UNCHANGED <<os, nonblocking, NON_BLOCKING, wanted, kernel, limits, conn,
                   aborted>>

Connect(c) ==
    /\ "connect" \in Plans /\ conn # "up"
    /\ Begin(c, [Idle EXCEPT !.pc = "mode", !.kind = "connect"])
    /\ UNCHANGED <<os, nonblocking, NON_BLOCKING, wanted, kernel, limits, conn,
                   aborted>>

\* Unix asks fcntl, Windows its own set.
is_non_blocking == IF os = "unix" THEN nonblocking ELSE NON_BLOCKING

ReadMode(c) ==
    /\ At(c, "mode")
    /\ Becomes(c, [call[c] EXCEPT !.blocking = ~is_non_blocking, !.on = TRUE,
                   !.pc = IF is_non_blocking THEN "limit" ELSE "set"])
    /\ UNCHANGED <<fixed, nonblocking, NON_BLOCKING, limits, conn, aborted>>

AfterSet(c) ==
    IF call[c].on /\ call[c].kind # "ioctlsocket" THEN "limit" ELSE "done"

\* set_non_blocking_flag on Unix: F_SETFL with or without O_NONBLOCK.
set_non_blocking_flag(c) ==
    /\ At(c, "set") /\ os = "unix"
    /\ nonblocking' = call[c].on
    /\ Goto(c, AfterSet(c))
    /\ UNCHANGED <<fixed, NON_BLOCKING, limits, conn, aborted>>

\* set_non_blocking_flag on Windows: nothing to do if NON_BLOCKING already
\* says so, else the ioctl, then the set.
CheckSet_w(c) ==
    /\ At(c, "set") /\ os = "windows"
    /\ Goto(c, IF NON_BLOCKING = call[c].on THEN AfterSet(c) ELSE "ioctl")
    /\ UNCHANGED <<fixed, nonblocking, NON_BLOCKING, limits, conn, aborted>>

Ioctl_w(c) ==
    /\ At(c, "ioctl")
    /\ nonblocking' = call[c].on
    /\ Goto(c, "shadow")
    /\ UNCHANGED <<fixed, NON_BLOCKING, limits, conn, aborted>>

Shadow_w(c) ==
    /\ At(c, "shadow")
    /\ NON_BLOCKING' = call[c].on
    /\ Goto(c, AfterSet(c))
    /\ UNCHANGED <<fixed, nonblocking, limits, conn, aborted>>
-----------------------------------------------------------------------------
(* recv_time_limit and send_time_limit: the cached value, or the socket    *)
(* option, which is then inserted; the assert expects that nobody else     *)
(* inserted one meanwhile.  send_time_limit on Windows holds the entry     *)
(* while it asks.                                                          *)

Loop(c) == IF call[c].kind = "connect" THEN "connect" ELSE "loop"

time_limit(c) ==
    /\ At(c, "limit")
    /\ LET d == Dir(c) IN
       \/ /\ limits[d] # None
          /\ Becomes(c, [call[c] EXCEPT !.left = limits[d], !.age = 0,
                                        !.pc = Loop(c)])
          /\ UNCHANGED limits
       \/ /\ limits[d] = None
          /\ ~(os = "windows" /\ d = "send")
          /\ Becomes(c, [call[c] EXCEPT !.left = kernel[d], !.age = 0,
                                        !.pc = "insert"])
          /\ UNCHANGED limits
       \/ /\ limits[d] = None
          /\ os = "windows" /\ d = "send"
          /\ Becomes(c, [call[c] EXCEPT !.left = kernel[d], !.age = 0,
                                        !.pc = Loop(c)])
          /\ limits' = [limits EXCEPT ![d] = kernel[d]]
    /\ UNCHANGED <<fixed, nonblocking, NON_BLOCKING, conn, aborted>>

Insert(c, next) ==
    /\ limits' = [limits EXCEPT ![Dir(c)] = call[c].left]
    /\ aborted' = (limits[Dir(c)] # None)
    /\ Goto(c, next)
    /\ UNCHANGED <<fixed, nonblocking, NON_BLOCKING, conn>>

InsertLimit(c) == At(c, "insert") /\ Insert(c, Loop(c))
-----------------------------------------------------------------------------
(* The kernel's side of a raw transfer: it may move any number of bytes up *)
(* to the room it is given, report the end of the stream or an error.      *)

Result(n, errno) == [n |-> n, errno |-> errno]

\* The buffer room the raw call is given.  arg[0] is moved by the offset once
\* more on every turn of the loop; sendmsg and recvmsg on Linux pass the
\* vector's old length with the shorter vector, so that the kernel may also
\* go past its end.
Room(k) == Total(SubSeq(k.lens, k.at, Len(k.lens))) - (k.shift + Offset(k))

Overread(k) == k.kind \in {"recvmsg", "sendmsg"} /\ k.at > 1

RawResults(k, dir) ==
    {Result(n, "ok") : n \in 1..(Room(k) + (IF Overread(k) THEN 1 ELSE 0))}
    \cup {Result(0, "ok") : x \in {y \in {0} : dir = "recv" \/ Room(k) = 0}}
    \cup {Result(-1, "other")}

\* Mutant of Accounted: a short transfer is tried again.
Accounted_retry(k, rules, res) ==
    LET n == IF res.n > 0 THEN res.n ELSE 0
        moved == [k EXCEPT !.errno = res.errno, !.done = @ + n, !.pc = "loop",
                           !.shift = @ + Offset(k), !.moved = @ + n]
    IN  IF res.n > 0 THEN [moved EXCEPT !.r = k.done + n]
        ELSE [moved EXCEPT !.r = res.n, !.pc = "restore"]

\* What the loop does with a result: r, the bytes, and where it goes next.
Accounted(k, rules, res) ==
    LET n == IF res.n > 0 THEN res.n ELSE 0
        all == k.done + n
        moved == [k EXCEPT !.errno = res.errno, !.done = all, !.pc = "loop",
                           !.shift = @ + Offset(k), !.moved = @ + n]
        ends(r) == [moved EXCEPT !.r = r, !.pc = "restore"]
    IN  IF res.n = -1
        THEN IF res.errno = "intr" THEN [moved EXCEPT !.r = -1] ELSE ends(-1)
        ELSE IF all >= Upto(k) THEN [moved EXCEPT !.r = all]
        ELSE IF res.n = 0 /\ rules.eof = "sum" THEN ends(all) ELSE ends(n)

\* Mutant of WouldBlock: left_time is not computed anew.
WouldBlock_stale(k, limit) ==
    [k EXCEPT !.r = -1, !.errno = "again", !.pc = "wait", !.shift = @ + Offset(k)]

\* Nothing to transfer: EAGAIN, left_time anew, and a wait.
WouldBlock(k, limit) ==
    [k EXCEPT !.r = -1, !.errno = "again", !.pc = "wait",
              !.shift = @ + Offset(k), !.left = Left(limit, k.age)]

\* One turn of "while received < len && left_time > 0".  The thread blocks in
\* the kernel if somebody put the socket back into blocking mode.
RawCall(c) ==
    /\ At(c, "loop")
    /\ LET k == call[c] IN
       /\ k.done < Upto(k) /\ k.left > 0
       /\ \/ \E res \in RawResults(k, Dir(c)) : Becomes(c, Accounted(k, Rules(c), res))
          \/ /\ Room(k) > 0 /\ nonblocking
             /\ Becomes(c, WouldBlock(k, limits[Dir(c)]))
          \/ /\ Room(k) > 0 /\ ~nonblocking
             /\ Goto(c, "blocked")
    /\ UNCHANGED <<fixed, nonblocking, NON_BLOCKING, limits, conn, aborted>>

\* The end of a blocked raw call: bytes, a signal, or the socket's own limit.
Unblock(c) ==
    /\ At(c, "blocked") /\ call[c].kind # "connect"
    /\ LET k == call[c] IN
       \/ \E res \in RawResults(k, Dir(c)) \cup {Result(-1, "intr")} :
            Becomes(c, Accounted(k, Rules(c), res))
       \/ /\ kernel[Dir(c)] # Forever
          /\ Becomes(c, WouldBlock(k, limits[Dir(c)]))
    /\ UNCHANGED <<fixed, nonblocking, NON_BLOCKING, limits, conn, aborted>>

\* The next buffer of a vector, or the end of the call.
NextBuffer(c) ==
    /\ At(c, "loop")
    /\ LET k == call[c] IN
         /\ k.done >= Upto(k) \/ k.left = 0
         /\ Becomes(c, IF k.at < Len(k.lens)
                       THEN [k EXCEPT !.at = @ + 1, !.shift = 0]
                       ELSE [k EXCEPT !.pc = "restore"])
    /\ UNCHANGED <<fixed, nonblocking, NON_BLOCKING, limits, conn, aborted>>

\* The end of EventLoops::wait_read_event or wait_write_event.
WaitEnds(c) ==
    /\ At(c, "wait")
    /\ Goto(c, IF call[c].kind = "connect" THEN "peer" ELSE "loop")
    /\ UNCHANGED <<fixed, nonblocking, NON_BLOCKING, limits, conn, aborted>>

WaitFails(c) ==
    /\ At(c, "wait")
    /\ LET k == call[c]
           sum == k.kind # "connect" /\ Rules(c).failed = "sum"
       IN Becomes(c, [k EXCEPT !.failed = TRUE, !.pc = "restore",
                               !.r = IF sum THEN k.done ELSE @])
    /\ UNCHANGED <<fixed, nonblocking, NON_BLOCKING, limits, conn, aborted>>

\* Mutant of Restore: an error returns early.
Restore_success(c) ==
    /\ At(c, "restore")
    /\ Becomes(c, [call[c] EXCEPT !.on = FALSE,
                     !.pc = IF call[c].blocking /\ call[c].r # -1 THEN "set" ELSE "done"])
    /\ UNCHANGED <<fixed, nonblocking, NON_BLOCKING, limits, conn, aborted>>

\* set_blocking for a socket that was blocking.
Restore(c) ==
    /\ At(c, "restore")
    /\ Becomes(c, [call[c] EXCEPT !.on = FALSE,
                     !.pc = IF call[c].blocking THEN "set" ELSE "done"])
    /\ UNCHANGED <<fixed, nonblocking, NON_BLOCKING, limits, conn, aborted>>

Leave(c) ==
    /\ ~aborted /\ call[c].pc = "done"
    /\ Becomes(c, Idle)
    /\ UNCHANGED <<fixed, nonblocking, NON_BLOCKING, limits, conn, aborted>>
-----------------------------------------------------------------------------
(* connect: the raw call once, then a loop that waits for the socket to    *)
(* become writable and asks getpeername and SO_ERROR.                      *)

ConnectGets(c, r, errno) ==
    Becomes(c, [call[c] EXCEPT !.r = r, !.errno = errno, !.pc = "cloop"])

RawConnect(c) ==
    /\ At(c, "connect")
    /\ \/ /\ conn = "idle"
          /\ conn' = "pending"
          /\ IF nonblocking THEN ConnectGets(c, -1, "progress")
             ELSE Goto(c, "blocked")
       \/ /\ conn = "idle"
          /\ conn' = "up"
          /\ ConnectGets(c, 0, "ok")
       \/ /\ conn = "pending"
          /\ UNCHANGED conn
          /\ ConnectGets(c, -1, "progress")
       \/ /\ conn = "up"
          /\ UNCHANGED conn
          /\ ConnectGets(c, -1, "other")
       \/ /\ conn \in {"refused", "timedout"}
          /\ conn' = "idle"
          /\ ConnectGets(c, -1, conn)
    /\ UNCHANGED <<fixed, nonblocking, NON_BLOCKING, limits, aborted>>

\* A connect that blocks in the kernel: answered, interrupted or, after the
\* socket's own limit, still in progress.
UnblockConnect(c) ==
    /\ At(c, "blocked") /\ call[c].kind = "connect"
    /\ \/ /\ conn = "up"
          /\ UNCHANGED conn
          /\ ConnectGets(c, 0, "ok")
       \/ /\ conn \in {"refused", "timedout"}
          /\ conn' = "idle"
          /\ ConnectGets(c, -1, conn)
       \/ /\ conn \in {"pending", "idle"}
          /\ UNCHANGED conn
          /\ \E e \in {"intr"} \cup {x \in {"progress"} : kernel["send"] # Forever} :
               ConnectGets(c, -1, e)
    /\ UNCHANGED <<fixed, nonblocking, NON_BLOCKING, limits, aborted>>

\* The head of the loop.  With EINTR it turns without ever changing r, errno
\* or left_time, so there is no step.
ConnectLoop(c) ==
    /\ At(c, "cloop")
    /\ LET k == call[c]
           exit == [k EXCEPT !.pc = "restore",
                             !.errno = IF k.r = 0 THEN "ok"
                                       ELSE IF @ = "timedout" THEN "expired" ELSE @]
       IN  IF k.left > 0 /\ k.errno = "progress"
           THEN Becomes(c, [k EXCEPT !.pc = "wait",
                                     !.left = Left(limits["send"], k.age)])
           ELSE (k.left = 0 \/ k.errno # "intr") /\ Becomes(c, exit)
    /\ UNCHANGED <<fixed, nonblocking, NON_BLOCKING, limits, conn, aborted>>

getpeername(c) ==
    /\ At(c, "peer")
    /\ Becomes(c, [call[c] EXCEPT !.connected = (conn = "up"), !.pc = "so_error"])
    /\ UNCHANGED <<fixed, nonblocking, NON_BLOCKING, limits, conn, aborted>>

\* Mutant of so_error: no error means connected.
so_error_only(c) ==
    /\ At(c, "so_error")
    /\ IF conn \in {"refused", "timedout"}
       THEN conn' = "idle" /\ ConnectGets(c, -1, conn)
       ELSE UNCHANGED conn /\ ConnectGets(c, 0, "ok")
    /\ UNCHANGED <<fixed, nonblocking, NON_BLOCKING, limits, aborted>>

\* getsockopt(SO_ERROR) reports and clears a failed connection.
so_error(c) ==
    /\ At(c, "so_error")
    /\ IF conn \in {"refused", "timedout"}
       THEN /\ conn' = "idle"
            /\ ConnectGets(c, -1, conn)
       ELSE /\ UNCHANGED conn
            /\ IF call[c].connected THEN ConnectGets(c, 0, "ok")
               ELSE ConnectGets(c, -1, "progress")
    /\ UNCHANGED <<fixed, nonblocking, NON_BLOCKING, limits, aborted>>
-----------------------------------------------------------------------------
(* setsockopt with SO_RCVTIMEO or SO_SNDTIMEO: the option, then the cache. *)
Setsockopt(c, d, l) ==
    /\ "setsockopt" \in Plans
    /\ Begin(c, [Idle EXCEPT !.pc = "record", !.kind = "setsockopt",
                             !.dir = d, !.left = l, !.r = 0])
    /\ kernel' = [kernel EXCEPT ![d] = l]
    /\ UNCHANGED <<os, nonblocking, NON_BLOCKING, wanted, limits, conn, aborted>>

RecordLimit(c) == At(c, "record") /\ Insert(c, "done")

(* ioctlsocket: the command, then NON_BLOCKING from *argp, whatever the    *)
(* command was: FIONREAD has put the number of readable bytes there.       *)
Ioctlsocket(c, cmd, arg) ==
    /\ "ioctlsocket" \in Plans
    /\ Begin(c, [Idle EXCEPT !.pc = "shadow", !.kind = "ioctlsocket",
                             !.on = arg, !.r = 0])
    /\ nonblocking' = IF cmd = "FIONBIO" THEN arg ELSE nonblocking
    /\ wanted' = IF cmd = "FIONBIO" THEN arg ELSE wanted
    /\ UNCHANGED <<os, NON_BLOCKING, kernel, limits, conn, aborted>>

(* The program's own fcntl, between calls.                                 *)
SetMode ==
    /\ Running /\ os = "unix" /\ Quiet
    /\ nonblocking' = ~nonblocking
    /\ wanted' = ~nonblocking
    /\ UNCHANGED <<os, NON_BLOCKING, kernel, limits, conn, call, made, shared, aborted>>
-----------------------------------------------------------------------------
(* The peer's answer to a connection attempt, and time.                    *)
Answer ==
    /\ Running /\ conn = "pending"
    /\ conn' \in {"up", "refused", "timedout"}
    /\ UNCHANGED <<os, mode, kernel, limits, call, made, shared, aborted>>

Timed(k) == k.pc \in {"insert", "loop", "blocked", "wait", "connect", "cloop",
                      "peer", "so_error"}

Tick ==
    /\ Running
    /\ \E c \in Callers : Timed(call[c]) /\ call[c].age < MaxLimit
    /\ call' = [c \in Callers |->
                  IF Timed(call[c]) /\ call[c].age < MaxLimit
                  THEN [call[c] EXCEPT !.age = @ + 1] ELSE call[c]]
    /\ UNCHANGED <<os, mode, kernel, limits, conn, made, shared, aborted>>

Init ==
    /\ os \in {"unix", "windows"}
    /\ nonblocking \in BOOLEAN
    /\ NON_BLOCKING = (os = "windows" /\ nonblocking)
    /\ wanted = nonblocking
    /\ \E l \in Limits : kernel = [d \in Dirs |-> l]
    /\ limits = [d \in Dirs |-> None]
    /\ conn \in {"idle", "up"}
    /\ call = [c \in Callers |-> Idle]
    /\ made = 0
    /\ shared = FALSE
    /\ aborted = FALSE

Step(c) ==
    \/ ReadMode(c) \/ set_non_blocking_flag(c) \/ CheckSet_w(c) \/ Ioctl_w(c)
    \/ Shadow_w(c) \/ time_limit(c) \/ InsertLimit(c) \/ RawCall(c)
    \/ NextBuffer(c) \/ Unblock(c) \/ WaitEnds(c) \/ WaitFails(c) \/ Restore(c)
    \/ RawConnect(c) \/ UnblockConnect(c) \/ ConnectLoop(c) \/ getpeername(c)
    \/ so_error(c) \/ RecordLimit(c) \/ Leave(c)

Call(c) ==
    /\ Running /\ ~InCall(c) /\ made < MaxCalls
    /\ \/ \E kind \in DOMAIN Transfers,
             lens \in Vectors \cup {<<n>> : n \in Lengths \cup {1}} :
            Enter(c, kind, lens)
       \/ Connect(c)
       \/ \E d \in Dirs, l \in Limits : Setsockopt(c, d, l)
       \/ \E cmd \in Commands, arg \in BOOLEAN : Ioctlsocket(c, cmd, arg)

Next ==
    \/ \E c \in Callers : Call(c) \/ Step(c)
    \/ SetMode \/ Answer \/ Tick

-----------------------------------------------------------------------------
TypeOK ==
    /\ os \in {"unix", "windows"}
    /\ {nonblocking, NON_BLOCKING, wanted, shared, aborted} \subseteq BOOLEAN
    /\ kernel \in [Dirs -> Limits] /\ limits \in [Dirs -> Limits \cup {None}]
    /\ made \in 0..MaxCalls
    /\ \A c \in Callers :
         /\ call[c].left \in 0..Forever /\ call[c].age \in 0..MaxLimit
         /\ call[c].at \in 1..2 /\ call[c].done \in 0..(Total(call[c].lens) + 1)

Returned(c, kinds) == call[c].pc = "done" /\ call[c].kind \in kinds

(* A transfer into or out of one buffer returns the number of bytes that   *)
(* were moved, and an error only when none was.  A vectored one never      *)
(* claims more than was moved (it may claim less).                         *)
BytesAccounted ==
    \A c \in Callers : Returned(c, DOMAIN Transfers) =>
        IF Rules(c).vector THEN call[c].r <= call[c].moved
        ELSE call[c].r = call[c].moved \/ (call[c].r = -1 /\ call[c].moved = 0)

(* Once no call is under way the socket is in the mode the program chose,  *)
(* and on Windows NON_BLOCKING says so too, unless calls overlapped there; *)
(* and no call blocks its thread in the kernel unless another call on the  *)
(* same socket overlapped with it.                                         *)
ModeRestored ==
    /\ (Quiet /\ ~aborted /\ (os = "unix" \/ ~shared)) =>
          /\ nonblocking = wanted
          /\ os = "windows" => NON_BLOCKING = wanted
    /\ (\E c \in Callers : call[c].pc = "blocked") => shared

(* "Would block" and "in progress" reach the caller only when the time     *)
(* limit the socket has (the cached one, if calls overlapped) is over or a *)
(* wait failed.                                                            *)
WouldBlockMeansLimit ==
    \A c \in Callers :
        (/\ ~aborted /\ Returned(c, DOMAIN Transfers \cup {"connect"})
         /\ call[c].r = -1 /\ call[c].errno \in {"again", "progress"})
        => \/ call[c].failed
           \/ call[c].age >= (IF shared THEN limits ELSE kernel)[Dir(c)]

(* connect returns 0 only for a socket that is connected.                  *)
ConnectTruth ==
    \A c \in Callers : (Returned(c, {"connect"}) /\ call[c].r = 0) => conn = "up"

(* A call on a socket with a time limit returns, even if the peer never    *)
(* answers, as long as no other call overlaps with it.                     *)
CallsReturn ==
    \A c \in Callers :
        (InCall(c) /\ limits[Dir(c)] \in 1..MaxLimit)
        ~> (~InCall(c) \/ aborted \/ shared)
=============================================================================
