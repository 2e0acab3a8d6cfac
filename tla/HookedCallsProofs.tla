-------------------------- MODULE HookedCallsProofs --------------------------
(***************************************************************************)
(* What hooked calls do to a socket and to a mutex, how long they wait and *)
(* what they report, for any number of callers, any buffers and time       *)
(* limits and any overlapping of calls.  The first part is about the mode  *)
(* of the socket and the owner of the mutex (ModeInv, LockInv), the second *)
(* about the time that timed calls take (TimedInv), the third about the    *)
(* bytes, errors and time limits of the calls on a socket (SocketInv).     *)
(***************************************************************************)
EXTENDS HookedCalls, TLAPS

USE ZenonT(30)

\* The fields of a call that the arguments are about.
Fields == {"pc", "kind", "blocking", "on", "r", "connected"}

IsCall(k) == Fields \subseteq DOMAIN k

\* The places between the choice of the mode and its restoring.
Working == {"limit", "insert", "loop", "wait", "connect", "cloop", "peer", "so_error",
            "restore"}
Spots == Working \cup {"idle", "done", "mode", "set", "ioctl", "shadow", "record", "blocked"}

CallsTyped ==
    /\ DOMAIN call = Callers
    /\ \A c \in Callers : /\ IsCall(call[c]) /\ call[c].pc \in Spots
                          /\ call[c].blocking \in BOOLEAN /\ call[c].on \in BOOLEAN
    /\ os \in {"unix", "windows"}
    /\ nonblocking \in BOOLEAN /\ NON_BLOCKING \in BOOLEAN /\ wanted \in BOOLEAN
    /\ shared \in BOOLEAN

\* Which calls are where.
PhaseOK(k) ==
    /\ k.pc \in {"set", "ioctl"} => k.blocking
    /\ k.pc = "shadow" => k.blocking \/ k.kind = "ioctlsocket"
    /\ k.pc \in {"mode", "record"} => ~k.blocking
    /\ k.pc \in {"ioctl", "shadow"} => os = "windows"
    /\ k.kind = "ioctlsocket" => os = "windows" /\ k.pc \in {"shadow", "done"}
    /\ k.pc = "loop" => k.kind # "connect"

\* On Unix a call that found the socket blocking owes it that mode, and while
\* the socket's mode is not the wanted one somebody does.
UnixMode ==
    os = "unix" =>
        /\ \A c \in Callers : InCall(c) /\ call[c].blocking => ~wanted
        /\ wanted => nonblocking
        /\ nonblocking /\ ~wanted => \E c \in Callers : InCall(c) /\ call[c].blocking

Shadowed == os = "windows" => (NON_BLOCKING <=> nonblocking)

SoloPhase(k) ==
    /\ k.pc # "blocked"
    /\ k.pc \in {"mode", "record"} => (nonblocking <=> wanted) /\ Shadowed
    /\ k.pc \in {"set", "ioctl"} => ~wanted /\ (nonblocking <=> ~k.on) /\ Shadowed
    /\ k.pc = "shadow" => /\ nonblocking <=> k.on
                          /\ wanted <=> (k.on /\ k.kind = "ioctlsocket")
    /\ k.pc \in Working => nonblocking /\ Shadowed /\ (wanted <=> ~k.blocking)

\* As long as no two calls overlapped, the mode follows the one call's place.
Solo ==
    ~shared =>
        /\ \A c, d \in Callers : InCall(c) /\ InCall(d) => c = d
        /\ Quiet => (nonblocking <=> wanted) /\ Shadowed
        /\ \A c \in Callers : InCall(c) => SoloPhase(call[c])

ModeInv ==
    /\ CallsTyped
    /\ \A c \in Callers : PhaseOK(call[c])
    /\ UnixMode
    /\ Solo

\* m is the call k a little later.
Goes(k, m) == /\ IsCall(m) /\ m.kind = k.kind /\ m.blocking = k.blocking /\ m.on = k.on
              /\ m.connected = k.connected

\* Only caller c moves.
Moves(c) ==
    /\ DOMAIN call' = Callers /\ IsCall(call'[c])
    /\ \A d \in Callers : d # c => call'[d] = call[d]

\* A call that works: it only moves among the working places, and blocks in
\* the kernel only if somebody put the socket back into blocking mode.
Works(c) ==
    /\ Moves(c)
    /\ UNCHANGED <<os, nonblocking, NON_BLOCKING, wanted, shared>>
    /\ call[c].pc \in Working \cup {"blocked"} /\ call'[c].pc \in Working \cup {"blocked"}
    /\ call'[c].pc = "blocked" => ~nonblocking
    /\ call'[c].pc = "loop" => call'[c].kind # "connect"
    /\ call'[c].kind = call[c].kind /\ call'[c].blocking = call[c].blocking
    /\ call'[c].on = call[c].on
-----------------------------------------------------------------------------
\* No call yet: Idle.
LEMMA IdleIsCall ==
    /\ IsCall(Idle) /\ Idle.pc = "idle" /\ Idle.blocking = FALSE /\ Idle.on = FALSE
    /\ Idle.r = -1 /\ Idle.connected = FALSE
  BY DEF IsCall, Fields, Idle

\* No call on Unix has the layer of ioctlsocket.
LEMMA UnixPlans == os = "unix" => "ioctlsocket" \notin Plans
  BY SMT DEF Plans, U!Chains, U!calls_by_name, U!Chain, U!accept, U!accept4, U!close,
       U!connect,
    U!fsync, U!link, U!listen, U!lseek, U!mkdir, U!mkdirat, U!nanosleep, U!poll, U!pread,
    U!preadv, U!pthread_cond_timedwait, U!pthread_mutex_lock, U!pthread_mutex_trylock,
    U!pthread_mutex_unlock, U!pwrite, U!pwritev, U!read, U!readv, U!recv, U!recvfrom,
    U!recvmsg, U!renameat, U!renameat2, U!rmdir, U!select, U!send, U!sendmsg, U!sendto,
    U!setsockopt, U!shutdown, U!sleep, U!socket, U!unlink, U!usleep, U!write, U!writev

\* ModeInv holds of a socket nobody has called on yet.
LEMMA ModeInitially == Init => ModeInv
<1> SUFFICES ASSUME Init
             PROVE  ModeInv
  OBVIOUS
<1>1. \A c \in Callers : call[c] = Idle
  BY DEF Init
<1>2. CallsTyped
  BY <1>1, IdleIsCall DEF Init, CallsTyped, Spots
<1>3. \A c \in Callers : PhaseOK(call[c])
  BY <1>1, SMT DEF PhaseOK, Idle
<1>4. ~shared /\ Quiet /\ (nonblocking <=> wanted) /\ Shadowed
  BY <1>1, IdleIsCall DEF Init, Quiet, InCall, Shadowed
<1> QED
  BY <1>2, <1>3, <1>4 DEF ModeInv, UnixMode, Solo, Quiet

\* What the loops make of a call's record.
LEMMA LoopValues ==
    ASSUME NEW k, IsCall(k), NEW rules, NEW res, NEW limit
    PROVE  /\ Goes(k, Accounted(k, rules, res))
           /\ Accounted(k, rules, res).pc \in {"loop", "restore"}
           /\ Goes(k, WouldBlock(k, limit)) /\ WouldBlock(k, limit).pc = "wait"
<1>1. Goes(k, Accounted(k, rules, res)) /\ Accounted(k, rules, res).pc \in {"loop", "restore"}
  BY DEF Accounted, Goes, IsCall, Fields
<1>2. Goes(k, WouldBlock(k, limit)) /\ WouldBlock(k, limit).pc = "wait"
  BY DEF WouldBlock, Goes, IsCall, Fields
<1> QED
  BY <1>1, <1>2

\* A caller that becomes such a record works; likewise one that only moves.
LEMMA BecomesWorks ==
    ASSUME ModeInv, NEW c \in Callers, NEW m, Becomes(c, m), Goes(call[c], m),
           UNCHANGED <<os, nonblocking, NON_BLOCKING, wanted, shared>>,
           call[c].pc \in Working \cup {"blocked"}, m.pc \in Working \cup {"blocked"},
           m.pc = "blocked" => ~nonblocking,
           m.pc = "loop" => m.kind # "connect"
    PROVE  Works(c)
  BY DEF Becomes, Works, Moves, Goes, ModeInv, CallsTyped

\* A caller that only goes to another working place works.
LEMMA GotoWorks ==
    ASSUME ModeInv, NEW c \in Callers, NEW pc, Goto(c, pc),
           UNCHANGED <<os, nonblocking, NON_BLOCKING, wanted, shared>>,
           call[c].pc \in Working \cup {"blocked"}, pc \in Working \cup {"blocked"},
           pc = "blocked" => ~nonblocking,
           pc = "loop" => call[c].kind # "connect"
    PROVE  Works(c)
  BY DEF Goto, Becomes, Works, Moves, IsCall, Fields, ModeInv, CallsTyped

\* The steps of the transfer loops are work.
LEMMA WorkTransfers ==
    ASSUME ModeInv, NEW c \in Callers,
           time_limit(c) \/ InsertLimit(c) \/ RawCall(c) \/ Unblock(c) \/ NextBuffer(c)
             \/ WaitEnds(c) \/ WaitFails(c)
    PROVE  Works(c)
<1> DEFINE k == call[c]
<1>k. IsCall(k) /\ (k.pc = "loop" => k.kind # "connect")
  BY DEF ModeInv, CallsTyped, PhaseOK
<1>1. CASE time_limit(c)
  <2>1. PICK left, pc : /\ Becomes(c, [k EXCEPT !.left = left, !.age = 0, !.pc = pc])
                        /\ pc \in {Loop(c), "insert"}
    BY <1>1 DEF time_limit
  <2>2. Goes(k, [k EXCEPT !.left = left, !.age = 0, !.pc = pc])
        /\ [k EXCEPT !.left = left, !.age = 0, !.pc = pc].pc = pc
    BY <1>k DEF Goes, IsCall, Fields
  <2> QED
    BY <1>1, <2>1, <2>2, BecomesWorks DEF time_limit, Loop, At, fixed, Working, Goes
<1>2. CASE InsertLimit(c)
  BY <1>2, GotoWorks DEF InsertLimit, Insert, At, fixed, Loop, Working
<1>3. CASE RawCall(c)
  <2>1. \/ \E res : Becomes(c, Accounted(k, Rules(c), res))
        \/ \E limit : Becomes(c, WouldBlock(k, limit))
        \/ ~nonblocking /\ Goto(c, "blocked")
    BY <1>3 DEF RawCall
  <2> QED
    BY <1>3, <1>k, <2>1, LoopValues, BecomesWorks, GotoWorks DEF RawCall, At,
         fixed, Working, Goes
<1>4. CASE Unblock(c)
  <2>1. \/ \E res : Becomes(c, Accounted(k, Rules(c), res))
        \/ \E limit : Becomes(c, WouldBlock(k, limit))
    BY <1>4 DEF Unblock
  <2> QED
    BY <1>4, <1>k, <2>1, LoopValues, BecomesWorks, SMT DEF Unblock, At, fixed, Working, Goes
<1>5. CASE NextBuffer(c)
  BY <1>5 DEF NextBuffer, Works, Moves, IsCall, Fields, Working, ModeInv,
       CallsTyped, PhaseOK, Becomes, At, fixed
<1>6. CASE WaitEnds(c)
  BY <1>6, GotoWorks DEF WaitEnds, At, fixed, Working
<1>7. CASE WaitFails(c)
  BY <1>7 DEF WaitFails, Works, Moves, IsCall, Fields, Working, ModeInv,
       CallsTyped, PhaseOK, Becomes, At, fixed
<1> QED
  BY <1>1, <1>2, <1>3, <1>4, <1>5, <1>6, <1>7

\* The steps of connect are work.
LEMMA WorkConnects ==
    ASSUME ModeInv, NEW c \in Callers,
           RawConnect(c) \/ UnblockConnect(c) \/ ConnectLoop(c) \/ getpeername(c) \/ so_error(c)
    PROVE  Works(c)
<1>k. IsCall(call[c])
  BY DEF ModeInv, CallsTyped
<1>g. ASSUME NEW r, NEW errno, ConnectGets(c, r, errno), call[c].pc \in Working \cup {"blocked"},
             UNCHANGED <<os, nonblocking, NON_BLOCKING, wanted, shared>>
      PROVE  Works(c)
  BY <1>g DEF ConnectGets, Becomes, Works, Moves, IsCall, Fields, Working, ModeInv,
       CallsTyped
<1>1. CASE RawConnect(c)
  <2>1. (\E r, errno : ConnectGets(c, r, errno)) \/ (~nonblocking /\ Goto(c, "blocked"))
    BY <1>1 DEF RawConnect
  <2> QED
    BY <1>1, <1>g, <2>1, GotoWorks DEF RawConnect, At, fixed, Working
<1>2. CASE UnblockConnect(c)
  <2>1. \E r, errno : ConnectGets(c, r, errno)
    BY <1>2 DEF UnblockConnect
  <2> QED
    BY <1>2, <1>g, <2>1 DEF UnblockConnect, At, fixed
<1>3. CASE ConnectLoop(c)
  <2>1. \/ \E left : Becomes(c, [call[c] EXCEPT !.pc = "wait", !.left = left])
        \/ \E errno : Becomes(c, [call[c] EXCEPT !.pc = "restore", !.errno = errno])
    BY <1>3 DEF ConnectLoop
  <2>2. \A left : /\ Goes(call[c], [call[c] EXCEPT !.pc = "wait", !.left = left])
                  /\ [call[c] EXCEPT !.pc = "wait", !.left = left].pc = "wait"
    BY <1>k DEF Goes, IsCall, Fields
  <2>3. \A errno : /\ Goes(call[c], [call[c] EXCEPT !.pc = "restore", !.errno = errno])
                   /\ [call[c] EXCEPT !.pc = "restore", !.errno = errno].pc = "restore"
    BY <1>k DEF Goes, IsCall, Fields
  <2> QED
    BY <1>3, <2>1, <2>2, <2>3, BecomesWorks DEF ConnectLoop, At, fixed, Working
<1>4. CASE getpeername(c)
  BY <1>4 DEF getpeername, Works, Moves, IsCall, Fields, Working, ModeInv,
       CallsTyped, Becomes, At, fixed
<1>5. CASE so_error(c)
  <2>1. \E r, errno : ConnectGets(c, r, errno)
    BY <1>5 DEF so_error
  <2> QED
    BY <1>5, <1>g, <2>1 DEF so_error, At, fixed, Working
<1> QED
  BY <1>1, <1>2, <1>3, <1>4, <1>5

\* Work keeps the invariant: it leaves the mode alone.
LEMMA WorkKeepsMode ==
    ASSUME ModeInv, NEW c \in Callers, Works(c)
    PROVE  ModeInv'
<1>1. /\ \A d \in Callers : d # c => call'[d] = call[d]
      /\ UNCHANGED <<os, nonblocking, NON_BLOCKING, wanted, shared>>
      /\ call[c].pc \in Working \cup {"blocked"} /\ call'[c].pc \in Working \cup {"blocked"}
      /\ call'[c].kind = call[c].kind /\ call'[c].blocking = call[c].blocking
      /\ call'[c].on = call[c].on
  BY DEF Works, Moves
<1>2. CallsTyped'
  BY <1>1 DEF Works, Moves, ModeInv, CallsTyped, Spots
<1>3. \A d \in Callers : InCall(d)' <=> InCall(d)
  BY <1>1 DEF InCall, Working
<1>4. \A d \in Callers : PhaseOK(call[d])'
  <2>1. PhaseOK(call[c])'
    BY <1>1 DEF Works, ModeInv, PhaseOK, Working
  <2> QED
    BY <1>1, <2>1 DEF ModeInv, PhaseOK
<1>5. UnixMode'
  <2>1. \A d \in Callers : call'[d].blocking = call[d].blocking
    BY <1>1
  <2> QED
    BY <1>1, <1>3, <2>1 DEF ModeInv, UnixMode
<1>6. Solo'
  <2> SUFFICES ASSUME ~shared
               PROVE  /\ \A x, y \in Callers : InCall(x)' /\ InCall(y)' => x = y
                      /\ Quiet' => (nonblocking <=> wanted) /\ Shadowed
                      /\ \A d \in Callers : InCall(d)' => SoloPhase(call[d])'
    BY <1>1 DEF Solo, Shadowed
  <2>1. Solo /\ InCall(c)
    BY <1>1 DEF ModeInv, InCall, Working
  <2>2. ~Quiet'
    BY <1>3, <2>1 DEF Quiet
  <2>3. SoloPhase(call[c])
    BY <2>1 DEF Solo
  <2>4. call[c].pc # "blocked" /\ nonblocking /\ Shadowed /\ (wanted <=> ~call[c].blocking)
    BY <1>1, <2>3 DEF SoloPhase
  <2>5. call'[c].pc \in Working
    BY <1>1, <2>4 DEF Works
  <2>6. SoloPhase(call[c])'
    BY <1>1, <2>4, <2>5 DEF SoloPhase, Shadowed, Working
  <2>7. \A d \in Callers : InCall(d)' => d = c
    BY <1>3, <2>1 DEF Solo
  <2> QED
    BY <1>3, <2>1, <2>2, <2>6, <2>7 DEF Solo
<1> QED
  BY <1>2, <1>4, <1>5, <1>6 DEF ModeInv

\* A call other than ioctlsocket begins: if another one is under way they
\* overlap from now on.
LEMMA BeginKeepsMode ==
    ASSUME ModeInv, NEW c \in Callers, ~InCall(c), NEW m, IsCall(m), Begin(c, m),
           m.pc \in {"mode", "record"}, m.blocking = FALSE, m.on = FALSE, m.kind # "ioctlsocket",
           UNCHANGED <<os, nonblocking, NON_BLOCKING, wanted>>
    PROVE  ModeInv'
<1> USE DEF Begin, Becomes, Spots
<1>1. CallsTyped'
  BY DEF ModeInv, CallsTyped
<1>2. \A d \in Callers : PhaseOK(call[d])'
  BY DEF ModeInv, CallsTyped, PhaseOK
<1>3. UnixMode'
  BY DEF ModeInv, CallsTyped, UnixMode, InCall
<1>4. Solo'
  <2> SUFFICES ASSUME ~shared'
               PROVE  Solo'
    BY DEF Solo
  <2>1. Quiet /\ (nonblocking <=> wanted) /\ Shadowed
    BY DEF ModeInv, CallsTyped, Solo
  <2>2. \A d \in Callers : InCall(d)' => d = c
    BY <2>1 DEF ModeInv, CallsTyped, Quiet, InCall
  <2>3. call'[c] = m /\ InCall(c)'
    BY DEF ModeInv, CallsTyped, InCall
  <2> QED
    BY <2>1, <2>2, <2>3 DEF Solo, SoloPhase, Shadowed, Quiet, Working
<1> QED
  BY <1>1, <1>2, <1>3, <1>4 DEF ModeInv

\* ioctlsocket(FIONBIO) sets the mode the program wants, and owes NON_BLOCKING.
LEMMA IoctlsocketKeepsMode ==
    ASSUME ModeInv, NEW c \in Callers, ~InCall(c), NEW arg \in BOOLEAN,
           Ioctlsocket(c, "FIONBIO", arg)
    PROVE  ModeInv'
<1> DEFINE m == [Idle EXCEPT !.pc = "shadow", !.kind = "ioctlsocket", !.on = arg, !.r = 0]
<1>1. IsCall(m) /\ m.pc = "shadow" /\ m.kind = "ioctlsocket" /\ m.on = arg /\ m.blocking = FALSE
  BY DEF Idle, IsCall, Fields
<1>2. os = "windows" /\ os' = os
  BY UnixPlans DEF Ioctlsocket, ModeInv, CallsTyped
<1>3. /\ DOMAIN call' = Callers /\ call'[c] = m
      /\ \A d \in Callers : d # c => call'[d] = call[d]
      /\ shared' = (shared \/ ~Quiet)
      /\ nonblocking' = arg /\ wanted' = arg /\ NON_BLOCKING' = NON_BLOCKING
  BY DEF Ioctlsocket, Begin, Becomes, ModeInv, CallsTyped
<1> HIDE DEF m
<1>4. CallsTyped'
  BY <1>1, <1>2, <1>3 DEF ModeInv, CallsTyped, Spots
<1>5. \A d \in Callers : PhaseOK(call[d])'
  BY <1>1, <1>2, <1>3 DEF ModeInv, PhaseOK
<1>6. UnixMode'
  BY <1>2 DEF UnixMode
<1>7. Solo'
  BY <1>1, <1>2, <1>3 DEF ModeInv, CallsTyped, Solo, SoloPhase, Shadowed, Quiet,
       InCall, Working
<1> QED
  BY <1>4, <1>5, <1>6, <1>7 DEF ModeInv

\* Every call begins within the invariant.
LEMMA CallKeepsMode ==
    ASSUME Commands \subseteq {"FIONBIO"}, ModeInv, NEW c \in Callers, Call(c)
    PROVE  ModeInv'
<1>0. ~InCall(c)
  BY DEF Call
<1>1. ASSUME NEW kind \in DOMAIN Transfers, NEW lens, Enter(c, kind, lens)
      PROVE  ModeInv'
  <2> DEFINE m == [Idle EXCEPT !.pc = "mode", !.kind = kind, !.lens = lens,
                    !.dir = Transfers[kind].dir, !.r = Transfers[kind].start]
  <2>1. IsCall(m) /\ m.pc = "mode" /\ m.kind = kind /\ m.on = FALSE /\ m.blocking = FALSE
    BY DEF Idle, IsCall, Fields
  <2>2. kind # "ioctlsocket"
    BY DEF Transfers, U!transfers, W!transfers_w
  <2>3. Begin(c, m) /\ UNCHANGED <<os, nonblocking, NON_BLOCKING, wanted>>
    BY <1>1 DEF Enter
  <2> QED
    BY <1>0, <2>1, <2>2, <2>3, BeginKeepsMode
<1>2. CASE Connect(c)
  <2> DEFINE m == [Idle EXCEPT !.pc = "mode", !.kind = "connect"]
  <2>1. IsCall(m) /\ m.pc = "mode" /\ m.kind = "connect" /\ m.on = FALSE /\ m.blocking = FALSE
    BY DEF Idle, IsCall, Fields
  <2>2. Begin(c, m) /\ UNCHANGED <<os, nonblocking, NON_BLOCKING, wanted>>
    BY <1>2 DEF Connect
  <2> QED
    BY <1>0, <2>1, <2>2, BeginKeepsMode
<1>3. ASSUME NEW d, NEW l, Setsockopt(c, d, l)
      PROVE  ModeInv'
  <2> DEFINE m == [Idle EXCEPT !.pc = "record", !.kind = "setsockopt",
                             !.dir = d, !.left = l, !.r = 0]
  <2>1. IsCall(m) /\ m.pc = "record" /\ m.kind = "setsockopt" /\ m.on = FALSE /\ m.blocking = FALSE
    BY DEF Idle, IsCall, Fields
  <2>2. Begin(c, m) /\ UNCHANGED <<os, nonblocking, NON_BLOCKING, wanted>>
    BY <1>3 DEF Setsockopt
  <2> QED
    BY <1>0, <2>1, <2>2, BeginKeepsMode
<1>4. ASSUME NEW cmd \in Commands, NEW arg \in BOOLEAN, Ioctlsocket(c, cmd, arg)
      PROVE  ModeInv'
  BY <1>0, <1>4, IoctlsocketKeepsMode
<1> QED
  BY <1>1, <1>2, <1>3, <1>4 DEF Call

\* The steps that read, set, shadow and restore the mode.
LEMMA ModeStepsKeepMode ==
    ASSUME ModeInv, NEW c \in Callers,
           ReadMode(c) \/ set_non_blocking_flag(c) \/ CheckSet_w(c) \/ Ioctl_w(c)
             \/ Shadow_w(c) \/ Restore(c)
    PROVE  ModeInv'
<1> USE DEF Becomes, Goto, At, fixed, IsCall, Fields, ModeInv, CallsTyped, PhaseOK,
     UnixMode, Solo,
            SoloPhase, Shadowed, Quiet, InCall, Working, Spots
<1>1. CASE ReadMode(c)
  <2>1. /\ DOMAIN call' = Callers /\ IsCall(call'[c])
        /\ \A d \in Callers : d # c => call'[d] = call[d]
        /\ call'[c].blocking = ~is_non_blocking /\ call'[c].on = TRUE
        /\ call'[c].kind = call[c].kind
        /\ call'[c].pc = IF is_non_blocking THEN "limit" ELSE "set"
    BY <1>1 DEF ReadMode
  <2>2. CallsTyped'
    BY <1>1, <2>1 DEF ReadMode, is_non_blocking
  <2>3. \A d \in Callers : PhaseOK(call[d])'
    BY <1>1, <2>1 DEF ReadMode, is_non_blocking
  <2>4. UnixMode'
    BY <1>1, <2>1 DEF ReadMode, is_non_blocking
  <2>5. Solo'
    BY <1>1, <2>1, SMT DEF ReadMode, is_non_blocking
  <2> QED
    BY <2>2, <2>3, <2>4, <2>5
<1>2. CASE set_non_blocking_flag(c)
  BY <1>2, SMT DEF set_non_blocking_flag, AfterSet
<1>3. CASE CheckSet_w(c)
  BY <1>3, SMT DEF CheckSet_w, AfterSet
<1>4. CASE Ioctl_w(c)
  BY <1>4, SMT DEF Ioctl_w
<1>5. CASE Shadow_w(c)
  BY <1>5, SMT DEF Shadow_w, AfterSet
<1>6. CASE Restore(c)
  <2>1. /\ DOMAIN call' = Callers /\ IsCall(call'[c])
        /\ \A d \in Callers : d # c => call'[d] = call[d]
        /\ call'[c].blocking = call[c].blocking /\ call'[c].on = FALSE
        /\ call'[c].kind = call[c].kind
        /\ call'[c].pc = IF call[c].blocking THEN "set" ELSE "done"
    BY <1>6 DEF Restore
  <2>2. CallsTyped'
    BY <1>6, <2>1 DEF Restore
  <2>3. \A d \in Callers : PhaseOK(call[d])'
    BY <1>6, <2>1 DEF Restore
  <2>4. UnixMode'
    BY <1>6, <2>1 DEF Restore
  <2>5. Solo'
    BY <1>6, <2>1, SMT DEF Restore
  <2> QED
    BY <2>2, <2>3, <2>4, <2>5
<1> QED
  BY <1>1, <1>2, <1>3, <1>4, <1>5, <1>6

\* setsockopt records its limit, and a caller takes its result.
LEMMA OtherStepsKeepMode ==
    ASSUME ModeInv, NEW c \in Callers, RecordLimit(c) \/ Leave(c)
    PROVE  ModeInv'
<1> USE DEF Becomes, Goto, At, fixed, ModeInv, CallsTyped, PhaseOK, UnixMode, Solo,
            SoloPhase, Shadowed, Quiet, InCall, Working, Spots
<1>1. CASE RecordLimit(c)
  BY <1>1, SMT DEF RecordLimit, Insert, IsCall, Fields
<1>2. CASE Leave(c)
  <2>1. /\ DOMAIN call' = Callers /\ call'[c] = Idle
        /\ \A d \in Callers : d # c => call'[d] = call[d]
        /\ UNCHANGED <<os, nonblocking, NON_BLOCKING, wanted, shared>>
    BY <1>2 DEF Leave
  <2>2. PhaseOK(Idle)'
    BY DEF Idle
  <2>3. CallsTyped'
    BY <2>1, IdleIsCall
  <2>6. \A d \in Callers : PhaseOK(call[d])'
    BY <2>1, <2>2, SMT
  <2>4. \A d \in Callers : InCall(d)' <=> InCall(d)
    BY <1>2, <2>1, IdleIsCall DEF Leave
  <2>5. UnixMode' /\ Solo'
    BY <1>2, <2>1, <2>4, IdleIsCall, SMT DEF Leave
  <2> QED
    BY <2>3, <2>5, <2>6
<1> QED
  BY <1>1, <1>2

\* The program's own fcntl, the network and time.
LEMMA EnvironmentKeepsMode ==
    ASSUME ModeInv, SetMode \/ Answer \/ Tick \/ UNCHANGED vars
    PROVE  ModeInv'
<1> USE DEF ModeInv, CallsTyped, PhaseOK, UnixMode, Solo, SoloPhase, Shadowed,
     Quiet, InCall, Working, Spots
<1>1. CASE SetMode
  BY <1>1 DEF SetMode
<1>2. CASE Answer
  BY <1>2, SMT DEF Answer, mode
<1>3. CASE Tick
  <2>1. \A c \in Callers : IsCall(call'[c]) /\ Goes(call[c], call'[c]) /\ call'[c].pc = call[c].pc
    BY <1>3 DEF Tick, IsCall, Fields, Goes
  <2> QED
    BY <1>3, <2>1, SMT DEF Tick, mode, Goes
<1>4. CASE UNCHANGED vars
  BY <1>4, SMT DEF vars
<1> QED
  BY <1>1, <1>2, <1>3, <1>4

(* Every hooked call leaves the socket in the mode the program gave it, on *)
(* Unix however calls overlap, on Windows if none do, and blocks nobody in *)
(* the kernel unless calls overlap.  The program's ioctlsocket commands    *)
(* are FIONBIO: with others NON_BLOCKING does not follow the socket.       *)
THEOREM ModeRestoredAlways ==
    ASSUME Commands \subseteq {"FIONBIO"}
    PROVE  HookedSpec => []ModeRestored
<1>1. HookedInit => ModeInv
  BY ModeInitially DEF HookedInit
<1>2. ModeInv /\ [HookedNext]_hvars => ModeInv'
  <2> SUFFICES ASSUME ModeInv, [HookedNext]_hvars
               PROVE  ModeInv'
    OBVIOUS
  <2>1. ASSUME NEW c \in Callers, Step(c)
        PROVE  ModeInv'
    BY <2>1, WorkTransfers, WorkConnects, WorkKeepsMode, ModeStepsKeepMode,
         OtherStepsKeepMode DEF Step
  <2>2. CASE Next
    BY <2>1, <2>2, CallKeepsMode, EnvironmentKeepsMode DEF Next
  <2>3. CASE UNCHANGED vars
    BY <2>3, EnvironmentKeepsMode
  <2> QED
    BY <2>2, <2>3 DEF HookedNext, Sockets, Timers, hvars
<1>3. ModeInv => ModeRestored
  <2> SUFFICES ASSUME ModeInv
               PROVE  ModeRestored
    OBVIOUS
  <2>1. ASSUME Quiet, os = "unix" \/ ~shared
        PROVE  (nonblocking <=> wanted) /\ (os = "windows" => (NON_BLOCKING <=> wanted))
    BY <2>1 DEF ModeInv, CallsTyped, UnixMode, Solo, Shadowed, Quiet
  <2>2. (\E c \in Callers : call[c].pc = "blocked") => shared
    BY DEF ModeInv, Solo, SoloPhase, InCall
  <2> QED
    BY <2>1, <2>2 DEF ModeRestored, ModeInv, CallsTyped
<1> QED
  BY <1>1, <1>2, <1>3, PTL DEF HookedSpec
-----------------------------------------------------------------------------
(* connect's answer.                                                       *)

Truthful(k) ==
    /\ k.connected \in BOOLEAN
    /\ k.connected => conn = "up"
    /\ k.kind = "connect" /\ k.r = 0 => conn = "up"
    /\ k.kind = "connect" => k.pc # "loop"

ConnectInv ==
    /\ DOMAIN call = Callers
    /\ \A c \in Callers : IsCall(call[c]) /\ Truthful(call[c])

\* A step of c that leaves connect's answer alone.
Steady(c) ==
    /\ Moves(c) /\ conn' = conn
    /\ call'[c].kind = call[c].kind /\ call'[c].connected = call[c].connected
    /\ call[c].kind = "connect" => call'[c].r = call[c].r /\ call'[c].pc # "loop"

\* Such steps keep the invariant.
LEMMA SteadyKeepsConnect ==
    ASSUME ConnectInv, NEW c \in Callers, Steady(c)
    PROVE  ConnectInv'
  BY DEF ConnectInv, Steady, Moves, Truthful

\* The steps about the mode and the limit are such steps.
LEMMA ModeStepsSteady ==
    ASSUME ConnectInv, NEW c \in Callers,
           ReadMode(c) \/ set_non_blocking_flag(c) \/ CheckSet_w(c) \/ Ioctl_w(c)
             \/ Shadow_w(c) \/ Restore(c) \/ RecordLimit(c) \/ InsertLimit(c)
    PROVE  Steady(c)
<1> USE DEF ConnectInv, Steady, Moves, Becomes, Goto, At, IsCall, Fields
<1>1. CASE ReadMode(c)
  BY <1>1 DEF ReadMode
<1>2. CASE set_non_blocking_flag(c)
  BY <1>2 DEF set_non_blocking_flag, AfterSet
<1>3. CASE CheckSet_w(c)
  BY <1>3 DEF CheckSet_w, AfterSet
<1>4. CASE Ioctl_w(c)
  BY <1>4 DEF Ioctl_w
<1>5. CASE Shadow_w(c)
  BY <1>5 DEF Shadow_w, AfterSet
<1>6. CASE Restore(c)
  BY <1>6 DEF Restore
<1>7. CASE RecordLimit(c) \/ InsertLimit(c)
  BY <1>7 DEF RecordLimit, InsertLimit, Insert, Loop
<1> QED
  BY <1>1, <1>2, <1>3, <1>4, <1>5, <1>6, <1>7

\* So are the steps of the loops, which connect never enters at "loop".
LEMMA LoopStepsSteady ==
    ASSUME ConnectInv, NEW c \in Callers,
           time_limit(c) \/ RawCall(c) \/ Unblock(c) \/ NextBuffer(c) \/ WaitEnds(c)
             \/ WaitFails(c) \/ ConnectLoop(c)
    PROVE  Steady(c)
<1> DEFINE k == call[c]
<1>k. IsCall(k) /\ (k.pc = "loop" => k.kind # "connect")
  BY DEF ConnectInv, Truthful
<1> USE DEF ConnectInv, Steady, Moves, Becomes, Goto, At, IsCall, Fields
<1>1. CASE time_limit(c)
  <2>1. PICK left, pc : /\ Becomes(c, [k EXCEPT !.left = left, !.age = 0, !.pc = pc])
                        /\ pc \in {Loop(c), "insert"}
    BY <1>1 DEF time_limit
  <2> QED
    BY <1>1, <1>k, <2>1 DEF time_limit, Loop
<1>3. CASE RawCall(c) \/ Unblock(c)
  <2>1. \/ \E res : Becomes(c, Accounted(k, Rules(c), res))
        \/ \E limit : Becomes(c, WouldBlock(k, limit))
        \/ Goto(c, "blocked")
    BY <1>3 DEF RawCall, Unblock
  <2>2. k.kind # "connect" /\ conn' = conn
    BY <1>3, <1>k DEF RawCall, Unblock
  <2> QED
    BY <1>k, <2>1, <2>2, LoopValues, SMT DEF Goes
<1>5. CASE NextBuffer(c)
  BY <1>5, <1>k DEF NextBuffer
<1>6. CASE WaitEnds(c)
  BY <1>6 DEF WaitEnds
<1>7. CASE WaitFails(c)
  BY <1>7 DEF WaitFails
<1>8. CASE ConnectLoop(c)
  <2>1. \/ \E left : Becomes(c, [k EXCEPT !.pc = "wait", !.left = left])
        \/ \E errno : Becomes(c, [k EXCEPT !.pc = "restore", !.errno = errno])
    BY <1>8 DEF ConnectLoop
  <2> QED
    BY <1>8, <1>k, <2>1 DEF ConnectLoop
<1> QED
  BY <1>1, <1>3, <1>5, <1>6, <1>7, <1>8

\* The raw connect, getpeername and SO_ERROR report what the kernel knows,
\* and no step takes a connection down.
LEMMA ConnectStepsKeepConnect ==
    ASSUME ConnectInv, NEW c \in Callers,
           RawConnect(c) \/ UnblockConnect(c) \/ getpeername(c) \/ so_error(c) \/ Leave(c)
    PROVE  ConnectInv'
<1>u. conn = "up" => conn' = "up"
  BY DEF RawConnect, UnblockConnect, getpeername, so_error, Leave
<1>g. ASSUME NEW r, NEW errno, ConnectGets(c, r, errno), r = 0 => conn' = "up"
      PROVE  ConnectInv'
  BY <1>u, <1>g DEF ConnectGets, Becomes, ConnectInv, Truthful, IsCall, Fields
<1>1. CASE RawConnect(c)
  <2>1. (\E r, errno : ConnectGets(c, r, errno) /\ (r = 0 => conn' = "up")) \/ Goto(c, "blocked")
    BY <1>1, SMT DEF RawConnect
  <2>2. CASE Goto(c, "blocked")
    BY <1>u, <2>2 DEF Goto, Becomes, ConnectInv, Truthful, IsCall, Fields
  <2> QED
    BY <1>g, <2>1, <2>2
<1>2. CASE UnblockConnect(c)
  <2>1. \E r, errno : ConnectGets(c, r, errno) /\ (r = 0 => conn' = "up")
    BY <1>2, SMT DEF UnblockConnect
  <2> QED
    BY <1>g, <2>1
<1>3. CASE getpeername(c)
  BY <1>3 DEF getpeername, At, Becomes, ConnectInv, Truthful, IsCall, Fields
<1>4. CASE so_error(c)
  <2>1. \E r, errno : ConnectGets(c, r, errno) /\ (r = 0 => conn' = "up")
    BY <1>4, SMT DEF so_error, ConnectInv, Truthful
  <2> QED
    BY <1>g, <2>1
<1>5. CASE Leave(c)
  <2>1. Truthful(Idle)'
    BY DEF Truthful, Idle
  <2> QED
    BY <1>5, <2>1, IdleIsCall DEF Leave, Becomes, ConnectInv, Truthful
<1> QED
  BY <1>1, <1>2, <1>3, <1>4, <1>5

\* A call begins with nothing to report.
LEMMA CallsKeepConnect ==
    ASSUME ConnectInv, NEW c \in Callers, Call(c)
    PROVE  ConnectInv'
<1>b. ASSUME NEW m, Begin(c, m), conn' = conn, IsCall(m), m.connected = FALSE, m.pc # "loop",
             m.kind = "connect" => m.r # 0
      PROVE  ConnectInv'
  BY <1>b DEF Begin, Becomes, ConnectInv, Truthful
<1>1. ASSUME NEW kind \in DOMAIN Transfers, NEW lens, Enter(c, kind, lens)
      PROVE  ConnectInv'
  <2> DEFINE m == [Idle EXCEPT !.pc = "mode", !.kind = kind, !.lens = lens,
                    !.dir = Transfers[kind].dir, !.r = Transfers[kind].start]
  <2>1. IsCall(m) /\ m.pc = "mode" /\ m.kind = kind /\ m.connected = FALSE
    BY DEF Idle, IsCall, Fields
  <2>2. kind # "connect"
    BY DEF Transfers, U!transfers, W!transfers_w
  <2>3. Begin(c, m) /\ conn' = conn
    BY <1>1 DEF Enter
  <2> QED
    BY <1>b, <2>1, <2>2, <2>3
<1>2. CASE Connect(c)
  <2> DEFINE m == [Idle EXCEPT !.pc = "mode", !.kind = "connect"]
  <2>1. IsCall(m) /\ m.pc = "mode" /\ m.r # 0 /\ m.connected = FALSE
    BY SMT DEF Idle, IsCall, Fields
  <2>2. Begin(c, m) /\ conn' = conn
    BY <1>2 DEF Connect
  <2> QED
    BY <1>b, <2>1, <2>2
<1>3. ASSUME NEW d, NEW l, Setsockopt(c, d, l)
      PROVE  ConnectInv'
  <2> DEFINE m == [Idle EXCEPT !.pc = "record", !.kind = "setsockopt",
                             !.dir = d, !.left = l, !.r = 0]
  <2>1. IsCall(m) /\ m.pc = "record" /\ m.kind = "setsockopt" /\ m.connected = FALSE
    BY DEF Idle, IsCall, Fields
  <2>2. Begin(c, m) /\ conn' = conn
    BY <1>3 DEF Setsockopt
  <2> QED
    BY <1>b, <2>1, <2>2
<1>4. ASSUME NEW cmd, NEW arg, Ioctlsocket(c, cmd, arg)
      PROVE  ConnectInv'
  <2> DEFINE m == [Idle EXCEPT !.pc = "shadow", !.kind = "ioctlsocket", !.on = arg, !.r = 0]
  <2>1. IsCall(m) /\ m.pc = "shadow" /\ m.kind = "ioctlsocket" /\ m.connected = FALSE
    BY DEF Idle, IsCall, Fields
  <2>2. Begin(c, m) /\ conn' = conn
    BY <1>4 DEF Ioctlsocket
  <2> QED
    BY <1>b, <2>1, <2>2
<1> QED
  BY <1>1, <1>2, <1>3, <1>4 DEF Call

\* The network only answers a pending connection.
LEMMA EnvironmentKeepsConnect ==
    ASSUME ConnectInv, SetMode \/ Answer \/ Tick \/ UNCHANGED vars
    PROVE  ConnectInv'
<1>1. CASE SetMode \/ UNCHANGED vars
  BY <1>1 DEF SetMode, vars, ConnectInv, Truthful
<1>2. CASE Answer
  BY <1>2 DEF Answer, ConnectInv, Truthful
<1>3. CASE Tick
  <2>1. \A c \in Callers : /\ Goes(call[c], call'[c]) /\ call'[c].pc = call[c].pc
                           /\ call'[c].r = call[c].r
    BY <1>3 DEF Tick, IsCall, Fields, Goes, ConnectInv
  <2> QED
    BY <1>3, <2>1, SMT DEF Tick, Goes, ConnectInv, Truthful
<1> QED
  BY <1>1, <1>2, <1>3

(* connect returns 0 only for a connected socket, whatever other calls on  *)
(* the socket overlap with it.                                             *)
THEOREM ConnectTruthAlways == HookedSpec => []ConnectTruth
<1>1. HookedInit => ConnectInv
  <2>1. IsCall(Idle) /\ Truthful(Idle)
    BY DEF IsCall, Fields, Truthful, Idle
  <2> QED
    BY <2>1 DEF HookedInit, Init, ConnectInv
<1>2. ConnectInv /\ [HookedNext]_hvars => ConnectInv'
  <2> SUFFICES ASSUME ConnectInv, [HookedNext]_hvars
               PROVE  ConnectInv'
    OBVIOUS
  <2>1. ASSUME NEW c \in Callers, Step(c)
        PROVE  ConnectInv'
    BY <2>1, SteadyKeepsConnect, ModeStepsSteady, LoopStepsSteady,
         ConnectStepsKeepConnect DEF Step
  <2>2. CASE Next
    BY <2>1, <2>2, CallsKeepConnect, EnvironmentKeepsConnect DEF Next
  <2>3. CASE UNCHANGED vars
    BY <2>3, EnvironmentKeepsConnect
  <2> QED
    BY <2>2, <2>3 DEF HookedNext, Sockets, Timers, hvars
<1>3. ConnectInv => ConnectTruth
  BY DEF ConnectInv, Truthful, ConnectTruth, Returned
<1> QED
  BY <1>1, <1>2, <1>3, PTL DEF HookedSpec
-----------------------------------------------------------------------------
(* The mutex of pthread_cond_timedwait and pthread_mutex_lock.             *)

IsTimed(k) == {"pc", "kind", "r"} \subseteq DOMAIN k

\* Who holds the mutex where: o is its owner while the call of c is at pc.
Fits(o, c, pc, kind, r) ==
    /\ kind = "cond" => pc \in {"cond", "asleep", "relock", "event", "ret"}
    /\ kind = "lock" => pc \in {"try", "busy", "ret"}
    /\ pc \in {"cond", "event"} => o = c
    /\ pc \in {"try", "busy"} => kind = "lock" /\ o # c
    /\ pc = "ret" /\ kind = "cond" => o = c
    /\ pc = "ret" /\ kind = "lock" => (o = c <=> r = "ok")

Holds(c, k) == Fits(owner, c, k.pc, k.kind, k.r)

LockInv ==
    /\ DOMAIN timed = Sleepers
    /\ \A c \in Sleepers : IsTimed(timed[c]) /\ Holds(c, timed[c])

\* Caller c goes on to a record for which Holds, and owner changes only
\* between c and nobody.
GoesOn(c) ==
    /\ DOMAIN timed' = Sleepers
    /\ \A d \in Sleepers : d # c => timed'[d] = timed[d]
    /\ IsTimed(timed'[c]) /\ Holds(c, timed[c])'
    /\ \/ owner' = owner
       \/ {owner, owner'} \subseteq {c, "nobody"} /\ Settled

\* Nobody else can be in a place that holds the mutex when c takes it or
\* gives it up.
LEMMA GoesOnKeepsLock ==
    ASSUME LockInv, NEW c \in Sleepers, GoesOn(c)
    PROVE  LockInv'
  BY TimedConstants, SMT DEF LockInv, GoesOn, Holds, Fits, Settled

\* Such a step from the record it goes on to, for any record,
LEMMA ToGoesOn ==
    ASSUME LockInv, NEW c \in Sleepers, NEW m, To(c, m), IsTimed(m),
           Fits(owner', c, m.pc, m.kind, m.r),
           owner' = owner \/ ({owner, owner'} \subseteq {c, "nobody"} /\ Settled)
    PROVE  GoesOn(c)
  BY DEF To, LockInv, GoesOn, Holds

\* for a return,
LEMMA RetGoesOn ==
    ASSUME LockInv, NEW c \in Sleepers, NEW r, Ret(c, r), Fits(owner', c, "ret", timed[c].kind, r),
           owner' = owner \/ ({owner, owner'} \subseteq {c, "nobody"} /\ Settled)
    PROVE  GoesOn(c)
  BY DEF Ret, To, LockInv, GoesOn, Holds, IsTimed

\* and for a wait.
LEMMA WaitGoesOn ==
    ASSUME LockInv, NEW c \in Sleepers, NEW k, IsTimed(k), NEW pc, NEW d, Wait(c, k, pc, d),
           Fits(owner', c, pc, k.kind, k.r),
           owner' = owner \/ ({owner, owner'} \subseteq {c, "nobody"} /\ Settled)
    PROVE  GoesOn(c)
  BY DEF Wait, To, LockInv, GoesOn, Holds, IsTimed

\* Every step of a timed call is such a step.
LEMMA TimedStepGoesOn ==
    ASSUME LockInv, NEW c \in Sleepers, TimedStep(c) \/ Signal(c)
    PROVE  GoesOn(c)
<1> DEFINE k == timed[c]
<1>k. IsTimed(k) /\ Fits(owner, c, k.pc, k.kind, k.r)
  BY DEF LockInv, Holds
<1>1. CASE SleepEnds(c)
  BY <1>1 DEF SleepEnds, LockInv, GoesOn, IsTimed, Holds, Fits, In, To, Ret
<1>2. CASE Probe(c)
  <2>1. /\ In(c, "probe") /\ owner' = owner
        /\ \/ \E r : Ret(c, r)
           \/ \E n, d : Wait(c, [k EXCEPT !.asked = n], "pause", d)
    BY <1>2 DEF Probe
  <2>2. \A n : LET m == [k EXCEPT !.asked = n] IN IsTimed(m) /\ m.kind = k.kind /\ m.r = k.r
    BY <1>k DEF IsTimed
  <2>3. \A pc, r : pc \in {"ret", "pause"} => Fits(owner, c, pc, k.kind, r)
    BY <1>k, <2>1 DEF In, Fits
  <2>4. ASSUME NEW n, NEW d, Wait(c, [k EXCEPT !.asked = n], "pause", d)
        PROVE  GoesOn(c)
    <3> DEFINE m == [k EXCEPT !.asked = n]
    <3>1. IsTimed(m) /\ Fits(owner', c, "pause", m.kind, m.r)
      BY <2>1, <2>2, <2>3, SMT
    <3> HIDE DEF m
    <3> QED
      BY <2>1, <2>4, <3>1, WaitGoesOn DEF m
  <2>5. ASSUME NEW r, Ret(c, r)
        PROVE  GoesOn(c)
    <3>1. Fits(owner', c, "ret", k.kind, r)
      BY <2>1, <2>3, SMT
    <3> QED
      BY <2>1, <2>5, <3>1, RetGoesOn
  <2> QED
    BY <2>1, <2>4, <2>5
<1>3. CASE PauseEnds(c)
  <2>1. /\ In(c, "pause") /\ owner' = owner
        /\ To(c, Backoff(k)) \/ To(c, [Backoff(k) EXCEPT !.failed = TRUE])
    BY <1>3 DEF PauseEnds
  <2>2. IsTimed(Backoff(k)) /\ Backoff(k).pc = "probe" /\ Backoff(k).kind = k.kind /\ Backoff(k).r = k.r
    BY <1>k DEF Backoff, IsTimed
  <2>3. LET m == [Backoff(k) EXCEPT !.failed = TRUE]
        IN  IsTimed(m) /\ m.pc = "probe" /\ m.kind = k.kind /\ m.r = k.r
    BY <2>2 DEF IsTimed
  <2>4. Fits(owner, c, "probe", k.kind, k.r)
    BY <1>k, <2>1 DEF In, Fits
  <2> QED
    BY <2>1, <2>2, <2>3, <2>4, ToGoesOn
<1>4. CASE CondLoop(c)
  <2>1. In(c, "cond") /\ Settled /\ k.pc = "cond" /\ owner = c /\ k.kind # "lock"
    BY <1>4, <1>k DEF CondLoop, In, Fits
  <2>2. \/ Ret(c, "timedout") /\ owner' = owner
        \/ \E d : Wait(c, k, "asleep", d) /\ owner' = "nobody"
    BY <1>4 DEF CondLoop, Wait
  <2>3. Fits(c, c, "ret", k.kind, "timedout") /\ Fits("nobody", c, "asleep", k.kind, k.r)
    BY <2>1 DEF Fits
  <2> QED
    BY <1>k, <2>1, <2>2, <2>3, RetGoesOn, WaitGoesOn
<1>5. CASE CondTimesOut(c) \/ Signal(c)
  <2>1. k.pc = "asleep" /\ owner' = owner
    BY <1>5 DEF CondTimesOut, Signal, Over, In
  <2>2. PICK r : To(c, [k EXCEPT !.pc = "relock", !.r = r])
    BY <1>5 DEF CondTimesOut, Signal
  <2> DEFINE m == [k EXCEPT !.pc = "relock", !.r = r]
  <2>3. IsTimed(m) /\ m.pc = "relock" /\ m.kind = k.kind /\ m.r = r
    BY <1>k DEF IsTimed
  <2>4. Fits(owner', c, m.pc, m.kind, m.r)
    BY <1>k, <2>1, <2>3 DEF Fits
  <2> QED
    BY <2>1, <2>2, <2>3, <2>4, ToGoesOn
<1>6. CASE Relock(c)
  <2>1. /\ Settled /\ k.pc = "relock" /\ owner = "nobody" /\ owner' = c
        /\ Ret(c, k.r) \/ \E d : Wait(c, k, "event", d)
    BY <1>6 DEF Relock, In
  <2>2. Fits(c, c, "ret", k.kind, k.r) /\ Fits(c, c, "event", k.kind, k.r)
    BY <1>k, <2>1 DEF Fits
  <2> QED
    BY <1>k, <2>1, <2>2, RetGoesOn, WaitGoesOn
<1>7. CASE CondEvent(c)
  BY <1>7 DEF CondEvent, LockInv, GoesOn, IsTimed, Holds, Fits, In, To
<1>8. CASE AddressLoop(c) \/ Watch(c)
  <2>1. /\ k.pc \in {"address", "watch"} /\ owner' = owner
        /\ \/ \E r : Ret(c, r)
           \/ \E d : Wait(c, k, "watch", d)
           \/ \E d : Wait(c, k, "aevent", d)
    <3>1. CASE AddressLoop(c)
      BY <3>1 DEF AddressLoop, In, Wait
    <3>2. CASE Watch(c)
      BY <3>2 DEF Watch, In
    <3> QED
      BY <1>8, <3>1, <3>2
  <2>2. \A pc, r : pc \in {"ret", "watch", "aevent"} => Fits(owner, c, pc, k.kind, r)
    BY <1>k, <2>1 DEF Fits
  <2> QED
    BY <1>k, <2>1, <2>2, RetGoesOn, WaitGoesOn, SMT
<1>10. CASE AddressEvent(c)
  BY <1>10 DEF AddressEvent, LockInv, GoesOn, IsTimed, Holds, Fits, In, To
<1>11. CASE TryLock(c)
  <2>1. /\ Settled /\ k.pc = "try"
        /\ \/ owner = "nobody" /\ owner' = c /\ Ret(c, "ok")
           \/ owner' = owner /\ \E d : Wait(c, k, "busy", d)
    BY <1>11 DEF TryLock, In
  <2>2. Fits(c, c, "ret", k.kind, "ok") /\ Fits(owner, c, "busy", k.kind, k.r)
    BY <1>k, <2>1 DEF Fits
  <2> QED
    BY <1>k, <2>1, <2>2, RetGoesOn, WaitGoesOn
<1>12. CASE BusyEnds(c)
  BY <1>12 DEF BusyEnds, LockInv, GoesOn, IsTimed, Holds, Fits, In, To
<1>13. CASE Unlock(c)
  BY <1>13 DEF Unlock, LockInv, GoesOn, IsTimed, Holds, Fits, In
<1>14. CASE Returns(c)
  BY <1>14 DEF Returns, LockInv, GoesOn, IsTimed, Holds, Fits, To, Awake
<1> QED
  BY <1>1, <1>2, <1>3, <1>4, <1>5, <1>6, <1>7, <1>8, <1>10, <1>11, <1>12, <1>13, <1>14
     DEF TimedStep

\* So is the start of one.
LEMMA TimedCallGoesOn ==
    ASSUME LockInv, NEW c \in Sleepers,
           \/ MutexLock(c) \/ Refused(c)
           \/ \E t : Sleeping(c, t) \/ Poll(c, t) \/ Select(c, t) \/ CondWait(c, t) \/ AddressWait(c, t)
    PROVE  GoesOn(c)
<1>m. ASSUME NEW kind, NEW due, NEW rec, Make(c, kind, due, rec), owner' = owner, IsTimed(rec),
             Fits(owner, c, rec.pc, kind, rec.r)
      PROVE  GoesOn(c)
  BY <1>m DEF Make, To, LockInv, GoesOn, IsTimed, Holds
<1>1. CASE MutexLock(c)
  <2> DEFINE m == [Awake EXCEPT !.pc = "try"]
  <2>1. IsTimed(m) /\ m.pc = "try"
    BY DEF Awake, IsTimed
  <2>2. Fits(owner, c, m.pc, "lock", m.r)
    BY <1>1, <2>1 DEF Fits, MutexLock
  <2>3. owner' = owner /\ Make(c, "lock", Unending, m)
    BY <1>1 DEF MutexLock
  <2> QED
    BY <1>m, <2>1, <2>2, <2>3
<1>2. CASE Refused(c)
  <2> DEFINE m == [Awake EXCEPT !.pc = "ret", !.r = "invalid"]
  <2>1. IsTimed(m) /\ m.pc = "ret"
    BY DEF Awake, IsTimed
  <2>2. Fits(owner, c, m.pc, "sleep", m.r)
    BY <2>1 DEF Fits
  <2>3. owner' = owner /\ Make(c, "sleep", 0, m)
    BY <1>2 DEF Refused
  <2> QED
    BY <1>m, <2>1, <2>2, <2>3
<1>3. ASSUME NEW t, Sleeping(c, t)
      PROVE  GoesOn(c)
  <2> DEFINE m == [Awake EXCEPT !.pc = "sleep", !.rest = t]
  <2>1. IsTimed(m) /\ m.pc = "sleep"
    BY DEF Awake, IsTimed
  <2>2. Fits(owner, c, m.pc, "sleep", m.r)
    BY <2>1 DEF Fits
  <2>3. owner' = owner /\ Make(c, "sleep", t, m)
    BY <1>3 DEF Sleeping
  <2> QED
    BY <1>m, <2>1, <2>2, <2>3
<1>4. ASSUME NEW t, Poll(c, t)
      PROVE  GoesOn(c)
  <2> DEFINE m == [Awake EXCEPT !.pc = "probe", !.t = t]
  <2>1. IsTimed(m) /\ m.pc = "probe"
    BY DEF Awake, IsTimed
  <2>2. Fits(owner, c, m.pc, "poll", m.r)
    BY <2>1 DEF Fits
  <2>3. owner' = owner /\ Make(c, "poll", t, m)
    BY <1>4 DEF Poll
  <2> QED
    BY <1>m, <2>1, <2>2, <2>3
<1>5. ASSUME NEW t, Select(c, t)
      PROVE  GoesOn(c)
  <2> DEFINE m == [Awake EXCEPT !.pc = "probe", !.t = t]
  <2>1. IsTimed(m) /\ m.pc = "probe"
    BY DEF Awake, IsTimed
  <2>2. Fits(owner, c, m.pc, "select", m.r)
    BY <2>1 DEF Fits
  <2>3. owner' = owner /\ Make(c, "select", t, m)
    BY <1>5 DEF Select
  <2> QED
    BY <1>m, <2>1, <2>2, <2>3
<1>6. ASSUME NEW t, CondWait(c, t)
      PROVE  GoesOn(c)
  <2> DEFINE m == [Awake EXCEPT !.pc = "cond"]
  <2>1. IsTimed(m) /\ m.pc = "cond"
    BY DEF Awake, IsTimed
  <2>2. Fits(owner, c, m.pc, "cond", m.r)
    BY <1>6, <2>1 DEF Fits, CondWait
  <2>3. owner' = owner /\ Make(c, "cond", t, m)
    BY <1>6 DEF CondWait
  <2> QED
    BY <1>m, <2>1, <2>2, <2>3
<1>7. ASSUME NEW t, AddressWait(c, t)
      PROVE  GoesOn(c)
  <2> DEFINE m == [Awake EXCEPT !.pc = "address"]
  <2>1. IsTimed(m) /\ m.pc = "address"
    BY DEF Awake, IsTimed
  <2>2. Fits(owner, c, m.pc, "address", m.r)
    BY <2>1 DEF Fits
  <2>3. owner' = owner /\ Make(c, "address", t, m)
    BY <1>7 DEF AddressWait
  <2> QED
    BY <1>m, <2>1, <2>2, <2>3
<1> QED
  BY <1>1, <1>2, <1>3, <1>4, <1>5, <1>6, <1>7

\* Time and the watched word do not touch the mutex.
LEMMA ClockKeepsLock ==
    ASSUME LockInv, TimePasses \/ StoreWord \/ UNCHANGED tvars
    PROVE  LockInv'
<1>1. CASE TimePasses
  <2>1. \A c \in Sleepers : /\ IsTimed(timed'[c]) /\ timed'[c].pc = timed[c].pc
                            /\ timed'[c].kind = timed[c].kind /\ timed'[c].r = timed[c].r
    BY <1>1 DEF TimePasses, Older, LockInv, IsTimed
  <2> QED
    BY <1>1, <2>1, SMT DEF TimePasses, LockInv, Holds, Fits
<1>2. CASE StoreWord \/ UNCHANGED tvars
  BY <1>2 DEF StoreWord, tvars, LockInv, Holds, Fits
<1> QED
  BY <1>1, <1>2

(* However pthread_cond_timedwait returns, its caller holds the mutex, and *)
(* pthread_mutex_lock returns 0 exactly when its caller does, for any      *)
(* number of threads that wait, lock and unlock at the same time.          *)
THEOREM LockTruthAlways == HookedSpec => []LockTruth
<1>1. HookedInit => LockInv
  <2>1. IsTimed(Awake) /\ \A c \in Sleepers : Holds(c, Awake)
    BY DEF IsTimed, Holds, Fits, Awake
  <2> QED
    BY <2>1 DEF HookedInit, TimedInit, LockInv
<1>2. LockInv /\ [HookedNext]_hvars => LockInv'
  <2> SUFFICES ASSUME LockInv, [HookedNext]_hvars
               PROVE  LockInv'
    OBVIOUS
  <2>1. CASE TimedNext
    BY <2>1, GoesOnKeepsLock, TimedStepGoesOn, TimedCallGoesOn,
         ClockKeepsLock DEF TimedNext
  <2>2. CASE UNCHANGED tvars
    BY <2>2, ClockKeepsLock
  <2> QED
    BY <2>1, <2>2 DEF HookedNext, Sockets, Timers, hvars
<1>3. LockInv => LockTruth
  BY DEF LockInv, Holds, Fits, LockTruth, Back
<1> QED
  BY <1>1, <1>2, <1>3, PTL DEF HookedSpec

-----------------------------------------------------------------------------
(* Time.  A sleep has its time still before it; the waits that poll and    *)
(* select have asked for, and what is left of their timeout, add up to it, *)
(* and the time that passed covers the waits that are over.                *)

TimedKinds == {"none", "sleep", "poll", "select", "cond", "address", "lock"}
TimedPlaces == {"out", "sleep", "probe", "pause", "cond", "asleep", "relock", "event",
                "address", "watch", "aevent", "try", "busy", "ret"}
TimedResults == {"none", "ok", "ready", "timedout", "busy", "invalid"}

TimedCall == [pc : TimedPlaces, kind : TimedKinds, due : 0..Unending, age : 0..MaxAge,
              rest : Nat, t : 0..Unending, x : {1, 2, 4, 8, 16}, asked : Nat,
              r : TimedResults, failed : BOOLEAN]

\* Which calls are where.
PlaceOK(k) ==
    /\ k.pc = "sleep" => k.kind = "sleep"
    /\ k.pc \in {"probe", "pause"} => k.kind \in {"poll", "select"}
    /\ k.pc \in {"cond", "asleep", "relock", "event"} => k.kind = "cond"
    /\ k.pc \in {"address", "watch", "aevent"} => k.kind = "address"
    /\ k.pc \in {"try", "busy"} => k.kind = "lock"
    /\ k.pc = "relock" => k.r \in {"ok", "timedout"}

Reports(k) ==
    \/ k.kind = "sleep"
    \/ k.kind \in {"poll", "select", "cond", "address"} /\ k.r \notin {"ready", "ok"}

TimeOK(k) ==
    /\ k.age <= k.due
    /\ k.pc = "sleep" => k.due # Unending /\ k.due <= k.age + k.rest
    /\ k.pc \in {"probe", "pause"} => k.t <= k.due /\ (k.due = Unending => k.t = Unending)
    /\ k.pc = "probe" => /\ k.t + k.asked = k.due
                         /\ k.failed \/ k.due = Unending \/ k.asked <= k.age
    /\ k.pc = "pause" => /\ k.t + k.asked = k.due + Least(k.t, k.x)
                         /\ k.failed \/ k.due = Unending \/ k.asked <= k.age + k.rest
    /\ k.pc = "ret" => /\ Reports(k) => k.failed \/ k.due <= k.age
                       /\ k.kind \in {"poll", "select"} /\ k.r = "none" => k.asked = k.due

GoodCall(k) == k \in TimedCall /\ PlaceOK(k) /\ TimeOK(k) /\ k.rest <= LongestWait(k)

TimedInv ==
    /\ timed \in [Sleepers -> TimedCall]
    /\ \A c \in Sleepers : GoodCall(timed[c])
    /\ owner \in Sleepers \cup {"nobody"} /\ calls \in 0..MaxTimed

\* The constants, one by one.
LEMMA TimedNumbers ==
    /\ MaxAge \in Nat /\ Unending \in Nat /\ Unending > MaxAge /\ Unending # 0
    /\ Micros \in Nat /\ Micros > 0 /\ WaitSlice \in Nat /\ WaitSlice > 0 /\ MaxTimed \in Nat
    /\ \A d \in SleepTimes \cup PollTimeouts \cup SelectTimeouts \cup Deadlines : d \in 0..MaxAge
  BY TimedConstants, SMT DEF Unending

\* A call that goes on to a good record.
LEMMA ToKeepsTime ==
    ASSUME TimedInv, NEW c \in Sleepers, NEW m, To(c, m), GoodCall(m),
           owner' \in Sleepers \cup {"nobody"}, calls' \in 0..MaxTimed
    PROVE  TimedInv'
  <1>1. m \in TimedCall /\ timed \in [Sleepers -> TimedCall]
    BY DEF GoodCall, TimedInv
  <1>2. timed' \in [Sleepers -> TimedCall] /\ timed'[c] = m
    BY <1>1 DEF To
  <1>3. \A d \in Sleepers : d # c => timed'[d] = timed[d]
    BY <1>1 DEF To
  <1>4. \A d \in Sleepers : GoodCall(timed'[d])
    BY <1>2, <1>3 DEF TimedInv
  <1>5. \A d \in Sleepers : GoodCall(timed[d])'
    BY <1>4 DEF GoodCall, PlaceOK, TimeOK, LongestWait, TimedCall, Reports, Unit, Least
  <1> QED
    BY <1>2, <1>5 DEF TimedInv

\* The fields of a good record.
LEMMA CallFields ==
    ASSUME NEW k \in TimedCall
    PROVE  /\ k.pc \in TimedPlaces /\ k.kind \in TimedKinds /\ k.r \in TimedResults
           /\ k.due \in Nat /\ k.due <= Unending /\ k.age \in Nat /\ k.age <= MaxAge
           /\ k.rest \in Nat /\ k.t \in Nat /\ k.t <= Unending /\ k.asked \in Nat
           /\ k.x \in Nat /\ k.x >= 1 /\ k.x <= 16 /\ k.failed \in BOOLEAN
  <1>1. /\ k.due \in 0..Unending /\ k.age \in 0..MaxAge /\ k.rest \in Nat /\ k.t \in 0..Unending
        /\ k.asked \in Nat /\ k.x \in {1, 2, 4, 8, 16}
    BY DEF TimedCall
  <1>2. /\ k.due \in Nat /\ k.due <= Unending /\ k.age \in Nat /\ k.age <= MaxAge
        /\ k.t \in Nat /\ k.t <= Unending /\ k.x \in Nat /\ k.x >= 1 /\ k.x <= 16
    BY <1>1, TimedNumbers, SMT
  <1> QED
    BY <1>1, <1>2 DEF TimedCall

\* m is the call k a little later.
Later(k, m) ==
    /\ m \in TimedCall /\ m.kind = k.kind /\ m.due = k.due /\ m.age = k.age

\* A call that returns has a good record if it may report what it does.
LEMMA GoodReturn ==
    ASSUME NEW k, GoodCall(k), NEW m, Later(k, m), m.pc = "ret", m.rest = k.rest,
           Reports(m) => m.failed \/ m.due <= m.age,
           m.kind \in {"poll", "select"} /\ m.r = "none" => m.asked = m.due
    PROVE  GoodCall(m)
  <1>1. PlaceOK(m)
    BY DEF PlaceOK
  <1>2. TimeOK(m)
    BY DEF TimeOK, GoodCall, Later
  <1>3. m.rest <= LongestWait(m)
    BY DEF GoodCall, Later, LongestWait, Unit
  <1> QED
    BY <1>1, <1>2, <1>3 DEF GoodCall, Later

\* A call that waits for another thread goes on, for at most a slice.
LEMMA GoodWait ==
    ASSUME NEW k, GoodCall(k), NEW m, Later(k, m), m.rest <= WaitSlice,
           \/ k.kind = "cond" /\ m.pc \in {"cond", "asleep", "event"}
           \/ k.kind = "cond" /\ m.pc = "relock" /\ m.r \in {"ok", "timedout"}
           \/ k.kind = "address" /\ m.pc \in {"address", "watch", "aevent"}
           \/ k.kind = "lock" /\ m.pc \in {"try", "busy"}
    PROVE  GoodCall(m)
  <1>1. PlaceOK(m)
    BY DEF Later, PlaceOK
  <1>2. TimeOK(m)
    BY DEF TimeOK, GoodCall, Later
  <1>3. m.rest <= LongestWait(m)
    BY DEF Later, LongestWait
  <1> QED
    BY <1>1, <1>2, <1>3 DEF GoodCall, Later

\* What is left of the time, and of a slice.
LEMMA TimeLeftValues ==
    ASSUME NEW k \in TimedCall
    PROVE  /\ TimeLeft(k) \in Nat /\ (TimeLeft(k) = 0 => k.due <= k.age)
           /\ Slice(k) \in Nat /\ Slice(k) <= WaitSlice
           /\ Least(TimeLeft(k), 1) \in Nat /\ Least(TimeLeft(k), 1) <= WaitSlice
  <1>1. k.due \in Nat /\ k.age \in Nat
    BY CallFields
  <1>2. TimeLeft(k) \in Nat /\ (TimeLeft(k) = 0 => k.due <= k.age)
    BY <1>1, TimedNumbers, SMT DEF TimeLeft
  <1>3. \A a, b \in Nat : Least(a, b) \in Nat /\ Least(a, b) <= b
    BY SMT DEF Least
  <1>4. Slice(k) \in Nat /\ Slice(k) <= WaitSlice
    BY <1>2, <1>3, TimedNumbers DEF Slice
  <1>5. Least(TimeLeft(k), 1) \in Nat /\ Least(TimeLeft(k), 1) <= WaitSlice
    <2>1. Least(TimeLeft(k), 1) \in Nat /\ Least(TimeLeft(k), 1) <= 1
      BY <1>2, <1>3, SMT
    <2> QED
      BY <2>1, TimedNumbers, SMT
  <1> QED
    BY <1>2, <1>4, <1>5

\* The record of a call that c is in.
LEMMA InCallGood ==
    ASSUME TimedInv, NEW c \in Sleepers
    PROVE  GoodCall(timed[c]) /\ timed[c] \in TimedCall /\ calls \in 0..MaxTimed
  BY DEF TimedInv, GoodCall

\* The names of the places, and of the results.
LEMMA TimedNames ==
    /\ {"out", "sleep", "probe", "pause", "cond", "asleep", "relock", "event",
        "address", "watch", "aevent", "try", "busy", "ret"} \subseteq TimedPlaces
    /\ {"none", "ok", "ready", "timedout", "busy", "invalid"} \subseteq TimedResults
  BY DEF TimedPlaces, TimedResults

\* A call returns r,
LEMMA RetKeepsTime ==
    ASSUME TimedInv, NEW c \in Sleepers, NEW r \in TimedResults, Ret(c, r),
           owner' \in Sleepers \cup {"nobody"}, calls' = calls,
           \/ r \in {"ok", "ready"} /\ timed[c].kind # "sleep"
           \/ timed[c].due <= timed[c].age /\ timed[c].kind \notin {"poll", "select"}
           \/ timed[c].kind = "lock"
    PROVE  TimedInv'
  <1> DEFINE k == timed[c]
             m == [k EXCEPT !.pc = "ret", !.r = r]
  <1>1. GoodCall(k) /\ k \in TimedCall /\ calls \in 0..MaxTimed
    BY InCallGood
  <1>2. Later(k, m) /\ m.pc = "ret" /\ m.rest = k.rest /\ m.r = r
    BY <1>1, TimedNames DEF Later, TimedCall
  <1>3. To(c, m)
    BY DEF Ret
  <1> HIDE DEF m
  <1>4. Reports(m) => m.failed \/ m.due <= m.age
    BY <1>2 DEF Reports, Later
  <1>5. m.kind \in {"poll", "select"} /\ m.r = "none" => m.asked = m.due
    BY <1>2 DEF Later
  <1>6. GoodCall(m)
    BY <1>1, <1>2, <1>4, <1>5, GoodReturn
  <1> QED
    BY <1>1, <1>3, <1>6, ToKeepsTime

\* or fails: whatever it reports then is excused.
LEMMA FailKeepsTime ==
    ASSUME TimedInv, NEW c \in Sleepers, NEW r \in TimedResults,
           timed[c].kind \notin {"poll", "select"},
           To(c, [timed[c] EXCEPT !.pc = "ret", !.r = r, !.failed = TRUE]),
           owner' = owner, calls' = calls
    PROVE  TimedInv'
  <1> DEFINE k == timed[c]
             m == [k EXCEPT !.pc = "ret", !.r = r, !.failed = TRUE]
  <1>1. GoodCall(k) /\ k \in TimedCall /\ calls \in 0..MaxTimed
    BY InCallGood
  <1>2. Later(k, m) /\ m.pc = "ret" /\ m.rest = k.rest /\ m.failed
    BY <1>1, TimedNames DEF Later, TimedCall
  <1>3. owner' \in Sleepers \cup {"nobody"}
    BY DEF TimedInv
  <1> HIDE DEF m
  <1>4. m.kind \notin {"poll", "select"}
    BY <1>2 DEF Later
  <1>5. GoodCall(m)
    BY <1>1, <1>2, <1>4, GoodReturn
  <1> QED
    BY <1>1, <1>3, <1>5, ToKeepsTime DEF m

\* A call goes on to a place where it waits for another thread.
LEMMA WaitKeepsTime ==
    ASSUME TimedInv, NEW c \in Sleepers, NEW m, To(c, m), Later(timed[c], m),
           m.rest <= WaitSlice, owner' \in Sleepers \cup {"nobody"}, calls' = calls,
           \/ m.kind = "cond" /\ m.pc \in {"cond", "asleep", "event"}
           \/ m.kind = "cond" /\ m.pc = "relock" /\ m.r \in {"ok", "timedout"}
           \/ m.kind = "address" /\ m.pc \in {"address", "watch", "aevent"}
           \/ m.kind = "lock" /\ m.pc \in {"try", "busy"}
    PROVE  TimedInv'
  <1>1. GoodCall(timed[c]) /\ calls \in 0..MaxTimed
    BY InCallGood
  <1>2. m.kind = timed[c].kind
    BY DEF Later
  <1>3. GoodCall(m)
    BY <1>1, <1>2, GoodWait
  <1> QED
    BY <1>1, <1>3, ToKeepsTime

\* A sleep ends when its time is over.
LEMMA SleepKeepsTime ==
    ASSUME TimedInv, NEW c \in Sleepers, SleepEnds(c)
    PROVE  TimedInv'
  <1>1. /\ timed[c].pc = "sleep" /\ owner' = owner /\ calls' = calls
        /\ \/ timed[c].rest = 0 /\ Ret(c, "ok")
           \/ To(c, [timed[c] EXCEPT !.pc = "ret", !.r = "ok", !.failed = TRUE])
    BY DEF SleepEnds, In
  <1>2. /\ timed[c].kind = "sleep" /\ timed[c].due <= timed[c].age + timed[c].rest
        /\ timed[c] \in TimedCall
    BY <1>1, InCallGood DEF GoodCall, PlaceOK, TimeOK
  <1>3. timed[c].rest = 0 => timed[c].due <= timed[c].age
    <2>1. timed[c].due \in Nat /\ timed[c].age \in Nat
      BY <1>2, CallFields
    <2> QED
      BY <1>2, <2>1, SMT
  <1>4. owner' \in Sleepers \cup {"nobody"}
    BY <1>1 DEF TimedInv
  <1>5. CASE timed[c].rest = 0 /\ Ret(c, "ok")
    BY <1>1, <1>2, <1>3, <1>4, <1>5, RetKeepsTime, TimedNames
  <1>6. CASE To(c, [timed[c] EXCEPT !.pc = "ret", !.r = "ok", !.failed = TRUE])
    BY <1>1, <1>2, <1>6, FailKeepsTime, TimedNames
  <1> QED
    BY <1>1, <1>5, <1>6

\* poll and select ask, and return or wait for the smaller of t and x.
LEMMA ProbeKeepsTime ==
    ASSUME TimedInv, NEW c \in Sleepers, Probe(c)
    PROVE  TimedInv'
  <1> DEFINE k == timed[c]
             d == Least(k.t, k.x)
             a == [k EXCEPT !.asked = @ + d]
             m == [a EXCEPT !.pc = "pause", !.rest = d * Unit(k)]
             n == [k EXCEPT !.pc = "ret", !.r = "none"]
  <1>1. /\ k.pc = "probe" /\ owner' = owner /\ calls' = calls
        /\ \/ Ret(c, "ready")
           \/ k.t = 0 /\ To(c, n)
           \/ k.t # 0 /\ To(c, m)
    BY DEF Probe, In, Wait, Ret
  <1>2. GoodCall(k) /\ k \in TimedCall /\ calls \in 0..MaxTimed
    BY InCallGood
  <1>3. /\ k.kind \in {"poll", "select"} /\ k.t <= k.due /\ (k.due = Unending => k.t = Unending)
        /\ k.t + k.asked = k.due /\ (k.failed \/ k.due = Unending \/ k.asked <= k.age)
        /\ k.age <= k.due
    BY <1>1, <1>2 DEF GoodCall, PlaceOK, TimeOK
  <1>4. /\ k.due \in Nat /\ k.age \in Nat /\ k.t \in Nat /\ k.asked \in Nat /\ k.x \in Nat
        /\ k.x <= 16 /\ Unending # 0 /\ Micros \in Nat /\ Micros > 0
    BY <1>2, CallFields, TimedNumbers
  <1>5. owner' \in Sleepers \cup {"nobody"}
    BY <1>1 DEF TimedInv
  <1>6. CASE Ret(c, "ready")
    <2>1. k.kind # "sleep"
      BY <1>3
    <2> QED
      BY <1>1, <1>5, <1>6, <2>1, RetKeepsTime, TimedNames
  <1>7. CASE k.t = 0 /\ To(c, n)
    <2>1. k.asked = k.due /\ k.due # Unending
      BY <1>3, <1>4, <1>7, SMT
    <2>2. /\ Later(k, n) /\ n.pc = "ret" /\ n.rest = k.rest /\ n.failed = k.failed
          /\ n.asked = k.asked /\ n.r = "none"
      BY <1>2, TimedNames DEF Later, TimedCall
    <2>3. n.due = k.due /\ n.age = k.age
      BY <2>2 DEF Later
    <2> HIDE DEF n
    <2>4. n.failed \/ n.due <= n.age
      BY <1>3, <2>1, <2>2, <2>3
    <2>5. n.asked = n.due
      BY <2>1, <2>2, <2>3
    <2>6. GoodCall(n)
      BY <1>2, <2>2, <2>4, <2>5, GoodReturn
    <2> QED
      BY <1>1, <1>2, <1>5, <1>7, <2>6, ToKeepsTime
  <1>8. CASE k.t # 0 /\ To(c, m)
    <2>1. d \in Nat /\ d <= k.t /\ d <= 16
      BY <1>4, SMT DEF Least
    <2>2. Unit(k) \in Nat /\ Unit(k) >= 1
      BY <1>4, SMT DEF Unit
    <2>3. d * Unit(k) \in Nat /\ d <= d * Unit(k) /\ d * Unit(k) <= 16 * Unit(k)
      <3>1. \A p, u \in Nat : u >= 1 /\ p <= 16 => p * u \in Nat /\ p <= p * u /\ p * u <= 16 * u
        BY SMTT(30)
      <3> HIDE DEF d
      <3> QED
        BY <2>1, <2>2, <3>1
    <2> HIDE DEF d
    <2>4. a \in TimedCall
      <3>1. k.asked + d \in Nat
        BY <1>4, <2>1, SMT
      <3> QED
        BY <1>2, <3>1 DEF TimedCall
    <2>5. /\ a.kind = k.kind /\ a.due = k.due /\ a.age = k.age /\ a.t = k.t /\ a.x = k.x
          /\ a.asked = k.asked + d /\ a.failed = k.failed
      BY <1>2 DEF TimedCall
    <2> HIDE DEF a
    <2>6. /\ m \in TimedCall /\ m.pc = "pause" /\ m.rest = d * Unit(k)
          /\ m.kind = a.kind /\ m.due = a.due /\ m.age = a.age /\ m.t = a.t /\ m.x = a.x
          /\ m.asked = a.asked /\ m.failed = a.failed
      BY <2>3, <2>4, TimedNames DEF TimedCall
    <2> HIDE DEF m
    <2>7. PlaceOK(m)
      BY <1>3, <2>5, <2>6 DEF PlaceOK
    <2>8. m.t + m.asked = m.due + Least(m.t, m.x)
      <3>1. k.t + (k.asked + d) = k.due + d
        BY <1>3, <1>4, <2>1, SMT
      <3> QED
        BY <2>5, <2>6, <3>1 DEF d
    <2>9. m.failed \/ m.due = Unending \/ m.asked <= m.age + m.rest
      <3>1. k.failed \/ k.due = Unending \/ k.asked + d <= k.age + d * Unit(k)
        <4>1. d * Unit(k) \in Nat /\ d <= d * Unit(k)
          BY <2>3
        <4> DEFINE w == d * Unit(k)
        <4> HIDE DEF w
        <4>2. w \in Nat /\ d <= w
          BY <4>1 DEF w
        <4>3. k.asked <= k.age => k.asked + d <= k.age + w
          BY <1>4, <2>1, <4>2, SMT
        <4> QED
          BY <1>3, <4>3 DEF w
      <3> QED
        BY <2>5, <2>6, <3>1
    <2>10. TimeOK(m)
      BY <1>3, <2>5, <2>6, <2>8, <2>9 DEF TimeOK
    <2>11. m.rest <= LongestWait(m)
      <3>1. m.kind = k.kind
        BY <2>5, <2>6
      <3>2. Unit(m) = Unit(k)
        BY <3>1 DEF Unit
      <3>3. LongestWait(m) = 16 * Unit(k)
        BY <1>3, <3>1, <3>2 DEF LongestWait
      <3> QED
        BY <2>3, <2>6, <3>3
    <2> QED
      BY <1>1, <1>2, <1>5, <1>8, <2>6, <2>7, <2>10, <2>11, ToKeepsTime DEF GoodCall
  <1> QED
    BY <1>1, <1>6, <1>7, <1>8

\* After a wait t and x are those of Backoff, and what was asked for so far
\* and t make up the timeout.
LEMMA BackoffGood ==
    ASSUME NEW k, GoodCall(k), k.pc = "pause", NEW m \in TimedCall,
           m.pc = "probe", m.rest = 0, m.kind = k.kind, m.due = k.due, m.age = k.age,
           m.t = Backoff(k).t, m.asked = Backoff(k).asked,
           m.failed \/ (k.rest = 0 /\ m.failed = k.failed)
    PROVE  GoodCall(m)
  <1>1. k \in TimedCall /\ k.kind \in {"poll", "select"} /\ k.t <= k.due /\ k.age <= k.due
        /\ (k.due = Unending => k.t = Unending)
        /\ k.t + k.asked = k.due + Least(k.t, k.x)
        /\ (k.failed \/ k.due = Unending \/ k.asked <= k.age + k.rest)
    BY DEF GoodCall, PlaceOK, TimeOK
  <1>2. /\ k.due \in Nat /\ k.due <= Unending /\ k.age \in Nat /\ k.t \in Nat /\ k.asked \in Nat
        /\ k.x \in Nat /\ k.x >= 1 /\ Unending \in Nat /\ Unending # 0
    BY <1>1, CallFields, TimedNumbers
  <1>3. /\ m.t = IF k.t = Unending THEN k.t ELSE IF k.t > k.x THEN k.t - k.x ELSE 0
        /\ m.asked = IF k.t = Unending THEN 0 ELSE k.asked
    BY <1>1 DEF Backoff, TimedCall
  <1>4. m.t + m.asked = m.due
    BY <1>1, <1>2, <1>3, SMTT(30) DEF Least
  <1>5. m.t <= m.due /\ (m.due = Unending => m.t = Unending)
    BY <1>1, <1>2, <1>3, SMTT(30)
  <1>6. m.failed \/ m.due = Unending \/ m.asked <= m.age
    <2>1. k.rest = 0 => k.failed \/ k.due = Unending \/ k.asked <= k.age
      BY <1>1, <1>2, SMTT(30)
    <2>2. 0 <= k.age
      BY <1>2, SMT
    <2> QED
      BY <1>3, <2>1, <2>2
  <1>7. PlaceOK(m) /\ TimeOK(m)
    BY <1>1, <1>4, <1>5, <1>6 DEF PlaceOK, TimeOK
  <1>8. m.rest <= LongestWait(m)
    <2>1. Unit(m) \in Nat
      BY TimedNumbers, SMT DEF Unit
    <2>2. LongestWait(m) = 16 * Unit(m)
      BY <1>1 DEF LongestWait
    <2> QED
      BY <2>1, <2>2, SMT
  <1> QED
    BY <1>7, <1>8 DEF GoodCall

\* The record of Backoff.
LEMMA BackoffFields ==
    ASSUME NEW k \in TimedCall
    PROVE  /\ Backoff(k) \in TimedCall /\ Backoff(k).pc = "probe" /\ Backoff(k).rest = 0
           /\ Backoff(k).kind = k.kind /\ Backoff(k).due = k.due /\ Backoff(k).age = k.age
           /\ Backoff(k).failed = k.failed
  <1> DEFINE t == IF k.t = Unending THEN k.t ELSE IF k.t > k.x THEN k.t - k.x ELSE 0
             x == IF k.x < 16 THEN 2 * k.x ELSE k.x
             a == IF k.t = Unending THEN 0 ELSE k.asked
  <1>1. Backoff(k) = [k EXCEPT !.pc = "probe", !.rest = 0, !.t = t, !.x = x, !.asked = a]
    BY DEF Backoff
  <1>2. t \in 0..Unending
    BY CallFields, TimedNumbers, SMT
  <1>3. x \in {1, 2, 4, 8, 16}
    <2>1. k.x \in {1, 2, 4, 8, 16}
      BY DEF TimedCall
    <2> QED
      BY <2>1, SMT
  <1>4. a \in Nat /\ 0 \in Nat
    BY CallFields, SMT
  <1> HIDE DEF t, x, a
  <1>5. [k EXCEPT !.pc = "probe", !.rest = 0, !.t = t, !.x = x, !.asked = a] \in TimedCall
    BY <1>2, <1>3, <1>4, TimedNames DEF TimedCall
  <1>6. LET b == [k EXCEPT !.pc = "probe", !.rest = 0, !.t = t, !.x = x, !.asked = a]
        IN  /\ b.pc = "probe" /\ b.rest = 0 /\ b.kind = k.kind /\ b.due = k.due
            /\ b.age = k.age /\ b.failed = k.failed
    BY DEF TimedCall
  <1> QED
    BY <1>1, <1>5, <1>6

\* poll and select go on after a wait.
LEMMA PauseKeepsTime ==
    ASSUME TimedInv, NEW c \in Sleepers, PauseEnds(c)
    PROVE  TimedInv'
  <1> DEFINE k == timed[c]
             m == Backoff(k)
             f == [m EXCEPT !.failed = TRUE]
  <1>1. /\ k.pc = "pause" /\ owner' = owner /\ calls' = calls
        /\ (k.rest = 0 /\ To(c, m)) \/ To(c, f)
    BY DEF PauseEnds, In
  <1>2. GoodCall(k) /\ k \in TimedCall /\ calls \in 0..MaxTimed
    BY InCallGood
  <1>3. owner' \in Sleepers \cup {"nobody"}
    BY <1>1 DEF TimedInv
  <1>4. /\ m \in TimedCall /\ m.pc = "probe" /\ m.rest = 0 /\ m.kind = k.kind /\ m.due = k.due
        /\ m.age = k.age /\ m.failed = k.failed
    BY <1>2, BackoffFields
  <1>5. CASE k.rest = 0 /\ To(c, m)
    <2>1. GoodCall(m)
      BY <1>1, <1>2, <1>4, <1>5, BackoffGood
    <2> QED
      BY <1>1, <1>2, <1>3, <1>5, <2>1, ToKeepsTime
  <1>6. CASE To(c, f)
    <2>0. /\ f \in TimedCall /\ f.pc = m.pc /\ f.rest = m.rest /\ f.kind = m.kind
          /\ f.due = m.due /\ f.age = m.age /\ f.t = m.t /\ f.asked = m.asked /\ f.failed
      <3> HIDE DEF m
      <3> QED
        BY <1>4 DEF TimedCall
    <2> HIDE DEF f
    <2>1. GoodCall(f)
      BY <1>1, <1>2, <1>4, <2>0, BackoffGood
    <2> QED
      BY <1>1, <1>2, <1>3, <1>6, <2>1, ToKeepsTime
  <1> QED
    BY <1>1, <1>5, <1>6

\* The waits of pthread_cond_timedwait.
LEMMA CondKeepsTime ==
    ASSUME TimedInv, NEW c \in Sleepers,
           CondLoop(c) \/ Signal(c) \/ CondTimesOut(c) \/ Relock(c) \/ CondEvent(c)
    PROVE  TimedInv'
  <1> DEFINE k == timed[c]
  <1>1. GoodCall(k) /\ k \in TimedCall /\ calls \in 0..MaxTimed
    BY InCallGood
  <1>2. /\ k.kind = "cond" /\ calls' = calls
        /\ k.pc = "relock" => k.r \in {"ok", "timedout"}
    BY <1>1 DEF CondLoop, Signal, CondTimesOut, Relock, CondEvent, Over, In, GoodCall, PlaceOK
  <1>3. /\ TimeLeft(k) = 0 => k.due <= k.age
        /\ Slice(k) \in Nat /\ Slice(k) <= WaitSlice /\ k.r \in TimedResults
    BY <1>1, TimeLeftValues, CallFields
  <1>4. owner' \in Sleepers \cup {"nobody"}
    BY DEF TimedInv, CondLoop, Signal, CondTimesOut, Relock, CondEvent
  <1>5. k.rest <= WaitSlice
    BY <1>1, <1>2 DEF GoodCall, LongestWait
  <1>6. ASSUME NEW pc \in {"asleep", "event"}, To(c, [k EXCEPT !.pc = pc, !.rest = Slice(k)])
        PROVE  TimedInv'
    <2> DEFINE m == [k EXCEPT !.pc = pc, !.rest = Slice(k)]
    <2>1. Later(k, m) /\ m.pc = pc /\ m.rest = Slice(k) /\ m.kind = "cond"
      BY <1>1, <1>2, <1>3, TimedNames DEF Later, TimedCall
    <2> HIDE DEF m
    <2> QED
      BY <1>2, <1>3, <1>4, <1>6, <2>1, WaitKeepsTime DEF m
  <1>7. ASSUME NEW r \in {"ok", "timedout"}, To(c, [k EXCEPT !.pc = "relock", !.r = r])
        PROVE  TimedInv'
    <2> DEFINE m == [k EXCEPT !.pc = "relock", !.r = r]
    <2>1. Later(k, m) /\ m.pc = "relock" /\ m.rest = k.rest /\ m.r = r /\ m.kind = "cond"
      BY <1>1, <1>2, <1>7, TimedNames DEF Later, TimedCall
    <2> HIDE DEF m
    <2> QED
      BY <1>2, <1>4, <1>5, <1>7, <2>1, WaitKeepsTime DEF m
  <1>8. ASSUME NEW r \in TimedResults, Ret(c, r), r = "ok" \/ TimeLeft(k) = 0
        PROVE  TimedInv'
    BY <1>2, <1>3, <1>4, <1>8, RetKeepsTime
  <1>9. CASE CondLoop(c)
    BY <1>6, <1>8, <1>9, TimedNames DEF CondLoop
  <1>10. CASE Signal(c) \/ CondTimesOut(c)
    BY <1>7, <1>10 DEF Signal, CondTimesOut
  <1>11. CASE Relock(c)
    <2>1. /\ k.pc = "relock"
          /\ \/ (k.r # "timedout" \/ TimeLeft(k) = 0) /\ Ret(c, k.r)
             \/ To(c, [k EXCEPT !.pc = "event", !.rest = Slice(k)])
      BY <1>11 DEF Relock, In, Wait
    <2>2. k.r \in {"ok", "timedout"}
      BY <1>2, <2>1
    <2> QED
      BY <1>3, <1>6, <1>8, <2>1, <2>2
  <1>12. CASE CondEvent(c)
    <2>1. \/ To(c, [k EXCEPT !.pc = "cond"])
          \/ To(c, [k EXCEPT !.pc = "ret", !.failed = TRUE])
      BY <1>12 DEF CondEvent
    <2>2. CASE To(c, [k EXCEPT !.pc = "cond"])
      <3> DEFINE m == [k EXCEPT !.pc = "cond"]
      <3>1. Later(k, m) /\ m.pc = "cond" /\ m.rest = k.rest /\ m.kind = "cond"
        BY <1>1, <1>2, TimedNames DEF Later, TimedCall
      <3> HIDE DEF m
      <3> QED
        BY <1>2, <1>4, <1>5, <2>2, <3>1, WaitKeepsTime DEF m
    <2>3. CASE To(c, [k EXCEPT !.pc = "ret", !.failed = TRUE])
      <3> DEFINE m == [k EXCEPT !.pc = "ret", !.failed = TRUE]
      <3>1. Later(k, m) /\ m.pc = "ret" /\ m.rest = k.rest /\ m.failed /\ m.kind = "cond"
        BY <1>1, <1>2, TimedNames DEF Later, TimedCall
      <3> HIDE DEF m
      <3>2. GoodCall(m)
        BY <1>1, <3>1, GoodReturn
      <3> QED
        BY <1>1, <1>2, <1>4, <2>3, <3>2, ToKeepsTime DEF m
    <2> QED
      BY <2>1, <2>2, <2>3
  <1> QED
    BY <1>9, <1>10, <1>11, <1>12

\* The waits of WaitOnAddress.
LEMMA AddressKeepsTime ==
    ASSUME TimedInv, NEW c \in Sleepers, AddressLoop(c) \/ Watch(c) \/ AddressEvent(c)
    PROVE  TimedInv'
  <1> DEFINE k == timed[c]
  <1>1. GoodCall(k) /\ k \in TimedCall /\ calls \in 0..MaxTimed
    BY InCallGood
  <1>2. k.kind = "address" /\ calls' = calls /\ owner' = owner
    BY <1>1 DEF AddressLoop, Watch, AddressEvent, In, GoodCall, PlaceOK
  <1>3. /\ TimeLeft(k) = 0 => k.due <= k.age
        /\ Slice(k) \in Nat /\ Slice(k) <= WaitSlice
        /\ Least(TimeLeft(k), 1) \in Nat /\ Least(TimeLeft(k), 1) <= WaitSlice
    BY <1>1, TimeLeftValues
  <1>4. owner' \in Sleepers \cup {"nobody"}
    BY <1>2 DEF TimedInv
  <1>5. k.rest <= WaitSlice
    BY <1>1, <1>2 DEF GoodCall, LongestWait
  <1>6. ASSUME NEW pc \in {"watch", "aevent"}, NEW d \in Nat, d <= WaitSlice,
               To(c, [k EXCEPT !.pc = pc, !.rest = d])
        PROVE  TimedInv'
    <2> DEFINE m == [k EXCEPT !.pc = pc, !.rest = d]
    <2>1. Later(k, m) /\ m.pc = pc /\ m.rest = d /\ m.kind = "address"
      BY <1>1, <1>2, <1>6, TimedNames DEF Later, TimedCall
    <2> HIDE DEF m
    <2> QED
      BY <1>2, <1>4, <1>6, <2>1, WaitKeepsTime DEF m
  <1>7. ASSUME NEW r \in {"ok", "timedout"}, Ret(c, r), r = "ok" \/ TimeLeft(k) = 0
        PROVE  TimedInv'
    BY <1>2, <1>3, <1>4, <1>7, RetKeepsTime, TimedNames
  <1>8. CASE AddressLoop(c)
    BY <1>3, <1>6, <1>7, <1>8 DEF AddressLoop
  <1>9. CASE Watch(c)
    <2>1. \/ Ret(c, "ok")
          \/ TimeLeft(k) = 0 /\ Ret(c, "timedout")
          \/ To(c, [k EXCEPT !.pc = "aevent", !.rest = Slice(k)])
      BY <1>9 DEF Watch, Wait
    <2> QED
      BY <1>3, <1>6, <1>7, <2>1
  <1>10. CASE AddressEvent(c)
    <2>1. \/ To(c, [k EXCEPT !.pc = "address"])
          \/ To(c, [k EXCEPT !.pc = "ret", !.r = "timedout", !.failed = TRUE])
      BY <1>10 DEF AddressEvent
    <2>2. CASE To(c, [k EXCEPT !.pc = "address"])
      <3> DEFINE m == [k EXCEPT !.pc = "address"]
      <3>1. Later(k, m) /\ m.pc = "address" /\ m.rest = k.rest /\ m.kind = "address"
        BY <1>1, <1>2, TimedNames DEF Later, TimedCall
      <3> HIDE DEF m
      <3> QED
        BY <1>2, <1>4, <1>5, <2>2, <3>1, WaitKeepsTime DEF m
    <2>3. CASE To(c, [k EXCEPT !.pc = "ret", !.r = "timedout", !.failed = TRUE])
      BY <1>2, <2>3, FailKeepsTime, TimedNames
    <2> QED
      BY <2>1, <2>2, <2>3
  <1> QED
    BY <1>8, <1>9, <1>10

\* The waits of pthread_mutex_lock, and the raw pthread_mutex_unlock.
LEMMA MutexKeepsTime ==
    ASSUME TimedInv, NEW c \in Sleepers, TryLock(c) \/ BusyEnds(c) \/ Unlock(c)
    PROVE  TimedInv'
  <1> DEFINE k == timed[c]
  <1>1. GoodCall(k) /\ k \in TimedCall /\ calls \in 0..MaxTimed
    BY InCallGood
  <1>2. owner' \in Sleepers \cup {"nobody"} /\ calls' = calls
    BY DEF TimedInv, TryLock, BusyEnds, Unlock
  <1>3. CASE TryLock(c)
    <2>1. k.kind = "lock"
      BY <1>1, <1>3 DEF TryLock, In, GoodCall, PlaceOK
    <2>2. Ret(c, "ok") \/ To(c, [k EXCEPT !.pc = "busy", !.rest = WaitSlice])
      BY <1>3 DEF TryLock, Wait
    <2>3. CASE To(c, [k EXCEPT !.pc = "busy", !.rest = WaitSlice])
      <3> DEFINE m == [k EXCEPT !.pc = "busy", !.rest = WaitSlice]
      <3>1. WaitSlice \in Nat /\ WaitSlice <= WaitSlice
        BY TimedNumbers, SMT
      <3>2. Later(k, m) /\ m.pc = "busy" /\ m.rest = WaitSlice /\ m.kind = "lock"
        BY <1>1, <2>1, <3>1, TimedNames DEF Later, TimedCall
      <3> HIDE DEF m
      <3> QED
        BY <1>2, <2>3, <3>1, <3>2, WaitKeepsTime DEF m
    <2> QED
      BY <1>2, <2>1, <2>2, <2>3, RetKeepsTime, TimedNames
  <1>4. CASE BusyEnds(c)
    <2>1. k.kind = "lock" /\ owner' = owner
      BY <1>1, <1>4 DEF BusyEnds, In, GoodCall, PlaceOK
    <2>2. \/ To(c, [k EXCEPT !.pc = "try"])
          \/ To(c, [k EXCEPT !.pc = "ret", !.r = "busy", !.failed = TRUE])
      BY <1>4 DEF BusyEnds
    <2>3. CASE To(c, [k EXCEPT !.pc = "try"])
      <3> DEFINE m == [k EXCEPT !.pc = "try"]
      <3>1. Later(k, m) /\ m.pc = "try" /\ m.rest = k.rest /\ m.kind = "lock"
        BY <1>1, <2>1, TimedNames DEF Later, TimedCall
      <3>2. k.rest <= WaitSlice
        BY <1>1, <2>1 DEF GoodCall, LongestWait
      <3> HIDE DEF m
      <3> QED
        BY <1>2, <2>3, <3>1, <3>2, WaitKeepsTime DEF m
    <2> QED
      BY <1>2, <2>1, <2>2, <2>3, FailKeepsTime, TimedNames
  <1>5. CASE Unlock(c)
    <2>1. timed' = timed
      BY <1>5 DEF Unlock
    <2> QED
      BY <1>2, <2>1 DEF TimedInv, GoodCall, PlaceOK, TimeOK, Reports, LongestWait, Unit, Least
  <1> QED
    BY <1>3, <1>4, <1>5

\* A call begins with a good record.
LEMMA MakeKeepsTime ==
    ASSUME TimedInv, NEW c \in Sleepers, NEW kind, NEW due, NEW rec, Make(c, kind, due, rec),
           owner' = owner, GoodCall([rec EXCEPT !.kind = kind, !.due = due])
    PROVE  TimedInv'
  <1>1. owner' \in Sleepers \cup {"nobody"}
    BY DEF TimedInv
  <1>2. calls' \in 0..MaxTimed
    <2>1. calls \in 0..MaxTimed /\ calls < MaxTimed /\ calls' = calls + 1 /\ MaxTimed \in Nat
      BY TimedNumbers DEF TimedInv, Make
    <2> QED
      BY <2>1, SMT
  <1>3. To(c, [rec EXCEPT !.kind = kind, !.due = due])
    BY DEF Make
  <1> QED
    BY <1>1, <1>2, <1>3, ToKeepsTime

\* The record of a caller that is in no call.
LEMMA AwakeGood ==
    /\ GoodCall(Awake) /\ Awake \in TimedCall /\ Awake.pc = "out" /\ Awake.r = "none"
    /\ Awake.age = 0 /\ Awake.rest = 0 /\ Awake.asked = 0 /\ Awake.failed = FALSE
  <1>1. 0 \in Nat /\ 0 \in 0..Unending /\ 0 \in 0..MaxAge
    BY TimedNumbers, SMT
  <1>2. "none" \in TimedKinds
    BY DEF TimedKinds
  <1>3. /\ Awake.pc = "out" /\ Awake.r = "none" /\ Awake.kind = "none" /\ Awake.due = 0
        /\ Awake.age = 0 /\ Awake.rest = 0 /\ Awake.asked = 0 /\ Awake.failed = FALSE
    BY DEF Awake
  <1>4. Awake \in TimedCall
    BY <1>1, <1>2, TimedNames DEF Awake, TimedCall
  <1>5. PlaceOK(Awake)
    BY <1>3 DEF PlaceOK
  <1>6. 0 <= 0 /\ 0 <= WaitSlice
    BY TimedNumbers, SMT
  <1>7. TimeOK(Awake)
    BY <1>3, <1>6 DEF TimeOK
  <1>8. Awake.rest <= LongestWait(Awake)
    BY <1>3, <1>6 DEF LongestWait
  <1> QED
    BY <1>3, <1>4, <1>5, <1>7, <1>8 DEF GoodCall

\* A call that begins: all of its time is before it.
LEMMA StartGood ==
    ASSUME NEW m \in TimedCall, m.age = 0, m.asked = 0,
           \/ m.kind = "sleep" /\ m.pc = "sleep" /\ m.rest = m.due /\ m.due <= MaxAge
           \/ m.kind = "sleep" /\ m.pc = "ret" /\ m.rest = 0 /\ m.due = 0
           \/ m.kind \in {"poll", "select"} /\ m.pc = "probe" /\ m.t = m.due /\ m.rest = 0
           \/ m.kind = "cond" /\ m.pc = "cond" /\ m.rest = 0
           \/ m.kind = "address" /\ m.pc = "address" /\ m.rest = 0
           \/ m.kind = "lock" /\ m.pc = "try" /\ m.rest = 0
    PROVE  GoodCall(m)
  <1>1. m.due \in Nat
    BY CallFields
  <1>2. /\ m.age <= m.due /\ m.due <= m.age + m.due /\ m.due + m.asked = m.due
        /\ m.asked <= m.age /\ m.due <= m.due
        /\ m.due <= MaxAge => m.due # Unending
    BY <1>1, TimedNumbers, SMT
  <1>3. PlaceOK(m)
    BY DEF PlaceOK
  <1>4. TimeOK(m)
    BY <1>2 DEF TimeOK
  <1>5. m.rest <= LongestWait(m)
    <2>1. Unit(m) \in Nat /\ 0 <= 16 * Unit(m) /\ 0 <= WaitSlice /\ 0 <= MaxAge
      BY TimedNumbers, SMT DEF Unit
    <2> QED
      BY <2>1 DEF LongestWait
  <1> QED
    BY <1>3, <1>4, <1>5 DEF GoodCall

\* Every timed call begins so.
LEMMA StartKeepsTime ==
    ASSUME TimedInv, NEW c \in Sleepers,
           \/ MutexLock(c) \/ Refused(c)
           \/ \E t \in SleepTimes : Sleeping(c, t)
           \/ \E t \in PollTimeouts \cup {Unending} : Poll(c, t)
           \/ \E t \in SelectTimeouts : Select(c, t)
           \/ \E d \in Deadlines \cup {Unending} : CondWait(c, d) \/ AddressWait(c, d)
    PROVE  TimedInv'
  <1>1. ASSUME NEW kind \in TimedKinds, NEW due \in 0..Unending, NEW rec \in TimedCall,
               Make(c, kind, due, rec), owner' = owner, rec.age = 0, rec.asked = 0,
               \/ kind = "sleep" /\ rec.pc = "sleep" /\ rec.rest = due /\ due <= MaxAge
               \/ kind = "sleep" /\ rec.pc = "ret" /\ rec.rest = 0 /\ due = 0
               \/ kind \in {"poll", "select"} /\ rec.pc = "probe" /\ rec.t = due /\ rec.rest = 0
               \/ kind = "cond" /\ rec.pc = "cond" /\ rec.rest = 0
               \/ kind = "address" /\ rec.pc = "address" /\ rec.rest = 0
               \/ kind = "lock" /\ rec.pc = "try" /\ rec.rest = 0
        PROVE  TimedInv'
    <2> DEFINE m == [rec EXCEPT !.kind = kind, !.due = due]
    <2>1. /\ m \in TimedCall /\ m.kind = kind /\ m.due = due /\ m.pc = rec.pc /\ m.age = rec.age
          /\ m.rest = rec.rest /\ m.t = rec.t /\ m.asked = rec.asked
      BY DEF TimedCall
    <2> HIDE DEF m
    <2>2. GoodCall(m)
      BY <1>1, <2>1, StartGood
    <2> QED
      BY <1>1, <2>2, MakeKeepsTime DEF m
  <1>2. {"sleep", "poll", "select", "cond", "address", "lock"} \subseteq TimedKinds
    BY DEF TimedKinds
  <1>3. Unending \in 0..Unending /\ 0 \in 0..Unending
    BY TimedNumbers, SMT
  <1>4. ASSUME NEW d \in SleepTimes \cup PollTimeouts \cup SelectTimeouts \cup Deadlines \cup {Unending}
        PROVE  d \in 0..Unending /\ d \in Nat /\ (d # Unending => d <= MaxAge)
    <2>1. d \in 0..MaxAge \/ d = Unending
      BY TimedNumbers
    <2> QED
      BY <2>1, TimedNumbers, SMT
  <1>5. ASSUME NEW pc \in TimedPlaces
        PROVE  LET m == [Awake EXCEPT !.pc = pc]
               IN  m \in TimedCall /\ m.pc = pc /\ m.age = 0 /\ m.asked = 0 /\ m.rest = 0
    BY AwakeGood DEF TimedCall
  <1>6. ASSUME MutexLock(c) PROVE TimedInv'
    <2> DEFINE rec == [Awake EXCEPT !.pc = "try"]
    <2>1. rec \in TimedCall /\ rec.pc = "try" /\ rec.age = 0 /\ rec.asked = 0 /\ rec.rest = 0
      BY <1>5, TimedNames
    <2>2. Make(c, "lock", Unending, rec) /\ owner' = owner
      BY <1>6 DEF MutexLock
    <2> HIDE DEF rec
    <2> QED
      BY <1>1, <1>2, <1>3, <2>1, <2>2
  <1>7. ASSUME NEW d \in Deadlines \cup {Unending}, CondWait(c, d) PROVE TimedInv'
    <2> DEFINE rec == [Awake EXCEPT !.pc = "cond"]
    <2>1. rec \in TimedCall /\ rec.pc = "cond" /\ rec.age = 0 /\ rec.asked = 0 /\ rec.rest = 0
      BY <1>5, TimedNames
    <2>2. Make(c, "cond", d, rec) /\ owner' = owner
      BY <1>7 DEF CondWait
    <2>3. d \in 0..Unending
      BY <1>4
    <2> HIDE DEF rec
    <2> QED
      BY <1>1, <1>2, <2>1, <2>2, <2>3
  <1>8. ASSUME NEW d \in Deadlines \cup {Unending}, AddressWait(c, d) PROVE TimedInv'
    <2> DEFINE rec == [Awake EXCEPT !.pc = "address"]
    <2>1. rec \in TimedCall /\ rec.pc = "address" /\ rec.age = 0 /\ rec.asked = 0 /\ rec.rest = 0
      BY <1>5, TimedNames
    <2>2. Make(c, "address", d, rec) /\ owner' = owner
      BY <1>8 DEF AddressWait
    <2>3. d \in 0..Unending
      BY <1>4
    <2> HIDE DEF rec
    <2> QED
      BY <1>1, <1>2, <2>1, <2>2, <2>3
  <1>9. ASSUME Refused(c) PROVE TimedInv'
    <2> DEFINE rec == [Awake EXCEPT !.pc = "ret", !.r = "invalid"]
    <2>1. rec \in TimedCall /\ rec.pc = "ret" /\ rec.age = 0 /\ rec.asked = 0 /\ rec.rest = 0
      BY AwakeGood, TimedNames DEF TimedCall
    <2>2. Make(c, "sleep", 0, rec) /\ owner' = owner
      BY <1>9 DEF Refused
    <2> HIDE DEF rec
    <2> QED
      BY <1>1, <1>2, <1>3, <2>1, <2>2
  <1>10. ASSUME NEW t \in SleepTimes, Sleeping(c, t) PROVE TimedInv'
    <2> DEFINE rec == [Awake EXCEPT !.pc = "sleep", !.rest = t]
    <2>1. t \in 0..Unending /\ t \in Nat /\ t <= MaxAge
      <3>1. t \in 0..MaxAge
        BY TimedNumbers
      <3> QED
        BY <3>1, TimedNumbers, SMT
    <2>2. rec \in TimedCall /\ rec.pc = "sleep" /\ rec.age = 0 /\ rec.asked = 0 /\ rec.rest = t
      BY <2>1, AwakeGood, TimedNames DEF TimedCall
    <2>3. Make(c, "sleep", t, rec) /\ owner' = owner
      BY <1>10 DEF Sleeping
    <2> HIDE DEF rec
    <2> QED
      BY <1>1, <1>2, <2>1, <2>2, <2>3
  <1>11. ASSUME NEW t \in PollTimeouts \cup SelectTimeouts \cup {Unending},
                Poll(c, t) \/ Select(c, t)
         PROVE  TimedInv'
    <2> DEFINE rec == [Awake EXCEPT !.pc = "probe", !.t = t]
    <2>1. t \in 0..Unending
      BY <1>4
    <2>2. /\ rec \in TimedCall /\ rec.pc = "probe" /\ rec.age = 0 /\ rec.asked = 0 /\ rec.rest = 0
          /\ rec.t = t
      BY <2>1, AwakeGood, TimedNames DEF TimedCall
    <2>3. (Make(c, "poll", t, rec) \/ Make(c, "select", t, rec)) /\ owner' = owner
      BY <1>11 DEF Poll, Select
    <2> HIDE DEF rec
    <2> QED
      BY <1>1, <1>2, <2>1, <2>2, <2>3
  <1> QED
    BY <1>6, <1>7, <1>8, <1>9, <1>10, <1>11

\* Time passes for every call, and takes as much from a wait as it adds to
\* the age of a call.
LEMMA OlderGood ==
    ASSUME NEW k, GoodCall(k)
    PROVE  GoodCall(Older(k))
  <1> DEFINE age == IF k.due = Unending THEN 0 ELSE Least(k.age + 1, k.due)
             rest == IF k.rest = 0 THEN 0 ELSE k.rest - 1
             m == [k EXCEPT !.age = age, !.rest = rest]
  <1>1. k \in TimedCall /\ k.age <= k.due
    BY DEF GoodCall, TimeOK
  <1>2. /\ k.due \in Nat /\ k.due <= Unending /\ k.age \in Nat /\ k.age <= MaxAge /\ k.rest \in Nat
        /\ k.asked \in Nat /\ MaxAge \in Nat /\ Unending = MaxAge + 1 /\ k.t \in Nat /\ k.x \in Nat
    BY <1>1, CallFields, TimedNumbers DEF Unending
  <1>3. /\ age \in 0..MaxAge /\ age <= k.due /\ rest \in Nat /\ rest <= k.rest
        /\ k.age <= age \/ k.due = Unending
        /\ k.due # Unending => age + rest >= k.age + k.rest \/ age = k.due
    BY <1>1, <1>2, SMTT(30) DEF Least
  <1> HIDE DEF age, rest
  <1>4. Older(k) = m
    BY DEF Older, age, rest
  <1>5. /\ m \in TimedCall /\ m.age = age /\ m.rest = rest /\ m.pc = k.pc /\ m.kind = k.kind
        /\ m.due = k.due /\ m.t = k.t /\ m.x = k.x /\ m.asked = k.asked /\ m.r = k.r
        /\ m.failed = k.failed
    BY <1>1, <1>3 DEF TimedCall
  <1> HIDE DEF m
  <1>6. PlaceOK(m)
    BY <1>5 DEF GoodCall, PlaceOK
  <1>7. age \in Nat /\ rest \in Nat
    BY <1>3, SMT
  <1>8. m.pc = "sleep" => m.due # Unending /\ m.due <= m.age + m.rest
    <2>1. k.pc = "sleep" => k.due # Unending /\ k.due <= k.age + k.rest
      BY DEF GoodCall, TimeOK
    <2>2. k.due # Unending /\ k.due <= k.age + k.rest => k.due <= age + rest
      BY <1>2, <1>3, <1>7, SMTT(30)
    <2> QED
      BY <1>5, <2>1, <2>2
  <1>9. m.pc = "probe" => m.t + m.asked = m.due /\ (m.failed \/ m.due = Unending \/ m.asked <= m.age)
    <2>1. k.pc = "probe" => /\ k.t + k.asked = k.due
                            /\ k.failed \/ k.due = Unending \/ k.asked <= k.age
      BY DEF GoodCall, TimeOK
    <2>2. k.due # Unending /\ k.asked <= k.age => k.asked <= age
      BY <1>2, <1>3, <1>7, SMT
    <2> QED
      BY <1>5, <2>1, <2>2
  <1>10. m.pc = "pause" => /\ m.t + m.asked = m.due + Least(m.t, m.x)
                           /\ m.failed \/ m.due = Unending \/ m.asked <= m.age + m.rest
    <2>1. k.pc = "pause" => /\ k.t + k.asked = k.due + Least(k.t, k.x)
                            /\ k.failed \/ k.due = Unending \/ k.asked <= k.age + k.rest
      BY DEF GoodCall, TimeOK
    <2>2. k.t + k.asked = k.due + Least(k.t, k.x) => k.asked <= k.due
      BY <1>2, SMT DEF Least
    <2>3. k.due # Unending /\ k.asked <= k.due /\ k.asked <= k.age + k.rest => k.asked <= age + rest
      BY <1>2, <1>3, <1>7, SMTT(30)
    <2> QED
      BY <1>5, <2>1, <2>2, <2>3
  <1>11. m.pc = "ret" => /\ Reports(m) => m.failed \/ m.due <= m.age
                         /\ m.kind \in {"poll", "select"} /\ m.r = "none" => m.asked = m.due
    <2>1. k.pc = "ret" => /\ Reports(k) => k.failed \/ k.due <= k.age
                          /\ k.kind \in {"poll", "select"} /\ k.r = "none" => k.asked = k.due
      BY DEF GoodCall, TimeOK
    <2>2. Reports(m) <=> Reports(k)
      BY <1>5 DEF Reports
    <2>3. k.due <= k.age => k.due <= age
      BY <1>2, <1>3, <1>7, SMTT(30)
    <2> QED
      BY <1>5, <2>1, <2>2, <2>3
  <1>12. TimeOK(m)
    BY <1>3, <1>5, <1>8, <1>9, <1>10, <1>11 DEF GoodCall, TimeOK
  <1>13. m.rest <= LongestWait(m)
    <2>1. LongestWait(m) = LongestWait(k) /\ LongestWait(k) \in Nat
      <3>1. Unit(k) \in Nat /\ 16 * Unit(k) \in Nat
        BY TimedNumbers, SMT DEF Unit
      <3> QED
        BY <1>5, <3>1, TimedNumbers DEF LongestWait, Unit
    <2>2. k.rest <= LongestWait(k)
      BY DEF GoodCall
    <2> QED
      BY <1>2, <1>3, <1>5, <1>7, <2>1, <2>2, SMT
  <1> QED
    BY <1>4, <1>5, <1>6, <1>12, <1>13 DEF GoodCall

\* The clock, and the word that WaitOnAddress watches.
LEMMA ClockKeepsTime ==
    ASSUME TimedInv, TimePasses \/ StoreWord \/ UNCHANGED tvars
    PROVE  TimedInv'
  <1>1. CASE TimePasses
    <2>1. /\ timed' = [c \in Sleepers |-> IF InTimed(c) THEN Older(timed[c]) ELSE timed[c]]
          /\ owner' = owner /\ calls' = calls
      BY <1>1 DEF TimePasses
    <2>2. \A c \in Sleepers : GoodCall(timed'[c])
      BY <2>1, OlderGood DEF TimedInv
    <2>3. timed' \in [Sleepers -> TimedCall]
      BY <2>1, <2>2 DEF GoodCall
    <2>4. \A c \in Sleepers : GoodCall(timed[c])'
      BY <2>2 DEF GoodCall, PlaceOK, TimeOK, LongestWait, TimedCall, Reports, Unit, Least
    <2> QED
      BY <2>1, <2>3, <2>4 DEF TimedInv
  <1>2. CASE StoreWord \/ UNCHANGED tvars
    <2>1. timed' = timed /\ owner' = owner /\ calls' = calls
      BY <1>2 DEF StoreWord, tvars
    <2> QED
      BY <2>1 DEF TimedInv, GoodCall, PlaceOK, TimeOK, Reports, LongestWait, Unit, Least
  <1> QED
    BY <1>1, <1>2

\* The caller takes the result.
LEMMA ReturnsKeepsTime ==
    ASSUME TimedInv, NEW c \in Sleepers, Returns(c)
    PROVE  TimedInv'
  <1>1. /\ To(c, Awake) /\ owner' \in Sleepers \cup {"nobody"} /\ calls' \in 0..MaxTimed
    BY DEF Returns, TimedInv
  <1> QED
    BY <1>1, AwakeGood, ToKeepsTime

\* TimedInv is an invariant.
LEMMA TimedAlways ==
    /\ HookedInit => TimedInv
    /\ TimedInv /\ [HookedNext]_hvars => TimedInv'
  <1>1. ASSUME HookedInit PROVE TimedInv
    <2>1. 0 \in 0..MaxTimed
      BY TimedNumbers, SMT
    <2>2. /\ timed = [c \in Sleepers |-> Awake] /\ owner = "nobody" /\ calls = 0
      BY <1>1 DEF HookedInit, TimedInit
    <2> QED
      BY <2>1, <2>2, AwakeGood DEF TimedInv
  <1>2. ASSUME TimedInv, [HookedNext]_hvars PROVE TimedInv'
    <2>1. CASE TimedNext
      BY <1>2, <2>1, SleepKeepsTime, ProbeKeepsTime, PauseKeepsTime, CondKeepsTime,
         AddressKeepsTime, MutexKeepsTime, ReturnsKeepsTime, StartKeepsTime, ClockKeepsTime
         DEF TimedNext, TimedStep
    <2>2. CASE UNCHANGED tvars
      BY <1>2, <2>2, ClockKeepsTime
    <2> QED
      BY <1>2, <2>1, <2>2 DEF HookedNext, Sockets, Timers, hvars
  <1> QED
    BY <1>1, <1>2

(* A sleep, a poll or select that reports nothing and a wait that reports  *)
(* a timeout have lasted as long as they were asked to, unless a wait      *)
(* failed, and the waits of poll and select add up to the timeout they     *)
(* were given, for all durations, timeouts and deadlines and any number of *)
(* callers.                                                                *)
THEOREM NeverEarly == HookedSpec => []NotEarly
  <1>1. TimedInv => NotEarly
    <2> SUFFICES ASSUME TimedInv, NEW c \in Sleepers, timed[c].pc = "ret"
                 PROVE  /\ Reports(timed[c]) => timed[c].failed \/ timed[c].age >= timed[c].due
                        /\ timed[c].kind \in {"poll", "select"} /\ timed[c].r = "none" =>
                             timed[c].asked = timed[c].due
      BY DEF NotEarly, Back, Reports
    <2>1. TimeOK(timed[c]) /\ timed[c] \in TimedCall
      BY DEF TimedInv, GoodCall
    <2>2. timed[c].due <= timed[c].age => timed[c].age >= timed[c].due
      BY <2>1, CallFields, SMT
    <2> QED
      BY <2>1, <2>2 DEF TimeOK
  <1> QED
    BY <1>1, TimedAlways, PTL DEF HookedSpec
-----------------------------------------------------------------------------
(* Bytes, errors and limits.  A transfer counts the bytes it moved and is  *)
(* told to block only while some are missing; a call that has run out of   *)
(* time has lasted as long as the limit of its socket.                     *)

\* The kinds of calls, the error numbers, and the record of a call.
SocketKinds == {"none", "connect", "setsockopt", "ioctlsocket", "read", "read_buf",
                "read_iovec", "write_buf", "write_iovec", "recvmsg", "sendmsg"}
Errnos == {"ok", "again", "progress", "intr", "other", "refused", "timedout", "expired"}

SocketCall == [pc : Spots, kind : SocketKinds, dir : Dirs, lens : Seq(Nat), blocking : BOOLEAN,
               on : BOOLEAN, age : 0..MaxLimit, left : 0..Forever, at : {1, 2}, done : Nat,
               shift : Nat, r : Int, errno : Errnos, connected : BOOLEAN, failed : BOOLEAN,
               moved : Nat]

SocketsTyped ==
    /\ os \in {"unix", "windows"}
    /\ nonblocking \in BOOLEAN /\ NON_BLOCKING \in BOOLEAN /\ wanted \in BOOLEAN
    /\ shared \in BOOLEAN /\ aborted \in BOOLEAN
    /\ kernel \in [Dirs -> Limits] /\ limits \in [Dirs -> Limits \cup {None}]
    /\ made \in 0..MaxCalls
    /\ call \in [Callers -> SocketCall]

\* A call that transfers or connects, and so works with a limit.
Moving(k) == k.kind \in DOMAIN Transfers
Limited(k) == Moving(k) \/ k.kind = "connect"

\* Which calls are where.
SpotOK(k) ==
    /\ k.pc = "loop" => Moving(k)
    /\ k.pc \in {"connect", "cloop", "peer", "so_error"} => k.kind = "connect"
    /\ k.pc \in {"mode", "set", "ioctl", "limit", "insert", "blocked", "wait", "restore"} => Limited(k)
    /\ k.pc = "record" => k.kind = "setsockopt"
    /\ k.pc \in {"insert", "record"} => k.left # 0
    /\ k.pc = "shadow" => Limited(k) \/ k.kind = "ioctlsocket"

\* The call has not come to its end.
Before(k) == k.pc \notin {"restore", "done"} /\ (k.pc \in {"set", "ioctl", "shadow"} => k.on)

\* The buffers of a transfer.
BufferOK(k) ==
    /\ IF Transfers[k.kind].vector THEN Len(k.lens) = 2 ELSE Len(k.lens) = 1
    /\ k.at <= Len(k.lens)

\* The count of bytes is true, stays within the buffers, and a transfer with
\* one buffer reports it or an error when it is 0.
ByteOK(k) ==
    /\ k.done <= Total(k.lens) + 1
    /\ ~Moving(k) => k.lens = <<>>
    /\ Moving(k) =>
         /\ BufferOK(k)
         /\ k.moved = k.done /\ k.r <= k.done
         /\ k.pc = "blocked" => k.done < Upto(k)
         /\ Len(k.lens) = 1 => /\ k.r = k.done \/ (k.r = -1 /\ k.done = 0)
                               /\ Before(k) /\ k.done < Upto(k) => k.done = 0

\* The call has the limit of the socket, which is then in the cache.
Late(k) ==
    /\ Limited(k) /\ k.pc \notin {"mode", "limit", "insert"}
    /\ k.pc \in {"set", "ioctl", "shadow"} => ~k.on

\* A raw call would block only while bytes are missing, and that is reported
\* only when no time is left or a wait failed.
BlockOK(k) ==
    /\ Moving(k) => k.errno # "progress" /\ (Before(k) /\ k.errno = "again" => k.done < Upto(k))
    /\ k.kind = "connect" => k.errno # "again" /\ k.dir = "send"
    /\ Limited(k) /\ ~Before(k) /\ k.r = -1 /\ k.errno \in {"again", "progress"} =>
         k.failed \/ k.left = 0

\* A call that has no time left has lasted as long as the cached limit.
LimitOK(k) == Late(k) => limits[k.dir] # None /\ (k.left = 0 => k.age >= limits[k.dir])

\* While calls do not overlap only one is under way, and the cache has the
\* limits of the kernel or a call is about to store them.
Alone == \A c, d \in Callers : call[c].pc # "idle" /\ call[d].pc # "idle" => c = d

Known ==
    /\ \A c \in Callers : call[c].pc \in {"insert", "record"} => call[c].left = kernel[call[c].dir]
    /\ \A d \in Dirs : /\ limits[d] # None
                       /\ \A c \in Callers : call[c].pc = "record" => call[c].dir # d
                       => kernel[d] = limits[d]

\* Without a panic in the cache, the limits that calls work with are right.
LimitInv ==
    /\ ~aborted => \A c \in Callers : LimitOK(call[c])
    /\ ~shared => Alone
    /\ ~shared /\ ~aborted => Known

\* The constants, one by one.
LEMMA SocketNumbers ==
    /\ MaxLimit \in Nat /\ MaxLimit > 0 /\ MaxCalls \in Nat /\ Forever \in Nat /\ Forever = MaxLimit + 1
    /\ None = 0 /\ Limits = 1..Forever /\ Lengths \subseteq Nat
    /\ \A v \in Vectors : v \in Seq(Nat) /\ Len(v) = 2
    /\ Dirs = {"recv", "send"}
  <1>1. \A v \in Vectors : v \in Seq(Nat) /\ Len(v) = 2
    BY SocketConstants, SMT
  <1> QED
    BY <1>1, SocketConstants, SMT DEF Forever, None, Limits, Dirs

\* The transfers, and what they have in common on every system.
MovingKinds == {"read", "read_buf", "read_iovec", "write_buf", "write_iovec", "recvmsg", "sendmsg"}

RuleOK(x) == /\ x.vector \in BOOLEAN /\ x.dir \in Dirs /\ x.start \in {-1, 0}
             /\ ~x.vector => x.start = -1

\* What the tables say of each transfer.
LEMMA TransferFacts ==
    ASSUME os \in {"unix", "windows"}, NEW kind \in DOMAIN Transfers
    PROVE  kind \in MovingKinds /\ RuleOK(Transfers[kind])
  <1>0. ASSUME NEW dir \in {"recv", "send"}, NEW vector \in BOOLEAN, NEW start \in {-1, 0}, NEW eof,
               NEW failed, ~vector => start = -1
        PROVE  RuleOK([dir |-> dir, vector |-> vector, start |-> start, eof |-> eof, failed |-> failed])
    BY <1>0, SMT DEF RuleOK, Dirs
  <1>1. CASE os = "unix"
    <2>1. Transfers = U!transfers
      BY <1>1 DEF Transfers
    <2>2. DOMAIN U!transfers = {"read", "read_buf", "read_iovec", "write_buf", "write_iovec", "recvmsg", "sendmsg"}
      BY DEF U!transfers
    <2>3. RuleOK(U!transfers["read"])
      BY <1>0 DEF U!transfers, U!impl_nio_read, U!Transfer
    <2>4. RuleOK(U!transfers["read_buf"])
      BY <1>0 DEF U!transfers, U!impl_nio_read_buf, U!Transfer
    <2>5. RuleOK(U!transfers["read_iovec"])
      BY <1>0 DEF U!transfers, U!impl_nio_read_iovec, U!Transfer
    <2>6. RuleOK(U!transfers["write_buf"])
      BY <1>0 DEF U!transfers, U!impl_nio_write_buf, U!Transfer
    <2>7. RuleOK(U!transfers["write_iovec"])
      BY <1>0 DEF U!transfers, U!impl_nio_write_iovec, U!Transfer
    <2>8. RuleOK(U!transfers["recvmsg"])
      BY <1>0 DEF U!transfers, U!NioRecvmsg, U!Transfer
    <2>9. RuleOK(U!transfers["sendmsg"])
      BY <1>0 DEF U!transfers, U!NioSendmsg, U!Transfer
    <2> QED
      BY <2>1, <2>2, <2>3, <2>4, <2>5, <2>6, <2>7, <2>8, <2>9 DEF MovingKinds
  <1>2. CASE os = "windows"
    <2>1. Transfers = W!transfers_w
      BY <1>2 DEF Transfers
    <2>2. DOMAIN W!transfers_w = {"read", "read_buf", "read_iovec", "write_buf", "write_iovec"}
      BY DEF W!transfers_w
    <2>3. RuleOK(W!transfers_w["read"])
      BY <1>0 DEF W!transfers_w, W!impl_nio_read_w, W!Transfer
    <2>4. RuleOK(W!transfers_w["read_buf"])
      BY <1>0 DEF W!transfers_w, W!impl_nio_read_buf_w, W!Transfer
    <2>5. RuleOK(W!transfers_w["read_iovec"])
      BY <1>0 DEF W!transfers_w, W!impl_nio_read_iovec_w, W!Transfer
    <2>6. RuleOK(W!transfers_w["write_buf"])
      BY <1>0 DEF W!transfers_w, W!impl_nio_write_buf_w, W!Transfer
    <2>7. RuleOK(W!transfers_w["write_iovec"])
      BY <1>0 DEF W!transfers_w, W!impl_nio_write_iovec_w, W!Transfer
    <2> QED
      BY <2>1, <2>2, <2>3, <2>4, <2>5, <2>6, <2>7 DEF MovingKinds
  <1> QED
    BY <1>1, <1>2

\* The bytes in some of one or two buffers.
LEMMA SliceTotals ==
    ASSUME NEW s \in Seq(Nat), Len(s) \in {1, 2}
    PROVE  /\ s[1] \in Nat /\ Total(SubSeq(s, 1, 0)) = 0 /\ Total(SubSeq(s, 1, 1)) = s[1]
           /\ Len(s) = 1 => Total(s) = s[1]
           /\ Len(s) = 2 => /\ s[2] \in Nat /\ Total(s) = s[1] + s[2]
                            /\ Total(SubSeq(s, 1, 2)) = s[1] + s[2] /\ Total(SubSeq(s, 2, 2)) = s[2]
  <1>1. s[1] \in Nat /\ (Len(s) = 2 => s[2] \in Nat)
    BY SMT
  <1>2. ASSUME NEW t \in Seq(Nat)
        PROVE  /\ Len(t) = 0 => Total(t) = 0
               /\ Len(t) = 1 => Total(t) = t[1]
               /\ Len(t) = 2 => Total(t) = t[1] + t[2]
    BY <1>2, SMT DEF Total
  <1>3. SubSeq(s, 1, 0) \in Seq(Nat) /\ Len(SubSeq(s, 1, 0)) = 0
    BY SMT
  <1>4. ASSUME NEW i \in 1..Len(s)
        PROVE  /\ SubSeq(s, i, i) \in Seq(Nat) /\ Len(SubSeq(s, i, i)) = 1
               /\ SubSeq(s, i, i)[1] = s[i]
    <2>1. SubSeq(s, i, i) \in Seq(Nat) /\ Len(SubSeq(s, i, i)) = 1
      BY SMTT(30)
    <2>2. SubSeq(s, i, i)[1] = s[i]
      BY SMTT(30)
    <2> QED
      BY <2>1, <2>2
  <1>5. ASSUME Len(s) = 2 PROVE SubSeq(s, 1, 2) = s
    <2>1. SubSeq(s, 1, 2) \in Seq(Nat) /\ Len(SubSeq(s, 1, 2)) = 2
      <3>1. SubSeq(s, 1, 2) \in Seq(Nat)
        BY <1>5, SMTT(90)
      <3>2. Len(SubSeq(s, 1, 2)) = 2
        BY <1>5, SMTT(90)
      <3> QED
        BY <3>1, <3>2
    <2>2. SubSeq(s, 1, 2)[1] = s[1] /\ SubSeq(s, 1, 2)[2] = s[2]
      BY <1>5, SMTT(30)
    <2> QED
      BY <1>5, <2>1, <2>2, SMTT(30)
  <1>6. 1 \in 1..Len(s) /\ (Len(s) = 2 => 2 \in 1..Len(s))
    <2>1. 1 \in 1..1 /\ 1 \in 1..2 /\ 2 \in 1..2
      BY SMT
    <2> QED
      BY <2>1
  <1> QED
    BY <1>1, <1>2, <1>3, <1>4, <1>5, <1>6

\* The bytes up to the end of the buffer at hand, and the room in the rest.
LEMMA BufferFacts ==
    ASSUME NEW k \in SocketCall, Len(k.lens) \in {1, 2}, k.at <= Len(k.lens)
    PROVE  /\ k.lens[1] \in Nat /\ k.done \in Nat /\ k.shift \in Nat
           /\ Len(k.lens) = 1 => /\ k.at = 1 /\ Upto(k) = k.lens[1] /\ Total(k.lens) = k.lens[1]
                                 /\ Offset(k) = k.done
                                 /\ Room(k) = k.lens[1] - (k.shift + k.done)
           /\ Len(k.lens) = 2 /\ k.at = 1 =>
                /\ k.lens[2] \in Nat /\ Upto(k) = k.lens[1] /\ Total(k.lens) = k.lens[1] + k.lens[2]
                /\ Offset(k) = k.done
                /\ Room(k) = (k.lens[1] + k.lens[2]) - (k.shift + k.done)
           /\ Len(k.lens) = 2 /\ k.at = 2 =>
                /\ k.lens[2] \in Nat /\ Upto(k) = k.lens[1] + k.lens[2]
                /\ Total(k.lens) = k.lens[1] + k.lens[2]
                /\ Offset(k) = IF k.done > k.lens[1] THEN k.done - k.lens[1] ELSE 0
                /\ Room(k) = k.lens[2] - (k.shift + Offset(k))
  <1>1. k.lens \in Seq(Nat) /\ k.at \in {1, 2} /\ k.done \in Nat /\ k.shift \in Nat
    BY DEF SocketCall
  <1>2. k.at = 1 => k.at - 1 = 0
    BY SMT
  <1>3. k.at = 2 => k.at - 1 = 1
    BY SMT
  <1>4. Len(k.lens) = 1 => k.at = 1
    BY <1>1, SMT
  <1>5. k.at = 1 => Upto(k) = k.lens[1] /\ Stage(k) = 0
    BY <1>1, <1>2, SliceTotals DEF Upto, Stage
  <1>6. k.at = 1 => Offset(k) = k.done
    BY <1>1, <1>5, SMT DEF Offset
  <1>7. Len(k.lens) = 1 => Room(k) = k.lens[1] - (k.shift + k.done)
    BY <1>1, <1>4, <1>6, SliceTotals DEF Room
  <1>8. Len(k.lens) = 2 /\ k.at = 1 => Room(k) = (k.lens[1] + k.lens[2]) - (k.shift + k.done)
    BY <1>1, <1>6, SliceTotals DEF Room
  <1>9. Len(k.lens) = 2 /\ k.at = 2 => /\ Upto(k) = k.lens[1] + k.lens[2] /\ Stage(k) = k.lens[1]
                                       /\ Room(k) = k.lens[2] - (k.shift + Offset(k))
    BY <1>1, <1>3, SliceTotals DEF Upto, Stage, Room
  <1>10. Len(k.lens) = 2 /\ k.at = 2 =>
           Offset(k) = IF k.done > k.lens[1] THEN k.done - k.lens[1] ELSE 0
    BY <1>9 DEF Offset
  <1> QED
    BY <1>1, <1>4, <1>5, <1>6, <1>7, <1>8, <1>9, <1>10, SliceTotals

\* What holds of the record of every call, and the inductive invariant.
GoodSocket(k) == k \in SocketCall /\ SpotOK(k) /\ ByteOK(k) /\ BlockOK(k)

SocketInv ==
    /\ SocketsTyped
    /\ \A c \in Callers : GoodSocket(call[c])
    /\ LimitInv

\* The numbers of a call.
LEMMA SocketFields ==
    ASSUME NEW k \in SocketCall
    PROVE  /\ k.pc \in Spots /\ k.kind \in SocketKinds /\ k.dir \in Dirs /\ k.lens \in Seq(Nat)
           /\ k.on \in BOOLEAN /\ k.blocking \in BOOLEAN /\ k.failed \in BOOLEAN
           /\ k.age \in Nat /\ k.age <= MaxLimit /\ k.left \in Nat /\ k.left <= Forever
           /\ k.at \in {1, 2} /\ k.done \in Nat /\ k.shift \in Nat /\ k.r \in Int /\ k.moved \in Nat
           /\ k.errno \in Errnos
  <1>1. k.age \in 0..MaxLimit /\ k.left \in 0..Forever
    BY DEF SocketCall
  <1>2. k.age \in Nat /\ k.age <= MaxLimit /\ k.left \in Nat /\ k.left <= Forever
    BY <1>1, SocketNumbers, SMT
  <1> QED
    BY <1>2 DEF SocketCall

\* The kinds and the errors, by name.
LEMMA SocketNames ==
    /\ {"ok", "again", "progress", "intr", "other", "refused", "timedout", "expired"} \subseteq Errnos
    /\ {"limit", "insert", "loop", "wait", "connect", "cloop", "peer", "so_error", "restore", "idle",
        "done", "mode", "set", "ioctl", "shadow", "record", "blocked"} \subseteq Spots
    /\ {"none", "connect", "setsockopt", "ioctlsocket"} \subseteq SocketKinds
    /\ MovingKinds \subseteq SocketKinds
    /\ \A k \in {"none", "connect", "setsockopt", "ioctlsocket"} : k \notin MovingKinds
  BY DEF Errnos, Spots, Working, SocketKinds, MovingKinds

\* m has moved and reports what the call k has.
Alike(k, m) ==
    /\ m \in SocketCall /\ m.kind = k.kind /\ m.dir = k.dir /\ m.lens = k.lens
    /\ m.at = k.at /\ m.done = k.done /\ m.r = k.r /\ m.errno = k.errno
    /\ m.failed = k.failed /\ m.moved = k.moved

\* m is the call k at another place.
Same(k, m) == Alike(k, m) /\ m.age = k.age /\ m.left = k.left

\* A call that has neither moved nor reported anything new is still good.
LEMMA AlikeGood ==
    ASSUME NEW k, GoodSocket(k), NEW m, Alike(k, m), SpotOK(m), Before(m) \/ m.left = k.left,
           Limited(k) => (Before(m) <=> Before(k)),
           Moving(k) /\ m.pc = "blocked" => k.done < Upto(k)
    PROVE  GoodSocket(m)
  <1>1. (Moving(m) <=> Moving(k)) /\ (Limited(m) <=> Limited(k)) /\ (Moving(k) => Limited(k))
    BY DEF Alike, Moving, Limited
  <1>2. Upto(m) = Upto(k) /\ (BufferOK(m) <=> BufferOK(k))
    BY DEF Alike, Upto, BufferOK
  <1>3. ByteOK(m)
    BY <1>1, <1>2 DEF GoodSocket, ByteOK, Alike
  <1>4. BlockOK(m)
    BY <1>1, <1>2 DEF GoodSocket, BlockOK, Alike
  <1> QED
    BY <1>3, <1>4 DEF GoodSocket, Alike

\* The limit of a call that only goes to another place.
LEMMA SameLimit ==
    ASSUME NEW k, NEW m, Same(k, m), LimitOK(k), Late(m) => Late(k)
    PROVE  LimitOK(m)
  BY DEF Same, Alike, LimitOK

\* What a call's record says depends on the tables of the system only.
LEMMA GoodStays ==
    ASSUME os' = os, \A c \in Callers : GoodSocket(call'[c])
    PROVE  \A c \in Callers : GoodSocket(call[c])'
  <1>1. Transfers' = Transfers
    BY DEF Transfers
  <1> SUFFICES ASSUME NEW c \in Callers PROVE GoodSocket(call[c])'
    OBVIOUS
  <1>2. call'[c] \in SocketCall /\ SpotOK(call'[c]) /\ ByteOK(call'[c]) /\ BlockOK(call'[c])
    BY DEF GoodSocket
  <1>3. SpotOK(call[c])'
    BY <1>1, <1>2 DEF SpotOK, Moving, Limited
  <1>4. BufferOK(call'[c]) => BufferOK(call[c])'
    BY <1>1 DEF BufferOK
  <1>5. ByteOK(call[c])'
    BY <1>1, <1>2, <1>4 DEF ByteOK, Moving, Before, Upto
  <1>6. BlockOK(call[c])'
    BY <1>1, <1>2 DEF BlockOK, Moving, Limited, Before, Upto
  <1> QED
    BY <1>2, <1>3, <1>5, <1>6 DEF GoodSocket

\* One call goes on, and leaves the socket's limits alone.
LEMMA SocketGoesOn ==
    ASSUME SocketInv, NEW c \in Callers, NEW m, Becomes(c, m), GoodSocket(m),
           ~aborted => LimitOK(m),
           UNCHANGED <<os, kernel, limits, shared, aborted, made, wanted>>,
           nonblocking' \in BOOLEAN, NON_BLOCKING' \in BOOLEAN,
           call[c].pc \notin {"idle", "record"}, m.pc \notin {"insert", "record"}
    PROVE  SocketInv'
  <1>1. call \in [Callers -> SocketCall] /\ m \in SocketCall
    BY DEF SocketInv, SocketsTyped, GoodSocket
  <1>2. call' \in [Callers -> SocketCall] /\ call'[c] = m
    BY <1>1 DEF Becomes
  <1>3. \A d \in Callers : d # c => call'[d] = call[d]
    BY <1>1 DEF Becomes
  <1>4. SocketsTyped'
    BY <1>2 DEF SocketInv, SocketsTyped
  <1>5. \A d \in Callers : GoodSocket(call'[d])
    BY <1>2, <1>3 DEF SocketInv
  <1>6. \A d \in Callers : GoodSocket(call[d])'
    BY <1>5, GoodStays
  <1>7. ~aborted' => \A d \in Callers : LimitOK(call[d])'
    <2> SUFFICES ASSUME ~aborted, NEW d \in Callers PROVE LimitOK(call[d])'
      OBVIOUS
    <2>1. LimitOK(call'[d])
      BY <1>2, <1>3 DEF SocketInv, LimitInv
    <2> QED
      BY <2>1 DEF LimitOK, Late, Limited, Moving, Transfers
  <1>8. ~shared' => Alone'
    <2> SUFFICES ASSUME ~shared, NEW x \in Callers, NEW y \in Callers, call'[x].pc # "idle",
                        call'[y].pc # "idle"
                 PROVE  x = y
      BY DEF Alone
    <2>1. call[x].pc # "idle" /\ call[y].pc # "idle"
      BY <1>3
    <2> QED
      BY <2>1 DEF SocketInv, LimitInv, Alone
  <1>9. ~shared' /\ ~aborted' => Known'
    <2> SUFFICES ASSUME ~shared, ~aborted PROVE Known'
      OBVIOUS
    <2>1. Known
      BY DEF SocketInv, LimitInv
    <2>2. \A d \in Callers : call'[d].pc \in {"insert", "record"} => call'[d] = call[d]
      BY <1>2, <1>3
    <2>3. \A d \in Callers : call[d].pc = "record" => call'[d] = call[d]
      BY <1>3
    <2>4. \A d \in Callers : call'[d].pc \in {"insert", "record"} => call'[d].left = kernel[call'[d].dir]
      BY <2>1, <2>2 DEF Known
    <2>5. ASSUME NEW d \in Dirs, limits[d] # None,
                 \A x \in Callers : call'[x].pc = "record" => call'[x].dir # d
          PROVE  kernel[d] = limits[d]
      BY <2>1, <2>3, <2>5 DEF Known
    <2> QED
      BY <2>4, <2>5 DEF Known
  <1> QED
    BY <1>4, <1>6, <1>7, <1>8, <1>9 DEF SocketInv, LimitInv

\* A call that goes to another place.
LEMMA SocketWalks ==
    ASSUME SocketInv, NEW c \in Callers, NEW m, Becomes(c, m), Same(call[c], m), SpotOK(m),
           Limited(call[c]) => (Before(m) <=> Before(call[c])), Late(m) => Late(call[c]),
           Moving(call[c]) /\ m.pc = "blocked" => call[c].done < Upto(call[c]),
           UNCHANGED <<os, kernel, limits, shared, aborted, made, wanted>>,
           nonblocking' \in BOOLEAN, NON_BLOCKING' \in BOOLEAN,
           call[c].pc \notin {"idle", "record"}, m.pc \notin {"insert", "record"}
    PROVE  SocketInv'
  <1>1. GoodSocket(call[c]) /\ (~aborted => LimitOK(call[c]))
    BY DEF SocketInv, LimitInv
  <1>2. GoodSocket(m)
    BY <1>1, AlikeGood DEF Same
  <1>3. ~aborted => LimitOK(m)
    BY <1>1, SameLimit
  <1>4. m.dir = call[c].dir
    BY DEF Same, Alike
  <1> QED
    BY <1>2, <1>3, <1>4, SocketGoesOn

\* A change of the place alone.
LEMMA GotoSame ==
    ASSUME NEW k \in SocketCall, NEW pc \in Spots
    PROVE  LET m == [k EXCEPT !.pc = pc] IN Same(k, m) /\ m.pc = pc /\ m.on = k.on
  BY DEF SocketCall, Same, Alike

\* Goto, in terms of the two places.
LEMMA GotoWalks ==
    ASSUME SocketInv, NEW c \in Callers, NEW pc \in Spots, Goto(c, pc),
           SpotOK([call[c] EXCEPT !.pc = pc]),
           Limited(call[c]) => (Before([call[c] EXCEPT !.pc = pc]) <=> Before(call[c])),
           Late([call[c] EXCEPT !.pc = pc]) => Late(call[c]),
           Moving(call[c]) /\ pc = "blocked" => call[c].done < Upto(call[c]),
           UNCHANGED <<os, kernel, limits, shared, aborted, made, wanted>>,
           nonblocking' \in BOOLEAN, NON_BLOCKING' \in BOOLEAN,
           call[c].pc \notin {"idle", "record"}, pc \notin {"insert", "record"}
    PROVE  SocketInv'
  <1> DEFINE m == [call[c] EXCEPT !.pc = pc]
  <1>1. call[c] \in SocketCall
    BY DEF SocketInv, SocketsTyped
  <1>2. Same(call[c], m) /\ m.pc = pc
    BY <1>1, GotoSame
  <1>3. Becomes(c, m)
    BY DEF Goto
  <1>4. SpotOK(m) /\ (Limited(call[c]) => (Before(m) <=> Before(call[c]))) /\ (Late(m) => Late(call[c]))
    OBVIOUS
  <1> HIDE DEF m
  <1> QED
    BY <1>2, <1>3, <1>4, SocketWalks

\* The kinds of calls exclude each other.
LEMMA KindFacts ==
    ASSUME SocketInv
    PROVE  /\ "none" \notin DOMAIN Transfers /\ "connect" \notin DOMAIN Transfers
           /\ "setsockopt" \notin DOMAIN Transfers /\ "ioctlsocket" \notin DOMAIN Transfers
  <1>1. os \in {"unix", "windows"}
    BY DEF SocketInv, SocketsTyped
  <1>2. \A kind \in DOMAIN Transfers : kind \in MovingKinds
    BY <1>1, TransferFacts
  <1> QED
    BY <1>2 DEF MovingKinds

\* What the invariant says of one call.
LEMMA OneCall ==
    ASSUME SocketInv, NEW c \in Callers
    PROVE  /\ GoodSocket(call[c]) /\ call[c] \in SocketCall /\ SpotOK(call[c])
           /\ os \in {"unix", "windows"} /\ nonblocking \in BOOLEAN /\ NON_BLOCKING \in BOOLEAN
           /\ call[c].on \in BOOLEAN /\ call[c].blocking \in BOOLEAN
           /\ (~aborted => LimitOK(call[c]))
  <1>1. GoodSocket(call[c])
    BY DEF SocketInv
  <1>2. call[c] \in SocketCall /\ SpotOK(call[c])
    BY <1>1 DEF GoodSocket
  <1> QED
    BY <1>1, <1>2, SocketFields DEF SocketInv, SocketsTyped, LimitInv

\* The steps that read, set, shadow and restore the mode.
LEMMA ModeStepsKeepCalls ==
    ASSUME SocketInv, NEW c \in Callers,
           ReadMode(c) \/ set_non_blocking_flag(c) \/ CheckSet_w(c) \/ Ioctl_w(c)
             \/ Shadow_w(c) \/ Restore(c)
    PROVE  SocketInv'
  <1> DEFINE k == call[c]
  <1>k. /\ GoodSocket(k) /\ k \in SocketCall /\ SpotOK(k) /\ k.on \in BOOLEAN
        /\ nonblocking \in BOOLEAN /\ NON_BLOCKING \in BOOLEAN
    BY OneCall
  <1>f. UNCHANGED <<os, kernel, limits, shared, aborted, made, wanted>>
    BY DEF ReadMode, set_non_blocking_flag, CheckSet_w, Ioctl_w, Shadow_w, Restore, fixed
  <1>n. nonblocking' \in BOOLEAN /\ NON_BLOCKING' \in BOOLEAN
    BY <1>k DEF ReadMode, set_non_blocking_flag, CheckSet_w, Ioctl_w, Shadow_w, Restore
  <1>a. ASSUME k.pc \in {"set", "ioctl", "shadow"}
        PROVE  /\ AfterSet(c) \in {"limit", "done"}
               /\ AfterSet(c) = "limit" => k.on /\ k.kind # "ioctlsocket"
               /\ AfterSet(c) = "done" => ~k.on \/ k.kind = "ioctlsocket"
               /\ Limited(k) => k.kind # "ioctlsocket"
               /\ Limited(k) \/ k.kind = "ioctlsocket"
    <2>1. /\ AfterSet(c) \in {"limit", "done"}
          /\ AfterSet(c) = "limit" => k.on /\ k.kind # "ioctlsocket"
          /\ AfterSet(c) = "done" => ~k.on \/ k.kind = "ioctlsocket"
      BY DEF AfterSet
    <2>2. k.kind = "ioctlsocket" => ~Moving(k)
      BY KindFacts DEF Moving
    <2>3. Limited(k) => k.kind # "ioctlsocket"
      BY <2>2 DEF Limited
    <2>4. Limited(k) \/ k.kind = "ioctlsocket"
      BY <1>k, <1>a DEF SpotOK
    <2> QED
      BY <2>1, <2>3, <2>4
  <1>1. CASE ReadMode(c)
    <2> DEFINE m == [k EXCEPT !.blocking = ~is_non_blocking, !.on = TRUE,
                              !.pc = IF is_non_blocking THEN "limit" ELSE "set"]
    <2>0. is_non_blocking \in BOOLEAN
      BY <1>k DEF is_non_blocking
    <2>1. Becomes(c, m) /\ k.pc = "mode"
      BY <1>1 DEF ReadMode, At
    <2>2. Same(k, m) /\ m.pc \in {"limit", "set"} /\ m.on = TRUE
      BY <1>k, <2>0, SocketNames DEF SocketCall, Same, Alike
    <2> HIDE DEF m
    <2>3. Limited(m) /\ Limited(k)
      BY <1>k, <2>1, <2>2 DEF SpotOK, Limited, Moving, Same, Alike
    <2>4. SpotOK(m)
      BY <2>2, <2>3 DEF SpotOK
    <2>5. (Before(m) <=> Before(k)) /\ ~Late(m)
      BY <2>1, <2>2 DEF Before, Late
    <2> QED
      BY <1>f, <1>n, <2>1, <2>2, <2>4, <2>5, SocketWalks
  <1>2. CASE Restore(c)
    <2> DEFINE m == [k EXCEPT !.on = FALSE, !.pc = IF k.blocking THEN "set" ELSE "done"]
    <2>1. Becomes(c, m) /\ k.pc = "restore"
      BY <1>2 DEF Restore, At
    <2>2. Same(k, m) /\ m.pc \in {"done", "set"} /\ m.on = FALSE
      BY <1>k, SocketNames DEF SocketCall, Same, Alike
    <2> HIDE DEF m
    <2>3. Limited(m) /\ Limited(k)
      BY <1>k, <2>1, <2>2 DEF SpotOK, Limited, Moving, Same, Alike
    <2>4. SpotOK(m)
      BY <2>2, <2>3 DEF SpotOK
    <2>5. (Before(m) <=> Before(k)) /\ Late(k)
      BY <2>1, <2>2, <2>3 DEF Before, Late
    <2> QED
      BY <1>f, <1>n, <2>1, <2>2, <2>4, <2>5, SocketWalks
  <1>3. ASSUME NEW pc \in {"limit", "done", "ioctl", "shadow"}, Goto(c, pc),
               k.pc \in {"set", "ioctl", "shadow"},
               pc \in {"ioctl", "shadow"} => k.pc \in {"set", "ioctl"},
               pc \in {"limit", "done"} => pc = AfterSet(c)
        PROVE  SocketInv'
    <2> DEFINE m == [k EXCEPT !.pc = pc]
    <2>0. pc \in Spots
      BY <1>3, SocketNames
    <2>1. Same(k, m) /\ m.pc = pc /\ m.on = k.on
      BY <1>k, <2>0, GotoSame
    <2>2. (Limited(m) <=> Limited(k)) /\ m.kind = k.kind
      BY <2>1 DEF Same, Alike, Limited, Moving
    <2>3. pc \in {"ioctl", "shadow", "limit"} => Limited(k)
      BY <1>k, <1>3, <1>a DEF SpotOK
    <2> HIDE DEF m
    <2>4. SpotOK(m)
      BY <1>3, <2>1, <2>2, <2>3 DEF SpotOK
    <2>5. Limited(k) => (Before(m) <=> Before(k))
      BY <1>3, <1>a, <2>1 DEF Before
    <2>6. Late(m) => Late(k)
      BY <1>3, <1>a, <2>1, <2>2 DEF Late
    <2> QED
      BY <1>f, <1>n, <1>3, <2>0, <2>4, <2>5, <2>6, GotoWalks DEF m
  <1>4. CASE set_non_blocking_flag(c)
    BY <1>3, <1>4, <1>a DEF set_non_blocking_flag, At
  <1>5. CASE CheckSet_w(c)
    BY <1>3, <1>5, <1>a DEF CheckSet_w, At
  <1>6. CASE Ioctl_w(c)
    BY <1>3, <1>6 DEF Ioctl_w, At
  <1>7. CASE Shadow_w(c)
    BY <1>3, <1>7, <1>a DEF Shadow_w, At
  <1> QED
    BY <1>1, <1>2, <1>4, <1>5, <1>6, <1>7

\* One call goes on, and may put its limit into the cache.
LEMMA SocketCaches ==
    ASSUME SocketInv, ~aborted, NEW c \in Callers, NEW m, Becomes(c, m), GoodSocket(m),
           m.dir = call[c].dir, call[c].pc # "idle",
           UNCHANGED <<os, kernel, shared, made, wanted, nonblocking, NON_BLOCKING>>,
           aborted' \in BOOLEAN, limits' \in [Dirs -> Limits \cup {None}],
           ~aborted' =>
             /\ Late(m) => limits'[m.dir] # None /\ m.left # 0
             /\ \A d \in Dirs : limits[d] # None => limits'[d] = limits[d]
             /\ ~shared => /\ m.pc \in {"insert", "record"} => m.left = kernel[m.dir]
                           /\ \A d \in Dirs : limits'[d] # limits[d] => limits'[d] = kernel[d]
                           /\ call[c].pc = "record" => limits'[m.dir] = kernel[m.dir]
    PROVE  SocketInv'
  <1>1. call \in [Callers -> SocketCall] /\ m \in SocketCall
    BY DEF SocketInv, SocketsTyped, GoodSocket
  <1>2. call' \in [Callers -> SocketCall] /\ call'[c] = m
    BY <1>1 DEF Becomes
  <1>3. \A d \in Callers : d # c => call'[d] = call[d]
    BY <1>1 DEF Becomes
  <1>4. SocketsTyped'
    BY <1>2 DEF SocketInv, SocketsTyped
  <1>5. \A d \in Callers : GoodSocket(call'[d])
    BY <1>2, <1>3 DEF SocketInv
  <1>6. \A d \in Callers : GoodSocket(call[d])'
    BY <1>5, GoodStays
  <1>7. ASSUME ~aborted', NEW d \in Callers
        PROVE  LimitOK(call[d])'
    <2>1. ASSUME Late(call'[d])
          PROVE  limits'[call'[d].dir] # None
                 /\ (call'[d].left = 0 => call'[d].age >= limits'[call'[d].dir])
      <3>1. CASE d = c
        BY <1>2, <1>7, <2>1, <3>1
      <3>2. CASE d # c
        <4>1. Late(call[d]) /\ call'[d] = call[d] /\ LimitOK(call[d]) /\ call[d].dir \in Dirs
          BY <1>1, <1>3, <2>1, <3>2, SocketFields DEF SocketInv, LimitInv
        <4>2. limits[call[d].dir] # None /\ limits'[call[d].dir] = limits[call[d].dir]
          BY <1>7, <4>1 DEF LimitOK
        <4> QED
          BY <4>1, <4>2 DEF LimitOK
      <3> QED
        BY <3>1, <3>2
    <2> QED
      BY <2>1 DEF LimitOK, Late, Limited, Moving, Transfers
  <1>8. ~shared' => Alone'
    <2> SUFFICES ASSUME ~shared, NEW x \in Callers, NEW y \in Callers, call'[x].pc # "idle",
                        call'[y].pc # "idle"
                 PROVE  x = y
      BY DEF Alone
    <2>1. call[x].pc # "idle" /\ call[y].pc # "idle"
      BY <1>3
    <2> QED
      BY <2>1 DEF SocketInv, LimitInv, Alone
  <1>9. ~shared' /\ ~aborted' => Known'
    <2> SUFFICES ASSUME ~shared, ~aborted' PROVE Known'
      OBVIOUS
    <2>1. Known
      BY DEF SocketInv, LimitInv
    <2>2. \A d \in Callers : call'[d].pc \in {"insert", "record"} => call'[d].left = kernel[call'[d].dir]
      BY <1>2, <1>3, <2>1 DEF Known
    <2>3. ASSUME NEW d \in Dirs, limits'[d] # None,
                 \A x \in Callers : call'[x].pc = "record" => call'[x].dir # d
          PROVE  kernel[d] = limits'[d]
      <3>1. CASE limits'[d] # limits[d]
        BY <3>1
      <3>2. CASE limits'[d] = limits[d] /\ call[c].pc = "record" /\ call[c].dir = d
        BY <3>2
      <3>3. CASE limits'[d] = limits[d] /\ ~(call[c].pc = "record" /\ call[c].dir = d)
        <4>1. \A x \in Callers : call[x].pc = "record" => call[x].dir # d
          BY <1>3, <2>3, <3>3
        <4> QED
          BY <2>1, <2>3, <3>3, <4>1 DEF Known
      <3> QED
        BY <3>1, <3>2, <3>3
    <2> QED
      BY <2>2, <2>3 DEF Known
  <1> QED
    BY <1>4, <1>6, <1>7, <1>8, <1>9 DEF SocketInv, LimitInv

\* The limits are numbers.
LEMMA LimitFacts ==
    ASSUME SocketInv, NEW d \in Dirs
    PROVE  /\ kernel[d] \in Limits /\ kernel[d] \in 0..Forever /\ kernel[d] # 0
           /\ limits[d] \in Limits \cup {None} /\ limits[d] \in 0..Forever /\ limits[d] \in Nat
           /\ limits[d] # None => limits[d] # 0
  <1>1. kernel[d] \in Limits /\ limits[d] \in Limits \cup {None}
    BY DEF SocketInv, SocketsTyped
  <1>2. \A x \in Limits : x \in 0..Forever /\ x # 0 /\ x \in Nat
    BY SocketNumbers, SMT
  <1>3. None \in 0..Forever /\ None \in Nat /\ None = 0
    BY SocketNumbers, SMT
  <1> QED
    BY <1>1, <1>2, <1>3

\* The stage that finds the limit.
LEMMA LimitStepsKeepCalls ==
    ASSUME SocketInv, NEW c \in Callers, time_limit(c)
    PROVE  SocketInv'
  <1> DEFINE k == call[c]
  <1>k. /\ GoodSocket(k) /\ k \in SocketCall /\ SpotOK(k) /\ k.pc = "limit" /\ ~aborted
        /\ k.dir \in Dirs
    BY OneCall, SocketFields DEF time_limit, At, Running
  <1>f. /\ UNCHANGED <<os, kernel, shared, made, wanted, nonblocking, NON_BLOCKING>>
        /\ aborted' = aborted /\ aborted' \in BOOLEAN
    BY DEF time_limit, fixed, SocketInv, SocketsTyped
  <1>1. ASSUME NEW l \in 0..Forever, NEW pc \in {"insert", Loop(c)}, l # 0,
               Becomes(c, [k EXCEPT !.left = l, !.age = 0, !.pc = pc]),
               limits' \in [Dirs -> Limits \cup {None}],
               pc = Loop(c) => limits'[k.dir] # None,
               \A d \in Dirs : limits[d] # None => limits'[d] = limits[d],
               pc = "insert" => l = kernel[k.dir],
               \A d \in Dirs : limits'[d] # limits[d] => limits'[d] = kernel[d]
        PROVE  SocketInv'
    <2> DEFINE m == [k EXCEPT !.left = l, !.age = 0, !.pc = pc]
    <2>0. pc \in Spots /\ pc \in {"insert", "loop", "connect"} /\ 0 \in 0..MaxLimit
      <3>1. Loop(c) \in {"loop", "connect"}
        BY DEF Loop
      <3>2. 0 \in 0..MaxLimit
        BY SocketNumbers, SMT
      <3> QED
        BY <1>1, <3>1, <3>2, SocketNames
    <2>1. Alike(k, m) /\ m.pc = pc /\ m.left = l /\ m.on = k.on
      BY <1>k, <2>0 DEF SocketCall, Alike
    <2>2. Becomes(c, m)
      BY <1>1
    <2> HIDE DEF m
    <2>3. Limited(k) /\ (Limited(m) <=> Limited(k)) /\ (Moving(m) <=> Moving(k)) /\ m.kind = k.kind
      BY <1>k, <2>1 DEF SpotOK, Limited, Moving, Alike
    <2>4. SpotOK(m)
      <3>1. pc = "loop" => Moving(m)
        BY <1>1, <2>3 DEF Loop, Limited
      <3>2. pc = "connect" => m.kind = "connect"
        BY <1>1, <2>3 DEF Loop
      <3> QED
        BY <1>1, <2>0, <2>1, <2>3, <3>1, <3>2 DEF SpotOK
    <2>5. Before(m) /\ Before(k)
      BY <1>k, <2>0, <2>1 DEF Before
    <2>6. GoodSocket(m)
      <3>1. m.pc # "blocked"
        BY <2>0, <2>1
      <3> QED
        BY <1>k, <2>1, <2>4, <2>5, <3>1, AlikeGood
    <2>7. /\ m.dir = k.dir
          /\ Late(m) => limits'[m.dir] # None /\ m.left # 0
          /\ m.pc # "record"
      BY <1>1, <2>0, <2>1 DEF Late, Alike
    <2> QED
      BY <1>k, <1>f, <1>1, <2>1, <2>2, <2>6, <2>7, SocketCaches
  <1>2. CASE /\ limits[k.dir] # None /\ limits' = limits
             /\ Becomes(c, [k EXCEPT !.left = limits[k.dir], !.age = 0, !.pc = Loop(c)])
    <2>1. limits' \in [Dirs -> Limits \cup {None}] /\ Loop(c) # "insert"
      BY <1>2 DEF SocketInv, SocketsTyped, Loop
    <2> QED
      BY <1>k, <1>1, <1>2, <2>1, LimitFacts
  <1>3. CASE /\ limits[k.dir] = None /\ limits' = limits
             /\ Becomes(c, [k EXCEPT !.left = kernel[k.dir], !.age = 0, !.pc = "insert"])
    <2>1. limits' \in [Dirs -> Limits \cup {None}] /\ Loop(c) # "insert"
      BY <1>3 DEF SocketInv, SocketsTyped, Loop
    <2> QED
      BY <1>k, <1>1, <1>3, <2>1, LimitFacts
  <1>4. CASE /\ limits[k.dir] = None /\ limits' = [limits EXCEPT ![k.dir] = kernel[k.dir]]
             /\ Becomes(c, [k EXCEPT !.left = kernel[k.dir], !.age = 0, !.pc = Loop(c)])
    <2>1. limits \in [Dirs -> Limits \cup {None}] /\ kernel[k.dir] \in Limits /\ kernel[k.dir] # None
      BY <1>k, LimitFacts, SocketNumbers DEF SocketInv, SocketsTyped
    <2>2. /\ limits' \in [Dirs -> Limits \cup {None}] /\ limits'[k.dir] = kernel[k.dir]
          /\ \A d \in Dirs : d # k.dir => limits'[d] = limits[d]
      BY <1>k, <1>4, <2>1
    <2>3. Loop(c) # "insert"
      BY DEF Loop
    <2> QED
      BY <1>k, <1>1, <1>4, <2>1, <2>2, <2>3, LimitFacts
  <1> QED
    BY <1>2, <1>3, <1>4 DEF time_limit, Dir

\* The cache gets the limit of a call that asked the socket, or of setsockopt.
LEMMA InsertKeepsCalls ==
    ASSUME SocketInv, NEW c \in Callers, InsertLimit(c) \/ RecordLimit(c)
    PROVE  SocketInv'
  <1> DEFINE k == call[c]
             pc == IF k.pc = "insert" THEN Loop(c) ELSE "done"
             m == [k EXCEPT !.pc = pc]
  <1>k. /\ GoodSocket(k) /\ k \in SocketCall /\ SpotOK(k) /\ k.pc \in {"insert", "record"} /\ ~aborted
        /\ k.dir \in Dirs /\ k.left \in 0..Forever /\ k.left # 0
    <2>1. k.pc \in {"insert", "record"} /\ ~aborted
      BY DEF InsertLimit, RecordLimit, At, Running
    <2> QED
      BY <2>1, OneCall, SocketFields DEF SpotOK, SocketCall
  <1>1. /\ limits' = [limits EXCEPT ![k.dir] = k.left] /\ aborted' = (limits[k.dir] # None)
        /\ Becomes(c, m)
        /\ UNCHANGED <<os, kernel, shared, made, wanted, nonblocking, NON_BLOCKING>>
    BY DEF InsertLimit, RecordLimit, At, Insert, Goto, fixed, Dir
  <1>2. pc \in {"loop", "connect", "done"} /\ pc \in Spots
    BY SocketNames DEF Loop
  <1>3. Same(k, m) /\ m.pc = pc /\ m.on = k.on
    BY <1>k, <1>2, GotoSame
  <1>4. k.left \in Limits /\ k.left # None
    BY <1>k, SocketNumbers, SMT
  <1>5. /\ limits' \in [Dirs -> Limits \cup {None}] /\ limits'[k.dir] = k.left
        /\ \A d \in Dirs : d # k.dir => limits'[d] = limits[d]
    BY <1>k, <1>1, <1>4 DEF SocketInv, SocketsTyped
  <1>6. /\ (Limited(m) <=> Limited(k)) /\ (Moving(m) <=> Moving(k)) /\ m.kind = k.kind /\ m.dir = k.dir
        /\ m.left = k.left /\ Alike(k, m)
    BY <1>3 DEF Same, Alike, Limited, Moving
  <1>7. k.pc = "record" => ~Limited(k)
    BY <1>k, KindFacts DEF SpotOK, Limited, Moving
  <1>8. SpotOK(m) /\ (Limited(k) => (Before(m) <=> Before(k)))
    <2>1. CASE k.pc = "insert"
      <3>1. Limited(k) /\ pc = Loop(c)
        BY <1>k, <2>1 DEF SpotOK
      <3>2. (pc = "loop" => Moving(k)) /\ (pc = "connect" => k.kind = "connect") /\ pc \in {"loop", "connect"}
        BY <3>1 DEF Loop, Limited
      <3> HIDE DEF m, pc
      <3>3. SpotOK(m)
        BY <1>3, <1>6, <3>2 DEF SpotOK
      <3> QED
        BY <1>3, <2>1, <3>2, <3>3 DEF Before
    <2>2. CASE k.pc = "record"
      <3>1. pc = "done"
        BY <2>2
      <3> HIDE DEF m, pc
      <3> QED
        BY <1>3, <1>7, <2>2, <3>1 DEF SpotOK
    <2> QED
      BY <1>k, <2>1, <2>2
  <1> HIDE DEF m, pc
  <1>9. GoodSocket(m)
    <2>1. m.pc # "blocked"
      BY <1>2, <1>3
    <2> QED
      BY <1>k, <1>6, <1>8, <2>1, AlikeGood
  <1>10. ~shared => k.left = kernel[k.dir]
    BY <1>k DEF SocketInv, LimitInv, Known
  <1>11. aborted' \in BOOLEAN
    BY <1>1
  <1>12. m.pc \notin {"insert", "record"}
    BY <1>2, <1>3
  <1> QED
    BY <1>k, <1>1, <1>4, <1>5, <1>6, <1>9, <1>10, <1>11, <1>12, SocketCaches

\* What left_time leaves.
LEMMA LeftFacts ==
    ASSUME NEW limit \in 0..Forever, NEW age \in Nat
    PROVE  Left(limit, age) \in 0..Forever /\ (Left(limit, age) = 0 => age >= limit)
  BY SocketNumbers, SMT DEF Left

\* The numbers of a transfer under way.
LEMMA MovingFacts ==
    ASSUME SocketInv, NEW k, GoodSocket(k), Moving(k)
    PROVE  /\ Len(k.lens) \in {1, 2} /\ k.at <= Len(k.lens) /\ Offset(k) \in Nat
           /\ Upto(k) \in Nat /\ Total(k.lens) \in Nat
           /\ Room(k) \in Int /\ k.done + Room(k) <= Total(k.lens)
           /\ k.moved = k.done /\ k.r <= k.done
  <1>1. k \in SocketCall /\ BufferOK(k) /\ k.moved = k.done /\ k.r <= k.done
    BY DEF GoodSocket, ByteOK
  <1>2. Len(k.lens) \in {1, 2} /\ k.at <= Len(k.lens)
    BY <1>1 DEF BufferOK
  <1>3. k.at \in {1, 2}
    BY <1>1, SocketFields
  <1>4. CASE Len(k.lens) = 1
    <2>1. /\ k.lens[1] \in Nat /\ k.done \in Nat /\ k.shift \in Nat /\ Upto(k) = k.lens[1]
          /\ Total(k.lens) = k.lens[1] /\ Offset(k) = k.done
          /\ Room(k) = k.lens[1] - (k.shift + k.done)
      BY <1>1, <1>2, <1>4, BufferFacts
    <2>2. Room(k) \in Int /\ k.done + Room(k) <= Total(k.lens)
      BY <2>1, SMT
    <2> QED
      BY <1>1, <1>2, <2>1, <2>2
  <1>5. CASE Len(k.lens) = 2 /\ k.at = 1
    <2>1. /\ k.lens[1] \in Nat /\ k.lens[2] \in Nat /\ k.done \in Nat /\ k.shift \in Nat
          /\ Upto(k) = k.lens[1] /\ Total(k.lens) = k.lens[1] + k.lens[2] /\ Offset(k) = k.done
          /\ Room(k) = (k.lens[1] + k.lens[2]) - (k.shift + k.done)
      BY <1>1, <1>2, <1>5, BufferFacts
    <2>2. Room(k) \in Int /\ k.done + Room(k) <= Total(k.lens) /\ Total(k.lens) \in Nat
      BY <2>1, SMT
    <2> QED
      BY <1>1, <1>2, <2>1, <2>2
  <1>6. CASE Len(k.lens) = 2 /\ k.at = 2
    <2>1. /\ k.lens[1] \in Nat /\ k.lens[2] \in Nat /\ k.done \in Nat /\ k.shift \in Nat
          /\ Upto(k) = k.lens[1] + k.lens[2] /\ Total(k.lens) = k.lens[1] + k.lens[2]
          /\ Offset(k) = IF k.done > k.lens[1] THEN k.done - k.lens[1] ELSE 0
          /\ Room(k) = k.lens[2] - (k.shift + Offset(k))
      BY <1>1, <1>2, <1>6, BufferFacts
    <2>2. Offset(k) \in Nat /\ k.done <= k.lens[1] + Offset(k) /\ Upto(k) \in Nat /\ Total(k.lens) \in Nat
      BY <2>1, SMT
    <2>3. Room(k) \in Int /\ k.done + Room(k) <= Total(k.lens)
      BY <2>1, <2>2, SMT
    <2> QED
      BY <1>1, <1>2, <2>2, <2>3
  <1> QED
    BY <1>2, <1>3, <1>4, <1>5, <1>6

\* The records of the loop.
LEMMA ResultFields ==
    ASSUME NEW k \in SocketCall, NEW x \in Int
    PROVE  LET m == [k EXCEPT !.r = x]
           IN  /\ m \in SocketCall /\ m.r = x /\ m.errno = k.errno /\ m.done = k.done /\ m.pc = k.pc
               /\ m.moved = k.moved /\ m.kind = k.kind /\ m.dir = k.dir /\ m.lens = k.lens
               /\ m.age = k.age /\ m.left = k.left /\ m.at = k.at /\ m.failed = k.failed
  BY DEF SocketCall

\* The record of a transfer that ends with result x.
LEMMA EndFields ==
    ASSUME NEW k \in SocketCall, NEW x \in Int
    PROVE  LET m == [k EXCEPT !.r = x, !.pc = "restore"]
           IN  /\ m \in SocketCall /\ m.r = x /\ m.errno = k.errno /\ m.done = k.done
               /\ m.pc = "restore" /\ m.moved = k.moved /\ m.kind = k.kind /\ m.dir = k.dir
               /\ m.lens = k.lens /\ m.age = k.age /\ m.left = k.left /\ m.at = k.at
               /\ m.failed = k.failed
  BY SocketNames DEF SocketCall

\* A call whose raw call came back.
LEMMA AccountedGood ==
    ASSUME SocketInv, NEW k, GoodSocket(k), Moving(k), Before(k), k.done < Upto(k), NEW rules,
           NEW dir, NEW res \in RawResults(k, dir) \cup {Result(-1, "intr")}
    PROVE  LET m == Accounted(k, rules, res)
           IN  GoodSocket(m) /\ m.dir = k.dir /\ m.kind = k.kind /\ m.left = k.left /\ m.age = k.age
               /\ m.pc \in {"loop", "restore"}
  <1> DEFINE n == IF res.n > 0 THEN res.n ELSE 0
             all == k.done + n
             moved == [k EXCEPT !.errno = res.errno, !.done = all, !.pc = "loop",
                                !.shift = @ + Offset(k), !.moved = @ + n]
             m == Accounted(k, rules, res)
  <1>0. k \in SocketCall /\ k.done \in Nat /\ k.shift \in Nat /\ k.moved \in Nat /\ k.r \in Int
    BY SocketFields DEF GoodSocket
  <1>1. /\ res.n \in Int /\ res.n >= -1 /\ res.errno \in {"ok", "other", "intr"}
        /\ res.n <= 0 \/ res.n <= Room(k) + 1
    <2>1. Room(k) \in Int
      BY MovingFacts
    <2>2. CASE \E x \in 1..(Room(k) + (IF Overread(k) THEN 1 ELSE 0)) : res = Result(x, "ok")
      <3>1. PICK x \in 1..(Room(k) + (IF Overread(k) THEN 1 ELSE 0)) : res = Result(x, "ok")
        BY <2>2
      <3>2. res.n = x /\ res.errno = "ok"
        BY <3>1 DEF Result
      <3>3. x \in Int /\ x >= -1 /\ x <= Room(k) + 1
        BY <2>1, SMT
      <3> QED
        BY <3>2, <3>3
    <2>3. CASE res \in {Result(0, "ok"), Result(-1, "other"), Result(-1, "intr")}
      <3>1. (res.n = 0 \/ res.n = -1) /\ res.errno \in {"ok", "other", "intr"}
        <4>1. Result(0, "ok").n = 0 /\ Result(0, "ok").errno = "ok"
          BY DEF Result
        <4>2. Result(-1, "other").n = -1 /\ Result(-1, "other").errno = "other"
          BY DEF Result
        <4>3. Result(-1, "intr").n = -1 /\ Result(-1, "intr").errno = "intr"
          BY DEF Result
        <4> QED
          BY <2>3, <4>1, <4>2, <4>3
      <3> QED
        BY <3>1, SMT
    <2> QED
      BY <2>2, <2>3 DEF RawResults
  <1>2. n \in Nat /\ all \in Nat /\ all <= Total(k.lens) + 1 /\ n <= all /\ k.done <= all
    <2>1. /\ Room(k) \in Int /\ k.done + Room(k) <= Total(k.lens) /\ Total(k.lens) \in Nat
          /\ k.done <= Total(k.lens) + 1
      BY MovingFacts DEF GoodSocket, ByteOK
    <2> QED
      BY <1>0, <1>1, <2>1, SMT
  <1>3. res.n = -1 => n = 0 /\ all = k.done
    BY <1>0, SMT
  <1>4. Offset(k) \in Nat /\ Upto(k) \in Nat /\ k.moved = k.done /\ BufferOK(k)
    BY MovingFacts DEF GoodSocket, ByteOK
  <1>5. k.shift + Offset(k) \in Nat /\ k.moved + n = all /\ all \in Nat
    BY <1>0, <1>2, <1>4, SMT
  <1>6. /\ moved \in SocketCall /\ moved.errno = res.errno /\ moved.done = all /\ moved.pc = "loop"
        /\ moved.moved = all /\ moved.kind = k.kind /\ moved.dir = k.dir /\ moved.lens = k.lens
        /\ moved.age = k.age /\ moved.left = k.left /\ moved.at = k.at /\ moved.failed = k.failed
    <2>1. res.errno \in Errnos
      BY <1>1, SocketNames
    <2> HIDE DEF n, all
    <2> QED
      BY <1>0, <1>5, <2>1, SocketNames DEF SocketCall
  <1>7. \/ res.n = -1 /\ res.errno = "intr" /\ m = [moved EXCEPT !.r = -1]
        \/ res.n = -1 /\ m = [moved EXCEPT !.r = -1, !.pc = "restore"]
        \/ all >= Upto(k) /\ m = [moved EXCEPT !.r = all]
        \/ m = [moved EXCEPT !.r = all, !.pc = "restore"]
        \/ m = [moved EXCEPT !.r = n, !.pc = "restore"]
    BY DEF Accounted
  <1> HIDE DEF moved, n, all, m
  <1>8. -1 \in Int /\ all \in Int /\ n \in Int
    BY <1>2, SMT
  <1>9. /\ m \in SocketCall /\ m.errno = res.errno /\ m.done = all /\ m.moved = all
        /\ m.kind = k.kind /\ m.dir = k.dir /\ m.lens = k.lens /\ m.age = k.age /\ m.left = k.left
        /\ m.at = k.at
        /\ \/ res.n = -1 /\ m.r = -1 /\ m.pc \in {"loop", "restore"}
           \/ all >= Upto(k) /\ m.r = all /\ m.pc = "loop"
           \/ m.r \in {all, n} /\ m.pc = "restore"
    <2>1. ASSUME NEW x \in Int, m = [moved EXCEPT !.r = x]
          PROVE  /\ m \in SocketCall /\ m.r = x /\ m.errno = moved.errno /\ m.done = moved.done
                 /\ m.pc = moved.pc /\ m.moved = moved.moved /\ m.kind = moved.kind
                 /\ m.dir = moved.dir /\ m.lens = moved.lens /\ m.age = moved.age
                 /\ m.left = moved.left /\ m.at = moved.at
      BY <1>6, <2>1, ResultFields
    <2>2. ASSUME NEW x \in Int, m = [moved EXCEPT !.r = x, !.pc = "restore"]
          PROVE  /\ m \in SocketCall /\ m.r = x /\ m.errno = moved.errno /\ m.done = moved.done
                 /\ m.pc = "restore" /\ m.moved = moved.moved /\ m.kind = moved.kind
                 /\ m.dir = moved.dir /\ m.lens = moved.lens /\ m.age = moved.age
                 /\ m.left = moved.left /\ m.at = moved.at
      BY <1>6, <2>2, EndFields, ZenonT(90)
    <2>3. CASE res.n = -1 /\ m = [moved EXCEPT !.r = -1]
      BY <1>6, <1>8, <2>1, <2>3
    <2>4. CASE res.n = -1 /\ m = [moved EXCEPT !.r = -1, !.pc = "restore"]
      BY <1>6, <1>8, <2>2, <2>4
    <2>5. CASE all >= Upto(k) /\ m = [moved EXCEPT !.r = all]
      BY <1>6, <1>8, <2>1, <2>5
    <2>6. CASE m = [moved EXCEPT !.r = all, !.pc = "restore"]
      BY <1>6, <1>8, <2>2, <2>6
    <2>7. CASE m = [moved EXCEPT !.r = n, !.pc = "restore"]
      BY <1>6, <1>8, <2>2, <2>7
    <2> QED
      BY <1>7, <2>3, <2>4, <2>5, <2>6, <2>7
  <1>10. Moving(m) /\ Limited(m) /\ Upto(m) = Upto(k) /\ BufferOK(m) /\ Total(m.lens) = Total(k.lens)
    BY <1>4, <1>9 DEF Moving, Limited, Upto, BufferOK
  <1>11. m.pc \in {"loop", "restore"} /\ SpotOK(m)
    BY <1>9, <1>10 DEF SpotOK
  <1>12. m.r <= m.done
    <2>1. -1 <= all /\ all <= all
      BY <1>2, SMT
    <2> QED
      BY <1>2, <1>9, <2>1
  <1>13. ASSUME Len(k.lens) = 1
         PROVE  /\ m.r = m.done \/ (m.r = -1 /\ m.done = 0)
                /\ Before(m) /\ m.done < Upto(m) => m.done = 0
    <2>1. k.done = 0
      BY <1>13 DEF GoodSocket, ByteOK
    <2>2. all = n
      BY <1>2, <2>1, SMT DEF all
    <2>3. all >= Upto(k) => ~(all < Upto(k))
      BY <1>2, <1>4, SMT
    <2> QED
      BY <1>3, <1>9, <1>10, <2>1, <2>2, <2>3 DEF Before
  <1>14. ByteOK(m)
    BY <1>2, <1>9, <1>10, <1>11, <1>12, <1>13 DEF ByteOK
  <1>15. BlockOK(m)
    BY <1>1, <1>9 DEF BlockOK, GoodSocket
  <1> QED
    BY <1>9, <1>11, <1>14, <1>15 DEF GoodSocket, m

\* A call that would block.
LEMMA WouldBlockGood ==
    ASSUME SocketInv, NEW k, GoodSocket(k), Moving(k), Before(k), k.done < Upto(k), Late(k),
           LimitOK(k)
    PROVE  LET m == WouldBlock(k, limits[k.dir])
           IN  GoodSocket(m) /\ m.dir = k.dir /\ LimitOK(m) /\ m.pc = "wait"
  <1> DEFINE l == Left(limits[k.dir], k.age)
             m == WouldBlock(k, limits[k.dir])
  <1>1. /\ k \in SocketCall /\ k.shift \in Nat /\ Offset(k) \in Nat /\ k.dir \in Dirs /\ k.age \in Nat
        /\ k.done \in Nat
    BY SocketFields, MovingFacts DEF GoodSocket
  <1>2. l \in 0..Forever /\ (l = 0 => k.age >= limits[k.dir])
    BY <1>1, LimitFacts, LeftFacts
  <1>3. k.shift + Offset(k) \in Nat /\ -1 \in Int /\ -1 <= k.done
    BY <1>1, SMT
  <1>4. m = [k EXCEPT !.r = -1, !.errno = "again", !.pc = "wait", !.shift = k.shift + Offset(k), !.left = l]
    BY DEF WouldBlock
  <1> HIDE DEF l, m
  <1>5. /\ m \in SocketCall /\ m.r = -1 /\ m.errno = "again" /\ m.pc = "wait" /\ m.left = l
        /\ m.kind = k.kind /\ m.dir = k.dir /\ m.lens = k.lens /\ m.age = k.age /\ m.at = k.at
        /\ m.done = k.done /\ m.moved = k.moved
    BY <1>1, <1>2, <1>3, <1>4, SocketNames DEF SocketCall
  <1>6. Moving(m) /\ Limited(m) /\ Upto(m) = Upto(k) /\ (BufferOK(m) <=> BufferOK(k)) /\ Before(m)
    BY <1>5 DEF Moving, Limited, Upto, BufferOK, Before
  <1>7. SpotOK(m)
    BY <1>5, <1>6 DEF SpotOK
  <1>8. ByteOK(m)
    BY <1>3, <1>5, <1>6 DEF ByteOK, GoodSocket
  <1>9. BlockOK(m)
    <2>1. k.kind # "connect"
      BY KindFacts DEF Moving
    <2> QED
      BY <1>5, <1>6, <2>1 DEF BlockOK
  <1>10. LimitOK(m)
    BY <1>2, <1>5 DEF LimitOK
  <1> QED
    BY <1>5, <1>7, <1>8, <1>9, <1>10 DEF GoodSocket, m

\* One turn of the loop, and the end of a raw call that blocked.
LEMMA RawKeepsCalls ==
    ASSUME SocketInv, NEW c \in Callers, RawCall(c) \/ Unblock(c)
    PROVE  SocketInv'
  <1> DEFINE k == call[c]
  <1>k. /\ GoodSocket(k) /\ k \in SocketCall /\ SpotOK(k) /\ ~aborted /\ LimitOK(k)
        /\ k.pc \in {"loop", "blocked"}
    <2>1. ~aborted /\ k.pc \in {"loop", "blocked"}
      BY DEF RawCall, Unblock, At, Running
    <2> QED
      BY <2>1, OneCall
  <1>f. /\ UNCHANGED <<os, kernel, limits, shared, aborted, made, wanted>>
        /\ nonblocking' \in BOOLEAN /\ NON_BLOCKING' \in BOOLEAN
    BY OneCall DEF RawCall, Unblock, fixed
  <1>1. Moving(k) /\ Limited(k) /\ k.done < Upto(k)
    <2>1. Moving(k)
      <3>1. CASE RawCall(c)
        BY <1>k, <3>1 DEF RawCall, At, SpotOK
      <3>2. CASE Unblock(c)
        BY <1>k, <3>2 DEF Unblock, At, SpotOK, Limited
      <3> QED
        BY <3>1, <3>2
    <2>2. k.done < Upto(k)
      BY <1>k, <2>1 DEF RawCall, Unblock, At, GoodSocket, ByteOK
    <2> QED
      BY <2>1, <2>2 DEF Limited
  <1>2. Before(k) /\ Late(k)
    BY <1>k, <1>1 DEF Before, Late
  <1>3. ASSUME NEW rules, NEW dir, NEW res \in RawResults(k, dir) \cup {Result(-1, "intr")},
               Becomes(c, Accounted(k, rules, res))
        PROVE  SocketInv'
    <2> DEFINE m == Accounted(k, rules, res)
    <2>1. /\ GoodSocket(m) /\ m.dir = k.dir /\ m.kind = k.kind /\ m.left = k.left /\ m.age = k.age
          /\ m.pc \in {"loop", "restore"}
      BY <1>k, <1>1, <1>2, AccountedGood
    <2>2. Becomes(c, m)
      BY <1>3
    <2> HIDE DEF m
    <2>3. LimitOK(m)
      BY <1>k, <1>2, <2>1 DEF LimitOK
    <2> QED
      BY <1>k, <1>f, <2>1, <2>2, <2>3, SocketGoesOn
  <1>4. ASSUME Becomes(c, WouldBlock(k, limits[Dir(c)]))
        PROVE  SocketInv'
    <2> DEFINE m == WouldBlock(k, limits[k.dir])
    <2>1. GoodSocket(m) /\ m.dir = k.dir /\ LimitOK(m) /\ m.pc = "wait"
      BY <1>k, <1>1, <1>2, WouldBlockGood
    <2>2. Becomes(c, m)
      BY <1>4 DEF Dir
    <2> HIDE DEF m
    <2> QED
      BY <1>k, <1>f, <2>1, <2>2, SocketGoesOn
  <1>5. ASSUME Goto(c, "blocked")
        PROVE  SocketInv'
    <2> DEFINE m == [k EXCEPT !.pc = "blocked"]
    <2>0. "blocked" \in Spots
      BY SocketNames
    <2>1. Same(k, m) /\ m.pc = "blocked" /\ m.on = k.on
      BY <1>k, <2>0, GotoSame
    <2>2. Becomes(c, m)
      BY <1>5 DEF Goto
    <2> HIDE DEF m
    <2>3. SpotOK(m)
      BY <1>1, <2>1 DEF SpotOK, Same, Alike, Limited, Moving
    <2>4. Before(m) /\ (Late(m) => Late(k))
      BY <1>2, <2>1 DEF Before
    <2> QED
      BY <1>k, <1>f, <1>1, <1>2, <2>1, <2>2, <2>3, <2>4, SocketWalks
  <1>6. CASE RawCall(c)
    BY <1>3, <1>4, <1>5, <1>6 DEF RawCall
  <1>7. CASE Unblock(c)
    BY <1>3, <1>4, <1>7 DEF Unblock
  <1> QED
    BY <1>6, <1>7

\* The next buffer, and the end of the loop.
LEMMA NextBufferKeepsCalls ==
    ASSUME SocketInv, NEW c \in Callers, NextBuffer(c)
    PROVE  SocketInv'
  <1> DEFINE k == call[c]
  <1>k. GoodSocket(k) /\ k \in SocketCall /\ SpotOK(k) /\ ~aborted /\ LimitOK(k) /\ k.pc = "loop"
    <2>1. ~aborted /\ k.pc = "loop"
      BY DEF NextBuffer, At, Running
    <2> QED
      BY <2>1, OneCall
  <1>f. /\ UNCHANGED <<os, kernel, limits, shared, aborted, made, wanted>>
        /\ nonblocking' \in BOOLEAN /\ NON_BLOCKING' \in BOOLEAN
    BY OneCall DEF NextBuffer, fixed
  <1>1. Moving(k) /\ Limited(k) /\ Before(k) /\ Late(k) /\ k.kind # "connect"
    BY <1>k, KindFacts DEF SpotOK, Moving, Limited, Before, Late
  <1>2. k.done >= Upto(k) \/ k.left = 0
    BY DEF NextBuffer
  <1>3. CASE k.at < Len(k.lens)
    <2> DEFINE m == [k EXCEPT !.at = @ + 1, !.shift = 0]
    <2>1. Becomes(c, m)
      BY <1>3 DEF NextBuffer
    <2>2. k.at = 1 /\ Len(k.lens) = 2 /\ k.at + 1 = 2 /\ 0 \in Nat
      <3>1. Len(k.lens) \in {1, 2} /\ k.at \in {1, 2}
        BY <1>k, <1>1, MovingFacts, SocketFields
      <3> QED
        <4>1. ~(1 < 1) /\ ~(2 < 1) /\ ~(2 < 2) /\ 1 + 1 = 2 /\ 0 \in Nat
          BY SMT
        <4> QED
          BY <1>3, <3>1, <4>1
    <2>3. /\ m \in SocketCall /\ m.at = 2 /\ m.r = k.r /\ m.errno = k.errno /\ m.pc = "loop"
          /\ m.left = k.left /\ m.kind = k.kind /\ m.dir = k.dir /\ m.lens = k.lens /\ m.age = k.age
          /\ m.done = k.done /\ m.moved = k.moved /\ m.failed = k.failed
      BY <1>k, <2>2 DEF SocketCall
    <2> HIDE DEF m
    <2>4. /\ Moving(m) /\ Limited(m) /\ Before(m) /\ SpotOK(m)
      BY <1>1, <2>3 DEF Moving, Limited, Before, SpotOK
    <2>5. BufferOK(m)
      <3>1. BufferOK(k) /\ m.at <= Len(m.lens)
        <4>1. 2 <= 2
          BY SMT
        <4> QED
          BY <1>k, <1>1, <2>2, <2>3, <4>1 DEF GoodSocket, ByteOK
      <3> QED
        BY <2>3, <3>1 DEF BufferOK
    <2>6. k.done < Upto(k) => m.done < Upto(m)
      <3>1. k.lens[1] \in Nat /\ k.lens[2] \in Nat /\ Upto(k) = k.lens[1] /\ k.done \in Nat
        <4>1. k.at <= Len(k.lens)
          BY <1>k, <1>1, MovingFacts
        <4> QED
          BY <1>k, <2>2, <4>1, BufferFacts
      <3>2. Upto(m) = k.lens[1] + k.lens[2]
        <4>1. m.at <= Len(m.lens) /\ Len(m.lens) = 2
          BY <2>2, <2>3, <2>5 DEF BufferOK
        <4> QED
          BY <2>3, <4>1, BufferFacts
      <3>3. k.done < k.lens[1] => k.done < k.lens[1] + k.lens[2]
        BY <3>1, SMT
      <3> QED
        BY <2>3, <3>1, <3>2, <3>3
    <2>7. ByteOK(m)
      <3>1. Len(m.lens) # 1
        BY <2>2, <2>3, SMT
      <3> QED
        BY <1>k, <1>1, <2>3, <2>4, <2>5, <3>1 DEF GoodSocket, ByteOK
    <2>8. BlockOK(m)
      BY <1>k, <1>1, <2>3, <2>4, <2>6 DEF GoodSocket, BlockOK
    <2>9. GoodSocket(m) /\ LimitOK(m)
      BY <1>k, <1>1, <2>3, <2>4, <2>7, <2>8 DEF GoodSocket, LimitOK
    <2> QED
      BY <1>k, <1>f, <2>1, <2>3, <2>9, SocketGoesOn
  <1>4. CASE ~(k.at < Len(k.lens))
    <2> DEFINE m == [k EXCEPT !.pc = "restore"]
    <2>1. Becomes(c, m)
      BY <1>4 DEF NextBuffer
    <2>2. Same(k, m) /\ m.pc = "restore"
      BY <1>k, SocketNames, GotoSame
    <2> HIDE DEF m
    <2>3. /\ Moving(m) /\ Limited(m) /\ ~Before(m) /\ SpotOK(m) /\ Upto(m) = Upto(k)
          /\ (BufferOK(m) <=> BufferOK(k))
      BY <1>1, <2>2 DEF Same, Alike, Moving, Limited, Before, SpotOK, Upto, BufferOK
    <2>4. ByteOK(m)
      BY <1>k, <1>1, <2>2, <2>3 DEF GoodSocket, ByteOK, Same, Alike
    <2>5. k.done >= Upto(k) => ~(k.done < Upto(k))
      <3>1. k.done \in Nat /\ Upto(k) \in Nat
        BY <1>k, <1>1, MovingFacts, SocketFields
      <3> QED
        BY <3>1, SMT
    <2>6. BlockOK(m)
      BY <1>k, <1>1, <1>2, <2>2, <2>3, <2>5 DEF GoodSocket, BlockOK, Same, Alike
    <2>7. GoodSocket(m) /\ LimitOK(m) /\ m.dir = k.dir
      BY <1>k, <1>1, <2>2, <2>3, <2>4, <2>6 DEF GoodSocket, LimitOK, Same, Alike
    <2> QED
      BY <1>k, <1>f, <2>1, <2>2, <2>7, SocketGoesOn
  <1> QED
    BY <1>3, <1>4

\* The end of a wait.
LEMMA WaitsKeepCalls ==
    ASSUME SocketInv, NEW c \in Callers, WaitEnds(c) \/ WaitFails(c)
    PROVE  SocketInv'
  <1> DEFINE k == call[c]
  <1>k. GoodSocket(k) /\ k \in SocketCall /\ SpotOK(k) /\ ~aborted /\ LimitOK(k) /\ k.pc = "wait"
    <2>1. ~aborted /\ k.pc = "wait"
      BY DEF WaitEnds, WaitFails, At, Running
    <2> QED
      BY <2>1, OneCall
  <1>f. /\ UNCHANGED <<os, kernel, limits, shared, aborted, made, wanted>>
        /\ nonblocking' \in BOOLEAN /\ NON_BLOCKING' \in BOOLEAN
    BY OneCall DEF WaitEnds, WaitFails, fixed
  <1>1. Limited(k) /\ Before(k) /\ Late(k)
    BY <1>k DEF SpotOK, Before, Late
  <1>2. CASE WaitEnds(c)
    <2> DEFINE pc == IF k.kind = "connect" THEN "peer" ELSE "loop"
               m == [k EXCEPT !.pc = pc]
    <2>0. pc \in Spots /\ pc \in {"peer", "loop"}
      BY SocketNames
    <2>1. Same(k, m) /\ m.pc = pc /\ m.on = k.on
      BY <1>k, <2>0, GotoSame
    <2>2. Becomes(c, m)
      BY <1>2 DEF WaitEnds, Goto
    <2>3. (pc = "loop" => Moving(k)) /\ (pc = "peer" => k.kind = "connect")
      BY <1>1 DEF Limited
    <2> HIDE DEF m, pc
    <2>4. SpotOK(m)
      BY <2>0, <2>1, <2>3 DEF SpotOK, Same, Alike, Moving
    <2>5. Before(m) /\ m.pc \notin {"blocked", "insert", "record"}
      BY <2>0, <2>1 DEF Before
    <2> QED
      BY <1>k, <1>f, <1>1, <2>1, <2>2, <2>4, <2>5, SocketWalks
  <1>3. CASE WaitFails(c)
    <2> DEFINE x == IF k.kind # "connect" /\ Rules(c).failed = "sum" THEN k.done ELSE k.r
               m == [k EXCEPT !.failed = TRUE, !.pc = "restore", !.r = x]
    <2>1. Becomes(c, m)
      BY <1>3 DEF WaitFails
    <2>2. x \in {k.done, k.r} /\ x \in Int /\ k.done <= k.done
      <3>1. k.done \in Nat /\ k.r \in Int
        BY <1>k, SocketFields
      <3>2. k.done \in Int /\ k.done <= k.done
        BY <3>1, SMT
      <3> QED
        BY <3>1, <3>2
    <2> HIDE DEF x
    <2>3. /\ m \in SocketCall /\ m.at = k.at /\ m.r = x /\ m.errno = k.errno /\ m.pc = "restore"
          /\ m.left = k.left /\ m.kind = k.kind /\ m.dir = k.dir /\ m.lens = k.lens /\ m.age = k.age
          /\ m.done = k.done /\ m.moved = k.moved /\ m.failed = TRUE
      BY <1>k, <2>2, SocketNames DEF SocketCall
    <2> HIDE DEF m
    <2>4. /\ (Moving(m) <=> Moving(k)) /\ Limited(m) /\ ~Before(m) /\ SpotOK(m)
          /\ (BufferOK(m) <=> BufferOK(k))
      BY <1>1, <2>3 DEF Moving, Limited, Before, SpotOK, BufferOK
    <2>5. ByteOK(m)
      BY <1>k, <2>2, <2>3, <2>4 DEF GoodSocket, ByteOK
    <2>6. BlockOK(m)
      BY <1>k, <2>3, <2>4 DEF GoodSocket, BlockOK
    <2>7. GoodSocket(m) /\ LimitOK(m)
      BY <1>k, <1>1, <2>3, <2>4, <2>5, <2>6 DEF GoodSocket, LimitOK
    <2> QED
      BY <1>k, <1>f, <2>1, <2>3, <2>7, SocketGoesOn
  <1> QED
    BY <1>2, <1>3

\* A connect that goes on: what it reports, and how much time it has left.
LEMMA ConnectGood ==
    ASSUME SocketInv, NEW k, GoodSocket(k), k.kind = "connect", NEW m \in SocketCall,
           m.kind = k.kind, m.dir = k.dir, m.lens = k.lens, m.done = k.done, SpotOK(m),
           m.errno # "again",
           Before(m) \/ m.errno # "progress" \/ m.left = 0
    PROVE  GoodSocket(m)
  <1>1. ~Moving(m) /\ ~Moving(k)
    BY KindFacts DEF Moving
  <1>2. ByteOK(m)
    BY <1>1 DEF GoodSocket, ByteOK
  <1>3. BlockOK(m)
    BY <1>1 DEF BlockOK, GoodSocket
  <1> QED
    BY <1>2, <1>3 DEF GoodSocket

\* The steps of connect.
LEMMA ConnectKeepsCalls ==
    ASSUME SocketInv, NEW c \in Callers,
           RawConnect(c) \/ UnblockConnect(c) \/ ConnectLoop(c) \/ getpeername(c) \/ so_error(c)
    PROVE  SocketInv'
  <1> DEFINE k == call[c]
  <1>k. /\ GoodSocket(k) /\ k \in SocketCall /\ SpotOK(k) /\ ~aborted /\ LimitOK(k)
        /\ k.pc \in {"connect", "blocked", "cloop", "peer", "so_error"} /\ k.kind = "connect"
    <2>1. /\ ~aborted /\ k.pc \in {"connect", "blocked", "cloop", "peer", "so_error"}
          /\ k.pc = "blocked" => k.kind = "connect"
      BY DEF RawConnect, UnblockConnect, ConnectLoop, getpeername, so_error, At, Running
    <2> QED
      BY <2>1, OneCall DEF SpotOK
  <1>f. /\ UNCHANGED <<os, kernel, limits, shared, aborted, made, wanted>>
        /\ nonblocking' \in BOOLEAN /\ NON_BLOCKING' \in BOOLEAN
    BY OneCall DEF RawConnect, UnblockConnect, ConnectLoop, getpeername, so_error, fixed
  <1>1. Limited(k) /\ Before(k) /\ Late(k)
    BY <1>k DEF Limited, Before, Late
  <1>2. ASSUME NEW x \in Int, NEW e \in Errnos, e # "again", ConnectGets(c, x, e)
        PROVE  SocketInv'
    <2> DEFINE m == [k EXCEPT !.r = x, !.errno = e, !.pc = "cloop"]
    <2>1. Becomes(c, m)
      BY <1>2 DEF ConnectGets
    <2>2. /\ m \in SocketCall /\ m.errno = e /\ m.pc = "cloop" /\ m.left = k.left /\ m.kind = k.kind
          /\ m.dir = k.dir /\ m.lens = k.lens /\ m.age = k.age /\ m.done = k.done
      BY <1>k, <1>2, SocketNames DEF SocketCall
    <2> HIDE DEF m
    <2>3. SpotOK(m) /\ Before(m)
      BY <1>k, <2>2 DEF SpotOK, Before
    <2>4. GoodSocket(m)
      BY <1>k, <1>2, <2>2, <2>3, ConnectGood
    <2>5. LimitOK(m)
      BY <1>k, <1>1, <2>2 DEF LimitOK
    <2> QED
      BY <1>k, <1>f, <2>1, <2>2, <2>4, <2>5, SocketGoesOn
  <1>3. ASSUME NEW pc \in {"blocked", "so_error"}, NEW b \in BOOLEAN,
               Becomes(c, [k EXCEPT !.connected = b, !.pc = pc]) \/ Goto(c, pc)
        PROVE  SocketInv'
    <2>1. PICK m : /\ Becomes(c, m)
                   /\ m = [k EXCEPT !.connected = b, !.pc = pc] \/ m = [k EXCEPT !.pc = pc]
      BY <1>3 DEF Goto
    <2>2. pc \in Spots
      BY <1>3, SocketNames
    <2>3. Same(k, m) /\ m.pc = pc
      <3>1. CASE m = [k EXCEPT !.connected = b, !.pc = pc]
        BY <1>k, <1>3, <2>2, <3>1 DEF SocketCall, Same, Alike
      <3>2. CASE m = [k EXCEPT !.pc = pc]
        BY <1>k, <2>2, <3>2, GotoSame
      <3> QED
        BY <2>1, <3>1, <3>2
    <2>4. SpotOK(m) /\ Before(m)
      BY <1>k, <1>3, <2>3 DEF SpotOK, Before, Same, Alike, Limited
    <2>5. ~Moving(k) /\ m.pc \notin {"insert", "record"}
      BY <1>k, <1>3, <2>3, KindFacts DEF Moving
    <2> QED
      BY <1>k, <1>f, <1>1, <2>1, <2>3, <2>4, <2>5, SocketWalks
  <1>e. /\ {"ok", "progress", "other", "refused", "timedout", "intr"} \subseteq Errnos
        /\ -1 \in Int /\ 0 \in Int
    BY SocketNames, SMT
  <1>4. CASE RawConnect(c)
    <2>1. \/ Goto(c, "blocked")
          \/ \E x \in {-1, 0}, e \in {"ok", "progress", "other", "refused", "timedout"} :
               ConnectGets(c, x, e)
      BY <1>4 DEF RawConnect
    <2> QED
      BY <1>2, <1>3, <1>e, <2>1
  <1>5. CASE UnblockConnect(c)
    <2>1. \E x \in {-1, 0}, e \in {"ok", "progress", "intr", "refused", "timedout"} :
               ConnectGets(c, x, e)
      BY <1>5 DEF UnblockConnect
    <2> QED
      BY <1>2, <1>e, <2>1
  <1>6. CASE so_error(c)
    <2>1. \E x \in {-1, 0}, e \in {"ok", "progress", "refused", "timedout"} : ConnectGets(c, x, e)
      BY <1>6 DEF so_error
    <2> QED
      BY <1>2, <1>e, <2>1
  <1>7. CASE getpeername(c)
    BY <1>3, <1>7 DEF getpeername
  <1>8. CASE ConnectLoop(c)
    <2>0. k.pc = "cloop" /\ k.errno \in Errnos /\ k.errno # "again" /\ k.left \in Nat /\ k.age \in Nat
      BY <1>k, <1>8, SocketFields DEF ConnectLoop, At, GoodSocket, BlockOK
    <2>1. CASE k.left > 0 /\ k.errno = "progress"
      <3> DEFINE l == Left(limits["send"], k.age)
                 m == [k EXCEPT !.pc = "wait", !.left = l]
      <3>1. Becomes(c, m)
        BY <1>8, <2>1 DEF ConnectLoop
      <3>2. l \in 0..Forever /\ (l = 0 => k.age >= limits["send"])
        BY <2>0, LimitFacts, LeftFacts DEF Dirs
      <3> HIDE DEF l
      <3>3. /\ m \in SocketCall /\ m.errno = k.errno /\ m.pc = "wait" /\ m.left = l /\ m.kind = k.kind
            /\ m.dir = k.dir /\ m.lens = k.lens /\ m.age = k.age /\ m.done = k.done
        BY <1>k, <3>2, SocketNames DEF SocketCall
      <3> HIDE DEF m
      <3>4. SpotOK(m) /\ Before(m)
        BY <1>k, <3>3 DEF SpotOK, Before, Limited
      <3>5. GoodSocket(m)
        BY <1>k, <2>0, <3>3, <3>4, ConnectGood
      <3>6. LimitOK(m)
        <4>1. k.dir = "send"
          BY <1>k DEF GoodSocket, BlockOK
        <4> QED
          BY <1>k, <1>1, <3>2, <3>3, <4>1 DEF LimitOK
      <3> QED
        BY <1>k, <1>f, <3>1, <3>3, <3>5, <3>6, SocketGoesOn
    <2>2. CASE ~(k.left > 0 /\ k.errno = "progress")
      <3> DEFINE e == IF k.r = 0 THEN "ok" ELSE IF k.errno = "timedout" THEN "expired" ELSE k.errno
                 m == [k EXCEPT !.pc = "restore", !.errno = e]
      <3>1. Becomes(c, m)
        BY <1>8, <2>2 DEF ConnectLoop
      <3>2. e \in Errnos /\ e # "again" /\ (e = "progress" => k.left = 0)
        <4>1. k.left > 0 \/ k.left = 0
          BY <2>0, SMT
        <4> QED
          BY <2>0, <2>2, <4>1, SocketNames
      <3> HIDE DEF e
      <3>3. /\ m \in SocketCall /\ m.errno = e /\ m.pc = "restore" /\ m.left = k.left /\ m.kind = k.kind
            /\ m.dir = k.dir /\ m.lens = k.lens /\ m.age = k.age /\ m.done = k.done
        BY <1>k, <3>2, SocketNames DEF SocketCall
      <3> HIDE DEF m
      <3>4. SpotOK(m)
        BY <1>k, <3>3 DEF SpotOK, Limited
      <3>5. GoodSocket(m)
        BY <1>k, <3>2, <3>3, <3>4, ConnectGood
      <3>6. LimitOK(m)
        BY <1>k, <1>1, <3>3 DEF LimitOK
      <3> QED
        BY <1>k, <1>f, <3>1, <3>3, <3>5, <3>6, SocketGoesOn
    <2> QED
      BY <2>1, <2>2
  <1> QED
    BY <1>4, <1>5, <1>6, <1>7, <1>8

\* A call begins: if another one is under way they overlap from now on.
LEMMA BeginKeepsCalls ==
    ASSUME SocketInv, Running, NEW c \in Callers, ~InCall(c), made < MaxCalls, NEW m, Begin(c, m),
           GoodSocket(m), ~Late(m), m.pc \notin {"idle", "insert"},
           kernel' \in [Dirs -> Limits], m.pc = "record" => m.left = kernel'[m.dir],
           \A d \in Dirs : kernel'[d] # kernel[d] => m.pc = "record" /\ m.dir = d,
           UNCHANGED <<os, limits, aborted>>,
           nonblocking' \in BOOLEAN, NON_BLOCKING' \in BOOLEAN, wanted' \in BOOLEAN
    PROVE  SocketInv'
  <1>1. /\ call \in [Callers -> SocketCall] /\ m \in SocketCall /\ Becomes(c, m)
        /\ made' = made + 1 /\ shared' = (shared \/ ~Quiet)
    BY DEF SocketInv, SocketsTyped, GoodSocket, Begin
  <1>2. call' \in [Callers -> SocketCall] /\ call'[c] = m
    BY <1>1 DEF Becomes
  <1>3. \A d \in Callers : d # c => call'[d] = call[d]
    BY <1>1 DEF Becomes
  <1>4. SocketsTyped'
    <2>1. made' \in 0..MaxCalls
      <3>1. made \in 0..MaxCalls /\ MaxCalls \in Nat
        BY SocketNumbers DEF SocketInv, SocketsTyped
      <3> QED
        BY <1>1, <3>1, SMT
    <2>2. shared' \in BOOLEAN
      BY <1>1
    <2> QED
      BY <1>2, <2>1, <2>2 DEF SocketInv, SocketsTyped
  <1>5. \A d \in Callers : GoodSocket(call'[d])
    BY <1>2, <1>3 DEF SocketInv
  <1>6. \A d \in Callers : GoodSocket(call[d])'
    BY <1>5, GoodStays
  <1>7. ~aborted' => \A d \in Callers : LimitOK(call[d])'
    <2> SUFFICES ASSUME ~aborted, NEW d \in Callers PROVE LimitOK(call[d])'
      OBVIOUS
    <2>1. LimitOK(call'[d])
      BY <1>2, <1>3 DEF SocketInv, LimitInv, LimitOK
    <2> QED
      BY <2>1 DEF LimitOK, Late, Limited, Moving, Transfers
  <1>8. ~shared' => \A d \in Callers : call[d].pc = "idle"
    BY <1>1 DEF Running, Quiet, InCall
  <1>9. ~shared' => Alone'
    BY <1>3, <1>8 DEF Alone
  <1>10. ~shared' /\ ~aborted' => Known'
    <2> SUFFICES ASSUME ~shared', ~aborted PROVE Known'
      OBVIOUS
    <2>1. Known
      BY <1>1 DEF SocketInv, LimitInv
    <2>2. \A d \in Callers : call'[d].pc \in {"insert", "record"} => call'[d].left = kernel'[call'[d].dir]
      BY <1>2, <1>3, <1>8
    <2>3. ASSUME NEW d \in Dirs, limits[d] # None,
                 \A x \in Callers : call'[x].pc = "record" => call'[x].dir # d
          PROVE  kernel'[d] = limits[d]
      <3>1. kernel'[d] = kernel[d]
        BY <1>2, <2>3
      <3>2. \A x \in Callers : call[x].pc # "record"
        BY <1>8
      <3> QED
        BY <2>1, <2>3, <3>1, <3>2 DEF Known
    <2> QED
      BY <2>2, <2>3 DEF Known
  <1> QED
    BY <1>4, <1>6, <1>7, <1>9, <1>10 DEF SocketInv, LimitInv

\* No call yet.
LEMMA IdleFields ==
    /\ Idle \in SocketCall /\ Idle.pc = "idle" /\ Idle.kind = "none" /\ Idle.dir = "send"
    /\ Idle.lens = <<>> /\ Idle.left = 0 /\ Idle.at = 1 /\ Idle.done = 0 /\ Idle.r = -1
    /\ Idle.errno = "ok" /\ Idle.moved = 0 /\ Total(<<>>) = 0 /\ 0 <= 0 + 1
  <1>1. /\ 0 \in 0..MaxLimit /\ 0 \in 0..Forever /\ 0 \in Nat /\ -1 \in Int /\ <<>> \in Seq(Nat)
        /\ 0 <= 0 + 1
    BY SocketNumbers, SMT
  <1>2. "idle" \in Spots /\ "none" \in SocketKinds /\ "send" \in Dirs /\ "ok" \in Errnos
    BY SocketNames, SocketNumbers
  <1>3. Idle \in SocketCall
    BY <1>1, <1>2 DEF Idle, SocketCall
  <1>4. Total(<<>>) = 0
    BY DEF Total
  <1> QED
    BY <1>1, <1>3, <1>4 DEF Idle

\* A record without bytes or errors is good.
LEMMA FreshGood ==
    ASSUME SocketInv, NEW m \in SocketCall, SpotOK(m), ~Moving(m), m.errno = "ok", m.done = 0,
           m.lens = <<>>, m.kind = "connect" => m.dir = "send"
    PROVE  GoodSocket(m)
  <1>1. ByteOK(m)
    BY IdleFields DEF ByteOK
  <1>2. BlockOK(m)
    BY DEF BlockOK
  <1> QED
    BY <1>1, <1>2 DEF GoodSocket

\* Every call begins so.
LEMMA CallKeepsCalls ==
    ASSUME SocketInv, NEW c \in Callers, Call(c)
    PROVE  SocketInv'
  <1>0. /\ Running /\ ~InCall(c) /\ made < MaxCalls /\ nonblocking \in BOOLEAN
        /\ NON_BLOCKING \in BOOLEAN /\ wanted \in BOOLEAN /\ kernel \in [Dirs -> Limits]
        /\ os \in {"unix", "windows"}
    BY DEF Call, SocketInv, SocketsTyped
  <1>1. ASSUME NEW kind \in DOMAIN Transfers, NEW lens, Enter(c, kind, lens)
        PROVE  SocketInv'
    <2> DEFINE rules == Transfers[kind]
               m == [Idle EXCEPT !.pc = "mode", !.kind = kind, !.lens = lens,
                       !.dir = rules.dir, !.r = rules.start]
    <2>1. /\ Begin(c, m)
          /\ UNCHANGED <<os, nonblocking, NON_BLOCKING, wanted, kernel, limits, aborted>>
      BY <1>1 DEF Enter
    <2>2. kind \in MovingKinds /\ RuleOK(rules)
      BY <1>0, TransferFacts
    <2>3. /\ lens \in Seq(Nat) /\ IF rules.vector THEN Len(lens) = 2 ELSE Len(lens) = 1
      <3>1. \/ rules.vector /\ lens \in Vectors
            \/ ~rules.vector /\ \E n \in Lengths \cup {1} : lens = <<n>>
        BY <1>1 DEF Enter
      <3>2. CASE rules.vector /\ lens \in Vectors
        BY <3>2, SocketNumbers
      <3>3. CASE ~rules.vector /\ \E n \in Lengths \cup {1} : lens = <<n>>
        <4>1. PICK n \in Lengths \cup {1} : lens = <<n>>
          BY <3>3
        <4>2. n \in Nat
          BY SocketNumbers, SMT
        <4>3. lens \in Seq(Nat) /\ Len(lens) = 1
          BY <4>1, <4>2, SMT
        <4> QED
          BY <3>3, <4>3
      <3> QED
        BY <3>1, <3>2, <3>3
    <2>4. kind \in SocketKinds /\ rules.dir \in Dirs /\ rules.start \in Int
      <3>1. -1 \in Int /\ 0 \in Int
        BY SMT
      <3> QED
        BY <2>2, <3>1, SocketNames DEF RuleOK
    <2> HIDE DEF rules
    <2>5. /\ m \in SocketCall /\ m.pc = "mode" /\ m.kind = kind /\ m.lens = lens
          /\ m.r = rules.start /\ m.errno = "ok" /\ m.done = 0 /\ m.moved = 0 /\ m.at = 1
      BY <2>3, <2>4, IdleFields, SocketNames DEF SocketCall
    <2> HIDE DEF m
    <2>6. Moving(m) /\ Limited(m) /\ SpotOK(m) /\ ~Late(m) /\ m.kind # "connect"
      BY <2>5, KindFacts DEF Moving, Limited, SpotOK, Late
    <2>7. BufferOK(m)
      <3>1. 1 <= 1 /\ 1 <= 2
        BY SMT
      <3> QED
        BY <2>3, <2>5, <3>1 DEF BufferOK, rules
    <2>8. m.done <= Total(m.lens) + 1
      <3>1. Len(m.lens) \in {1, 2}
        BY <2>3, <2>5
      <3>2. Total(m.lens) \in Nat
        <4>1. m.lens \in Seq(Nat)
          BY <2>3, <2>5
        <4>2. /\ m.lens[1] \in Nat
              /\ Len(m.lens) = 1 => Total(m.lens) = m.lens[1]
              /\ Len(m.lens) = 2 => m.lens[2] \in Nat /\ Total(m.lens) = m.lens[1] + m.lens[2]
          BY <3>1, <4>1, SliceTotals
        <4>3. CASE Len(m.lens) = 1
          BY <4>2, <4>3
        <4>4. CASE Len(m.lens) = 2
          <5> DEFINE x == m.lens[1]
                     y == m.lens[2]
          <5>1. x \in Nat /\ y \in Nat /\ Total(m.lens) = x + y
            BY <4>2, <4>4
          <5> HIDE DEF x, y
          <5> QED
            BY <5>1, SMT
        <4> QED
          BY <3>1, <4>3, <4>4
      <3> QED
        BY <2>5, <3>2, SMT
    <2>9. m.r <= m.done /\ (m.r = m.done \/ (m.r = -1 /\ m.done = 0))
      <3>1. -1 <= 0 /\ 0 <= 0
        BY SMT
      <3> QED
        BY <2>2, <2>5, <3>1 DEF RuleOK
    <2>10. ByteOK(m)
      BY <2>5, <2>6, <2>7, <2>8, <2>9 DEF ByteOK
    <2>11. BlockOK(m)
      BY <2>5, <2>6 DEF BlockOK
    <2>12. GoodSocket(m)
      BY <2>5, <2>6, <2>10, <2>11 DEF GoodSocket
    <2> QED
      BY <1>0, <2>1, <2>5, <2>6, <2>12, BeginKeepsCalls
  <1>2. CASE Connect(c)
    <2> DEFINE m == [Idle EXCEPT !.pc = "mode", !.kind = "connect"]
    <2>1. /\ Begin(c, m)
          /\ UNCHANGED <<os, nonblocking, NON_BLOCKING, wanted, kernel, limits, aborted>>
      BY <1>2 DEF Connect
    <2>2. /\ m \in SocketCall /\ m.pc = "mode" /\ m.kind = "connect" /\ m.lens = <<>>
          /\ m.errno = "ok" /\ m.done = 0 /\ m.dir = "send"
      BY IdleFields, SocketNames DEF SocketCall
    <2> HIDE DEF m
    <2>3. ~Moving(m) /\ Limited(m) /\ SpotOK(m) /\ ~Late(m)
      BY <2>2, KindFacts DEF Moving, Limited, SpotOK, Late
    <2>4. GoodSocket(m)
      BY <2>2, <2>3, FreshGood
    <2> QED
      BY <1>0, <2>1, <2>2, <2>3, <2>4, BeginKeepsCalls
  <1>3. ASSUME NEW d \in Dirs, NEW l \in Limits, Setsockopt(c, d, l)
        PROVE  SocketInv'
    <2> DEFINE m == [Idle EXCEPT !.pc = "record", !.kind = "setsockopt",
                             !.dir = d, !.left = l, !.r = 0]
    <2>1. /\ Begin(c, m) /\ kernel' = [kernel EXCEPT ![d] = l]
          /\ UNCHANGED <<os, nonblocking, NON_BLOCKING, wanted, limits, aborted>>
      BY <1>3 DEF Setsockopt
    <2>2. l \in 0..Forever /\ l # 0 /\ 0 \in Int
      BY SocketNumbers, SMT
    <2>3. /\ m \in SocketCall /\ m.pc = "record" /\ m.kind = "setsockopt" /\ m.lens = <<>>
          /\ m.errno = "ok" /\ m.done = 0 /\ m.dir = d /\ m.left = l
      BY <2>2, IdleFields, SocketNames DEF SocketCall
    <2> HIDE DEF m
    <2>4. ~Moving(m) /\ ~Limited(m) /\ SpotOK(m) /\ ~Late(m)
      BY <2>2, <2>3, KindFacts DEF Moving, Limited, SpotOK, Late
    <2>5. GoodSocket(m)
      BY <2>3, <2>4, FreshGood
    <2>6. /\ kernel' \in [Dirs -> Limits] /\ kernel'[d] = l
          /\ \A e \in Dirs : kernel'[e] # kernel[e] => e = d
      BY <1>0, <2>1
    <2> QED
      BY <1>0, <2>1, <2>3, <2>4, <2>5, <2>6, BeginKeepsCalls
  <1>4. ASSUME NEW cmd \in Commands, NEW arg \in BOOLEAN, Ioctlsocket(c, cmd, arg)
        PROVE  SocketInv'
    <2> DEFINE m == [Idle EXCEPT !.pc = "shadow", !.kind = "ioctlsocket",
                             !.on = arg, !.r = 0]
    <2>1. Begin(c, m) /\ UNCHANGED <<os, NON_BLOCKING, kernel, limits, aborted>>
      BY <1>4 DEF Ioctlsocket
    <2>2. nonblocking' \in BOOLEAN /\ wanted' \in BOOLEAN
      BY <1>0, <1>4 DEF Ioctlsocket
    <2>3. /\ m \in SocketCall /\ m.pc = "shadow" /\ m.kind = "ioctlsocket" /\ m.lens = <<>>
          /\ m.errno = "ok" /\ m.done = 0
      <3>1. 0 \in Int
        BY SMT
      <3> QED
        BY <3>1, IdleFields, SocketNames DEF SocketCall
    <2> HIDE DEF m
    <2>4. ~Moving(m) /\ ~Limited(m) /\ SpotOK(m) /\ ~Late(m)
      BY <2>3, KindFacts DEF Moving, Limited, SpotOK, Late
    <2>5. GoodSocket(m)
      BY <2>3, <2>4, FreshGood
    <2> QED
      BY <1>0, <2>1, <2>2, <2>3, <2>4, <2>5, BeginKeepsCalls
  <1> QED
    BY <1>1, <1>2, <1>3, <1>4 DEF Call

\* The caller takes the result.
LEMMA LeaveKeepsCalls ==
    ASSUME SocketInv, NEW c \in Callers, Leave(c)
    PROVE  SocketInv'
  <1>1. /\ Becomes(c, Idle) /\ call[c].pc = "done"
        /\ UNCHANGED <<os, kernel, limits, shared, aborted, made, wanted, nonblocking, NON_BLOCKING>>
    BY DEF Leave, fixed
  <1>2. nonblocking' \in BOOLEAN /\ NON_BLOCKING' \in BOOLEAN
    BY <1>1, OneCall
  <1>3. ~Moving(Idle) /\ ~Limited(Idle) /\ SpotOK(Idle)
    BY IdleFields, KindFacts DEF Moving, Limited, SpotOK
  <1>4. GoodSocket(Idle)
    BY <1>3, IdleFields, FreshGood
  <1>5. LimitOK(Idle)
    BY <1>3 DEF LimitOK, Late
  <1> QED
    BY <1>1, <1>2, <1>4, <1>5, IdleFields, SocketGoesOn

\* The program's own fcntl, and the peer.
LEMMA OutsideKeepsCalls ==
    ASSUME SocketInv, SetMode \/ Answer \/ UNCHANGED vars
    PROVE  SocketInv'
  <1>1. /\ UNCHANGED <<os, kernel, limits, shared, aborted, made, call, NON_BLOCKING>>
        /\ nonblocking' \in BOOLEAN /\ wanted' \in BOOLEAN
    <2>1. nonblocking \in BOOLEAN /\ wanted \in BOOLEAN
      BY DEF SocketInv, SocketsTyped
    <2> QED
      BY <2>1 DEF SetMode, Answer, vars, mode
  <1>2. SocketsTyped'
    BY <1>1 DEF SocketInv, SocketsTyped
  <1>3. \A c \in Callers : GoodSocket(call[c])'
    BY <1>1, GoodStays DEF SocketInv
  <1>4. LimitInv'
    BY <1>1 DEF SocketInv, LimitInv, LimitOK, Late, Limited, Moving, Transfers, Alone, Known
  <1> QED
    BY <1>2, <1>3, <1>4 DEF SocketInv

\* Time.
LEMMA TickKeepsCalls ==
    ASSUME SocketInv, Tick
    PROVE  SocketInv'
  <1>1. /\ UNCHANGED <<os, kernel, limits, shared, aborted, made, nonblocking, NON_BLOCKING, wanted>>
        /\ call' = [c \in Callers |-> IF Timed(call[c]) /\ call[c].age < MaxLimit
                                      THEN [call[c] EXCEPT !.age = @ + 1] ELSE call[c]]
    BY DEF Tick, mode
  <1>2. ASSUME NEW c \in Callers
        PROVE  /\ GoodSocket(call'[c]) /\ (~aborted => LimitOK(call'[c])) /\ call'[c].pc = call[c].pc
               /\ call'[c].left = call[c].left /\ call'[c].dir = call[c].dir
    <2> DEFINE k == call[c]
               m == [k EXCEPT !.age = @ + 1]
    <2>k. /\ GoodSocket(k) /\ k \in SocketCall /\ SpotOK(k) /\ (~aborted => LimitOK(k)) /\ k.age \in Nat
          /\ k.dir \in Dirs
      BY OneCall, SocketFields
    <2>1. CASE ~(Timed(k) /\ k.age < MaxLimit)
      BY <1>1, <2>k, <2>1
    <2>2. CASE Timed(k) /\ k.age < MaxLimit
      <3>1. call'[c] = m
        BY <1>1, <2>2
      <3>2. k.age + 1 \in 0..MaxLimit /\ \A l \in Nat : k.age >= l => k.age + 1 >= l
        BY <2>k, <2>2, SocketNumbers, SMT
      <3>3. Alike(k, m) /\ m.left = k.left /\ m.pc = k.pc /\ m.on = k.on /\ m.age = k.age + 1
        BY <2>k, <3>2 DEF SocketCall, Alike
      <3> HIDE DEF m
      <3>4. /\ (Moving(m) <=> Moving(k)) /\ (Limited(m) <=> Limited(k)) /\ (Before(m) <=> Before(k))
            /\ (Late(m) <=> Late(k)) /\ m.kind = k.kind /\ m.dir = k.dir
        BY <3>3 DEF Alike, Moving, Limited, Before, Late
      <3>5. SpotOK(m)
        BY <2>k, <3>3, <3>4 DEF SpotOK
      <3>6. GoodSocket(m)
        <4>1. Moving(k) /\ m.pc = "blocked" => k.done < Upto(k)
          BY <2>k, <3>3 DEF GoodSocket, ByteOK
        <4> QED
          BY <2>k, <3>3, <3>4, <3>5, <4>1, AlikeGood
      <3>7. ~aborted => LimitOK(m)
        <4>1. limits[k.dir] \in Nat
          BY <2>k, LimitFacts
        <4> QED
          BY <2>k, <3>2, <3>3, <3>4, <4>1 DEF LimitOK
      <3> QED
        BY <3>1, <3>3, <3>4, <3>6, <3>7
    <2> QED
      BY <2>1, <2>2
  <1>3. SocketsTyped'
    <2>1. call' \in [Callers -> SocketCall]
      BY <1>1, <1>2 DEF GoodSocket
    <2> QED
      BY <1>1, <2>1 DEF SocketInv, SocketsTyped
  <1>4. \A c \in Callers : GoodSocket(call[c])'
    BY <1>1, <1>2, GoodStays
  <1>5. ~aborted' => \A c \in Callers : LimitOK(call[c])'
    BY <1>1, <1>2 DEF LimitOK, Late, Limited, Moving, Transfers
  <1>6. ~shared' => Alone'
    BY <1>1, <1>2 DEF SocketInv, LimitInv, Alone
  <1>7. ~shared' /\ ~aborted' => Known'
    BY <1>1, <1>2 DEF SocketInv, LimitInv, Known
  <1> QED
    BY <1>3, <1>4, <1>5, <1>6, <1>7 DEF SocketInv, LimitInv

\* SocketInv is an invariant.
LEMMA SocketsAlways ==
    /\ HookedInit => SocketInv
    /\ SocketInv /\ [HookedNext]_hvars => SocketInv'
  <1>1. ASSUME HookedInit PROVE SocketInv
    <2>1. /\ Init /\ \A c \in Callers : call[c] = Idle
      BY <1>1 DEF HookedInit, Init
    <2>2. SocketsTyped
      <3>1. 0 \in 0..MaxCalls
        BY SocketNumbers, SMT
      <3>2. kernel \in [Dirs -> Limits]
        BY <2>1 DEF Init
      <3> QED
        BY <2>1, <3>1, <3>2, IdleFields DEF Init, SocketsTyped
    <2>3. "none" \notin DOMAIN Transfers
      <3>1. \A kind \in DOMAIN Transfers : kind \in MovingKinds
        BY <2>2, TransferFacts DEF SocketsTyped
      <3> QED
        BY <3>1 DEF MovingKinds
    <2>4. ~Moving(Idle) /\ ~Limited(Idle) /\ SpotOK(Idle)
      BY <2>3, IdleFields DEF Moving, Limited, SpotOK
    <2>5. ByteOK(Idle) /\ BlockOK(Idle)
      BY <2>4, IdleFields DEF ByteOK, BlockOK
    <2>6. LimitInv
      <3>1. \A c \in Callers : LimitOK(call[c]) /\ call[c].pc = "idle"
        BY <2>1, <2>4, IdleFields DEF LimitOK, Late
      <3>2. \A d \in Dirs : limits[d] = None
        BY <2>1 DEF Init
      <3> QED
        BY <3>1, <3>2 DEF LimitInv, Alone, Known
    <2> QED
      BY <2>1, <2>2, <2>4, <2>5, <2>6, IdleFields DEF SocketInv, GoodSocket
  <1>2. ASSUME SocketInv, [HookedNext]_hvars PROVE SocketInv'
    <2>1. ASSUME NEW c \in Callers, Step(c) PROVE SocketInv'
      BY <1>2, <2>1, ModeStepsKeepCalls, LimitStepsKeepCalls, InsertKeepsCalls, RawKeepsCalls,
         NextBufferKeepsCalls, WaitsKeepCalls, ConnectKeepsCalls, LeaveKeepsCalls DEF Step
    <2>2. CASE Next
      BY <1>2, <2>1, <2>2, CallKeepsCalls, OutsideKeepsCalls, TickKeepsCalls DEF Next
    <2>3. CASE UNCHANGED vars
      BY <1>2, <2>3, OutsideKeepsCalls
    <2> QED
      BY <1>2, <2>2, <2>3 DEF HookedNext, Sockets, Timers, hvars
  <1> QED
    BY <1>1, <1>2

(* A transfer into or out of one buffer returns the number of bytes moved, *)
(* or an error when none was, and a vectored one never claims more than    *)
(* was moved: for single buffers of every length and all Vectors, any      *)
(* number of callers and calls and any results of the raw calls.           *)
THEOREM BytesAlways == HookedSpec => []BytesAccounted
  <1>1. SocketInv => BytesAccounted
    <2> SUFFICES ASSUME SocketInv, NEW c \in Callers, Returned(c, DOMAIN Transfers)
                 PROVE  IF Rules(c).vector THEN call[c].r <= call[c].moved
                        ELSE call[c].r = call[c].moved \/ (call[c].r = -1 /\ call[c].moved = 0)
      BY DEF BytesAccounted
    <2>1. Moving(call[c]) /\ ByteOK(call[c])
      BY DEF SocketInv, GoodSocket, Moving, Returned
    <2> QED
      BY <2>1 DEF ByteOK, BufferOK, Rules
  <1> QED
    BY <1>1, SocketsAlways, PTL DEF HookedSpec

(* "Would block" and "in progress" reach the caller only when the time     *)
(* limit of the socket is over or a wait failed, for all limits and any    *)
(* overlapping of calls.                                                   *)
THEOREM LimitsRespected == HookedSpec => []WouldBlockMeansLimit
  <1>1. SocketInv => WouldBlockMeansLimit
    <2> SUFFICES ASSUME SocketInv, NEW c \in Callers, ~aborted,
                        Returned(c, DOMAIN Transfers \cup {"connect"}), call[c].r = -1,
                        call[c].errno \in {"again", "progress"}, ~call[c].failed
                 PROVE  call[c].age >= (IF shared THEN limits ELSE kernel)[Dir(c)]
      BY DEF WouldBlockMeansLimit
    <2>1. Limited(call[c]) /\ call[c].pc = "done"
      BY DEF Returned, Limited, Moving
    <2>2. ~Before(call[c]) /\ Late(call[c])
      BY <2>1 DEF Before, Late
    <2>3. call[c].left = 0
      BY <2>1, <2>2 DEF SocketInv, GoodSocket, BlockOK
    <2>4. limits[call[c].dir] # None /\ call[c].age >= limits[call[c].dir] /\ call[c].dir \in Dirs
      BY <2>2, <2>3, OneCall, SocketFields DEF LimitOK
    <2>5. ~shared => kernel[call[c].dir] = limits[call[c].dir]
      <3> SUFFICES ASSUME ~shared PROVE kernel[call[c].dir] = limits[call[c].dir]
        OBVIOUS
      <3>1. Known /\ Alone
        BY DEF SocketInv, LimitInv
      <3>2. \A d \in Callers : call[d].pc # "record"
        BY <2>1, <3>1 DEF Alone
      <3> QED
        BY <2>4, <3>1, <3>2 DEF Known
    <2> QED
      BY <2>4, <2>5 DEF Dir
  <1> QED
    BY <1>1, SocketsAlways, PTL DEF HookedSpec

(* Every variable of the hooked calls has its type: no wait is longer than *)
(* the slice or the limit allows, and no transfer runs past its buffers,   *)
(* for all constants that satisfy the assumptions.                         *)
THEOREM HookedTyped == HookedSpec => []HookedTypeOK
  <1>1. SocketInv => TypeOK
    <2> SUFFICES ASSUME SocketInv PROVE TypeOK
      OBVIOUS
    <2>1. ASSUME NEW c \in Callers
          PROVE  /\ call[c].left \in 0..Forever /\ call[c].age \in 0..MaxLimit
                 /\ call[c].at \in 1..2 /\ call[c].done \in 0..(Total(call[c].lens) + 1)
      <3> DEFINE k == call[c]
      <3>1. k \in SocketCall /\ ByteOK(k) /\ k.lens \in Seq(Nat) /\ k.done \in Nat /\ k.at \in {1, 2}
        BY OneCall, SocketFields DEF GoodSocket
      <3> HIDE DEF k
      <3>2. Total(k.lens) \in Nat
        <4>1. k.lens = <<>> \/ Len(k.lens) \in {1, 2}
          BY <3>1 DEF ByteOK, BufferOK
        <4>2. CASE k.lens = <<>>
          <5>1. 0 \in Nat
            BY SMT
          <5> QED
            BY <4>2, <5>1, IdleFields
        <4>3. CASE Len(k.lens) = 1
          BY <3>1, <4>3, SliceTotals
        <4>4. CASE Len(k.lens) = 2
          <5> DEFINE x == k.lens[1]
                     y == k.lens[2]
          <5>1. x \in Nat /\ y \in Nat /\ Total(k.lens) = x + y
            BY <3>1, <4>4, SliceTotals
          <5> HIDE DEF x, y
          <5> QED
            BY <5>1, SMT
        <4> QED
          BY <4>1, <4>2, <4>3, <4>4
      <3>3. k.done <= Total(k.lens) + 1
        BY <3>1 DEF ByteOK
      <3>4. k.at \in 1..2 /\ k.done \in 0..(Total(k.lens) + 1)
        BY <3>1, <3>2, <3>3, SMT
      <3>5. k.left \in 0..Forever /\ k.age \in 0..MaxLimit
        BY <3>1 DEF SocketCall
      <3> QED
        BY <3>4, <3>5 DEF k
    <2> QED
      BY <2>1 DEF TypeOK, SocketInv, SocketsTyped
  <1>2. TimedInv => TimedTypeOK
    <2> SUFFICES ASSUME TimedInv PROVE TimedTypeOK
      OBVIOUS
    <2>1. ASSUME NEW c \in Sleepers
          PROVE  /\ timed[c].age \in 0..MaxAge /\ timed[c].rest \in 0..LongestWait(timed[c])
                 /\ timed[c].t \in 0..Unending /\ timed[c].x \in {1, 2, 4, 8, 16}
                 /\ timed[c].r \in TimedResults
      <3> DEFINE k == timed[c]
      <3>1. k \in TimedCall /\ k.rest <= LongestWait(k)
        BY DEF TimedInv, GoodCall
      <3> HIDE DEF k
      <3>2. LongestWait(k) \in Nat
        <4>1. MaxAge \in Nat /\ WaitSlice \in Nat /\ 16 * Micros \in Nat /\ 16 * 1 \in Nat
          BY TimedNumbers, SMT
        <4> QED
          BY <4>1 DEF LongestWait, Unit
      <3>3. k.rest \in Nat
        BY <3>1 DEF TimedCall
      <3>4. k.rest \in 0..LongestWait(k)
        BY <3>1, <3>2, <3>3, SMT
      <3>5. /\ k.age \in 0..MaxAge /\ k.t \in 0..Unending /\ k.x \in {1, 2, 4, 8, 16}
            /\ k.r \in TimedResults
        BY <3>1 DEF TimedCall
      <3> QED
        BY <3>4, <3>5 DEF k
    <2> QED
      BY <2>1 DEF TimedTypeOK, TimedInv, TimedResults
  <1> QED
    BY <1>1, <1>2, SocketsAlways, TimedAlways, PTL DEF HookedSpec, HookedTypeOK
=============================================================================
