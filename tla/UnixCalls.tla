----------------------------- MODULE UnixCalls -----------------------------
(***************************************************************************)
(* The system calls open-coroutine replaces on Unix.  Each file of         *)
(* core/src/syscall/unix builds a chain of layers for one call: the facade *)
(* (every call), an io_uring layer, a layer of its own ("nio"), and the    *)
(* raw call.  A chain is a record:                                         *)
(*   ring - the layer that hands the call to the io_uring operator:        *)
(*          "plain" suspends without limit, "read" and "write" suspend for *)
(*          the socket's receive or send limit, "none" when there is none; *)
(*   nio  - the layer below it, "raw" when the raw call comes next.        *)
(***************************************************************************)
EXTENDS Integers

Chain(ring, nio) == [ring |-> ring, nio |-> nio]

accept == Chain("read", "read")
accept4 == Chain("plain", "read")
close == Chain("plain", "close")
connect == Chain("write", "connect")
fsync == Chain("plain", "raw")
link == Chain("none", "raw")
listen == Chain("none", "raw")
lseek == Chain("none", "raw")
mkdir == Chain("none", "raw")
mkdirat == Chain("plain", "raw")
nanosleep == Chain("none", "sleep")
poll == Chain("none", "poll")
pread == Chain("read", "read_buf")
preadv == Chain("read", "read_iovec")
pthread_cond_timedwait == Chain("none", "cond_timedwait")
pthread_mutex_lock == Chain("none", "mutex_lock")
pthread_mutex_trylock == Chain("none", "raw")
pthread_mutex_unlock == Chain("none", "raw")
pwrite == Chain("write", "write_buf")
pwritev == Chain("write", "write_iovec")
read == Chain("read", "read_buf")
readv == Chain("read", "read_iovec")
recv == Chain("read", "read_buf")
recvfrom == Chain("none", "read_buf")
recvmsg == Chain("read", "recvmsg")
renameat == Chain("plain", "raw")
renameat2 == Chain("plain", "raw")
rmdir == Chain("none", "raw")
select == Chain("none", "select")
send == Chain("write", "write_buf")
sendmsg == Chain("write", "sendmsg")
sendto == Chain("write", "write_buf")
setsockopt == Chain("none", "setsockopt")
shutdown == Chain("plain", "shutdown")
sleep == Chain("none", "sleep")
socket == Chain("plain", "raw")
unlink == Chain("none", "raw")
usleep == Chain("none", "sleep")
\* Writes to stdout and stderr go from the facade straight to the raw call.
write == Chain("write", "write_buf")
writev == Chain("write", "write_iovec")

calls_by_name ==
    [accept |-> accept, accept4 |-> accept4, close |-> close,
     connect |-> connect, fsync |-> fsync, link |-> link, listen |-> listen,
     lseek |-> lseek, mkdir |-> mkdir, mkdirat |-> mkdirat,
     nanosleep |-> nanosleep, poll |-> poll, pread |-> pread, preadv |-> preadv,
     pthread_cond_timedwait |-> pthread_cond_timedwait,
     pthread_mutex_lock |-> pthread_mutex_lock,
     pthread_mutex_trylock |-> pthread_mutex_trylock,
     pthread_mutex_unlock |-> pthread_mutex_unlock, pwrite |-> pwrite,
     pwritev |-> pwritev, read |-> read, readv |-> readv, recv |-> recv,
     recvfrom |-> recvfrom, recvmsg |-> recvmsg, renameat |-> renameat,
     renameat2 |-> renameat2, rmdir |-> rmdir, select |-> select, send |-> send,
     sendmsg |-> sendmsg, sendto |-> sendto, setsockopt |-> setsockopt,
     shutdown |-> shutdown, sleep |-> sleep, socket |-> socket,
     unlink |-> unlink, usleep |-> usleep, write |-> write, writev |-> writev]
Chains == {calls_by_name[n] : n \in DOMAIN calls_by_name}

-----------------------------------------------------------------------------
(* The transfer layers of the macros differ in the direction, in whether   *)
(* they walk a vector of buffers, and in what three of their exits return: *)
(*   start  - r before the first raw call;                                 *)
(*   eof    - after a raw call that transferred nothing: "sum" of the      *)
(*            bytes so far, or "last", what that raw call returned;        *)
(*   failed - after EventLoops::wait_*_event failed: "sum", or "last".     *)
(* Every one returns the sum when the buffer is full, and what the last    *)
(* raw call returned after a partial transfer or another error.            *)

Transfer(dir, vector, start, eof, failed) ==
    [dir |-> dir, vector |-> vector, start |-> start, eof |-> eof,
     failed |-> failed]

impl_nio_read == Transfer("recv", FALSE, -1, "last", "last")
impl_nio_read_buf == Transfer("recv", FALSE, -1, "sum", "sum")
impl_nio_read_iovec == Transfer("recv", TRUE, -1, "sum", "sum")
impl_nio_write_buf == Transfer("send", FALSE, -1, "last", "sum")
impl_nio_write_iovec == Transfer("send", TRUE, -1, "last", "sum")
NioRecvmsg == Transfer("recv", TRUE, 0, "last", "last")
NioSendmsg == Transfer("send", TRUE, 0, "last", "last")

transfers ==
    [read |-> impl_nio_read, read_buf |-> impl_nio_read_buf,
     read_iovec |-> impl_nio_read_iovec, write_buf |-> impl_nio_write_buf,
     write_iovec |-> impl_nio_write_iovec, recvmsg |-> NioRecvmsg,
     sendmsg |-> NioSendmsg]
=============================================================================
