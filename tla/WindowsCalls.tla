---------------------------- MODULE WindowsCalls ----------------------------
(***************************************************************************)
(* The system calls open-coroutine replaces on Windows, one per file of    *)
(* core/src/syscall/windows.  The records are those of module UnixCalls;   *)
(* the ring is the I/O completion port, which only accept goes through.    *)
(***************************************************************************)
EXTENDS UnixCalls

accept_w == Chain("read", "read")
connect_w == Chain("none", "connect")
CreateFileW == Chain("none", "raw")
ioctlsocket == Chain("none", "ioctlsocket")
listen_w == Chain("none", "raw")
recv_w == Chain("none", "read_buf")
select_w == Chain("none", "select")
send_w == Chain("none", "write_buf")
SetFilePointerEx == Chain("none", "raw")
setsockopt_w == Chain("none", "setsockopt")
shutdown_w == Chain("none", "shutdown")
Sleep == Chain("none", "sleep")
socket_w == Chain("none", "raw")
WaitOnAddress == Chain("none", "wait_on_address")
WSAAccept == Chain("none", "read")
WSAPoll == Chain("none", "poll")
WSARecv == Chain("none", "read_iovec")
WSASend == Chain("none", "write_iovec")
WSASocketW == Chain("none", "raw")

Chains_w == {accept_w, connect_w, CreateFileW, ioctlsocket, listen_w, recv_w,
    select_w, send_w, SetFilePointerEx, setsockopt_w, shutdown_w, Sleep,
    socket_w, WaitOnAddress, WSAAccept, WSAPoll, WSARecv, WSASend, WSASocketW}

-----------------------------------------------------------------------------
(* The transfer layers.  A vectored call reports its bytes through a       *)
(* counter the caller passes in and 0 or SOCKET_ERROR as its result; the   *)
(* model's r is the counter, or -1 for SOCKET_ERROR.                       *)

impl_nio_read_w == Transfer("recv", FALSE, -1, "last", "last")
impl_nio_read_buf_w == Transfer("recv", FALSE, -1, "sum", "sum")
impl_nio_read_iovec_w == Transfer("recv", TRUE, -1, "last", "sum")
impl_nio_write_buf_w == Transfer("send", FALSE, -1, "last", "sum")
impl_nio_write_iovec_w == Transfer("send", TRUE, -1, "last", "sum")

transfers_w ==
    [read |-> impl_nio_read_w, read_buf |-> impl_nio_read_buf_w,
     read_iovec |-> impl_nio_read_iovec_w, write_buf |-> impl_nio_write_buf_w,
     write_iovec |-> impl_nio_write_iovec_w]
=============================================================================
