------------------------------ MODULE Sockets ------------------------------
(***************************************************************************)
(* The socket system calls of a server program over the TCP layer          *)
(* (kernel/syscall.c, 24-115 and 521-900): the global table of file        *)
(* descriptors, whose entries hold pointers to sockets, and the two calls  *)
(* that block.                                                             *)
(*                                                                         *)
(* int 0x80 is an interrupt gate: a system call runs with interrupts       *)
(* masked and the network interrupt comes between two of them, or while    *)
(* the caller is blocked.  The waits of accept and recv are those of       *)
(* wait_queue_wait_timeout (kernel/thread.c), whose timeout never ends a   *)
(* wait (module Semaphore).  g_server_closing is never set, so the branch  *)
(* of sys_close that tests it is never taken.                              *)
(*                                                                         *)
(* The program binds and listens on descriptors it got from sys_socket.    *)
(* After a reallocation of the socket array its old pointers are invalid   *)
(* and what a call does with one is undefined: such calls are not          *)
(* explored.                                                               *)
(***************************************************************************)
EXTENDS Tcp

CONSTANTS Fd,         \* descriptors 3 and up
          Policies    \* the kinds of server program

ASSUME SocketsAssumption == Fd \subseteq Nat

VARIABLES fd_table,         \* [role, moves, slot]; role "none", "server", "client"
          g_server_socket,  \* a pointer, slot 0 for NULL
          waiter,           \* where the program waits
          policy            \* "serial": one open connection at a time; "several"

sockVars == <<tcp, resolved, fd_table, g_server_socket, waiter, policy>>

NoFd == [role |-> "none", moves |-> 0, slot |-> 0]
Awake == [queue |-> "none", moves |-> 0, slot |-> 0, ready |-> FALSE]

Asleep(queue, f) ==
    [queue |-> queue, moves |-> fd_table[f].moves, slot |-> fd_table[f].slot, ready |-> FALSE]

SocketsInit ==
    /\ tcp = tcp_init /\ resolved \in SUBSET Client
    /\ fd_table = [f \in Fd |-> NoFd]
    /\ g_server_socket = [moves |-> 0, slot |-> 0]
    /\ waiter = Awake /\ policy \in Policies

Current(p) == p.moves = tcp.moves /\ p.slot # 0

(* The caller runs, and the descriptor holds a socket it may use.          *)
Calls(f, role) == waiter = Awake /\ fd_table[f].role = role /\ Current(fd_table[f])

SocketOf(f) == tcp.sock[fd_table[f].slot]

FreeFds == {f \in Fd : fd_table[f].role = "none"}

fd_alloc == Min(FreeFds)

Pointer(role, slot) == [role |-> role, moves |-> tcp'.moves, slot |-> slot]

-----------------------------------------------------------------------------
sys_socket(memory) ==
    LET a == tcp_socket_create(tcp, memory)
    IN  /\ waiter = Awake
        /\ IF a.slot = 0 \/ FreeFds = {}
           THEN /\ tcp' = IF a.slot = 0 THEN a.table ELSE tcp_close(a.table, a.slot)
                /\ UNCHANGED <<fd_table, g_server_socket>>
           ELSE /\ tcp' = a.table
                /\ fd_table' = [fd_table EXCEPT ![fd_alloc] = Pointer("server", a.slot)]
                /\ g_server_socket' = [moves |-> tcp'.moves, slot |-> a.slot]
        /\ UNCHANGED <<resolved, waiter, policy>>

sys_bind(f, port) ==
    /\ Calls(f, "server") /\ CanBind(tcp, fd_table[f].slot, port)
    /\ tcp' = [tcp EXCEPT !.sock[fd_table[f].slot].local_port = port]
    /\ UNCHANGED <<resolved, fd_table, g_server_socket, waiter, policy>>

sys_listen(f) ==
    /\ Calls(f, "server") /\ SocketOf(f).local_port # 0
    /\ tcp' = [tcp EXCEPT !.sock[fd_table[f].slot].state = "LISTEN"]
    /\ UNCHANGED <<resolved, fd_table, g_server_socket, waiter, policy>>

(* The end of sys_accept: a descriptor for the connection, or its close.   *)
Accepted(slot) ==
    IF FreeFds = {}
    THEN tcp' = tcp_close(tcp, slot) /\ UNCHANGED fd_table
    ELSE tcp' = tcp /\ fd_table' = [fd_table EXCEPT ![fd_alloc] = Pointer("client", slot)]

OpenConnections == {f \in Fd : fd_table[f].role = "client"}

sys_accept(f) ==
    LET ready == tcp_find_ready_client(tcp, SocketOf(f).local_port)
    IN  /\ Calls(f, "server") /\ SocketOf(f).state = "LISTEN"
        /\ policy = "serial" => OpenConnections = {}
        /\ IF ready # 0
           THEN Accepted(ready) /\ UNCHANGED waiter
           ELSE /\ waiter' = Asleep("accept", f)
                /\ UNCHANGED <<tcp, fd_table>>
        /\ UNCHANGED <<resolved, g_server_socket, policy>>

(* The acceptor runs again, and tests whether a client is ready.           *)
AcceptResumes ==
    LET ready == tcp_find_ready_client(tcp, tcp.sock[waiter.slot].local_port)
    IN  /\ waiter.queue = "accept" /\ waiter.ready /\ Current(waiter)
        /\ IF ready # 0
           THEN Accepted(ready) /\ waiter' = Awake
           ELSE waiter' = [waiter EXCEPT !.ready = FALSE] /\ UNCHANGED <<tcp, fd_table>>
        /\ UNCHANGED <<resolved, g_server_socket, policy>>

sys_recv(f, len) ==
    /\ Calls(f, "client") /\ SocketOf(f).state = "ESTABLISHED"
    /\ IF SocketOf(f).n > 0
       THEN /\ tcp' = [tcp EXCEPT !.sock[fd_table[f].slot] = tcp_recv(@, len)]
            /\ UNCHANGED waiter
       ELSE /\ waiter' = Asleep("recv", f)
            /\ UNCHANGED tcp
    /\ UNCHANGED <<resolved, fd_table, g_server_socket, policy>>

(* The predicate of the wait is NULL: the thread queues itself again.      *)
RecvResumes ==
    /\ waiter.queue = "recv" /\ waiter.ready
    /\ waiter' = [waiter EXCEPT !.ready = FALSE]
    /\ UNCHANGED <<tcp, resolved, fd_table, g_server_socket, policy>>

sys_send(f) ==
    /\ Calls(f, "client") /\ SocketOf(f).state = "ESTABLISHED"
    /\ tcp' = [tcp EXCEPT !.sock[fd_table[f].slot] = tcp_send_packet(@, {"ACK"}, 1)]
    /\ UNCHANGED <<resolved, fd_table, g_server_socket, waiter, policy>>

(* Mutation: the descriptor of a closed connection is not freed.          *)
sys_close_keeps_fd(f) ==
    /\ \E role \in {"server", "client"} : Calls(f, role)
    /\ IF [moves |-> fd_table[f].moves, slot |-> fd_table[f].slot] = g_server_socket
       THEN tcp' = tcp_close_and_relisten(tcp, fd_table[f].slot) /\ UNCHANGED fd_table
       ELSE tcp' = tcp_close(tcp, fd_table[f].slot) /\ UNCHANGED fd_table
    /\ UNCHANGED <<resolved, g_server_socket, waiter, policy>>

sys_close(f) ==
    /\ \E role \in {"server", "client"} : Calls(f, role)
    /\ IF [moves |-> fd_table[f].moves, slot |-> fd_table[f].slot] = g_server_socket
       THEN tcp' = tcp_close_and_relisten(tcp, fd_table[f].slot) /\ UNCHANGED fd_table
       ELSE tcp' = tcp_close(tcp, fd_table[f].slot) /\ fd_table' = [fd_table EXCEPT ![f] = NoFd]
    /\ UNCHANGED <<resolved, g_server_socket, waiter, policy>>

-----------------------------------------------------------------------------
(* The network interrupt.                                                  *)
Packet(g, isn, memory) ==
    /\ tcp' = tcp_handle_packet(tcp, g, isn, memory)
    /\ waiter' = [waiter EXCEPT !.ready = @ \/ <<waiter.queue, waiter.slot>> \in Wakes(tcp, g)]
    /\ UNCHANGED <<resolved, fd_table, g_server_socket, policy>>

(* An ARP reply for the next hop of a peer.                                *)
Resolved(c) ==
    /\ resolved' = resolved \cup {c}
    /\ UNCHANGED <<tcp, fd_table, g_server_socket, waiter, policy>>

SocketsNext(segments) ==
    \/ \E memory \in Memory : sys_socket(memory)
    \/ \E f \in Fd : \/ \E port \in Port : sys_bind(f, port)
                     \/ sys_listen(f) \/ sys_accept(f) \/ sys_send(f) \/ sys_close(f)
                     \/ \E len \in 1..BufSize : sys_recv(f, len)
    \/ AcceptResumes \/ RecvResumes
    \/ \E g \in segments, isn \in Isn, memory \in Memory : Packet(g, isn, memory)
    \/ \E c \in Client : Resolved(c)

(* A program that has one connection open at a time.                       *)
SerialSpec ==
    SocketsInit /\ policy = "serial" /\ [][SocketsNext(Segment)]_sockVars

-----------------------------------------------------------------------------
(* Every descriptor that holds a pointer into the present array holds a    *)
(* socket in use, and no two hold the same one: closing one never frees    *)
(* the socket of another (syscall.c:723, 757-758, 885).                    *)
FdsDistinct ==
    \A f, h \in Fd :
        fd_table[f].role # "none" /\ Current(fd_table[f]) =>
            /\ SocketOf(f).in_use
            /\ fd_table[h] = fd_table[f] => h = f

(* An acceptor asleep while a connection is ready is only possible when    *)
(* another socket listens on the port in a lower slot, which receives the  *)
(* wake-up instead: the interrupt never comes too late or too early for    *)
(* the test of sys_accept (tcp.c:720-724, syscall.c:730).                  *)
AcceptorWoken ==
    waiter.queue = "accept" /\ ~waiter.ready /\ Current(waiter) =>
        LET port == tcp.sock[waiter.slot].local_port
        IN  \/ tcp_find_ready_client(tcp, port) = 0
            \/ tcp_find_listening_socket(tcp, port) < waiter.slot

(* A program blocked in recv returns once data has arrived (thread.h:283:  *)
(* the predicate "peut être NULL", the wait ends "si réveillé par signal").*)
RecvReturns ==
    LET Receiving == waiter.queue = "recv" /\ Current(waiter)
                     /\ tcp.sock[waiter.slot].state = "ESTABLISHED"
    IN  (Receiving /\ tcp.sock[waiter.slot].n > 0) ~> ~Receiving
=============================================================================
