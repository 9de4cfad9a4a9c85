-------------------------------- MODULE Tcp --------------------------------
(***************************************************************************)
(* The TCP layer of the kernel (net/l4/tcp.c): the table of sockets, the   *)
(* state machine that the network interrupt runs on every segment, and the *)
(* calls of the socket API, each as a function from tables to tables.      *)
(* Modules Sockets and Httpd are the two programs that use them.           *)
(*                                                                         *)
(* A peer stands for a remote address and port.  Peers send any segment at *)
(* any time, which covers loss, duplication, reordering and restarts.      *)
(* Only our own sequence number is kept: the number of the peer is copied  *)
(* into outgoing segments and never tested.  The states FIN_WAIT_1,        *)
(* FIN_WAIT_2, CLOSING and TIME_WAIT have handlers but nothing enters      *)
(* them, and tcp_listen, tcp_accept and tcp_find_connection have no        *)
(* callers.                                                                *)
(***************************************************************************)
EXTENDS Integers, Sequences, FiniteSets, FiniteSetsExt

CONSTANTS Port,             \* local ports, positive
          Client,           \* the peers
          NoClient,         \* remote_ip and remote_port are 0
          Byte, NoByte,     \* payload bytes, and what a fresh buffer holds
          Payload,          \* the payloads peers send, sequences of Byte
          InitialSockets,   \* TCP_INITIAL_SOCKETS
          MaxSockets,       \* TCP_MAX_SOCKETS
          BufSize,          \* TCP_RECV_BUFFER_SIZE
          SeqModulus,       \* 2^32 in the code
          Isn               \* the initial sequence numbers the timer gives

ASSUME TcpAssumption ==
    /\ Port \subseteq Nat \ {0} /\ NoClient \notin Client /\ Payload \subseteq Seq(Byte)
    /\ BufSize \in Nat \ {0} /\ InitialSockets \in Nat /\ MaxSockets \in Nat
    /\ SeqModulus \in Nat \ {0} /\ Isn \subseteq 0..(SeqModulus - 1)

(* tcp.sock is the array tcp_sockets and tcp.count is tcp_socket_count;    *)
(* tcp.moves counts the reallocations of the array, so that a pointer      *)
(* [moves, slot] is known to be into the present array or into a freed one.*)
VARIABLES tcp,
          resolved    \* the peers whose next hop is in the ARP cache

(* The segments the state machine tells apart: a SYN with an ACK is        *)
(* handled as an ACK.                                                      *)
FlagSets == {{"SYN"}, {"ACK"}, {"FIN"}, {"FIN", "ACK"}, {"RST"}, {"RST", "ACK"}}

Segment ==
    { g \in [from : Client, to : Port, flags : FlagSets, ack : 0..(SeqModulus - 1),
             data : Payload \cup {<<>>}] :
        /\ g.data # <<>> => g.flags \in {{"ACK"}, {"FIN", "ACK"}}
        /\ "ACK" \notin g.flags => g.ack = 0 }

SynOnly(g) == "SYN" \in g.flags /\ "ACK" \notin g.flags

-----------------------------------------------------------------------------
(* Bytes of a buffer that were read, or belong to no connection, count as  *)
(* blank.                                                                  *)
Blank == [i \in 0..(BufSize - 1) |-> NoByte]

(* A socket.  The last two fields are history: the bytes accepted on the   *)
(* present connection and not read yet, and the sequence numbers of the    *)
(* SYN-ACKs sent on it.                                                    *)
tcp_init_socket ==
    [in_use |-> FALSE, state |-> "CLOSED", local_port |-> 0, peer |-> NoClient, seq |-> 0,
     buffer |-> Blank, head |-> 0, tail |-> 0, n |-> 0,
     stream |-> <<>>, synacks |-> {}]

tcp_init == [sock |-> [i \in 1..InitialSockets |-> tcp_init_socket], count |-> 0, moves |-> 0]

(* The sockets in use at a port; a search returns the first that fits, 0   *)
(* when there is none.                                                     *)
InUseAt(t, port) == {i \in DOMAIN t.sock : t.sock[i].in_use /\ t.sock[i].local_port = port}
First(found) == IF found = {} THEN 0 ELSE Min(found)

tcp_find_listening_socket(t, port) ==
    First({i \in InUseAt(t, port) : t.sock[i].state = "LISTEN"})

tcp_find_ready_client(t, port) ==
    First({i \in InUseAt(t, port) : t.sock[i].state = "ESTABLISHED"})

tcp_find_socket(t, port, c) == First({i \in InUseAt(t, port) : t.sock[i].peer = c})

-----------------------------------------------------------------------------
(* Allocation.  A full table is copied into one of twice the size.         *)
tcp_grow_sockets(t) ==
    LET size == Min({2 * Len(t.sock), MaxSockets})
    IN  [t EXCEPT !.sock = @ \o [i \in 1..(size - Len(@)) |-> tcp_init_socket],
                  !.moves = @ + 1]

FreeSlots(t) == {i \in DOMAIN t.sock : ~t.sock[i].in_use}

(* What kmalloc may answer; it is asked only when no slot is free.         *)
Memory == IF FreeSlots(tcp) = {} THEN BOOLEAN ELSE {TRUE}

(* The table after an allocation and the slot it gives, 0 if it fails;     *)
(* memory says whether kmalloc can give a larger array.                    *)
tcp_alloc_socket(t, memory) ==
    LET grown == IF FreeSlots(t) = {} /\ Len(t.sock) < MaxSockets /\ memory
                 THEN tcp_grow_sockets(t) ELSE t
        slot == IF FreeSlots(grown) = {} THEN 0 ELSE Min(FreeSlots(grown))
    IN  [slot |-> slot,
         table |-> IF slot = 0 THEN grown
                   ELSE [grown EXCEPT !.sock[slot].in_use = TRUE, !.count = @ + 1]]

(* The fields tcp_socket_create sets.                                      *)
Created(s) ==
    [s EXCEPT !.state = "CLOSED", !.local_port = 0, !.peer = NoClient, !.seq = 0,
              !.buffer = Blank, !.head = 0, !.tail = 0, !.n = 0, !.stream = <<>>, !.synacks = {}]

tcp_socket_create(t, memory) ==
    LET a == tcp_alloc_socket(t, memory)
    IN  IF a.slot = 0 THEN a ELSE [a EXCEPT !.table.sock[a.slot] = Created(@)]

(* A port is refused while any other socket has it.                        *)
CanBind(t, slot, port) ==
    \A i \in DOMAIN t.sock \ {slot} : t.sock[i].in_use => t.sock[i].local_port # port

-----------------------------------------------------------------------------
(* Sending.  Without a MAC address for the next hop the segment is dropped *)
(* and the sequence number stays.                                          *)
Count(flag, flags) == IF flag \in flags THEN 1 ELSE 0

tcp_send_packet(s, flags, len) ==
    IF s.peer \notin resolved THEN s
    ELSE [s EXCEPT !.seq = (@ + Count("SYN", flags) + Count("FIN", flags) + len) % SeqModulus,
                   !.synacks = IF "SYN" \in flags THEN @ \cup {s.seq} ELSE @]

(* How far cell i of the circular buffer is from cell j.                   *)
Offset(i, j) == (i - j + BufSize) % BufSize

(* The bytes of a payload go into the cells from head on; those that find  *)
(* the buffer full are lost.                                               *)
Store(s, data) ==
    LET m == Min({Len(data), BufSize - s.n})
    IN  [s EXCEPT !.buffer = [i \in 0..(BufSize - 1) |->
                                 IF Offset(i, s.head) < m THEN data[Offset(i, s.head) + 1]
                                 ELSE s.buffer[i]],
                  !.head = (@ + m) % BufSize, !.n = @ + m, !.stream = @ \o SubSeq(data, 1, m)]

(* Up to len bytes are read from tail on.                                  *)
tcp_recv(s, len) ==
    LET m == Min({len, s.n})
    IN  IF s.state # "ESTABLISHED" THEN s
        ELSE [s EXCEPT !.buffer = [i \in 0..(BufSize - 1) |->
                                      IF Offset(i, s.tail) < m THEN NoByte ELSE s.buffer[i]],
                       !.tail = (@ + m) % BufSize, !.n = @ - m, !.stream = SubSeq(@, m + 1, Len(@))]

-----------------------------------------------------------------------------
(* The state machine.  What a segment does to the socket it is for.        *)

(* A reset or closed connection leaves its socket listening.               *)
ToListen(s) == [s EXCEPT !.state = "LISTEN", !.peer = NoClient, !.synacks = {}]

AckDistance(s, g) == (g.ack - s.seq + SeqModulus) % SeqModulus

(* The acknowledgment of the SYN-ACK may be off by one.                    *)
Establishes(s, g) ==
    /\ s.state = "SYN_RCVD" /\ ~SynOnly(g) /\ "ACK" \in g.flags
    /\ AckDistance(s, g) \in {0, 1, SeqModulus - 1}

TakesData(s, g) ==
    /\ g.data # <<>>
    /\ s.state = "ESTABLISHED" \/ (Establishes(s, g) /\ AckDistance(s, g) = 0)

SynAckAgain(s) ==
    tcp_send_packet([s EXCEPT !.seq = (@ + SeqModulus - 1) % SeqModulus], {"SYN", "ACK"}, 0)

InSynRcvd(s, g) ==
    LET opened == IF Establishes(s, g) THEN [s EXCEPT !.state = "ESTABLISHED"] ELSE s
        filled == IF TakesData(s, g) THEN Store(opened, g.data) ELSE opened
    IN  IF SynOnly(g) THEN SynAckAgain(s)
        ELSE IF "RST" \in g.flags THEN ToListen(filled)
        ELSE filled

InEstablished(s, g) ==
    LET filled == Store(s, g.data)
        closing == [tcp_send_packet(filled, {"FIN", "ACK"}, 0) EXCEPT !.state = "LAST_ACK"]
    IN  IF "RST" \in g.flags THEN ToListen(filled)
        ELSE IF "FIN" \in g.flags THEN closing
        ELSE filled

InLastAck(s, g) == IF "ACK" \in g.flags THEN ToListen(s) ELSE s

OnSegment(s, g) ==
    CASE s.state = "SYN_RCVD" -> InSynRcvd(s, g)
      [] s.state = "ESTABLISHED" -> InEstablished(s, g)
      [] s.state = "LAST_ACK" -> InLastAck(s, g)
      [] OTHER -> s

(* A SYN for a listening port makes a socket for the connection; the       *)
(* receive buffer is used as it is found.                                  *)
Connecting(s, g, isn) ==
    tcp_send_packet([s EXCEPT !.local_port = g.to, !.peer = g.from, !.seq = isn,
                              !.state = "SYN_RCVD", !.stream = <<>>, !.synacks = {}],
                    {"SYN", "ACK"}, 0)

OnListen(t, g, isn, memory) ==
    LET a == tcp_alloc_socket(t, memory)
    IN  IF a.slot = 0 THEN a.table
        ELSE [a.table EXCEPT !.sock[a.slot] = Connecting(@, g, isn)]

(* Mutation: a SYN goes to the listening socket first.                     *)
tcp_handle_packet_listener(t, g, isn, memory) ==
    LET exact == tcp_find_socket(t, g.to, g.from)
    IN  IF SynOnly(g) /\ tcp_find_listening_socket(t, g.to) # 0 THEN OnListen(t, g, isn, memory)
        ELSE IF exact # 0 THEN [t EXCEPT !.sock[exact] = OnSegment(@, g)]
        ELSE t

tcp_handle_packet(t, g, isn, memory) ==
    LET exact == tcp_find_socket(t, g.to, g.from)
    IN  IF exact # 0 THEN [t EXCEPT !.sock[exact] = OnSegment(@, g)]
        ELSE IF SynOnly(g) /\ tcp_find_listening_socket(t, g.to) # 0
             THEN OnListen(t, g, isn, memory)
        ELSE t                                      \* answered with a RST

(* Mutation: an acknowledgment that is off by one wakes nobody.            *)
WakesExact(t, g) ==
    LET exact == tcp_find_socket(t, g.to, g.from)
    IN  IF exact # 0 /\ Establishes(t.sock[exact], g) /\ AckDistance(t.sock[exact], g) = 0
        THEN {<<"accept", tcp_find_listening_socket(t, g.to)>>} ELSE {}

(* The wait queues that the segment wakes, as pairs of a queue and a slot: *)
(* accept_waitqueue of the first listening socket of the port when a       *)
(* connection is established, recv_waitqueue when data arrives.            *)
Wakes(t, g) ==
    LET exact == tcp_find_socket(t, g.to, g.from)
    IN  (IF exact # 0 /\ Establishes(t.sock[exact], g)
         THEN {<<"accept", tcp_find_listening_socket(t, g.to)>>} ELSE {})
        \cup
        (IF exact # 0 /\ TakesData(t.sock[exact], g) THEN {<<"recv", exact>>} ELSE {})

-----------------------------------------------------------------------------
(* Closing: the FIN, then the slot.                                        *)
SendFin(s) ==
    IF s.state = "ESTABLISHED" THEN tcp_send_packet(s, {"FIN", "ACK"}, 0) ELSE s

(* Mutation: the counters of the receive buffer survive the close.         *)
ClearedKeepsBuffer(s) ==
    [s EXCEPT !.state = "CLOSED", !.peer = NoClient, !.seq = 0, !.local_port = 0,
              !.in_use = FALSE, !.stream = <<>>, !.synacks = {}]

Cleared(s) ==
    [s EXCEPT !.state = "CLOSED", !.peer = NoClient, !.seq = 0, !.buffer = Blank,
              !.head = 0, !.tail = 0, !.n = 0, !.local_port = 0, !.in_use = FALSE,
              !.stream = <<>>, !.synacks = {}]

Release(t, slot) == [t EXCEPT !.sock[slot] = Cleared(@), !.count = @ - 1]

tcp_close(t, slot) == Release([t EXCEPT !.sock[slot] = SendFin(@)], slot)

tcp_close_and_relisten(t, slot) ==
    [t EXCEPT !.sock[slot] = [Cleared(SendFin(@)) EXCEPT !.state = "LISTEN", !.in_use = TRUE,
                                                         !.local_port = t.sock[slot].local_port]]

-----------------------------------------------------------------------------
(* No two sockets stand for the same connection: duplicated SYNs, resets   *)
(* and reconnections of a peer never make a second one (tcp.c:638-642).    *)
ConnectionUnique ==
    \A i, j \in DOMAIN tcp.sock :
        /\ i # j /\ tcp.sock[i].in_use /\ tcp.sock[j].in_use
        /\ tcp.sock[i].peer # NoClient /\ tcp.sock[i].peer = tcp.sock[j].peer
        => tcp.sock[i].local_port # tcp.sock[j].local_port

(* What a program can read on a connection is what arrived on it, in       *)
(* order, less what was dropped at a full buffer: nothing is left over     *)
(* from an earlier connection of the slot, and the indices of the circular *)
(* buffer agree with its count (tcp.c:733-742, 795-811, 997-1003).         *)
StreamExact ==
    \A i \in DOMAIN tcp.sock :
        LET s == tcp.sock[i]
        IN  s.in_use /\ s.peer # NoClient =>
                /\ s.n = Len(s.stream)
                /\ \A k \in 1..s.n : s.buffer[(s.tail + k - 1) % BufSize] = s.stream[k]

(* However often the SYN-ACK is sent again, and whether or not the first   *)
(* ones were dropped for want of a MAC address, the peer only ever sees    *)
(* one sequence number, and its acknowledgment is the one the socket waits *)
(* for (tcp.c:699-706: "On doit envoyer le même SYN-ACK qu'avant").        *)
SynAckSame ==
    \A i \in DOMAIN tcp.sock :
        LET s == tcp.sock[i]
        IN  s.in_use /\ s.state = "SYN_RCVD" /\ s.synacks # {} =>
                s.synacks = {(s.seq + SeqModulus - 1) % SeqModulus}

(* Whatever a peer repeats, one socket stands for its connection and one   *)
(* SYN-ACK answers it.                                                     *)
HandshakeExact == ConnectionUnique /\ SynAckSame
=============================================================================
