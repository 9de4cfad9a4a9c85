--------------------------- MODULE SocketsProofs ---------------------------
(***************************************************************************)
(* The socket system calls of a program that serves one connection at a    *)
(* time, for every number of peers, ports, sockets and descriptors, every  *)
(* size of the receive buffer and every sequence of segments.              *)
(***************************************************************************)
EXTENDS Sockets, TcpProofs

-----------------------------------------------------------------------------
(* The inductive invariant of a program with one connection at a time.     *)

TableOK == AllOK(tcp) /\ ConnectionUnique

Held(f) == fd_table[f].role # "none" /\ Current(fd_table[f])

FdsOK ==
    /\ fd_table \in [Fd -> [role : {"none", "server", "client"}, moves : Nat, slot : Nat]]
    /\ \A f \in Fd : fd_table[f].moves <= tcp.moves
    /\ \A f \in Fd : Held(f) =>
           /\ fd_table[f].slot \in DOMAIN tcp.sock /\ SocketOf(f).in_use
           /\ fd_table[f].role = "server" => SocketOf(f).peer = NoClient
    /\ \A f, h \in Fd : Held(f) /\ Held(h) /\ fd_table[f].slot = fd_table[h].slot => f = h

WaiterOK ==
    /\ waiter \in [queue : {"none", "accept", "recv"}, moves : Nat, slot : Nat, ready : BOOLEAN]
    /\ waiter.moves <= tcp.moves
    /\ waiter.queue = "accept" =>
           /\ OpenConnections = {}
           /\ Current(waiter) => /\ waiter.slot \in DOMAIN tcp.sock
                                 /\ tcp.sock[waiter.slot].in_use
                                 /\ tcp.sock[waiter.slot].state = "LISTEN"

SocketsIInv == TableOK /\ FdsOK /\ WaiterOK /\ AcceptorWoken /\ policy = "serial"

-----------------------------------------------------------------------------
(* What a step with a new table keeps.                                     *)

(* The invariant of the sockets is about the same resolved peers.          *)
LEMMA SameResolved ==
    ASSUME resolved' = resolved, AllOK(tcp')
    PROVE  AllOK(tcp)'
BY DEF AllOK, SocketOK, OneSynAck

(* One slot is written, with a connection that no other slot has.          *)
LEMMA UniqueKept ==
    ASSUME TableOK, NEW i, Becomes(tcp', tcp, i), resolved' = resolved,
           i \in DOMAIN tcp'.sock /\ tcp'.sock[i].in_use /\ tcp'.sock[i].peer # NoClient =>
               \A j \in DOMAIN tcp.sock :
                   j # i /\ tcp.sock[j].in_use /\ tcp.sock[j].peer = tcp'.sock[i].peer =>
                       tcp.sock[j].local_port # tcp'.sock[i].local_port
    PROVE  TableOK'
<1>1. AllOK(tcp)'
  BY SameResolved DEF Becomes
<1>2. ConnectionUnique'
  <2> SUFFICES ASSUME NEW j \in DOMAIN tcp'.sock, NEW k \in DOMAIN tcp'.sock,
                      j # k, tcp'.sock[j].in_use, tcp'.sock[k].in_use,
                      tcp'.sock[j].peer # NoClient, tcp'.sock[j].peer = tcp'.sock[k].peer
               PROVE  tcp'.sock[j].local_port # tcp'.sock[k].local_port
    BY Zenon DEF ConnectionUnique
  <2>1. \A m \in DOMAIN tcp'.sock : m # i /\ tcp'.sock[m].in_use =>
            m \in DOMAIN tcp.sock /\ tcp'.sock[m] = tcp.sock[m]
    BY Zenon DEF Becomes
  <2>2. CASE j = i
    BY <2>1, <2>2, Zenon
  <2>3. CASE k = i
    BY <2>1, <2>3, Zenon
  <2>4. CASE j # i /\ k # i
    <3>1. /\ j \in DOMAIN tcp.sock /\ tcp'.sock[j] = tcp.sock[j]
          /\ k \in DOMAIN tcp.sock /\ tcp'.sock[k] = tcp.sock[k]
      BY <2>1, <2>4, Zenon
    <3>2. ConnectionUnique
      BY DEF TableOK
    <3> QED BY <3>1, <3>2 DEF ConnectionUnique
  <2> QED BY <2>2, <2>3, <2>4, Zenon
<1> QED BY <1>1, <1>2 DEF TableOK

FdRecord == [role : {"none", "server", "client"}, moves : Nat, slot : Nat]

(* Slot i is written and descriptor d changes.                             *)
LEMMA FdsKept ==
    ASSUME TableOK, FdsOK, NEW i, Becomes(tcp', tcp, i), NEW d,
           fd_table' \in [Fd -> FdRecord],
           \A f \in Fd : f # d => fd_table'[f] = fd_table[f],
           \A f \in Fd : f # d /\ Held(f) /\ fd_table[f].slot = i /\ tcp'.moves = tcp.moves =>
               /\ tcp'.sock[i].in_use
               /\ fd_table[f].role = "server" => tcp'.sock[i].peer = NoClient,
           d \in Fd => fd_table'[d].moves <= tcp'.moves,
           d \in Fd /\ Held(d)' =>
               /\ fd_table'[d].slot \in DOMAIN tcp'.sock /\ tcp'.sock[fd_table'[d].slot].in_use
               /\ fd_table'[d].role = "server" => tcp'.sock[fd_table'[d].slot].peer = NoClient,
           d \in Fd /\ Held(d)' /\ tcp'.moves = tcp.moves =>
               \A h \in Fd : h # d /\ Held(h) => fd_table[h].slot # fd_table'[d].slot
    PROVE  FdsOK'
<1>1. tcp.moves \in Nat /\ tcp'.moves \in Nat /\ (tcp'.moves = tcp.moves \/ tcp'.moves = tcp.moves + 1)
  BY DEF TableOK, Becomes, AllOK, Table
<1>2. \A f \in Fd : fd_table[f].moves \in Nat /\ fd_table[f].moves <= tcp.moves
  BY DEF FdsOK
<1>3. \A f \in Fd : fd_table'[f].moves <= tcp'.moves
  <2> TAKE f \in Fd
  <2>1. CASE f = d
    BY <2>1
  <2>2. CASE f # d
    <3>1. fd_table'[f].moves = fd_table[f].moves
      BY <2>2
    <3> QED BY <1>1, <1>2, <3>1
  <2> QED BY <2>1, <2>2
<1>4. \A f \in Fd : f # d /\ Held(f)' => Held(f) /\ tcp'.moves = tcp.moves /\ fd_table'[f] = fd_table[f]
  <2> SUFFICES ASSUME NEW f \in Fd, f # d, Held(f)'
               PROVE  Held(f) /\ tcp'.moves = tcp.moves /\ fd_table'[f] = fd_table[f]
    OBVIOUS
  <2>1. fd_table'[f] = fd_table[f]
    OBVIOUS
  <2>2. fd_table[f].moves = tcp'.moves /\ fd_table[f].role # "none" /\ fd_table[f].slot # 0
    BY <2>1 DEF Held, Current
  <2>3. tcp'.moves = tcp.moves
    BY <1>1, <1>2, <2>2
  <2> QED BY <2>1, <2>2, <2>3 DEF Held, Current
<1>5. ASSUME NEW f \in Fd, Held(f)'
      PROVE  /\ fd_table'[f].slot \in DOMAIN tcp'.sock /\ tcp'.sock[fd_table'[f].slot].in_use
             /\ fd_table'[f].role = "server" => tcp'.sock[fd_table'[f].slot].peer = NoClient
  <2>1. CASE f = d
    BY <1>5, <2>1, Zenon
  <2>2. CASE f # d
    <3>1. Held(f) /\ tcp'.moves = tcp.moves /\ fd_table'[f] = fd_table[f]
      BY <1>4, <1>5, <2>2
    <3>2. /\ fd_table[f].slot \in DOMAIN tcp.sock /\ tcp.sock[fd_table[f].slot].in_use
          /\ fd_table[f].role = "server" => tcp.sock[fd_table[f].slot].peer = NoClient
      BY <3>1, Zenon DEF FdsOK, SocketOf
    <3>3. fd_table[f].slot \in DOMAIN tcp'.sock
      BY <3>2, Zenon DEF Becomes
    <3>4. CASE fd_table[f].slot = i
      BY <2>2, <3>1, <3>3, <3>4, Zenon
    <3>5. CASE fd_table[f].slot # i
      <4>1. tcp'.sock[fd_table[f].slot] = tcp.sock[fd_table[f].slot]
        BY <3>2, <3>5, Zenon DEF Becomes
      <4> QED BY <3>1, <3>2, <3>3, <4>1, Zenon
    <3> QED BY <3>4, <3>5
  <2> QED BY <2>1, <2>2
<1>6. ASSUME NEW f \in Fd, NEW h \in Fd, Held(f)', Held(h)', fd_table'[f].slot = fd_table'[h].slot
      PROVE  f = h
  <2>1. CASE f # d /\ h # d
    BY <1>4, <1>6, <2>1, ZenonT(30) DEF FdsOK
  <2>2. CASE f = d /\ h # d
    BY <1>4, <1>6, <2>2, Zenon
  <2>3. CASE f # d /\ h = d
    BY <1>4, <1>6, <2>3, Zenon
  <2> QED BY <2>1, <2>2, <2>3, Zenon
<1>7. fd_table' \in [Fd -> [role : {"none", "server", "client"}, moves : Nat, slot : Nat]]
  BY DEF FdRecord
<1> QED BY <1>3, <1>5, <1>6, <1>7, Zenon DEF FdsOK, SocketOf

(* Nobody waits.                                                           *)
LEMMA AwakeOK ==
    ASSUME waiter' = Awake, tcp'.moves \in Nat
    PROVE  WaiterOK' /\ AcceptorWoken'
BY DEF Awake, WaiterOK, AcceptorWoken

(* What a system call may assume of the descriptor it is given.            *)
LEMMA CallsIs ==
    ASSUME SocketsIInv, NEW f \in Fd, NEW role, role # "none", Calls(f, role)
    PROVE  /\ waiter = Awake /\ Held(f) /\ fd_table[f].role = role
           /\ fd_table[f].slot \in DOMAIN tcp.sock /\ SocketOK(SocketOf(f)) /\ SocketOf(f).in_use
           /\ role = "server" => SocketOf(f).peer = NoClient
<1>1. waiter = Awake /\ Held(f) /\ fd_table[f].role = role
  BY DEF Calls, Held
<1>2. /\ fd_table[f].slot \in DOMAIN tcp.sock /\ SocketOf(f).in_use
      /\ fd_table[f].role = "server" => SocketOf(f).peer = NoClient
  BY <1>1, Zenon DEF SocketsIInv, FdsOK
<1>3. SocketOK(SocketOf(f))
  BY <1>2, Zenon DEF SocketsIInv, TableOK, AllOK, SocketOf
<1> QED BY <1>1, <1>2, <1>3, Zenon

(* No descriptor changes.                                                  *)
LEMMA SameFds ==
    ASSUME TableOK, FdsOK, NEW i, Becomes(tcp', tcp, i), fd_table' = fd_table,
           \A f \in Fd : Held(f) /\ fd_table[f].slot = i /\ tcp'.moves = tcp.moves =>
               /\ tcp'.sock[i].in_use
               /\ fd_table[f].role = "server" => tcp'.sock[i].peer = NoClient
    PROVE  FdsOK'
<1> DEFINE d == -1
<1>1. d \notin Fd
  BY SocketsAssumption
<1>2. fd_table' \in [Fd -> FdRecord]
  BY DEF FdsOK, FdRecord
<1> HIDE DEF d
<1> QED BY <1>1, <1>2, FdsKept, ZenonT(30)

(* A call on the socket of descriptor f that leaves it to the program.     *)
LEMMA SocketCall ==
    ASSUME SocketsIInv, NEW f \in Fd, Held(f), waiter = Awake,
           UNCHANGED <<resolved, fd_table, waiter, policy>>, NEW i, i = fd_table[f].slot,
           Becomes(tcp', tcp, i), tcp'.sock[i].in_use,
           fd_table[f].role = "server" => tcp'.sock[i].peer = NoClient,
           tcp'.sock[i].peer = NoClient
             \/ (tcp'.sock[i].peer = tcp.sock[i].peer /\ tcp'.sock[i].local_port = tcp.sock[i].local_port)
    PROVE  SocketsIInv'
<1>0. /\ TableOK /\ FdsOK /\ ConnectionUnique /\ policy = "serial"
      /\ fd_table' = fd_table /\ resolved' = resolved /\ waiter' = waiter /\ policy' = policy
      /\ i \in DOMAIN tcp.sock /\ tcp.sock[i].in_use
  BY Zenon DEF SocketsIInv, TableOK, FdsOK, SocketOf
<1>1. TableOK'
  <2>1. ASSUME tcp'.sock[i].peer # NoClient, NEW j \in DOMAIN tcp.sock, j # i, tcp.sock[j].in_use,
               tcp.sock[j].peer = tcp'.sock[i].peer
        PROVE  tcp.sock[j].local_port # tcp'.sock[i].local_port
    <3>1. tcp'.sock[i].peer = tcp.sock[i].peer /\ tcp'.sock[i].local_port = tcp.sock[i].local_port
      BY <2>1, SMTT(30)
    <3> QED BY <1>0, <2>1, <3>1, SMTT(30) DEF ConnectionUnique
  <2> QED BY <1>0, <2>1, UniqueKept, ZenonT(30)
<1>2. FdsOK'
  <2>1. \A h \in Fd : Held(h) /\ fd_table[h].slot = i => h = f
    BY <1>0, Zenon DEF FdsOK
  <2>2. \A h \in Fd : Held(h) /\ fd_table[h].slot = i /\ tcp'.moves = tcp.moves =>
            /\ tcp'.sock[i].in_use
            /\ fd_table[h].role = "server" => tcp'.sock[i].peer = NoClient
    BY <2>1, Zenon
  <2>3. TableOK /\ FdsOK /\ fd_table' = fd_table
    BY <1>0
  <2> QED BY <2>2, <2>3, SameFds
<1>3. WaiterOK' /\ AcceptorWoken'
  <2>1. tcp'.moves \in Nat
    BY DEF Becomes, AllOK, Table
  <2> QED BY <1>0, <2>1, AwakeOK
<1> QED BY <1>0, <1>1, <1>2, <1>3, SMTT(30) DEF SocketsIInv

(* sys_bind.                                                               *)
LEMMA BindStep ==
    ASSUME SocketsIInv, NEW f \in Fd, NEW port \in Port, sys_bind(f, port)
    PROVE  SocketsIInv'
<1> DEFINE i == fd_table[f].slot
           s == [tcp.sock[i] EXCEPT !.local_port = port]
<1>0. Calls(f, "server")
  BY DEF sys_bind
<1>1. /\ waiter = Awake /\ Held(f) /\ fd_table[f].role = "server"
      /\ i \in DOMAIN tcp.sock /\ SocketOK(tcp.sock[i]) /\ tcp.sock[i].in_use /\ tcp.sock[i].peer = NoClient
  BY <1>0, CallsIs DEF SocketOf
<1>2. port \in Nat /\ AllOK(tcp)
  BY TcpAssumption DEF SocketsIInv, TableOK
<1>3. SocketOK(s) /\ s.in_use /\ s.peer = NoClient
  <2> DEFINE x == tcp.sock[i]
  <2> HIDE DEF x
  <2>1. SocketOK(x) /\ x.in_use /\ x.peer = NoClient
    BY <1>1, Zenon DEF x
  <2>2. LET r == [x EXCEPT !.local_port = port] IN SocketOK(r) /\ r.in_use /\ r.peer = NoClient
    BY <1>2, <2>1, ServerIs, Zenon
  <2> QED BY <2>2 DEF x
<1>4. tcp' = [tcp EXCEPT !.sock[i] = s]
  BY DEF sys_bind
<1>5. UNCHANGED <<resolved, fd_table, waiter, policy>>
  BY DEF sys_bind
<1> HIDE DEF s, i
<1>6. Becomes(tcp', tcp, i) /\ tcp'.sock[i] = s
  BY <1>1, <1>2, <1>3, <1>4, WriteIs
<1>7. tcp'.sock[i].in_use /\ tcp'.sock[i].peer = NoClient
  BY <1>3, <1>6, Zenon
<1> QED BY <1>1, <1>5, <1>6, <1>7, SocketCall, Zenon DEF i

(* sys_listen.                                                             *)
LEMMA ListenStep ==
    ASSUME SocketsIInv, NEW f \in Fd, sys_listen(f)
    PROVE  SocketsIInv'
<1> DEFINE i == fd_table[f].slot
           s == [tcp.sock[i] EXCEPT !.state = "LISTEN"]
<1>0. Calls(f, "server")
  BY DEF sys_listen
<1>1. /\ waiter = Awake /\ Held(f) /\ fd_table[f].role = "server"
      /\ i \in DOMAIN tcp.sock /\ SocketOK(tcp.sock[i]) /\ tcp.sock[i].in_use /\ tcp.sock[i].peer = NoClient
  BY <1>0, CallsIs DEF SocketOf
<1>2. AllOK(tcp) /\ 0 \in Nat
  BY DEF SocketsIInv, TableOK
<1>3. SocketOK(s) /\ s.in_use /\ s.peer = NoClient
  <2> DEFINE x == tcp.sock[i]
  <2> HIDE DEF x
  <2>1. SocketOK(x) /\ x.in_use /\ x.peer = NoClient
    BY <1>1, Zenon DEF x
  <2>2. LET r == [x EXCEPT !.state = "LISTEN"] IN SocketOK(r) /\ r.in_use /\ r.peer = NoClient
    BY <1>2, <2>1, ServerIs, Zenon
  <2> QED BY <2>2 DEF x
<1>4. tcp' = [tcp EXCEPT !.sock[i] = s]
  BY DEF sys_listen
<1>5. UNCHANGED <<resolved, fd_table, waiter, policy>>
  BY DEF sys_listen
<1> HIDE DEF s, i
<1>6. Becomes(tcp', tcp, i) /\ tcp'.sock[i] = s
  BY <1>1, <1>2, <1>3, <1>4, WriteIs
<1>7. tcp'.sock[i].in_use /\ tcp'.sock[i].peer = NoClient
  BY <1>3, <1>6, Zenon
<1> QED BY <1>1, <1>5, <1>6, <1>7, SocketCall, Zenon DEF i

(* A call on an open connection.                                           *)
LEMMA ConnectionCall ==
    ASSUME SocketsIInv, NEW f \in Fd, Calls(f, "client"), NEW s, SameConnection(s, SocketOf(f)),
           tcp' = [tcp EXCEPT !.sock[fd_table[f].slot] = s],
           UNCHANGED <<resolved, fd_table, waiter, policy>>
    PROVE  SocketsIInv'
<1> DEFINE i == fd_table[f].slot
<1>1. /\ waiter = Awake /\ Held(f) /\ fd_table[f].role = "client"
      /\ i \in DOMAIN tcp.sock /\ SocketOK(tcp.sock[i]) /\ tcp.sock[i].in_use
  BY CallsIs DEF SocketOf
<1>2. AllOK(tcp)
  BY DEF SocketsIInv, TableOK
<1>3. SocketOK(s) /\ s.in_use /\ s.peer = tcp.sock[i].peer /\ s.local_port = tcp.sock[i].local_port
  BY <1>1, Zenon DEF SameConnection, SocketOf
<1>4. tcp' = [tcp EXCEPT !.sock[i] = s]
  OBVIOUS
<1>5. i \in DOMAIN tcp.sock /\ SocketOK(s)
  BY <1>1, <1>3
<1> HIDE DEF i
<1>6. Becomes(tcp', tcp, i) /\ tcp'.sock[i] = s
  <2> DEFINE u == [tcp EXCEPT !.sock[i] = s]
  <2>1. Becomes(u, tcp, i) /\ u.sock[i] = s
    BY <1>2, <1>5, WriteIs
  <2> HIDE DEF u
  <2> QED BY <1>4, <2>1, Zenon DEF u
<1>7. /\ tcp'.sock[i].in_use /\ tcp'.sock[i].peer = tcp.sock[i].peer
      /\ tcp'.sock[i].local_port = tcp.sock[i].local_port
  BY <1>3, <1>6, Zenon
<1>8. fd_table[f].role # "server"
  BY <1>1
<1> QED BY <1>1, <1>6, <1>7, <1>8, SocketCall, Zenon DEF i

(* sys_send.                                                               *)
LEMMA SendStep ==
    ASSUME SocketsIInv, NEW f \in Fd, sys_send(f)
    PROVE  SocketsIInv'
<1> DEFINE s == tcp_send_packet(SocketOf(f), {"ACK"}, 1)
<1>1. Calls(f, "client") /\ SocketOf(f).state = "ESTABLISHED" /\ UNCHANGED <<resolved, fd_table, waiter, policy>>
  BY DEF sys_send
<1>2. tcp' = [tcp EXCEPT !.sock[fd_table[f].slot] = s]
  BY DEF sys_send, SocketOf
<1>3. SocketOK(SocketOf(f)) /\ SocketOf(f).in_use /\ 1 \in Nat
  BY <1>1, CallsIs
<1>4. SameConnection(s, SocketOf(f))
  BY <1>1, <1>3, SendIsSame, Zenon
<1> HIDE DEF s
<1> QED BY <1>1, <1>2, <1>4, ConnectionCall, Zenon

(* sys_recv, which takes bytes, waits for them or ends.                    *)
LEMMA RecvStep ==
    ASSUME SocketsIInv, NEW f \in Fd, NEW len \in 1..BufSize, sys_recv(f, len)
    PROVE  SocketsIInv'
<1> DEFINE s == tcp_recv(SocketOf(f), len)
<1>1. Calls(f, "client") /\ SocketOf(f).state = "ESTABLISHED" /\ UNCHANGED <<resolved, fd_table, policy>>
  BY DEF sys_recv
<1>2. SocketOK(SocketOf(f)) /\ SocketOf(f).in_use /\ len \in Nat /\ waiter = Awake
  BY <1>1, CallsIs
<1>3. CASE SocketOf(f).n > 0
  <2>1. tcp' = [tcp EXCEPT !.sock[fd_table[f].slot] = s] /\ waiter' = waiter
    BY <1>3 DEF sys_recv, SocketOf
  <2>2. SameConnection(s, SocketOf(f))
    BY <1>1, <1>2, RecvIs, Zenon
  <2> HIDE DEF s
  <2> QED BY <1>1, <2>1, <2>2, ConnectionCall, Zenon
<1>4. CASE ~(SocketOf(f).n > 0)
  <2>1. waiter' = Asleep("recv", f) /\ tcp' = tcp
    BY <1>4 DEF sys_recv
  <2>2. fd_table[f] \in FdRecord /\ fd_table[f].moves <= tcp.moves
    BY SMTT(30) DEF SocketsIInv, FdsOK, FdRecord
  <2>3. TableOK' /\ FdsOK'
    BY <1>1, <2>1 DEF SocketsIInv, TableOK, AllOK, SocketOK, OneSynAck, ConnectionUnique, FdsOK, Held, Current, SocketOf
  <2>4. waiter' \in [queue : {"none", "accept", "recv"}, moves : Nat, slot : Nat, ready : BOOLEAN]
        /\ waiter'.queue = "recv" /\ waiter'.moves <= tcp'.moves
    BY <2>1, <2>2 DEF Asleep, FdRecord
  <2>5. WaiterOK' /\ AcceptorWoken'
    BY <2>4, SMTT(30) DEF WaiterOK, AcceptorWoken
  <2> QED BY <1>1, <2>3, <2>5 DEF SocketsIInv
<1> QED BY <1>3, <1>4

(* Nothing of the table and the descriptors changes.                       *)
LEMMA SameTable ==
    ASSUME SocketsIInv, UNCHANGED <<tcp, resolved, fd_table>>
    PROVE  TableOK' /\ FdsOK'
BY DEF SocketsIInv, TableOK, AllOK, SocketOK, OneSynAck, ConnectionUnique, FdsOK, Held, Current, SocketOf

(* A slot that no program has is freed, or is free.                        *)
LEMMA FreedTable ==
    ASSUME SocketsIInv, NEW i, Becomes(tcp', tcp, i), resolved' = resolved,
           i \in DOMAIN tcp'.sock => ~tcp'.sock[i].in_use
    PROVE  TableOK'
BY UniqueKept, Zenon DEF SocketsIInv

(* sys_close of a server or of a connection, current or stale.             *)
LEMMA CloseStep ==
    ASSUME SocketsIInv, NEW f \in Fd, sys_close(f)
    PROVE  SocketsIInv'
<1> DEFINE i == fd_table[f].slot
<1>0. PICK role \in {"server", "client"} : Calls(f, role)
  BY DEF sys_close
<1>1. /\ waiter = Awake /\ Held(f) /\ i \in DOMAIN tcp.sock
  BY <1>0, CallsIs
<1>2. /\ AllOK(tcp) /\ TableOK /\ FdsOK /\ policy = "serial"
      /\ UNCHANGED <<resolved, waiter, policy>>
  BY DEF SocketsIInv, TableOK, sys_close
<1>3. \/ tcp' = tcp_close_and_relisten(tcp, i) /\ fd_table' = fd_table
      \/ tcp' = tcp_close(tcp, i) /\ fd_table' = [fd_table EXCEPT ![f] = NoFd]
  BY DEF sys_close
<1>4. CASE tcp' = tcp_close_and_relisten(tcp, i) /\ fd_table' = fd_table
  <2>1. Becomes(tcp', tcp, i) /\ tcp'.sock[i].in_use /\ tcp'.sock[i].peer = NoClient
    BY <1>1, <1>2, <1>4, CloseAndRelistenIs
  <2>2. UNCHANGED <<resolved, fd_table, waiter, policy>>
    BY <1>2, <1>4
  <2> QED BY <1>1, <2>1, <2>2, SocketCall, ZenonT(30)
<1>5. CASE tcp' = tcp_close(tcp, i) /\ fd_table' = [fd_table EXCEPT ![f] = NoFd]
  <2>1. Becomes(tcp', tcp, i) /\ ~tcp'.sock[i].in_use
    BY <1>1, <1>2, <1>5, CloseIs
  <2>2. TableOK'
    BY <1>2, <2>1, FreedTable, Zenon
  <2>3. fd_table' \in [Fd -> FdRecord] /\ (\A h \in Fd : h # f => fd_table'[h] = fd_table[h])
        /\ fd_table'[f] = NoFd
    BY <1>2, <1>5 DEF FdsOK, FdRecord, NoFd
  <2>4. tcp'.moves \in Nat
    BY <2>1 DEF Becomes, AllOK, Table
  <2>5. ~Held(f)' /\ fd_table'[f].moves <= tcp'.moves
    BY <2>3, <2>4 DEF Held, NoFd
  <2>6. \A h \in Fd : h # f /\ Held(h) => fd_table[h].slot # i
    BY <1>1, <1>2, ZenonT(30) DEF FdsOK
  <2>7. FdsOK'
    <3> HIDE DEF i
    <3>1. \A h \in Fd : h # f /\ Held(h) /\ fd_table[h].slot = i /\ tcp'.moves = tcp.moves =>
              /\ tcp'.sock[i].in_use
              /\ fd_table[h].role = "server" => tcp'.sock[i].peer = NoClient
      BY <2>6, Zenon
    <3>2. f \in Fd /\ Held(f)' =>
              /\ fd_table'[f].slot \in DOMAIN tcp'.sock /\ tcp'.sock[fd_table'[f].slot].in_use
              /\ fd_table'[f].role = "server" => tcp'.sock[fd_table'[f].slot].peer = NoClient
      BY <2>5, Zenon
    <3>3. f \in Fd /\ Held(f)' /\ tcp'.moves = tcp.moves =>
              \A h \in Fd : h # f /\ Held(h) => fd_table[h].slot # fd_table'[f].slot
      BY <2>5, Zenon
    <3> QED BY <1>2, <2>1, <2>3, <2>5, <3>1, <3>2, <3>3, FdsKept
  <2>8. WaiterOK' /\ AcceptorWoken'
    BY <1>1, <1>2, <2>4, AwakeOK
  <2> QED BY <1>2, <2>2, <2>7, <2>8, SMTT(30) DEF SocketsIInv
<1> QED BY <1>3, <1>4, <1>5

(* tcp_find_ready_client returns an open connection, or 0.                 *)
LEMMA ReadyIs ==
    ASSUME NEW t, AllOK(t), NEW port
    PROVE  LET i == tcp_find_ready_client(t, port) IN
           i # 0 => i \in DOMAIN t.sock /\ t.sock[i].in_use /\ t.sock[i].state = "ESTABLISHED"
<1> DEFINE S == {j \in InUseAt(t, port) : t.sock[j].state = "ESTABLISHED"}
           i == tcp_find_ready_client(t, port)
<1>1. DOMAIN t.sock \subseteq Nat \ {0}
  BY DEF AllOK, Table
<1>2. S \subseteq Nat \ {0}
  BY <1>1 DEF InUseAt
<1>3. i = First(S)
  BY DEF tcp_find_ready_client
<1>4. \A j \in S : j \in DOMAIN t.sock /\ t.sock[j].in_use /\ t.sock[j].state = "ESTABLISHED"
  BY DEF InUseAt
<1> HIDE DEF S, i
<1>5. (i = 0 <=> S = {}) /\ (S # {} => i \in S)
  BY <1>2, <1>3, FirstIs, Zenon
<1> QED BY <1>4, <1>5, Zenon DEF i

(* The least free descriptor.                                              *)
LEMMA FdAlloc ==
    ASSUME FreeFds # {}
    PROVE  fd_alloc \in Fd /\ fd_table[fd_alloc].role = "none"
<1>1. FreeFds \subseteq Nat
  BY SocketsAssumption, Zenon DEF FreeFds
<1>2. PICK m \in FreeFds : \A x \in FreeFds : m <= x
  BY <1>1, LeastElement
<1>3. Min(FreeFds) \in FreeFds
  BY <1>2 DEF Min
<1> QED BY <1>3 DEF fd_alloc, FreeFds

(* sys_accept gives the connection it found a descriptor. It was nobody's: *)
(* a serial program has none open when it accepts.                         *)
LEMMA AcceptedStep ==
    ASSUME SocketsIInv, OpenConnections = {}, NEW port, NEW i, i = tcp_find_ready_client(tcp, port),
           i # 0, Accepted(i), waiter' = Awake, UNCHANGED <<resolved, policy>>
    PROVE  SocketsIInv'
<1>1. /\ AllOK(tcp) /\ TableOK /\ FdsOK /\ policy = "serial" /\ policy' = policy /\ resolved' = resolved
  BY DEF SocketsIInv, TableOK
<1>2. i \in DOMAIN tcp.sock /\ tcp.sock[i].in_use /\ tcp.sock[i].state = "ESTABLISHED" /\ i \in Nat
  <2>1. i \in DOMAIN tcp.sock /\ tcp.sock[i].in_use /\ tcp.sock[i].state = "ESTABLISHED"
    BY <1>1, ReadyIs, Zenon
  <2>2. i \in Nat
    BY <1>1, <2>1 DEF AllOK, Table
  <2> QED BY <2>1, <2>2, Zenon
<1>3. tcp.sock[i].peer # NoClient
  BY <1>1, <1>2 DEF AllOK, SocketOK
<1>4. \A h \in Fd : Held(h) => fd_table[h].slot # i
  <2> SUFFICES ASSUME NEW h \in Fd, Held(h), fd_table[h].slot = i
               PROVE  FALSE
    OBVIOUS
  <2>1. fd_table[h].role = "server" => tcp.sock[i].peer = NoClient
    BY <1>1, Zenon DEF FdsOK, SocketOf
  <2>2. fd_table[h].role \in {"none", "server", "client"}
    BY <1>1 DEF FdsOK
  <2>3. fd_table[h].role # "client"
    BY DEF OpenConnections
  <2> QED BY <1>3, <2>1, <2>2, <2>3 DEF Held
<1>5. CASE FreeFds = {}
  <2>1. tcp' = tcp_close(tcp, i) /\ fd_table' = fd_table
    BY <1>5 DEF Accepted
  <2>2. Becomes(tcp', tcp, i) /\ ~tcp'.sock[i].in_use /\ tcp'.moves \in Nat
    <3>1. Becomes(tcp', tcp, i) /\ ~tcp'.sock[i].in_use
      BY <1>1, <1>2, <2>1, CloseIs
    <3> QED BY <3>1 DEF Becomes, AllOK, Table
  <2>3. TableOK'
    BY <1>1, <2>2, FreedTable, Zenon
  <2>4. FdsOK'
    BY <1>1, <1>4, <2>1, <2>2, SameFds, Zenon
  <2> QED BY <1>1, <2>2, <2>3, <2>4, AwakeOK DEF SocketsIInv
<1>6. CASE FreeFds # {}
  <2>2. PICK d \in Fd : d = fd_alloc
    BY <1>6, FdAlloc
  <2> DEFINE p == [role |-> "client", moves |-> tcp.moves, slot |-> i]
  <2>1. tcp' = tcp /\ fd_table' = [fd_table EXCEPT ![d] = p]
    BY <1>6, <2>2 DEF Accepted, Pointer
  <2>3. tcp.moves \in Nat /\ tcp'.moves \in Nat /\ p \in FdRecord
    BY <1>1, <1>2, <2>1 DEF AllOK, Table, FdRecord
  <2>4. /\ fd_table' \in [Fd -> FdRecord] /\ (\A h \in Fd : h # d => fd_table'[h] = fd_table[h])
        /\ fd_table'[d] = p
    <3> HIDE DEF p
    <3> QED BY <1>1, <2>1, <2>2, <2>3 DEF FdsOK, FdRecord
  <2>5. fd_table'[d].slot = i /\ fd_table'[d].moves <= tcp'.moves /\ fd_table'[d].role # "server"
    BY <2>1, <2>3, <2>4
  <2> HIDE DEF p
  <2>6. Becomes(tcp', tcp, 0)
    BY <1>1, <2>1, ZenonT(30) DEF Becomes
  <2>7. TableOK'
    BY <1>1, <2>1 DEF TableOK, AllOK, SocketOK, OneSynAck, ConnectionUnique
  <2>8. \A h \in Fd : Held(h) => fd_table[h].slot # 0
    BY DEF Held, Current
  <2>9. FdsOK'
    <3>1. tcp'.sock[i].in_use /\ i \in DOMAIN tcp'.sock
      BY <1>2, <2>1, Zenon
    <3>2. d \in Fd /\ Held(d)' =>
               /\ fd_table'[d].slot \in DOMAIN tcp'.sock /\ tcp'.sock[fd_table'[d].slot].in_use
               /\ fd_table'[d].role = "server" => tcp'.sock[fd_table'[d].slot].peer = NoClient
      BY <2>5, <3>1, Zenon
    <3>3. \A h \in Fd : h # d /\ Held(h) => fd_table[h].slot # fd_table'[d].slot
      BY <1>4, <2>5, Zenon
    <3>4. \A h \in Fd : h # d /\ Held(h) /\ fd_table[h].slot = 0 /\ tcp'.moves = tcp.moves =>
              /\ tcp'.sock[0].in_use
              /\ fd_table[h].role = "server" => tcp'.sock[0].peer = NoClient
      BY <2>8, Zenon
    <3>5. d \in Fd /\ Held(d)' /\ tcp'.moves = tcp.moves =>
              \A h \in Fd : h # d /\ Held(h) => fd_table[h].slot # fd_table'[d].slot
      BY <3>3, Zenon
    <3>6. /\ TableOK /\ FdsOK /\ fd_table' \in [Fd -> FdRecord] /\ fd_table'[d].moves <= tcp'.moves
          /\ \A h \in Fd : h # d => fd_table'[h] = fd_table[h]
      BY <1>1, <2>4, <2>5
    <3> QED BY <2>6, <3>2, <3>4, <3>5, <3>6, FdsKept
  <2> QED BY <1>1, <2>3, <2>7, <2>9, AwakeOK, SMTT(30) DEF SocketsIInv
<1> QED BY <1>5, <1>6

(* Two writes of one slot.                                                 *)
LEMMA BecomesAgain ==
    ASSUME NEW t, NEW u, NEW w, NEW i, Becomes(u, t, i), Becomes(w, u, i), w.moves = u.moves
    PROVE  Becomes(w, t, i)
<1>0. u.moves \in Nat
  BY DEF Becomes, AllOK, Table
<1>1. DOMAIN w.sock = DOMAIN u.sock
  BY <1>0 DEF Becomes
<1>2. AllOK(w) /\ DOMAIN t.sock \subseteq DOMAIN w.sock
  BY <1>1, Zenon DEF Becomes
<1>3. \A j \in DOMAIN t.sock : j # i => w.sock[j] = t.sock[j]
  BY Zenon DEF Becomes
<1>4. \A j \in DOMAIN w.sock : j # i /\ j \notin DOMAIN t.sock => ~w.sock[j].in_use
  BY <1>1, Zenon DEF Becomes
<1>5. (w.moves = t.moves /\ DOMAIN w.sock = DOMAIN t.sock) \/ w.moves = t.moves + 1
  BY <1>1, Zenon DEF Becomes
<1> QED BY <1>2, <1>3, <1>4, <1>5, Zenon DEF Becomes

(* sys_socket, with a descriptor left or without.                          *)
LEMMA SocketStep ==
    ASSUME SocketsIInv, NEW memory, sys_socket(memory)
    PROVE  SocketsIInv'
<1> DEFINE a == tcp_socket_create(tcp, memory)
<1>1. /\ AllOK(tcp) /\ TableOK /\ FdsOK /\ policy = "serial"
      /\ waiter = Awake /\ resolved' = resolved /\ waiter' = waiter /\ policy' = policy
  BY DEF SocketsIInv, TableOK, sys_socket
<1>2. /\ Becomes(a.table, tcp, a.slot) /\ a.slot \in Nat
      /\ a.slot # 0 => Taken(a.table, tcp, a.slot) /\ a.table.sock[a.slot].peer = NoClient
  BY <1>1, CreateIs
<1>3. \/ /\ a.slot = 0 \/ FreeFds = {}
         /\ tcp' = IF a.slot = 0 THEN a.table ELSE tcp_close(a.table, a.slot)
         /\ fd_table' = fd_table
      \/ /\ a.slot # 0 /\ FreeFds # {} /\ tcp' = a.table
         /\ fd_table' = [fd_table EXCEPT ![fd_alloc] = Pointer("server", a.slot)]
  BY DEF sys_socket
<1>4. PICK i : i = a.slot
  OBVIOUS
<1>5. PICK u : u = a.table
  OBVIOUS
<1> HIDE DEF a
<1>6. Becomes(u, tcp, i) /\ i \in Nat /\ (i # 0 => Taken(u, tcp, i) /\ u.sock[i].peer = NoClient)
  BY <1>2, <1>4, <1>5
<1>7. \A h \in Fd : Held(h) => fd_table[h].slot # i
  <2> SUFFICES ASSUME NEW h \in Fd, Held(h), fd_table[h].slot = i
               PROVE  FALSE
    OBVIOUS
  <2>1. i \in DOMAIN tcp.sock /\ tcp.sock[i].in_use
    BY <1>1, Zenon DEF FdsOK, SocketOf
  <2>2. i # 0
    BY DEF Held, Current
  <2> QED BY <1>6, <2>1, <2>2, Zenon DEF Taken
<1>8. CASE /\ tcp' = (IF i = 0 THEN u ELSE tcp_close(u, i)) /\ fd_table' = fd_table
  <2>1. Becomes(tcp', tcp, i) /\ (i \in DOMAIN tcp'.sock => ~tcp'.sock[i].in_use)
    <3>1. CASE i = 0
      <4>1. i \notin DOMAIN u.sock
        BY <1>6, <3>1 DEF Becomes, AllOK, Table
      <4> QED BY <1>6, <1>8, <3>1, <4>1
    <3>2. CASE i # 0
      <4>1. AllOK(u) /\ i \in DOMAIN u.sock /\ tcp' = tcp_close(u, i)
        BY <1>6, <1>8, <3>2 DEF Becomes, Taken
      <4>2. Becomes(tcp', u, i) /\ ~tcp'.sock[i].in_use /\ tcp'.moves = u.moves
        BY <4>1, CloseIs
      <4> QED BY <1>6, <4>2, BecomesAgain
    <3> QED BY <3>1, <3>2
  <2>2. TableOK'
    BY <1>1, <2>1, FreedTable, Zenon
  <2>3. \A h \in Fd : Held(h) /\ fd_table[h].slot = i /\ tcp'.moves = tcp.moves =>
            /\ tcp'.sock[i].in_use
            /\ fd_table[h].role = "server" => tcp'.sock[i].peer = NoClient
    BY <1>7, Zenon
  <2>4. FdsOK'
    BY <1>1, <1>8, <2>1, <2>3, SameFds, SMTT(30)
  <2>5. tcp'.moves \in Nat
    BY <2>1 DEF Becomes, AllOK, Table
  <2> QED BY <1>1, <2>2, <2>4, <2>5, AwakeOK DEF SocketsIInv
<1>9. CASE /\ i # 0 /\ FreeFds # {} /\ tcp' = u
           /\ fd_table' = [fd_table EXCEPT ![fd_alloc] = Pointer("server", i)]
  <2>1. PICK d \in Fd : d = fd_alloc
    BY <1>9, FdAlloc
  <2> DEFINE p == [role |-> "server", moves |-> tcp'.moves, slot |-> i]
  <2>2. fd_table' = [fd_table EXCEPT ![d] = p]
    BY <1>9, <2>1 DEF Pointer
  <2>3. Becomes(tcp', tcp, i) /\ Taken(tcp', tcp, i) /\ tcp'.sock[i].peer = NoClient
    BY <1>6, <1>9
  <2>4. tcp'.moves \in Nat /\ p \in FdRecord
    <3>1. tcp'.moves \in Nat
      BY <2>3 DEF Becomes, AllOK, Table
    <3> QED BY <1>6, <3>1 DEF FdRecord
  <2>5. fd_table' \in [Fd -> FdRecord] /\ (\A h \in Fd : h # d => fd_table'[h] = fd_table[h])
        /\ fd_table'[d] = p
    <3> HIDE DEF p
    <3> QED BY <1>1, <2>2, <2>4 DEF FdsOK, FdRecord
  <2>6. fd_table'[d].slot = i /\ fd_table'[d].moves <= tcp'.moves
    BY <2>4, <2>5
  <2> HIDE DEF p
  <2>7. TableOK'
    BY <1>1, <2>3, UniqueKept, ZenonT(30)
  <2>8. FdsOK'
    <3>1. tcp'.sock[i].in_use /\ i \in DOMAIN tcp'.sock
      BY <2>3 DEF Taken
    <3>2. d \in Fd /\ Held(d)' =>
               /\ fd_table'[d].slot \in DOMAIN tcp'.sock /\ tcp'.sock[fd_table'[d].slot].in_use
               /\ fd_table'[d].role = "server" => tcp'.sock[fd_table'[d].slot].peer = NoClient
      BY <2>3, <2>6, <3>1, Zenon
    <3>3. d \in Fd /\ Held(d)' /\ tcp'.moves = tcp.moves =>
              \A h \in Fd : h # d /\ Held(h) => fd_table[h].slot # fd_table'[d].slot
      BY <1>7, <2>6, Zenon
    <3>4. \A h \in Fd : h # d /\ Held(h) /\ fd_table[h].slot = i /\ tcp'.moves = tcp.moves =>
              /\ tcp'.sock[i].in_use
              /\ fd_table[h].role = "server" => tcp'.sock[i].peer = NoClient
      BY <1>7, Zenon
    <3>5. /\ TableOK /\ FdsOK /\ fd_table' \in [Fd -> FdRecord] /\ fd_table'[d].moves <= tcp'.moves
          /\ \A h \in Fd : h # d => fd_table'[h] = fd_table[h]
      BY <1>1, <2>5, <2>6
    <3>6. Becomes(tcp', tcp, i)
      BY <2>3
    <3> QED BY <3>2, <3>3, <3>4, <3>5, <3>6, FdsKept, SMTT(30)
  <2> QED BY <1>1, <2>4, <2>7, <2>8, AwakeOK DEF SocketsIInv
<1> QED BY <1>3, <1>4, <1>5, <1>8, <1>9

(* sys_accept takes a ready connection, or waits.                          *)
LEMMA AcceptStep ==
    ASSUME SocketsIInv, NEW f \in Fd, sys_accept(f)
    PROVE  SocketsIInv'
<1> DEFINE port == SocketOf(f).local_port
           ready == tcp_find_ready_client(tcp, port)
<1>1. /\ Calls(f, "server") /\ SocketOf(f).state = "LISTEN"
      /\ OpenConnections = {} /\ UNCHANGED <<resolved, policy>> /\ policy = "serial"
  BY DEF sys_accept, SocketsIInv
<1>2. /\ waiter = Awake /\ fd_table[f].slot \in DOMAIN tcp.sock /\ SocketOf(f).in_use
  BY <1>1, CallsIs
<1>3. CASE ready # 0
  <2>1. Accepted(ready) /\ waiter' = Awake
    BY <1>2, <1>3 DEF sys_accept
  <2>2. PICK i : i = ready
    OBVIOUS
  <2>3. PICK q : q = port
    OBVIOUS
  <2>4. i = tcp_find_ready_client(tcp, q) /\ i # 0 /\ Accepted(i)
    BY <1>3, <2>1, <2>2, <2>3
  <2> QED BY <1>1, <2>1, <2>4, AcceptedStep, SMTT(30)
<1>4. CASE ready = 0
  <2>1. waiter' = Asleep("accept", f) /\ tcp' = tcp /\ fd_table' = fd_table
    BY <1>4 DEF sys_accept
  <2>2. fd_table[f] \in FdRecord /\ fd_table[f].moves <= tcp.moves
    BY DEF SocketsIInv, FdsOK, FdRecord
  <2>3. TableOK' /\ FdsOK'
    BY <1>1, <2>1, SameTable
  <2>4. /\ waiter' \in [queue : {"none", "accept", "recv"}, moves : Nat, slot : Nat, ready : BOOLEAN]
        /\ waiter'.queue = "accept" /\ waiter'.moves <= tcp'.moves /\ waiter'.slot = fd_table[f].slot
    BY <2>1, <2>2 DEF Asleep, FdRecord
  <2>5. OpenConnections' = {}
    BY <1>1, <2>1 DEF OpenConnections
  <2>6. WaiterOK'
    BY <1>1, <1>2, <2>1, <2>4, <2>5, SMTT(30) DEF WaiterOK, SocketOf
  <2>7. AcceptorWoken'
    BY <1>4, <2>1, <2>4 DEF AcceptorWoken, SocketOf
  <2> QED BY <1>1, <2>3, <2>6, <2>7 DEF SocketsIInv
<1> QED BY <1>3, <1>4

(* The acceptor runs again and looks for its connection.                   *)
LEMMA ResumeStep ==
    ASSUME SocketsIInv, AcceptResumes
    PROVE  SocketsIInv'
<1> DEFINE port == tcp.sock[waiter.slot].local_port
           ready == tcp_find_ready_client(tcp, port)
<1>1. /\ waiter.queue = "accept" /\ UNCHANGED <<resolved, policy>> /\ policy = "serial"
      /\ OpenConnections = {} /\ WaiterOK
  BY DEF AcceptResumes, SocketsIInv, WaiterOK
<1>3. CASE ready # 0
  <2>1. Accepted(ready) /\ waiter' = Awake
    BY <1>3 DEF AcceptResumes
  <2>2. PICK i : i = ready
    OBVIOUS
  <2>3. PICK q : q = port
    OBVIOUS
  <2>4. i = tcp_find_ready_client(tcp, q) /\ i # 0 /\ Accepted(i)
    BY <1>3, <2>1, <2>2, <2>3
  <2> QED BY <1>1, <2>1, <2>4, AcceptedStep
<1>4. CASE ready = 0
  <2>1. waiter' = [waiter EXCEPT !.ready = FALSE] /\ tcp' = tcp /\ fd_table' = fd_table
    BY <1>4 DEF AcceptResumes
  <2>2. TableOK' /\ FdsOK'
    BY <1>1, <2>1, SameTable
  <2>3. /\ waiter' \in [queue : {"none", "accept", "recv"}, moves : Nat, slot : Nat, ready : BOOLEAN]
        /\ waiter'.queue = waiter.queue /\ waiter'.moves = waiter.moves /\ waiter'.slot = waiter.slot
    BY <1>1, <2>1, Zenon DEF WaiterOK
  <2>4. OpenConnections' = {}
    BY <1>1, <2>1 DEF OpenConnections
  <2>5. WaiterOK'
    BY <1>1, <2>1, <2>3, <2>4 DEF WaiterOK, Current
  <2>6. AcceptorWoken'
    BY <1>4, <2>1, <2>3 DEF AcceptorWoken
  <2> QED BY <1>1, <2>2, <2>5, <2>6 DEF SocketsIInv
<1> QED BY <1>3, <1>4

(* The receiver runs again.                                                *)
LEMMA RecvResumeStep ==
    ASSUME SocketsIInv, RecvResumes
    PROVE  SocketsIInv'
<1>1. /\ waiter.queue = "recv" /\ waiter' = [waiter EXCEPT !.ready = FALSE]
      /\ UNCHANGED <<tcp, resolved, fd_table, policy>> /\ policy = "serial" /\ WaiterOK
  BY DEF RecvResumes, SocketsIInv
<1>2. TableOK' /\ FdsOK'
  BY <1>1, SameTable
<1>3. /\ waiter' \in [queue : {"none", "accept", "recv"}, moves : Nat, slot : Nat, ready : BOOLEAN]
      /\ waiter'.queue = "recv" /\ waiter'.moves = waiter.moves
  BY <1>1, ZenonT(30) DEF WaiterOK
<1>4. WaiterOK' /\ AcceptorWoken'
  BY <1>1, <1>3 DEF WaiterOK, AcceptorWoken
<1> QED BY <1>1, <1>2, <1>4 DEF SocketsIInv

(* An ARP reply arrives: more packets can be sent from now on.             *)
LEMMA ResolvedStep ==
    ASSUME SocketsIInv, NEW c \in Client, Resolved(c)
    PROVE  SocketsIInv'
<1>1. /\ resolved \subseteq resolved' /\ tcp' = tcp /\ fd_table' = fd_table /\ waiter' = waiter
      /\ policy' = policy
  BY DEF Resolved
<1>2. AllOK(tcp)'
  BY <1>1 DEF SocketsIInv, TableOK, AllOK, SocketOK, OneSynAck
<1>3. TableOK' /\ FdsOK'
  BY <1>1, <1>2, ZenonT(30) DEF SocketsIInv, TableOK, ConnectionUnique, FdsOK, Held, Current, SocketOf
<1>4. WaiterOK' /\ AcceptorWoken'
  BY <1>1 DEF SocketsIInv, WaiterOK, AcceptorWoken, OpenConnections, Current
<1> QED BY <1>1, <1>3, <1>4 DEF SocketsIInv

(* What a search by state finds.                                           *)
At(t, port, state) == {j \in InUseAt(t, port) : t.sock[j].state = state}

(* The slots of a port in a state.                                         *)
LEMMA AtIs ==
    ASSUME NEW t, AllOK(t), NEW port, NEW state
    PROVE  /\ At(t, port, state) \subseteq Nat \ {0}
           /\ \A j : j \in At(t, port, state) <=>
                  /\ j \in DOMAIN t.sock /\ t.sock[j].in_use
                  /\ t.sock[j].local_port = port /\ t.sock[j].state = state
<1>1. DOMAIN t.sock \subseteq Nat \ {0}
  BY DEF AllOK, Table
<1> QED BY <1>1 DEF At, InUseAt

(* A packet leaves every socket that a descriptor of a server or a waiting *)
(* acceptor holds as it is, and those of connections in use.               *)
LEMMA PacketKeeps ==
    ASSUME SocketsIInv, NEW g \in Segment, NEW i \in Nat, Becomes(tcp', tcp, i),
           i = 0 \/ Connected(tcp', tcp, i, g) \/ Handled(tcp', tcp, i, g),
           UNCHANGED <<resolved, fd_table>>
    PROVE  TableOK' /\ FdsOK'
<1>1. /\ AllOK(tcp) /\ TableOK /\ FdsOK /\ ConnectionUnique /\ AllOK(tcp')
      /\ resolved' = resolved /\ fd_table' = fd_table /\ g.from # NoClient
  BY TcpAssumption DEF SocketsIInv, TableOK, Becomes, Segment
<1>2. CASE i = 0
  <2>1. i \notin DOMAIN tcp'.sock
    BY <1>1, <1>2 DEF AllOK, Table
  <2>2. TableOK'
    BY <1>1, <2>1, UniqueKept, Zenon
  <2>3. \A h \in Fd : Held(h) => fd_table[h].slot # i
    BY <1>2 DEF Held, Current
  <2>4. \A f \in Fd : Held(f) /\ fd_table[f].slot = i /\ tcp'.moves = tcp.moves =>
            /\ tcp'.sock[i].in_use
            /\ fd_table[f].role = "server" => tcp'.sock[i].peer = NoClient
    BY <2>3, Zenon
  <2> QED BY <1>1, <2>2, <2>4, SameFds, SMTT(30)
<1>3. CASE Connected(tcp', tcp, i, g)
  <2>1. TableOK'
    BY <1>1, <1>3, UniqueKept, Zenon DEF Connected
  <2>2. \A h \in Fd : Held(h) => fd_table[h].slot # i
    BY <1>1, <1>3, Zenon DEF FdsOK, SocketOf, Connected, Taken
  <2>3. \A f \in Fd : Held(f) /\ fd_table[f].slot = i /\ tcp'.moves = tcp.moves =>
            /\ tcp'.sock[i].in_use
            /\ fd_table[f].role = "server" => tcp'.sock[i].peer = NoClient
    BY <2>2, Zenon
  <2> QED BY <1>1, <2>1, <2>3, SameFds
<1>4. CASE Handled(tcp', tcp, i, g)
  <2> DEFINE s == tcp.sock[i]
             r == tcp'.sock[i]
  <2>1. /\ i \in DOMAIN tcp.sock /\ s.in_use /\ s.local_port = g.to /\ s.peer = g.from
        /\ r.in_use /\ r.local_port = s.local_port /\ (r.peer = s.peer \/ r.peer = NoClient)
    BY <1>4, ZenonT(30) DEF Handled, Successor
  <2>2. ASSUME r.peer # NoClient, NEW j \in DOMAIN tcp.sock, j # i, tcp.sock[j].in_use, tcp.sock[j].peer = r.peer
        PROVE  tcp.sock[j].local_port # r.local_port
    <3>1. r.peer = s.peer /\ r.local_port = s.local_port
      BY <2>1, <2>2
    <3> QED BY <1>1, <2>1, <2>2, <3>1, SMTT(30) DEF ConnectionUnique
  <2>3. TableOK'
    BY <1>1, <2>2, UniqueKept, Zenon
  <2>4. \A f \in Fd : Held(f) /\ fd_table[f].slot = i => fd_table[f].role # "server"
    BY <1>1, <2>1, Zenon DEF FdsOK, SocketOf
  <2>5. \A f \in Fd : Held(f) /\ fd_table[f].slot = i /\ tcp'.moves = tcp.moves =>
            /\ tcp'.sock[i].in_use
            /\ fd_table[f].role = "server" => tcp'.sock[i].peer = NoClient
    BY <2>1, <2>4, Zenon
  <2> QED BY <1>1, <2>3, <2>5, SameFds
<1> QED BY <1>2, <1>3, <1>4, SMTT(30)

(* A segment arrives. The hard part is the acceptor: when the segment      *)
(* makes a connection ready on the port of a waiting acceptor, the first   *)
(* listening socket of the port is woken, and that is the acceptor's or    *)
(* one in a lower slot.                                                    *)
LEMMA PacketStep ==
    ASSUME SocketsIInv, NEW g \in Segment, NEW isn \in Isn, NEW memory, Packet(g, isn, memory)
    PROVE  SocketsIInv'
<1>1. /\ AllOK(tcp) /\ WaiterOK /\ AcceptorWoken /\ policy = "serial"
      /\ tcp' = tcp_handle_packet(tcp, g, isn, memory)
      /\ waiter' = [waiter EXCEPT !.ready = @ \/ <<waiter.queue, waiter.slot>> \in Wakes(tcp, g)]
      /\ UNCHANGED <<resolved, fd_table, policy>> /\ g.from # NoClient
  BY TcpAssumption DEF SocketsIInv, TableOK, Packet, Segment
<1>2. PICK i \in Nat : Becomes(tcp', tcp, i) /\ (i = 0 \/ Connected(tcp', tcp, i, g) \/ Handled(tcp', tcp, i, g))
  BY <1>1, PacketIs
<1>3. TableOK' /\ FdsOK'
  BY <1>1, <1>2, PacketKeeps
<1>4. /\ waiter' \in [queue : {"none", "accept", "recv"}, moves : Nat, slot : Nat, ready : BOOLEAN]
      /\ waiter'.queue = waiter.queue /\ waiter'.moves = waiter.moves /\ waiter'.slot = waiter.slot
  <2> DEFINE b == waiter.ready \/ <<waiter.queue, waiter.slot>> \in Wakes(tcp, g)
  <2>1. b \in BOOLEAN /\ waiter' = [waiter EXCEPT !.ready = b]
    BY <1>1
  <2> HIDE DEF b
  <2> QED BY <1>1, <2>1 DEF WaiterOK
<1>5. waiter'.ready \/ (~waiter.ready /\ <<waiter.queue, waiter.slot>> \notin Wakes(tcp, g))
  BY <1>1, Zenon DEF WaiterOK
<1>6. tcp.moves \in Nat /\ tcp'.moves \in Nat /\ (tcp'.moves = tcp.moves \/ tcp'.moves = tcp.moves + 1)
  BY <1>1, <1>2 DEF Becomes, AllOK, Table
<1>7. waiter.moves \in Nat /\ waiter.moves <= tcp.moves
  BY <1>1 DEF WaiterOK
<1>8. OpenConnections' = OpenConnections
  BY <1>1 DEF OpenConnections
<1>9. ASSUME waiter.queue = "accept", Current(waiter)'
      PROVE  /\ Current(waiter) /\ tcp'.moves = tcp.moves /\ waiter.slot # i
             /\ waiter.slot \in DOMAIN tcp'.sock /\ tcp'.sock[waiter.slot] = tcp.sock[waiter.slot]
             /\ tcp.sock[waiter.slot].in_use /\ tcp.sock[waiter.slot].state = "LISTEN"
             /\ waiter.slot \in DOMAIN tcp.sock
  <2>1. waiter.moves = tcp'.moves /\ waiter.slot # 0
    BY <1>4, <1>9 DEF Current
  <2>2. Current(waiter) /\ tcp'.moves = tcp.moves
    BY <1>6, <1>7, <2>1 DEF Current
  <2>3. waiter.slot \in DOMAIN tcp.sock /\ tcp.sock[waiter.slot].in_use /\ tcp.sock[waiter.slot].state = "LISTEN"
    BY <1>1, <1>9, <2>2 DEF WaiterOK
  <2>4. tcp.sock[waiter.slot].peer = NoClient
    BY <1>1, <2>3 DEF AllOK, SocketOK
  <2>5. waiter.slot # i
    <3>1. Connected(tcp', tcp, i, g) => waiter.slot # i
      BY <2>3, Zenon DEF Connected, Taken
    <3>2. Handled(tcp', tcp, i, g) => waiter.slot # i
      BY <1>1, <2>4, Zenon DEF Handled
    <3> QED BY <1>2, <2>1, <3>1, <3>2
  <2>6. waiter.slot \in DOMAIN tcp'.sock /\ tcp'.sock[waiter.slot] = tcp.sock[waiter.slot]
    BY <1>2, <2>3, <2>5, Zenon DEF Becomes
  <2> QED BY <2>2, <2>3, <2>5, <2>6, Zenon
<1>10. WaiterOK'
  <2>1. waiter'.moves <= tcp'.moves
    BY <1>4, <1>6, <1>7
  <2>2. ASSUME waiter'.queue = "accept"
        PROVE  /\ OpenConnections' = {}
               /\ Current(waiter)' => /\ waiter'.slot \in DOMAIN tcp'.sock
                                      /\ tcp'.sock[waiter'.slot].in_use
                                      /\ tcp'.sock[waiter'.slot].state = "LISTEN"
    <3>1. waiter.queue = "accept" /\ OpenConnections' = {}
      BY <1>1, <1>4, <1>8, <2>2 DEF WaiterOK
    <3>2. Current(waiter)' => /\ waiter'.slot \in DOMAIN tcp'.sock
                              /\ tcp'.sock[waiter'.slot].in_use
                              /\ tcp'.sock[waiter'.slot].state = "LISTEN"
      BY <1>4, <1>9, <3>1, ZenonT(30)
    <3> QED BY <3>1, <3>2, Zenon
  <2> QED BY <1>4, <2>1, <2>2, Zenon DEF WaiterOK
<1>11. AcceptorWoken'
  <2> SUFFICES ASSUME waiter.queue = "accept", ~waiter'.ready, Current(waiter)'
               PROVE  LET port == tcp'.sock[waiter.slot].local_port
                      IN  \/ tcp_find_ready_client(tcp', port) = 0
                          \/ tcp_find_listening_socket(tcp', port) < waiter.slot
    BY <1>4, SMTT(30) DEF AcceptorWoken
  <2> DEFINE w == waiter.slot
             port == tcp.sock[w].local_port
             L == At(tcp, port, "LISTEN")
             E == At(tcp, port, "ESTABLISHED")
             L1 == At(tcp', port, "LISTEN")
             E1 == At(tcp', port, "ESTABLISHED")
  <2>1. /\ Current(waiter) /\ tcp'.moves = tcp.moves /\ w # i
        /\ w \in DOMAIN tcp'.sock /\ tcp'.sock[w] = tcp.sock[w]
        /\ tcp.sock[w].in_use /\ tcp.sock[w].state = "LISTEN" /\ w \in DOMAIN tcp.sock
    BY <1>9
  <2>2. ~waiter.ready /\ <<"accept", w>> \notin Wakes(tcp, g)
    BY <1>5, SMTT(30)
  <2>3. AllOK(tcp') /\ DOMAIN tcp'.sock = DOMAIN tcp.sock
    BY <1>2, <1>6, <2>1, SMTT(30) DEF Becomes
  <2>4. /\ tcp_find_ready_client(tcp, port) = First(E) /\ tcp_find_listening_socket(tcp, port) = First(L)
        /\ tcp_find_ready_client(tcp', port) = First(E1) /\ tcp_find_listening_socket(tcp', port) = First(L1)
    BY DEF tcp_find_ready_client, tcp_find_listening_socket, At
  <2>5. First(E) = 0 \/ First(L) < w
    BY <1>1, <2>1, <2>2, <2>4, SMTT(30) DEF AcceptorWoken
  <2>m. /\ \A j : j \in L <=> /\ j \in DOMAIN tcp.sock /\ tcp.sock[j].in_use
                            /\ tcp.sock[j].local_port = port /\ tcp.sock[j].state = "LISTEN"
        /\ \A j : j \in E <=> /\ j \in DOMAIN tcp.sock /\ tcp.sock[j].in_use
                            /\ tcp.sock[j].local_port = port /\ tcp.sock[j].state = "ESTABLISHED"
        /\ \A j : j \in L1 <=> /\ j \in DOMAIN tcp'.sock /\ tcp'.sock[j].in_use
                             /\ tcp'.sock[j].local_port = port /\ tcp'.sock[j].state = "LISTEN"
        /\ \A j : j \in E1 <=> /\ j \in DOMAIN tcp'.sock /\ tcp'.sock[j].in_use
                             /\ tcp'.sock[j].local_port = port /\ tcp'.sock[j].state = "ESTABLISHED"
    <3> HIDE DEF port
    <3> QED BY <1>1, <2>3, AtIs
  <2>n. L \subseteq Nat \ {0} /\ L1 \subseteq Nat \ {0} /\ E \subseteq Nat \ {0} /\ E1 \subseteq Nat \ {0}
    <3> HIDE DEF port
    <3> QED BY <1>1, <2>3, AtIs, SMTT(30)
  <2> HIDE DEF L, L1, E, E1
  <2>6. w \in L /\ w \in Nat
    BY <2>1, <2>m, <2>n, Zenon
  <2>7. L \subseteq L1
    <3> SUFFICES ASSUME NEW j \in L
                 PROVE  j \in L1
      OBVIOUS
    <3>1. j \in DOMAIN tcp.sock /\ tcp.sock[j].in_use /\ tcp.sock[j].local_port = port /\ tcp.sock[j].state = "LISTEN"
      BY <2>m, Zenon
    <3>2. tcp.sock[j].peer = NoClient
      BY <1>1, <3>1 DEF AllOK, SocketOK
    <3>3. j \in Nat \ {0}
      BY <2>n
    <3>4. j # i
      BY <1>1, <1>2, <3>1, <3>2, <3>3 DEF Connected, Taken, Handled
    <3>5. tcp'.sock[j] = tcp.sock[j]
      BY <1>2, <3>1, <3>4, ZenonT(30) DEF Becomes
    <3> QED BY <2>3, <2>m, <3>1, <3>5, Zenon
  <2>8. First(L) \in L /\ First(L) <= w /\ First(L1) <= First(L) /\ First(L) \in Nat /\ First(L1) \in Nat
    <3>1. L \subseteq Nat \ {0} /\ L1 \subseteq Nat \ {0}
      BY <2>n
    <3>2. First(L) \in L /\ First(L) <= w /\ First(L) \in Nat
      BY <2>6, <3>1, FirstIs, Zenon
    <3>3. First(L1) <= First(L) /\ First(L1) \in Nat
      BY <2>7, <3>1, <3>2, FirstIs, ZenonT(30)
    <3> QED BY <3>2, <3>3
  <2>9. CASE First(L) < w
    BY <2>1, <2>4, <2>6, <2>8, <2>9, SMTT(30)
  <2>10. CASE First(L) = w /\ First(E) = 0
    <3>1. E \subseteq Nat \ {0} /\ E1 \subseteq Nat \ {0}
      BY <2>n
    <3>2. E = {}
      BY <2>10, <3>1, FirstIs, Zenon
    <3>3. ASSUME NEW j \in E1
          PROVE  FALSE
      <4>1. j \in DOMAIN tcp'.sock /\ tcp'.sock[j].in_use /\ tcp'.sock[j].local_port = port /\ tcp'.sock[j].state = "ESTABLISHED"
        BY <2>m, <3>3, Zenon
      <4>2. CASE j # i
        <5>1. tcp'.sock[j] = tcp.sock[j]
          BY <1>2, <2>3, <4>1, <4>2, Zenon DEF Becomes
        <5>2. j \in E
          BY <2>3, <2>m, <4>1, <5>1, ZenonT(30)
        <5> QED BY <3>2, <5>2
      <4>3. CASE j = i
        <5>1. i # 0
          BY <3>1, <3>3, <4>3, SMTT(30)
        <5>2. ~Connected(tcp', tcp, i, g)
          BY <4>1, <4>3 DEF Connected
        <5>3. Handled(tcp', tcp, i, g)
          BY <1>2, <5>1, <5>2
        <5>4. /\ tcp.sock[i].in_use /\ i \in DOMAIN tcp.sock /\ tcp'.sock[i].local_port = tcp.sock[i].local_port
              /\ tcp.sock[i].local_port = g.to /\ i = tcp_find_socket(tcp, g.to, g.from)
              /\ tcp.sock[i].state = "ESTABLISHED" \/ Establishes(tcp.sock[i], g)
          BY <4>1, <4>3, <5>3, Zenon DEF Handled, Successor
        <5>5. tcp.sock[i].state # "ESTABLISHED"
          <6>1. tcp.sock[i].state = "ESTABLISHED" => i \in E
            BY <2>m, <4>1, <4>3, <5>4, ZenonT(30)
          <6> QED BY <3>2, <6>1
        <5>6. Establishes(tcp.sock[i], g)
          BY <5>4, <5>5, SMTT(30)
        <5>7. g.to = port
          BY <4>1, <4>3, <5>4
        <5>8. <<"accept", tcp_find_listening_socket(tcp, g.to)>> \in Wakes(tcp, g)
          <6> DEFINE e == tcp_find_socket(tcp, g.to, g.from)
          <6>1. e # 0 /\ Establishes(tcp.sock[e], g)
            BY <5>1, <5>4, <5>6
          <6> HIDE DEF e
          <6> QED BY <6>1, ZenonT(30) DEF Wakes, e
        <5> QED BY <2>2, <2>4, <2>10, <5>7, <5>8, SMTT(30)
      <4> QED BY <4>2, <4>3
    <3>4. First(E1) = 0
      BY <3>1, <3>3, FirstIs, Zenon
    <3> QED BY <2>1, <2>4, <3>4
  <2> QED BY <2>5, <2>6, <2>8, <2>9, <2>10, SMTT(30)
<1> QED BY <1>1, <1>3, <1>10, <1>11 DEF SocketsIInv

-----------------------------------------------------------------------------
(* The stack starts with an empty table and free descriptors.              *)
LEMMA SocketsStarts ==
    ASSUME SocketsInit, policy = "serial"
    PROVE  SocketsIInv
<1>1. tcp = [sock |-> [i \in 1..InitialSockets |-> tcp_init_socket], count |-> 0, moves |-> 0]
  BY DEF SocketsInit, tcp_init
<1>2. [i \in 1..InitialSockets |-> tcp_init_socket] \in Seq(Socket)
  BY FreshIs, TcpAssumption
<1>3. tcp \in Table /\ tcp.moves = 0
  BY <1>1, <1>2 DEF Table
<1>4. \A j \in DOMAIN tcp.sock : tcp.sock[j] = tcp_init_socket
  BY <1>1
<1>5. TableOK
  BY <1>3, <1>4, FreshIs, Zenon DEF TableOK, AllOK, ConnectionUnique
<1>6. FdsOK
  <2>1. \A f \in Fd : fd_table[f] = NoFd
    BY DEF SocketsInit
  <2>2. NoFd \in FdRecord /\ NoFd.role = "none" /\ NoFd.moves = 0
    BY DEF NoFd, FdRecord
  <2>3. fd_table \in [Fd -> FdRecord]
    BY <2>2 DEF SocketsInit
  <2>4. \A f \in Fd : ~Held(f)
    BY <2>1, <2>2 DEF Held
  <2>5. \A f \in Fd : fd_table[f].moves <= tcp.moves
    BY <1>3, <2>1, <2>2, SMTT(30)
  <2> QED BY <2>3, <2>4, <2>5, Zenon DEF FdsOK, FdRecord
<1>7. WaiterOK /\ AcceptorWoken
  BY <1>3 DEF SocketsInit, Awake, WaiterOK, AcceptorWoken
<1> QED BY <1>5, <1>6, <1>7 DEF SocketsIInv

(* Every step of the system calls and the packets keeps the invariant.     *)
LEMMA SocketsStep ==
    ASSUME SocketsIInv, [SocketsNext(Segment)]_sockVars
    PROVE  SocketsIInv'
<1>1. ASSUME NEW memory \in Memory, sys_socket(memory) PROVE SocketsIInv'
  BY <1>1, SocketStep
<1>2. ASSUME NEW f \in Fd, NEW port \in Port, sys_bind(f, port) PROVE SocketsIInv'
  BY <1>2, BindStep
<1>3. ASSUME NEW f \in Fd, sys_listen(f) PROVE SocketsIInv'
  BY <1>3, ListenStep
<1>4. ASSUME NEW f \in Fd, sys_accept(f) PROVE SocketsIInv'
  BY <1>4, AcceptStep
<1>5. ASSUME NEW f \in Fd, sys_send(f) PROVE SocketsIInv'
  BY <1>5, SendStep
<1>6. ASSUME NEW f \in Fd, sys_close(f) PROVE SocketsIInv'
  BY <1>6, CloseStep
<1>7. ASSUME NEW f \in Fd, NEW len \in 1..BufSize, sys_recv(f, len) PROVE SocketsIInv'
  BY <1>7, RecvStep
<1>8. ASSUME AcceptResumes PROVE SocketsIInv'
  BY <1>8, ResumeStep
<1>9. ASSUME RecvResumes PROVE SocketsIInv'
  BY <1>9, RecvResumeStep
<1>10. ASSUME NEW g \in Segment, NEW isn \in Isn, NEW memory \in Memory, Packet(g, isn, memory)
       PROVE  SocketsIInv'
  BY <1>10, PacketStep
<1>11. ASSUME NEW c \in Client, Resolved(c) PROVE SocketsIInv'
  BY <1>11, ResolvedStep
<1>12. CASE UNCHANGED sockVars
  <2>1. UNCHANGED <<tcp, resolved, fd_table, waiter, policy>>
    BY <1>12 DEF sockVars
  <2>2. TableOK' /\ FdsOK'
    BY <2>1, SameTable, SMTT(30)
  <2>3. WaiterOK' /\ AcceptorWoken'
    BY <2>1 DEF SocketsIInv, WaiterOK, AcceptorWoken, OpenConnections, Current
  <2> QED BY <2>1, <2>2, <2>3 DEF SocketsIInv
<1>13. CASE SocketsNext(Segment)
  BY <1>1, <1>2, <1>3, <1>4, <1>5, <1>6, <1>7, <1>8, <1>9, <1>10, <1>11, <1>13, Zenon DEF SocketsNext
<1> QED BY <1>12, <1>13

(* Whatever segments arrive and however the calls of a program with one    *)
(* open connection interleave with them, the table, the descriptors and    *)
(* the acceptor agree.                                                     *)
THEOREM SocketsInvariant == SerialSpec => []SocketsIInv
<1>1. SocketsInit /\ policy = "serial" => SocketsIInv
  BY SocketsStarts
<1>2. SocketsIInv /\ [SocketsNext(Segment)]_sockVars => SocketsIInv'
  BY SocketsStep
<1> QED BY <1>1, <1>2, PTL DEF SerialSpec

(* One socket stands for a connection, and one SYN-ACK answers it, for any *)
(* numbers of peers, ports, sockets and sequence numbers (tcp.c:638-706).  *)
THEOREM HandshakeAlwaysExact == SerialSpec => []HandshakeExact
<1>1. SocketsIInv => HandshakeExact
  <2> SUFFICES ASSUME SocketsIInv
               PROVE  ConnectionUnique /\ SynAckSame
    BY DEF HandshakeExact
  <2>1. ConnectionUnique
    BY DEF SocketsIInv, TableOK
  <2>2. SynAckSame
    BY SMTT(30) DEF SocketsIInv, TableOK, AllOK, SocketOK, OneSynAck, SynAckSame
  <2> QED BY <2>1, <2>2
<1> QED BY <1>1, SocketsInvariant, PTL

(* A program reads what arrived on its connection, in order and less what  *)
(* was dropped at a full buffer, for every buffer size and payload         *)
(* (tcp.c:795-811, 997-1003).                                              *)
THEOREM StreamAlwaysExact == SerialSpec => []StreamExact
<1>1. SocketsIInv => StreamExact
  BY Zenon DEF SocketsIInv, TableOK, AllOK, SocketOK, Ring, StreamExact
<1> QED BY <1>1, SocketsInvariant, PTL

(* No two descriptors hold the same socket, and none holds a free one      *)
(* (syscall.c:723, 757-758, 885).                                          *)
THEOREM FdsAlwaysDistinct == SerialSpec => []FdsDistinct
<1>1. SocketsIInv => FdsDistinct
  <2> SUFFICES ASSUME SocketsIInv, NEW f \in Fd, NEW h \in Fd, fd_table[f].role # "none", Current(fd_table[f])
               PROVE  SocketOf(f).in_use /\ (fd_table[h] = fd_table[f] => h = f)
    BY Zenon DEF FdsDistinct
  <2>1. Held(f)
    BY DEF Held
  <2>2. SocketOf(f).in_use
    BY <2>1, Zenon DEF SocketsIInv, FdsOK
  <2>3. fd_table[h] = fd_table[f] => Held(h) /\ fd_table[f].slot = fd_table[h].slot
    BY <2>1 DEF Held, Current
  <2>4. fd_table[h] = fd_table[f] => h = f
    BY <2>1, <2>3, Zenon DEF SocketsIInv, FdsOK
  <2> QED BY <2>2, <2>4
<1> QED BY <1>1, SocketsInvariant, PTL

(* The interrupt never comes too late or too early for the test of         *)
(* sys_accept: an acceptor sleeps through a ready connection only when     *)
(* another socket in a lower slot listens on its port (tcp.c:720-724,      *)
(* syscall.c:730).                                                         *)
THEOREM AcceptorAlwaysWoken == SerialSpec => []AcceptorWoken
<1>1. SocketsIInv => AcceptorWoken
  BY DEF SocketsIInv
<1> QED BY <1>1, SocketsInvariant, PTL
=============================================================================
