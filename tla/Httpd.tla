------------------------------- MODULE Httpd -------------------------------
(***************************************************************************)
(* The HTTP server (net/l4/httpd.c): a kernel thread that polls the TCP    *)
(* layer, and the calls that start and stop it.  It runs with interrupts   *)
(* enabled: the network interrupt comes between any two of its steps, also *)
(* inside the sections that net_lock, a mutex that the interrupt does not  *)
(* take, protects from other threads.                                      *)
(*                                                                         *)
(* A request is read and answered in at most Rounds polls and sends, which *)
(* stand for the 50 polls of the reader and the chunks of the answer.  The *)
(* steps of a thread whose socket array was reallocated are undefined and  *)
(* not explored.  The peer's next hop is in the ARP cache.                 *)
(***************************************************************************)
EXTENDS Tcp

CONSTANTS HttpdThread,   \* one for each call of httpd_start
          NoThread,
          HttpPort, Rounds

VARIABLES g_httpd_running, g_httpd_stop_requested, g_httpd_thread,
          httpd,        \* the server threads
          net_mutex,    \* its owner
          stopping      \* httpd_stop waits for the thread

httpdVars == <<tcp, resolved, g_httpd_running, g_httpd_stop_requested, g_httpd_thread, httpd,
               net_mutex, stopping>>

flagVars == <<g_httpd_running, g_httpd_stop_requested, g_httpd_thread, stopping>>

Idle(pc) == [pc |-> pc, slot |-> 0, client |-> 0, moves |-> 0, rounds |-> 0]

HttpdInit ==
    /\ tcp = tcp_init /\ resolved \in SUBSET Client
    /\ g_httpd_running = FALSE /\ g_httpd_stop_requested = FALSE /\ g_httpd_thread = NoThread
    /\ httpd = [h \in HttpdThread |-> Idle("none")]
    /\ net_mutex = NoThread /\ stopping = FALSE

At(h, pc) == httpd[h].pc = pc /\ (pc \notin {"create", "alloc"} => httpd[h].moves = tcp.moves)

GoTo(h, pc) == httpd' = [httpd EXCEPT ![h].pc = pc]

net_lock(h) == net_mutex = NoThread /\ net_mutex' = h
net_unlock == net_mutex' = NoThread

-----------------------------------------------------------------------------
(* tcp_socket_create: the search for a free slot, then its fields.         *)
FindSlot(h) ==
    /\ At(h, "create") /\ net_lock(h)
    /\ httpd' = [httpd EXCEPT ![h].pc = "alloc",
                              ![h].slot = IF FreeSlots(tcp) = {} THEN 0 ELSE Min(FreeSlots(tcp))]
    /\ UNCHANGED <<tcp, resolved, flagVars>>

Take(t, slot) == [t EXCEPT !.sock[slot] = Created([@ EXCEPT !.in_use = TRUE]), !.count = @ + 1]

TakeSlot(h, memory) ==
    LET found == httpd[h].slot # 0
        a == tcp_socket_create(tcp, memory)
        slot == IF found THEN httpd[h].slot ELSE a.slot
    IN  /\ At(h, "alloc") /\ net_unlock
        /\ tcp' = IF found THEN Take(tcp, slot) ELSE a.table
        /\ httpd' = [httpd EXCEPT ![h] =
                        IF slot = 0 THEN Idle("done")
                        ELSE [@ EXCEPT !.pc = "bind", !.slot = slot, !.moves = tcp'.moves]]
        /\ g_httpd_running' = (g_httpd_running /\ slot # 0)
        /\ UNCHANGED <<resolved, g_httpd_stop_requested, g_httpd_thread, stopping>>

HttpdBind(h) ==
    /\ At(h, "bind") /\ net_mutex = NoThread
    /\ IF CanBind(tcp, httpd[h].slot, HttpPort)
       THEN /\ tcp' = [tcp EXCEPT !.sock[httpd[h].slot].local_port = HttpPort]
            /\ GoTo(h, "bound")
       ELSE tcp' = tcp_close(tcp, httpd[h].slot) /\ GoTo(h, "refused")
    /\ UNCHANGED <<resolved, net_mutex, flagVars>>

Refused(h) ==
    /\ httpd[h].pc = "refused" /\ httpd' = [httpd EXCEPT ![h] = Idle("done")]
    /\ g_httpd_running' = FALSE
    /\ UNCHANGED <<tcp, resolved, net_mutex, g_httpd_stop_requested, g_httpd_thread, stopping>>

HttpdListen(h) ==
    /\ At(h, "bound") /\ GoTo(h, "started")
    /\ tcp' = [tcp EXCEPT !.sock[httpd[h].slot].state = "LISTEN"]
    /\ UNCHANGED <<resolved, net_mutex, flagVars>>

Started(h) ==
    /\ At(h, "started") /\ GoTo(h, "loop")
    /\ g_httpd_running' = TRUE
    /\ UNCHANGED <<tcp, resolved, net_mutex, g_httpd_stop_requested, g_httpd_thread, stopping>>

-----------------------------------------------------------------------------
(* The loop: the flag, then a poll for a connection.                       *)
Poll(h) ==
    LET client == tcp_find_ready_client(tcp, HttpPort)
    IN  /\ At(h, "loop")
        /\ httpd' = [httpd EXCEPT ![h] =
                        IF g_httpd_stop_requested THEN [@ EXCEPT !.pc = "leave"]
                        ELSE IF client = 0 THEN @
                        ELSE [@ EXCEPT !.pc = "handle", !.client = client]]
        /\ UNCHANGED <<tcp, resolved, net_mutex, flagVars>>

(* handle_client: reads while the connection lasts, then sends.            *)
HandleRead(h) ==
    /\ At(h, "handle") /\ httpd[h].rounds < Rounds
    /\ tcp.sock[httpd[h].client].state = "ESTABLISHED"
    /\ tcp' = [tcp EXCEPT !.sock[httpd[h].client] = tcp_recv(@, BufSize)]
    /\ httpd' = [httpd EXCEPT ![h].rounds = @ + 1]
    /\ UNCHANGED <<resolved, net_mutex, flagVars>>

HandleSend(h) ==
    /\ \E pc \in {"handle", "answer"} : At(h, pc)
    /\ httpd[h].rounds < Rounds
    /\ tcp.sock[httpd[h].client].state = "ESTABLISHED"
    /\ tcp' = [tcp EXCEPT !.sock[httpd[h].client] = tcp_send_packet(@, {"ACK"}, 1)]
    /\ httpd' = [httpd EXCEPT ![h].pc = "answer", ![h].rounds = @ + 1]
    /\ UNCHANGED <<resolved, net_mutex, flagVars>>

(* The end of handle_client, and the first half of tcp_close.              *)
CloseFin(h) ==
    /\ \E pc \in {"handle", "answer"} : At(h, pc)
    /\ net_lock(h) /\ GoTo(h, "close")
    /\ tcp' = [tcp EXCEPT !.sock[httpd[h].client] = SendFin(@)]
    /\ UNCHANGED <<resolved, flagVars>>

(* Mutation: net_lock is kept.                                             *)
CloseReleaseLocked(h) ==
    /\ At(h, "close") /\ UNCHANGED net_mutex
    /\ tcp' = Release(tcp, httpd[h].client)
    /\ httpd' = [httpd EXCEPT ![h].pc = "loop", ![h].client = 0, ![h].rounds = 0]
    /\ UNCHANGED <<resolved, flagVars>>

CloseRelease(h) ==
    /\ At(h, "close") /\ net_unlock
    /\ tcp' = Release(tcp, httpd[h].client)
    /\ httpd' = [httpd EXCEPT ![h].pc = "loop", ![h].client = 0, ![h].rounds = 0]
    /\ UNCHANGED <<resolved, flagVars>>

Leave(h) ==
    /\ At(h, "leave") /\ net_mutex = NoThread /\ GoTo(h, "left")
    /\ tcp' = tcp_close(tcp, httpd[h].slot)
    /\ UNCHANGED <<resolved, net_mutex, flagVars>>

Left(h) ==
    /\ httpd[h].pc = "left" /\ httpd' = [httpd EXCEPT ![h] = Idle("done")]
    /\ g_httpd_running' = FALSE
    /\ UNCHANGED <<tcp, resolved, net_mutex, g_httpd_stop_requested, g_httpd_thread, stopping>>

ServerStep(h) ==
    \/ FindSlot(h) \/ HttpdBind(h) \/ Refused(h) \/ HttpdListen(h) \/ Started(h) \/ Poll(h)
    \/ \E memory \in Memory : TakeSlot(h, memory)
    \/ HandleRead(h) \/ HandleSend(h) \/ CloseFin(h) \/ CloseRelease(h) \/ Leave(h) \/ Left(h)

-----------------------------------------------------------------------------
(* The shell's calls.  thread_create fails for NoThread.                   *)
httpd_start(h) ==
    /\ ~stopping /\ ~g_httpd_running
    /\ h # NoThread => httpd[h].pc = "none"
    /\ g_httpd_stop_requested' = FALSE /\ g_httpd_thread' = h
    /\ httpd' = [x \in HttpdThread |-> IF x = h THEN [httpd[x] EXCEPT !.pc = "create"]
                                       ELSE httpd[x]]
    /\ UNCHANGED <<tcp, resolved, net_mutex, g_httpd_running, stopping>>

httpd_stop ==
    /\ ~stopping /\ (g_httpd_running \/ g_httpd_thread # NoThread)
    /\ g_httpd_stop_requested' = TRUE
    /\ stopping' = (g_httpd_thread # NoThread)
    /\ g_httpd_running' = (g_httpd_running /\ g_httpd_thread # NoThread)
    /\ UNCHANGED <<tcp, resolved, httpd, net_mutex, g_httpd_thread>>

(* The thread has cleared the flag, or is killed after five seconds.       *)
StopEnds ==
    /\ stopping
    /\ httpd' = IF g_httpd_running /\ httpd[g_httpd_thread].pc # "done"
                THEN [httpd EXCEPT ![g_httpd_thread] = Idle("killed")] ELSE httpd
    /\ stopping' = FALSE /\ g_httpd_running' = FALSE /\ g_httpd_thread' = NoThread
    /\ UNCHANGED <<tcp, resolved, net_mutex, g_httpd_stop_requested>>

HttpdPacket(g, isn, memory) ==
    /\ tcp' = tcp_handle_packet(tcp, g, isn, memory)
    /\ UNCHANGED <<resolved, httpd, net_mutex, flagVars>>

HttpdNext(segments) ==
    \/ \E h \in HttpdThread : ServerStep(h)
    \/ \E h \in HttpdThread \cup {NoThread} : httpd_start(h)
    \/ httpd_stop \/ StopEnds
    \/ \E g \in segments, isn \in Isn, memory \in Memory : HttpdPacket(g, isn, memory)

-----------------------------------------------------------------------------
(* A stop that no later start revokes ends every server thread, also one   *)
(* that had not begun when it was asked for (httpd.c:374, 445); a thread   *)
(* that was killed may hold net_lock, and after a reallocation of the      *)
(* sockets nothing is claimed.                                             *)
HttpdStops ==
    g_httpd_stop_requested ~>
        \/ ~g_httpd_stop_requested
        \/ \A h \in HttpdThread : httpd[h].pc \in {"none", "done"}
        \/ \E h \in HttpdThread : httpd[h].pc = "killed"
        \/ tcp.moves > 0
=============================================================================
