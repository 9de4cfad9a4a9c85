------------------------------- MODULE MCNet -------------------------------
(***************************************************************************)
(* The network for TLC: the programs of the TCP layer (a server on the     *)
(* socket system calls, and the HTTP server), the cards with their rings,  *)
(* and the client protocols.  A behaviour exercises one of them; a TCP     *)
(* program runs under the traffic Init chose: one peer that sends data, or *)
(* two peers that open and close connections without it.                   *)
(***************************************************************************)
EXTENDS Sockets, Httpd, Rings, NetClient

CONSTANTS c1, c2, h1, h2,   \* model values
          Loads             \* the pairs of program and traffic of this run

VARIABLE load

vars == <<load, sockVars, httpdVars, ringsVars, netVars>>

Payloads == {<<1, 2>>}

DataTraffic == {g \in Segment : g.from = c1}
PeersTraffic == {g \in Segment : g.data = <<>> /\ g.flags \notin {{"FIN"}, {"RST", "ACK"}}}
OneTraffic == {g \in DataTraffic \cap PeersTraffic : g.flags \in {{"SYN"}, {"ACK"}, {"RST"}}}

Traffic ==
    CASE load[2] = "data" -> DataTraffic
      [] load[2] = "peers" -> PeersTraffic
      [] load[2] = "one" -> OneTraffic

AllLoads == {<<"sockets", "data">>, <<"sockets", "peers">>, <<"httpd", "one">>,
             <<"cards", "none">>, <<"clients", "none">>}
DataLoad == {<<"sockets", "data">>}
PeersLoad == {<<"sockets", "peers">>}

(* A card on its line: frames received into a full ring, sends until the   *)
(* transmit ring is used around, answers sent by the handler, and polling  *)
(* at boot without an interrupt.                                           *)
Machine(card, line, n, arrivals, answered, sends, polls) ==
    [card |-> card, line |-> line, n |-> n, arrivals |-> arrivals,
     answered |-> answered, sends |-> sends, polls |-> polls]

AllBoards ==
    {Machine("e1000e", "irq11", 3, 4, FALSE, 0, 0), Machine("e1000e", "irq11", 3, 1, FALSE, 2, 0),
     Machine("e1000e", "irq11", 3, 2, TRUE, 0, 0),  Machine("e1000e", "none", 3, 2, TRUE, 0, 2),
     Machine("pcnet", "irq11", 2, 4, FALSE, 0, 0),  Machine("pcnet", "irq11", 2, 1, FALSE, 3, 0),
     Machine("pcnet", "other", 2, 2, TRUE, 0, 0),   Machine("pcnet", "none", 2, 2, FALSE, 0, 2),
     Machine("virtio", "irq11", 2, 5, FALSE, 0, 0), Machine("virtio", "irq11", 2, 2, FALSE, 5, 0),
     Machine("virtio", "other", 2, 3, TRUE, 0, 0),  Machine("virtio", "none", 2, 2, TRUE, 0, 2)}

(* Two DHCP servers, with gateways of their own; one is its DNS server.    *)
TwoLeases ==
    [s1 |-> [ip |-> "own1", gateway |-> "gw1", dns |-> "gw1"],
     s2 |-> [ip |-> "own2", gateway |-> "gw2", dns |-> "far"]]

TwoHosts == [near |-> "gw1", away |-> "far"]

Scene(commands, names, addresses, q, sessions, echoes) ==
    [config |-> NoConfig, commands |-> commands, names |-> names, addresses |-> addresses,
     queries |-> q, sessions |-> sessions, echoes |-> echoes]

AllScenes ==
    {Scene({"ping -c 1"}, Name, {}, 2, 2, 1),
     Scene({"ping"}, {}, {"gw1", "far"}, 0, 1, 2),
     Scene({"ping", "ping -c 1"}, {}, {"far"}, 0, 2, 1),
     Scene({"ping -c 1", "wget"}, {"near"}, {}, 2, 1, 1)}

sockOnly == <<fd_table, g_server_socket, waiter, policy>>
httpdOnly == <<flagVars, httpd, net_mutex>>
tcpVars == <<sockVars, httpdVars>>

Init ==
    /\ load \in Loads /\ SocketsInit /\ HttpdInit
    /\ resolved = CASE load[2] = "data" -> {c2} [] load[2] = "peers" -> {} [] OTHER -> Client
    /\ RingsInit /\ NetClientInit
    /\ load[1] # "cards" => board = CHOOSE b \in Boards : TRUE
    /\ load[1] # "clients" => scene = CHOOSE s \in Scenes : TRUE

SocketsStep ==
    load[1] = "sockets" /\ SocketsNext(Traffic) /\ UNCHANGED <<load, httpdOnly, ringsVars, netVars>>
HttpdStep ==
    load[1] = "httpd" /\ HttpdNext(Traffic) /\ UNCHANGED <<load, sockOnly, ringsVars, netVars>>
CardsStep == load[1] = "cards" /\ RingsNext /\ UNCHANGED <<load, tcpVars, netVars>>
ClientsStep == load[1] = "clients" /\ NetClientNext /\ UNCHANGED <<load, tcpVars, ringsVars>>

(* A thread that can run is scheduled again, a started call goes on, and a *)
(* pending interrupt is taken.                                             *)
Fairness ==
    /\ WF_vars(/\ load[1] = "sockets" /\ (AcceptResumes \/ RecvResumes)
               /\ UNCHANGED <<load, httpdOnly, ringsVars, netVars>>)
    /\ \A h \in HttpdThread :
          WF_vars(load[1] = "httpd" /\ ServerStep(h) /\ UNCHANGED <<load, sockOnly, ringsVars, netVars>>)
    /\ WF_vars(load[1] = "cards" /\ Interrupt /\ UNCHANGED <<load, tcpVars, netVars>>)
    /\ \A c \in Contexts :
          WF_vars(load[1] = "cards" /\ Step(c) /\ UNCHANGED <<load, tcpVars, netVars>>)

(* Cards and clients stop when a bound of the board or the scene is met.   *)
Ended ==
    load[1] \in {"cards", "clients"} /\ UNCHANGED vars

Spec == Init /\ [][SocketsStep \/ HttpdStep \/ CardsStep \/ ClientsStep \/ Ended]_vars /\ Fairness
=============================================================================
