------------------------------ MODULE NetClient ------------------------------
(***************************************************************************)
(* The client side of the network stack: the DHCP client (dhcp.c), the     *)
(* routing table (route.c), the ARP cache (arp.c), the DNS resolver with   *)
(* its cache (dns.c), ping (icmp.c) and the name lookup of the HTTP client *)
(* (http.c), as the boot thread and then the shell use them.               *)
(*                                                                         *)
(* Two contexts run: the thread, whose steps are the actions guarded by    *)
(* `doing', and the network interrupt, `Deliver', which runs a whole       *)
(* packet handler with interrupts masked between two steps of the thread.  *)
(*                                                                         *)
(* The network is a fault model.  `wire' holds every answer that a request *)
(* of this machine has caused; each may be delivered never, once or many   *)
(* times, late and in any order.  Time is not counted: a wait loop of the  *)
(* code may end with its timeout whatever has or has not arrived.          *)
(***************************************************************************)
EXTENDS Naturals, Sequences, FiniteSetsExt, Functions

CONSTANTS
    OnLink,          \* addresses of the local network
    OffLink,         \* addresses beyond the gateway
    Lease,           \* DHCP server -> the configuration it leases
    Name,            \* host names
    AddrOf,          \* Name -> its address
    ARP_CACHE_SIZE,
    DNS_CACHE_SIZE,
    Scenes           \* what is configured and typed in a behaviour, bounded

None == "none"
Address == OnLink \cup OffLink
Server == DOMAIN Lease
Configuration == [ip : OnLink, gateway : OnLink, dns : Address]
NoConfig == [ip |-> None, gateway |-> None, dns |-> None]

\* A scene: the static configuration of network.conf (NoConfig for DHCP),
\* the commands typed, the names and addresses they are given, and bounds
\* on the DNS transactions, the pings and the rounds of a continuous ping.
SceneFields == {"config", "commands", "names", "addresses", "queries", "sessions", "echoes"}

ASSUME NetClientAssumption ==
    /\ OnLink \cap OffLink = {} /\ None \notin Address \cup Name
    /\ Lease \in [Server -> Configuration]
    /\ AddrOf \in [Name -> Address]
    /\ {ARP_CACHE_SIZE, DNS_CACHE_SIZE} \subseteq Nat \ {0}
    /\ \A s \in Scenes :
          /\ DOMAIN s = SceneFields /\ s.config \in Configuration \cup {NoConfig}
          /\ s.commands \subseteq {"ping", "ping -c 1", "wget"}
          /\ s.names \subseteq Name /\ s.addresses \subseteq Address
          /\ {s.queries, s.sessions, s.echoes} \subseteq Nat

VARIABLES
    scene,     \* the scene being played, constant
    dhcp,      \* dhcp_ctx: state, offered_ip, server_ip
    netif,     \* configuration of the default interface, or NoConfig
    routes,    \* the active entries of routes[], in table order
    arp,       \* addresses of arp_cache[], slot by slot
    cache,     \* g_dns_cache[], slot by slot
    pending,   \* g_pending_query (its id is g_dns_transaction_id or 0)
    queries,   \* g_dns_transaction_id
    ping,      \* g_ping
    cmd,       \* the command running: its word, the name looked up, the address
    tries,     \* retries made in the wait loop of the thread
    doing,     \* where the thread is
    wire       \* answers on their way

netVars == <<scene, dhcp, netif, routes, arp, cache, pending, queries, ping,
             cmd, tries, doing, wire>>

NoCommand == [word |-> None, name |-> None, target |-> None]

(***************************************************************************)
(* Routing table.  A network mask is abstracted to its length: 24 for the  *)
(* local network, 0 for the default route.                                 *)
(***************************************************************************)
Matches(r, ip) == r.prefix = 0 \/ ip \in OnLink

route_lookup(ip) == CHOOSE r \in Range(routes) :
                        /\ Matches(r, ip)
                        /\ \A q \in Range(routes) : Matches(q, ip) => q.prefix <= r.prefix

route_get_next_hop(ip) ==
    IF \A r \in Range(routes) : ~Matches(r, ip) THEN None
    ELSE IF route_lookup(ip).gateway = None THEN ip
    ELSE route_lookup(ip).gateway

route_update_from_netif(c) ==
    routes' = routes \o <<[prefix |-> 24, gateway |-> None],
                          [prefix |-> 0, gateway |-> c.gateway]>>

(***************************************************************************)
(* ARP cache: a known address keeps its slot, a new one takes the first    *)
(* free slot, and when the cache is full it takes the first slot.          *)
(***************************************************************************)
arp_cache_add(ip) ==
    IF ip \in Range(arp) THEN arp
    ELSE IF Len(arp) < ARP_CACHE_SIZE THEN Append(arp, ip)
    ELSE [arp EXCEPT ![1] = ip]

ArpReply(ip) == [kind |-> "arp", ip |-> ip]

(***************************************************************************)
(* What sending a packet to `ip' adds to the wire: nothing without a       *)
(* route, the answer to an ARP request when the next hop's card address is *)
(* not known (the packet itself is dropped), and otherwise its answers.    *)
(***************************************************************************)
Reachable(ip) == route_get_next_hop(ip) \in Range(arp)

ArpAsked(ip) == IF route_get_next_hop(ip) \in OnLink
                THEN {ArpReply(route_get_next_hop(ip))} ELSE {}

udp_send_packet(ip, answers) == IF Reachable(ip) THEN answers ELSE ArpAsked(ip)

(***************************************************************************)
(* DHCP.  The servers are external: each offers its lease, and the one     *)
(* named in a request grants it or refuses it.                             *)
(***************************************************************************)
dhcp_discover ==
    /\ doing = "boot" /\ dhcp.state = "INIT" /\ tries = 0 /\ netif = NoConfig
    /\ dhcp' = [dhcp EXCEPT !.state = "SELECTING"]
    /\ wire' = wire \cup {[kind |-> "OFFER", server |-> s] : s \in Server}
    /\ tries' = 1
    /\ UNCHANGED <<netif, routes, arp, cache, pending, queries, ping, cmd, doing>>

dhcp_handle_offer(m) ==
    /\ m.kind = "OFFER"
    /\ dhcp' = [state |-> "REQUESTING", offered |-> Lease[m.server].ip, server |-> m.server]
    /\ \E answer \in {"ACK", "NAK"} :
          wire' = wire \cup {[kind |-> answer, server |-> m.server]}
    /\ UNCHANGED <<netif, routes>>

\* Mutation: any message but a refusal completes the exchange.
AnyButNakBinds(m) ==
    /\ dhcp' = [dhcp EXCEPT !.state = IF m.kind = "NAK" THEN "INIT" ELSE "BOUND"]
    /\ netif' = IF m.kind = "NAK" THEN netif ELSE Lease[m.server]
    /\ IF m.kind = "NAK" THEN UNCHANGED routes ELSE route_update_from_netif(Lease[m.server])
    /\ UNCHANGED wire

dhcp_handle_ack(m) ==
    /\ \/ /\ m.kind = "NAK"
          /\ dhcp' = [dhcp EXCEPT !.state = "INIT"]
          /\ UNCHANGED <<netif, routes>>
       \/ /\ m.kind = "ACK"
          /\ dhcp' = [dhcp EXCEPT !.state = "BOUND"]
          /\ netif' = Lease[m.server]
          /\ route_update_from_netif(Lease[m.server])
    /\ UNCHANGED wire

dhcp_handle_packet(m) ==
    /\ m.kind \in {"OFFER", "ACK", "NAK"}
    /\ \/ dhcp.state = "SELECTING" /\ dhcp_handle_offer(m)
       \/ dhcp.state = "REQUESTING" /\ dhcp_handle_ack(m)
    /\ UNCHANGED <<arp, cache, pending, ping>>

(***************************************************************************)
(* The boot thread leaves its wait when the lease is there or after 200    *)
(* polls; a static configuration was applied before.  Then the resolver is *)
(* initialised, with a fallback server when none was given.                *)
(***************************************************************************)
dns_init ==
    /\ doing = "boot" /\ (netif # NoConfig \/ tries = 1)
    /\ doing' = "shell" /\ tries' = 0
    /\ UNCHANGED <<dhcp, netif, routes, arp, cache, pending, queries, ping, cmd, wire>>

DnsServer == IF netif.dns = None THEN CHOOSE ip \in OffLink : TRUE ELSE netif.dns

(***************************************************************************)
(* DNS.  A failed lookup answers None.  dns_cache_add never looks for an   *)
(* entry of the same name, and a lookup takes the first.                   *)
(***************************************************************************)
dns_cache_add(n, ip) ==
    IF Len(cache) < DNS_CACHE_SIZE THEN Append(cache, [name |-> n, ip |-> ip])
    ELSE [cache EXCEPT ![1] = [name |-> n, ip |-> ip]]

Cached(n) == \E i \in DOMAIN cache : cache[i].name = n

dns_cache_lookup(n) == cache[Min({i \in DOMAIN cache : cache[i].name = n})].ip

dns_is_pending == ~pending.completed /\ pending.id # 0

\* The part of dns_send_query that a cached name takes: the identifier of
\* an earlier transaction stays in the pending query.
DnsFromCache(n) ==
    /\ Cached(n)
    /\ pending' = [pending EXCEPT !.ip = dns_cache_lookup(n), !.completed = TRUE,
                                  !.success = TRUE, !.name = n]
    /\ UNCHANGED <<queries, wire>>

DnsAsk(n) ==
    /\ ~Cached(n) /\ queries < scene.queries
    /\ queries' = queries + 1
    /\ pending' = [pending EXCEPT !.id = queries + 1, !.name = n,
                                  !.completed = FALSE, !.success = FALSE]
    /\ \E a \in {AddrOf[n], None} :
          wire' = wire \cup udp_send_packet(DnsServer, {[kind |-> "dns", id |-> queries + 1, ip |-> a]})

dns_send_query(n) == DnsFromCache(n) \/ DnsAsk(n)

\* Mutation: the transaction identifier is not compared.
AnswersAny(m) == TRUE

AnswersPending(m) == m.id = pending.id

dns_handle_packet(m) ==
    /\ m.kind = "dns" /\ AnswersPending(m)
    /\ \/ /\ m.ip = None
          /\ pending' = [pending EXCEPT !.completed = TRUE, !.success = FALSE]
          /\ UNCHANGED cache
       \/ /\ m.ip # None
          /\ pending' = [pending EXCEPT !.ip = m.ip, !.completed = TRUE, !.success = TRUE]
          /\ cache' = dns_cache_add(pending.name, m.ip)
    /\ UNCHANGED <<dhcp, netif, routes, arp, ping, wire>>

(***************************************************************************)
(* The shell's commands.  A ping of a name looks in the cache first; wget  *)
(* calls dns_send_query at once.                                           *)
(***************************************************************************)
Command(w, n, ip, where) ==
    /\ doing = "shell" /\ w \in scene.commands
    /\ cmd' = [word |-> w, name |-> n, target |-> ip]
    /\ doing' = where /\ tries' = 0
    /\ UNCHANGED <<dhcp, netif, routes, arp, cache, ping>>

cmd_ping ==
    \E w \in {"ping", "ping -c 1"} :
       \/ \E ip \in scene.addresses :
             Command(w, None, ip, "start") /\ UNCHANGED <<pending, queries, wire>>
       \/ \E n \in scene.names :
             \/ /\ Cached(n) /\ Command(w, n, dns_cache_lookup(n), "start")
                /\ UNCHANGED <<pending, queries, wire>>
             \/ /\ ~Cached(n) /\ queries < scene.queries /\ Command(w, n, None, "query")
                /\ UNCHANGED <<pending, queries, wire>>

http_get == \E n \in scene.names : Command("wget", n, None, "resolve") /\ dns_send_query(n)

\* resolve_hostname asks once more after five ticks: it reads the pending
\* flag, and an answer may still come in before it sends.
RetryDue ==
    /\ doing = "resolve" /\ cmd.word # "wget" /\ tries = 0 /\ dns_is_pending
    /\ doing' = "retry" /\ tries' = 1
    /\ UNCHANGED <<dhcp, netif, routes, arp, cache, pending, queries, ping, cmd, wire>>

\* resolve_hostname has looked in the cache, or at the pending flag, before.
QueryName ==
    /\ doing \in {"query", "retry"} /\ dns_send_query(cmd.name)
    /\ doing' = "resolve"
    /\ UNCHANGED <<dhcp, netif, routes, arp, cache, ping, cmd, tries>>

\* The wait is over: answered, or timed out.
dns_get_result ==
    /\ doing = "resolve"
    /\ dns_is_pending => (cmd.word = "wget" \/ tries = 1)
    /\ \/ /\ pending.completed /\ pending.success
          /\ cmd' = [cmd EXCEPT !.target = pending.ip]
          /\ doing' = IF cmd.word = "wget" THEN "connect" ELSE "start"
       \/ /\ ~(pending.completed /\ pending.success)
          /\ cmd' = NoCommand /\ doing' = "shell"
    /\ UNCHANGED <<dhcp, netif, routes, arp, cache, pending, queries, ping, tries, wire>>

Connected ==
    /\ doing = "connect" /\ doing' = "shell" /\ cmd' = NoCommand
    /\ UNCHANGED <<dhcp, netif, routes, arp, cache, pending, queries, ping, tries, wire>>

(***************************************************************************)
(* Ping.  A request that finds no card address is dropped and tried again, *)
(* three times at most, twice for a continuous ping.  `before' is the      *)
(* count of requests sent that tells whether this one left: 0 for a single *)
(* ping, and in a continuous one what the count is after the first try, so *)
(* that a request that did leave is sent once more.                        *)
(***************************************************************************)
pingUnchanged == <<dhcp, netif, routes, arp, cache, pending, queries>>

ping_ip ==
    /\ doing = "start" /\ ping.id < scene.sessions
    /\ ping' = [id |-> ping.id + 1, sequence |-> 1, sent |-> 0, received |-> 0,
                waiting |-> FALSE, active |-> TRUE, before |-> 0]
    /\ tries' = 0 /\ doing' = "send"
    /\ UNCHANGED <<pingUnchanged, cmd, wire>>

SeqBefore == IF cmd.word = "ping" /\ tries = 0 THEN ping.sent ELSE ping.before

icmp_send_echo_request ==
    /\ doing = "send"
    /\ \/ /\ ~Reachable(cmd.target)
          /\ wire' = wire \cup ArpAsked(cmd.target)
          /\ ping' = [ping EXCEPT !.before = SeqBefore]
          /\ doing' = "await"
       \/ /\ Reachable(cmd.target)
          /\ ping' = [ping EXCEPT !.sent = @ + 1, !.waiting = TRUE]
          /\ doing' = "transmit" /\ UNCHANGED wire
    /\ UNCHANGED <<pingUnchanged, cmd, tries>>

\* ipv4_send_packet: the request leaves, and the host may answer.
Transmit ==
    /\ doing = "transmit" /\ doing' = "await"
    /\ wire' = wire \cup {[kind |-> "echo", id |-> ping.id, sequence |-> ping.sequence]}
    /\ ping' = [ping EXCEPT !.before = SeqBefore]
    /\ UNCHANGED <<pingUnchanged, cmd, tries>>

Retries == IF cmd.word = "ping" THEN 2 ELSE 3

PingRetry ==
    /\ doing = "await" /\ ping.sent = ping.before /\ tries < Retries
    /\ tries' = tries + 1 /\ doing' = "send"
    /\ UNCHANGED <<pingUnchanged, cmd, ping, wire>>

\* The wait of a round ends with a reply or with its timeout.
RoundOver == doing = "await" /\ (ping.sent = ping.before => tries = Retries)

ping_ip_continuous ==
    /\ cmd.word = "ping" /\ RoundOver /\ ping.sequence < scene.echoes
    /\ ping' = [ping EXCEPT !.sequence = @ + 1, !.waiting = FALSE]
    /\ tries' = 0 /\ doing' = "send"
    /\ UNCHANGED <<pingUnchanged, cmd, wire>>

\* A single ping ends with its round, a continuous one when 'q' is typed.
PingEnds ==
    /\ doing = "await" /\ (cmd.word = "ping" \/ RoundOver)
    /\ ping' = [ping EXCEPT !.active = FALSE]
    /\ doing' = "shell" /\ cmd' = NoCommand /\ tries' = 0
    /\ UNCHANGED <<pingUnchanged, wire>>

\* Mutation: a reply counts whether or not one is awaited.
CountsUnawaited(m) == ping.active /\ m.id = ping.id

\* A reply is ours when one is awaited and its identifier is that of this
\* session; its sequence number is not compared.
OurReply(m) == ping.active /\ ping.waiting /\ m.id = ping.id

icmp_handle_packet(m) ==
    /\ m.kind = "echo" /\ OurReply(m)
    /\ ping' = [ping EXCEPT !.received = @ + 1, !.waiting = FALSE]
    /\ UNCHANGED <<dhcp, netif, routes, arp, cache, pending, wire>>

(***************************************************************************)
(* The network interrupt.  A host of the local network may also send an    *)
(* ARP request of its own, from which its address is learnt.               *)
(***************************************************************************)
Neighbours == {Lease[s].gateway : s \in Server}

arp_handle_packet ==
    /\ \/ \E m \in wire : m.kind = "arp" /\ arp' = arp_cache_add(m.ip)
       \/ \E ip \in Neighbours : arp' = arp_cache_add(ip)
    /\ UNCHANGED <<dhcp, netif, routes, cache, pending, ping, wire>>

Deliver ==
    /\ \/ arp_handle_packet
       \/ \E m \in wire : dhcp_handle_packet(m) \/ dns_handle_packet(m) \/ icmp_handle_packet(m)
    /\ UNCHANGED <<queries, cmd, tries, doing>>

NetClientInit ==
    /\ dhcp = [state |-> "INIT", offered |-> None, server |-> None]
    /\ scene \in Scenes /\ netif = scene.config
    /\ routes = <<>> /\ arp = <<>> /\ cache = <<>> /\ queries = 0
    /\ pending = [id |-> 0, name |-> None, ip |-> None, completed |-> FALSE, success |-> FALSE]
    /\ ping = [id |-> 0, sequence |-> 0, sent |-> 0, received |-> 0,
               waiting |-> FALSE, active |-> FALSE, before |-> 0]
    /\ cmd = NoCommand /\ tries = 0 /\ doing = "boot" /\ wire = {}

NetClientNext ==
    /\ \/ dhcp_discover \/ dns_init \/ cmd_ping \/ http_get
       \/ RetryDue \/ QueryName \/ dns_get_result \/ Connected
       \/ ping_ip \/ icmp_send_echo_request \/ Transmit
       \/ PingRetry \/ ping_ip_continuous \/ PingEnds
       \/ Deliver
    /\ UNCHANGED scene

NetClientSpec == NetClientInit /\ [][NetClientNext]_netVars

(***************************************************************************)
(* Properties.                                                             *)
(***************************************************************************)

\* A bound interface holds the lease of the server the request named, at
\* the address it offered, whatever the other servers send late or twice
\* (dhcp_handle_offer, dhcp_handle_ack).
LeaseKept ==
    dhcp.state = "BOUND" =>
        dhcp.server \in Server /\ netif = Lease[dhcp.server] /\ dhcp.offered = netif.ip

\* Once the machine has booted with an address, a host of its network is
\* reached directly and every other through the configured gateway
\* (route_update_from_netif, route_lookup, route_get_next_hop).
ConfiguredIsRouted ==
    doing # "boot" /\ netif # NoConfig =>
        \A ip \in Address :
            route_get_next_hop(ip) = IF ip \in OnLink THEN ip ELSE netif.gateway

\* A name that was looked up stands for its own address, in the command
\* that uses it and in the cache, although answers to given-up questions
\* come in late (dns_send_query, dns_handle_packet, resolve_hostname).
NamesAnswered ==
    /\ cmd.name # None /\ cmd.target # None => cmd.target = AddrOf[cmd.name]
    /\ \A i \in DOMAIN cache : cache[i].ip = AddrOf[cache[i].name]

\* The loss a ping reports is never negative: a request awaited or a reply
\* counted stands for a request sent, and only a reply to this session is
\* counted (icmp_send_echo_request, icmp_handle_packet, print_ping_stats).
RepliesCounted ==
    /\ ping.received + (IF ping.waiting THEN 1 ELSE 0) <= ping.sent
    /\ ping.received > 0 => \E m \in wire : m.kind = "echo" /\ m.id = ping.id

\* What the machine booted with holds from then on: the lease granted and
\* the routes that follow from it (dhcp_handle_packet, route_lookup).
ConfigurationHolds == LeaseKept /\ ConfiguredIsRouted
==============================================================================
