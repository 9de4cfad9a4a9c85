--------------------------- MODULE NetClientProofs ---------------------------
(***************************************************************************)
(* The client protocols, for every set of servers, hosts, names and        *)
(* scenes, and every size of the caches: whatever the network loses,       *)
(* repeats or delivers late, the lease and the routes, the names and the   *)
(* counts of ping are right.                                               *)
(***************************************************************************)
EXTENDS NetClient, ListLemmas

-----------------------------------------------------------------------------
(* DHCP and the routes.                                                    *)

LeaseTypeOK ==
    /\ scene \in Scenes
    /\ dhcp \in [state : {"INIT", "SELECTING", "REQUESTING", "BOUND"},
                 offered : OnLink \cup {None}, server : Server \cup {None}]
    /\ \A m \in wire : m.kind \in {"OFFER", "ACK", "NAK"} => m.server \in Server

Granted(m) == m.kind \in {"ACK", "NAK"}

(* Before the discovery nothing has been asked; dhcp_discover is sent once. *)
Unasked ==
    doing = "boot" /\ tries = 0 => dhcp.state = "INIT" /\ \A m \in wire : ~Granted(m)

(* Only the server that was named in the request has been asked.           *)
Exchange ==
    /\ dhcp.state = "SELECTING" => \A m \in wire : ~Granted(m)
    /\ dhcp.state \in {"REQUESTING", "BOUND"} =>
          /\ dhcp.server \in Server /\ dhcp.offered = Lease[dhcp.server].ip
          /\ \A m \in wire : Granted(m) => m.server = dhcp.server

(* The routes are those of the lease, and installed once.                  *)
Installed ==
    /\ dhcp.state # "BOUND" => netif = scene.config /\ routes = <<>>
    /\ dhcp.state = "BOUND" =>
          /\ netif = Lease[dhcp.server]
          /\ routes = <<[prefix |-> 24, gateway |-> None],
                        [prefix |-> 0, gateway |-> netif.gateway]>>

LeaseIInv == LeaseTypeOK /\ Unasked /\ Exchange /\ Installed

(* The scenes are well formed, and a lease is never taken for no           *)
(* configuration at all.                                                   *)
LEMMA NetConstants ==
    /\ Lease \in [Server -> Configuration] /\ AddrOf \in [Name -> Address]
    /\ None \notin Name /\ None \notin Address
    /\ \A s \in Server : Lease[s] # NoConfig
    /\ ARP_CACHE_SIZE \in Nat \ {0} /\ DNS_CACHE_SIZE \in Nat \ {0}
    /\ \A s \in Scenes : /\ s.config \in Configuration \cup {NoConfig}
                         /\ s.commands \subseteq {"ping", "ping -c 1", "wget"}
                         /\ s.names \subseteq Name /\ s.addresses \subseteq Address
<1>1. /\ Lease \in [Server -> Configuration] /\ AddrOf \in [Name -> Address]
      /\ None \notin Name /\ None \notin Address
  BY NetClientAssumption
<1>2. ASSUME NEW s \in Server PROVE Lease[s] # NoConfig
  <2>1. Lease[s].ip \in Address
    BY <1>1 DEF Configuration, Address
  <2>2. NoConfig.ip = None
    BY DEF NoConfig
  <2> QED BY <2>1, <2>2, <1>1
<1>3. ARP_CACHE_SIZE \in Nat \ {0} /\ DNS_CACHE_SIZE \in Nat \ {0}
  BY NetClientAssumption
<1>4. \A s \in Scenes : /\ s.config \in Configuration \cup {NoConfig}
                        /\ s.commands \subseteq {"ping", "ping -c 1", "wget"}
                        /\ s.names \subseteq Name /\ s.addresses \subseteq Address
  BY NetClientAssumption
<1> QED BY <1>1, <1>2, <1>3, <1>4

(* A step that leaves the DHCP client and the routes alone and puts no     *)
(* DHCP message on the wire.                                               *)
LeaseFrame ==
    /\ UNCHANGED <<scene, dhcp, netif, routes>>
    /\ \A m \in wire' : m.kind \in {"OFFER", "ACK", "NAK"} => m \in wire
    /\ doing' = "boot" /\ tries' = 0 => doing = "boot" /\ tries = 0

LEMMA LeaseFrameStep == LeaseIInv /\ LeaseFrame => LeaseIInv'
<1> SUFFICES ASSUME LeaseIInv, LeaseFrame PROVE LeaseIInv'
  OBVIOUS
<1>1. LeaseTypeOK'
  BY Zenon DEF LeaseIInv, LeaseFrame, LeaseTypeOK
<1>2. \A m \in wire' : Granted(m) => m \in wire
  BY DEF LeaseFrame, Granted
<1>3. Unasked'
  BY <1>2 DEF LeaseIInv, LeaseFrame, Unasked, Granted
<1>4. Exchange'
  BY <1>2 DEF LeaseIInv, LeaseFrame, Exchange, Granted
<1>5. Installed'
  BY DEF LeaseIInv, LeaseFrame, Installed
<1> QED BY <1>1, <1>3, <1>4, <1>5 DEF LeaseIInv

(* What a packet to some host adds to the wire is no DHCP message, unless  *)
(* its answers are.                                                        *)
LEMMA AnswersOnly ==
    /\ \A ip : \A m \in ArpAsked(ip) : m.kind = "arp"
    /\ \A ip, answers : \A m \in udp_send_packet(ip, answers) :
          m \in answers \/ m.kind = "arp"
<1>1. \A ip : \A m \in ArpAsked(ip) : m.kind = "arp"
  BY DEF ArpAsked, ArpReply
<1> QED BY <1>1 DEF udp_send_packet

(* Every step that is not one of the DHCP client leaves it alone.          *)
LEMMA OthersLeaveLease ==
    ASSUME LeaseIInv, UNCHANGED scene,
           \/ dns_init \/ cmd_ping \/ http_get \/ RetryDue \/ QueryName \/ dns_get_result
           \/ Connected \/ ping_ip \/ icmp_send_echo_request \/ Transmit
           \/ PingRetry \/ ping_ip_continuous \/ PingEnds
           \/ Deliver /\ ~\E m \in wire : dhcp_handle_packet(m)
    PROVE  LeaseFrame
<1> USE DEF LeaseFrame
<1>0. ASSUME NEW n, dns_send_query(n)
      PROVE  \A m \in wire' : m.kind \in {"OFFER", "ACK", "NAK"} => m \in wire
  <2>1. CASE DnsFromCache(n)
    BY <2>1 DEF DnsFromCache
  <2>2. CASE DnsAsk(n)
    BY <2>2, AnswersOnly DEF DnsAsk
  <2> QED BY <1>0, <2>1, <2>2 DEF dns_send_query
<1>1. CASE dns_init
  BY <1>1 DEF dns_init
<1>2. CASE cmd_ping
  BY <1>2 DEF cmd_ping, Command
<1>3. CASE http_get
  BY <1>3, <1>0 DEF http_get, Command
<1>4. CASE RetryDue
  BY <1>4 DEF RetryDue
<1>5. CASE QueryName
  BY <1>5, <1>0 DEF QueryName
<1>6. CASE dns_get_result
  BY <1>6 DEF dns_get_result
<1>7. CASE Connected
  BY <1>7 DEF Connected
<1>8. CASE ping_ip
  BY <1>8 DEF ping_ip, pingUnchanged
<1>9. CASE icmp_send_echo_request
  BY <1>9, AnswersOnly DEF icmp_send_echo_request, pingUnchanged
<1>10. CASE Transmit
  BY <1>10 DEF Transmit, pingUnchanged
<1>11. CASE PingRetry
  BY <1>11 DEF PingRetry, pingUnchanged
<1>12. CASE ping_ip_continuous
  BY <1>12 DEF ping_ip_continuous, pingUnchanged
<1>13. CASE PingEnds
  BY <1>13 DEF PingEnds, pingUnchanged
<1>14. CASE Deliver /\ ~\E m \in wire : dhcp_handle_packet(m)
  BY <1>14 DEF Deliver, arp_handle_packet, dns_handle_packet, icmp_handle_packet
<1> QED BY <1>1, <1>2, <1>3, <1>4, <1>5, <1>6, <1>7, <1>8, <1>9, <1>10, <1>11, <1>12, <1>13, <1>14

(* The discovery: dhcp_discover puts the offers on the wire.               *)
LEMMA DiscoverStep == LeaseIInv /\ dhcp_discover /\ UNCHANGED scene => LeaseIInv'
<1> SUFFICES ASSUME LeaseIInv, dhcp_discover, UNCHANGED scene PROVE LeaseIInv'
  OBVIOUS
<1>1. /\ dhcp' = [dhcp EXCEPT !.state = "SELECTING"]
      /\ wire' = wire \cup {[kind |-> "OFFER", server |-> s] : s \in Server}
      /\ doing = "boot" /\ tries = 0 /\ tries' = 1
      /\ UNCHANGED <<netif, routes, doing>>
  BY DEF dhcp_discover
<1>2. \A m \in wire : ~Granted(m)
  BY <1>1 DEF LeaseIInv, Unasked
<1>3. \A m \in wire' : ~Granted(m)
  BY <1>1, <1>2 DEF Granted
<1>4. LeaseTypeOK'
  BY <1>1 DEF LeaseIInv, LeaseTypeOK
<1>5. dhcp.state = "INIT" /\ dhcp'.state = "SELECTING"
  BY <1>1 DEF LeaseIInv, LeaseTypeOK, Unasked
<1>6. Unasked' /\ Exchange'
  BY <1>1, <1>3, <1>5 DEF Unasked, Exchange
<1>7. Installed'
  BY <1>1, <1>5 DEF LeaseIInv, Installed
<1> QED BY <1>4, <1>6, <1>7 DEF LeaseIInv

(* The handler of an offer: the answers of the chosen server, and of no    *)
(* other, come onto the wire.                                              *)
LEMMA OfferStep ==
    ASSUME LeaseIInv, UNCHANGED <<scene, doing, tries>>, NEW m \in wire,
           dhcp.state = "SELECTING", dhcp_handle_offer(m)
    PROVE  LeaseIInv'
<1>1. PICK answer \in {"ACK", "NAK"} : wire' = wire \cup {[kind |-> answer, server |-> m.server]}
  BY DEF dhcp_handle_offer
<1>2. /\ dhcp' = [state |-> "REQUESTING", offered |-> Lease[m.server].ip, server |-> m.server]
      /\ m.server \in Server /\ UNCHANGED <<netif, routes>>
  BY DEF dhcp_handle_offer, LeaseIInv, LeaseTypeOK
<1>3. Lease[m.server].ip \in OnLink
  BY <1>2, NetConstants DEF Configuration
<1>4. LeaseTypeOK'
  BY <1>1, <1>2, <1>3 DEF LeaseIInv, LeaseTypeOK
<1>5. Unasked'
  BY DEF LeaseIInv, Unasked
<1>6. Exchange'
  <2>1. \A x \in wire : ~Granted(x)
    BY DEF LeaseIInv, Exchange
  <2>2. \A x \in wire' : Granted(x) => x.server = m.server
    BY <1>1, <2>1
  <2> QED BY <1>2, <2>2 DEF Exchange, Granted
<1>7. Installed'
  BY <1>2 DEF LeaseIInv, Installed
<1> QED BY <1>4, <1>5, <1>6, <1>7 DEF LeaseIInv

(* The handler of the answer to the request.                               *)
LEMMA AckStep ==
    ASSUME LeaseIInv, UNCHANGED <<scene, doing, tries>>, NEW m \in wire,
           dhcp.state = "REQUESTING", dhcp_handle_ack(m)
    PROVE  LeaseIInv'
<1>1. /\ UNCHANGED wire
      /\ dhcp' = [dhcp EXCEPT !.state = IF m.kind = "NAK" THEN "INIT" ELSE "BOUND"]
      /\ \/ m.kind = "NAK" /\ UNCHANGED <<netif, routes>>
         \/ m.kind = "ACK" /\ netif' = Lease[m.server] /\ route_update_from_netif(Lease[m.server])
  BY DEF dhcp_handle_ack
<1>2. m.server = dhcp.server /\ dhcp.server \in Server /\ dhcp.offered = Lease[dhcp.server].ip
  BY <1>1 DEF LeaseIInv, Exchange, Granted
<1>3. /\ dhcp'.state = IF m.kind = "NAK" THEN "INIT" ELSE "BOUND"
      /\ dhcp'.server = dhcp.server /\ dhcp'.offered = dhcp.offered
  BY <1>1 DEF LeaseIInv, LeaseTypeOK
<1>4. LeaseTypeOK'
  BY <1>1, <1>3 DEF LeaseIInv, LeaseTypeOK
<1>5. Unasked'
  BY DEF LeaseIInv, Unasked
<1>6. Exchange'
  BY <1>1, <1>2, <1>3 DEF LeaseIInv, Exchange, Granted
<1>7. Installed'
  <2>1. netif = scene.config /\ routes = <<>>
    BY DEF LeaseIInv, Installed
  <2>2. CASE m.kind = "NAK"
    BY <1>1, <1>3, <2>1, <2>2 DEF Installed
  <2>3. CASE m.kind = "ACK"
    <3>1. netif' = Lease[dhcp'.server]
      BY <1>1, <1>2, <1>3, <2>3
    <3>2. routes' = <<[prefix |-> 24, gateway |-> None],
                      [prefix |-> 0, gateway |-> Lease[m.server].gateway]>>
      BY <1>1, <2>1, <2>3 DEF route_update_from_netif
    <3> QED BY <1>2, <1>3, <2>3, <3>1, <3>2 DEF Installed
  <2> QED BY <1>1, <2>2, <2>3
<1> QED BY <1>4, <1>5, <1>6, <1>7 DEF LeaseIInv

LEMMA LeaseInductive == LeaseIInv /\ [NetClientNext]_netVars => LeaseIInv'
<1> SUFFICES ASSUME LeaseIInv, [NetClientNext]_netVars PROVE LeaseIInv'
  OBVIOUS
<1>1. CASE UNCHANGED netVars
  <2>1. LeaseFrame
    BY <1>1 DEF netVars, LeaseFrame
  <2> QED BY <2>1, LeaseFrameStep
<1>2. CASE dhcp_discover /\ UNCHANGED scene
  BY <1>2, DiscoverStep
<1>3. CASE UNCHANGED scene /\ Deliver /\ \E m \in wire : dhcp_handle_packet(m)
  <2>1. PICK m \in wire : dhcp_handle_packet(m)
    BY <1>3
  <2>2. UNCHANGED <<scene, doing, tries>>
    BY <1>3 DEF Deliver
  <2>3. CASE dhcp.state = "SELECTING" /\ dhcp_handle_offer(m)
    BY <2>2, <2>3, OfferStep
  <2>4. CASE dhcp.state = "REQUESTING" /\ dhcp_handle_ack(m)
    BY <2>2, <2>4, AckStep
  <2> QED BY <2>1, <2>3, <2>4 DEF dhcp_handle_packet
<1>4. CASE /\ UNCHANGED scene
           /\ \/ dns_init \/ cmd_ping \/ http_get \/ RetryDue \/ QueryName \/ dns_get_result
              \/ Connected \/ ping_ip \/ icmp_send_echo_request \/ Transmit
              \/ PingRetry \/ ping_ip_continuous \/ PingEnds
              \/ Deliver /\ ~\E m \in wire : dhcp_handle_packet(m)
  BY <1>4, OthersLeaveLease, LeaseFrameStep
<1> QED BY <1>1, <1>2, <1>3, <1>4 DEF NetClientNext

LEMMA LeaseInitial == NetClientInit => LeaseIInv
<1> SUFFICES ASSUME NetClientInit PROVE LeaseIInv
  OBVIOUS
<1>1. LeaseTypeOK
  BY DEF NetClientInit, LeaseTypeOK
<1>2. Unasked /\ Exchange /\ Installed
  BY DEF NetClientInit, Unasked, Exchange, Installed
<1> QED BY <1>1, <1>2 DEF LeaseIInv

(* The routes of a lease lead a host of the local network to itself and    *)
(* every other to the gateway: route_lookup takes the longest prefix.      *)
LEMMA LeaseRouted ==
    ASSUME NEW g, g # None, NEW ip \in Address,
           routes = <<[prefix |-> 24, gateway |-> None], [prefix |-> 0, gateway |-> g]>>
    PROVE  route_get_next_hop(ip) = IF ip \in OnLink THEN ip ELSE g
<1> DEFINE near == [prefix |-> 24, gateway |-> None]
           far == [prefix |-> 0, gateway |-> g]
<1>1. Range(routes) = {near, far}
  BY DEF Range
<1>2. near.prefix = 24 /\ far.prefix = 0 /\ near.gateway = None /\ far.gateway = g
  OBVIOUS
<1>3. Matches(far, ip) /\ (Matches(near, ip) <=> ip \in OnLink)
  BY <1>2 DEF Matches
<1>4. ~\A r \in Range(routes) : ~Matches(r, ip)
  BY <1>1, <1>3
<1> DEFINE Best(r) == /\ Matches(r, ip)
                      /\ \A q \in Range(routes) : Matches(q, ip) => q.prefix <= r.prefix
<1>5. CASE ip \in OnLink
  <2>1. Best(near) /\ ~Best(far)
    BY <1>1, <1>2, <1>3, <1>5
  <2>2. route_lookup(ip) = near
    BY <1>1, <2>1 DEF route_lookup
  <2> QED BY <1>2, <1>4, <1>5, <2>2 DEF route_get_next_hop
<1>6. CASE ip \notin OnLink
  <2>1. Best(far) /\ ~Best(near)
    BY <1>1, <1>2, <1>3, <1>6
  <2>2. route_lookup(ip) = far
    BY <1>1, <2>1 DEF route_lookup
  <2> QED BY <1>2, <1>4, <1>6, <2>2 DEF route_get_next_hop
<1> QED BY <1>5, <1>6

(* A bound interface holds the lease of the server that was named in the   *)
(* request, whatever the servers send late or twice; and unless the        *)
(* configuration was static, every host is then routed as the lease says   *)
(* (dhcp_handle_offer, dhcp_handle_ack, route_update_from_netif).          *)
THEOREM ConfigurationAlwaysHolds ==
    NetClientSpec => [](LeaseKept /\ (scene.config = NoConfig => ConfigurationHolds))
<1>1. LeaseIInv => LeaseKept
  BY DEF LeaseIInv, Exchange, Installed, LeaseKept
<1>2. LeaseIInv /\ scene.config = NoConfig => ConfiguredIsRouted
  <2> SUFFICES ASSUME LeaseIInv, scene.config = NoConfig, netif # NoConfig,
                      NEW ip \in Address
               PROVE  route_get_next_hop(ip) = IF ip \in OnLink THEN ip ELSE netif.gateway
    BY DEF ConfiguredIsRouted
  <2>1. /\ netif = Lease[dhcp.server] /\ dhcp.server \in Server
        /\ routes = <<[prefix |-> 24, gateway |-> None], [prefix |-> 0, gateway |-> netif.gateway]>>
    BY DEF LeaseIInv, Installed, Exchange
  <2>2. netif.gateway # None
    <3>1. netif \in Configuration
      BY <2>1, NetConstants
    <3>2. netif.gateway \in Address
      BY <3>1 DEF Configuration, Address
    <3> QED BY <3>2, NetConstants
  <2> QED BY <2>1, <2>2, LeaseRouted
<1>3. NetClientSpec => []LeaseIInv
  BY LeaseInitial, LeaseInductive, PTL DEF NetClientSpec
<1>4. LeaseIInv => LeaseKept /\ (scene.config = NoConfig => ConfigurationHolds)
  BY <1>1, <1>2 DEF ConfigurationHolds
<1> QED BY <1>3, <1>4, PTL

-----------------------------------------------------------------------------
(* Names.                                                                  *)

(* A wget of a cached name closes a pending query and keeps its identifier, *)
(* so that an answer to a question about another name fits it: scenes with *)
(* wget ask for one name.                                                  *)
WgetOneName == "wget" \in scene.commands => \A m, n \in scene.names : m = n

Entry == [name : Name, ip : Address]
Commands == [word : {"ping", "ping -c 1", "wget", None},
             name : Name \cup {None}, target : Address \cup {None}]
Queries == [id : Nat, name : Name \cup {None}, ip : Address \cup {None},
            completed : BOOLEAN, success : BOOLEAN]

NamesTypeOK ==
    /\ scene \in Scenes /\ queries \in Nat
    /\ cmd \in Commands /\ pending \in Queries /\ cache \in Seq(Entry)

CacheRight == \A i \in DOMAIN cache : cache[i].ip = AddrOf[cache[i].name]

(* An answer that fits the pending query is about its name.                *)
AnswersRight ==
    /\ pending.id = queries
    /\ \A m \in wire : m.kind = "dns" =>
          /\ m.id \in 1 .. queries /\ m.ip \in Address \cup {None}
          /\ m.id = pending.id /\ m.ip # None => m.ip = AddrOf[pending.name]

PendingRight ==
    /\ pending.id # 0 => pending.name \in scene.names
    /\ pending.completed /\ pending.success => 
          pending.name \in Name /\ pending.ip = AddrOf[pending.name]

(* The command that waits for an answer is the one that asked.  Before it  *)
(* asks, its name can only have come into the cache through an answer to   *)
(* an older question about the same name.                                  *)
Asking ==
    /\ doing \in {"query", "retry", "resolve"} => cmd.name \in scene.names
    /\ doing \in {"retry", "resolve"} => pending.name = cmd.name
    /\ doing = "query" /\ Cached(cmd.name) => pending.name = cmd.name

TargetRight == cmd.name # None /\ cmd.target # None => cmd.target = AddrOf[cmd.name]

NamesIInv == NamesTypeOK /\ CacheRight /\ AnswersRight /\ PendingRight /\ Asking /\ TargetRight

(* A lookup in the cache takes an entry of the name that was asked for.    *)
LEMMA LookupRight ==
    ASSUME NamesTypeOK, CacheRight, NEW n \in Name, Cached(n)
    PROVE  dns_cache_lookup(n) = AddrOf[n]
<1> DEFINE I == {i \in DOMAIN cache : cache[i].name = n}
<1>1. I # {} /\ I \in SUBSET Nat
  BY DEF NamesTypeOK, Cached
<1>2. Min(I) \in I
  BY <1>1, LeastElement DEF Min
<1>3. cache[Min(I)].ip = AddrOf[n]
  BY <1>2 DEF CacheRight
<1> QED BY <1>3 DEF dns_cache_lookup

(* A new entry takes a free slot or the first one.                         *)
LEMMA CacheAddRight ==
    ASSUME NamesTypeOK, CacheRight, NEW n \in Name, cache' = dns_cache_add(n, AddrOf[n])
    PROVE  /\ cache' \in Seq(Entry) /\ CacheRight'
           /\ \A x : Cached(x)' => Cached(x) \/ x = n
<1> DEFINE new == [name |-> n, ip |-> AddrOf[n]]
<1>1. new \in Entry /\ new.ip = AddrOf[new.name] /\ new.name = n
  BY NetConstants DEF Entry
<1>2. cache \in Seq(Entry) /\ Len(cache) \in Nat /\ DOMAIN cache = 1 .. Len(cache)
  BY DEF NamesTypeOK
<1>3. CASE Len(cache) < DNS_CACHE_SIZE
  <2>1. cache' = Append(cache, new)
    BY <1>3 DEF dns_cache_add
  <2>2. /\ cache' \in Seq(Entry) /\ DOMAIN cache' = 1 .. Len(cache) + 1
        /\ \A i \in 1 .. Len(cache) : cache'[i] = cache[i]
        /\ cache'[Len(cache) + 1] = new
    BY <1>1, <1>2, <2>1
  <2>3. \A i \in DOMAIN cache' : \/ i \in DOMAIN cache /\ cache'[i] = cache[i]
                                 \/ cache'[i] = new
    BY <1>2, <2>2
  <2> QED BY <1>1, <2>2, <2>3 DEF CacheRight, Cached
<1>4. CASE ~(Len(cache) < DNS_CACHE_SIZE)
  <2>1. cache' = [cache EXCEPT ![1] = new]
    BY <1>4 DEF dns_cache_add
  <2>2. 1 \in DOMAIN cache
    <3>1. DNS_CACHE_SIZE \in Nat \ {0}
      BY NetConstants, Zenon
    <3> QED BY <1>2, <1>4, <3>1
  <2>3. cache' \in Seq(Entry) /\ DOMAIN cache' = DOMAIN cache
    BY <1>1, <1>2, <2>1, <2>2
  <2>4. \A i \in DOMAIN cache' : \/ i \in DOMAIN cache /\ cache'[i] = cache[i]
                                 \/ cache'[i] = new
    BY <1>2, <2>1, <2>2
  <2> QED BY <1>1, <2>3, <2>4 DEF CacheRight, Cached
<1> QED BY <1>3, <1>4

(* The query for a name: from the cache it leaves the identifier alone,    *)
(* which is sound if the pending query was for the same name, or if there  *)
(* never was one.                                                          *)
LEMMA QueryStep ==
    ASSUME NamesTypeOK, CacheRight, AnswersRight, PendingRight,
           NEW n \in scene.names, dns_send_query(n), UNCHANGED <<scene, cache>>,
           Cached(n) /\ pending.id # 0 => pending.name = n
    PROVE  /\ queries' \in Nat
           /\ pending' \in Queries
           /\ AnswersRight' /\ PendingRight' /\ pending'.name = n
<1> n \in Name /\ AddrOf[n] \in Address
  BY NetConstants DEF NamesTypeOK
<1>1. CASE DnsFromCache(n)
  <2>1. /\ pending' = [pending EXCEPT !.ip = AddrOf[n], !.completed = TRUE,
                                      !.success = TRUE, !.name = n]
        /\ Cached(n) /\ UNCHANGED <<queries, wire>>
    BY <1>1, LookupRight DEF DnsFromCache
  <2>2. pending' \in Queries
    BY <2>1 DEF NamesTypeOK, Queries
  <2>3. pending'.id = pending.id /\ pending'.name = n /\ pending'.ip = AddrOf[n]
    BY <2>1 DEF NamesTypeOK, Queries
  <2>4. AnswersRight'
    <3>1. pending.id = queries
      BY DEF AnswersRight
    <3>2. ASSUME NEW m \in wire, m.kind = "dns" 
          PROVE  /\ m.id \in 1 .. queries /\ m.ip \in Address \cup {None}
                 /\ m.id = pending.id /\ m.ip # None => m.ip = AddrOf[n]
      <4>1. /\ m.id \in 1 .. queries /\ m.ip \in Address \cup {None}
            /\ m.id = pending.id /\ m.ip # None => m.ip = AddrOf[pending.name]
        BY <3>2 DEF AnswersRight
      <4>2. m.id = pending.id => pending.name = n
        BY <2>1, <4>1
      <4> QED BY <4>1, <4>2
    <3> QED BY <2>1, <2>3, <3>1, <3>2 DEF AnswersRight
  <2>5. PendingRight'
    BY <2>3 DEF PendingRight
  <2> QED BY <2>1, <2>2, <2>3, <2>4, <2>5 DEF NamesTypeOK
<1>2. CASE DnsAsk(n)
  <2>1. PICK a \in {AddrOf[n], None} :
          wire' = wire \cup udp_send_packet(DnsServer, {[kind |-> "dns", id |-> queries + 1, ip |-> a]})
    BY <1>2 DEF DnsAsk
  <2>2. /\ queries' = queries + 1
        /\ pending' = [pending EXCEPT !.id = queries + 1, !.name = n,
                                      !.completed = FALSE, !.success = FALSE]
    BY <1>2 DEF DnsAsk
  <2>3. queries \in Nat /\ queries' \in Nat
    BY <2>2 DEF NamesTypeOK, Queries
  <2>4. pending' \in Queries
    BY <2>2, <2>3 DEF NamesTypeOK, Queries
  <2>5. pending'.id = queries' /\ pending'.name = n
    BY <2>2 DEF NamesTypeOK, Queries
  <2>6. pending'.completed = FALSE
    BY <2>2 DEF NamesTypeOK, Queries
  <2>7. AnswersRight'
    <3>1. ASSUME NEW m \in wire', m.kind = "dns"
          PROVE  /\ m.id \in 1 .. queries' /\ m.ip \in Address \cup {None}
                 /\ m.id = queries' /\ m.ip # None => m.ip = AddrOf[n]
      <4>1. CASE m \in wire
        <5>1. m.id \in 1 .. queries /\ m.ip \in Address \cup {None}
          BY <3>1, <4>1 DEF AnswersRight
        <5> QED BY <2>2, <2>3, <5>1
      <4>2. CASE m = [kind |-> "dns", id |-> queries + 1, ip |-> a]
        BY <2>1, <2>2, <2>3, <4>2
      <4> QED BY <2>1, <3>1, <4>1, <4>2, AnswersOnly
    <3> QED BY <2>5, <3>1 DEF AnswersRight
  <2>8. PendingRight'
    BY <2>5, <2>6 DEF PendingRight
  <2> QED BY <2>3, <2>4, <2>5, <2>7, <2>8
<1> QED BY <1>1, <1>2 DEF dns_send_query

(* A step that asks nothing, answers nothing and starts no command.        *)
NamesFrame ==
    /\ UNCHANGED <<scene, queries, cmd, pending, cache>>
    /\ \A m \in wire' : m.kind = "dns" => m \in wire
    /\ doing' \in {"retry", "resolve"} => doing \in {"retry", "resolve"}
    /\ doing' = "query" => doing = "query"

LEMMA NamesFrameStep == NamesIInv /\ NamesFrame => NamesIInv'
<1> SUFFICES ASSUME NamesIInv, NamesFrame PROVE NamesIInv'
  OBVIOUS
<1>1. NamesTypeOK' /\ CacheRight' /\ PendingRight' /\ TargetRight'
  BY Zenon DEF NamesIInv, NamesFrame, NamesTypeOK, CacheRight, PendingRight, TargetRight
<1>2. AnswersRight'
  BY DEF NamesIInv, NamesFrame, AnswersRight
<1>3. Asking'
  <2>1. Cached(cmd.name)' = Cached(cmd.name)
    BY DEF NamesFrame, Cached
  <2> QED BY <2>1 DEF NamesIInv, NamesFrame, Asking
<1> QED BY <1>1, <1>2, <1>3 DEF NamesIInv

(* The steps of DHCP, ARP and ping leave the resolver and the command      *)
(* alone.                                                                  *)
LEMMA OthersLeaveNames ==
    ASSUME NamesIInv, UNCHANGED scene,
           \/ dhcp_discover \/ dns_init \/ RetryDue \/ ping_ip \/ icmp_send_echo_request
           \/ Transmit \/ PingRetry \/ ping_ip_continuous
           \/ Deliver /\ ~\E m \in wire : dns_handle_packet(m)
    PROVE  NamesFrame
<1> USE DEF NamesFrame
<1>1. CASE dhcp_discover
  BY <1>1 DEF dhcp_discover
<1>2. CASE dns_init
  BY <1>2 DEF dns_init
<1>3. CASE RetryDue
  BY <1>3 DEF RetryDue
<1>4. CASE ping_ip
  BY <1>4 DEF ping_ip, pingUnchanged
<1>5. CASE icmp_send_echo_request
  BY <1>5, AnswersOnly DEF icmp_send_echo_request, pingUnchanged
<1>6. CASE Transmit
  BY <1>6 DEF Transmit, pingUnchanged
<1>7. CASE PingRetry
  BY <1>7 DEF PingRetry, pingUnchanged
<1>8. CASE ping_ip_continuous
  BY <1>8 DEF ping_ip_continuous, pingUnchanged
<1>9. CASE Deliver /\ ~\E m \in wire : dns_handle_packet(m)
  <2>1. CASE arp_handle_packet
    BY <1>9, <2>1 DEF Deliver, arp_handle_packet
  <2>2. CASE \E m \in wire : dhcp_handle_packet(m)
    BY <1>9, <2>2 DEF Deliver, dhcp_handle_packet, dhcp_handle_offer, dhcp_handle_ack
  <2>3. CASE \E m \in wire : icmp_handle_packet(m)
    BY <1>9, <2>3 DEF Deliver, icmp_handle_packet
  <2> QED BY <1>9, <2>1, <2>2, <2>3 DEF Deliver
<1> QED BY <1>1, <1>2, <1>3, <1>4, <1>5, <1>6, <1>7, <1>8, <1>9

(* The shell reads a command: it may find its name in the cache, and       *)
(* otherwise asks in a later step.                                         *)
LEMMA PingCommandStep ==
    ASSUME NamesIInv, UNCHANGED scene, cmd_ping
    PROVE  NamesIInv'
<1>1. PICK w \in {"ping", "ping -c 1"} :
        \/ \E ip \in scene.addresses :
              Command(w, None, ip, "start") /\ UNCHANGED <<pending, queries, wire>>
        \/ \E n \in scene.names :
              \/ /\ Cached(n) /\ Command(w, n, dns_cache_lookup(n), "start")
                 /\ UNCHANGED <<pending, queries, wire>>
              \/ /\ ~Cached(n) /\ queries < scene.queries /\ Command(w, n, None, "query")
                 /\ UNCHANGED <<pending, queries, wire>>
  BY DEF cmd_ping
<1>2. UNCHANGED <<pending, queries, wire, cache>>
  BY <1>1 DEF Command
<1>3. scene \in Scenes /\ scene.names \subseteq Name /\ scene.addresses \subseteq Address
  BY NetConstants DEF NamesIInv, NamesTypeOK
<1>4. CacheRight' /\ AnswersRight' /\ PendingRight'
  BY <1>2, Zenon DEF NamesIInv, CacheRight, AnswersRight, PendingRight
<1> DEFINE Reads(n, ip) ==
             /\ cmd' = [word |-> w, name |-> n, target |-> ip]
             /\ n # None /\ ip # None => ip = AddrOf[n]
             /\ \/ doing' = "start"
                \/ doing' = "query" /\ n \in scene.names /\ ~Cached(n)
<1>5. \E n \in scene.names \cup {None}, ip \in Address \cup {None} : Reads(n, ip)
  <2>1. CASE \E ip \in scene.addresses : Command(w, None, ip, "start")
    BY <1>3, <2>1 DEF Command
  <2>2. ASSUME NEW n \in scene.names, Cached(n), Command(w, n, dns_cache_lookup(n), "start")
        PROVE  \E k \in scene.names \cup {None}, ip \in Address \cup {None} : Reads(k, ip)
    <3>1. dns_cache_lookup(n) = AddrOf[n] /\ AddrOf[n] \in Address
      BY <1>3, <2>2, LookupRight, NetConstants DEF NamesIInv
    <3> QED BY <2>2, <3>1 DEF Command
  <2>3. ASSUME NEW n \in scene.names, ~Cached(n), Command(w, n, None, "query")
        PROVE  \E k \in scene.names \cup {None}, ip \in Address \cup {None} : Reads(k, ip)
    BY <2>3 DEF Command
  <2> QED BY <1>1, <2>1, <2>2, <2>3
<1>6. PICK n \in scene.names \cup {None}, ip \in Address \cup {None} : Reads(n, ip)
  BY <1>5
<1>7. cmd' \in Commands /\ cmd'.name = n /\ cmd'.target = ip
  BY <1>3, <1>6 DEF Commands
<1>8. NamesTypeOK'
  BY <1>2, <1>7 DEF NamesIInv, NamesTypeOK
<1>9. TargetRight'
  BY <1>6, <1>7 DEF TargetRight
<1>10. Asking'
  <2>1. Cached(cmd.name)' <=> Cached(n)
    BY <1>2, <1>7 DEF Cached
  <2> QED BY <1>6, <1>7, <2>1 DEF Asking
<1> QED BY <1>4, <1>8, <1>9, <1>10 DEF NamesIInv

(* The part of the invariant that a query must find.                       *)
LEMMA AskStep ==
    ASSUME NamesIInv, UNCHANGED <<scene, cache>>, NEW n \in scene.names, dns_send_query(n),
           Cached(n) /\ pending.id # 0 => pending.name = n,
           cmd' \in Commands, cmd'.name = n, TargetRight', doing' = "resolve"
    PROVE  NamesIInv'
<1>1. /\ queries' \in Nat /\ pending' \in Queries
      /\ AnswersRight' /\ PendingRight' /\ pending'.name = n
  BY QueryStep DEF NamesIInv
<1>2. NamesTypeOK' /\ CacheRight'
  BY <1>1, Zenon DEF NamesIInv, NamesTypeOK, CacheRight
<1>3. Asking'
  BY <1>1 DEF Asking
<1> QED BY <1>1, <1>2, <1>3 DEF NamesIInv

(* wget asks at once; in its scenes the pending query is for the one name. *)
LEMMA WgetStep ==
    ASSUME NamesIInv, WgetOneName, UNCHANGED scene, http_get
    PROVE  NamesIInv'
<1>1. PICK n \in scene.names : Command("wget", n, None, "resolve") /\ dns_send_query(n)
  BY DEF http_get
<1>2. /\ UNCHANGED cache /\ "wget" \in scene.commands /\ doing' = "resolve"
      /\ cmd' = [word |-> "wget", name |-> n, target |-> None]
  BY <1>1 DEF Command
<1>3. n \in Name
  BY NetConstants DEF NamesIInv, NamesTypeOK
<1>4. cmd' \in Commands /\ cmd'.name = n /\ cmd'.target = None
  BY <1>2, <1>3 DEF Commands
<1>5. TargetRight'
  BY <1>4 DEF TargetRight
<1>6. pending.id # 0 => pending.name = n
  BY <1>2 DEF WgetOneName, NamesIInv, PendingRight
<1> QED BY <1>1, <1>2, <1>4, <1>5, <1>6, AskStep

(* resolve_hostname asks, the first time or again.                         *)
LEMMA QueryNameStep ==
    ASSUME NamesIInv, UNCHANGED scene, QueryName
    PROVE  NamesIInv'
<1>1. /\ UNCHANGED <<cache, cmd>> /\ doing' = "resolve" /\ doing \in {"query", "retry"}
      /\ dns_send_query(cmd.name)
  BY DEF QueryName
<1>2. cmd.name \in scene.names /\ (Cached(cmd.name) => pending.name = cmd.name)
  BY <1>1 DEF NamesIInv, Asking
<1>3. cmd' \in Commands /\ cmd'.name = cmd.name /\ TargetRight'
  BY <1>1, Zenon DEF NamesIInv, NamesTypeOK, TargetRight
<1> QED BY <1>1, <1>2, <1>3, AskStep

(* A command ends or takes the address of the answer.                      *)
LEMMA ResultStep ==
    ASSUME NamesIInv, UNCHANGED scene, dns_get_result \/ Connected \/ PingEnds
    PROVE  NamesIInv'
<1>1. UNCHANGED <<queries, pending, cache, wire>>
  BY DEF dns_get_result, Connected, PingEnds, pingUnchanged
<1>2. CacheRight' /\ AnswersRight' /\ PendingRight'
  BY <1>1, Zenon DEF NamesIInv, CacheRight, AnswersRight, PendingRight
<1>3. doing' \in {"shell", "connect", "start"}
  BY DEF dns_get_result, Connected, PingEnds
<1>4. Asking'
  BY <1>3 DEF Asking
<1>5. cmd' \in Commands /\ TargetRight'
  <2>1. CASE cmd' = NoCommand
    BY <2>1 DEF NoCommand, Commands, TargetRight
  <2>2. CASE /\ doing = "resolve" /\ pending.completed /\ pending.success
             /\ cmd' = [cmd EXCEPT !.target = pending.ip]
    <3>1. pending.name = cmd.name
      BY <2>2 DEF NamesIInv, Asking
    <3>2. pending.ip = AddrOf[pending.name]
      BY <2>2, Zenon DEF NamesIInv, PendingRight
    <3>3. pending.ip \in Address \cup {None}
      BY DEF NamesIInv, NamesTypeOK, Queries
    <3>4. cmd' \in Commands /\ cmd'.name = cmd.name /\ cmd'.target = pending.ip
      BY <2>2, <3>3 DEF NamesIInv, NamesTypeOK, Commands
    <3> QED BY <3>1, <3>2, <3>4 DEF TargetRight
  <2> QED BY <2>1, <2>2 DEF dns_get_result, Connected, PingEnds
<1>6. NamesTypeOK'
  BY <1>1, <1>5 DEF NamesIInv, NamesTypeOK
<1> QED BY <1>2, <1>4, <1>5, <1>6 DEF NamesIInv

(* An answer that fits: it is about the name that was asked for, however   *)
(* late it comes and however often.                                        *)
LEMMA AnswerStep ==
    ASSUME NamesIInv, UNCHANGED <<scene, queries, cmd, doing>>, NEW m \in wire,
           dns_handle_packet(m)
    PROVE  NamesIInv'
<1>1. m.kind = "dns" /\ m.id = pending.id /\ UNCHANGED wire
  BY DEF dns_handle_packet, AnswersPending
<1>2. /\ m.id \in 1 .. queries /\ m.ip \in Address \cup {None} /\ pending.id = queries
      /\ m.ip # None => m.ip = AddrOf[pending.name]
  BY <1>1 DEF NamesIInv, AnswersRight
<1>3. pending.name \in scene.names /\ pending.name \in Name
  <2>0. queries \in Nat
    BY Zenon DEF NamesIInv, NamesTypeOK
  <2>1. pending.id # 0
    BY <1>1, <1>2, <2>0
  <2>2. scene.names \subseteq Name
    BY NetConstants DEF NamesIInv, NamesTypeOK
  <2> QED BY <2>1, <2>2 DEF NamesIInv, PendingRight
<1>4. CASE m.ip = None
  <2>1. UNCHANGED cache /\ pending' = [pending EXCEPT !.completed = TRUE, !.success = FALSE]
    BY <1>4 DEF dns_handle_packet
  <2>2. pending' \in Queries /\ pending'.id = pending.id /\ pending'.name = pending.name
    BY <2>1 DEF NamesIInv, NamesTypeOK, Queries
  <2>3. pending'.success = FALSE
    BY <2>1 DEF NamesIInv, NamesTypeOK, Queries
  <2>4. NamesTypeOK' /\ CacheRight' /\ TargetRight'
    BY <2>1, <2>2, Zenon DEF NamesIInv, NamesTypeOK, CacheRight, TargetRight
  <2>5. AnswersRight' /\ Asking'
    BY <1>1, <2>1, <2>2 DEF NamesIInv, AnswersRight, Asking, Cached
  <2>6. PendingRight'
    BY <1>3, <2>2, <2>3 DEF PendingRight
  <2> QED BY <2>4, <2>5, <2>6 DEF NamesIInv
<1>5. CASE m.ip # None
  <2>1. /\ cache' = dns_cache_add(pending.name, m.ip)
        /\ pending' = [pending EXCEPT !.ip = m.ip, !.completed = TRUE, !.success = TRUE]
    BY <1>5 DEF dns_handle_packet
  <2>2. pending' \in Queries
    BY <1>2, <2>1 DEF NamesIInv, NamesTypeOK, Queries
  <2>3. pending'.id = pending.id /\ pending'.name = pending.name /\ pending'.ip = m.ip
    BY <2>1 DEF NamesIInv, NamesTypeOK, Queries
  <2>4. /\ cache' \in Seq(Entry) /\ CacheRight'
        /\ \A x : Cached(x)' => Cached(x) \/ x = pending.name
    BY <1>2, <1>3, <1>5, <2>1, CacheAddRight DEF NamesIInv
  <2>5. NamesTypeOK' /\ TargetRight'
    BY <2>2, <2>4, Zenon DEF NamesIInv, NamesTypeOK, TargetRight
  <2>6. AnswersRight'
    BY <1>1, <2>3 DEF NamesIInv, AnswersRight
  <2>7. PendingRight'
    BY <1>2, <1>3, <1>5, <2>3 DEF PendingRight
  <2>8. Asking'
    <3>1. Cached(cmd.name)' => Cached(cmd.name) \/ cmd.name = pending.name
      BY <2>4 DEF Cached
    <3> QED BY <2>3, <3>1 DEF NamesIInv, Asking
  <2> QED BY <2>4, <2>5, <2>6, <2>7, <2>8 DEF NamesIInv
<1> QED BY <1>4, <1>5

LEMMA NamesInductive ==
    NamesIInv /\ WgetOneName /\ [NetClientNext]_netVars => NamesIInv'
<1> SUFFICES ASSUME NamesIInv, WgetOneName, [NetClientNext]_netVars PROVE NamesIInv'
  OBVIOUS
<1>1. CASE UNCHANGED netVars
  <2>1. NamesFrame
    BY <1>1 DEF netVars, NamesFrame
  <2> QED BY <2>1, NamesFrameStep
<1>2. CASE UNCHANGED scene /\ cmd_ping
  BY <1>2, PingCommandStep
<1>3. CASE UNCHANGED scene /\ http_get
  BY <1>3, WgetStep
<1>4. CASE UNCHANGED scene /\ QueryName
  BY <1>4, QueryNameStep
<1>5. CASE UNCHANGED scene /\ (dns_get_result \/ Connected \/ PingEnds)
  BY <1>5, ResultStep
<1>6. CASE UNCHANGED scene /\ Deliver /\ \E m \in wire : dns_handle_packet(m)
  <2>1. UNCHANGED <<scene, queries, cmd, doing>>
    BY <1>6 DEF Deliver
  <2> QED BY <1>6, <2>1, AnswerStep
<1>7. CASE /\ UNCHANGED scene
           /\ \/ dhcp_discover \/ dns_init \/ RetryDue \/ ping_ip \/ icmp_send_echo_request
              \/ Transmit \/ PingRetry \/ ping_ip_continuous
              \/ Deliver /\ ~\E m \in wire : dns_handle_packet(m)
  BY <1>7, OthersLeaveNames, NamesFrameStep
<1> QED BY <1>1, <1>2, <1>3, <1>4, <1>5, <1>6, <1>7 DEF NetClientNext

(* A name that was looked up stands for its own address, in the command    *)
(* that uses it and in the cache, however late and however often answers   *)
(* to given-up questions come in, for any number of names, hosts, queries  *)
(* and cache slots (dns_send_query, dns_handle_packet, resolve_hostname).  *)
(* Scenes in which wget asks for several names are excluded: the code      *)
(* breaks the property there.                                              *)
THEOREM NamesAlwaysAnswered == NetClientSpec => [](WgetOneName => NamesAnswered)
<1>1. NetClientInit => NamesIInv
  <2> SUFFICES ASSUME NetClientInit PROVE NamesIInv
    OBVIOUS
  <2>1. NamesTypeOK
    <3>1. cmd \in Commands
      BY DEF NetClientInit, Commands, NoCommand
    <3>2. pending \in Queries
      BY DEF NetClientInit, Queries
    <3> QED BY <3>1, <3>2 DEF NetClientInit, NamesTypeOK
  <2>2. /\ cache = <<>> /\ wire = {} /\ queries = 0 /\ pending.id = 0 /\ cmd.name = None
        /\ doing = "boot" /\ pending.completed = FALSE
    BY DEF NetClientInit, NoCommand
  <2>3. CacheRight /\ AnswersRight /\ PendingRight /\ Asking /\ TargetRight
    BY <2>2 DEF CacheRight, AnswersRight, PendingRight, Asking, TargetRight
  <2> QED BY <2>1, <2>3 DEF NamesIInv
<1>2. NetClientInit => (WgetOneName => NamesIInv)
  BY <1>1
<1>3. (WgetOneName => NamesIInv) /\ [NetClientNext]_netVars => (WgetOneName => NamesIInv)'
  <2>1. [NetClientNext]_netVars => UNCHANGED scene
    BY DEF NetClientNext, netVars
  <2> QED BY <2>1, NamesInductive DEF WgetOneName
<1>4. (WgetOneName => NamesIInv) => (WgetOneName => NamesAnswered)
  BY DEF NamesIInv, TargetRight, CacheRight, NamesAnswered
<1> QED BY <1>2, <1>3, <1>4, PTL DEF NetClientSpec

-----------------------------------------------------------------------------
(* Ping.                                                                   *)

PingTypeOK ==
    ping \in [id : Nat, sequence : Nat, sent : Nat, received : Nat, waiting : BOOLEAN,
              active : BOOLEAN, before : Nat]

ReplyIInv == PingTypeOK /\ RepliesCounted

(* A message stays on the wire, to be delivered again.                     *)
LEMMA WireGrows == [NetClientNext]_netVars => wire \subseteq wire'
<1> SUFFICES ASSUME [NetClientNext]_netVars PROVE wire \subseteq wire'
  OBVIOUS
<1>0. ASSUME NEW n, dns_send_query(n) PROVE wire \subseteq wire'
  BY <1>0 DEF dns_send_query, DnsFromCache, DnsAsk
<1>1. CASE UNCHANGED netVars
  BY <1>1 DEF netVars
<1>2. CASE dhcp_discover \/ dns_init \/ cmd_ping \/ RetryDue
  BY <1>2 DEF dhcp_discover, dns_init, cmd_ping, RetryDue
<1>3. CASE http_get \/ QueryName
  BY <1>0, <1>3 DEF http_get, QueryName
<1>4. CASE dns_get_result \/ Connected \/ ping_ip
  BY <1>4 DEF dns_get_result, Connected, ping_ip
<1>5. CASE icmp_send_echo_request \/ Transmit
  BY <1>5 DEF icmp_send_echo_request, Transmit
<1>6. CASE PingRetry \/ ping_ip_continuous \/ PingEnds
  BY <1>6 DEF PingRetry, ping_ip_continuous, PingEnds
<1>7. CASE Deliver
  BY <1>7 DEF Deliver, arp_handle_packet, dhcp_handle_packet, dhcp_handle_offer, dhcp_handle_ack,
              dns_handle_packet, icmp_handle_packet
<1> QED BY <1>1, <1>2, <1>3, <1>4, <1>5, <1>6, <1>7 DEF NetClientNext

(* A request sent is awaited, a reply counted is no longer awaited.        *)
LEMMA ReplyInductive == ReplyIInv /\ [NetClientNext]_netVars => ReplyIInv'
<1> SUFFICES ASSUME ReplyIInv, [NetClientNext]_netVars PROVE ReplyIInv'
  OBVIOUS
<1> USE DEF ReplyIInv, PingTypeOK
<1>0. wire \subseteq wire'
  BY WireGrows
<1>1. ASSUME PingTypeOK', ping'.received = ping.received, ping'.id = ping.id,
             \/ ping'.sent = ping.sent /\ (ping'.waiting => ping.waiting)
             \/ ping'.sent = ping.sent + 1
      PROVE  ReplyIInv'
  <2>1. ping'.received + (IF ping'.waiting THEN 1 ELSE 0) <= ping'.sent
    BY <1>1 DEF RepliesCounted
  <2>2. ping'.received > 0 => \E m \in wire' : m.kind = "echo" /\ m.id = ping'.id
    BY <1>0, <1>1 DEF RepliesCounted
  <2> QED BY <1>1, <2>1, <2>2 DEF RepliesCounted
<1>2. CASE UNCHANGED ping
  BY <1>1, <1>2
<1>3. CASE ping_ip
  <2>1. ping' = [id |-> ping.id + 1, sequence |-> 1, sent |-> 0, received |-> 0,
                 waiting |-> FALSE, active |-> TRUE, before |-> 0]
    BY <1>3 DEF ping_ip
  <2> QED BY <2>1 DEF RepliesCounted
<1>4. /\ SeqBefore \in Nat
      /\ ping.sent + 1 \in Nat /\ ping.received + 1 \in Nat /\ ping.sequence + 1 \in Nat
  BY DEF SeqBefore
<1>5. CASE icmp_send_echo_request
  <2>1. CASE ping' = [ping EXCEPT !.before = SeqBefore]
    BY <1>1, <1>4, <2>1
  <2>2. CASE ping' = [ping EXCEPT !.sent = @ + 1, !.waiting = TRUE]
    <3>1. PingTypeOK'
      BY <1>4, <2>2
    <3>2. ping'.received = ping.received /\ ping'.id = ping.id /\ ping'.sent = ping.sent + 1
      BY <2>2
    <3> QED BY <1>1, <3>1, <3>2
  <2> QED BY <1>5, <2>1, <2>2 DEF icmp_send_echo_request
<1>6. CASE Transmit
  <2>1. ping' = [ping EXCEPT !.before = SeqBefore]
    BY <1>6 DEF Transmit
  <2> QED BY <1>1, <1>4, <2>1
<1>7. CASE ping_ip_continuous
  <2>1. ping' = [ping EXCEPT !.sequence = @ + 1, !.waiting = FALSE]
    BY <1>7 DEF ping_ip_continuous
  <2>2. PingTypeOK'
    BY <1>4, <2>1
  <2>3. ping'.received = ping.received /\ ping'.id = ping.id /\ ping'.sent = ping.sent
    BY <2>1
  <2>4. ping'.waiting = FALSE
    BY <2>1
  <2> QED BY <1>1, <2>2, <2>3, <2>4
<1>8. CASE PingEnds
  <2>1. ping' = [ping EXCEPT !.active = FALSE]
    BY <1>8 DEF PingEnds
  <2> QED BY <1>1, <2>1
<1>9. ASSUME NEW m \in wire, icmp_handle_packet(m) PROVE ReplyIInv'
  <2>1. /\ ping.waiting /\ m.id = ping.id /\ m.kind = "echo"
        /\ ping' = [ping EXCEPT !.received = @ + 1, !.waiting = FALSE]
    BY <1>9 DEF icmp_handle_packet, OurReply
  <2>2. PingTypeOK'
    BY <1>4, <2>1
  <2>5. /\ ping'.id = ping.id /\ ping'.sent = ping.sent
        /\ ping'.received = ping.received + 1
    BY <2>1
  <2>6. ping'.waiting = FALSE
    BY <2>1
  <2>3. ping.received + 1 <= ping.sent
    BY <2>1 DEF RepliesCounted
  <2>4. m \in wire' /\ m.id = ping'.id
    BY <1>0, <2>1, <2>5
  <2>7. ping'.received + (IF ping'.waiting THEN 1 ELSE 0) <= ping'.sent
    BY <2>3, <2>5, <2>6
  <2> QED BY <2>1, <2>2, <2>7, <2>4 DEF RepliesCounted
<1>10. CASE Deliver
  <2>1. CASE \E m \in wire : icmp_handle_packet(m)
    BY <1>9, <2>1
  <2>2. CASE ~\E m \in wire : icmp_handle_packet(m)
    <3>1. UNCHANGED ping
      BY <1>10, <2>2 DEF Deliver, arp_handle_packet, dhcp_handle_packet, dns_handle_packet
    <3> QED BY <1>2, <3>1
  <2> QED BY <2>1, <2>2
<1>11. CASE \/ UNCHANGED netVars \/ dhcp_discover \/ dns_init \/ cmd_ping \/ http_get \/ RetryDue
            \/ QueryName \/ dns_get_result \/ Connected \/ PingRetry
  <2>1. UNCHANGED ping
    BY <1>11 DEF netVars, dhcp_discover, dns_init, cmd_ping, http_get, Command, RetryDue,
                 QueryName, dns_get_result, Connected, PingRetry
  <2> QED BY <1>2, <2>1
<1> QED BY <1>3, <1>5, <1>6, <1>7, <1>8, <1>10, <1>11 DEF NetClientNext

(* The loss that print_ping_stats reports is never negative, and a counted *)
(* reply answers this session: for every number of sessions, requests and  *)
(* repeated replies (icmp_send_echo_request, icmp_handle_packet).          *)
THEOREM RepliesAlwaysCounted == NetClientSpec => []RepliesCounted
<1>1. NetClientInit => ReplyIInv
  BY DEF NetClientInit, ReplyIInv, PingTypeOK, RepliesCounted
<1>2. ReplyIInv => RepliesCounted
  BY DEF ReplyIInv
<1> QED BY <1>1, <1>2, ReplyInductive, PTL DEF NetClientSpec
==============================================================================
