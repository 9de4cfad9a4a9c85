SPECIFICATION Spec
CONSTANTS
  c1 = c1
  c2 = c2
  h1 = h1
  h2 = h2
  Client = {c1, c2}
  NoClient = NoClient
  HttpdThread = {h1, h2}
  NoThread = NoThread
  HttpPort = 1
  Rounds = 1
  Port = {1}
  Byte = {1, 2}
  NoByte = 0
  Payload <- Payloads
  InitialSockets = 2
  MaxSockets = 3
  BufSize = 2
  SeqModulus = 4
  Isn = {3}
  Fd = {3, 4}
  Policies = {"serial"}
  Boards <- AllBoards
  IndexSpan = 4
  OnLink = {"gw1", "gw2", "own1", "own2"}
  OffLink = {"far"}
  Lease <- TwoLeases
  Name = {"near", "away"}
  AddrOf <- TwoHosts
  ARP_CACHE_SIZE = 1
  DNS_CACHE_SIZE = 2
  Scenes <- AllScenes
  Loads <- AllLoads
INVARIANTS
   StreamExact FdsDistinct AcceptorWoken
   ConfigurationHolds NamesAnswered RepliesCounted
PROPERTIES HttpdStops FramesHandled
