----------------------------- MODULE TcpProofs -----------------------------
(***************************************************************************)
(* What the operators of the TCP layer do to a socket and to the table of  *)
(* sockets, for every number of peers, ports and sockets, every size of    *)
(* the receive buffer and every sequence number.                           *)
(***************************************************************************)
EXTENDS Tcp, ListLemmas

Cell == 0 .. BufSize - 1
Number == 0 .. SeqModulus - 1

Socket ==
    [in_use : BOOLEAN, state : {"CLOSED", "LISTEN", "SYN_RCVD", "ESTABLISHED", "LAST_ACK"},
     local_port : Nat, peer : Client \cup {NoClient}, seq : Number,
     buffer : [Cell -> Byte \cup {NoByte}], head : Cell, tail : Cell, n : 0 .. BufSize,
     stream : Seq(Byte), synacks : SUBSET Number]

(* The cells from tail on hold the bytes of the stream, and head is the    *)
(* cell after them.                                                        *)
Ring(s) ==
    /\ s.n = Len(s.stream) /\ s.head = (s.tail + s.n) % BufSize
    /\ \A k \in 1 .. s.n : s.buffer[(s.tail + k - 1) % BufSize] = s.stream[k]

-----------------------------------------------------------------------------
(* The arithmetic of the circular buffer.                                  *)

(* A place of the circular buffer, c places after t.                       *)
LEMMA Cells ==
    ASSUME NEW t \in Cell, NEW c \in 0 .. BufSize
    PROVE  /\ (t + c) % BufSize \in Cell
           /\ (t + c) % BufSize = IF t + c < BufSize THEN t + c ELSE t + c - BufSize
<1> BufSize \in Nat \ {0}
  BY TcpAssumption
<1>1. CASE t + c < BufSize
  BY <1>1 DEF Cell
<1>2. CASE t + c >= BufSize
  <2>1. (t + c) % BufSize = t + c - BufSize
    BY <1>2 DEF Cell
  <2> QED BY <1>2, <2>1 DEF Cell
<1> QED BY <1>1, <1>2 DEF Cell

(* Where the cell k places after t lies, seen from t and from the cell c   *)
(* places after t.                                                         *)
LEMMA Offsets ==
    ASSUME NEW t \in Cell, NEW c \in 0 .. BufSize, NEW k \in Cell
    PROVE  /\ Offset((t + k) % BufSize, t) = k
           /\ Offset((t + k) % BufSize, (t + c) % BufSize) = IF k >= c THEN k - c ELSE k - c + BufSize
<1> BufSize \in Nat \ {0}
  BY TcpAssumption
<1>1. k \in 0 .. BufSize
  BY DEF Cell
<1> DEFINE i == (t + k) % BufSize
           h == (t + c) % BufSize
<1>2. /\ i \in Cell /\ i = IF t + k < BufSize THEN t + k ELSE t + k - BufSize
      /\ h \in Cell /\ h = IF t + c < BufSize THEN t + c ELSE t + c - BufSize
  BY <1>1, Cells, Zenon
<1> HIDE DEF i, h
<1>3. ASSUME NEW a \in Cell, NEW b \in Cell
      PROVE  Offset(a, b) = IF a >= b THEN a - b ELSE a - b + BufSize
  <2>1. CASE a >= b
    <3>1. a - b \in Cell
      BY <2>1 DEF Cell
    <3>2. (a - b + BufSize) % BufSize = a - b
      BY <3>1 DEF Cell
    <3> QED BY <2>1, <3>2 DEF Offset
  <2>2. CASE a < b
    <3>1. a - b + BufSize \in Cell
      BY <2>2 DEF Cell
    <3>2. (a - b + BufSize) % BufSize = a - b + BufSize
      BY <3>1 DEF Cell
    <3> QED BY <2>2, <3>2 DEF Offset, Cell
  <2> QED BY <2>1, <2>2 DEF Cell
<1>4. Offset(i, t) = IF i >= t THEN i - t ELSE i - t + BufSize
  BY <1>2, <1>3
<1>5. Offset(i, h) = IF i >= h THEN i - h ELSE i - h + BufSize
  BY <1>2, <1>3
<1>6. Offset(i, t) = k
  BY <1>2, <1>4 DEF Cell
<1>7. Offset(i, h) = IF k >= c THEN k - c ELSE k - c + BufSize
  BY <1>2, <1>5 DEF Cell
<1> QED BY <1>6, <1>7 DEF i, h

(* The smaller of two numbers.                                             *)
LEMMA Smaller ==
    ASSUME NEW a \in Int, NEW b \in Int
    PROVE  Min({a, b}) = IF a <= b THEN a ELSE b
<1>1. \E x \in {a, b} : \A y \in {a, b} : x <= y
  OBVIOUS
<1>2. Min({a, b}) \in {a, b} /\ \A y \in {a, b} : Min({a, b}) <= y
  BY <1>1 DEF Min
<1> QED BY <1>2

(* The fields of a socket other than those of its receive buffer.          *)
SameBut(r, s) ==
    /\ r.in_use = s.in_use /\ r.state = s.state /\ r.local_port = s.local_port
    /\ r.peer = s.peer /\ r.seq = s.seq /\ r.synacks = s.synacks

(* Moving on by a places and then by b.                                    *)
LEMMA CellsAdd ==
    ASSUME NEW t \in Cell, NEW a \in 0 .. BufSize, NEW b \in 0 .. BufSize, a + b \in 0 .. BufSize
    PROVE  (((t + a) % BufSize) + b) % BufSize = (t + (a + b)) % BufSize
<1> BufSize \in Nat \ {0}
  BY TcpAssumption
<1> DEFINE u == (t + a) % BufSize
           v == (u + b) % BufSize
           w == (t + (a + b)) % BufSize
<1>1. u \in Cell /\ u = IF t + a < BufSize THEN t + a ELSE t + a - BufSize
  BY Cells
<1> HIDE DEF u
<1>2. v = IF u + b < BufSize THEN u + b ELSE u + b - BufSize
  BY <1>1, Cells, Zenon
<1>3. w = IF t + (a + b) < BufSize THEN t + (a + b) ELSE t + (a + b) - BufSize
  BY Cells
<1> HIDE DEF v, w
<1>4. v = w
  BY <1>1, <1>2, <1>3 DEF Cell
<1> QED BY <1>4 DEF u, v, w

(* tcp_handle_packet stores a payload.                                     *)
LEMMA StoreRing ==
    ASSUME NEW s \in Socket, Ring(s), NEW data \in Seq(Byte)
    PROVE  Store(s, data) \in Socket /\ Ring(Store(s, data)) /\ SameBut(Store(s, data), s)
<1> BufSize \in Nat \ {0}
  BY TcpAssumption
<1> DEFINE m == Min({Len(data), BufSize - s.n})
           buf == [i \in 0..(BufSize - 1) |->
                      IF Offset(i, s.head) < m THEN data[Offset(i, s.head) + 1] ELSE s.buffer[i]]
           hd == (s.head + m) % BufSize
           str == s.stream \o SubSeq(data, 1, m)
           r == Store(s, data)
<1>1. /\ s.n \in 0 .. BufSize /\ s.head \in Cell /\ s.tail \in Cell /\ s.stream \in Seq(Byte)
      /\ s.buffer \in [Cell -> Byte \cup {NoByte}]
  BY DEF Socket
<1>2. m \in 0 .. Len(data) /\ m \in 0 .. BufSize /\ s.n + m \in 0 .. BufSize /\ Len(data) \in Nat
  <2>1. m = IF Len(data) <= BufSize - s.n THEN Len(data) ELSE BufSize - s.n
    BY <1>1, Smaller
  <2> QED BY <1>1, <2>1
<1>3. r = [s EXCEPT !.buffer = buf, !.head = hd, !.tail = s.tail, !.n = s.n + m, !.stream = str]
  BY Zenon DEF Store, Socket
<1> HIDE DEF m
<1>4. \A i \in Cell : Offset(i, s.head) \in Cell
  <2> SUFFICES ASSUME NEW i \in Cell PROVE Offset(i, s.head) \in Cell
    OBVIOUS
  <2>1. i - s.head + BufSize \in Int
    BY <1>1 DEF Cell
  <2> QED BY <2>1 DEF Offset, Cell
<1>5. buf \in [Cell -> Byte \cup {NoByte}]
  <2> SUFFICES ASSUME NEW i \in Cell PROVE buf[i] \in Byte \cup {NoByte}
    BY DEF Cell
  <2>1. CASE Offset(i, s.head) < m
    <3>0. Offset(i, s.head) \in Cell
      BY <1>4
    <3>1. Offset(i, s.head) + 1 \in 1 .. Len(data)
      BY <1>2, <2>1, <3>0 DEF Cell
    <3>2. data[Offset(i, s.head) + 1] \in Byte
      BY <3>1
    <3> QED BY <2>1, <3>2 DEF Cell
  <2>2. CASE ~(Offset(i, s.head) < m)
    BY <1>1, <2>2 DEF Cell
  <2> QED BY <2>1, <2>2
<1>6. hd \in Cell
  BY <1>1, <1>2, Cells
<1>7. /\ str \in Seq(Byte) /\ Len(str) = Len(s.stream) + m
      /\ \A k \in 1 .. Len(s.stream) : str[k] = s.stream[k]
      /\ \A k \in 1 .. m : str[Len(s.stream) + k] = data[k]
  <2>1. /\ SubSeq(data, 1, m) \in Seq(Byte) /\ Len(SubSeq(data, 1, m)) = m
        /\ \A k \in 1 .. m : SubSeq(data, 1, m)[k] = data[k]
    BY <1>2
  <2> QED BY <1>1, <2>1, SMTT(30)
<1>8. \A k \in Cell : k < s.n + m =>
          buf[(s.tail + k) % BufSize] = IF k < s.n THEN s.buffer[(s.tail + k) % BufSize] ELSE data[k - s.n + 1]
  <2> SUFFICES ASSUME NEW k \in Cell, k < s.n + m
               PROVE  buf[(s.tail + k) % BufSize] = IF k < s.n THEN s.buffer[(s.tail + k) % BufSize] ELSE data[k - s.n + 1]
    OBVIOUS
  <2> DEFINE i == (s.tail + k) % BufSize
  <2>1. k \in 0 .. BufSize
    BY DEF Cell
  <2>2. i \in Cell
    BY <1>1, <2>1, Cells, Zenon
  <2>3. Offset(i, s.head) = IF k >= s.n THEN k - s.n ELSE k - s.n + BufSize
    BY <1>1, Offsets DEF Ring
  <2> HIDE DEF i
  <2>4. Offset(i, s.head) < m <=> k >= s.n
    BY <1>1, <1>2, <2>3, SMTT(30) DEF Cell
  <2>5. buf[i] = IF Offset(i, s.head) < m THEN data[Offset(i, s.head) + 1] ELSE s.buffer[i]
    BY <2>2 DEF Cell
  <2>6. CASE k >= s.n
    BY <1>1, <2>3, <2>4, <2>5, <2>6, SMTT(30) DEF i, Cell
  <2>7. CASE k < s.n
    BY <1>1, <2>3, <2>4, <2>5, <2>7 DEF i, Cell
  <2> QED BY <1>1, <2>6, <2>7 DEF Cell
<1>9. hd = (s.tail + (s.n + m)) % BufSize
  BY <1>1, <1>2, CellsAdd, SMTT(30) DEF Ring
<1> HIDE DEF buf, hd, str, r
<1>10. /\ r \in Socket /\ SameBut(r, s)
       /\ r.buffer = buf /\ r.head = hd /\ r.tail = s.tail /\ r.n = s.n + m /\ r.stream = str
  <2>1. s.n + m \in 0 .. BufSize /\ str \in Seq(Byte)
    BY <1>2, <1>7
  <2> DEFINE c == s.n + m
  <2> HIDE DEF c
  <2>2. r = [s EXCEPT !.buffer = buf, !.head = hd, !.tail = s.tail, !.n = c, !.stream = str]
    BY <1>3 DEF c
  <2>3. r.in_use = s.in_use
    BY <2>2 DEF Socket
  <2>4. /\ r.state = s.state /\ r.local_port = s.local_port
        /\ r.peer = s.peer /\ r.seq = s.seq /\ r.synacks = s.synacks
        /\ r.buffer = buf /\ r.head = hd /\ r.tail = s.tail /\ r.n = c /\ r.stream = str
    BY <2>2 DEF Socket
  <2>5. r \in Socket
    BY <1>5, <1>6, <2>1, <2>2, Zenon DEF Socket, c
  <2> QED BY <2>3, <2>4, <2>5 DEF SameBut, c
<1>11. ASSUME NEW k \in 1 .. s.n + m PROVE buf[(s.tail + k - 1) % BufSize] = str[k]
  <2>1. k - 1 \in Cell /\ k - 1 < s.n + m /\ s.tail + (k - 1) = s.tail + k - 1
    BY <1>1, <1>2 DEF Cell
  <2> DEFINE i == (s.tail + k - 1) % BufSize
  <2>0. buf[i] = IF k - 1 < s.n THEN s.buffer[i] ELSE data[k - 1 - s.n + 1]
    BY <1>8, <2>1
  <2> HIDE DEF i
  <2>2. CASE k <= s.n
    <3>1. s.buffer[i] = s.stream[k] /\ str[k] = s.stream[k] /\ k - 1 < s.n
      BY <1>1, <1>7, <2>2 DEF Ring, i
    <3> QED BY <2>0, <3>1 DEF i
  <2>3. CASE k > s.n
    <3>1. k - s.n \in 1 .. m /\ Len(s.stream) + (k - s.n) = k /\ k - 1 - s.n + 1 = k - s.n
      BY <1>1, <1>2, <2>3 DEF Ring
    <3>2. str[k] = data[k - s.n]
      BY <1>7, <3>1, SMTT(30)
    <3>3. ~(k - 1 < s.n)
      BY <1>1, <2>3
    <3> QED BY <2>0, <3>1, <3>2, <3>3 DEF i
  <2> QED BY <1>1, <2>2, <2>3
<1>12. Ring(r)
  BY <1>1, <1>7, <1>9, <1>10, <1>11 DEF Ring
<1> QED BY <1>10, <1>12 DEF r

(* tcp_recv takes bytes out.                                               *)
LEMMA RecvRing ==
    ASSUME NEW s \in Socket, Ring(s), NEW len \in Nat
    PROVE  tcp_recv(s, len) \in Socket /\ Ring(tcp_recv(s, len)) /\ SameBut(tcp_recv(s, len), s)
<1> BufSize \in Nat \ {0}
  BY TcpAssumption
<1>0. CASE s.state # "ESTABLISHED"
  BY <1>0, Zenon DEF tcp_recv, SameBut
<1> SUFFICES ASSUME s.state = "ESTABLISHED"
             PROVE  tcp_recv(s, len) \in Socket /\ Ring(tcp_recv(s, len)) /\ SameBut(tcp_recv(s, len), s)
  BY <1>0, Zenon
<1> DEFINE m == Min({len, s.n})
           buf == [i \in 0..(BufSize - 1) |->
                      IF Offset(i, s.tail) < m THEN NoByte ELSE s.buffer[i]]
           tl == (s.tail + m) % BufSize
           str == SubSeq(s.stream, m + 1, Len(s.stream))
           c == s.n - m
           r == tcp_recv(s, len)
<1>1. /\ s.n \in 0 .. BufSize /\ s.head \in Cell /\ s.tail \in Cell /\ s.stream \in Seq(Byte)
      /\ s.buffer \in [Cell -> Byte \cup {NoByte}] /\ Len(s.stream) = s.n
  BY DEF Socket, Ring
<1>2. m \in 0 .. s.n /\ m \in 0 .. BufSize /\ c \in 0 .. BufSize
  <2>1. m = IF len <= s.n THEN len ELSE s.n
    BY <1>1, Smaller
  <2> QED BY <1>1, <2>1
<1>3. r = [s EXCEPT !.buffer = buf, !.tail = tl, !.n = c, !.stream = str]
  BY DEF tcp_recv, Socket
<1> HIDE DEF m
<1>5. buf \in [Cell -> Byte \cup {NoByte}]
  BY <1>1 DEF Cell
<1>6. tl \in Cell
  BY <1>1, <1>2, Cells
<1>7. str \in Seq(Byte) /\ Len(str) = c /\ \A k \in 1 .. c : str[k] = s.stream[k + m]
  <2> DEFINE x == s.stream
  <2>1. x \in Seq(Byte) /\ Len(x) = s.n /\ m \in 0 .. Len(x) /\ s.n \in Nat /\ c = Len(x) - m
    BY <1>1, <1>2
  <2> HIDE DEF x, c
  <2>2. LET y == SubSeq(x, m + 1, Len(x)) IN
        y \in Seq(Byte) /\ Len(y) = Len(x) - m /\ \A k \in 1 .. Len(x) - m : y[k] = x[k + m]
    BY <2>1
  <2> QED BY <2>1, <2>2 DEF x
<1>8. ASSUME NEW k \in Cell, k >= m PROVE buf[(s.tail + k) % BufSize] = s.buffer[(s.tail + k) % BufSize]
  <2> DEFINE i == (s.tail + k) % BufSize
  <2>1. k \in 0 .. BufSize
    BY DEF Cell
  <2>2. i \in Cell
    BY <1>1, <2>1, Cells, Zenon
  <2>3. Offset(i, s.tail) = k
    BY <1>1, <1>2, Offsets
  <2> HIDE DEF i
  <2>4. ~(Offset(i, s.tail) < m)
    BY <1>1, <1>2, <1>8, <2>3 DEF Cell
  <2>5. buf[i] = s.buffer[i]
    BY <2>2, <2>4 DEF Cell
  <2> QED BY <2>5 DEF i
<1>9. s.head = (tl + c) % BufSize
  <2>1. m + c = s.n
    BY <1>1, <1>2
  <2>2. (tl + c) % BufSize = (s.tail + (m + c)) % BufSize
    BY <1>1, <1>2, <2>1, CellsAdd
  <2> QED BY <2>1, <2>2 DEF Ring
<1>10. ASSUME NEW k \in 1 .. c PROVE buf[(tl + k - 1) % BufSize] = str[k]
  <2>1. /\ k - 1 \in 0 .. BufSize /\ m + (k - 1) \in Cell /\ m + (k - 1) >= m /\ m + (k - 1) \in 0 .. BufSize
        /\ k + m \in 1 .. s.n /\ s.tail + (k + m) - 1 = s.tail + (m + (k - 1)) /\ tl + (k - 1) = tl + k - 1
    <3>1. m \in Int /\ s.n \in Int /\ s.tail \in Int /\ tl \in Int /\ k \in Int
      BY <1>1, <1>2, <1>6 DEF Cell
    <3> HIDE DEF tl
    <3>2. 1 <= k /\ k <= s.n - m /\ 0 <= m /\ s.n <= BufSize
      BY <1>1, <1>2, <3>1
    <3> QED BY <3>1, <3>2 DEF Cell
  <2> DEFINE i == (tl + k - 1) % BufSize
  <2>2. (tl + (k - 1)) % BufSize = (s.tail + (m + (k - 1))) % BufSize
    BY <1>1, <1>2, <2>1, CellsAdd, ZenonT(30)
  <2>3. i = (s.tail + (m + (k - 1))) % BufSize
    BY <2>1, <2>2
  <2> HIDE DEF i, buf, str, c
  <2>4. buf[i] = s.buffer[i]
    BY <1>8, <2>1, <2>3
  <2>5. s.buffer[(s.tail + (k + m) - 1) % BufSize] = s.stream[k + m]
    BY <2>1 DEF Ring
  <2>6. s.buffer[i] = s.stream[k + m]
    BY <2>1, <2>3, <2>5
  <2> QED BY <1>7, <2>4, <2>6 DEF i
<1> HIDE DEF buf, tl, str, c, r
<1>11. r.in_use = s.in_use
  BY <1>3 DEF Socket
<1>12. /\ r.state = s.state /\ r.local_port = s.local_port
       /\ r.peer = s.peer /\ r.seq = s.seq /\ r.synacks = s.synacks
       /\ r.buffer = buf /\ r.head = s.head /\ r.tail = tl /\ r.n = c /\ r.stream = str
  BY <1>3 DEF Socket
<1>13. r \in Socket
  BY <1>2, <1>3, <1>5, <1>6, <1>7, Zenon DEF Socket
<1>14. Ring(r)
  BY <1>2, <1>7, <1>9, <1>10, <1>12 DEF Ring
<1> QED BY <1>11, <1>12, <1>13, <1>14 DEF SameBut, r

-----------------------------------------------------------------------------
(* One socket.                                                             *)

(* What the sequence numbers of the SYN-ACKs sent so far allow: they were  *)
(* all the one before seq, and a peer that was reached once is reached     *)
(* again.                                                                  *)
OneSynAck(s) ==
    s.state = "SYN_RCVD" /\ s.synacks # {} =>
        s.synacks = {(s.seq + SeqModulus - 1) % SeqModulus} /\ s.peer \in resolved

(* A socket has a peer in the states of a connection and in no other, and  *)
(* nothing is left in the buffer of a free one.                            *)
SocketOK(s) ==
    /\ s \in Socket /\ Ring(s) /\ OneSynAck(s)
    /\ s.peer = NoClient <=> s.state \in {"CLOSED", "LISTEN"}
    /\ ~s.in_use => s.n = 0

(* The fields of the receive buffer.                                       *)
SameBuffer(r, s) ==
    r.buffer = s.buffer /\ r.head = s.head /\ r.tail = s.tail /\ r.n = s.n /\ r.stream = s.stream

(* A socket whose buffer is another's holds the same run of the stream.    *)
LEMMA RingKept ==
    ASSUME NEW r, NEW s, Ring(s), SameBuffer(r, s)
    PROVE  Ring(r)
BY DEF Ring, SameBuffer

(* What tcp_send_packet leaves alone.                                      *)
Sent(r, s) ==
    /\ r \in Socket /\ SameBuffer(r, s)
    /\ r.in_use = s.in_use /\ r.state = s.state /\ r.local_port = s.local_port /\ r.peer = s.peer

(* tcp_send_packet.                                                        *)
LEMMA SendIs ==
    ASSUME NEW s \in Socket, NEW flags, NEW len \in Nat
    PROVE  LET r == tcp_send_packet(s, flags, len) IN
           /\ Sent(r, s)
           /\ r.seq = IF s.peer \notin resolved THEN s.seq
                      ELSE (s.seq + Count("SYN", flags) + Count("FIN", flags) + len) % SeqModulus
           /\ r.synacks = IF s.peer \in resolved /\ "SYN" \in flags THEN s.synacks \cup {s.seq} ELSE s.synacks
<1> DEFINE r == tcp_send_packet(s, flags, len)
           q == (s.seq + Count("SYN", flags) + Count("FIN", flags) + len) % SeqModulus
           y == IF "SYN" \in flags THEN s.synacks \cup {s.seq} ELSE s.synacks
<1>1. CASE s.peer \notin resolved
  <2>1. r = s
    BY <1>1 DEF tcp_send_packet
  <2> QED BY <1>1, <2>1, Zenon DEF Sent, SameBuffer
<1>2. CASE s.peer \in resolved
  <2>1. r = [s EXCEPT !.seq = q, !.synacks = y]
    BY <1>2 DEF tcp_send_packet, Socket
  <2>2. q \in Number
    <3>1. s.seq \in Number /\ SeqModulus \in Nat \ {0}
      BY TcpAssumption DEF Socket
    <3>2. Count("SYN", flags) \in Nat /\ Count("FIN", flags) \in Nat
      BY DEF Count
    <3>3. s.seq + Count("SYN", flags) + Count("FIN", flags) + len \in Nat
      BY <3>1, <3>2 DEF Number
    <3> QED BY <3>1, <3>3 DEF Number
  <2>3. y \in SUBSET Number
    BY DEF Socket
  <2> HIDE DEF q, y, r
  <2>4. r.in_use = s.in_use
    BY <2>1 DEF Socket
  <2>5. /\ r.state = s.state /\ r.local_port = s.local_port /\ r.peer = s.peer
        /\ SameBuffer(r, s) /\ r.seq = q /\ r.synacks = y
    BY <2>1 DEF Socket, SameBuffer
  <2>6. r \in Socket
    BY <2>1, <2>2, <2>3, Zenon DEF Socket
  <2>7. r.seq = IF s.peer \notin resolved THEN s.seq
                ELSE (s.seq + Count("SYN", flags) + Count("FIN", flags) + len) % SeqModulus
    BY <1>2, <2>5 DEF q
  <2>8. r.synacks = IF s.peer \in resolved /\ "SYN" \in flags THEN s.synacks \cup {s.seq} ELSE s.synacks
    BY <1>2, <2>5 DEF y
  <2> QED BY <2>4, <2>5, <2>6, <2>7, <2>8, Zenon DEF Sent, r
<1> QED BY <1>1, <1>2

(* A reset or finished connection.                                         *)
LEMMA ToListenIs ==
    ASSUME NEW s \in Socket, Ring(s), s.in_use
    PROVE  LET r == ToListen(s) IN
           /\ SocketOK(r) /\ r.in_use = s.in_use /\ r.local_port = s.local_port
           /\ r.state = "LISTEN" /\ r.peer = NoClient
<1> DEFINE r == ToListen(s)
<1>1. r = [s EXCEPT !.state = "LISTEN", !.peer = NoClient, !.synacks = {}]
  BY DEF ToListen
<1> HIDE DEF r
<1>2. r.in_use = s.in_use
  BY <1>1, Zenon DEF Socket
<1>3. /\ r.local_port = s.local_port /\ r.state = "LISTEN" /\ r.peer = NoClient /\ SameBuffer(r, s)
  BY <1>1 DEF Socket, SameBuffer
<1>4. r \in Socket
  BY <1>1, Zenon DEF Socket
<1>5. Ring(r)
  BY <1>3, RingKept
<1>6. OneSynAck(r)
  BY <1>3 DEF OneSynAck
<1> QED BY <1>2, <1>3, <1>4, <1>5, <1>6 DEF SocketOK, r

(* The sequence number before, and the one after.                          *)
LEMMA Numbers ==
    ASSUME NEW q \in Number
    PROVE  LET p == (q + SeqModulus - 1) % SeqModulus IN
           /\ p \in Number /\ (p + 1) % SeqModulus = q
           /\ (((q + 1) % SeqModulus) + SeqModulus - 1) % SeqModulus = q
<1> SeqModulus \in Nat \ {0}
  BY TcpAssumption
<1> DEFINE p == (q + SeqModulus - 1) % SeqModulus
<1>1. p = IF q = 0 THEN SeqModulus - 1 ELSE q - 1
  <2>1. CASE q = 0
    <3>1. (SeqModulus - 1) % SeqModulus = SeqModulus - 1
      OBVIOUS
    <3> QED BY <2>1, <3>1
  <2>2. CASE q # 0
    <3>1. q - 1 \in 0 .. SeqModulus - 1 /\ q + SeqModulus - 1 = (q - 1) + SeqModulus
      BY <2>2 DEF Number
    <3> QED BY <2>2, <3>1
  <2> QED BY <2>1, <2>2
<1> HIDE DEF p
<1>2. p \in Number
  BY <1>1 DEF Number
<1>3. (p + 1) % SeqModulus = q
  <2>1. CASE q = 0
    BY <1>1, <2>1
  <2>2. CASE q # 0
    BY <1>1, <2>2 DEF Number
  <2> QED BY <2>1, <2>2
<1> DEFINE u == (q + 1) % SeqModulus
<1>4. u = IF q = SeqModulus - 1 THEN 0 ELSE q + 1
  <2>1. CASE q = SeqModulus - 1
    BY <2>1
  <2>2. CASE q # SeqModulus - 1
    BY <2>2 DEF Number
  <2> QED BY <2>1, <2>2
<1> HIDE DEF u
<1>5. (u + SeqModulus - 1) % SeqModulus = q
  <2>1. CASE q = SeqModulus - 1
    BY <1>4, <2>1
  <2>2. CASE q # SeqModulus - 1
    <3>1. u + SeqModulus - 1 = q + SeqModulus
      BY <1>4, <2>2 DEF Number
    <3> QED BY <3>1 DEF Number
  <2> QED BY <2>1, <2>2
<1> QED BY <1>2, <1>3, <1>5 DEF p, u

(* A SYN-ACK sent for the first time, or once more after the sequence      *)
(* number was taken back, leaves the socket as OneSynAck wants it.         *)
LEMMA SynAckSent ==
    ASSUME NEW s \in Socket, Ring(s), s.in_use, s.state = "SYN_RCVD", s.peer # NoClient,
           s.synacks # {} => s.synacks = {s.seq} /\ s.peer \in resolved
    PROVE  LET r == tcp_send_packet(s, {"SYN", "ACK"}, 0) IN
           /\ SocketOK(r) /\ r.in_use = s.in_use /\ r.local_port = s.local_port /\ r.peer = s.peer
           /\ r.state = "SYN_RCVD"
<1> DEFINE F == {"SYN", "ACK"}
           r == tcp_send_packet(s, F, 0)
<1>1. Count("SYN", F) = 1 /\ Count("FIN", F) = 0 /\ "SYN" \in F
  BY DEF Count
<1> HIDE DEF F
<1>0. 0 \in Nat
  OBVIOUS
<1>2. /\ Sent(r, s)
      /\ r.seq = IF s.peer \notin resolved THEN s.seq
                 ELSE (s.seq + Count("SYN", F) + Count("FIN", F) + 0) % SeqModulus
      /\ r.synacks = IF s.peer \in resolved /\ "SYN" \in F THEN s.synacks \cup {s.seq} ELSE s.synacks
  BY <1>0, SendIs, Zenon
<1> HIDE DEF r
<1>4. s.seq \in Number /\ SeqModulus \in Nat \ {0}
  BY TcpAssumption DEF Socket
<1>5. OneSynAck(r)
  <2>1. CASE s.peer \notin resolved
    BY <1>2, <2>1 DEF OneSynAck
  <2>2. CASE s.peer \in resolved
    <3>1. r.seq = (s.seq + 1) % SeqModulus
      <4>1. s.seq + Count("SYN", F) + Count("FIN", F) + 0 = s.seq + 1
        BY <1>1, <1>4 DEF Number
      <4> QED BY <1>2, <2>2, <4>1
    <3>2. r.synacks = {s.seq}
      BY <1>1, <1>2, <2>2
    <3>3. (r.seq + SeqModulus - 1) % SeqModulus = s.seq
      BY <1>4, <3>1, Numbers
    <3> QED BY <1>2, <2>2, <3>2, <3>3 DEF OneSynAck, Sent
  <2> QED BY <2>1, <2>2
<1>6. Ring(r)
  BY <1>2, RingKept DEF Sent
<1>7. r.state = "SYN_RCVD" /\ r.peer # NoClient /\ r.local_port = s.local_port /\ r.peer = s.peer
  BY <1>2 DEF Sent
<1>8. SocketOK(r)
  <2>1. r.peer = NoClient <=> r.state \in {"CLOSED", "LISTEN"}
    BY <1>7
  <2> QED BY <1>2, <1>5, <1>6, <2>1, Zenon DEF SocketOK, Sent
<1> QED BY <1>2, <1>7, <1>8, Zenon DEF Sent, r, F

(* The SYN that comes again takes the sequence number back and repeats the *)
(* SYN-ACK (tcp.c:697-706).                                                *)
LEMMA SynAckAgainIs ==
    ASSUME NEW s, SocketOK(s), s.in_use, s.state = "SYN_RCVD"
    PROVE  LET r == SynAckAgain(s) IN
           /\ SocketOK(r) /\ r.in_use = s.in_use /\ r.local_port = s.local_port /\ r.peer = s.peer
           /\ r.state = "SYN_RCVD"
<1> DEFINE p == (s.seq + SeqModulus - 1) % SeqModulus
           x == [s EXCEPT !.seq = p]
<1>1. s \in Socket /\ s.seq \in Number
  BY DEF SocketOK, Socket
<1>2. p \in Number
  BY <1>1, Numbers
<1>3. SynAckAgain(s) = tcp_send_packet(x, {"SYN", "ACK"}, 0)
  BY <1>1 DEF SynAckAgain, Socket
<1> HIDE DEF p
<1>4. x.in_use = s.in_use
  BY <1>1, Zenon DEF Socket
<1>5. /\ x.local_port = s.local_port /\ x.state = s.state /\ x.peer = s.peer /\ x.seq = p
      /\ x.synacks = s.synacks /\ SameBuffer(x, s)
  BY <1>1 DEF Socket, SameBuffer
<1>6. x \in Socket
  BY <1>1, <1>2 DEF Socket
<1> HIDE DEF x
<1>7. Ring(x)
  BY <1>5, RingKept DEF SocketOK
<1>8. s.peer # NoClient
  BY DEF SocketOK
<1>9. x.synacks # {} => x.synacks = {x.seq} /\ x.peer \in resolved
  BY <1>5 DEF SocketOK, OneSynAck, p
<1>10. LET r == tcp_send_packet(x, {"SYN", "ACK"}, 0) IN
       /\ SocketOK(r) /\ r.in_use = x.in_use /\ r.local_port = x.local_port /\ r.peer = x.peer
       /\ r.state = "SYN_RCVD"
  <2>1. x.in_use /\ x.state = "SYN_RCVD" /\ x.peer # NoClient
    BY <1>4, <1>5, <1>8, Zenon
  <2> QED BY <1>6, <1>7, <1>9, <2>1, SynAckSent, Zenon
<1> QED BY <1>3, <1>4, <1>5, <1>10, Zenon

(* The SYN that makes a connection: the slot it gets was free.             *)
LEMMA ConnectingIs ==
    ASSUME NEW s, NEW g \in Segment, NEW isn \in Isn,
           s \in Socket, Ring(s), s.in_use, s.n = 0
    PROVE  LET r == Connecting(s, g, isn) IN
           /\ SocketOK(r) /\ r.in_use /\ r.local_port = g.to /\ r.peer = g.from
           /\ r.state = "SYN_RCVD"
<1> DEFINE x == [s EXCEPT !.local_port = g.to, !.peer = g.from, !.seq = isn,
                          !.state = "SYN_RCVD", !.stream = <<>>, !.synacks = {}]
<1>1. g.to \in Nat /\ g.from \in Client /\ isn \in Number /\ NoClient \notin Client
  BY TcpAssumption, Zenon DEF Segment, Number
<1>2. Connecting(s, g, isn) = tcp_send_packet(x, {"SYN", "ACK"}, 0)
  BY DEF Connecting
<1>3. x.in_use = s.in_use
  BY Zenon DEF Socket
<1>4. /\ x.local_port = g.to /\ x.state = "SYN_RCVD" /\ x.peer = g.from /\ x.stream = <<>>
      /\ x.synacks = {} /\ x.n = s.n /\ x.head = s.head /\ x.tail = s.tail
  BY DEF Socket
<1>5. x \in Socket
  <2>1. <<>> \in Seq(Byte)
    OBVIOUS
  <2> QED BY <1>1, <2>1, Zenon DEF Socket
<1> HIDE DEF x
<1>6. Ring(x)
  <2>1. x.n = 0 /\ Len(<<>>) = 0 /\ 1 .. 0 = {}
    BY <1>4
  <2>2. x.head = (x.tail + x.n) % BufSize
    BY <1>4, Zenon DEF Ring
  <2> QED BY <1>4, <2>1, <2>2, Zenon DEF Ring
<1>7. LET r == tcp_send_packet(x, {"SYN", "ACK"}, 0) IN
      /\ SocketOK(r) /\ r.in_use = x.in_use /\ r.local_port = x.local_port /\ r.peer = x.peer
      /\ r.state = "SYN_RCVD"
  BY <1>1, <1>3, <1>4, <1>5, <1>6, SynAckSent, Zenon
<1> QED BY <1>2, <1>3, <1>4, <1>7, Zenon

(* What a segment of its peer may make of a socket s: its port stays, its  *)
(* peer stays or leaves, and only Establishes opens it.                    *)
Successor(r, s, g) ==
    /\ SocketOK(r) /\ r.in_use /\ r.local_port = s.local_port
    /\ r.peer = s.peer \/ r.peer = NoClient
    /\ r.state = "ESTABLISHED" => s.state = "ESTABLISHED" \/ Establishes(s, g)

(* The same connection, open.                                              *)
Opened(r, s) ==
    /\ SocketOK(r) /\ r.in_use /\ r.local_port = s.local_port /\ r.peer = s.peer
    /\ r.state = "ESTABLISHED"

(* A payload leaves an open connection as it is, but for its buffer.       *)
LEMMA FilledIs ==
    ASSUME NEW s, SocketOK(s), s.in_use, s.state = "ESTABLISHED", NEW data \in Seq(Byte)
    PROVE  Opened(Store(s, data), s)
<1>1. Store(s, data) \in Socket /\ Ring(Store(s, data)) /\ SameBut(Store(s, data), s)
  BY StoreRing, Zenon DEF SocketOK
<1> DEFINE r == Store(s, data)
<1> HIDE DEF r
<1>2. r.in_use
  BY <1>1, Zenon DEF SameBut, r
<1>3. r.local_port = s.local_port /\ r.peer = s.peer /\ r.state = "ESTABLISHED"
  BY <1>1 DEF SameBut, r
<1>4. s.peer # NoClient
  BY DEF SocketOK
<1>5. OneSynAck(r)
  BY <1>3 DEF OneSynAck
<1> QED BY <1>1, <1>2, <1>3, <1>4, <1>5 DEF SocketOK, Opened, r

(* The last ACK of the handshake opens the connection.                     *)
LEMMA OpenedIs ==
    ASSUME NEW s, SocketOK(s), s.in_use, s.state = "SYN_RCVD"
    PROVE  Opened([s EXCEPT !.state = "ESTABLISHED"], s)
<1> DEFINE x == [s EXCEPT !.state = "ESTABLISHED"]
<1>1. s \in Socket /\ s.peer # NoClient
  BY DEF SocketOK
<1>2. x.in_use = s.in_use
  BY <1>1, Zenon DEF Socket
<1>3. x.local_port = s.local_port /\ x.peer = s.peer /\ x.state = "ESTABLISHED" /\ SameBuffer(x, s)
  BY <1>1 DEF Socket, SameBuffer
<1>4. x \in Socket
  BY <1>1 DEF Socket
<1> HIDE DEF x
<1>5. Ring(x) /\ OneSynAck(x)
  BY <1>3, RingKept DEF SocketOK, OneSynAck
<1>6. x.in_use
  BY <1>2, Zenon
<1>7. x.peer = NoClient <=> x.state \in {"CLOSED", "LISTEN"}
  BY <1>1, <1>3
<1>8. Opened(x, s)
  BY <1>3, <1>4, <1>5, <1>6, <1>7, Zenon DEF SocketOK, Opened
<1> QED BY <1>8 DEF x

(* A reset or the end of the connection.                                   *)
LEMMA ResetIs ==
    ASSUME NEW x, SocketOK(x), x.in_use, NEW s, x.local_port = s.local_port, NEW g
    PROVE  Successor(ToListen(x), s, g)
<1> DEFINE r == ToListen(x)
<1>1. SocketOK(r) /\ r.in_use = x.in_use /\ r.local_port = x.local_port /\ r.state = "LISTEN" /\ r.peer = NoClient
  BY ToListenIs, Zenon DEF SocketOK
<1> HIDE DEF r
<1>2. r.state # "ESTABLISHED"
  BY <1>1
<1>3. Successor(r, s, g)
  BY <1>1, <1>2, Zenon DEF Successor
<1> QED BY <1>3 DEF r

(* The payload of a segment is a sequence of bytes.                        *)
LEMMA DataIs ==
    ASSUME NEW g \in Segment
    PROVE  g.data \in Seq(Byte)
<1>1. g.data \in Payload \cup {<<>>}
  BY DEF Segment
<1>2. <<>> \in Seq(Byte)
  OBVIOUS
<1> QED BY <1>1, <1>2, TcpAssumption, Zenon

(* A segment for a connection in SYN_RCVD (tcp.c:695-781).                 *)
LEMMA SynRcvdStep ==
    ASSUME NEW s, SocketOK(s), s.in_use, s.state = "SYN_RCVD", NEW g \in Segment
    PROVE  Successor(InSynRcvd(s, g), s, g)
<1> DEFINE opened == IF Establishes(s, g) THEN [s EXCEPT !.state = "ESTABLISHED"] ELSE s
           filled == IF TakesData(s, g) THEN Store(opened, g.data) ELSE opened
<1>1. CASE SynOnly(g)
  <2>1. InSynRcvd(s, g) = SynAckAgain(s)
    BY <1>1 DEF InSynRcvd
  <2> DEFINE r == SynAckAgain(s)
  <2>2. SocketOK(r) /\ r.in_use = s.in_use /\ r.local_port = s.local_port /\ r.peer = s.peer /\ r.state = "SYN_RCVD"
    BY SynAckAgainIs, Zenon
  <2> HIDE DEF r
  <2>3. r.state # "ESTABLISHED"
    BY <2>2
  <2>4. Successor(r, s, g)
    BY <2>2, <2>3, Zenon DEF Successor
  <2> QED BY <2>1, <2>4 DEF r
<1>2. CASE ~SynOnly(g)
  <2>1. SocketOK(filled) /\ filled.in_use /\ filled.local_port = s.local_port /\ filled.peer = s.peer
        /\ (filled.state = "ESTABLISHED" => Establishes(s, g))
    <3>1. CASE ~Establishes(s, g)
      <4>1. filled = s
        BY <3>1 DEF TakesData
      <4>2. s.state # "ESTABLISHED"
        OBVIOUS
      <4> HIDE DEF filled
      <4> QED BY <4>1, <4>2, Zenon
    <3>2. CASE Establishes(s, g)
      <4> DEFINE x == [s EXCEPT !.state = "ESTABLISHED"]
      <4>1. Opened(x, s)
        BY OpenedIs
      <4>2. opened = x
        BY <3>2
      <4> HIDE DEF x, opened
      <4>3. Opened(Store(x, g.data), x)
        BY <4>1, DataIs, FilledIs, Zenon DEF Opened
      <4>4. filled = Store(x, g.data) \/ filled = x
        BY <4>2, Zenon
      <4> HIDE DEF filled
      <4> QED BY <3>2, <4>1, <4>3, <4>4, Zenon DEF Opened
    <3> QED BY <3>1, <3>2
  <2>2. InSynRcvd(s, g) = ToListen(filled) \/ InSynRcvd(s, g) = filled
    BY <1>2, Zenon DEF InSynRcvd
  <2> HIDE DEF filled
  <2>3. Successor(ToListen(filled), s, g)
    BY <2>1, ResetIs, Zenon
  <2>4. Successor(filled, s, g)
    BY <2>1, Zenon DEF Successor
  <2> QED BY <2>2, <2>3, <2>4, Zenon
<1> QED BY <1>1, <1>2

(* Sending a packet changes the sequence number and what was sent of a     *)
(* socket, nothing else.                                                   *)
LEMMA SendSame ==
    ASSUME NEW s \in Socket, NEW flags, NEW len \in Nat
    PROVE  Sent(tcp_send_packet(s, flags, len), s)
BY SendIs, Zenon

(* The FIN of the peer is answered with ours.                              *)
LEMMA FinSent ==
    ASSUME NEW s \in Socket, Ring(s), s.in_use, s.peer # NoClient
    PROVE  LET r == [tcp_send_packet(s, {"FIN", "ACK"}, 0) EXCEPT !.state = "LAST_ACK"] IN
           /\ SocketOK(r) /\ r.in_use /\ r.local_port = s.local_port /\ r.peer = s.peer
           /\ r.state = "LAST_ACK"
<1> DEFINE F == {"FIN", "ACK"}
           x == tcp_send_packet(s, F, 0)
<1>z. 0 \in Nat
  OBVIOUS
<1> HIDE DEF F
<1>1. Sent(x, s)
  BY <1>z, SendSame
<1> HIDE DEF x
<1> DEFINE r == [x EXCEPT !.state = "LAST_ACK"]
<1>2. r.in_use = x.in_use
  BY <1>1, Zenon DEF Sent, Socket
<1>3. r.local_port = s.local_port /\ r.peer = s.peer /\ r.state = "LAST_ACK" /\ SameBuffer(r, s)
  BY <1>1 DEF Sent, Socket, SameBuffer
<1>4. r \in Socket
  BY <1>1 DEF Sent, Socket
<1> HIDE DEF r
<1>5. Ring(r) /\ OneSynAck(r)
  BY <1>3, RingKept DEF OneSynAck
<1>6. r.in_use
  BY <1>1, <1>2, Zenon DEF Sent
<1>7. r.peer = NoClient <=> r.state \in {"CLOSED", "LISTEN"}
  BY <1>3
<1>8. SocketOK(r)
  BY <1>4, <1>5, <1>6, <1>7, Zenon DEF SocketOK
<1> QED BY <1>3, <1>6, <1>8, Zenon DEF r, x, F

(* A segment for an open connection (tcp.c:783-849).                       *)
LEMMA EstablishedStep ==
    ASSUME NEW s, SocketOK(s), s.in_use, s.state = "ESTABLISHED", NEW g \in Segment
    PROVE  Successor(InEstablished(s, g), s, g)
<1> DEFINE filled == Store(s, g.data)
           closing == [tcp_send_packet(filled, {"FIN", "ACK"}, 0) EXCEPT !.state = "LAST_ACK"]
<1>1. Opened(filled, s) /\ s.peer # NoClient
  BY DataIs, FilledIs DEF SocketOK
<1>2. \/ InEstablished(s, g) = ToListen(filled) \/ InEstablished(s, g) = closing
      \/ InEstablished(s, g) = filled
  BY DEF InEstablished
<1> HIDE DEF filled
<1>3. SocketOK(closing) /\ closing.in_use /\ closing.local_port = filled.local_port
      /\ closing.peer = filled.peer /\ closing.state = "LAST_ACK"
  BY <1>1, FinSent, Zenon DEF Opened, SocketOK
<1> HIDE DEF closing
<1>4. closing.state # "ESTABLISHED"
  BY <1>3
<1>5. Successor(closing, s, g) /\ Successor(filled, s, g)
  BY <1>1, <1>3, <1>4, Zenon DEF Successor, Opened
<1>6. Successor(ToListen(filled), s, g)
  BY <1>1, ResetIs, Zenon DEF Opened
<1> QED BY <1>2, <1>5, <1>6, Zenon

(* A segment for a connection, whatever its state.                         *)
LEMMA SegmentStep ==
    ASSUME NEW s, SocketOK(s), s.in_use, s.peer # NoClient, NEW g \in Segment
    PROVE  Successor(OnSegment(s, g), s, g)
<1>1. s.state \in {"SYN_RCVD", "ESTABLISHED", "LAST_ACK"}
  BY DEF SocketOK, Socket
<1>2. CASE s.state = "SYN_RCVD"
  <2>1. OnSegment(s, g) = InSynRcvd(s, g)
    BY <1>2 DEF OnSegment
  <2> QED BY <1>2, <2>1, SynRcvdStep
<1>3. CASE s.state = "ESTABLISHED"
  <2>1. OnSegment(s, g) = InEstablished(s, g)
    BY <1>3 DEF OnSegment
  <2> QED BY <1>3, <2>1, EstablishedStep
<1>4. CASE s.state = "LAST_ACK"
  <2>1. OnSegment(s, g) = InLastAck(s, g)
    BY <1>4 DEF OnSegment
  <2>2. Successor(s, s, g)
    BY <1>4, Zenon DEF Successor
  <2>3. Successor(ToListen(s), s, g)
    BY ResetIs, Zenon
  <2> QED BY <2>1, <2>2, <2>3, Zenon DEF InLastAck
<1> QED BY <1>1, <1>2, <1>3, <1>4

(* A socket without a peer and with an empty buffer.                       *)
LEMMA EmptyOK ==
    ASSUME NEW r, r \in Socket, r.peer = NoClient, r.state \in {"CLOSED", "LISTEN"},
           r.n = 0, r.head = 0, r.tail = 0, r.stream = <<>>
    PROVE  SocketOK(r)
<1>1. BufSize \in Nat \ {0}
  BY TcpAssumption
<1>2. 0 % BufSize = 0
  BY <1>1
<1>3. r.n = Len(r.stream) /\ r.head = (r.tail + r.n) % BufSize
  BY <1>2
<1>4. Ring(r)
  BY <1>3 DEF Ring
<1>5. OneSynAck(r) /\ (r.peer = NoClient <=> r.state \in {"CLOSED", "LISTEN"})
  BY DEF OneSynAck
<1> QED BY <1>4, <1>5, Zenon DEF SocketOK

(* The values of a cleared socket are in their types.                      *)
LEMMA Zero ==
    0 \in Cell /\ 0 \in Number /\ 0 \in 0 .. BufSize /\ Blank \in [Cell -> Byte \cup {NoByte}]
    /\ <<>> \in Seq(Byte) /\ {} \in SUBSET Number
BY TcpAssumption DEF Cell, Number, Blank

(* tcp_init_socket makes a free socket.                                    *)
LEMMA FreshIs ==
    /\ tcp_init_socket \in Socket /\ SocketOK(tcp_init_socket) /\ ~tcp_init_socket.in_use
<1> DEFINE r == tcp_init_socket
<1>1. r \in Socket
  BY Zero DEF tcp_init_socket, Socket
<1>2. ~r.in_use
  BY DEF tcp_init_socket
<1>3. r.peer = NoClient /\ r.state \in {"CLOSED", "LISTEN"} /\ r.n = 0 /\ r.head = 0 /\ r.tail = 0 /\ r.stream = <<>>
  BY DEF tcp_init_socket
<1> HIDE DEF r
<1>4. SocketOK(r)
  BY <1>1, <1>3, EmptyOK
<1> QED BY <1>1, <1>2, <1>4, Zenon DEF r

(* tcp_socket_create resets every field of the slot it was given.          *)
LEMMA CreatedIs ==
    ASSUME NEW s \in Socket
    PROVE  SocketOK(Created(s)) /\ Created(s).in_use = s.in_use /\ Created(s).peer = NoClient
<1> DEFINE r == Created(s)
<1>1. r.in_use = s.in_use
  BY DEF Socket, Created
<1>2. r.peer = NoClient /\ r.state = "CLOSED" /\ r.n = 0 /\ r.head = 0 /\ r.tail = 0 /\ r.stream = <<>>
  BY DEF Socket, Created
<1>3. r \in Socket
  BY Zero, Zenon DEF Socket, Created
<1> HIDE DEF r
<1>4. SocketOK(r)
  BY <1>2, <1>3, EmptyOK
<1> QED BY <1>1, <1>2, <1>4, Zenon DEF r

(* tcp_close clears the slot and frees it.                                 *)
LEMMA ClearedIs ==
    ASSUME NEW s \in Socket
    PROVE  SocketOK(Cleared(s)) /\ ~Cleared(s).in_use
<1> DEFINE r == Cleared(s)
<1>1. ~r.in_use
  BY DEF Socket, Cleared
<1>2. r.peer = NoClient /\ r.state = "CLOSED" /\ r.n = 0 /\ r.head = 0 /\ r.tail = 0 /\ r.stream = <<>>
  BY DEF Socket, Cleared
<1>3. r \in Socket
  BY Zero, Zenon DEF Socket, Cleared
<1> HIDE DEF r
<1>4. SocketOK(r)
  BY <1>2, <1>3, EmptyOK
<1> QED BY <1>1, <1>4, Zenon DEF r

(* tcp_close_and_relisten clears the slot and listens on the port again.   *)
LEMMA RelistenIs ==
    ASSUME NEW s \in Socket, NEW port \in Nat
    PROVE  LET r == [Cleared(s) EXCEPT !.state = "LISTEN", !.in_use = TRUE, !.local_port = port] IN
           SocketOK(r) /\ r.in_use /\ r.peer = NoClient
<1> DEFINE r == [Cleared(s) EXCEPT !.state = "LISTEN", !.in_use = TRUE, !.local_port = port]
<1>1. r.in_use
  BY DEF Socket, Cleared
<1>2. r.peer = NoClient /\ r.state = "LISTEN" /\ r.n = 0 /\ r.head = 0 /\ r.tail = 0 /\ r.stream = <<>>
  BY DEF Socket, Cleared
<1>3. r \in Socket
  BY Zero, Zenon DEF Socket, Cleared
<1> HIDE DEF r
<1>4. SocketOK(r)
  BY <1>2, <1>3, EmptyOK
<1> QED BY <1>1, <1>2, <1>4, Zenon DEF r

(* The FIN that a close sends keeps the socket a socket.                   *)
LEMMA SendFinIs ==
    ASSUME NEW s \in Socket
    PROVE  SendFin(s) \in Socket
<1>1. 0 \in Nat
  OBVIOUS
<1>2. tcp_send_packet(s, {"FIN", "ACK"}, 0) \in Socket
  BY <1>1, SendSame, Zenon DEF Sent
<1> QED BY <1>2, Zenon DEF SendFin

(* What the calls on an open connection leave alone.                       *)
SameConnection(r, s) ==
    /\ SocketOK(r) /\ r.in_use = s.in_use /\ r.state = s.state
    /\ r.local_port = s.local_port /\ r.peer = s.peer

(* tcp_recv on an open connection.                                         *)
LEMMA RecvIs ==
    ASSUME NEW s, SocketOK(s), s.in_use, s.state = "ESTABLISHED", NEW len \in Nat
    PROVE  SameConnection(tcp_recv(s, len), s)
<1> DEFINE r == tcp_recv(s, len)
<1>1. r \in Socket /\ Ring(r) /\ SameBut(r, s)
  BY RecvRing, Zenon DEF SocketOK
<1> HIDE DEF r
<1>2. OneSynAck(r)
  BY <1>1 DEF SameBut, OneSynAck
<1>3. r.peer = NoClient <=> r.state \in {"CLOSED", "LISTEN"}
  BY <1>1 DEF SameBut, SocketOK
<1>4. SameConnection(r, s)
  BY <1>1, <1>2, <1>3, Zenon DEF SameBut, SameConnection, SocketOK
<1> QED BY <1>4 DEF r

(* tcp_send_packet on an open connection.                                  *)
LEMMA SendIsSame ==
    ASSUME NEW s, SocketOK(s), s.in_use, s.state = "ESTABLISHED", NEW flags, NEW len \in Nat
    PROVE  SameConnection(tcp_send_packet(s, flags, len), s)
<1> DEFINE r == tcp_send_packet(s, flags, len)
<1>0. s \in Socket
  BY DEF SocketOK
<1>1. Sent(r, s)
  BY <1>0, SendSame, Zenon
<1> HIDE DEF r
<1>2. OneSynAck(r)
  BY <1>1 DEF Sent, OneSynAck
<1>3. r.peer = NoClient <=> r.state \in {"CLOSED", "LISTEN"}
  BY <1>1 DEF Sent, SocketOK
<1>4. Ring(r)
  BY <1>1, RingKept DEF Sent, SocketOK
<1>5. SameConnection(r, s)
  BY <1>1, <1>2, <1>3, <1>4, Zenon DEF Sent, SameConnection, SocketOK
<1> QED BY <1>5 DEF r

(* bind gives a socket without a peer its port, listen its state.          *)
LEMMA ServerIs ==
    ASSUME NEW s, SocketOK(s), s.in_use, s.peer = NoClient, NEW port \in Nat
    PROVE  /\ LET r == [s EXCEPT !.local_port = port] IN SocketOK(r) /\ r.in_use /\ r.peer = NoClient
           /\ LET r == [s EXCEPT !.state = "LISTEN"] IN SocketOK(r) /\ r.in_use /\ r.peer = NoClient
<1>0. s \in Socket /\ s.state \in {"CLOSED", "LISTEN"}
  BY DEF SocketOK
<1>1. ASSUME NEW r \in Socket, SameBuffer(r, s), r.in_use = s.in_use, r.peer = s.peer, r.state \in {"CLOSED", "LISTEN"}
      PROVE  SocketOK(r) /\ r.in_use /\ r.peer = NoClient
  <2>1. Ring(r)
    BY <1>1, RingKept DEF SocketOK
  <2>2. OneSynAck(r)
    BY <1>1 DEF OneSynAck
  <2> QED BY <1>1, <2>1, <2>2, Zenon DEF SocketOK
<1>2. LET r == [s EXCEPT !.local_port = port] IN SocketOK(r) /\ r.in_use /\ r.peer = NoClient
  <2> DEFINE r == [s EXCEPT !.local_port = port]
  <2>1. r.in_use = s.in_use
    BY <1>0, Zenon DEF Socket
  <2>2. r.peer = s.peer /\ r.state \in {"CLOSED", "LISTEN"} /\ SameBuffer(r, s)
    BY <1>0 DEF Socket, SameBuffer
  <2>3. r \in Socket
    BY <1>0 DEF Socket
  <2> HIDE DEF r
  <2> QED BY <1>1, <2>1, <2>2, <2>3, Zenon DEF r
<1>3. LET r == [s EXCEPT !.state = "LISTEN"] IN SocketOK(r) /\ r.in_use /\ r.peer = NoClient
  <2> DEFINE r == [s EXCEPT !.state = "LISTEN"]
  <2>1. r.in_use = s.in_use
    BY <1>0, Zenon DEF Socket
  <2>2. r.peer = s.peer /\ r.state \in {"CLOSED", "LISTEN"} /\ SameBuffer(r, s)
    BY <1>0 DEF Socket, SameBuffer
  <2>3. r \in Socket
    BY <1>0 DEF Socket
  <2> HIDE DEF r
  <2> QED BY <1>1, <2>1, <2>2, <2>3, Zenon DEF r
<1> QED BY <1>2, <1>3, Zenon

-----------------------------------------------------------------------------
(* The table.                                                              *)

Table == [sock : Seq(Socket), count : Int, moves : Nat]

AllOK(t) == t \in Table /\ \A j \in DOMAIN t.sock : SocketOK(t.sock[j])

(* Table u is table t except for slot i, and may have new, free slots if   *)
(* the array was moved.                                                    *)
Becomes(u, t, i) ==
    /\ AllOK(u) /\ DOMAIN t.sock \subseteq DOMAIN u.sock
    /\ (u.moves = t.moves /\ DOMAIN u.sock = DOMAIN t.sock) \/ u.moves = t.moves + 1
    /\ \A j \in DOMAIN t.sock : j # i => u.sock[j] = t.sock[j]
    /\ \A j \in DOMAIN u.sock : j # i /\ j \notin DOMAIN t.sock => ~u.sock[j].in_use

(* A slot is written, and the count of sockets may change.                 *)
LEMMA PutIs ==
    ASSUME NEW t, AllOK(t), NEW i \in DOMAIN t.sock, NEW s, SocketOK(s), NEW c \in Int,
           NEW u, u = [sock |-> [t.sock EXCEPT ![i] = s], count |-> c, moves |-> t.moves]
    PROVE  Becomes(u, t, i) /\ u.sock[i] = s /\ u.moves = t.moves /\ DOMAIN u.sock = DOMAIN t.sock
<1>1. t.sock \in Seq(Socket) /\ t.moves \in Nat /\ s \in Socket
  BY DEF AllOK, Table, SocketOK
<1>2. [t.sock EXCEPT ![i] = s] \in Seq(Socket)
  BY <1>1
<1>3. u \in Table /\ u.sock = [t.sock EXCEPT ![i] = s] /\ u.moves = t.moves
  BY <1>1, <1>2 DEF Table
<1>4. DOMAIN u.sock = DOMAIN t.sock /\ u.sock[i] = s /\ \A j \in DOMAIN t.sock : j # i => u.sock[j] = t.sock[j]
  BY <1>1, <1>3
<1>5. AllOK(u)
  BY <1>3, <1>4, Zenon DEF AllOK
<1> QED BY <1>3, <1>4, <1>5, Zenon DEF Becomes

(* tcp_grow_sockets keeps every socket and adds free ones.                 *)
LEMMA GrowIs ==
    ASSUME NEW t, AllOK(t), Len(t.sock) < MaxSockets
    PROVE  LET u == tcp_grow_sockets(t) IN
           /\ AllOK(u) /\ u.moves = t.moves + 1 /\ DOMAIN t.sock \subseteq DOMAIN u.sock
           /\ \A j \in DOMAIN t.sock : u.sock[j] = t.sock[j]
           /\ \A j \in DOMAIN u.sock \ DOMAIN t.sock : u.sock[j] = tcp_init_socket
<1>1. t \in Table /\ t.sock \in Seq(Socket) /\ t.moves \in Nat /\ Len(t.sock) \in Nat /\ MaxSockets \in Nat
  BY TcpAssumption DEF AllOK, Table
<1> DEFINE size == Min({2 * Len(t.sock), MaxSockets})
           k == size - Len(t.sock)
           new == [i \in 1 .. k |-> tcp_init_socket]
           u == tcp_grow_sockets(t)
<1>2. k \in Nat
  <2>1. size = IF 2 * Len(t.sock) <= MaxSockets THEN 2 * Len(t.sock) ELSE MaxSockets
    BY <1>1, Smaller
  <2> HIDE DEF size
  <2> QED BY <1>1, <2>1
<1>3. u = [t EXCEPT !.sock = @ \o new, !.moves = @ + 1]
  BY DEF tcp_grow_sockets
<1> HIDE DEF k, u
<1>4. new \in Seq(Socket) /\ Len(new) = k /\ \A i \in 1 .. k : new[i] = tcp_init_socket
  BY <1>2, FreshIs
<1> HIDE DEF new
<1>5. t.sock \o new \in Seq(Socket) /\ Len(t.sock \o new) = Len(t.sock) + k
  BY <1>1, <1>2, <1>4
<1>6. u \in Table /\ u.sock = t.sock \o new /\ u.moves = t.moves + 1
  <2> DEFINE both == t.sock \o new
  <2>1. both \in Seq(Socket) /\ u = [t EXCEPT !.sock = both, !.moves = @ + 1]
    BY <1>3, <1>5, Zenon
  <2> HIDE DEF both
  <2> DEFINE m == t.moves + 1
  <2>2. m \in Nat /\ u = [t EXCEPT !.sock = both, !.moves = m]
    BY <1>1, <2>1 DEF Table
  <2>3. t \in Table
    BY <1>1
  <2> HIDE DEF m
  <2>4. u.sock = both /\ u.moves = m
    BY <2>2, <2>3 DEF Table
  <2>5. u \in Table
    BY <2>1, <2>2, <2>3, Zenon DEF Table
  <2> QED BY <2>4, <2>5 DEF both, m
<1>7. DOMAIN t.sock = 1 .. Len(t.sock) /\ DOMAIN u.sock = 1 .. (Len(t.sock) + k)
  BY <1>1, <1>5, <1>6
<1>8. \A j \in DOMAIN t.sock : u.sock[j] = t.sock[j]
  BY <1>1, <1>2, <1>4, <1>6, <1>7
<1>9. \A j \in DOMAIN u.sock \ DOMAIN t.sock : u.sock[j] = tcp_init_socket
  <2> SUFFICES ASSUME NEW j \in DOMAIN u.sock \ DOMAIN t.sock
               PROVE  u.sock[j] = tcp_init_socket
    OBVIOUS
  <2>1. j \in Len(t.sock) + 1 .. Len(t.sock) + k /\ j - Len(t.sock) \in 1 .. k
    BY <1>1, <1>2, <1>7
  <2>2. u.sock[j] = new[j - Len(t.sock)]
    BY <1>1, <1>2, <1>4, <1>6, <2>1
  <2> QED BY <1>4, <2>1, <2>2
<1>10. AllOK(u)
  BY <1>6, <1>8, <1>9, FreshIs, Zenon DEF AllOK
<1>11. DOMAIN t.sock \subseteq DOMAIN u.sock
  BY <1>1, <1>2, <1>7
<1> QED BY <1>6, <1>8, <1>9, <1>10, <1>11, Zenon DEF u

(* A search finds 0 exactly when nothing fits, and else the least that     *)
(* does.                                                                   *)
LEMMA FirstIs ==
    ASSUME NEW S, S \subseteq Nat \ {0}
    PROVE  /\ First(S) \in Nat
           /\ First(S) = 0 <=> S = {}
           /\ S # {} => First(S) \in S /\ \A x \in S : First(S) <= x
<1>1. CASE S = {}
  BY <1>1 DEF First
<1>2. CASE S # {}
  <2>1. PICK m \in S : \A x \in S : m <= x
    BY <1>2, LeastElement
  <2>2. Min(S) \in S /\ \A x \in S : Min(S) <= x
    BY <2>1, Zenon DEF Min
  <2>3. First(S) = Min(S)
    BY <1>2 DEF First
  <2> QED BY <1>2, <2>1, <2>2, <2>3, Zenon
<1> QED BY <1>1, <1>2

(* The slot that was written is written once more.                         *)
LEMMA PutAgain ==
    ASSUME NEW t, NEW u, NEW i, Becomes(u, t, i), i \in DOMAIN u.sock, NEW s, SocketOK(s), NEW c \in Int,
           NEW w, w = [sock |-> [u.sock EXCEPT ![i] = s], count |-> c, moves |-> u.moves]
    PROVE  Becomes(w, t, i) /\ w.sock[i] = s /\ w.moves = u.moves /\ DOMAIN w.sock = DOMAIN u.sock
<1>0. AllOK(u)
  BY DEF Becomes
<1>1. Becomes(w, u, i) /\ w.sock[i] = s /\ w.moves = u.moves /\ DOMAIN w.sock = DOMAIN u.sock
  BY <1>0, PutIs
<1>2. AllOK(w)
  BY <1>1, Zenon DEF Becomes
<1>3. \A j \in DOMAIN t.sock : j # i => w.sock[j] = t.sock[j]
  BY <1>1, Zenon DEF Becomes
<1>4. \A j \in DOMAIN w.sock : j # i /\ j \notin DOMAIN t.sock => ~w.sock[j].in_use
  BY <1>1, Zenon DEF Becomes
<1>5. (w.moves = t.moves /\ DOMAIN w.sock = DOMAIN t.sock) \/ w.moves = t.moves + 1
  BY <1>1, Zenon DEF Becomes
<1>6. DOMAIN t.sock \subseteq DOMAIN w.sock
  BY <1>1, Zenon DEF Becomes
<1> QED BY <1>1, <1>2, <1>3, <1>4, <1>5, <1>6, Zenon DEF Becomes

(* A free socket is taken.                                                 *)
LEMMA UseIs ==
    ASSUME NEW s, SocketOK(s), ~s.in_use
    PROVE  LET r == [s EXCEPT !.in_use = TRUE] IN SocketOK(r) /\ r.in_use /\ r.n = 0
<1> DEFINE r == [s EXCEPT !.in_use = TRUE]
<1>1. s \in Socket /\ Ring(s) /\ OneSynAck(s) /\ s.n = 0
  BY Zenon DEF SocketOK
<1>2. r.in_use
  BY <1>1 DEF Socket
<1>3. r.state = s.state /\ r.peer = s.peer /\ r.seq = s.seq /\ r.synacks = s.synacks /\ SameBuffer(r, s)
  BY <1>1 DEF Socket, SameBuffer
<1>4. r \in Socket
  BY <1>1, Zenon DEF Socket
<1> HIDE DEF r
<1>5. Ring(r) /\ OneSynAck(r) /\ r.n = 0
  BY <1>1, <1>3, RingKept DEF OneSynAck, SameBuffer
<1>6. r.peer = NoClient <=> r.state \in {"CLOSED", "LISTEN"}
  BY <1>3, Zenon DEF SocketOK
<1>7. SocketOK(r)
  BY <1>2, <1>4, <1>5, <1>6, Zenon DEF SocketOK
<1> QED BY <1>2, <1>5, <1>7, Zenon DEF r

(* tcp_alloc_socket changes at most the slot it returns, which was free,   *)
(* and takes it.                                                           *)
LEMMA AllocIs ==
    ASSUME NEW t, AllOK(t), NEW memory
    PROVE  LET a == tcp_alloc_socket(t, memory)
               u == a.table
           IN  /\ Becomes(u, t, a.slot) /\ a.slot \in Nat
               /\ a.slot # 0 => /\ a.slot \in DOMAIN u.sock
                                /\ a.slot \in DOMAIN t.sock => ~t.sock[a.slot].in_use
                                /\ u.sock[a.slot].in_use /\ u.sock[a.slot].n = 0
<1> DEFINE grown == IF FreeSlots(t) = {} /\ Len(t.sock) < MaxSockets /\ memory
                    THEN tcp_grow_sockets(t) ELSE t
           slot == IF FreeSlots(grown) = {} THEN 0 ELSE Min(FreeSlots(grown))
           a == tcp_alloc_socket(t, memory)
           used == [grown EXCEPT !.sock[slot].in_use = TRUE, !.count = @ + 1]
<1>1. a.slot = slot /\ a.table = IF slot = 0 THEN grown ELSE used
  BY DEF tcp_alloc_socket
<1>2. /\ AllOK(grown) /\ DOMAIN t.sock \subseteq DOMAIN grown.sock
      /\ (grown.moves = t.moves /\ DOMAIN grown.sock = DOMAIN t.sock) \/ grown.moves = t.moves + 1
      /\ \A j \in DOMAIN t.sock : grown.sock[j] = t.sock[j]
      /\ \A j \in DOMAIN grown.sock : j \notin DOMAIN t.sock => ~grown.sock[j].in_use
  <2>1. CASE FreeSlots(t) = {} /\ Len(t.sock) < MaxSockets /\ memory
    <3> DEFINE u == tcp_grow_sockets(t)
    <3>1. grown = u
      BY <2>1
    <3>2. /\ AllOK(u) /\ u.moves = t.moves + 1 /\ DOMAIN t.sock \subseteq DOMAIN u.sock
          /\ \A j \in DOMAIN t.sock : u.sock[j] = t.sock[j]
          /\ \A j \in DOMAIN u.sock \ DOMAIN t.sock : u.sock[j] = tcp_init_socket
      BY <2>1, GrowIs, Zenon
    <3> HIDE DEF u, grown
    <3>3. \A j \in DOMAIN u.sock : j \notin DOMAIN t.sock => ~u.sock[j].in_use
      BY <3>2, FreshIs, Zenon
    <3> QED BY <3>1, <3>2, <3>3, Zenon
  <2>2. CASE ~(FreeSlots(t) = {} /\ Len(t.sock) < MaxSockets /\ memory)
    <3>1. grown = t
      BY <2>2
    <3> HIDE DEF grown
    <3> QED BY <3>1, Zenon
  <2> QED BY <2>1, <2>2, Zenon
<1> HIDE DEF grown
<1>3. DOMAIN grown.sock \subseteq Nat \ {0}
  BY <1>2 DEF AllOK, Table
<1>4. FreeSlots(grown) \subseteq Nat \ {0}
  BY <1>3 DEF FreeSlots
<1>5. slot = First(FreeSlots(grown))
  BY DEF First
<1>6. slot \in Nat /\ (slot # 0 => slot \in DOMAIN grown.sock /\ ~grown.sock[slot].in_use)
  BY <1>4, <1>5, FirstIs, Zenon DEF FreeSlots
<1> HIDE DEF slot
<1>7. CASE slot = 0
  <2>1. a.table = grown
    BY <1>1, <1>7
  <2> HIDE DEF a
  <2>2. Becomes(grown, t, 0)
    BY <1>2, Zenon DEF Becomes
  <2> QED BY <1>1, <1>6, <1>7, <2>1, <2>2, Zenon DEF a
<1>8. CASE slot # 0
  <2> DEFINE x == grown.sock[slot]
             s == [x EXCEPT !.in_use = TRUE]
             c == grown.count + 1
  <2>1. grown \in Table /\ SocketOK(x) /\ ~x.in_use /\ c \in Int
    BY <1>2, <1>6, <1>8 DEF AllOK, Table
  <2>2. used = [sock |-> [grown.sock EXCEPT ![slot] = s], count |-> c, moves |-> grown.moves]
    <3>1. used = [grown EXCEPT !.sock = [grown.sock EXCEPT ![slot] = s], !.count = c]
      BY <2>1 DEF Table
    <3> HIDE DEF s, c, used
    <3> QED BY <2>1, <3>1, Zenon DEF Table
  <2>3. SocketOK(s) /\ s.in_use /\ s.n = 0
    BY <2>1, UseIs, Zenon
  <2> HIDE DEF s, c, x, used
  <2>4. Becomes(grown, t, slot)
    BY <1>2, Zenon DEF Becomes
  <2>5. Becomes(used, t, slot) /\ used.sock[slot] = s /\ DOMAIN used.sock = DOMAIN grown.sock
    BY <1>6, <1>8, <2>1, <2>2, <2>3, <2>4, PutAgain
  <2>6. slot \in DOMAIN t.sock => ~t.sock[slot].in_use
    BY <1>2, <1>6, <1>8, Zenon
  <2>7. a.table = used
    BY <1>1, <1>8
  <2> HIDE DEF a
  <2> QED BY <1>1, <1>6, <1>8, <2>3, <2>5, <2>6, <2>7, Zenon DEF a
<1> QED BY <1>7, <1>8, Zenon

(* A new socket in slot i, which was free.                                 *)
Taken(u, t, i) ==
    /\ i \in DOMAIN u.sock /\ u.sock[i].in_use
    /\ i \in DOMAIN t.sock => ~t.sock[i].in_use

(* A table with another array of sockets, field by field.                  *)
LEMMA Rewritten ==
    ASSUME NEW t \in Table, NEW q
    PROVE  [t EXCEPT !.sock = q] = [sock |-> q, count |-> t.count, moves |-> t.moves]
BY DEF Table

(* One slot of a table is written.                                         *)
LEMMA WriteIs ==
    ASSUME NEW t, AllOK(t), NEW i \in DOMAIN t.sock, NEW s, SocketOK(s)
    PROVE  LET u == [t EXCEPT !.sock[i] = s] IN
           Becomes(u, t, i) /\ u.sock[i] = s /\ u.moves = t.moves
<1> DEFINE u == [t EXCEPT !.sock[i] = s]
           c == t.count
<1>1. t \in Table /\ c \in Int
  BY DEF AllOK, Table
<1>2. u = [sock |-> [t.sock EXCEPT ![i] = s], count |-> c, moves |-> t.moves]
  <2> DEFINE q == [t.sock EXCEPT ![i] = s]
  <2>1. u = [t EXCEPT !.sock = q]
    OBVIOUS
  <2> HIDE DEF q, u
  <2>2. u = [sock |-> q, count |-> t.count, moves |-> t.moves]
    BY <1>1, <2>1, Rewritten
  <2> QED BY <2>2 DEF q
<1> HIDE DEF u, c
<1>3. Becomes(u, t, i) /\ u.sock[i] = s /\ u.moves = t.moves
  BY <1>1, <1>2, PutIs
<1> QED BY <1>3 DEF u

(* tcp_socket_create takes a free slot, or none.                           *)
LEMMA CreateIs ==
    ASSUME NEW t, AllOK(t), NEW memory
    PROVE  LET a == tcp_socket_create(t, memory)
           IN  /\ Becomes(a.table, t, a.slot) /\ a.slot \in Nat
               /\ a.slot # 0 => Taken(a.table, t, a.slot) /\ a.table.sock[a.slot].peer = NoClient
<1> DEFINE a == tcp_alloc_socket(t, memory)
           b == tcp_socket_create(t, memory)
<1>1. /\ Becomes(a.table, t, a.slot) /\ a.slot \in Nat
      /\ a.slot # 0 => Taken(a.table, t, a.slot)
  BY AllocIs DEF Taken
<1>2. a = [slot |-> a.slot, table |-> a.table]
  BY DEF tcp_alloc_socket
<1>3. b = IF a.slot = 0 THEN a ELSE [a EXCEPT !.table.sock[a.slot] = Created(@)]
  BY DEF tcp_socket_create
<1> HIDE DEF a, b
<1>4. CASE a.slot = 0
  BY <1>1, <1>3, <1>4, Zenon DEF b
<1>5. CASE a.slot # 0
  <2> DEFINE u == a.table
             i == a.slot
             s == Created(u.sock[i])
             w == [u EXCEPT !.sock[i] = s]
             c == u.count
  <2>1. AllOK(u) /\ u \in Table /\ i \in DOMAIN u.sock /\ c \in Int
    BY <1>1, <1>5 DEF Becomes, Taken, AllOK, Table
  <2>2. SocketOK(s) /\ s.in_use = u.sock[i].in_use /\ s.peer = NoClient
    <3>1. u.sock[i] \in Socket
      BY <2>1 DEF AllOK, SocketOK
    <3> QED BY <3>1, CreatedIs
  <2>3. b = [a EXCEPT !.table = w]
    BY <1>3, <1>5, Zenon
  <2>4. b.slot = i /\ b.table = w
    BY <1>2, <2>3
  <2>5. w = [sock |-> [u.sock EXCEPT ![i] = s], count |-> c, moves |-> u.moves]
    <3> HIDE DEF s
    <3> DEFINE q == [u.sock EXCEPT ![i] = s]
    <3>1. w = [u EXCEPT !.sock = q]
      OBVIOUS
    <3> HIDE DEF q, w, u, i
    <3>2. w = [sock |-> q, count |-> u.count, moves |-> u.moves]
      BY <2>1, <3>1, Rewritten
    <3> QED BY <3>2 DEF q
  <2> HIDE DEF u, i, s, w, c
  <2>6. Becomes(u, t, i)
    BY <1>1, <1>5 DEF u, i
  <2>7. Becomes(w, t, i) /\ w.sock[i] = s /\ DOMAIN w.sock = DOMAIN u.sock
    BY <2>1, <2>2, <2>5, <2>6, PutAgain
  <2>8. Taken(w, t, i) /\ w.sock[i].peer = NoClient
    BY <1>1, <1>5, <2>1, <2>2, <2>7, Zenon DEF Taken, u, i
  <2>9. i \in Nat
    BY <1>1 DEF i
  <2> QED BY <2>4, <2>7, <2>8, <2>9, Zenon DEF b
<1> QED BY <1>4, <1>5, Zenon

(* tcp_close frees the slot.                                               *)
LEMMA CloseIs ==
    ASSUME NEW t, AllOK(t), NEW i \in DOMAIN t.sock
    PROVE  LET u == tcp_close(t, i) IN
           Becomes(u, t, i) /\ ~u.sock[i].in_use /\ u.moves = t.moves
<1> DEFINE u == tcp_close(t, i)
           x == SendFin(t.sock[i])
           s == Cleared(x)
           c == t.count - 1
<1>1. t \in Table /\ c \in Int /\ t.sock[i] \in Socket
  BY DEF AllOK, Table
<1>2. SocketOK(s) /\ ~s.in_use
  BY <1>1, SendFinIs, ClearedIs
<1>3. u = [sock |-> [t.sock EXCEPT ![i] = s], count |-> c, moves |-> t.moves]
  <2> DEFINE v == [t EXCEPT !.sock[i] = x]
  <2>1. u = Release(v, i)
    BY DEF tcp_close
  <2>2. v.sock = [t.sock EXCEPT ![i] = x] /\ v.count = t.count /\ v.moves = t.moves
        /\ v = [sock |-> v.sock, count |-> v.count, moves |-> v.moves]
    <3> HIDE DEF x
    <3> QED BY <1>1 DEF Table
  <2>3. v.sock[i] = x /\ [v.sock EXCEPT ![i] = s] = [t.sock EXCEPT ![i] = s]
    <3> HIDE DEF x, s
    <3> QED BY <1>1, <2>2 DEF Table
  <2> HIDE DEF v, u
  <2>4. u = [v EXCEPT !.sock[i] = Cleared(v.sock[i]), !.count = v.count - 1]
    BY <2>1 DEF Release
  <2>5. u = [v EXCEPT !.sock = [v.sock EXCEPT ![i] = s], !.count = c]
    BY <2>2, <2>3, <2>4
  <2> HIDE DEF s, c
  <2> QED BY <2>2, <2>3, <2>5, Zenon
<1> HIDE DEF u, s, c
<1> QED BY <1>1, <1>2, <1>3, PutIs DEF u

(* tcp_close_and_relisten leaves the slot a listening socket.              *)
LEMMA CloseAndRelistenIs ==
    ASSUME NEW t, AllOK(t), NEW i \in DOMAIN t.sock
    PROVE  LET u == tcp_close_and_relisten(t, i) IN
           Becomes(u, t, i) /\ u.sock[i].in_use /\ u.sock[i].peer = NoClient /\ u.moves = t.moves
<1> DEFINE u == tcp_close_and_relisten(t, i)
           x == SendFin(t.sock[i])
           port == t.sock[i].local_port
           s == [Cleared(x) EXCEPT !.state = "LISTEN", !.in_use = TRUE, !.local_port = port]
<1>1. t.sock[i] \in Socket /\ port \in Nat
  BY DEF AllOK, Table, SocketOK, Socket
<1>2. x \in Socket
  BY <1>1, SendFinIs
<1>3. u = [t EXCEPT !.sock[i] = s]
  BY DEF tcp_close_and_relisten
<1> HIDE DEF x, port
<1>4. SocketOK(s) /\ s.in_use /\ s.peer = NoClient
  BY <1>1, <1>2, RelistenIs, Zenon
<1> HIDE DEF s, u
<1>5. Becomes(u, t, i) /\ u.sock[i] = s /\ u.moves = t.moves
  BY <1>3, <1>4, WriteIs
<1> QED BY <1>4, <1>5, Zenon DEF u

(* A segment for no socket and a SYN: slot i becomes the connection.       *)
Connected(u, t, i, g) ==
    /\ Taken(u, t, i) /\ u.sock[i].state = "SYN_RCVD"
    /\ u.sock[i].local_port = g.to /\ u.sock[i].peer = g.from
    /\ \A j \in DOMAIN t.sock :
           t.sock[j].in_use /\ t.sock[j].peer = g.from => t.sock[j].local_port # g.to

(* A segment for the socket in slot i.                                     *)
Handled(u, t, i, g) ==
    /\ i = tcp_find_socket(t, g.to, g.from) /\ i # 0 /\ i \in DOMAIN t.sock /\ t.sock[i].in_use
    /\ t.sock[i].local_port = g.to /\ t.sock[i].peer = g.from
    /\ Successor(u.sock[i], t.sock[i], g)

(* The SYN for a listening port: it makes one connection in a free slot,   *)
(* or nothing.                                                             *)
LEMMA OnListenIs ==
    ASSUME NEW t, AllOK(t), NEW g \in Segment, NEW isn \in Isn, NEW memory,
           \A j \in DOMAIN t.sock :
               t.sock[j].in_use /\ t.sock[j].peer = g.from => t.sock[j].local_port # g.to
    PROVE  LET u == OnListen(t, g, isn, memory) IN
           \E i \in Nat : Becomes(u, t, i) /\ (i = 0 \/ Connected(u, t, i, g))
<1> DEFINE a == tcp_alloc_socket(t, memory)
           w == OnListen(t, g, isn, memory)
           u == a.table
           i == a.slot
           x == u.sock[i]
           s == Connecting(x, g, isn)
           c == u.count
<1>1. /\ Becomes(u, t, i) /\ i \in Nat
      /\ i # 0 => /\ i \in DOMAIN u.sock /\ (i \in DOMAIN t.sock => ~t.sock[i].in_use)
                  /\ x.in_use /\ x.n = 0
  BY AllocIs
<1>2. w = IF i = 0 THEN u ELSE [u EXCEPT !.sock[i] = s]
  BY DEF OnListen
<1> HIDE DEF a, w
<1>3. CASE i = 0
  BY <1>1, <1>2, <1>3, Zenon DEF w
<1>4. CASE i # 0
  <2>1. AllOK(u) /\ u \in Table /\ c \in Int /\ i \in DOMAIN u.sock
    BY <1>1, <1>4 DEF Becomes, AllOK, Table
  <2>2. x \in Socket /\ Ring(x) /\ x.in_use /\ x.n = 0
    BY <1>1, <1>4, <2>1, Zenon DEF AllOK, SocketOK
  <2> HIDE DEF x
  <2>3. SocketOK(s) /\ s.in_use /\ s.local_port = g.to /\ s.peer = g.from /\ s.state = "SYN_RCVD"
    BY <2>2, ConnectingIs, Zenon
  <2>4. w = [sock |-> [u.sock EXCEPT ![i] = s], count |-> c, moves |-> u.moves]
    <3> HIDE DEF s
    <3> DEFINE q == [u.sock EXCEPT ![i] = s]
    <3>1. w = [u EXCEPT !.sock = q]
      BY <1>2, <1>4
    <3> HIDE DEF q, u, i
    <3>2. w = [sock |-> q, count |-> u.count, moves |-> u.moves]
      BY <2>1, <3>1, Rewritten
    <3> QED BY <3>2 DEF q
  <2> HIDE DEF u, i, s, c
  <2>5. Becomes(u, t, i) /\ i \in Nat /\ (i \in DOMAIN t.sock => ~t.sock[i].in_use)
    BY <1>1, <1>4, Zenon
  <2>6. Becomes(w, t, i) /\ w.sock[i] = s /\ DOMAIN w.sock = DOMAIN u.sock
    BY <2>1, <2>3, <2>4, <2>5, PutAgain
  <2>7. Connected(w, t, i, g)
    BY <2>1, <2>3, <2>5, <2>6, Zenon DEF Connected, Taken
  <2> QED BY <2>5, <2>6, <2>7, ZenonT(30) DEF w
<1> QED BY <1>3, <1>4, ZenonT(30)

(* tcp_find_socket returns the connection of a peer to a port, or 0 when   *)
(* there is none.                                                          *)
LEMMA FindIs ==
    ASSUME NEW t, AllOK(t), NEW port, NEW c
    PROVE  LET i == tcp_find_socket(t, port, c) IN
           /\ i \in Nat
           /\ i # 0 => /\ i \in DOMAIN t.sock /\ t.sock[i].in_use
                       /\ t.sock[i].local_port = port /\ t.sock[i].peer = c
           /\ i = 0 => \A j \in DOMAIN t.sock :
                           t.sock[j].in_use /\ t.sock[j].peer = c => t.sock[j].local_port # port
<1> DEFINE S == {j \in InUseAt(t, port) : t.sock[j].peer = c}
           i == tcp_find_socket(t, port, c)
<1>1. DOMAIN t.sock \subseteq Nat \ {0}
  BY DEF AllOK, Table
<1>2. S \subseteq Nat \ {0}
  BY <1>1 DEF InUseAt
<1>3. i = First(S)
  BY DEF tcp_find_socket
<1>4. \A j : j \in S <=> /\ j \in DOMAIN t.sock /\ t.sock[j].in_use
                         /\ t.sock[j].local_port = port /\ t.sock[j].peer = c
  BY DEF InUseAt
<1> HIDE DEF S, i
<1>5. i \in Nat /\ (i = 0 <=> S = {}) /\ (S # {} => i \in S)
  BY <1>2, <1>3, FirstIs, Zenon
<1>6. S = {} => \A j : j \notin S
  OBVIOUS
<1> QED BY <1>4, <1>5, <1>6, Zenon DEF i

(* tcp_handle_packet changes one slot at most: a new connection, or the    *)
(* one that the segment belongs to.                                        *)
LEMMA PacketIs ==
    ASSUME NEW t, AllOK(t), NEW g \in Segment, NEW isn \in Isn, NEW memory
    PROVE  LET u == tcp_handle_packet(t, g, isn, memory) IN
           \E i \in Nat : Becomes(u, t, i) /\ (i = 0 \/ Connected(u, t, i, g) \/ Handled(u, t, i, g))
<1> DEFINE u == tcp_handle_packet(t, g, isn, memory)
           e == tcp_find_socket(t, g.to, g.from)
           s == OnSegment(t.sock[e], g)
<1>1. /\ e \in Nat
      /\ e # 0 => /\ e \in DOMAIN t.sock /\ t.sock[e].in_use
                  /\ t.sock[e].local_port = g.to /\ t.sock[e].peer = g.from
      /\ e = 0 => \A j \in DOMAIN t.sock :
                      t.sock[j].in_use /\ t.sock[j].peer = g.from => t.sock[j].local_port # g.to
  BY FindIs
<1>2. CASE e # 0
  <2>1. u = [t EXCEPT !.sock[e] = s]
    BY <1>2 DEF tcp_handle_packet
  <2>2. Successor(s, t.sock[e], g)
    <3>1. t.sock[e].peer # NoClient
      BY <1>1, <1>2, TcpAssumption DEF Segment
    <3> HIDE DEF e
    <3> QED BY <1>1, <1>2, <3>1, SegmentStep, Zenon DEF AllOK
  <2> HIDE DEF e, s, u
  <2>3. Becomes(u, t, e) /\ u.sock[e] = s
    <3>1. SocketOK(s) /\ e \in DOMAIN t.sock
      BY <1>1, <1>2, <2>2, Zenon DEF Successor
    <3> QED BY <2>1, <3>1, WriteIs
  <2>4. Handled(u, t, e, g)
    BY <1>1, <1>2, <2>2, <2>3, Zenon DEF Handled, e
  <2> QED BY <1>1, <2>3, <2>4, Zenon DEF u
<1>3. CASE e = 0 /\ SynOnly(g) /\ tcp_find_listening_socket(t, g.to) # 0
  <2>1. u = OnListen(t, g, isn, memory)
    BY <1>3 DEF tcp_handle_packet
  <2> QED BY <1>1, <1>3, <2>1, OnListenIs, Zenon
<1>4. CASE e = 0 /\ ~(SynOnly(g) /\ tcp_find_listening_socket(t, g.to) # 0)
  <2>1. u = t
    BY <1>4 DEF tcp_handle_packet
  <2>2. Becomes(t, t, 0)
    BY DEF Becomes
  <2> QED BY <2>1, <2>2, Zenon
<1> QED BY <1>2, <1>3, <1>4
=============================================================================
