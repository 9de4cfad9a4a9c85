------------------------------- MODULE Rings -------------------------------
(***************************************************************************)
(* The three network cards, from the descriptor rings up to the Ethernet   *)
(* layer: src/src/drivers/net/e1000e.c, pcnet.c and virtio_net.c, the      *)
(* virtqueues of src/src/drivers/virtio/virtio_transport.c and the         *)
(* dispatch of the interrupt in src/src/net/core/netdev.c.                 *)
(*                                                                         *)
(* The card is a process of its own that reads and writes the rings at any *)
(* time.  Driver code runs in two contexts: the interrupt handler, which   *)
(* answers some of the frames it receives, and a thread, which sends and,  *)
(* at boot, polls.  The handler of the e1000e and of virtio runs with      *)
(* interrupts disabled.  The one of the PCnet does not: each access to a   *)
(* register of that card ends with sti, so the clock may switch threads    *)
(* inside the handler.                                                     *)
(***************************************************************************)
EXTENDS Integers, Sequences, FiniteSets, SequencesExt

CONSTANTS Boards,      \* machines: records with the fields of BoardFields
          IndexSpan    \* number of values of a virtqueue index, 2^16 in the code

BoardFields == [card : {"e1000e", "pcnet", "virtio"},
                line : {"irq11", "other", "none"},  \* where the card's interrupt arrives
                n : Nat \ {0},      \* descriptors of a ring
                arrivals : Nat,     \* bound on frames from the wire
                answered : BOOLEAN, \* do received frames get an answer
                sends : Nat,        \* bound on frames a thread sends
                polls : Nat]        \* bound on calls of net_poll

(* The index of a virtqueue wraps at a multiple of the size of its rings. *)
ASSUME RingsAssumption ==
    /\ Boards \subseteq BoardFields
    /\ IndexSpan \in Nat \ {0}
    /\ \A b \in Boards : b.card = "virtio" => IndexSpan % b.n = 0 /\ IndexSpan > b.n

VARIABLES board,    \* the machine
          cause,    \* the card's interrupt cause for reception (RXT0, RINT, ISR bit 0)
          ring,     \* the rings of the e1000e and of the PCnet
          vq,       \* the virtqueues
          mem,      \* contents of the receive buffers of virtio
          at, loc,  \* per context: its step, and the descriptor (virtio: buffer) received
          txd, buf, frame, ret, \* descriptor, buffer and frame being sent, step after it
          onwire,   \* number of frames that reached the card
          polled,   \* number of calls of net_poll
          started,  \* number of frames the thread began to send
          arrived, handled,   \* good frames put in the rings; given to the stack
          accepted, sent      \* frames the driver returned success for; on the wire

ringsVars == <<board, cause, ring, vq, mem, at, loc, txd, buf, frame, ret, onwire,
               polled, started, arrived, handled, accepted, sent>>
counters == <<board, onwire, polled, started>>

(* Frames are numbered; a damaged one is negative.  Receive buffers of virtio *)
(* are numbered from 1.                                                       *)
NoFrame == 0           \* no frame, no buffer
Contexts == {"irq", "thread"}
Index == 0 .. board.n - 1
Up(i) == (i + 1) % board.n
Is(card) == board.card = card

-----------------------------------------------------------------------------
(* Virtqueues. *)

HasUsed(q) == q.last_used_idx # q.used_idx

UsedHead(q) == q.used[q.last_used_idx % board.n]

(* virtio_queue_get_used: the descriptor goes back to the free list. *)
GetUsed(q) ==
    LET i == UsedHead(q) IN
    [q EXCEPT !.buffers[i] = NoFrame, !.next[i] = q.free_head, !.free_head = i,
              !.num_free = @ + 1, !.last_used_idx = (@ + 1) % IndexSpan]

(* virtio_queue_add_buf in three parts: fill the first free descriptor,     *)
(* take it off the free list, put it in the available ring.                 *)
Fill(q, i, b) == [q EXCEPT !.desc[i] = b, !.buffers[i] = b]

(* Mutation: the head of the free list stays.                               *)
UnlinkKeepsHead(q, i) == [q EXCEPT !.num_free = @ - 1]

Unlink(q, i) == [q EXCEPT !.free_head = q.next[i], !.num_free = @ - 1]

Publish(q, i) ==
    [q EXCEPT !.avail[q.avail_idx % board.n] = i, !.avail_idx = (@ + 1) % IndexSpan]

AddBuf(q, b) ==
    IF q.num_free = 0 THEN q
    ELSE LET i == q.free_head IN Publish(Unlink(Fill(q, i, b), i), i)

(* The device takes the next available descriptor and returns it. *)
Offers(q) == q.device_idx # q.avail_idx
Offered(q) == q.avail[q.device_idx % board.n]
Return(q) == [q EXCEPT !.used[q.used_idx % board.n] = Offered(q),
                       !.used_idx = (@ + 1) % IndexSpan,
                       !.device_idx = (@ + 1) % IndexSpan]

(* The queue setup_queue leaves: all descriptors on the free list. *)
EmptyQueue(n) ==
    [desc |-> [i \in 0 .. n - 1 |-> NoFrame], buffers |-> [i \in 0 .. n - 1 |-> NoFrame],
     next |-> [i \in 0 .. n - 1 |-> (i + 1) % n], free_head |-> 0, num_free |-> n,
     avail |-> [i \in 0 .. n - 1 |-> 0], avail_idx |-> 0, device_idx |-> 0,
     used |-> [i \in 0 .. n - 1 |-> 0], used_idx |-> 0, last_used_idx |-> 0]

(* virtio_net_refill_rx: every receive buffer is offered to the device. *)
RefilledQueue(n) ==
    [EmptyQueue(n) EXCEPT
        !.desc = [i \in 0 .. n - 1 |-> i + 1], !.buffers = [i \in 0 .. n - 1 |-> i + 1],
        !.num_free = 0, !.avail = [i \in 0 .. n - 1 |-> i],
        !.avail_idx = n % IndexSpan]

-----------------------------------------------------------------------------
(* Rings of descriptors: e1000_init_rx and e1000_init_tx, pcnet_init.  A    *)
(* receive descriptor without a frame is the card's (status 0, OWN 1).      *)
EmptyRing(n) ==
    [rx |-> [i \in 0 .. n - 1 |-> NoFrame], rx_cur |-> 0, rdh |-> 0, rdt |-> n - 1,
     tx |-> [i \in 0 .. n - 1 |-> [buf |-> i, busy |-> FALSE]],
     txbuf |-> [i \in 0 .. n - 1 |-> NoFrame], tx_cur |-> 0, tdh |-> 0, tdt |-> 0]

RingsInit ==
    /\ board \in Boards
    /\ cause = FALSE
    /\ ring = EmptyRing(board.n)
    /\ vq = [rx |-> RefilledQueue(board.n), tx |-> EmptyQueue(board.n)]
    /\ mem = [b \in 1 .. board.n |-> NoFrame]
    /\ at = [c \in Contexts |-> "idle"]
    /\ ret = [c \in Contexts |-> "idle"]
    /\ loc = [c \in Contexts |-> 0]
    /\ txd = [c \in Contexts |-> 0]
    /\ buf = [c \in Contexts |-> 0]
    /\ frame = [c \in Contexts |-> NoFrame]
    /\ onwire = 0 /\ polled = 0 /\ started = 0
    /\ arrived = <<>> /\ handled = <<>> /\ accepted = {} /\ sent = <<>>

-----------------------------------------------------------------------------
(* The card (external). *)

CardHasRoom ==
    CASE Is("e1000e") -> ring.rdh # ring.rdt
      [] Is("pcnet")  -> ring.rx[ring.rdh] = NoFrame
      [] Is("virtio") -> Offers(vq.rx)

(* A frame arrives; a damaged one is flagged by the card, except by virtio. *)
CardReceives ==
    /\ onwire < board.arrivals
    /\ CardHasRoom
    /\ \E f \in {onwire + 1} \cup (IF Is("virtio") THEN {} ELSE {-(onwire + 1)}) :
         /\ IF Is("virtio")
            THEN /\ mem' = [mem EXCEPT ![vq.rx.desc[Offered(vq.rx)]] = f]
                 /\ vq' = [vq EXCEPT !.rx = Return(@)]
                 /\ UNCHANGED ring
            ELSE /\ ring' = [ring EXCEPT !.rx[ring.rdh] = f, !.rdh = Up(@)]
                 /\ UNCHANGED <<mem, vq>>
         /\ arrived' = IF f > 0 THEN Append(arrived, f) ELSE arrived
    /\ onwire' = onwire + 1
    /\ cause' = TRUE
    /\ UNCHANGED <<board, at, loc, txd, buf, frame, ret, polled, started, handled,
                   accepted, sent>>

CardSends ==
    /\ \/ /\ IF Is("e1000e") THEN ring.tdh # ring.tdt
             ELSE Is("pcnet") /\ ring.tx[ring.tdh].busy
          /\ sent' = Append(sent, ring.txbuf[ring.tx[ring.tdh].buf])
          /\ ring' = [ring EXCEPT !.tx[ring.tdh].busy = FALSE, !.tdh = Up(@)]
          /\ UNCHANGED vq
       \/ /\ Is("virtio") /\ Offers(vq.tx)
          /\ sent' = Append(sent, vq.tx.desc[Offered(vq.tx)])
          /\ vq' = [vq EXCEPT !.tx = Return(@)]
          /\ UNCHANGED ring
    /\ UNCHANGED <<counters, cause, mem, at, loc, txd, buf, frame, ret, arrived,
                   handled, accepted>>

-----------------------------------------------------------------------------
(* The handler and net_poll. *)

(* A context may move: the handler interrupts the thread, and only the one  *)
(* of the PCnet can lose the CPU to it.                                     *)
Runs(c) == c = "irq" \/ at["irq"] = "idle" \/ Is("pcnet")

Goes(c, step) == at' = [at EXCEPT ![c] = step]

(* network_irq_handler on line 11 calls all three drivers; the stub that    *)
(* pcnet_init, virtio_net_init and e1000e_init install on another line      *)
(* calls only those of the PCnet and of virtio.                             *)
Serviced == board.line = "irq11" \/ (board.line = "other" /\ ~Is("e1000e"))

Interrupt ==
    /\ cause /\ Serviced
    /\ at["irq"] = "idle"
    /\ Goes("irq", "ack")
    /\ UNCHANGED <<counters, cause, ring, vq, mem, loc, txd, buf, frame, ret, arrived,
                   handled, accepted, sent>>

net_poll ==
    /\ polled < board.polls
    /\ Runs("thread") /\ at["thread"] = "idle"
    /\ polled' = polled + 1
    /\ Goes("thread", "ack")
    /\ UNCHANGED <<board, onwire, started, cause, ring, vq, mem, loc, txd, buf, frame,
                   ret, arrived, handled, accepted, sent>>

(* Read the cause.  Reading clears it in the e1000e and in virtio; the PCnet *)
(* needs a write, one register access later, of the bits that were read.     *)
ReadCause(c) ==
    /\ cause' = (cause /\ Is("pcnet"))
    /\ Goes(c, IF ~cause THEN "idle" ELSE IF Is("pcnet") THEN "clear" ELSE "test")

Acknowledge(c) ==
    /\ Runs(c)
    /\ \/ at[c] = "ack" /\ ReadCause(c)
       \/ at[c] = "clear" /\ cause' = FALSE /\ Goes(c, "test")
    /\ UNCHANGED <<counters, ring, vq, mem, loc, txd, buf, frame, ret, arrived, handled,
                   accepted, sent>>

(* The head of the loop of e1000_receive, pcnet_receive, virtio_net_receive. *)
TestRing(c) ==
    /\ Runs(c) /\ at[c] = "test"
    /\ IF Is("virtio")
       THEN IF HasUsed(vq.rx)
            THEN /\ loc' = [loc EXCEPT ![c] = vq.rx.buffers[UsedHead(vq.rx)]]
                 /\ vq' = [vq EXCEPT !.rx = GetUsed(@)]
                 /\ Goes(c, "handle")
            ELSE Goes(c, "idle") /\ UNCHANGED <<loc, vq>>
       ELSE /\ loc' = [loc EXCEPT ![c] = ring.rx_cur]
            /\ Goes(c, IF ring.rx[ring.rx_cur] = NoFrame THEN "idle" ELSE "handle")
            /\ UNCHANGED vq
    /\ UNCHANGED <<counters, cause, ring, mem, txd, buf, frame, ret, arrived, handled,
                   accepted, sent>>

Received(c) == IF Is("virtio") THEN mem[loc[c]] ELSE ring.rx[loc[c]]

(* ethernet_handle_packet_netif gets the frame; the stack may answer with a  *)
(* frame of its own, from within the handler.                                *)
HandleFrame(c) ==
    /\ Runs(c) /\ at[c] = "handle"
    /\ LET f == Received(c) IN
       IF f > 0
       THEN /\ handled' = Append(handled, f)
            /\ IF board.answered
               THEN /\ frame' = [frame EXCEPT ![c] = f]
                    /\ ret' = [ret EXCEPT ![c] = "giveback"]
                    /\ Goes(c, "pick")
               ELSE Goes(c, "giveback") /\ UNCHANGED <<frame, ret>>
       ELSE Goes(c, "giveback") /\ UNCHANGED <<frame, ret, handled>>
    /\ UNCHANGED <<counters, cause, ring, vq, mem, loc, txd, buf, arrived, accepted, sent>>

(* The descriptor goes back to the card and the index moves on. *)
GiveBackRing(r, i) ==
    [r EXCEPT !.rx[i] = NoFrame, !.rx_cur = Up(@),
              !.rdt = IF Is("e1000e") THEN r.rx_cur ELSE @]

(* Mutation: the loop body without its loop. *)
GiveBackOnce(c) ==
    /\ Runs(c) /\ at[c] = "giveback"
    /\ IF Is("virtio")
       THEN vq' = [vq EXCEPT !.rx = AddBuf(@, loc[c])] /\ UNCHANGED ring
       ELSE ring' = GiveBackRing(ring, loc[c]) /\ UNCHANGED vq
    /\ Goes(c, "idle")
    /\ UNCHANGED <<counters, cause, mem, loc, txd, buf, frame, ret, arrived, handled,
                   accepted, sent>>

GiveBack(c) ==
    /\ Runs(c) /\ at[c] = "giveback"
    /\ IF Is("virtio")
       THEN vq' = [vq EXCEPT !.rx = AddBuf(@, loc[c])] /\ UNCHANGED ring
       ELSE ring' = GiveBackRing(ring, loc[c]) /\ UNCHANGED vq
    /\ Goes(c, "test")
    /\ UNCHANGED <<counters, cause, mem, loc, txd, buf, frame, ret, arrived, handled,
                   accepted, sent>>

-----------------------------------------------------------------------------
(* Sending: e1000_netif_send, pcnet_send and virtio_netif_send, preempted    *)
(* by the interrupt after any load or store of shared state.                 *)

ThreadSends ==
    /\ started < board.sends
    /\ Runs("thread") /\ at["thread"] = "idle"
    /\ started' = started + 1
    /\ frame' = [frame EXCEPT !["thread"] = board.arrivals + started + 1]
    /\ ret' = [ret EXCEPT !["thread"] = "idle"]
    /\ Goes("thread", "pick")
    /\ UNCHANGED <<board, onwire, polled, cause, ring, vq, mem, loc, txd, buf, arrived,
                   handled, accepted, sent>>

sendUnchanged == <<counters, cause, mem, loc, frame, ret, arrived, handled, sent>>

(* The descriptor at the current index, free or not; a busy one is waited    *)
(* for by the e1000e driver, and given up by all.                            *)
PickDescriptor(c) ==
    /\ Runs(c) /\ at[c] = "pick" /\ ~Is("virtio")
    /\ txd' = [txd EXCEPT ![c] = ring.tx_cur]
    /\ Goes(c, "await")
    /\ UNCHANGED <<sendUnchanged, ring, vq, buf, accepted>>

DescriptorFree(c) == ~ring.tx[txd[c]].busy

AwaitDescriptor(c) ==
    /\ Runs(c) /\ at[c] = "await"
    /\ Goes(c, IF DescriptorFree(c) THEN "copy" ELSE ret[c])
    /\ UNCHANGED <<sendUnchanged, ring, vq, txd, buf, accepted>>

(* e1000_netif_send reads tx_cur again for the buffer it copies into. *)
CopyFrame(c) ==
    /\ Runs(c) /\ at[c] = "copy"
    /\ LET b == IF Is("e1000e") THEN ring.tx_cur ELSE txd[c] IN
       /\ buf' = [buf EXCEPT ![c] = b]
       /\ ring' = [ring EXCEPT !.txbuf[b] = frame[c]]
    /\ Goes(c, "describe")
    /\ UNCHANGED <<sendUnchanged, vq, txd, accepted>>

(* The descriptor is filled in.  OWN hands it to the PCnet at once. *)
DescribeFrame(c) ==
    /\ Runs(c) /\ at[c] = "describe"
    /\ ring' = [ring EXCEPT !.tx[txd[c]] = [buf |-> buf[c], busy |-> TRUE]]
    /\ Goes(c, "advance")
    /\ UNCHANGED <<sendUnchanged, vq, txd, buf, accepted>>

AdvanceIndex(c) ==
    /\ Runs(c) /\ at[c] = "advance"
    /\ ring' = [ring EXCEPT !.tx_cur = Up(@)]
    /\ Goes(c, "ring")
    /\ UNCHANGED <<sendUnchanged, vq, txd, buf, accepted>>

(* The register write that starts the card, and the return of success. *)
Succeeds(c) ==
    /\ accepted' = accepted \cup {frame[c]}
    /\ Goes(c, ret[c])

RingCard(c) ==
    /\ Runs(c) /\ at[c] = "ring"
    /\ ring' = IF Is("e1000e") THEN [ring EXCEPT !.tdt = ring.tx_cur] ELSE ring
    /\ Succeeds(c)
    /\ UNCHANGED <<sendUnchanged, vq, txd, buf>>

(* virtio: with no free descriptor, the used ones are taken back first. *)
ReclaimUsed(c) ==
    /\ Runs(c) /\ Is("virtio")
    /\ \/ /\ at[c] = "pick"
          /\ Goes(c, IF vq.tx.num_free < 1 THEN "reclaim" ELSE "fill")
          /\ UNCHANGED vq
       \/ /\ at[c] = "reclaim" /\ HasUsed(vq.tx)
          /\ vq' = [vq EXCEPT !.tx = GetUsed(@)]
          /\ UNCHANGED at
       \/ /\ at[c] = "reclaim" /\ ~HasUsed(vq.tx)
          /\ Goes(c, IF vq.tx.num_free < 1 THEN ret[c] ELSE "fill")
          /\ UNCHANGED vq
    /\ UNCHANGED <<sendUnchanged, ring, txd, buf, accepted>>

FillDescriptor(c) ==
    /\ Runs(c) /\ at[c] = "fill"
    /\ IF vq.tx.num_free = 0
       THEN Goes(c, ret[c]) /\ UNCHANGED <<txd, vq>>
       ELSE /\ txd' = [txd EXCEPT ![c] = vq.tx.free_head]
            /\ vq' = [vq EXCEPT !.tx = Fill(@, vq.tx.free_head, frame[c])]
            /\ Goes(c, "unlink")
    /\ UNCHANGED <<sendUnchanged, ring, buf, accepted>>

PublishDescriptor(c) ==
    /\ Runs(c)
    /\ \/ /\ at[c] = "unlink"
          /\ vq' = [vq EXCEPT !.tx = Unlink(@, txd[c])]
          /\ Goes(c, "publish")
          /\ UNCHANGED accepted
       \/ /\ at[c] = "publish"
          /\ vq' = [vq EXCEPT !.tx = Publish(@, txd[c])]
          /\ Succeeds(c)
    /\ UNCHANGED <<sendUnchanged, ring, txd, buf>>

Step(c) ==
    \/ Acknowledge(c) \/ TestRing(c) \/ HandleFrame(c) \/ GiveBack(c)
    \/ PickDescriptor(c) \/ AwaitDescriptor(c) \/ CopyFrame(c) \/ DescribeFrame(c)
    \/ AdvanceIndex(c) \/ RingCard(c)
    \/ ReclaimUsed(c) \/ FillDescriptor(c) \/ PublishDescriptor(c)

RingsNext ==
    \/ CardReceives \/ CardSends \/ Interrupt \/ net_poll \/ ThreadSends
    \/ \E c \in Contexts : Step(c)

-----------------------------------------------------------------------------
(* Frames the card will find, from its own index on. *)
Waiting ==
    CASE Is("e1000e") ->
           {ring.txbuf[ring.tx[i].buf] :
              i \in {(ring.tdh + k) % board.n : k \in 0 .. ((ring.tdt - ring.tdh) % board.n) - 1}}
      [] Is("pcnet") ->
           {ring.txbuf[ring.tx[i].buf] :
              i \in {j \in Index : \A k \in 0 .. ((j - ring.tdh) % board.n) :
                                      ring.tx[(ring.tdh + k) % board.n].busy}}
      [] Is("virtio") ->
           {vq.tx.desc[vq.tx.avail[(vq.tx.device_idx + k) % board.n]] :
              k \in 0 .. ((vq.tx.avail_idx - vq.tx.device_idx) % IndexSpan) - 1}

(* Reception: the network stack gets the good frames the card has put in    *)
(* the ring, each of them once, whole and in the order of arrival.          *)
ReceivedOnce == IsPrefix(handled, arrived)

(* Sending: a frame whose send returned success has left the card once, or  *)
(* lies whole where the card will get to it; no frame leaves twice and no   *)
(* descriptor leaves that was never filled.                                 *)
SentAsAccepted ==
    /\ \A i, j \in DOMAIN sent : sent[i] = sent[j] => i = j
    /\ NoFrame \notin ToSet(sent)
    /\ \A f \in accepted : (f \in ToSet(sent)) # (f \in Waiting)

(* Acknowledging before draining loses no interrupt: with the card's line   *)
(* connected, the frames put in the ring are given to the stack, all of     *)
(* them once the arrivals of the board have ended.                          *)
FramesHandled ==
    (Serviced /\ Len(handled) < Len(arrived)) ~> (Len(handled) = Len(arrived))

(* Frames go through the rings of the three cards unchanged, in order and  *)
(* once, in both directions.                                               *)
FramesExact == ReceivedOnce /\ SentAsAccepted
=============================================================================
