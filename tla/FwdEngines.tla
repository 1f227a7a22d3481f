----------------------------- MODULE FwdEngines -----------------------------
(***************************************************************************)
(* What a forwarding engine does to the packets of a stream: the function  *)
(* packet_fwd that run_pkt_fwd_on_lcore calls again and again.  A call is  *)
(* cut where it asks the transmit queue: one action takes the packets and  *)
(* treats them, and TransmitBurst, Retry and FreeUnsent finish the burst.  *)
(* The driver gives buffers back at any time.                              *)
(*                                                                         *)
(* The contents of a packet are left out, save for what decides its fate:  *)
(* the kind of a packet that is received is chosen with it.                *)
(***************************************************************************)
EXTENDS Lists, Integers, SequencesExt, FiniteSetsExt

CONSTANTS
  NbMbufs,                \* buffers of the pool
  NbPktPerBurst,          \* nb_pkt_per_burst
  MaxPktBurst,            \* MAX_PKT_BURST
  GsoMaxPktBurst,         \* GSO_MAX_PKT_BURST
  TxRetryNum,             \* burst_tx_retry_num
  TxPktNbSegs,            \* tx_pkt_nb_segs
  NbFlows,                \* nb_flows_flowgen
  NbClones,               \* nb_pkt_flowgen_clones
  IpVarRange,             \* 2^8 for the uint8_t _ip_var
  RingCapacity,           \* of the ring of the noisy engine
  GroFlushCycles,         \* gro_flush_cycles
  SharedPorts,            \* ports that share the receive queue
  StreamPorts             \* those with a stream on this core

ASSUME EnginesAssumption ==
  /\ {NbMbufs, NbPktPerBurst, TxPktNbSegs, NbFlows, IpVarRange,
      GroFlushCycles} \subseteq Nat \ {0}
  /\ NbPktPerBurst < 256   \* icmpecho's index of the burst is an uint8_t
  /\ {TxRetryNum, NbClones, RingCapacity} \subseteq Nat
  /\ MaxPktBurst \in Nat /\ NbPktPerBurst <= MaxPktBurst
  /\ GsoMaxPktBurst \in Nat /\ MaxPktBurst <= GsoMaxPktBurst
  /\ StreamPorts \subseteq SharedPorts

Mbufs == 1 .. NbMbufs

(* How the stream is set up: its engine, and the settings of that engine.  *)
Plain == {"io", "mac", "macswap", "5tswap"}
Modes ==
  [engine : Plain \cup {"rxonly", "icmpecho", "txonly", "flowgen"},
   retry_enabled : BOOLEAN, option : {"none"}]
  \cup [engine : {"csum"}, retry_enabled : BOOLEAN,
        option : {"none", "split", "gro_burst", "gro_table", "gso"}]
  \cup [engine : {"ieee1588", "shared_rxq"}, retry_enabled : {FALSE},
        option : {"none"}]
  \cup [engine : {"noisy"}, retry_enabled : {FALSE},
        option : {"none", "fifo", "fifo_flush"}]

VARIABLES
  mode,          \* the engine and its settings
  pc,            \* where the call is
  mbuf,          \* [buffer -> [refcnt, segs]]; refcnt = 0: in the pool
  driver,        \* references of the transmit queue, by buffer
  burst,         \* pkts_burst, or the array that is sent
  nb_prep,       \* packets of it that may be sent at first
  nb_tx, retry,
  fifo,          \* the ring of the noisy engine
  gro,           \* packets in the table of the GRO context
  gro_times,
  next_flow, ip_var,
  counts,        \* what this call adds to the counters of the streams
  arrived        \* the packets received and still held, oldest first

memory == <<mbuf, driver>>
call   == <<burst, nb_prep, nb_tx, retry>>
flows  == <<next_flow, ip_var>>
table  == <<gro, gro_times>>
vars == <<mode, pc, memory, call, fifo, table, flows, counts, arrived>>

InPool == [refcnt |-> 0, segs |-> {}]
(* rx, tx and dropped are rx_packets, tx_packets and fwd_dropped.  The     *)
(* other fields watch the call: the packets that came into its hands, those *)
(* it freed on purpose and those it handed to the driver, the packets that *)
(* were counted for another port, and the numbers it began with.           *)
NoCounts == [rx |-> 0, tx |-> 0, dropped |-> 0, came |-> 0, discarded |-> 0,
             handed |-> 0, misplaced |-> {}, first |-> <<0, 0>>]

TypeOK ==
  /\ mode \in Modes
  /\ pc \in {"idle", "transmit", "retry", "finish", "flush", "drain"}
  /\ mbuf \in [Mbufs -> [refcnt : Nat, segs : SUBSET Mbufs]]
  /\ driver \in [Mbufs -> Nat]
  /\ burst \in Seq(Mbufs)
  /\ Len(burst) <= IF mode.option = "gso" THEN GsoMaxPktBurst ELSE MaxPktBurst
  /\ nb_tx \in 0 .. Len(burst) /\ nb_prep \in 0 .. Len(burst)
  /\ retry \in 0 .. TxRetryNum
  /\ fifo \in Seq(Mbufs) /\ Len(fifo) <= RingCapacity
  /\ gro \in Seq(Mbufs) /\ gro_times \in 0 .. GroFlushCycles - 1
  /\ next_flow \in 0 .. NbFlows - 1 /\ ip_var \in 0 .. IpVarRange - 1
  /\ arrived \in Seq(Mbufs)

-----------------------------------------------------------------------------
(* The pool (rte_mbuf and rte_mempool).  Which free buffer is taken does   *)
(* not matter: the first.                                                  *)

FreeMbufs(mb) == {m \in Mbufs : mb[m].refcnt = 0}
FirstFree(mb, n) == SubSeq(Kept([m \in Mbufs |-> m], FreeMbufs(mb)), 1, n)
NbFree(mb) == Cardinality(FreeMbufs(mb))

Alloc(mb, ms) == [m \in Mbufs |-> IF Contains(ms, m)
                                  THEN [refcnt |-> 1, segs |-> {}] ELSE mb[m]]

(* rte_pktmbuf_free of each packet of ms: the last reference to a packet   *)
(* takes its other segments along.                                         *)
Times(ms) == [m \in Mbufs |-> Cardinality({i \in DOMAIN ms : ms[i] = m})]
Released(mb, refs) ==
  LET left == [m \in Mbufs |-> mb[m].refcnt - refs[m]]
      gone == {m \in Mbufs : left[m] = 0 /\ mb[m].refcnt > 0}
  IN  [m \in Mbufs |->
         IF m \in gone \/ \E h \in gone : m \in mb[h].segs THEN InPool
         ELSE [refcnt |-> left[m], segs |-> mb[m].segs]]

rte_pktmbuf_free(mb, ms) == Released(mb, Times(ms))

(* Buffer p carries the buffers of ms as its next segments.                *)
Chain(mb, p, ms) ==
  [mb EXCEPT ![p].segs = @ \cup ms \cup UNION {mb[m].segs : m \in ms}]

(* The transmit queue takes the packets of ms; it has a reference to each. *)
Handed(ms) == [m \in Mbufs |-> driver[m] + Times(ms)[m]]
Without(line, ms) == Kept(line, Mbufs \ Range(ms))

(* The driver frees what it has sent, from time to time, all at once.      *)
TxComplete ==
  LET sent == {m \in Mbufs : driver[m] > 0}
  IN  /\ sent # {}
      /\ driver' = [m \in Mbufs |-> 0]
      /\ mbuf' = Released(mbuf, driver)
      /\ UNCHANGED <<mode, pc, call, fifo, table, flows, counts, arrived>>

-----------------------------------------------------------------------------
(* Beginning and end that the calls share.                                 *)

(* rte_eth_rx_burst gives at most NbPktPerBurst packets, in buffers that   *)
(* its driver had taken from the pool.  The noisy engine is run       *)
(* with bursts of at most half the size of its ring, RingCapacity + 1:     *)
(* with longer ones it loses packets.                                      *)
BurstSize == IF mode.engine = "noisy"
             THEN Min({NbPktPerBurst, (RingCapacity + 1) \div 2})
             ELSE NbPktPerBurst
Bursts == {FirstFree(mbuf, n) : n \in 0 .. Min({BurstSize, NbFree(mbuf)})}

Return ==
  pc' = "idle" /\ burst' = <<>> /\ nb_prep' = 0 /\ nb_tx' = 0 /\ retry' = 0

(* A call that has packets to send goes on with rte_eth_tx_burst.          *)
Send(ms, prepared) ==
  /\ pc' = "transmit"
  /\ burst' = ms /\ nb_prep' = prepared /\ nb_tx' = 0 /\ retry' = 0

Give(first, last) ==
  LET ms == SubSeq(burst, first, last)
  IN  /\ driver' = Handed(ms)
      /\ nb_tx' = last
      /\ arrived' = Without(arrived, ms)
      /\ counts' = [counts EXCEPT !.handed = @ + Len(ms)]

TransmitBurst ==
  /\ pc = "transmit"
  /\ \E n \in 0 .. nb_prep : Give(1, n)
  /\ pc' = IF nb_tx' < Len(burst) /\ mode.retry_enabled THEN "retry"
           ELSE "finish"
  /\ UNCHANGED <<mode, mbuf, burst, nb_prep, retry, fifo, table, flows>>

(* One turn of the retry loop; it ends when all is sent, or after          *)
(* burst_tx_retry_num turns.                                               *)
\* Mutant: the number of turns does not end the loop.
RetryForever ==
  /\ pc = "retry"
  /\ IF nb_tx < Len(burst)
     THEN /\ \E last \in nb_tx .. Len(burst) : Give(nb_tx + 1, last)
          /\ retry' = (retry + 1) % (TxRetryNum + 1)
          /\ UNCHANGED pc
     ELSE pc' = "finish" /\ UNCHANGED <<driver, nb_tx, retry, arrived, counts>>
  /\ UNCHANGED <<mode, mbuf, burst, nb_prep, fifo, table, flows>>
Retry ==
  /\ pc = "retry"
  /\ IF nb_tx < Len(burst) /\ retry < TxRetryNum
     THEN /\ \E last \in nb_tx .. Len(burst) : Give(nb_tx + 1, last)
          /\ retry' = retry + 1
          /\ UNCHANGED pc
     ELSE pc' = "finish" /\ UNCHANGED <<driver, nb_tx, retry, arrived, counts>>
  /\ UNCHANGED <<mode, mbuf, burst, nb_prep, fifo, table, flows>>

(* The engines that number the flows they make give back the numbers of    *)
(* the packets that were not sent.  next_flow is an int, ip_var wraps.     *)
\* Mutant: flowgen counts on from the packets it made.
BackOut_not(dropped) ==
  /\ UNCHANGED next_flow
  /\ ip_var' = IF mode.engine = "txonly"
               THEN (ip_var - dropped) % IpVarRange ELSE ip_var
BackOut(dropped) ==
  /\ next_flow' = IF mode.engine = "flowgen"
                  THEN (next_flow - dropped) % NbFlows ELSE next_flow
  /\ ip_var' = IF mode.engine = "txonly"
               THEN (ip_var - dropped) % IpVarRange ELSE ip_var

\* Mutant: the drops are counted after the loop that frees the packets.
FreeUnsent_uncounted ==
  LET unsent == SubSeq(burst, nb_tx + 1, Len(burst))
      noisy  == mode.engine = "noisy"
  IN  /\ pc = "finish"
      /\ mbuf' = rte_pktmbuf_free(mbuf, unsent)
      /\ arrived' = Without(arrived, unsent)
      /\ counts' = [counts EXCEPT
           !.tx = IF noisy /\ mode.option # "none" THEN @ ELSE @ + nb_tx]
      /\ BackOut(Len(unsent))
      /\ IF noisy /\ mode.option # "none"
         THEN pc' = "flush" /\ UNCHANGED call
         ELSE Return
      /\ UNCHANGED <<mode, driver, fifo, table>>
FreeUnsent ==
  LET unsent == SubSeq(burst, nb_tx + 1, Len(burst))
      noisy  == mode.engine = "noisy"
  IN  /\ pc = "finish"
      /\ mbuf' = rte_pktmbuf_free(mbuf, unsent)
      /\ arrived' = Without(arrived, unsent)
      /\ counts' = [counts EXCEPT
           !.tx = IF noisy /\ mode.option # "none" THEN @ ELSE @ + nb_tx,
           !.dropped = IF noisy THEN @ ELSE @ + Len(unsent)]
      /\ BackOut(Len(unsent))
      /\ IF noisy /\ mode.option # "none"
         THEN pc' = "flush" /\ UNCHANGED call
         ELSE Return
      /\ UNCHANGED <<mode, driver, fifo, table>>

(* The call starts, and counts from zero.                                  *)
Begin(engines) == pc = "idle" /\ mode.engine \in engines
Counts(came, discarded) ==
  [NoCounts EXCEPT !.rx = came, !.came = came, !.discarded = discarded,
                   !.first = <<next_flow, ip_var>>]

-----------------------------------------------------------------------------
(* The engines that send what they receive.  A header that is rewritten in *)
(* place changes nothing here.                                             *)

Forward ==
  \E ms \in Bursts :
    /\ mbuf' = Alloc(mbuf, ms)
    /\ arrived' = ms
    /\ counts' = Counts(Len(ms), 0)
    /\ IF ms = <<>> THEN Return ELSE Send(ms, Len(ms))
    /\ UNCHANGED <<mode, driver, fifo, table, flows>>

pkt_burst_io_forward  == Begin({"io"}) /\ Forward
pkt_burst_mac_forward == Begin({"mac"}) /\ Forward
pkt_burst_mac_swap    == Begin({"macswap"}) /\ Forward
pkt_burst_5tuple_swap == Begin({"5tswap"}) /\ Forward

pkt_burst_receive ==
  /\ Begin({"rxonly"})
  /\ \E ms \in Bursts :
       /\ mbuf' = rte_pktmbuf_free(Alloc(mbuf, ms), ms)
       /\ counts' = Counts(Len(ms), Len(ms))
  /\ Return
  /\ UNCHANGED <<mode, driver, fifo, table, flows, arrived>>

(* What is neither an ARP request nor an ICMP echo request is freed, and   *)
(* the replies are moved to the front of pkts_burst.                       *)
reply_to_icmp_echo_rqsts ==
  /\ Begin({"icmpecho"})
  /\ \E ms \in Bursts : \E requests \in SUBSET Range(ms) :
       LET replies == Kept(ms, requests)
           others  == Kept(ms, Range(ms) \ requests)
       IN  /\ mbuf' = rte_pktmbuf_free(Alloc(mbuf, ms), others)
           /\ arrived' = replies
           /\ counts' = Counts(Len(ms), Len(others))
           /\ IF replies = <<>> THEN Return ELSE Send(replies, Len(replies))
  /\ UNCHANGED <<mode, driver, fifo, table, flows>>

(* One packet at a time, sent on the port it came from, and counted as     *)
(* sent before it is.                                                      *)
ieee1588_packet_fwd ==
  /\ Begin({"ieee1588"})
  /\ Return
  /\ \E n \in 0 .. Min({1, NbFree(mbuf)}), sync, sent \in BOOLEAN :
       LET ms   == FirstFree(mbuf, n)
           left == IF sync /\ sent THEN <<>> ELSE ms
           out  == IF sync /\ sent THEN ms ELSE <<>>
       IN  /\ mbuf' = rte_pktmbuf_free(Alloc(mbuf, ms), left)
           /\ driver' = Handed(out)
           /\ counts' = [Counts(n, IF sync THEN 0 ELSE n) EXCEPT
                !.tx = IF sync THEN n ELSE 0,
                !.dropped = IF sync THEN Len(left) ELSE 0,
                !.handed = Len(out)]
  /\ UNCHANGED <<mode, fifo, table, flows, arrived>>

-----------------------------------------------------------------------------
(* The shared receive queue: a burst is cut in runs of packets of one      *)
(* port.  The loop stops before the last packet, which joins the last run. *)

(* forward_sub_burst counts the packets of a run for its port.             *)
Counted(run) == run.counted \o [i \in 1 .. run.nb |-> run.port]

CutBefore(run, i, ports) ==
  IF i > 1 /\ run.port # ports[i]
  THEN [counted |-> Counted(run), port |-> ports[i], nb |-> 1]
  ELSE [run EXCEPT !.nb = @ + 1]

(* The port that each packet is counted for.                               *)
CountedFor(ports) ==
  LET run[i \in 0 .. Len(ports) - 1] ==
        IF i = 0 THEN [counted |-> <<>>, port |-> ports[1], nb |-> 0]
        ELSE CutBefore(run[i - 1], i, ports)
      end == run[Len(ports) - 1]
  IN  Counted([end EXCEPT !.nb = @ + 1])

shared_rxq_fwd ==
  /\ Begin({"shared_rxq"})
  /\ \E ms \in Bursts : \E ports \in [DOMAIN ms -> SharedPorts] :
       LET port_of == IF ms = <<>> THEN <<>> ELSE CountedFor(ports)
           known   == {i \in DOMAIN port_of : port_of[i] \in StreamPorts}
       IN  /\ mbuf' = rte_pktmbuf_free(Alloc(mbuf, ms), SubSeq(ms, 1, Len(port_of)))
           /\ counts' = [Counts(Len(ms), Cardinality(known)) EXCEPT
                !.rx = Cardinality(known),
                !.dropped = Len(port_of) - Cardinality(known),
                !.misplaced = {i \in DOMAIN ms : port_of[i] # ports[i]}]
  /\ Return
  /\ UNCHANGED <<mode, driver, fifo, table, flows, arrived>>

-----------------------------------------------------------------------------
(* The engines that make packets.  Of the free buffers this core may get   *)
(* only some: others sit in the caches of other cores.                     *)

(* pkt_burst_prepare: a packet of nb_segs segments is made of its head, or *)
(* nothing is when the segments cannot be had at once.                     *)
pkt_burst_prepare(mb, avail, head, nb_segs) ==
  LET segs == FirstFree(mb, nb_segs - 1)
  IN  IF nb_segs - 1 > avail THEN [ok |-> FALSE, mb |-> mb, avail |-> avail]
      ELSE [ok |-> TRUE, avail |-> avail - (nb_segs - 1),
            mb |-> Chain(Alloc(mb, segs), head, Range(segs))]

(* The heads are taken in bulk; those left when a packet cannot be made    *)
(* are put back.                                                           *)
MakeOfHead(acc, i, heads, nb_segs) ==
  LET p == pkt_burst_prepare(acc.mb, acc.avail, heads[i], nb_segs[i])
  IN  IF acc.more /\ p.ok
      THEN [mb |-> p.mb, avail |-> p.avail, nb |-> i, more |-> TRUE]
      ELSE [acc EXCEPT !.more = FALSE]

PreparedInBulk(avail, nb_segs) ==
  LET heads == FirstFree(mbuf, NbPktPerBurst)
      made[i \in 0 .. NbPktPerBurst] ==
        IF i = 0 THEN [mb |-> Alloc(mbuf, heads), nb |-> 0, more |-> TRUE,
                       avail |-> avail - NbPktPerBurst]
        ELSE MakeOfHead(made[i - 1], i, heads, nb_segs)
      end == made[NbPktPerBurst]
  IN  [pkts |-> SubSeq(heads, 1, end.nb),
       mb |-> rte_pktmbuf_free(end.mb,
                               SubSeq(heads, end.nb + 1, NbPktPerBurst))]

(* Without the bulk, each head is taken when it is needed.                 *)
MakeOfFree(acc, i, nb_segs) ==
  LET head == FirstFree(acc.mb, 1)
      mb   == Alloc(acc.mb, head)
      p    == pkt_burst_prepare(mb, acc.avail - 1, head[1], nb_segs[i])
  IN  IF ~acc.more \/ acc.avail = 0 THEN [acc EXCEPT !.more = FALSE]
      ELSE IF p.ok
      THEN [mb |-> p.mb, avail |-> p.avail, more |-> TRUE,
            pkts |-> acc.pkts \o head]
      ELSE [acc EXCEPT !.mb = rte_pktmbuf_free(mb, head), !.more = FALSE]

PreparedOneByOne(avail, nb_segs) ==
  LET made[i \in 0 .. NbPktPerBurst] ==
        IF i = 0 THEN [mb |-> mbuf, avail |-> avail, more |-> TRUE, pkts |-> <<>>]
        ELSE MakeOfFree(made[i - 1], i, nb_segs)
  IN  made[NbPktPerBurst]

(* txonly, with multiple flows: ip_var counts the packets that were made.  *)
pkt_burst_transmit ==
  /\ Begin({"txonly"})
  /\ \E avail \in 0 .. NbFree(mbuf) :
       \E nb_segs \in [1 .. NbPktPerBurst -> 1 .. TxPktNbSegs] :
         LET made == IF avail >= NbPktPerBurst THEN PreparedInBulk(avail, nb_segs)
                     ELSE PreparedOneByOne(avail, nb_segs)
             nb   == Len(made.pkts)
         IN  /\ mbuf' = made.mb
             /\ ip_var' = (ip_var + nb) % IpVarRange
             /\ counts' = [Counts(0, 0) EXCEPT !.came = nb]
             /\ IF nb = 0 THEN Return ELSE Send(made.pkts, nb)
  /\ UNCHANGED <<mode, driver, fifo, table, next_flow, arrived>>

(* flowgen: a packet is sent NbClones times more, each clone being another *)
(* reference to it.                                                        *)
Generate(acc, i) ==
  LET pkt == FirstFree(acc.mb, 1)
  IN  IF ~acc.more THEN acc
      ELSE IF i > 1 /\ acc.clones > 0
      THEN [acc EXCEPT !.clones = @ - 1, !.pkts = Append(@, Last(@)),
                       !.mb[Last(acc.pkts)].refcnt = @ + 1]
      ELSE IF acc.avail = 0 THEN [acc EXCEPT !.more = FALSE]
      ELSE [acc EXCEPT !.clones = Min({NbClones, NbPktPerBurst}),
                       !.pkts = @ \o pkt, !.mb = Alloc(@, pkt),
                       !.avail = @ - 1]

Generated(mb0, avail) ==
  LET made[i \in 0 .. NbPktPerBurst] ==
        IF i = 0 THEN [mb |-> mb0, avail |-> avail, more |-> TRUE,
                       pkts |-> <<>>, clones |-> NbClones]
        ELSE Generate(made[i - 1], i)
  IN  made[NbPktPerBurst]

(* What was received is freed; then a burst of generated packets is sent,  *)
(* an empty one included.                                                  *)
pkt_burst_flow_gen ==
  /\ Begin({"flowgen"})
  /\ \E ms \in Bursts : \E avail \in 0 .. NbFree(mbuf) :
       LET made == Generated(rte_pktmbuf_free(Alloc(mbuf, ms), ms), avail)
           nb   == Len(made.pkts)
       IN  /\ mbuf' = made.mb
           /\ next_flow' = (next_flow + nb) % NbFlows
           /\ counts' = [Counts(Len(ms), Len(ms)) EXCEPT !.came = @ + nb]
           /\ Send(made.pkts, nb)
  /\ UNCHANGED <<mode, driver, fifo, table, ip_var, arrived>>

-----------------------------------------------------------------------------
(* The checksum engine: a packet may be copied into new segments, packets  *)
(* may be merged by GRO and cut by GSO; then the burst is prepared.        *)

(* The copy takes nb_seg buffers, one at a time; when one is missing, or   *)
(* the segments received do not fit into them, they are freed again and    *)
(* the packet is sent as it is.                                            *)
\* Mutant: the buffers of a copy that failed are kept.
pkt_copy_split_kept(mb, m, nb_seg, copied) ==
  LET md == FirstFree(mb, Min({nb_seg, NbFree(mb)}))
      ok == copied /\ Len(md) = nb_seg
  IN  IF ok THEN [mb |-> Chain(Alloc(mb, md), md[1], Range(Tail(md))), p |-> md[1]]
      ELSE [mb |-> Alloc(mb, md), p |-> m]
pkt_copy_split(mb, m, nb_seg, copied) ==
  LET md == FirstFree(mb, Min({nb_seg, NbFree(mb)}))
      ok == copied /\ Len(md) = nb_seg
  IN  IF ok THEN [mb |-> Chain(Alloc(mb, md), md[1], Range(Tail(md))), p |-> md[1]]
      ELSE [mb |-> rte_pktmbuf_free(Alloc(mb, md), md), p |-> m]

Split(acc, m, nb_seg, copied) ==
  LET c == pkt_copy_split(acc.mb, m, nb_seg, m \in copied)
  IN  [pkts |-> Append(acc.pkts, c.p),
       mb |-> IF c.p = m THEN c.mb ELSE rte_pktmbuf_free(c.mb, <<m>>)]

SplitAll(mb0, ms, nb_seg, copied) ==
  LET done[i \in 0 .. Len(ms)] ==
        IF i = 0 THEN [mb |-> mb0, pkts |-> <<>>]
        ELSE Split(done[i - 1], ms[i], nb_seg, copied)
  IN  done[Len(ms)]

(* rte_gro_reassemble_burst: some packets become segments of another.      *)
GroBurst(mb0, ms, kept) ==
  LET pkts   == Kept(ms, kept)
      merged == Range(ms) \ kept
  IN  [pkts |-> pkts,
       mb |-> IF merged = {} THEN mb0 ELSE Chain(mb0, pkts[1], merged)]

(* rte_gro_reassemble keeps some packets in the table of the core, and     *)
(* rte_gro_timeout_flush, every GroFlushCycles calls, takes the oldest out *)
(* as far as pkts_burst has room.                                          *)
\* Mutant: all that the table holds is flushed.
GroTable_all(ms, kept) ==
  LET rest  == Kept(ms, kept)
      held  == gro \o Kept(ms, Range(ms) \ kept)
      flush == gro_times + 1 >= GroFlushCycles
      nb    == IF flush THEN Len(held) ELSE 0
  IN  [pkts |-> rest \o SubSeq(held, 1, nb),
       gro |-> SubSeq(held, nb + 1, Len(held)),
       gro_times |-> IF flush THEN 0 ELSE gro_times + 1]
GroTable(ms, kept) ==
  LET rest  == Kept(ms, kept)
      held  == gro \o Kept(ms, Range(ms) \ kept)
      flush == gro_times + 1 >= GroFlushCycles
      nb    == IF flush THEN Min({Len(held), MaxPktBurst - Len(rest)}) ELSE 0
  IN  [pkts |-> rest \o SubSeq(held, 1, nb),
       gro |-> SubSeq(held, nb + 1, Len(held)),
       gro_times |-> IF flush THEN 0 ELSE gro_times + 1]

(* rte_gso_segment of each packet: it is cut into two new buffers, or goes *)
(* as it is, or cannot be cut and is freed.  There must be room for the    *)
(* result in gso_segments.                                                 *)
Segment(acc, m, ret) ==
  LET room == GsoMaxPktBurst - Len(acc.pkts)
      new  == FirstFree(acc.mb, 2)
  IN  IF ret[m] = "cut" /\ room >= 2 /\ NbFree(acc.mb) >= 2
      THEN [pkts |-> acc.pkts \o new,
            mb |-> rte_pktmbuf_free(Alloc(acc.mb, new), <<m>>)]
      ELSE IF ret[m] = "whole" /\ room >= 1
      THEN [acc EXCEPT !.pkts = Append(@, m)]
      ELSE [acc EXCEPT !.mb = rte_pktmbuf_free(@, <<m>>)]

GsoSegments(mb0, ms, ret) ==
  LET done[i \in 0 .. Len(ms)] ==
        IF i = 0 THEN [mb |-> mb0, pkts |-> <<>>]
        ELSE Segment(done[i - 1], ms[i], ret)
  IN  done[Len(ms)]

(* What becomes of the packets of ms, which are in mb0, before the burst   *)
(* is prepared.                                                            *)
Treated(mb0, ms) ==
  CASE mode.option = "none"  -> {[mb |-> mb0, pkts |-> ms]}
    [] mode.option = "split" ->
         {SplitAll(mb0, ms, nb_seg, copied) :
            nb_seg \in 1 .. TxPktNbSegs, copied \in SUBSET Range(ms)}
    [] mode.option = "gro_burst" ->
         {GroBurst(mb0, ms, kept) : kept \in (SUBSET Range(ms)) \ {{}}}
    [] mode.option = "gso" ->
         {GsoSegments(mb0, ms, ret) :
            ret \in [Range(ms) -> {"cut", "whole", "refused"}]}

(* rte_eth_tx_prepare accepts the packets up to the first it refuses.      *)
pkt_burst_checksum_forward ==
  /\ Begin({"csum"})
  /\ \E ms \in Bursts :
       LET mb0 == Alloc(mbuf, ms)
       IN  IF ms = <<>> THEN Return /\ counts' = Counts(0, 0) /\ UNCHANGED <<mbuf, table>>
           ELSE IF mode.option = "gro_table"
           THEN \E kept \in SUBSET Range(ms) :
                  LET t == GroTable(ms, kept)
                  IN  /\ mbuf' = mb0 /\ gro' = t.gro /\ gro_times' = t.gro_times
                      /\ counts' = [Counts(Len(ms), 0) EXCEPT !.came = Len(t.pkts)]
                      /\ \E prepared \in 0 .. Len(t.pkts) : Send(t.pkts, prepared)
           ELSE \E t \in Treated(mb0, ms) :
                  /\ mbuf' = t.mb /\ UNCHANGED table
                  /\ counts' = [Counts(Len(ms), 0) EXCEPT !.came = Len(t.pkts)]
                  /\ \E prepared \in 0 .. Len(t.pkts) : Send(t.pkts, prepared)
  /\ UNCHANGED <<mode, driver, fifo, flows, arrived>>

-----------------------------------------------------------------------------
(* The noisy engine: with a ring, packets are sent when later ones push    *)
(* them out, or when the timer finds that nothing was sent for long.  What *)
(* is taken out of the ring makes room for as many new packets: when the   *)
(* ring holds less than the burst, the rest of the burst is lost.          *)

Overflow(ms) == RingCapacity - Len(fifo) < Len(ms)

\* Mutant: the new packets are sent and the delayed ones put back.
PushThrough_newest(ms) ==
  LET nb == Min({Len(ms), Len(fifo)})
  IN  [out |-> SubSeq(ms, 1, nb), fifo |-> fifo]
PushThrough(ms) ==
  LET nb == Min({Len(ms), Len(fifo)})
  IN  [out |-> SubSeq(fifo, 1, nb),
       fifo |-> SubSeq(fifo, nb + 1, Len(fifo)) \o SubSeq(ms, 1, nb)]

GoFlush == pc' = "flush" /\ UNCHANGED call

pkt_burst_noisy_vnf ==
  /\ Begin({"noisy"})
  /\ \E ms \in Bursts :
       /\ mbuf' = Alloc(mbuf, ms)
       /\ arrived' = arrived \o ms
       /\ counts' = Counts(Len(ms), 0)
       /\ IF mode.option = "none"
          THEN /\ IF ms = <<>> THEN Return ELSE Send(ms, Len(ms))
               /\ UNCHANGED fifo
          ELSE IF ~Overflow(ms) THEN GoFlush /\ fifo' = fifo \o ms
          ELSE LET pushed == PushThrough(ms)
               IN  /\ fifo' = pushed.fifo
                   /\ IF pushed.out = <<>> THEN GoFlush
                      ELSE Send(pushed.out, Len(pushed.out))
  /\ UNCHANGED <<mode, driver, table, flows>>

(* The timer is asked only when the call has sent nothing.                 *)
Flush ==
  /\ pc = "flush"
  /\ \/ Return
     \/ /\ mode.option = "fifo_flush" /\ nb_tx = 0
        /\ pc' = "drain" /\ UNCHANGED call
  /\ UNCHANGED <<mode, memory, fifo, table, flows, counts, arrived>>

(* One turn of the loop that empties the ring; what is not sent is freed.  *)
Drain ==
  /\ pc = "drain"
  /\ IF fifo = <<>>
     THEN Return /\ UNCHANGED <<memory, fifo, arrived>>
     ELSE LET nb  == Min({MaxPktBurst, Len(fifo)})
              out == SubSeq(fifo, 1, nb)
          IN  /\ \E sent \in 0 .. nb :
                   /\ driver' = Handed(SubSeq(out, 1, sent))
                   /\ mbuf' = rte_pktmbuf_free(mbuf, SubSeq(out, sent + 1, nb))
              /\ fifo' = SubSeq(fifo, nb + 1, Len(fifo))
              /\ arrived' = Without(arrived, out)
              /\ UNCHANGED <<pc, call>>
  /\ UNCHANGED <<mode, table, flows, counts>>

-----------------------------------------------------------------------------
Init ==
  /\ mode \in Modes
  /\ pc = "idle" /\ burst = <<>> /\ nb_prep = 0 /\ nb_tx = 0 /\ retry = 0
  /\ mbuf = [m \in Mbufs |-> InPool] /\ driver = [m \in Mbufs |-> 0]
  /\ fifo = <<>> /\ gro = <<>> /\ gro_times = 0
  /\ next_flow = 0 /\ ip_var = 0
  /\ counts = NoCounts /\ arrived = <<>>

packet_fwd ==
  \/ pkt_burst_io_forward \/ pkt_burst_mac_forward \/ pkt_burst_mac_swap
  \/ pkt_burst_5tuple_swap \/ pkt_burst_receive \/ reply_to_icmp_echo_rqsts
  \/ ieee1588_packet_fwd \/ shared_rxq_fwd \/ pkt_burst_transmit
  \/ pkt_burst_flow_gen \/ pkt_burst_checksum_forward \/ pkt_burst_noisy_vnf

GoOn == TransmitBurst \/ Retry \/ FreeUnsent \/ Flush \/ Drain

Next == packet_fwd \/ GoOn \/ TxComplete

(* A core runs the call it is in to its end.                               *)
Spec == Init /\ [][Next]_vars /\ WF_vars(GoOn)

-----------------------------------------------------------------------------
(* What is in the hands of the call.                                       *)
InHand == IF pc \in {"transmit", "retry", "finish"}
          THEN SubSeq(burst, nb_tx + 1, Len(burst)) ELSE <<>>

References(m) ==
  driver[m] + Times(InHand \o fifo \o gro)[m]
  + Cardinality({h \in Mbufs : m \in mbuf[h].segs})

(* No buffer is lost and none is freed or sent twice: a buffer is in the   *)
(* pool, or has as many references as the call, the ring, the table, the   *)
(* transmit queue and the packets it is a segment of have to it.           *)
MbufsAccounted == \A m \in Mbufs : mbuf[m].refcnt = References(m)

(* The engines that send packets as they come send them in the order of    *)
(* their arrival: what is still to be sent, the ring after the burst that  *)
(* was taken out of it, is in that order and complete.                     *)
OrderKept ==
  mode.engine \in Plain \cup {"icmpecho", "noisy"} => arrived = InHand \o fifo

(* A flow number is used up only by a packet that was sent, however many   *)
(* of the burst were dropped: "Back out the flow counter."                 *)
FlowsBackedOut ==
  pc = "idle" =>
    /\ mode.engine = "flowgen" =>
         next_flow = (counts.first[1] + counts.handed) % NbFlows
    /\ mode.engine = "txonly" =>
         ip_var = (counts.first[2] + counts.handed) % IpVarRange

(* A packet of a shared receive queue is counted for the port it came      *)
(* from, the last of the burst excepted.                                   *)
CountedByPort == counts.misplaced \subseteq {counts.came}

(* When a call ends, tx_packets says how many packets the driver took, and *)
(* each packet that came was sent, counted in fwd_dropped, or consumed by  *)
(* the engine.  The noisy engine counts no drop and nothing that leaves    *)
(* its ring, and ieee1588 counts a packet it drops as sent too.  A packet  *)
(* of a shared receive queue is counted for its port.                      *)
CountersBalance ==
  /\ CountedByPort
  /\ pc = "idle" /\ mode.engine \notin {"noisy", "ieee1588"} =>
       /\ counts.tx = counts.handed
       /\ counts.came = counts.tx + counts.dropped + counts.discarded

(* A call ends, whatever the device sends: the retries are bounded and the *)
(* ring is emptied.                                                        *)
CallReturns == pc # "idle" ~> pc = "idle"
=============================================================================
