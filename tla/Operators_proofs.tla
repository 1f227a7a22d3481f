-------------------------- MODULE Operators_proofs --------------------------
(***************************************************************************)
(* Lemmas about the operators that several modules are built from: the     *)
(* configuration of the forwarding, and taking elements out of a list.     *)
(***************************************************************************)
EXTENDS FwdStreams, Lists, Functions, SequenceTheorems, WellFoundedInduction, TLAPS

-----------------------------------------------------------------------------
(* The forwarding configuration: the split of the streams over the cores,  *)
(* the transmit ports, and the queues of each stream.                      *)

(* Arithmetic of the split of nb_fs streams over nb_fc cores.              *)

(* The split is exact: nb_fc shares of PerLcore streams and the remainder. *)
LEMMA SplitExact ==
  ASSUME NEW nb_fs \in Nat, NEW nb_fc \in Nat, nb_fc <= nb_fs,
         nb_fc = 0 => nb_fs = 0
  PROVE  /\ PerLcore(nb_fs, nb_fc) \in Nat \ {0}
         /\ NbPlain(nb_fs, nb_fc) \in 0 .. nb_fc
         /\ nb_fc * PerLcore(nb_fs, nb_fc)
              + (nb_fc - NbPlain(nb_fs, nb_fc)) = nb_fs
<1>1. CASE nb_fs <= nb_fc
  BY <1>1 DEF PerLcore, NbExtra, NbPlain
<1>2. CASE ~(nb_fs <= nb_fc)
  <2>1. nb_fc \in Nat \ {0}
    BY <1>2
  <2>2. /\ nb_fs \div nb_fc \in Nat
        /\ nb_fs % nb_fc \in 0 .. nb_fc - 1
        /\ nb_fs = ((nb_fs \div nb_fc) * nb_fc) + (nb_fs % nb_fc)
    BY <2>1
  <2>3. nb_fs \div nb_fc # 0
    BY <1>2, <2>1, <2>2
  <2>4. /\ PerLcore(nb_fs, nb_fc) = nb_fs \div nb_fc
        /\ NbExtra(nb_fs, nb_fc) = nb_fs % nb_fc
    BY <1>2 DEF PerLcore, NbExtra
  <2> QED
    BY <2>1, <2>2, <2>3, <2>4 DEF NbPlain
<1> QED
  BY <1>1, <1>2

LEMMA Distribute ==
  ASSUME NEW a \in Nat, NEW b \in Nat
  PROVE  /\ a * b \in Nat
         /\ (a + 1) * b = a * b + b
  OBVIOUS

LEMMA MulMonotone ==
  ASSUME NEW a \in Nat, NEW b \in Nat, NEW c \in Nat, a <= b
  PROVE  a * c <= b * c
  OBVIOUS

-----------------------------------------------------------------------------
(* Transmit ports: a permutation of the receive ports in every topology.   *)

LEMMA TxPortIndexType ==
  ASSUME NEW top \in Topologies, NEW n \in Nat, NEW p \in 0 .. n - 1
  PROVE  TxPortIndex(top, p, n) \in 0 .. n - 1
<1>1. top \in {"paired", "chained", "loop"}
  BY DEF Topologies
<1>2. CASE top = "loop"
  BY <1>2 DEF TxPortIndex
<1>3. CASE top = "chained"
  BY <1>3 DEF TxPortIndex
<1>4. CASE top = "paired"
  <2>1. TxPortIndex(top, p, n) = IF p % 2 = 1 THEN p - 1
                                 ELSE IF p + 1 < n THEN p + 1 ELSE p
    BY <1>4 DEF TxPortIndex
  <2> QED
    BY <2>1
<1> QED
  BY <1>1, <1>2, <1>3, <1>4

LEMMA TxPortIndexInjective ==
  ASSUME NEW top \in Topologies, NEW n \in Nat,
         NEW p \in 0 .. n - 1, NEW q \in 0 .. n - 1, p # q
  PROVE  TxPortIndex(top, p, n) # TxPortIndex(top, q, n)
<1>1. top \in {"paired", "chained", "loop"}
  BY DEF Topologies
<1>2. CASE top = "loop"
  BY <1>2 DEF TxPortIndex
<1>3. CASE top = "chained"
  BY <1>3 DEF TxPortIndex
<1>4. CASE top = "paired"
  <2>1. \A x : TxPortIndex(top, x, n) = IF x % 2 = 1 THEN x - 1
                                 ELSE IF x + 1 < n THEN x + 1 ELSE x
    BY <1>4 DEF TxPortIndex
  <2> QED
    BY <2>1
<1> QED
  BY <1>1, <1>2, <1>3, <1>4

(* While ports remain to be paired the transmit index is a natural.        *)
LEMMA TxPortIndexNat ==
  ASSUME NEW top \in Topologies, NEW n \in Nat, NEW p \in Nat,
         n > 0 \/ top # "chained"
  PROVE  TxPortIndex(top, p, n) \in Nat
<1>1. top \in {"paired", "chained", "loop"}
  BY DEF Topologies
<1>2. CASE top = "loop"
  BY <1>2 DEF TxPortIndex
<1>3. CASE top = "chained"
  BY <1>3 DEF TxPortIndex
<1>4. CASE top = "paired"
  <2>1. TxPortIndex(top, p, n) = IF p % 2 = 1 THEN p - 1
                                 ELSE IF p + 1 < n THEN p + 1 ELSE p
    BY <1>4 DEF TxPortIndex
  <2> QED
    BY <2>1
<1> QED
  BY <1>1, <1>2, <1>3, <1>4

-----------------------------------------------------------------------------
(* The streams.                                                            *)

LEMMA StreamType ==
  ASSUME NEW a \in Nat, NEW b \in Nat, NEW c \in Nat, NEW d \in Nat
  PROVE  Stream(a, b, c, d) \in [rx_port : Nat, rx_queue : Nat,
                                 tx_port : Nat, tx_queue : Nat]
  BY DEF Stream


(* What a configuration of one process names: ports by their index among   *)
(* the n that forward.                                                     *)
LEMMA NbStreamsType ==
  ASSUME NEW kind \in Kinds, NEW n \in Nat, NEW rxqs \in Nat,
         NEW txqs \in Nat
  PROVE  NbStreams(kind, n, rxqs, txqs) \in Nat
<1>1. RssQueues(rxqs, txqs) \in Nat
  BY DEF RssQueues, Least
<1>2. /\ RssQueues(rxqs, txqs) * n \in Nat
      /\ rxqs * n \in Nat
  BY <1>1
<1>3. kind \in {"simple", "rss", "icmp"}
  BY DEF Kinds
<1> QED
  BY <1>2, <1>3 DEF NbStreams

LEMMA NbLcoresUsedType ==
  ASSUME NEW kind \in Kinds, NEW lcs \in Nat, NEW n \in Nat,
         NEW rxqs \in Nat, NEW txqs \in Nat
  PROVE  /\ NbLcoresUsed(kind, lcs, n, rxqs, txqs) \in 0 .. lcs
         /\ NbLcoresUsed(kind, lcs, n, rxqs, txqs)
              <= NbStreams(kind, n, rxqs, txqs)
<1> DEFINE nb_fs == NbStreams(kind, n, rxqs, txqs)
<1>1. nb_fs \in Nat
  BY NbStreamsType
<1>2. txqs * n \in Nat
  OBVIOUS
<1>3. NbLcoresUsed(kind, lcs, n, rxqs, txqs)
        = IF kind = "icmp" THEN Least(Least(lcs, txqs * n), nb_fs)
          ELSE Least(lcs, nb_fs)
  BY DEF NbLcoresUsed
<1> HIDE DEF nb_fs
<1>4. /\ NbLcoresUsed(kind, lcs, n, rxqs, txqs) \in 0 .. lcs
      /\ NbLcoresUsed(kind, lcs, n, rxqs, txqs) <= nb_fs
  BY <1>1, <1>2, <1>3 DEF Least
<1> QED
  BY <1>4 DEF nb_fs

LEMMA SimpleStreamAtRange ==
  ASSUME NEW top \in Topologies, NEW n \in Nat, NEW s \in 0 .. n - 1
  PROVE  /\ SimpleStreamAt(s, top, n) = Stream(s, 0, TxPortIndex(top, s, n), 0)
         /\ TxPortIndex(top, s, n) \in 0 .. n - 1
  BY TxPortIndexType DEF SimpleStreamAt

LEMMA RssStreamAtRange ==
  ASSUME NEW top \in Topologies, NEW n \in Nat, NEW nb_q \in Nat,
         NEW s \in 0 .. (nb_q * n) - 1
  PROVE  /\ n > 0 /\ s % n \in 0 .. n - 1 /\ s \div n \in 0 .. nb_q - 1
         /\ s = n * (s \div n) + (s % n)
         /\ RssStreamAt(s, top, n, nb_q, 1, 0)
              = Stream(s % n, s \div n, TxPortIndex(top, s % n, n), s \div n)
         /\ TxPortIndex(top, s % n, n) \in 0 .. n - 1
<1>1. n > 0 /\ nb_q > 0
  OBVIOUS
<1>2. /\ s % n \in 0 .. n - 1 /\ s \div n \in Nat
      /\ s = n * (s \div n) + (s % n)
  BY <1>1
<1>3. s \div n < nb_q
  <2>1. SUFFICES ASSUME nb_q <= s \div n
                 PROVE  FALSE
    BY <1>2
  <2>2. nb_q * n <= (s \div n) * n
    BY <1>2, <2>1, MulMonotone
  <2> QED
    BY <1>1, <1>2, <2>2
<1>4. nb_q \div 1 = nb_q /\ (0 * nb_q) \div 1 = 0
  OBVIOUS
<1>5. (IF nb_q \div 1 <= 1 THEN 0 ELSE (s \div n) % (nb_q \div 1)) = s \div n
  BY <1>1, <1>2, <1>3, <1>4
<1>6. RssStreamAt(s, top, n, nb_q, 1, 0)
        = Stream(s % n, s \div n, TxPortIndex(top, s % n, n), s \div n)
  BY <1>2, <1>4, <1>5 DEF RssStreamAt, RssStart
<1> QED
  BY <1>1, <1>2, <1>3, <1>6, TxPortIndexType

LEMMA IcmpStreamAtRange ==
  ASSUME NEW n \in Nat, NEW rxqs \in Nat, NEW s \in 0 .. (rxqs * n) - 1
  PROVE  /\ rxqs > 0 /\ s % rxqs \in 0 .. rxqs - 1
         /\ s \div rxqs \in 0 .. n - 1
         /\ s = rxqs * (s \div rxqs) + (s % rxqs)
         /\ IcmpStreamAt(s, rxqs) = Stream(s \div rxqs, s % rxqs,
                                           s \div rxqs, s % rxqs)
<1>1. n > 0 /\ rxqs > 0
  OBVIOUS
<1>2. /\ s % rxqs \in 0 .. rxqs - 1 /\ s \div rxqs \in Nat
      /\ s = rxqs * (s \div rxqs) + (s % rxqs)
  BY <1>1
<1>3. s \div rxqs < n
  <2>1. SUFFICES ASSUME n <= s \div rxqs
                 PROVE  FALSE
    BY <1>2
  <2>2. n * rxqs <= (s \div rxqs) * rxqs
    BY <1>2, <2>1, MulMonotone
  <2> QED
    BY <1>1, <1>2, <2>2
<1> QED
  BY <1>1, <1>2, <1>3 DEF IcmpStreamAt

LEMMA StreamAtRange ==
  ASSUME NEW kind \in Kinds, NEW top \in Topologies, NEW n \in Nat,
         NEW rxqs \in Nat, NEW txqs \in Nat,
         NEW s \in 0 .. NbStreams(kind, n, rxqs, txqs) - 1
  PROVE  StreamAt(kind, s, top, n, rxqs, txqs, 1, 0)
           \in [rx_port : 0 .. n - 1, rx_queue : Nat,
               tx_port : 0 .. n - 1, tx_queue : Nat]
<1>1. CASE kind = "simple"
  <2>1. s \in 0 .. n - 1
    BY <1>1 DEF NbStreams
  <2>2. StreamAt(kind, s, top, n, rxqs, txqs, 1, 0)
          = Stream(s, 0, TxPortIndex(top, s, n), 0)
    BY <1>1, <2>1, SimpleStreamAtRange DEF StreamAt
  <2> QED
    BY <2>1, <2>2, TxPortIndexType DEF Stream
<1>2. CASE kind = "rss"
  <2> DEFINE nb_q == RssQueues(rxqs, txqs)
  <2>1. nb_q \in Nat /\ s \in 0 .. (nb_q * n) - 1
    BY <1>2 DEF NbStreams, RssQueues, Least
  <2>2. StreamAt(kind, s, top, n, rxqs, txqs, 1, 0)
          = RssStreamAt(s, top, n, nb_q, 1, 0)
    BY <1>2 DEF StreamAt
  <2> HIDE DEF nb_q
  <2>3. /\ n > 0 /\ s % n \in 0 .. n - 1 /\ s \div n \in 0 .. nb_q - 1
        /\ RssStreamAt(s, top, n, nb_q, 1, 0)
             = Stream(s % n, s \div n, TxPortIndex(top, s % n, n), s \div n)
        /\ TxPortIndex(top, s % n, n) \in 0 .. n - 1
    BY <2>1, RssStreamAtRange
  <2>4. s \div n \in Nat
    BY <2>1, <2>3
  <2> QED
    BY <2>2, <2>3, <2>4 DEF Stream
<1>3. CASE kind = "icmp"
  <2>1. s \in 0 .. (rxqs * n) - 1
    BY <1>3 DEF NbStreams
  <2>2. StreamAt(kind, s, top, n, rxqs, txqs, 1, 0) = IcmpStreamAt(s, rxqs)
    BY <1>3 DEF StreamAt
  <2>3. /\ rxqs > 0 /\ s % rxqs \in 0 .. rxqs - 1
        /\ s \div rxqs \in 0 .. n - 1
        /\ IcmpStreamAt(s, rxqs) = Stream(s \div rxqs, s % rxqs,
                                          s \div rxqs, s % rxqs)
    BY <2>1, IcmpStreamAtRange
  <2>4. s % rxqs \in Nat
    BY <2>3
  <2> QED
    BY <2>2, <2>3, <2>4 DEF Stream
<1> QED
  BY <1>1, <1>2, <1>3 DEF Kinds

(* No two streams of a process meet on a queue.                            *)
LEMMA StreamAtExclusive ==
  ASSUME NEW kind \in Kinds, NEW top \in Topologies, NEW n \in Nat,
         NEW rxqs \in Nat, NEW txqs \in Nat,
         NEW s \in 0 .. NbStreams(kind, n, rxqs, txqs) - 1,
         NEW t \in 0 .. NbStreams(kind, n, rxqs, txqs) - 1, s # t
  PROVE  LET a == StreamAt(kind, s, top, n, rxqs, txqs, 1, 0)
             b == StreamAt(kind, t, top, n, rxqs, txqs, 1, 0)
         IN  /\ a.rx_port # b.rx_port \/ a.rx_queue # b.rx_queue
             /\ a.tx_port # b.tx_port \/ a.tx_queue # b.tx_queue
<1>1. CASE kind = "simple"
  <2>1. s \in 0 .. n - 1 /\ t \in 0 .. n - 1
    BY <1>1 DEF NbStreams
  <2>2. \A x \in 0 .. n - 1 :
          StreamAt(kind, x, top, n, rxqs, txqs, 1, 0)
            = Stream(x, 0, TxPortIndex(top, x, n), 0)
    BY <1>1, SimpleStreamAtRange DEF StreamAt
  <2>3. TxPortIndex(top, s, n) # TxPortIndex(top, t, n)
    BY <2>1, TxPortIndexInjective
  <2> QED
    BY <2>1, <2>2, <2>3 DEF Stream
<1>2. CASE kind = "rss"
  <2> DEFINE nb_q == RssQueues(rxqs, txqs)
  <2>1. nb_q \in Nat /\ s \in 0 .. (nb_q * n) - 1 /\ t \in 0 .. (nb_q * n) - 1
    BY <1>2 DEF NbStreams, RssQueues, Least
  <2>2. \A x : StreamAt(kind, x, top, n, rxqs, txqs, 1, 0)
               = RssStreamAt(x, top, n, nb_q, 1, 0)
    BY <1>2 DEF StreamAt
  <2> HIDE DEF nb_q
  <2>3. \A x \in 0 .. (nb_q * n) - 1 :
          /\ x % n \in 0 .. n - 1
          /\ x = n * (x \div n) + (x % n)
          /\ RssStreamAt(x, top, n, nb_q, 1, 0)
               = Stream(x % n, x \div n, TxPortIndex(top, x % n, n), x \div n)
    BY <2>1, RssStreamAtRange
  <2>4. s % n # t % n \/ s \div n # t \div n
    BY <2>1, <2>3
  <2>5. s % n # t % n =>
          TxPortIndex(top, s % n, n) # TxPortIndex(top, t % n, n)
    BY <2>1, <2>3, TxPortIndexInjective
  <2> QED
    BY <2>1, <2>2, <2>3, <2>4, <2>5 DEF Stream
<1>3. CASE kind = "icmp"
  <2>1. s \in 0 .. (rxqs * n) - 1 /\ t \in 0 .. (rxqs * n) - 1
    BY <1>3 DEF NbStreams
  <2>2. \A x : StreamAt(kind, x, top, n, rxqs, txqs, 1, 0)
               = IcmpStreamAt(x, rxqs)
    BY <1>3 DEF StreamAt
  <2>3. \A x \in 0 .. (rxqs * n) - 1 :
          /\ x = rxqs * (x \div rxqs) + (x % rxqs)
          /\ IcmpStreamAt(x, rxqs) = Stream(x \div rxqs, x % rxqs,
                                            x \div rxqs, x % rxqs)
    BY IcmpStreamAtRange
  <2>4. s % rxqs # t % rxqs \/ s \div rxqs # t \div rxqs
    BY <2>1, <2>3
  <2> QED
    BY <2>1, <2>2, <2>3, <2>4 DEF Stream
<1> QED
  BY <1>1, <1>2, <1>3 DEF Kinds

(* The shares of the cores: naturals, inside the streams, and disjoint.    *)
LEMMA SharesOfLcores ==
  ASSUME NEW nb_fs \in Nat, NEW nb_fc \in Nat, nb_fc <= nb_fs,
         NEW lc \in 0 .. nb_fc - 1
  PROVE  /\ EachLcore(nb_fs, nb_fc)[lc] \in [stream_idx : Nat, stream_nb : Nat]
         /\ Owned(EachLcore(nb_fs, nb_fc)[lc]) \subseteq 0 .. nb_fs - 1
         /\ \A other \in 0 .. nb_fc - 1 : lc < other =>
              EachLcore(nb_fs, nb_fc)[lc].stream_idx
                + EachLcore(nb_fs, nb_fc)[lc].stream_nb
              <= EachLcore(nb_fs, nb_fc)[other].stream_idx
<1> DEFINE per == PerLcore(nb_fs, nb_fc)
           plain == NbPlain(nb_fs, nb_fc)
           share(l) == EachLcore(nb_fs, nb_fc)[l]
<1>1. /\ per \in Nat \ {0} /\ plain \in 0 .. nb_fc
      /\ nb_fc * per + (nb_fc - plain) = nb_fs
  BY SplitExact
<1>2. \A l \in 0 .. nb_fc - 1 :
        share(l) = IF l < plain
                   THEN [stream_idx |-> l * per, stream_nb |-> per]
                   ELSE [stream_idx |-> plain * per + (l - plain) * (per + 1),
                         stream_nb |-> per + 1]
  BY DEF EachLcore
<1> HIDE DEF per, plain, share
<1>3. \A l \in 0 .. nb_fc - 1 :
        /\ share(l).stream_idx = l * per + (IF l < plain THEN 0 ELSE l - plain)
        /\ share(l).stream_nb = per + (IF l < plain THEN 0 ELSE 1)
        /\ share(l) \in [stream_idx : Nat, stream_nb : Nat]
  <2> SUFFICES ASSUME NEW l \in 0 .. nb_fc - 1
               PROVE  /\ share(l).stream_idx
                           = l * per + (IF l < plain THEN 0 ELSE l - plain)
                      /\ share(l).stream_nb
                           = per + (IF l < plain THEN 0 ELSE 1)
                      /\ share(l) \in [stream_idx : Nat, stream_nb : Nat]
    OBVIOUS
  <2>1. CASE l < plain
    <3>1. l * per \in Nat
      BY <1>1
    <3> QED
      BY <1>1, <1>2, <2>1, <3>1
  <2>2. CASE ~(l < plain)
    <3>1. l - plain \in Nat /\ l = plain + (l - plain)
      BY <1>1, <2>2
    <3>2. plain * per + (l - plain) * (per + 1) = l * per + (l - plain)
      BY <1>1, <3>1
    <3>3. l * per + (l - plain) \in Nat
      BY <1>1, <3>1
    <3> QED
      BY <1>1, <1>2, <2>2, <3>2, <3>3
  <2> QED
    BY <2>1, <2>2
<1>4. \A l \in 0 .. nb_fc - 1 :
        share(l).stream_idx + share(l).stream_nb
          = (l + 1) * per + (IF l < plain THEN 0 ELSE (l + 1) - plain)
  BY <1>1, <1>3, Distribute
<1>5. \A l \in 0 .. nb_fc - 1, m \in 1 .. nb_fc : l < m =>
        (l + 1) * per + (IF l < plain THEN 0 ELSE (l + 1) - plain)
          <= m * per + (IF m < plain THEN 0 ELSE m - plain)
  <2> SUFFICES ASSUME NEW l \in 0 .. nb_fc - 1, NEW m \in 1 .. nb_fc, l < m
               PROVE  (l + 1) * per + (IF l < plain THEN 0 ELSE (l + 1) - plain)
                        <= m * per + (IF m < plain THEN 0 ELSE m - plain)
    OBVIOUS
  <2>1. (l + 1) * per <= m * per
    BY <1>1, MulMonotone
  <2>2. (IF l < plain THEN 0 ELSE (l + 1) - plain)
          <= (IF m < plain THEN 0 ELSE m - plain)
    BY <1>1
  <2>3. /\ (l + 1) * per \in Nat /\ m * per \in Nat
        /\ (IF l < plain THEN 0 ELSE (l + 1) - plain) \in Int
        /\ (IF m < plain THEN 0 ELSE m - plain) \in Int
    BY <1>1
  <2> QED
    BY <2>1, <2>2, <2>3
<1>6. share(lc).stream_idx + share(lc).stream_nb <= nb_fs
  <2>1. lc < nb_fc /\ nb_fc \in 1 .. nb_fc
    OBVIOUS
  <2>2. (IF nb_fc < plain THEN 0 ELSE nb_fc - plain) = nb_fc - plain
    BY <1>1
  <2> QED
    BY <1>1, <1>4, <1>5, <2>1, <2>2
<1>7. Owned(share(lc)) \subseteq 0 .. nb_fs - 1
  BY <1>3, <1>6 DEF Owned
<1>8. \A other \in 0 .. nb_fc - 1 : lc < other =>
        share(lc).stream_idx + share(lc).stream_nb <= share(other).stream_idx
  BY <1>3, <1>4, <1>5
<1> QED
  BY <1>3, <1>7, <1>8 DEF share

(* No core that takes part is without a stream.                            *)
LEMMA ShareNotEmpty ==
  ASSUME NEW nb_fs \in Nat, NEW nb_fc \in Nat, nb_fc <= nb_fs,
         NEW lc \in 0 .. nb_fc - 1
  PROVE  Owned(EachLcore(nb_fs, nb_fc)[lc]) # {}
<1> DEFINE per == PerLcore(nb_fs, nb_fc)
           plain == NbPlain(nb_fs, nb_fc)
           share == EachLcore(nb_fs, nb_fc)[lc]
<1>1. per \in Nat \ {0}
  BY SplitExact
<1>2. share = IF lc < plain
              THEN [stream_idx |-> lc * per, stream_nb |-> per]
              ELSE [stream_idx |-> plain * per + (lc - plain) * (per + 1),
                    stream_nb |-> per + 1]
  BY DEF EachLcore
<1>3. share \in [stream_idx : Nat, stream_nb : Nat]
  BY SharesOfLcores
<1> HIDE DEF per, plain, share
<1>4. share.stream_nb >= 1
  BY <1>1, <1>2
<1>5. share.stream_idx \in Owned(share)
  BY <1>3, <1>4 DEF Owned
<1> QED
  BY <1>5 DEF share

LEMMA OwnedDisjoint ==
  ASSUME NEW nb_fs \in Nat, NEW nb_fc \in Nat, nb_fc <= nb_fs,
         NEW lc1 \in 0 .. nb_fc - 1, NEW lc2 \in 0 .. nb_fc - 1, lc1 # lc2
  PROVE  Owned(EachLcore(nb_fs, nb_fc)[lc1])
           \cap Owned(EachLcore(nb_fs, nb_fc)[lc2]) = {}
<1> DEFINE share(l) == EachLcore(nb_fs, nb_fc)[l]
<1>1. \A l \in 0 .. nb_fc - 1 :
        /\ share(l) \in [stream_idx : Nat, stream_nb : Nat]
        /\ \A other \in 0 .. nb_fc - 1 : l < other =>
             share(l).stream_idx + share(l).stream_nb <= share(other).stream_idx
  BY SharesOfLcores
<1> HIDE DEF share
<1>2. lc1 < lc2 \/ lc2 < lc1
  OBVIOUS
<1>3. Owned(share(lc1)) \cap Owned(share(lc2)) = {}
  BY <1>1, <1>2 DEF Owned
<1> QED
  BY <1>3 DEF share

-----------------------------------------------------------------------------
(* What Kept returns, for lists and sets of any kind: elements of the list *)
(* that are in the set, all of them, in their order.                       *)

\* Induction over the natural numbers, on a set in the place of a predicate.
LEMMA SetInduction ==
  ASSUME NEW A, 0 \in A, \A n \in Nat : n \in A => n + 1 \in A
  PROVE  Nat \subseteq A
<1> DEFINE B == Nat \ A
<1>1. SUFFICES ASSUME B # {} PROVE FALSE
  OBVIOUS
<1> HIDE DEF B
<1>2. \E x \in B : \A y \in B : ~(<<y, x>> \in OpToRel(<, Nat))
  <2>1. B \subseteq Nat
    BY DEF B
  <2> QED
    BY <1>1, <2>1, NatLessThanWellFounded, WFMin
<1>3. PICK x \in B : \A y \in B : ~(<<y, x>> \in OpToRel(<, Nat))
  BY <1>2
<1>4. x \in Nat /\ x \notin A
  BY DEF B
<1>5. x - 1 \in Nat /\ x - 1 < x /\ x = (x - 1) + 1
  BY <1>4
<1>6. <<x - 1, x>> \in OpToRel(<, Nat)
  BY <1>4, <1>5 DEF OpToRel
<1>7. x - 1 \in A
  BY <1>3, <1>5, <1>6 DEF B
<1> QED
  BY <1>4, <1>5, <1>7

\* g is the function that Kept computes, for the first m elements.
Keeps(list, S, m, g) ==
  g = [n \in 0 .. m |->
         IF n = 0 THEN <<>>
         ELSE IF list[n] \in S THEN Append(g[n - 1], list[n])
         ELSE g[n - 1]]

\* There is such a function for every number of elements.
LEMMA KeepsExists ==
  ASSUME NEW list, NEW S
  PROVE  \A m \in Nat : \E g : Keeps(list, S, m, g)
<1> DEFINE F(g, n) == IF n = 0 THEN <<>>
                      ELSE IF list[n] \in S THEN Append(g[n - 1], list[n])
                      ELSE g[n - 1]
           A == {m \in Nat : \E g : Keeps(list, S, m, g)}
<1>1. 0 \in A
  <2> DEFINE g == [n \in 0 .. 0 |-> <<>>]
  <2>1. g = [n \in 0 .. 0 |-> F(g, n)]
    OBVIOUS
  <2> HIDE DEF g
  <2>2. Keeps(list, S, 0, g)
    BY <2>1 DEF Keeps
  <2> QED
    BY <2>2
<1>2. ASSUME NEW m \in Nat, m \in A PROVE m + 1 \in A
  <2>1. PICK g : Keeps(list, S, m, g)
    BY <1>2
  <2>2. g = [n \in 0 .. m |-> F(g, n)]
    BY <2>1 DEF Keeps
  <2> DEFINE h == [n \in 0 .. m + 1 |-> IF n = m + 1 THEN F(g, n) ELSE g[n]]
  <2>3. ASSUME NEW n \in 0 .. m + 1 PROVE h[n] = F(h, n)
    <3>1. \A k \in 0 .. m : h[k] = g[k] /\ k # m + 1
      OBVIOUS
    <3>2. n # 0 => n - 1 \in 0 .. m
      OBVIOUS
    <3>3. F(h, n) = F(g, n)
      BY <3>1, <3>2
    <3>4. CASE n = m + 1
      BY <3>3, <3>4
    <3>5. CASE n \in 0 .. m
      <4>1. g[n] = F(g, n)
        BY <2>2, <3>5
      <4> QED
        BY <3>1, <3>3, <3>5, <4>1
    <3> QED
      BY <3>4, <3>5
  <2>4. h = [n \in 0 .. m + 1 |-> F(h, n)]
    <3>1. h = [n \in 0 .. m + 1 |-> h[n]]
      OBVIOUS
    <3> HIDE DEF h
    <3> QED
      BY <2>3, <3>1
  <2> HIDE DEF h
  <2>5. Keeps(list, S, m + 1, h)
    BY <2>4 DEF Keeps
  <2> QED
    BY <2>5
<1> HIDE DEF A
<1>3. Nat \subseteq A
  BY <1>1, <1>2, SetInduction
<1> QED
  BY <1>3 DEF A

\* Kept is the last value of one.
LEMMA KeptKeeps ==
  ASSUME NEW T, NEW list \in Seq(T), NEW S
  PROVE  \E k : Keeps(list, S, Len(list), k) /\ Kept(list, S) = k[Len(list)]
<1> DEFINE kept[n \in 0 .. Len(list)] ==
             IF n = 0 THEN <<>>
             ELSE IF list[n] \in S THEN Append(kept[n - 1], list[n])
             ELSE kept[n - 1]
<1>1. Len(list) \in Nat
  BY LenProperties
<1>2. \E g : Keeps(list, S, Len(list), g)
  BY <1>1, KeepsExists
<1>3. kept = CHOOSE g : Keeps(list, S, Len(list), g)
  BY DEF Keeps
<1>4. Kept(list, S) = kept[Len(list)]
  BY DEF Kept
<1> HIDE DEF kept
<1> QED
  BY <1>2, <1>3, <1>4

\* f tells where the elements of s, those of the first m of list that are in
\* S, stand in list.
Embeds(list, S, m, s, f) ==
  /\ f \in [1 .. Len(s) -> 1 .. m]
  /\ \A i, j \in 1 .. Len(s) : i < j => f[i] < f[j]
  /\ \A i \in 1 .. Len(s) : s[i] = list[f[i]] /\ s[i] \in S
  /\ \A j \in 1 .. m : list[j] \in S => \E i \in 1 .. Len(s) : f[i] = j

\* Kept takes the elements in S, all of them, in their order.
LEMMA KeptEmbeds ==
  ASSUME NEW T, NEW list \in Seq(T), NEW S
  PROVE  /\ Kept(list, S) \in Seq(T)
         /\ \E f : Embeds(list, S, Len(list), Kept(list, S), f)
<1>1. PICK k : Keeps(list, S, Len(list), k) /\ Kept(list, S) = k[Len(list)]
  BY KeptKeeps
<1>2. Len(list) \in Nat
  BY LenProperties
<1>3. /\ k[0] = <<>>
      /\ \A n \in 0 .. Len(list) : n # 0 =>
           k[n] = IF list[n] \in S THEN Append(k[n - 1], list[n]) ELSE k[n - 1]
  <2>1. k = [n \in 0 .. Len(list) |->
               IF n = 0 THEN <<>>
               ELSE IF list[n] \in S THEN Append(k[n - 1], list[n])
               ELSE k[n - 1]]
    BY <1>1 DEF Keeps
  <2>2. k[0] = <<>>
    BY <2>1, <1>2
  <2>3. ASSUME NEW n \in 0 .. Len(list), n # 0
        PROVE  k[n] = IF list[n] \in S THEN Append(k[n - 1], list[n])
                      ELSE k[n - 1]
    BY <2>1, <2>3
  <2> QED
    BY <2>2, <2>3
<1> DEFINE A == {m \in Nat : m <= Len(list) =>
                   k[m] \in Seq(T) /\ \E f : Embeds(list, S, m, k[m], f)}
<1>4. 0 \in A
  <2>1. k[0] \in Seq(T) /\ Len(k[0]) = 0
    BY <1>3
  <2> DEFINE f == [i \in 1 .. 0 |-> 0]
  <2>2. Embeds(list, S, 0, k[0], f)
    BY <2>1 DEF Embeds
  <2> HIDE DEF f
  <2> QED
    BY <2>1, <2>2
<1>5. ASSUME NEW m \in Nat, m \in A PROVE m + 1 \in A
  <2>1. SUFFICES ASSUME m + 1 <= Len(list)
                 PROVE  k[m + 1] \in Seq(T)
                        /\ \E f : Embeds(list, S, m + 1, k[m + 1], f)
    OBVIOUS
  <2>2. PICK f : k[m] \in Seq(T) /\ Embeds(list, S, m, k[m], f)
    BY <1>2, <1>5, <2>1
  <2>3. k[m + 1] = IF list[m + 1] \in S THEN Append(k[m], list[m + 1])
                   ELSE k[m]
    BY <1>2, <1>3, <2>1
  <2>4. list[m + 1] \in T
    BY <1>2, <2>1, ElementOfSeq
  <2> DEFINE l == Len(k[m])
  <2>5. l \in Nat
    BY <2>2, LenProperties
  <2>6. CASE list[m + 1] \notin S
    <3>1. Embeds(list, S, m + 1, k[m], f)
      BY <2>2, <2>5, <2>6 DEF Embeds
    <3> QED
      BY <2>2, <2>3, <2>6, <3>1
  <2>7. CASE list[m + 1] \in S
    <3> DEFINE g == [i \in 1 .. l + 1 |-> IF i = l + 1 THEN m + 1 ELSE f[i]]
               s == Append(k[m], list[m + 1])
    <3>1. /\ s \in Seq(T) /\ Len(s) = l + 1
          /\ \A i \in 1 .. l : s[i] = k[m][i]
          /\ s[l + 1] = list[m + 1]
      BY <2>2, <2>4, AppendProperties
    <3> HIDE DEF s
    <3>2. g \in [1 .. Len(s) -> 1 .. m + 1]
      BY <2>2, <2>5, <3>1 DEF Embeds
    <3>3. \A i, j \in 1 .. Len(s) : i < j => g[i] < g[j]
      <4>1. /\ \A i \in 1 .. l : f[i] \in 1 .. m
            /\ \A i, j \in 1 .. l : i < j => f[i] < f[j]
        BY <2>2 DEF Embeds
      <4>2. /\ \A i \in 1 .. l : g[i] = f[i]
            /\ g[l + 1] = m + 1
        BY <2>5
      <4> HIDE DEF g, l
      <4> QED
        BY <2>5, <3>1, <4>1, <4>2, SMTT(30)
    <3>4. \A i \in 1 .. Len(s) : s[i] = list[g[i]] /\ s[i] \in S
      <4>1. \A i \in 1 .. l : k[m][i] = list[f[i]] /\ k[m][i] \in S
        BY <2>2 DEF Embeds
      <4>2. /\ \A i \in 1 .. l : g[i] = f[i]
            /\ g[l + 1] = m + 1
        BY <2>5
      <4> HIDE DEF g, l
      <4> QED
        BY <2>5, <2>7, <3>1, <4>1, <4>2
    <3>5. \A j \in 1 .. m + 1 : list[j] \in S =>
            \E i \in 1 .. Len(s) : g[i] = j
      <4>1. g[l + 1] = m + 1 /\ l + 1 \in 1 .. Len(s)
        BY <2>5, <3>1
      <4>2. ASSUME NEW j \in 1 .. m, list[j] \in S
            PROVE  \E i \in 1 .. Len(s) : g[i] = j
        <5>1. PICK i \in 1 .. l : f[i] = j
          BY <2>2, <4>2 DEF Embeds
        <5>2. g[i] = j /\ i \in 1 .. Len(s)
          BY <2>5, <3>1, <5>1
        <5> QED
          BY <5>2
      <4> QED
        BY <4>1, <4>2
    <3> HIDE DEF g
    <3>6. Embeds(list, S, m + 1, s, g)
      BY <3>2, <3>3, <3>4, <3>5 DEF Embeds
    <3> QED
      BY <2>3, <2>7, <3>1, <3>6 DEF s
  <2> QED
    BY <2>6, <2>7
<1> HIDE DEF A
<1>6. Len(list) \in A
  BY <1>2, <1>4, <1>5, SetInduction
<1> QED
  BY <1>1, <1>2, <1>6 DEF A

\* What is kept is what the list has of S.
LEMMA KeptRange ==
  ASSUME NEW T, NEW list \in Seq(T), NEW S
  PROVE  Range(Kept(list, S)) = Range(list) \cap S
<1> DEFINE s == Kept(list, S)
<1>1. PICK f : Embeds(list, S, Len(list), s, f)
  BY KeptEmbeds
<1>2. s \in Seq(T)
  BY KeptEmbeds
<1> HIDE DEF s
<1>3. Range(s) = {s[i] : i \in 1 .. Len(s)}
  BY <1>2, LenProperties DEF Range
<1>4. Range(list) = {list[i] : i \in 1 .. Len(list)}
  BY LenProperties DEF Range
<1>5. Range(s) \subseteq Range(list) \cap S
  BY <1>1, <1>3, <1>4 DEF Embeds
<1>6. ASSUME NEW x \in Range(list) \cap S PROVE x \in Range(s)
  <2>1. PICK j \in 1 .. Len(list) : list[j] = x
    BY <1>4, <1>6
  <2>2. PICK i \in 1 .. Len(s) : f[i] = j
    BY <1>1, <1>6, <2>1 DEF Embeds
  <2>3. s[i] = x
    BY <1>1, <2>1, <2>2 DEF Embeds
  <2> QED
    BY <1>3, <2>3
<1> QED
  BY <1>5, <1>6 DEF s

\* A list without repetitions has none after elements were taken out.
LEMMA KeptInjective ==
  ASSUME NEW T, NEW list \in Seq(T), NEW S, IsInjective(list)
  PROVE  IsInjective(Kept(list, S))
<1> DEFINE s == Kept(list, S)
<1>1. PICK f : Embeds(list, S, Len(list), s, f)
  BY KeptEmbeds
<1>2. s \in Seq(T) /\ Len(s) \in Nat
  BY KeptEmbeds, LenProperties
<1> HIDE DEF s
<1>3. DOMAIN s = 1 .. Len(s) /\ DOMAIN list = 1 .. Len(list)
  BY <1>2, LenProperties
<1>4. ASSUME NEW i \in DOMAIN s, NEW j \in DOMAIN s, s[i] = s[j]
      PROVE  i = j
  <2>1. s[i] = list[f[i]] /\ s[j] = list[f[j]]
    BY <1>1, <1>3 DEF Embeds
  <2>2. f[i] \in DOMAIN list /\ f[j] \in DOMAIN list
    BY <1>1, <1>3 DEF Embeds
  <2>3. f[i] = f[j]
    BY <1>4, <2>1, <2>2 DEF IsInjective
  <2>4. f[i] \in Int /\ (i < j => f[i] < f[j]) /\ (j < i => f[j] < f[i])
    BY <1>1, <1>3 DEF Embeds
  <2> QED
    BY <1>2, <1>3, <2>3, <2>4
<1>5. IsInjective(s)
  BY <1>4 DEF IsInjective
<1> QED
  BY <1>5 DEF s
=============================================================================
