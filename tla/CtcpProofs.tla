----------------------------- MODULE CtcpProofs -----------------------------
(***************************************************************************)
(* Proofs about Ctcp, for all windows, segment sizes, inputs, faults and   *)
(* timings.  IInv of Ctcp is inductive; TypeOK, WindowAccounting,          *)
(* TimerCountsUnacked, UnreceivedIsKept, RecvWindowEmpty and (while stdout *)
(* does not block) OutputIsPrefix follow from it.                          *)
(***************************************************************************)
EXTENDS Ctcp, SeqLemmas, FiniteSetTheorems, WellFoundedInduction

-----------------------------------------------------------------------------
(* Hosts, sequences and sets.                                              *)

\* A host's peer is the other host, and has it as its peer.
LEMMA PeerFacts ==
  \A h \in Host : Peer(h) \in Host /\ Peer(h) # h /\ Peer(Peer(h)) = h
  BY HostAssumption DEF Host, Peer

\* n consecutive positions are a sequence of n numbers.
LEMMA BytesType ==
  ASSUME NEW p \in Nat, NEW n \in Nat
  PROVE  Bytes(p, n) \in Seq(Nat) /\ Len(Bytes(p, n)) = n
  BY DEF Bytes

\* A sequence over a smaller set is one over a larger set.
LEMMA SeqMono ==
  ASSUME NEW S, NEW T, S \subseteq T, NEW q \in Seq(S)
  PROVE  q \in Seq(T)
  OBVIOUS

\* Consuming a segment leaves segments of the same kind.
LEMMA RemoveAtType ==
  ASSUME NEW S, NEW q \in Seq(S), NEW i \in 1..Len(q)
  PROVE  RemoveAt(q, i) \in Seq(S)
  BY DEF RemoveAt

\* So does duplicating one.
LEMMA InsertAtType ==
  ASSUME NEW S, NEW q \in Seq(S), NEW i \in 1..Len(q), NEW m \in S
  PROVE  InsertAt(q, i + 1, m) \in Seq(S)
  BY DEF InsertAt

\* A sum of two numbers is a number, and no smaller than either.
LEMMA NatSum ==
  ASSUME NEW a \in Nat, NEW b \in Nat
  PROVE  a + b \in Nat /\ a <= a + b /\ b <= a + b
  OBVIOUS

\* A position of a sequence of n bytes, counted from 0.
LEMMA NatPosition ==
  ASSUME NEW p \in Nat, NEW q \in Nat, NEW n \in Nat,
         1 <= p, p <= q, q - 1 <= n
  PROVE  p - 1 \in 0..n
  OBVIOUS

\* The smaller of two numbers.
LEMMA MinOfTwo ==
  ASSUME NEW a \in Nat, NEW b \in Nat
  PROVE  /\ Min({a, b}) \in {a, b}
         /\ Min({a, b}) <= a
         /\ Min({a, b}) <= b
  <1>1. \E x \in {a, b} : \A y \in {a, b} : x <= y
    <2>1. CASE a <= b  BY <2>1
    <2>2. CASE b <= a  BY <2>2
    <2>3. QED  BY <2>1, <2>2
  <1>2. QED  BY <1>1 DEF Min

\* The least of three numbers is no larger than any of them.
LEMMA MinOfThree ==
  ASSUME NEW a \in Int, NEW b \in Int, NEW c \in Int
  PROVE  /\ Min({a, b, c}) \in Int
         /\ Min({a, b, c}) <= a
         /\ Min({a, b, c}) <= b
         /\ Min({a, b, c}) <= c
  <1>1. \E x \in {a, b, c} : \A y \in {a, b, c} : x <= y
    <2>1. CASE a <= b /\ a <= c  BY <2>1
    <2>2. CASE b <= a /\ b <= c  BY <2>2
    <2>3. CASE c <= a /\ c <= b  BY <2>3
    <2>4. QED  BY <2>1, <2>2, <2>3
  <1>2. QED  BY <1>1 DEF Min

-----------------------------------------------------------------------------
(* The number of bytes in a set of segments.                               *)

\* The bytes in S, each with the node that holds it.
Cells(S) == UNION {{g.node} \X DOMAIN g.data : g \in S}

\* The cells of a finite set of segments are finitely many.
LEMMA CellsFinite ==
  ASSUME NEW S, IsFiniteSet(S), \A g \in S : g.data \in Seq(Nat)
  PROVE  IsFiniteSet(Cells(S))
  <1> DEFINE Row(g) == {g.node} \X DOMAIN g.data
             Rows == {Row(g) : g \in S}
  <1>1. IsFiniteSet(Rows)
    <2> DEFINE f == [g \in S |-> Row(g)]
    <2>1. f \in Surjection(S, Rows)
      BY DEF Surjection
    <2>2. QED
      BY <2>1, FS_Surjection
  <1>2. \A r \in Rows : IsFiniteSet(r)
    <2> SUFFICES ASSUME NEW g \in S PROVE IsFiniteSet(Row(g))
      OBVIOUS
    <2>1. DOMAIN g.data = 1..Len(g.data) /\ Len(g.data) \in Nat
      OBVIOUS
    <2>2. IsFiniteSet(1..Len(g.data))
      BY <2>1, FS_Interval
    <2>3. IsFiniteSet({g.node})
      BY FS_Singleton
    <2>4. QED
      BY <2>1, <2>2, <2>3, FS_Product
  <1>3. QED
    BY <1>1, <1>2, FS_UNION DEF Cells

\* The length of a set of segments is a number, 0 for none.
LEMMA DataLenType ==
  ASSUME NEW S, IsFiniteSet(S), \A g \in S : g.data \in Seq(Nat)
  PROVE  DataLen(S) \in Nat /\ DataLen({}) = 0
  <1>1. DataLen(S) \in Nat
    BY CellsFinite, FS_CardinalityType DEF DataLen, Cells
  <1>2. Cells({}) = {}
    BY DEF Cells
  <1>3. DataLen({}) = 0
    BY <1>2, FS_EmptySet DEF DataLen, Cells
  <1>4. QED
    BY <1>1, <1>3

\* Taking segments out of a list takes their bytes off its length.
LEMMA DataLenRemove ==
  ASSUME NEW S, IsFiniteSet(S), \A g \in S : g.data \in Seq(Nat),
         \A f, g \in S : f.node = g.node => f = g,
         NEW R \in SUBSET S
  PROVE  DataLen(S \ R) = DataLen(S) - DataLen(R) /\ DataLen(R) <= DataLen(S)
  <1> DEFINE Row(g) == {g.node} \X DOMAIN g.data
  <1>1. Cells(S \ R) = Cells(S) \ Cells(R) /\ Cells(R) \subseteq Cells(S)
    <2>1. Cells(R) \subseteq Cells(S) /\ Cells(S \ R) \subseteq Cells(S)
      BY DEF Cells
    <2>2. Cells(S) \subseteq Cells(S \ R) \cup Cells(R)
      BY DEF Cells
    <2>3. ASSUME NEW c \in Cells(S \ R), c \in Cells(R)
          PROVE  FALSE
      <3>1. PICK f \in S \ R : c \in Row(f)
        BY DEF Cells
      <3>2. PICK g \in R : c \in Row(g)
        BY <2>3 DEF Cells
      <3>3. c[1] = f.node /\ c[1] = g.node
        BY <3>1, <3>2
      <3>4. f \in S /\ g \in S
        OBVIOUS
      <3>5. f = g
        BY <3>3, <3>4
      <3>6. QED
        BY <3>5
    <2> HIDE DEF Row
    <2>4. QED
      BY <2>1, <2>2, <2>3
  <1>2. IsFiniteSet(Cells(S))
    BY CellsFinite
  <1>3. /\ Cardinality(Cells(S) \ Cells(R))
              = Cardinality(Cells(S)) - Cardinality(Cells(S) \cap Cells(R))
        /\ Cells(S) \cap Cells(R) = Cells(R)
    BY <1>1, <1>2, FS_Difference
  <1>4. Cardinality(Cells(R)) <= Cardinality(Cells(S))
    BY <1>1, <1>2, FS_Subset
  <1>5. QED
    BY <1>1, <1>3, <1>4 DEF DataLen, Cells

\* A segment added in a new node adds its bytes.
LEMMA DataLenAdd ==
  ASSUME NEW S, IsFiniteSet(S), \A f \in S : f.data \in Seq(Nat),
         NEW g, g.data \in Seq(Nat), \A f \in S : f.node # g.node
  PROVE  DataLen(S \cup {g}) = DataLen(S) + Len(g.data)
  <1> DEFINE row == {g.node} \X DOMAIN g.data
  <1>1. Cells(S \cup {g}) = Cells(S) \cup row
    BY DEF Cells
  <1>2. Cells(S) \cap row = {}
    BY DEF Cells
  <1>3. IsFiniteSet(Cells(S)) /\ Cardinality(Cells(S)) \in Nat
    BY CellsFinite, FS_CardinalityType
  <1>4. IsFiniteSet(row) /\ Cardinality(row) = Len(g.data)
    <2>1. DOMAIN g.data = 1..Len(g.data) /\ Len(g.data) \in Nat
      OBVIOUS
    <2>2. /\ IsFiniteSet(1..Len(g.data))
          /\ Cardinality(1..Len(g.data)) = Len(g.data)
      BY <2>1, FS_Interval
    <2>3. IsFiniteSet({g.node}) /\ Cardinality({g.node}) = 1
      BY FS_Singleton
    <2> DEFINE A == {g.node}
               B == 1..Len(g.data)
    <2>4. /\ IsFiniteSet(A \X B)
          /\ Cardinality(A \X B) = Cardinality(A) * Cardinality(B)
      <3> HIDE DEF A, B
      <3>1. IsFiniteSet(A) /\ IsFiniteSet(B)
        BY <2>2, <2>3 DEF A, B
      <3>2. QED
        BY <3>1, FS_Product
    <2>5. row = A \X B
      BY <2>1
    <2>6. Cardinality(A) * Cardinality(B) = Len(g.data)
      BY <2>1, <2>2, <2>3
    <2>7. QED
      BY <2>4, <2>5, <2>6
  <1>5. Cardinality(Cells(S) \cup row)
          = Cardinality(Cells(S)) + Cardinality(row)
              - Cardinality(Cells(S) \cap row)
    BY <1>3, <1>4, FS_Union
  <1>6. Cardinality(Cells(S) \cap row) = 0
    BY <1>2, FS_EmptySet
  <1>7. Cardinality(Cells(S) \cup row)
          = Cardinality(Cells(S)) + Len(g.data)
    <2>1. Len(g.data) \in Nat
      OBVIOUS
    <2>2. QED
      BY <2>1, <1>3, <1>4, <1>5, <1>6
  <1>8. QED
    BY <1>1, <1>7 DEF DataLen, Cells

\* Stamping a segment in its node changes no length.
LEMMA DataLenReplace ==
  ASSUME NEW S, NEW g \in S, NEW r, r.node = g.node, r.data = g.data
  PROVE  DataLen((S \ {g}) \cup {r}) = DataLen(S)
  <1>1. Cells((S \ {g}) \cup {r}) = Cells(S)
    BY DEF Cells
  <1>2. QED
    BY <1>1 DEF DataLen, Cells

-----------------------------------------------------------------------------
(* Segments and what becomes of them on the wire.                          *)

\* A segment as ctcp.c builds it; FIN_ACK is in none that is queued.
Outgoing ==
  [node : Nat, seqno : Nat, ackno : Nat, data : Seq(Nat),
   flags : {TH_ACK, TH_FIN, FIN_ACK}, window : Nat, cksum : Nat]

\* g is a piece of the stream that h has read, in the state s.
PieceOf(s, g) ==
  /\ 1 <= g.seqno
  /\ End(g) <= s.sw.seqno
  /\ g.data = Bytes(g.seqno - 1, Len(g.data))
  /\ Len(g.data) <= MAX_SEG_DATA_SIZE

\* What is left of the flags in the 8 bits of th_flags.
LEMMA FlagsType ==
  ASSUME NEW g \in Outgoing
  PROVE  g.flags \in Nat /\ g.flags % 256 \in {0, TH_FIN, TH_ACK}
  BY SMT DEF Outgoing, TH_FIN, TH_ACK, FIN_ACK

\* A segment's checksum is a number other than 0.
LEMMA CksumType ==
  ASSUME NEW h \in Host, NEW s \in State, s.input = s.sw.seqno - 1,
         s.input <= InputLen[h], NEW g \in Outgoing, PieceOf(s, g)
  PROVE  cksum(g) \in Nat /\ cksum(g) # 0
  <1>1. s.sw.seqno \in Nat /\ s.input \in Nat /\ InputLen[h] \in Nat
    BY SizeAssumption DEF State, SendWindow
  <1>2. /\ g.seqno \in Nat /\ g.ackno \in Nat /\ g.window \in Nat
        /\ g.cksum \in Nat /\ g.flags \in Nat /\ Len(g.data) \in Nat
    BY FlagsType DEF Outgoing
  <1>3. g.seqno - 1 \in 0..InputLen[h] /\ Len(g.data) \in 0..MAX_SEG_DATA_SIZE
    <2>1. MAX_SEG_DATA_SIZE \in Nat
      BY SizeAssumption
    <2>2. 1 <= g.seqno /\ g.seqno + Len(g.data) <= s.sw.seqno
      BY DEF PieceOf, End
    <2>3. Len(g.data) <= MAX_SEG_DATA_SIZE
      BY DEF PieceOf
    <2>4. s.sw.seqno - 1 <= InputLen[h]
      BY <1>1
    <2>5. g.seqno <= s.sw.seqno
      BY <1>1, <1>2, <2>2
    <2>6. g.seqno - 1 \in 0..InputLen[h]
      BY <1>1, <1>2, <2>2, <2>4, <2>5, NatPosition
    <2>7. Len(g.data) \in 0..MAX_SEG_DATA_SIZE
      BY <1>2, <2>1, <2>3
    <2>8. QED
      BY <2>6, <2>7
  <1>4. WordSum(Bytes(g.seqno - 1, Len(g.data))) \in Nat
    BY <1>3, WordSumAssumption
  <1>5. WordSum(g.data) \in Nat
    BY <1>4 DEF PieceOf
  <1>6. SegmentSum(g) \in Nat
    <2>1. FlagWords(g.flags) \in Nat
      BY <1>2, SMT DEF FlagWords
    <2> DEFINE len == SEG_HEADER_SIZE + Len(g.data)
    <2>2. len \in Nat
      BY <1>2 DEF SEG_HEADER_SIZE
    <2>3. SegmentSum(g) = g.seqno + g.ackno + len + g.window
                            + FlagWords(g.flags) + g.cksum + WordSum(g.data)
      BY DEF SegmentSum
    <2> DEFINE head == g.seqno + g.ackno + len + g.window
               tail == FlagWords(g.flags) + g.cksum
    <2> HIDE DEF len
    <2>4. head \in Nat
      <3>1. g.seqno + g.ackno \in Nat
        BY <1>2, NatSum, Zenon
      <3>2. g.seqno + g.ackno + len \in Nat
        BY <2>2, <3>1, NatSum, Zenon
      <3>3. QED
        BY <1>2, <3>2, NatSum, Zenon
    <2>5. tail \in Nat
      BY <1>2, <2>1, NatSum, Zenon
    <2>6. SegmentSum(g) = (head + tail) + WordSum(g.data)
      <3> DEFINE flags == FlagWords(g.flags)
                 sum == WordSum(g.data)
      <3>1. flags \in Nat /\ sum \in Nat
        BY <1>5, <2>1
      <3>2. SegmentSum(g) = head + flags + g.cksum + sum
        BY <2>3
      <3> HIDE DEF head, flags, sum
      <3>3. SegmentSum(g) = (head + (flags + g.cksum)) + sum
        BY <1>2, <2>4, <3>1, <3>2
      <3>4. QED
        BY <3>3 DEF flags, sum
    <2> HIDE DEF head, tail
    <2>7. head + tail \in Nat
      BY <2>4, <2>5, NatSum
    <2>8. QED
      BY <1>5, <2>6, <2>7, NatSum
  <1>7. QED
    BY <1>6, SMT DEF cksum

\* What conn_send puts on the wire is something the host may have sent.
LEMMA ConnSendType ==
  ASSUME NEW s \in State, NEW g \in Outgoing, PieceOf(s, g),
         g.ackno <= s.rw.ackno
  PROVE  conn_send(g) \in SentBy(s)
  <1>1. g.flags % 256 \in {0, TH_FIN, TH_ACK}
    BY FlagsType
  <1>2. conn_send(g) \in Message
    BY <1>1, SMT DEF conn_send, th_flags, checksum, Message, Outgoing
  <1>3. QED
    BY <1>2, SMT DEF conn_send, th_flags, checksum, SentBy, PieceOf, End

\* A host that reads or receives more may have sent all it had before.
LEMMA SentByGrows ==
  ASSUME NEW s \in State, NEW t \in State,
         s.sw.seqno <= t.sw.seqno, s.rw.ackno <= t.rw.ackno
  PROVE  SentBy(s) \subseteq SentBy(t)
  <1> SUFFICES ASSUME NEW m \in SentBy(s) PROVE m \in SentBy(t)
    OBVIOUS
  <1>1. End(m) \in Nat /\ m.ackno \in Nat
    BY DEF SentBy, Message, End
  <1>2. /\ s.sw.seqno \in Nat /\ t.sw.seqno \in Nat
        /\ s.rw.ackno \in Nat /\ t.rw.ackno \in Nat
    BY DEF State, SendWindow, RecvWindow
  <1>3. End(m) <= t.sw.seqno /\ m.ackno <= t.rw.ackno
    BY <1>1, <1>2 DEF SentBy
  <1>4. QED
    BY <1>3 DEF SentBy

-----------------------------------------------------------------------------
(* The send window's list.                                                 *)

\* The front of a list that is not empty is in it.
LEMMA FrontExists ==
  ASSUME NEW S, S # {}, \A g \in S : g.node \in Nat
  PROVE  /\ ll_front(S) \in S
         /\ \A f \in S : ll_front(S).node <= f.node
  <1> DEFINE nodes == {g.node : g \in S}
             R == OpToRel(<, Nat)
  <1>1. nodes \subseteq Nat /\ nodes # {}
    OBVIOUS
  <1>2. IsWellFoundedOn(R, Nat)
    BY NatLessThanWellFounded
  <1>3. \E n \in nodes : \A m \in nodes : ~ (<<m, n>> \in R)
    <2> HIDE DEF nodes, R
    <2>1. QED
      BY <1>1, <1>2, WFMin
  <1>4. PICK n \in nodes : \A m \in nodes : ~ (<<m, n>> \in R)
    BY <1>3
  <1>5. \A m \in nodes : n <= m
    <2>1. \A m \in nodes : ~ (m < n)
      BY <1>1, <1>4 DEF OpToRel
    <2>2. QED
      BY <1>1, <2>1
  <1>6. \E g \in S : \A f \in S : g.node <= f.node
    BY <1>5
  <1>7. QED
    BY <1>6 DEF ll_front

\* A list of one segment in list order.
LEMMA ListOrderOne ==
  ASSUME NEW g, g.node \in Nat
  PROVE  ListOrder({g}) = <<g>>
  <1>1. Cardinality({g}) = 1
    BY FS_Singleton
  <1>2. {f \in {g} : f.node < g.node} = {}
    OBVIOUS
  <1>3. Cardinality({f \in {g} : f.node < g.node}) = 1 - 1
    BY <1>2, FS_EmptySet
  <1>4. (CHOOSE x \in {g} : Cardinality({f \in {g} : f.node < x.node}) = 1 - 1) = g
    BY <1>3
  <1>5. ListOrder({g}) = [k \in 1..1 |-> g]
    BY <1>1, <1>4 DEF ListOrder
  <1>6. QED
    BY <1>5

\* The empty list.
LEMMA ListOrderNone == ListOrder({}) = <<>>
  <1>1. Cardinality({}) = 0
    BY FS_EmptySet
  <1>2. QED
    BY <1>1 DEF ListOrder

\* ctcp_send and ctcp_retrans stamp a segment before it goes.
Stamped(s, g) ==
  LET a == [g EXCEPT !.ackno = s.rw.ackno] IN [a EXCEPT !.cksum = cksum(a)]

\* s with another list, its timer running, a retransmission count and a wire.
SentState(s, S, c, w) ==
  [s EXCEPT !.sw.segments = S, !.sw.timer = TRUE, !.sw.retrans_counter = c,
            !.wire = w]

\* When every segment has been sent, ctcp_send only restarts the timer.
LEMMA SendNothing ==
  ASSUME NEW s \in State, s.sw.segments # {},
         \A g \in s.sw.segments : g.cksum # 0
  PROVE  ctcp_send(s) = SentState(s, s.sw.segments, 0, s.wire)
  <1> DEFINE unsent == {g \in s.sw.segments : g.cksum = 0}
             sent == {Stamped(s, g) : g \in unsent}
             list == ListOrder(sent)
             wired == [k \in DOMAIN list |-> conn_send(list[k])]
  <1>1. unsent = {} /\ sent = {}
    OBVIOUS
  <1>2. list = <<>>
    BY <1>1, ListOrderNone
  <1>3. wired = <<>>
    <2> HIDE DEF list
    <2>1. DOMAIN list = {}
      BY <1>2
    <2>2. QED
      BY <2>1
  <1>4. (s.sw.segments \ unsent) \cup sent = s.sw.segments
    BY <1>1
  <1>5. ctcp_send(s) = [s EXCEPT !.sw.segments = (@ \ unsent) \cup sent,
                                 !.sw.timer = TRUE,
                                 !.sw.retrans_counter = 0,
                                 !.wire = @ \o wired]
    BY DEF ctcp_send, Stamped
  <1> HIDE DEF unsent, sent, list, wired
  <1>6. s.wire \o <<>> = s.wire
    BY DEF State
  <1>7. QED
    BY <1>3, <1>4, <1>5, <1>6 DEF SentState

\* With one segment to send, ctcp_send stamps it and hands it to conn_send.
LEMMA SendOne ==
  ASSUME NEW s \in State, NEW S, NEW g, s.sw.segments = S \cup {g},
         \A f \in S : f.cksum # 0, g \in Segment, g.cksum = 0
  PROVE  ctcp_send(s) =
           SentState(s, S \cup {Stamped(s, g)}, 0,
                     s.wire \o <<conn_send(Stamped(s, g))>>)
  <1> DEFINE unsent == {f \in s.sw.segments : f.cksum = 0}
             sent == {Stamped(s, f) : f \in unsent}
             list == ListOrder(sent)
             wired == [k \in DOMAIN list |-> conn_send(list[k])]
             r == Stamped(s, g)
  <1>1. unsent = {g}
    OBVIOUS
  <1>2. sent = {r}
    BY <1>1
  <1>3. r.node \in Nat
    BY DEF Stamped, Segment
  <1>4. list = <<r>>
    <2> HIDE DEF r
    <2>1. QED
      BY <1>2, <1>3, ListOrderOne
  <1>5. wired = <<conn_send(r)>>
    <2> HIDE DEF r, list
    <2>1. DOMAIN list = 1..1 /\ list[1] = r
      BY <1>4
    <2>2. QED
      BY <2>1
  <1>6. (s.sw.segments \ unsent) \cup sent = S \cup {r}
    BY <1>1, <1>2
  <1>7. ctcp_send(s) = [s EXCEPT !.sw.segments = (@ \ unsent) \cup sent,
                                 !.sw.timer = TRUE,
                                 !.sw.retrans_counter = 0,
                                 !.wire = @ \o wired]
    BY DEF ctcp_send, Stamped
  <1> HIDE DEF unsent, sent, list, wired
  <1>8. QED
    BY <1>5, <1>6, <1>7 DEF SentState

-----------------------------------------------------------------------------
(* Pieces: which bytes go together, in the window and on the wire.         *)

\* The bytes carried by the segments of a set, each as the first one's
\* position and the one's behind the last.
PieceSet(S) == {<<g.seqno, End(g)>> : g \in {f \in S : f.data # <<>>}}

\* The same of the segments of a sequence.
Carried(q) == PieceSet({q[i] : i \in 1..Len(q)})

\* A host that reads no data: it lets go of pieces in its window, and sends
\* only pieces that are in it.
Repeats(s, t) ==
  /\ t.sw.seqno = s.sw.seqno
  /\ PieceSet(t.sw.segments) \subseteq PieceSet(s.sw.segments)
  /\ Carried(t.wire) \subseteq Carried(s.wire) \cup PieceSet(s.sw.segments)

\* A host that reads data: all of it is one piece more in its window, and
\* leaves at once.
Extends(s, t) ==
  /\ s.sw.seqno < t.sw.seqno
  /\ t.sw.seqno - s.sw.seqno <= s.sw.max_size
  /\ PieceSet(t.sw.segments)
       \subseteq PieceSet(s.sw.segments) \cup {<<s.sw.seqno, t.sw.seqno>>}
  /\ \E m \in Message :
       /\ t.wire = s.wire \o <<m>>
       /\ m.data # <<>> /\ m.ok /\ ~ m.late
       /\ m.seqno = s.sw.seqno /\ End(m) = t.sw.seqno

\* What every callback does to the pieces.
Emits(s, t) == Repeats(s, t) \/ Extends(s, t)

\* More segments carry more.
LEMMA PieceUnion ==
  ASSUME NEW S, NEW T
  PROVE  PieceSet(S \cup T) = PieceSet(S) \cup PieceSet(T)
  BY DEF PieceSet

\* Some of the segments carry no more than all.
LEMMA PieceMono ==
  ASSUME NEW S, NEW T, S \subseteq T
  PROVE  PieceSet(S) \subseteq PieceSet(T)
  BY DEF PieceSet

\* A segment that carries no data adds no piece.
LEMMA PieceOne ==
  ASSUME NEW g
  PROVE  /\ g.data = <<>> => PieceSet({g}) = {}
         /\ g.data # <<>> => PieceSet({g}) = {<<g.seqno, End(g)>>}
  BY DEF PieceSet

\* A segment is as good as another one with its data in its place.
LEMMA PieceSame ==
  ASSUME NEW f, NEW g, f.seqno = g.seqno, f.data = g.data
  PROVE  PieceSet({f}) = PieceSet({g})
  BY DEF PieceSet, End

\* Two sequences, one behind the other.
LEMMA CarriedConcat ==
  ASSUME NEW S, NEW q \in Seq(S), NEW p \in Seq(S)
  PROVE  Carried(q \o p) = Carried(q) \cup Carried(p)
  <1> DEFINE r == q \o p
             Q == {q[i] : i \in 1..Len(q)}
             P == {p[i] : i \in 1..Len(p)}
             R == {r[i] : i \in 1..Len(r)}
  <1>1. r \in Seq(S) /\ IsConcat(q, p, r)
    BY ConcatFacts
  <1>2. Len(q) \in Nat /\ Len(p) \in Nat
    OBVIOUS
  <1> HIDE DEF r
  <1>3. R \subseteq Q \cup P
    <2> SUFFICES ASSUME NEW i \in 1..Len(r) PROVE r[i] \in Q \cup P
      OBVIOUS
    <2>1. CASE i <= Len(q)
      BY <1>1, <1>2, <2>1 DEF IsConcat
    <2>2. CASE ~ (i <= Len(q))
      <3>1. i - Len(q) \in 1..Len(p) /\ Len(q) + (i - Len(q)) = i
        BY <1>1, <1>2, <2>2 DEF IsConcat
      <3>2. r[i] = p[i - Len(q)]
        BY <1>1, <3>1 DEF IsConcat
      <3>3. QED
        BY <3>1, <3>2
    <2>3. QED
      BY <2>1, <2>2
  <1>4. Q \subseteq R
    BY <1>1, <1>2 DEF IsConcat
  <1>5. P \subseteq R
    <2> SUFFICES ASSUME NEW i \in 1..Len(p) PROVE p[i] \in R
      OBVIOUS
    <2>1. Len(q) + i \in 1..Len(r)
      BY <1>1, <1>2 DEF IsConcat
    <2>2. r[Len(q) + i] = p[i]
      BY <1>1 DEF IsConcat
    <2>3. QED
      BY <2>1, <2>2
  <1>6. R = Q \cup P
    BY <1>3, <1>4, <1>5
  <1>7. Carried(r) = PieceSet(R) /\ Carried(q) = PieceSet(Q)
        /\ Carried(p) = PieceSet(P)
    BY DEF Carried
  <1> HIDE DEF Q, P, R
  <1>8. QED
    BY <1>6, <1>7, PieceUnion DEF r

\* A sequence of one segment.
LEMMA CarriedOne ==
  ASSUME NEW m
  PROVE  Carried(<<m>>) = PieceSet({m})
  <1>1. {<<m>>[i] : i \in 1..Len(<<m>>)} = {m}
    <2>1. Len(<<m>>) = 1 /\ <<m>>[1] = m
      OBVIOUS
    <2>2. 1..1 = {1}
      OBVIOUS
    <2>3. QED
      BY <2>1, <2>2
  <1>2. QED
    BY <1>1 DEF Carried

\* A host that only repeats itself twice.
LEMMA RepeatsTwice ==
  ASSUME NEW s, NEW t, NEW u, Repeats(s, t), Repeats(t, u)
  PROVE  Repeats(s, u)
  BY DEF Repeats

\* What is sent again was in the window.
LEMMA SentAgain ==
  ASSUME NEW s, NEW t, s.wire \in Seq(Message), NEW m \in Message,
         t.sw.seqno = s.sw.seqno,
         PieceSet(t.sw.segments) \subseteq PieceSet(s.sw.segments),
         t.wire = s.wire \o <<m>>,
         PieceSet({m}) \subseteq PieceSet(s.sw.segments)
  PROVE  Repeats(s, t)
  <1> DEFINE w == s.wire
             p == <<m>>
  <1>1. w \in Seq(Message) /\ p \in Seq(Message) /\ t.wire = w \o p
    OBVIOUS
  <1>2. Carried(t.wire) = Carried(s.wire) \cup PieceSet({m})
    <2>1. Carried(p) = PieceSet({m})
      BY CarriedOne
    <2> HIDE DEF p, w
    <2>2. Carried(w \o p) = Carried(w) \cup Carried(p)
      BY <1>1, CarriedConcat
    <2>3. QED
      BY <1>1, <2>1, <2>2 DEF w
  <1>3. QED
    BY <1>2 DEF Repeats

\* A new segment's checksum is right.
LEMMA StampedChecks ==
  ASSUME NEW s \in State, NEW g \in Segment, g.cksum = 0
  PROVE  checksum(Stamped(s, g))
  <1> DEFINE a == [g EXCEPT !.ackno = s.rw.ackno]
             c == cksum(a)
             r == [a EXCEPT !.cksum = c]
  <1>1. s.rw.ackno \in Nat
    BY DEF State, RecvWindow
  <1>2. a \in Segment /\ a.cksum = 0
    BY <1>1 DEF Segment
  <1> HIDE DEF a
  <1>3. r = Stamped(s, g)
    BY DEF Stamped, a
  <1> HIDE DEF c
  <1>4. r.cksum = c /\ [r EXCEPT !.cksum = 0] = a
    BY <1>2 DEF Segment
  <1>5. QED
    BY <1>3, <1>4 DEF checksum, c

-----------------------------------------------------------------------------
(* What a callback keeps of its host.                                      *)

\* A host between two calls of the helpers of ctcp.c.
Ready(h, s) ==
  /\ HostInv(h, s)
  /\ s.sw.timer <=> s.sw.segments # {}
  /\ \A g \in s.sw.segments : g.cksum # 0

\* The receiving half of the state is left alone.
SameReceiver(s, t) ==
  /\ t.rw = s.rw
  /\ t.status = s.status
  /\ t.output = s.output
  /\ t.out_queue = s.out_queue
  /\ t.wrote_eof = s.wrote_eof
  /\ t.wrote_err = s.wrote_err

\* u is s with the segment g at the end of its list.
Queued(s, u, g) ==
  /\ u \in State
  /\ SameReceiver(s, u)
  /\ u.wire = s.wire
  /\ u.sw.segments = s.sw.segments \cup {g}
  /\ u.sw.added = g.node
  /\ u.sw.max_size = s.sw.max_size
  /\ u.sw.size = s.sw.size + Len(g.data)
  /\ u.sw.seqno = s.sw.seqno + Len(g.data)
  /\ u.input = s.input + Len(g.data)

\* OutputInv is about the receiving half.
LEMMA OutputKept ==
  ASSUME NEW s, NEW t, OutputInv(s), SameReceiver(s, t)
  PROVE  OutputInv(t)
  BY DEF OutputInv, SameReceiver

\* The parts of Ready(h, s) about numbers.
LEMMA ReadyTypes ==
  ASSUME NEW h \in Host, NEW s, HostInv(h, s)
  PROVE  /\ s \in State
         /\ s.sw.segments \in SUBSET Segment
         /\ IsFiniteSet(s.sw.segments)
         /\ s.sw.added \in Nat /\ s.sw.max_size \in Nat /\ s.sw.size \in Nat
         /\ s.sw.recv_win_size \in Nat /\ s.sw.seqno \in Nat
         /\ s.rw.ackno \in Nat /\ s.input \in Nat
         /\ s.sw.seqno = s.input + 1
         /\ InputLen[h] \in Nat /\ s.input <= InputLen[h]
  <1>1. s \in State /\ s.input = s.sw.seqno - 1 /\ s.input <= InputLen[h]
        /\ IsFiniteSet(s.sw.segments)
    BY DEF HostInv, ListInv
  <1>2. /\ s.sw.segments \in SUBSET Segment
        /\ s.sw.added \in Nat /\ s.sw.max_size \in Nat /\ s.sw.size \in Nat
        /\ s.sw.recv_win_size \in Nat /\ s.sw.seqno \in Nat
        /\ s.rw.ackno \in Nat /\ s.input \in Nat
    BY <1>1 DEF State, SendWindow, RecvWindow
  <1>3. s.sw.seqno = s.input + 1
    BY <1>1, <1>2
  <1>4. QED
    BY <1>1, <1>2, <1>3, SizeAssumption

\* Restarting the timer with a new list and more on the wire.
LEMMA SentFields ==
  ASSUME NEW u \in State, NEW S \in SUBSET Segment, NEW w \in Seq(Message),
         NEW c \in 0..MAX_TRIES, NEW t, t = SentState(u, S, c, w)
  PROVE  /\ t \in State
         /\ t.sw.segments = S
         /\ t.sw.added = u.sw.added
         /\ t.sw.max_size = u.sw.max_size
         /\ t.sw.size = u.sw.size
         /\ t.sw.seqno = u.sw.seqno
         /\ t.sw.timer
         /\ t.input = u.input
         /\ t.wire = w
         /\ SameReceiver(u, t)
  <1>1. u.sw \in SendWindow
    BY DEF State
  <1> DEFINE sw == [u.sw EXCEPT !.segments = S, !.timer = TRUE,
                                !.retrans_counter = c]
  <1>2. sw \in SendWindow
    BY <1>1 DEF SendWindow
  <1>3. t = [u EXCEPT !.sw = sw, !.wire = w]
    BY DEF State, SentState
  <1>4. /\ sw.segments = S /\ sw.added = u.sw.added
        /\ sw.max_size = u.sw.max_size /\ sw.size = u.sw.size
        /\ sw.seqno = u.sw.seqno /\ sw.timer
    BY <1>1 DEF SendWindow
  <1> HIDE DEF sw
  <1>5. t \in State
    BY <1>2, <1>3 DEF State
  <1>6. t.sw = sw /\ t.wire = w /\ t.input = u.input
    BY <1>3 DEF State
  <1>7. SameReceiver(u, t)
    BY <1>3 DEF State, SameReceiver
  <1>8. QED
    BY <1>4, <1>5, <1>6, <1>7

\* A stamped segment is the segment, with a checksum.
LEMMA StampedType ==
  ASSUME NEW h \in Host, NEW s \in State, s.input = s.sw.seqno - 1,
         s.input <= InputLen[h], NEW g \in Segment, PieceOf(s, g)
  PROVE  /\ Stamped(s, g) \in Segment
         /\ Stamped(s, g).cksum # 0
         /\ Stamped(s, g).node = g.node
         /\ Stamped(s, g).seqno = g.seqno
         /\ Stamped(s, g).data = g.data
         /\ conn_send(Stamped(s, g)) \in SentBy(s)
  <1> DEFINE a == [g EXCEPT !.ackno = s.rw.ackno]
             r == [a EXCEPT !.cksum = cksum(a)]
  <1>1. s.rw.ackno \in Nat
    BY DEF State, RecvWindow
  <1>2. /\ a \in Segment /\ a.node = g.node /\ a.seqno = g.seqno
        /\ a.data = g.data /\ a.ackno = s.rw.ackno
    BY <1>1 DEF Segment
  <1>3. a \in Outgoing
    <2> HIDE DEF a
    <2>1. QED
      BY <1>2 DEF Segment, Outgoing
  <1>4. PieceOf(s, a)
    <2> HIDE DEF a
    <2>1. QED
      BY <1>2 DEF PieceOf, End
  <1>5. cksum(a) \in Nat /\ cksum(a) # 0
    <2> HIDE DEF a
    <2>1. QED
      BY <1>3, <1>4, CksumType
  <1>6. /\ r \in Segment /\ r.node = g.node /\ r.seqno = g.seqno
        /\ r.data = g.data /\ r.ackno = s.rw.ackno /\ r.cksum = cksum(a)
    <2> HIDE DEF a
    <2>1. QED
      BY <1>2, <1>5 DEF Segment
  <1>7. conn_send(r) \in SentBy(s)
    <2> HIDE DEF r
    <2>1. r \in Outgoing
      BY <1>6 DEF Segment, Outgoing
    <2>2. PieceOf(s, r)
      BY <1>6 DEF PieceOf, End
    <2>3. r.ackno <= s.rw.ackno
      BY <1>1, <1>6
    <2>4. QED
      BY <2>1, <2>2, <2>3, ConnSendType
  <1>8. r = Stamped(s, g)
    BY DEF Stamped
  <1> HIDE DEF a, r
  <1>9. QED
    BY <1>5, <1>6, <1>7, <1>8

\* What a new segment adds to window and wire.
LEMMA PieceAdded ==
  ASSUME NEW s, NEW t, NEW r \in Segment, s.wire \in Seq(Message),
         s.sw.seqno \in Nat, s.sw.size \in Nat, s.sw.max_size \in Nat,
         checksum(r), conn_send(r) \in Message,
         t.sw.segments = s.sw.segments \cup {r},
         t.wire = s.wire \o <<conn_send(r)>>,
         r.seqno = s.sw.seqno, t.sw.seqno = s.sw.seqno + Len(r.data),
         s.sw.size + Len(r.data) <= s.sw.max_size
  PROVE  /\ r.data = <<>> => Repeats(s, t)
         /\ r.data # <<>> => Extends(s, t)
  <1> DEFINE m == conn_send(r)
  <1>1. m.seqno = r.seqno /\ m.data = r.data /\ m.ok /\ ~ m.late
    BY DEF conn_send
  <1>2. t.wire = s.wire \o <<m>> /\ m \in Message
    OBVIOUS
  <1> HIDE DEF m
  <1>3. Len(r.data) \in Nat /\ r.data \in Seq(Nat)
    BY DEF Segment
  <1>4. PieceSet(t.sw.segments) = PieceSet(s.sw.segments) \cup PieceSet({r})
    BY PieceUnion
  <1>5. ASSUME r.data = <<>>
        PROVE  Repeats(s, t)
    <2>1. PieceSet({r}) = {} /\ PieceSet({m}) = {}
      BY <1>1, <1>5, PieceOne
    <2>2. t.sw.seqno = s.sw.seqno
      BY <1>5
    <2>3. QED
      BY <1>2, <1>4, <2>1, <2>2, SentAgain
  <1>6. ASSUME r.data # <<>>
        PROVE  Extends(s, t)
    <2>1. Len(r.data) # 0
      BY <1>3, <1>6
    <2>2. End(r) = t.sw.seqno /\ End(m) = t.sw.seqno
      BY <1>1 DEF End
    <2>3. PieceSet({r}) = {<<s.sw.seqno, t.sw.seqno>>}
      BY <1>6, <2>2, PieceOne
    <2>4. /\ s.sw.seqno < t.sw.seqno
          /\ t.sw.seqno - s.sw.seqno <= s.sw.max_size
      BY <1>3, <2>1
    <2>5. m.data # <<>> /\ m.seqno = s.sw.seqno
      BY <1>1, <1>6
    <2>6. QED
      BY <1>1, <1>2, <1>4, <2>2, <2>3, <2>4, <2>5 DEF Extends
  <1>7. QED
    BY <1>5, <1>6

\* A new segment is queued and sent: the host is ready again, has lost no
\* byte of its window and has the new segment's bytes in it.
LEMMA QueueAndSend ==
  ASSUME NEW h \in Host, NEW s, NEW u, NEW g \in Segment, Ready(h, s),
         Queued(s, u, g), g.cksum = 0, g.node = s.sw.added + 1,
         g.seqno = s.sw.seqno, g.data = Bytes(s.input, Len(g.data)),
         Len(g.data) <= MAX_SEG_DATA_SIZE,
         s.sw.size + Len(g.data) <= s.sw.max_size,
         s.input + Len(g.data) <= InputLen[h]
  PROVE  LET t == ctcp_send(u) IN
         /\ Ready(h, t)
         /\ SameReceiver(s, t)
         /\ t.sw.seqno = u.sw.seqno /\ t.input = u.input
         /\ Covered(s) \subseteq Covered(t)
         /\ \A k \in 1..t.input : k <= s.input \/ k \in Covered(t)
         /\ g.data = <<>> => Repeats(s, t)
         /\ g.data # <<>> => Extends(s, t)
  <1> DEFINE t == ctcp_send(u)
             r == Stamped(u, g)
             S == s.sw.segments
             n == Len(g.data)
  <1>1. HostInv(h, s) /\ ListInv(s)
    BY DEF Ready, HostInv
  <1>2. /\ S \in SUBSET Segment /\ IsFiniteSet(S)
        /\ s.sw.added \in Nat /\ s.sw.max_size \in Nat /\ s.sw.size \in Nat
        /\ s.sw.seqno \in Nat /\ s.rw.ackno \in Nat /\ s.input \in Nat
        /\ s.sw.seqno = s.input + 1
    BY <1>1, ReadyTypes
  <1>3. n \in Nat /\ g.data \in Seq(Nat) /\ g.seqno \in Nat /\ g.node \in Nat
    BY DEF Segment
  <1>4. u \in State /\ u.input = u.sw.seqno - 1 /\ u.input <= InputLen[h]
    BY <1>2, <1>3 DEF Queued
  <1>5. PieceOf(u, g)
    <2>1. End(g) = u.sw.seqno
      BY DEF End, Queued
    <2>2. u.sw.seqno \in Nat
      BY <1>4 DEF State, SendWindow
    <2>3. g.data = Bytes(g.seqno - 1, n)
      <3>1. g.seqno - 1 = s.input
        BY <1>2
      <3>2. QED
        BY <3>1
    <2>4. 1 <= g.seqno
      BY <1>2
    <2>5. QED
      BY <2>1, <2>2, <2>3, <2>4 DEF PieceOf
  <1>6. /\ r \in Segment /\ r.cksum # 0 /\ r.node = g.node
        /\ r.seqno = g.seqno /\ r.data = g.data /\ conn_send(r) \in SentBy(u)
    BY <1>4, <1>5, StampedType
  <1>7. t = SentState(u, S \cup {r}, 0, u.wire \o <<conn_send(r)>>)
    <2>1. u.sw.segments = S \cup {g}
      BY DEF Queued
    <2>2. \A f \in S : f.cksum # 0
      BY DEF Ready
    <2> HIDE DEF S
    <2>3. QED
      BY <1>4, <2>1, <2>2, SendOne
  <1>8. u.wire \in Seq(SentBy(u)) /\ u.wire = s.wire
    <2>1. s.wire \in Seq(SentBy(s)) /\ s \in State
      BY <1>1 DEF HostInv
    <2>2. s.sw.seqno <= u.sw.seqno /\ s.rw.ackno <= u.rw.ackno
      BY <1>2, <1>3 DEF Queued, SameReceiver
    <2>3. SentBy(s) \subseteq SentBy(u)
      BY <1>4, <2>1, <2>2, SentByGrows
    <2>4. QED
      BY <2>1, <2>3, SeqMono DEF Queued
  <1>9. u.wire \o <<conn_send(r)>> \in Seq(SentBy(u))
    BY <1>6, <1>8
  <1>10. SentBy(u) \subseteq Message
    BY DEF SentBy
  <1>11. u.wire \o <<conn_send(r)>> \in Seq(Message)
    BY <1>9, <1>10, SeqMono
  <1>12. /\ t \in State
         /\ t.sw.segments = S \cup {r} /\ t.sw.added = u.sw.added
         /\ t.sw.max_size = u.sw.max_size /\ t.sw.size = u.sw.size
         /\ t.sw.seqno = u.sw.seqno /\ t.sw.timer
         /\ t.input = u.input /\ t.wire = u.wire \o <<conn_send(r)>>
         /\ SameReceiver(u, t)
    <2> DEFINE R == S \cup {r}
               w == u.wire \o <<conn_send(r)>>
    <2>1. R \in SUBSET Segment /\ w \in Seq(Message) /\ 0 \in 0..MAX_TRIES
      BY <1>2, <1>6, <1>11 DEF MAX_TRIES
    <2>2. t = SentState(u, R, 0, w)
      BY <1>7
    <2> HIDE DEF R, w, t
    <2>3. /\ t \in State
          /\ t.sw.segments = R /\ t.sw.added = u.sw.added
          /\ t.sw.max_size = u.sw.max_size /\ t.sw.size = u.sw.size
          /\ t.sw.seqno = u.sw.seqno /\ t.sw.timer
          /\ t.input = u.input /\ t.wire = w /\ SameReceiver(u, t)
      BY <1>4, <2>1, <2>2, SentFields
    <2>4. QED
      BY <2>3 DEF R, w
  <1>13. /\ t.sw.segments = S \cup {r} /\ t.sw.added = g.node
         /\ t.sw.max_size = s.sw.max_size /\ t.sw.size = s.sw.size + n
         /\ t.sw.seqno = s.sw.seqno + n /\ t.input = s.input + n
         /\ t.rw = s.rw /\ SameReceiver(s, t)
    <2> HIDE DEF t, r
    <2>1. QED
      BY <1>12 DEF Queued, SameReceiver
  <1> HIDE DEF r, t, S, n
  <1>14. ListInv(t)
    <2>1. IsFiniteSet(t.sw.segments)
      <3>1. IsFiniteSet(S \cup {r})
        BY <1>2, FS_AddElement
      <3>2. QED
        BY <1>13, <3>1
    <2>2. \A f \in S : f.node # r.node
      <3> SUFFICES ASSUME NEW f \in S PROVE f.node # r.node
        OBVIOUS
      <3>1. f.node <= s.sw.added /\ f.node \in Nat
        BY <1>1, <1>2 DEF ListInv, Segment, S
      <3>2. QED
        BY <1>2, <1>6, <3>1
    <2>3. \A e, f \in t.sw.segments : e.node = f.node => e = f
      BY <1>1, <1>13, <2>2 DEF ListInv, S
    <2>4. ASSUME NEW f \in t.sw.segments
          PROVE  /\ f.node <= t.sw.added /\ 1 <= f.seqno
                 /\ End(f) <= t.sw.seqno
                 /\ f.data = Bytes(f.seqno - 1, Len(f.data))
                 /\ Len(f.data) <= MAX_SEG_DATA_SIZE
      <3>1. CASE f = r
        <4>1. PieceOf(u, r)
          BY <1>5, <1>6 DEF PieceOf, End
        <4>2. r.node <= t.sw.added
          BY <1>3, <1>6, <1>13
        <4>3. u.sw.seqno = t.sw.seqno
          BY <1>12
        <4>4. QED
          BY <4>1, <4>2, <4>3, <3>1 DEF PieceOf
      <3>2. CASE f \in S
        <4>1. /\ f.node <= s.sw.added /\ 1 <= f.seqno
              /\ End(f) <= s.sw.seqno
              /\ f.data = Bytes(f.seqno - 1, Len(f.data))
              /\ Len(f.data) <= MAX_SEG_DATA_SIZE
          BY <1>1, <3>2 DEF ListInv, S
        <4>2. f.node \in Nat /\ End(f) \in Nat
          <5>1. f \in Segment
            BY <1>2, <3>2
          <5>2. QED
            BY <5>1 DEF Segment, End
        <4>3. f.node <= t.sw.added
          BY <1>2, <1>13, <4>1, <4>2
        <4>4. End(f) <= t.sw.seqno
          BY <1>2, <1>3, <1>13, <4>1, <4>2 DEF n
        <4>5. QED
          BY <4>1, <4>3, <4>4
      <3>3. QED
        BY <1>13, <3>1, <3>2
    <2>5. QED
      BY <2>1, <2>3, <2>4 DEF ListInv
  <1>15. DataLen(t.sw.segments) = t.sw.size
    <2>1. \A f \in S : f.data \in Seq(Nat) /\ f.node # r.node
      <3> SUFFICES ASSUME NEW f \in S
                   PROVE  f.data \in Seq(Nat) /\ f.node # r.node
        OBVIOUS
      <3>1. f.node <= s.sw.added /\ f.node \in Nat /\ f.data \in Seq(Nat)
        BY <1>1, <1>2 DEF ListInv, Segment, S
      <3>2. QED
        BY <1>2, <1>6, <3>1
    <2>2. DataLen(S \cup {r}) = DataLen(S) + Len(r.data)
      BY <1>2, <1>3, <1>6, <2>1, DataLenAdd
    <2>3. s.sw.size = DataLen(S)
      BY <1>1 DEF HostInv, S
    <2>4. QED
      BY <1>6, <1>13, <2>2, <2>3 DEF n
  <1>16. t.wire \in Seq(SentBy(t))
    <2>1. SentBy(u) \subseteq SentBy(t)
      <3>1. u.rw.ackno = t.rw.ackno /\ u.sw.seqno = t.sw.seqno
        BY <1>12 DEF SameReceiver
      <3>2. u.rw.ackno \in Nat /\ u.sw.seqno \in Nat
        BY <1>4 DEF State, SendWindow, RecvWindow
      <3>3. u.rw.ackno <= t.rw.ackno /\ u.sw.seqno <= t.sw.seqno
        BY <3>1, <3>2
      <3>4. QED
        BY <1>4, <1>12, <3>3, SentByGrows
    <2>2. QED
      BY <1>9, <1>12, <2>1, SeqMono
  <1>17. HostInv(h, t)
    <2>1. t.input = t.sw.seqno - 1 /\ t.input <= InputLen[h]
      BY <1>4, <1>12
    <2>2. /\ t.sw.max_size = Window[Peer(h)] /\ t.rw.max_size = Window[h]
          /\ 1 <= t.rw.ackno
      BY <1>1, <1>13 DEF HostInv
    <2>3. t.sw.size <= t.sw.max_size
      BY <1>13 DEF n
    <2>4. QED
      BY <1>12, <1>14, <1>15, <1>16, <2>1, <2>2, <2>3 DEF HostInv
  <1>18. Ready(h, t)
    BY <1>6, <1>12, <1>17 DEF Ready, S
  <1>19. Covered(s) \subseteq Covered(t)
    <2>1. s.sw.segments \subseteq t.sw.segments
      BY <1>13 DEF S
    <2>2. 1..s.input \subseteq 1..t.input
      <3>1. s.input \in Nat
        BY <1>2
      <3>2. n \in Nat
        BY <1>3
      <3>3. t.input = s.input + n
        BY <1>13
      <3>4. QED
        BY <3>1, <3>2, <3>3
    <2>3. QED
      BY <2>1, <2>2 DEF Covered
  <1>20. \A k \in 1..t.input : k <= s.input \/ k \in Covered(t)
    <2> SUFFICES ASSUME NEW k \in 1..t.input, ~ (k <= s.input)
                 PROVE  k \in Covered(t)
      OBVIOUS
    <2>1. r.seqno <= k /\ k < End(r)
      <3>1. End(r) = s.sw.seqno + n /\ r.seqno = s.sw.seqno
        BY <1>6 DEF End, n
      <3>2. /\ s.sw.seqno \in Nat /\ s.input \in Nat /\ n \in Nat
            /\ s.sw.seqno = s.input + 1
        BY <1>2, <1>3
      <3>3. t.input = s.input + n
        BY <1>13
      <3>4. k \in Int /\ s.input < k /\ k <= s.input + n
        BY <3>2, <3>3
      <3>5. QED
        BY <3>1, <3>2, <3>4
    <2>2. QED
      BY <1>13, <2>1 DEF Covered
  <1>21. /\ g.data = <<>> => Repeats(s, t)
         /\ g.data # <<>> => Extends(s, t)
    <2>1. conn_send(r) \in Message /\ checksum(r)
      BY <1>4, <1>6, <1>10, StampedChecks DEF r
    <2>2. /\ t.sw.segments = s.sw.segments \cup {r}
          /\ t.wire = s.wire \o <<conn_send(r)>>
      BY <1>8, <1>12 DEF S
    <2>3. s.wire \in Seq(Message)
      BY <1>1 DEF HostInv, State
    <2>4. /\ r.seqno = s.sw.seqno
          /\ t.sw.seqno = s.sw.seqno + Len(r.data)
          /\ s.sw.size + Len(r.data) <= s.sw.max_size
      BY <1>6, <1>13 DEF n
    <2>5. QED
      BY <1>2, <1>6, <2>1, <2>2, <2>3, <2>4, PieceAdded
  <1>22. QED
    BY <1>12, <1>13, <1>18, <1>19, <1>20, <1>21 DEF t

\* The sending half of the state is left alone.
SameSender(s, t) ==
  /\ t.sw.segments = s.sw.segments
  /\ t.sw.added = s.sw.added
  /\ t.sw.max_size = s.sw.max_size
  /\ t.sw.size = s.sw.size
  /\ t.sw.seqno = s.sw.seqno
  /\ t.sw.timer <=> s.sw.timer
  /\ t.input = s.input

\* A host that sends nothing.
LEMMA SameRepeats ==
  ASSUME NEW s, NEW t, SameSender(s, t), t.wire = s.wire
  PROVE  Repeats(s, t)
  BY DEF Repeats, SameSender

\* The sending half is all Ready is about, but for the wire and the ackno.
LEMMA ReadyKept ==
  ASSUME NEW h \in Host, NEW s, NEW t, Ready(h, s), SameSender(s, t),
         t \in State, t.rw.max_size = s.rw.max_size, s.rw.ackno <= t.rw.ackno,
         t.wire \in Seq(SentBy(t))
  PROVE  Ready(h, t) /\ Covered(t) = Covered(s)
  <1>1. HostInv(h, s)
    BY DEF Ready
  <1>2. s.rw.ackno \in Nat /\ 1 <= s.rw.ackno /\ t.rw.ackno \in Nat
    BY <1>1 DEF HostInv, State, RecvWindow
  <1>3. 1 <= t.rw.ackno
    BY <1>2
  <1>4. ListInv(t)
    BY <1>1 DEF HostInv, ListInv, SameSender
  <1>5. HostInv(h, t)
    BY <1>1, <1>3, <1>4 DEF HostInv, SameSender
  <1>6. Covered(t) = Covered(s)
    BY DEF Covered, SameSender
  <1>7. QED
    BY <1>5, <1>6 DEF Ready, SameSender

\* An ACK or FIN-ACK leaves without entering the window.
LEMMA DirectSend ==
  ASSUME NEW h \in Host, NEW s, Ready(h, s), NEW flags \in {TH_ACK, FIN_ACK}
  PROVE  /\ Ready(h, SendDirectly(s, flags))
         /\ SameReceiver(s, SendDirectly(s, flags))
         /\ SameSender(s, SendDirectly(s, flags))
         /\ Covered(SendDirectly(s, flags)) = Covered(s)
         /\ SendDirectly(s, flags).teardown <=> s.teardown
         /\ Repeats(s, SendDirectly(s, flags))
  <1> DEFINE t == SendDirectly(s, flags)
             g == NewSegment(s, flags, <<>>)
             a == [g EXCEPT !.cksum = cksum(g)]
             w == Append(s.wire, conn_send(a))
  <1>1. HostInv(h, s) /\ s \in State
    BY DEF Ready, HostInv
  <1>2. /\ s.sw.added \in Nat /\ s.sw.seqno \in Nat /\ s.rw.ackno \in Nat
        /\ s.sw.max_size \in Nat /\ s.sw.size \in Nat
        /\ s.input \in Nat /\ s.sw.seqno = s.input + 1
    BY <1>1, ReadyTypes
  <1>3. s.sw.max_size - s.sw.size \in Nat
    BY <1>1, <1>2 DEF HostInv
  <1>4. /\ g \in Outgoing /\ g.data = <<>> /\ g.seqno = s.sw.seqno
        /\ g.ackno = s.rw.ackno
    BY <1>2, <1>3, SMT DEF NewSegment, Outgoing
  <1> HIDE DEF g
  <1>5. PieceOf(s, g)
    <2>1. Len(g.data) = 0
      BY <1>4
    <2>2. Bytes(g.seqno - 1, 0) = <<>>
      BY DEF Bytes
    <2>3. End(g) = s.sw.seqno
      BY <1>2, <1>4, <2>1 DEF End
    <2>4. 0 <= MAX_SEG_DATA_SIZE
      BY SizeAssumption
    <2>5. 1 <= g.seqno /\ End(g) <= s.sw.seqno
      BY <1>2, <1>4, <2>3
    <2>6. QED
      BY <1>4, <2>1, <2>2, <2>4, <2>5 DEF PieceOf
  <1>6. cksum(g) \in Nat
    BY <1>1, <1>4, <1>5, CksumType DEF HostInv
  <1>7. /\ a \in Outgoing /\ a.data = g.data /\ a.seqno = g.seqno
        /\ a.ackno = s.rw.ackno
    BY <1>4, <1>6 DEF Outgoing
  <1> HIDE DEF a
  <1>8. conn_send(a) \in SentBy(s)
    <2>1. PieceOf(s, a)
      BY <1>5, <1>7 DEF PieceOf, End
    <2>2. a.ackno <= s.rw.ackno
      BY <1>2, <1>7
    <2>3. QED
      BY <1>1, <1>7, <2>1, <2>2, ConnSendType
  <1>9. s.wire \in Seq(SentBy(s)) /\ SentBy(s) \subseteq Message
    BY <1>1 DEF HostInv, SentBy
  <1>10. w \in Seq(SentBy(s))
    BY <1>8, <1>9
  <1>11. w \in Seq(Message)
    BY <1>9, <1>10, SeqMono
  <1>12. t = [s EXCEPT !.wire = w]
    BY DEF SendDirectly, g, a
  <1> HIDE DEF w, t
  <1>13. t \in State /\ t.wire = w /\ t.sw = s.sw /\ t.rw = s.rw
         /\ t.input = s.input /\ (t.teardown <=> s.teardown)
    BY <1>1, <1>11, <1>12 DEF State
  <1>14. SameReceiver(s, t)
    BY <1>1, <1>12 DEF SameReceiver, State
  <1>15. SameSender(s, t)
    BY <1>13 DEF SameSender
  <1>16. SentBy(t) = SentBy(s)
    BY <1>13 DEF SentBy
  <1>17. Ready(h, t) /\ Covered(t) = Covered(s)
    BY <1>2, <1>10, <1>13, <1>15, <1>16, ReadyKept
  <1>18. Repeats(s, t)
    <2> DEFINE m == conn_send(a)
    <2>1. m \in Message /\ s.wire \in Seq(Message)
      BY <1>8, <1>9, SeqMono DEF SentBy
    <2>2. m.data = <<>>
      BY <1>4, <1>7 DEF conn_send
    <2>3. w = Append(s.wire, m)
      BY DEF w
    <2> HIDE DEF m
    <2>4. w = s.wire \o <<m>>
      BY <2>1, <2>3
    <2>5. PieceSet({m}) = {}
      BY <2>2, PieceOne
    <2>6. QED
      BY <1>13, <2>1, <2>4, <2>5, SentAgain
  <1>19. QED
    BY <1>13, <1>14, <1>15, <1>17, <1>18 DEF t

\* The segment ctcp_makeseg queues.
LEMMA NewSegmentType ==
  ASSUME NEW h \in Host, NEW s, HostInv(h, s),
         NEW flags \in {TH_ACK, TH_FIN}, NEW data \in Seq(Nat)
  PROVE  /\ NewSegment(s, flags, data) \in Segment
         /\ NewSegment(s, flags, data).data = data
         /\ NewSegment(s, flags, data).cksum = 0
         /\ NewSegment(s, flags, data).node = s.sw.added + 1
         /\ NewSegment(s, flags, data).seqno = s.sw.seqno
  <1>1. /\ s.sw.added \in Nat /\ s.sw.seqno \in Nat /\ s.rw.ackno \in Nat
        /\ s.sw.max_size \in Nat /\ s.sw.size \in Nat
    BY ReadyTypes
  <1>2. s.sw.max_size - s.sw.size \in Nat
    BY <1>1 DEF HostInv
  <1>3. QED
    BY <1>1, <1>2 DEF NewSegment, Segment

\* A FIN is queued and sent.
LEMMA FinSent ==
  ASSUME NEW h \in Host, NEW s, Ready(h, s)
  PROVE  /\ Ready(h, SEND_FIN(s))
         /\ SameReceiver(s, SEND_FIN(s))
         /\ SEND_FIN(s).sw.seqno = s.sw.seqno
         /\ SEND_FIN(s).input = s.input
         /\ Covered(s) \subseteq Covered(SEND_FIN(s))
         /\ Repeats(s, SEND_FIN(s))
  <1> DEFINE g == NewSegment(s, TH_FIN, <<>>)
             u == ll_add(s, g)
  <1>1. HostInv(h, s) /\ s \in State
    BY DEF Ready, HostInv
  <1>2. /\ s.sw.segments \in SUBSET Segment /\ s.sw.seqno \in Nat
        /\ s.input \in Nat /\ s.sw.size \in Nat /\ s.sw.max_size \in Nat
        /\ s.input <= InputLen[h] /\ s.sw.added \in Nat
        /\ s.sw.size <= s.sw.max_size
    BY <1>1, ReadyTypes DEF HostInv
  <1>3. /\ g \in Segment /\ g.data = <<>> /\ g.cksum = 0
        /\ g.node = s.sw.added + 1 /\ g.seqno = s.sw.seqno
    <2>1. s.sw.max_size - s.sw.size \in Nat
      BY <1>2
    <2>2. s.rw.ackno \in Nat
      BY <1>1, ReadyTypes
    <2>3. QED
      BY <1>2, <2>1, <2>2 DEF NewSegment, Segment
  <1> HIDE DEF g
  <1>4. g.node \in Nat /\ Len(g.data) = 0
    BY <1>2, <1>3
  <1>5. Queued(s, u, g)
    <2> DEFINE S == s.sw.segments \cup {g}
               sw == [s.sw EXCEPT !.segments = S, !.added = g.node]
    <2>1. s.sw \in SendWindow /\ S \in SUBSET Segment
      BY <1>1, <1>2, <1>3 DEF State
    <2>2. u = [s EXCEPT !.sw = sw]
      BY <1>1, <2>1 DEF ll_add, State
    <2> HIDE DEF S, u
    <2>3. /\ sw \in SendWindow /\ sw.segments = S /\ sw.added = g.node
          /\ sw.max_size = s.sw.max_size /\ sw.size = s.sw.size
          /\ sw.seqno = s.sw.seqno
      BY <1>4, <2>1 DEF SendWindow
    <2> HIDE DEF sw
    <2>4. u \in State /\ u.sw = sw /\ u.wire = s.wire /\ u.input = s.input
      BY <1>1, <2>2, <2>3 DEF State
    <2>5. SameReceiver(s, u)
      BY <1>1, <2>2 DEF State, SameReceiver
    <2>6. s.sw.size = s.sw.size + 0 /\ s.sw.seqno = s.sw.seqno + 0
          /\ s.input = s.input + 0
      BY <1>2
    <2>7. QED
      BY <1>4, <2>3, <2>4, <2>5, <2>6 DEF Queued, S
  <1> HIDE DEF u
  <1>6. g.data = Bytes(s.input, Len(g.data))
    BY <1>3, <1>4 DEF Bytes
  <1>7. /\ Len(g.data) <= MAX_SEG_DATA_SIZE
        /\ s.sw.size + Len(g.data) <= s.sw.max_size
        /\ s.input + Len(g.data) <= InputLen[h]
    BY <1>2, <1>4, SizeAssumption
  <1>8. LET t == ctcp_send(u) IN
        /\ Ready(h, t)
        /\ SameReceiver(s, t)
        /\ t.sw.seqno = u.sw.seqno /\ t.input = u.input
        /\ Covered(s) \subseteq Covered(t)
        /\ Repeats(s, t)
    BY <1>3, <1>5, <1>6, <1>7, QueueAndSend
  <1>9. u.sw.seqno = s.sw.seqno /\ u.input = s.input
    BY <1>2, <1>4, <1>5 DEF Queued
  <1>10. SEND_FIN(s) = ctcp_send(u)
    BY DEF SEND_FIN, u, g
  <1>11. QED
    BY <1>8, <1>9, <1>10

\* What conn_input returned is queued and sent.
LEMMA DataSent ==
  ASSUME NEW h \in Host, NEW s, Ready(h, s), NEW x \in State,
         NEW data \in Seq(Nat), x.sw = s.sw, SameReceiver(s, x),
         x.wire = s.wire, x.input = s.input + Len(data),
         data = Bytes(s.input, Len(data)), Len(data) <= MAX_SEG_DATA_SIZE,
         s.sw.size + Len(data) <= s.sw.max_size,
         s.input + Len(data) <= InputLen[h]
  PROVE  /\ Ready(h, SEND_DATA(x, data))
         /\ SameReceiver(s, SEND_DATA(x, data))
         /\ SEND_DATA(x, data).sw.seqno = s.sw.seqno + Len(data)
         /\ SEND_DATA(x, data).input = s.input + Len(data)
         /\ Covered(s) \subseteq Covered(SEND_DATA(x, data))
         /\ \A k \in 1..(s.input + Len(data)) :
              k <= s.input \/ k \in Covered(SEND_DATA(x, data))
         /\ Emits(s, SEND_DATA(x, data))
  <1> DEFINE g == NewSegment(x, TH_ACK, data)
             n == Len(data)
             v == ll_add(x, g)
             u == [v EXCEPT !.sw.size = @ + n, !.sw.seqno = @ + n]
  <1>1. HostInv(h, s) /\ s \in State /\ n \in Nat
    BY DEF Ready, HostInv
  <1>2. /\ s.sw.segments \in SUBSET Segment /\ s.sw.seqno \in Nat
        /\ s.input \in Nat /\ s.sw.size \in Nat /\ s.sw.added \in Nat
    BY <1>1, ReadyTypes
  <1>3. g = NewSegment(s, TH_ACK, data)
    BY DEF NewSegment, SameReceiver
  <1>4. /\ g \in Segment /\ g.data = data /\ g.cksum = 0
        /\ g.node = s.sw.added + 1 /\ g.seqno = s.sw.seqno
    BY <1>1, <1>3, NewSegmentType
  <1> HIDE DEF g, n
  <1>5. g.node \in Nat
    BY <1>2, <1>4
  <1>6. Queued(s, u, g)
    <2> DEFINE S == s.sw.segments \cup {g}
               sw == [s.sw EXCEPT !.segments = S, !.added = g.node,
                                  !.size = @ + n, !.seqno = @ + n]
    <2>1. s.sw \in SendWindow /\ S \in SUBSET Segment
      BY <1>1, <1>2, <1>4 DEF State
    <2>2. u = [x EXCEPT !.sw = sw]
      BY <2>1 DEF ll_add, State, SendWindow
    <2> HIDE DEF S, u
    <2>3. /\ sw \in SendWindow /\ sw.segments = S /\ sw.added = g.node
          /\ sw.max_size = s.sw.max_size /\ sw.size = s.sw.size + n
          /\ sw.seqno = s.sw.seqno + n
      <3>1. s.sw.size + n \in Nat /\ s.sw.seqno + n \in Nat
        BY <1>1, <1>2, NatSum, Zenon
      <3>2. /\ sw.segments = S /\ sw.added = g.node
            /\ sw.max_size = s.sw.max_size /\ sw.size = s.sw.size + n
            /\ sw.seqno = s.sw.seqno + n
        <4> DEFINE a == s.sw.size + n
                   b == s.sw.seqno + n
                   q == s.sw
        <4>1. sw = [q EXCEPT !.segments = S, !.added = g.node,
                             !.size = a, !.seqno = b]
          OBVIOUS
        <4>2. q \in SendWindow
          BY <2>1
        <4> HIDE DEF sw, a, b, q
        <4>3. /\ sw.segments = S /\ sw.added = g.node
              /\ sw.max_size = q.max_size /\ sw.size = a /\ sw.seqno = b
          BY <4>1, <4>2 DEF SendWindow
        <4>4. QED
          BY <4>3 DEF a, b, q
      <3>3. sw \in SendWindow
        BY <1>5, <2>1, <3>1 DEF SendWindow
      <3>4. QED
        BY <3>2, <3>3
    <2> HIDE DEF sw
    <2>4. u \in State /\ u.sw = sw /\ u.wire = s.wire /\ u.input = s.input + n
      BY <2>2, <2>3 DEF State, n
    <2>5. SameReceiver(x, u)
      BY <2>2 DEF State, SameReceiver
    <2>6. SameReceiver(s, u)
      BY <2>5 DEF SameReceiver
    <2>7. Len(g.data) = n
      BY <1>4 DEF n
    <2>8. QED
      BY <2>3, <2>4, <2>6, <2>7 DEF Queued, S
  <1> HIDE DEF u, v
  <1>7. /\ g.data = Bytes(s.input, Len(g.data))
        /\ Len(g.data) <= MAX_SEG_DATA_SIZE
        /\ s.sw.size + Len(g.data) <= s.sw.max_size
        /\ s.input + Len(g.data) <= InputLen[h]
    BY <1>4
  <1>8. LET t == ctcp_send(u) IN
        /\ Ready(h, t)
        /\ SameReceiver(s, t)
        /\ t.sw.seqno = u.sw.seqno /\ t.input = u.input
        /\ Covered(s) \subseteq Covered(t)
        /\ \A k \in 1..t.input : k <= s.input \/ k \in Covered(t)
        /\ Emits(s, t)
    BY <1>4, <1>6, <1>7, QueueAndSend DEF Emits
  <1>9. u.sw.seqno = s.sw.seqno + Len(data) /\ u.input = s.input + Len(data)
    BY <1>4, <1>6 DEF Queued
  <1>10. SEND_DATA(x, data) = ctcp_send(u)
    BY DEF SEND_DATA, u, v, g, n
  <1>11. QED
    BY <1>8, <1>9, <1>10

\* The front of the list is stamped anew and sent again.
LEMMA Retransmitted ==
  ASSUME NEW h \in Host, NEW s, Ready(h, s), s.sw.segments # {},
         s.sw.retrans_counter < MAX_TRIES
  PROVE  LET t == ctcp_retrans([s EXCEPT !.sw.retrans_counter = @ + 1]) IN
         /\ Ready(h, t)
         /\ SameReceiver(s, t)
         /\ t.sw.seqno = s.sw.seqno /\ t.input = s.input
         /\ Covered(s) \subseteq Covered(t)
         /\ Repeats(s, t)
  <1> DEFINE x == [s EXCEPT !.sw.retrans_counter = @ + 1]
             t == ctcp_retrans(x)
             S == s.sw.segments
             g == ll_front(S)
             r == Stamped(s, g)
             R == (S \ {g}) \cup {r}
             c == s.sw.retrans_counter + 1
             w == s.wire \o <<conn_send(r)>>
  <1>1. HostInv(h, s) /\ s \in State /\ ListInv(s)
    BY DEF Ready, HostInv
  <1>2. S \in SUBSET Segment /\ IsFiniteSet(S)
    BY <1>1, ReadyTypes
  <1>3. g \in S
    <2>1. \A f \in S : f.node \in Nat
      BY <1>2 DEF Segment
    <2> HIDE DEF S
    <2>2. S # {}
      BY DEF S
    <2>3. QED
      BY <2>1, <2>2, FrontExists
  <1> HIDE DEF g
  <1>4. PieceOf(s, g) /\ g \in Segment
    BY <1>1, <1>2, <1>3 DEF ListInv, PieceOf
  <1>5. /\ r \in Segment /\ r.cksum # 0 /\ r.node = g.node
        /\ r.seqno = g.seqno /\ r.data = g.data /\ conn_send(r) \in SentBy(s)
    BY <1>1, <1>4, StampedType DEF HostInv
  <1>6. c \in 0..MAX_TRIES
    <2>1. s.sw.retrans_counter \in 0..MAX_TRIES
      BY <1>1 DEF State, SendWindow
    <2>2. QED
      BY <2>1 DEF MAX_TRIES
  <1>7. w \in Seq(SentBy(s)) /\ w \in Seq(Message)
    <2>1. s.wire \in Seq(SentBy(s)) /\ SentBy(s) \subseteq Message
      BY <1>1 DEF HostInv, SentBy
    <2>2. w \in Seq(SentBy(s))
      BY <1>5, <2>1
    <2>3. QED
      BY <2>1, <2>2, SeqMono
  <1>8. t = SentState(s, R, c, w)
    <2>1. /\ x.sw.segments = S /\ x.rw = s.rw /\ x.wire = s.wire
      BY <1>1 DEF State, SendWindow
    <2>2. ll_front(x.sw.segments) = g
      BY <2>1 DEF g
    <2>3. Stamped(x, g) = r
      BY <2>1 DEF Stamped
    <2>4. t = [x EXCEPT !.sw.segments = (@ \ {g}) \cup {r}, !.sw.timer = TRUE,
                        !.wire = Append(@, conn_send(r))]
      <3> HIDE DEF x, r
      <3>1. QED
        BY <2>1, <2>2, <2>3 DEF ctcp_retrans, Stamped
    <2>5. Append(s.wire, conn_send(r)) = w
      BY <1>1 DEF State
    <2> HIDE DEF t, r
    <2> DEFINE sw == [s.sw EXCEPT !.segments = R, !.timer = TRUE,
                                  !.retrans_counter = c]
    <2>6. s.sw \in SendWindow
      BY <1>1 DEF State
    <2>7. t = [x EXCEPT !.sw = [x.sw EXCEPT !.segments = R, !.timer = TRUE],
                        !.wire = w]
      <3>1. R = (S \ {g}) \cup {r}
        OBVIOUS
      <3> HIDE DEF R, S, g, x, w
      <3>2. QED
        BY <2>1, <2>4, <2>5, <3>1
    <2>8. [x.sw EXCEPT !.segments = R, !.timer = TRUE] = sw
      <3>1. x.sw = [s.sw EXCEPT !.retrans_counter = c]
        BY <1>1 DEF State
      <3> HIDE DEF R, c, x
      <3>2. QED
        BY <2>6, <3>1 DEF SendWindow
    <2> HIDE DEF R, c, w, sw
    <2>9. t = [s EXCEPT !.sw = sw, !.wire = w]
      BY <1>1, <2>7, <2>8 DEF State
    <2>10. SentState(s, R, c, w) = [s EXCEPT !.sw = sw, !.wire = w]
      BY <1>1 DEF SentState, State, sw
    <2>11. QED
      BY <2>9, <2>10
  <1> HIDE DEF t, w, c, r
  <1>9. R \in SUBSET Segment
    BY <1>2, <1>5
  <1> HIDE DEF R
  <1>10. /\ t \in State
         /\ t.sw.segments = R /\ t.sw.added = s.sw.added
         /\ t.sw.max_size = s.sw.max_size /\ t.sw.size = s.sw.size
         /\ t.sw.seqno = s.sw.seqno /\ t.sw.timer
         /\ t.input = s.input /\ t.wire = w /\ SameReceiver(s, t)
    BY <1>1, <1>6, <1>7, <1>8, <1>9, SentFields
  <1>11. ListInv(t)
    <2>1. IsFiniteSet(R)
      <3>1. IsFiniteSet(S \ {g})
        BY <1>2, FS_RemoveElement
      <3>2. IsFiniteSet((S \ {g}) \cup {r})
        BY <3>1, FS_AddElement
      <3>3. QED
        BY <3>2 DEF R
    <2>2. \A e, f \in R : e.node = f.node => e = f
      BY <1>1, <1>3, <1>5 DEF ListInv, R
    <2>3. \A f \in R :
            /\ f.node <= s.sw.added /\ 1 <= f.seqno
            /\ End(f) <= s.sw.seqno
            /\ f.data = Bytes(f.seqno - 1, Len(f.data))
            /\ Len(f.data) <= MAX_SEG_DATA_SIZE
      BY <1>1, <1>3, <1>5 DEF ListInv, R, End
    <2>4. QED
      BY <1>10, <2>1, <2>2, <2>3 DEF ListInv
  <1>12. t.sw.size = DataLen(t.sw.segments)
    <2>1. DataLen(R) = DataLen(S)
      BY <1>3, <1>5, DataLenReplace DEF R
    <2>2. QED
      BY <1>1, <1>10, <2>1 DEF HostInv
  <1>13. t.wire \in Seq(SentBy(t))
    <2>1. SentBy(t) = SentBy(s)
      BY <1>10 DEF SentBy, SameReceiver
    <2>2. QED
      BY <1>7, <1>10, <2>1
  <1>14. HostInv(h, t)
    BY <1>1, <1>10, <1>11, <1>12, <1>13 DEF HostInv, SameReceiver
  <1>15. Ready(h, t)
    <2>1. \A f \in R : f.cksum # 0
      BY <1>5 DEF Ready, R
    <2>2. R # {}
      BY DEF R
    <2>3. QED
      BY <1>10, <1>14, <2>1, <2>2 DEF Ready
  <1>16. Covered(s) \subseteq Covered(t)
    BY <1>3, <1>5, <1>10 DEF Covered, R, End
  <1>17. Repeats(s, t)
    <2> DEFINE m == conn_send(r)
    <2>1. m \in Message /\ s.wire \in Seq(Message)
      BY <1>1, <1>5 DEF SentBy, State
    <2>2. m.seqno = g.seqno /\ m.data = g.data
      BY <1>5 DEF conn_send
    <2>3. t.wire = s.wire \o <<m>>
      BY <1>10 DEF w
    <2> HIDE DEF m
    <2>4. PieceSet({m}) = PieceSet({g}) /\ PieceSet({r}) = PieceSet({g})
      BY <1>5, <2>2, PieceSame
    <2>5. PieceSet({g}) \subseteq PieceSet(S)
      BY <1>3, PieceMono
    <2>6. PieceSet(R) \subseteq PieceSet(S)
      <3>1. PieceSet(R) = PieceSet(S \ {g}) \cup PieceSet({r})
        BY PieceUnion DEF R
      <3>2. PieceSet(S \ {g}) \subseteq PieceSet(S)
        BY PieceMono
      <3>3. QED
        BY <2>4, <2>5, <3>1, <3>2
    <2>7. QED
      BY <1>10, <2>1, <2>3, <2>4, <2>5, <2>6, SentAgain
  <1>18. QED
    BY <1>10, <1>15, <1>16, <1>17 DEF t

\* An acknowledgement takes out of the window only what it confirms.
LEMMA Acknowledged ==
  ASSUME NEW h \in Host, NEW s, Ready(h, s), NEW m \in Message
  PROVE  LET t == Acknowledge(s, m) IN
         /\ Ready(h, t)
         /\ SameReceiver(s, t)
         /\ t.sw.seqno = s.sw.seqno /\ t.input = s.input
         /\ \A k \in Covered(s) : k < m.ackno \/ k \in Covered(t)
         /\ Repeats(s, t)
  <1> DEFINE t == Acknowledge(s, m)
             S == s.sw.segments
             acked == {g \in S : End(g) <= m.ackno}
             R == S \ acked
             n == s.sw.size - DataLen(acked)
             x == [s EXCEPT !.sw.segments = @ \ acked,
                            !.sw.size = @ - DataLen(acked),
                            !.sw.timer = FALSE,
                            !.sw.retrans_counter = 0]
  <1>1. HostInv(h, s) /\ s \in State /\ ListInv(s)
    BY DEF Ready, HostInv
  <1>2. /\ S \in SUBSET Segment /\ IsFiniteSet(S) /\ s.sw.size \in Nat
        /\ s.sw.max_size \in Nat
    BY <1>1, ReadyTypes
  <1>3. CASE t = s
    <2>1. SameReceiver(s, s) /\ Repeats(s, s)
      BY DEF SameReceiver, Repeats
    <2>2. QED
      BY <1>3, <2>1
  <1>4. CASE t = ctcp_send(x)
    <2>1. /\ DataLen(R) = DataLen(S) - DataLen(acked)
          /\ DataLen(acked) <= DataLen(S)
          /\ DataLen(acked) \in Nat
      <3>1. \A g \in S : g.data \in Seq(Nat)
        BY <1>2 DEF Segment
      <3>2. acked \in SUBSET S /\ IsFiniteSet(acked)
        BY <1>2, FS_Subset
      <3>3. DataLen(acked) \in Nat
        BY <3>1, <3>2, DataLenType
      <3>4. \A f, g \in S : f.node = g.node => f = g
        BY <1>1 DEF ListInv
      <3> HIDE DEF S, acked
      <3>5. QED
        BY <1>2, <3>1, <3>2, <3>3, <3>4, DataLenRemove
    <2>2. n = DataLen(R) /\ n \in Nat /\ n <= s.sw.max_size
      <3>1. s.sw.size = DataLen(S) /\ s.sw.size <= s.sw.max_size
        BY <1>1 DEF HostInv
      <3> HIDE DEF S, acked, R
      <3>2. QED
        BY <1>2, <2>1, <3>1
    <2>3. R \in SUBSET Segment /\ IsFiniteSet(R)
      BY <1>2, FS_Subset
    <2>4. \A g \in R : g.cksum # 0
      BY DEF Ready
    <2>5. /\ x \in State /\ x.sw.segments = R /\ x.sw.added = s.sw.added
          /\ x.sw.max_size = s.sw.max_size /\ x.sw.size = n
          /\ x.sw.seqno = s.sw.seqno /\ ~ x.sw.timer
          /\ x.input = s.input /\ x.wire = s.wire /\ SameReceiver(s, x)
      <3> DEFINE sw == [s.sw EXCEPT !.segments = R, !.size = n,
                                    !.timer = FALSE, !.retrans_counter = 0]
      <3>1. s.sw \in SendWindow
        BY <1>1 DEF State
      <3>2. x = [s EXCEPT !.sw = sw]
        BY <1>1 DEF State
      <3> HIDE DEF x, R, n
      <3>3. /\ sw.segments = R /\ sw.added = s.sw.added
            /\ sw.max_size = s.sw.max_size /\ sw.size = n
            /\ sw.seqno = s.sw.seqno /\ ~ sw.timer
        BY <3>1 DEF SendWindow
      <3>4. sw \in SendWindow
        <4>1. 0 \in 0..MAX_TRIES
          BY DEF MAX_TRIES
        <4>2. n \in Nat /\ R \in SUBSET Segment
          BY <2>2, <2>3
        <4>3. QED
          BY <3>1, <4>1, <4>2 DEF SendWindow
      <3> HIDE DEF sw
      <3>5. x \in State /\ x.sw = sw /\ x.wire = s.wire /\ x.input = s.input
        BY <1>1, <3>2, <3>4 DEF State
      <3>6. SameReceiver(s, x)
        BY <1>1, <3>2 DEF State, SameReceiver
      <3>7. QED
        BY <3>3, <3>5, <3>6
    <2> HIDE DEF x, t, n
    <2>6. /\ t \in State /\ t.sw.segments = R /\ t.sw.added = s.sw.added
          /\ t.sw.max_size = s.sw.max_size /\ t.sw.size = n
          /\ t.sw.seqno = s.sw.seqno /\ (t.sw.timer <=> R # {})
          /\ t.input = s.input /\ t.wire = s.wire /\ SameReceiver(s, t)
      <3>1. CASE R = {}
        <4>1. t = x
          BY <1>4, <2>5, <3>1 DEF ctcp_send
        <4> HIDE DEF R
        <4>2. QED
          BY <2>5, <3>1, <4>1
      <3>2. CASE R # {}
        <4> HIDE DEF R
        <4>1. t = SentState(x, R, 0, s.wire)
          BY <1>4, <2>4, <2>5, <3>2, SendNothing
        <4>2. s.wire \in Seq(Message) /\ 0 \in 0..MAX_TRIES
          BY <1>1 DEF State, MAX_TRIES
        <4>3. /\ t \in State
              /\ t.sw.segments = R /\ t.sw.added = x.sw.added
              /\ t.sw.max_size = x.sw.max_size /\ t.sw.size = x.sw.size
              /\ t.sw.seqno = x.sw.seqno /\ t.sw.timer
              /\ t.input = x.input /\ t.wire = s.wire /\ SameReceiver(x, t)
          BY <2>3, <2>5, <4>1, <4>2, SentFields
        <4>4. SameReceiver(s, t)
          BY <2>5, <4>3 DEF SameReceiver
        <4>5. QED
          BY <2>5, <3>2, <4>3, <4>4
      <3>3. QED
        BY <3>1, <3>2
    <2>7. ListInv(t)
      BY <1>1, <2>3, <2>6 DEF ListInv
    <2>8. t.wire \in Seq(SentBy(t))
      <3>1. SentBy(t) = SentBy(s)
        BY <2>6 DEF SentBy, SameReceiver
      <3>2. QED
        BY <1>1, <2>6, <3>1 DEF HostInv
    <2>9. HostInv(h, t)
      BY <1>1, <2>2, <2>6, <2>7, <2>8 DEF HostInv, SameReceiver
    <2>10. Ready(h, t)
      BY <2>4, <2>6, <2>9 DEF Ready
    <2>11. ASSUME NEW k \in Covered(s) PROVE k < m.ackno \/ k \in Covered(t)
      <3>1. PICK g \in S : g.seqno <= k /\ k < End(g) /\ k \in 1..s.input
        BY DEF Covered
      <3>2. CASE g \in acked
        <4>1. End(g) <= m.ackno
          BY <3>2
        <4>2. End(g) \in Nat /\ m.ackno \in Nat /\ k \in Int
          <5>1. g \in Segment
            BY <1>2
          <5>2. End(g) \in Nat
            BY <5>1 DEF Segment, End
          <5>3. QED
            BY <3>1, <5>2 DEF Message
        <4>3. QED
          BY <3>1, <4>1, <4>2
      <3>3. CASE g \in R
        BY <2>6, <3>1, <3>3 DEF Covered
      <3>4. QED
        BY <3>2, <3>3
    <2>12. Repeats(s, t)
      <3>1. PieceSet(R) \subseteq PieceSet(S)
        BY PieceMono
      <3>2. QED
        BY <2>6, <3>1 DEF Repeats
    <2>13. QED
      BY <2>6, <2>10, <2>11, <2>12 DEF t
  <1>5. QED
    <2>1. t = s \/ t = ctcp_send(x)
      BY DEF Acknowledge
    <2>2. QED
      BY <1>3, <1>4, <2>1

-----------------------------------------------------------------------------
(* Output.                                                                 *)

\* Consecutive pieces of the stream make one piece.
LEMMA BytesConcat ==
  ASSUME NEW p \in Nat, NEW n \in Nat
  PROVE  Bytes(0, p) \o Bytes(p, n) = Bytes(0, p + n)
  BY DEF Bytes

\* A part of a sequence of numbers is one.
LEMMA SubSeqType ==
  ASSUME NEW q \in Seq(Nat), NEW i \in Nat, i >= 1,
         NEW j \in Nat, j <= Len(q)
  PROVE  SubSeq(q, i, j) \in Seq(Nat)
  OBVIOUS

\* Everything but the output half of the state.
SameButOutput(s, t) ==
  /\ t.sw = s.sw
  /\ t.rw = s.rw
  /\ t.status = s.status
  /\ t.input = s.input
  /\ t.wire = s.wire

\* The state conn_output returns when it writes n bytes and queues the rest.
Written(s, data, n) ==
  LET rest == SubSeq(data, n + 1, Len(data))
  IN  [s EXCEPT !.output = @ \o SubSeq(data, 1, n),
                !.out_queue = @ \o rest,
                !.chunk_ends = IF rest = <<>> THEN @
                               ELSE @ \cup {rest[Len(rest)]},
                !.pollout = @ \/ rest # <<>>]

\* The four ways through conn_output.
LEMMA ConnOutputCases ==
  ASSUME NEW s, NEW data, NEW w
  PROVE  \/ s.wrote_eof /\ conn_output(s, data, w) = s
         \/ /\ ~ s.wrote_eof /\ data = <<>>
            /\ conn_output(s, data, w) = [s EXCEPT !.wrote_eof = TRUE]
         \/ s.wrote_err /\ conn_output(s, data, w) = s
         \/ /\ s.out_queue = <<>> /\ w < 0
            /\ conn_output(s, data, w) = [s EXCEPT !.wrote_err = TRUE]
         \/ /\ s.out_queue # <<>>
            /\ conn_output(s, data, w) = Written(s, data, 0)
         \/ /\ s.out_queue = <<>> /\ ~ (w < 0)
            /\ conn_output(s, data, w) = Written(s, data, Min({w, Len(data)}))
  <1>1. CASE s.wrote_eof
    BY <1>1 DEF conn_output
  <1>2. CASE ~ s.wrote_eof /\ data = <<>>
    BY <1>2 DEF conn_output
  <1>3. CASE ~ s.wrote_eof /\ data # <<>> /\ s.wrote_err
    BY <1>3 DEF conn_output
  <1>4. CASE /\ ~ s.wrote_eof /\ data # <<>> /\ ~ s.wrote_err
             /\ s.out_queue = <<>> /\ w < 0
    BY <1>4 DEF conn_output
  <1>5. CASE /\ ~ s.wrote_eof /\ data # <<>> /\ ~ s.wrote_err
             /\ s.out_queue # <<>>
    BY <1>5 DEF conn_output, Written
  <1>6. CASE /\ ~ s.wrote_eof /\ data # <<>> /\ ~ s.wrote_err
             /\ s.out_queue = <<>> /\ ~ (w < 0)
    BY <1>6 DEF conn_output, Written
  <1>7. QED
    BY <1>1, <1>2, <1>3, <1>4, <1>5, <1>6

\* Writing changes nothing but the output.
LEMMA WrittenType ==
  ASSUME NEW s \in State, NEW data \in Seq(Nat), NEW n \in 0..Len(data)
  PROVE  /\ Written(s, data, n) \in State
         /\ SameButOutput(s, Written(s, data, n))
  <1> DEFINE rest == SubSeq(data, n + 1, Len(data))
             out == s.output \o SubSeq(data, 1, n)
             queue == s.out_queue \o rest
             ends == IF rest = <<>> THEN s.chunk_ends
                     ELSE s.chunk_ends \cup {rest[Len(rest)]}
             poll == s.pollout \/ rest # <<>>
             t == Written(s, data, n)
  <1>1. s.output \in Seq(Nat) /\ s.out_queue \in Seq(Nat)
        /\ s.chunk_ends \in SUBSET Nat
    BY DEF State
  <1>2. rest \in Seq(Nat) /\ SubSeq(data, 1, n) \in Seq(Nat)
    BY SubSeqType
  <1>3. out \in Seq(Nat) /\ queue \in Seq(Nat)
    BY <1>1, <1>2
  <1>4. ends \in SUBSET Nat
    <2>1. rest # <<>> => rest[Len(rest)] \in Nat
      <3> HIDE DEF rest
      <3>1. QED
        BY <1>2
    <2> HIDE DEF rest
    <2>2. QED
      BY <1>1, <2>1
  <1>5. poll \in BOOLEAN
    OBVIOUS
  <1>6. t = [s EXCEPT !.output = out, !.out_queue = queue,
                      !.chunk_ends = ends, !.pollout = poll]
    BY DEF Written
  <1> HIDE DEF out, queue, ends, poll, t
  <1>7. t \in State
    BY <1>3, <1>4, <1>5, <1>6 DEF State
  <1>8. SameButOutput(s, t)
    BY <1>6 DEF State, SameButOutput
  <1>9. QED
    BY <1>7, <1>8 DEF t

\* conn_output changes nothing but the output.
LEMMA ConnOutputType ==
  ASSUME NEW s \in State, NEW data \in Seq(Nat), NEW w \in Writes
  PROVE  /\ conn_output(s, data, w) \in State
         /\ SameButOutput(s, conn_output(s, data, w))
  <1> DEFINE t == conn_output(s, data, w)
  <1>1. w \in Int /\ Len(data) \in Nat
    BY EnvironmentAssumption, SizeAssumption
  <1>2. CASE t = s
    BY <1>2 DEF SameButOutput
  <1>3. CASE t = [s EXCEPT !.wrote_eof = TRUE]
    <2> HIDE DEF t
    <2>1. t \in State
      BY <1>3 DEF State
    <2>2. SameButOutput(s, t)
      BY <1>3 DEF SameButOutput, State
    <2>3. QED
      BY <2>1, <2>2 DEF t
  <1>4. CASE t = [s EXCEPT !.wrote_err = TRUE]
    <2> HIDE DEF t
    <2>1. t \in State
      BY <1>4 DEF State
    <2>2. SameButOutput(s, t)
      BY <1>4 DEF SameButOutput, State
    <2>3. QED
      BY <2>1, <2>2 DEF t
  <1>5. CASE t = Written(s, data, 0)
    BY <1>1, <1>5, WrittenType
  <1>6. CASE ~ (w < 0) /\ t = Written(s, data, Min({w, Len(data)}))
    <2>1. w \in Nat
      BY <1>1, <1>6
    <2>2. Min({w, Len(data)}) \in 0..Len(data)
      BY <1>1, <2>1, MinOfTwo
    <2>3. QED
      BY <1>6, <2>2, WrittenType
  <1>7. QED
    BY <1>2, <1>3, <1>4, <1>5, <1>6, ConnOutputCases

\* While stdout does not block, it takes all it is given.
LEMMA ConnOutputAll ==
  ASSUME NEW s \in State, NEW data \in Seq(Nat), NEW w \in Writes,
         ~ StdoutBlocks, s.out_queue = <<>>, ~ s.wrote_eof, ~ s.wrote_err,
         data # <<>>, Len(data) <= MAX_SEG_DATA_SIZE
  PROVE  /\ conn_output(s, data, w).output = s.output \o data
         /\ conn_output(s, data, w).out_queue = <<>>
         /\ ~ conn_output(s, data, w).wrote_eof
         /\ ~ conn_output(s, data, w).wrote_err
  <1> DEFINE n == Len(data)
             rest == SubSeq(data, n + 1, n)
             t == Written(s, data, n)
  <1>1. w = MAX_SEG_DATA_SIZE /\ w \in Nat /\ n \in Nat
    BY SizeAssumption DEF StdoutBlocks
  <1>2. Min({w, n}) = n
    BY <1>1, MinOfTwo
  <1>3. ~ (w < 0)
    BY <1>1
  <1>4. conn_output(s, data, w) = t
    BY <1>2, <1>3, ConnOutputCases
  <1>5. SubSeq(data, 1, n) = data /\ rest = <<>>
    OBVIOUS
  <1>6. s.out_queue \o rest = <<>>
    BY <1>5
  <1>7. /\ t.output = s.output \o SubSeq(data, 1, n)
        /\ t.out_queue = s.out_queue \o rest
        /\ t.wrote_eof <=> s.wrote_eof
        /\ t.wrote_err <=> s.wrote_err
    BY DEF Written, State
  <1> HIDE DEF t, rest, n
  <1>8. QED
    BY <1>4, <1>5, <1>6, <1>7

\* What the host has handed to stdout so far, written or waiting.
Out(s) == s.output \o s.out_queue

\* Out depends on nothing else.
LEMMA OutSame ==
  ASSUME NEW s, NEW t, t.output = s.output, t.out_queue = s.out_queue
  PROVE  Out(t) = Out(s)
  BY DEF Out

\* What is written and what is queued of a piece of data come to the whole of
\* it, behind all that was there before.
LEMMA WrittenOut ==
  ASSUME NEW s \in State, NEW data \in Seq(Nat), NEW n \in 0..Len(data),
         n = 0 \/ s.out_queue = <<>>
  PROVE  Out(Written(s, data, n)) = Out(s) \o data
  <1> DEFINE a == s.output
             b == s.out_queue
             head == SubSeq(data, 1, n)
             rest == SubSeq(data, n + 1, Len(data))
             t == Written(s, data, n)
  <1>1. a \in Seq(Nat) /\ b \in Seq(Nat)
    BY DEF State
  <1>2. t.output = a \o head /\ t.out_queue = b \o rest
    BY DEF Written, State
  <1>3. Out(t) = (a \o head) \o (b \o rest) /\ Out(s) = a \o b
    BY <1>2 DEF Out
  <1> HIDE DEF t, a, b
  <1>4. CASE n = 0
    <2>1. head = <<>> /\ rest = data
      BY <1>4
    <2>2. a \o head = a
      BY <1>1, <2>1
    <2>3. a \o (b \o data) = (a \o b) \o data
      <3>1. SameStream(a \o b, data, a, b \o data)
        BY <1>1, StreamAssoc
      <3>2. QED
        BY <3>1 DEF SameStream
    <2>4. QED
      BY <1>3, <2>1, <2>2, <2>3 DEF t
  <1>5. CASE n # 0 /\ b = <<>>
    <2> DEFINE c == a \o head
    <2>1. BorderMoved(a, data, n, c, rest)
      BY DEF BorderMoved
    <2> HIDE DEF c, rest
    <2>2. c \o rest = a \o data /\ rest \in Seq(Nat)
      <3>1. SameStream(c, rest, a, data) /\ rest \in Seq(Nat)
        BY <1>1, <2>1, BorderSame
      <3>2. QED
        BY <3>1 DEF SameStream
    <2>3. b \o rest = rest /\ a \o b = a
      BY <1>1, <1>5, <2>2
    <2>4. QED
      BY <1>3, <2>2, <2>3 DEF c, t
  <1>6. QED
    BY <1>4, <1>5 DEF b

\* conn_output takes all of the data, to write or to queue, or none.
LEMMA ConnOutputOut ==
  ASSUME NEW s \in State, NEW data \in Seq(Nat), NEW w \in Writes
  PROVE  \/ Out(conn_output(s, data, w)) = Out(s)
         \/ Out(conn_output(s, data, w)) = Out(s) \o data
  <1> DEFINE t == conn_output(s, data, w)
  <1>1. w \in Int /\ Len(data) \in Nat
    BY EnvironmentAssumption, SizeAssumption
  <1>2. CASE t = s
    BY <1>2
  <1>3. CASE \/ t = [s EXCEPT !.wrote_eof = TRUE]
             \/ t = [s EXCEPT !.wrote_err = TRUE]
    <2> HIDE DEF t
    <2>1. t.output = s.output /\ t.out_queue = s.out_queue
      BY <1>3 DEF State
    <2>2. QED
      BY <2>1, OutSame DEF t
  <1>4. CASE t = Written(s, data, 0)
    BY <1>1, <1>4, WrittenOut
  <1>5. CASE /\ ~ (w < 0) /\ s.out_queue = <<>>
             /\ t = Written(s, data, Min({w, Len(data)}))
    <2>1. w \in Nat
      BY <1>1, <1>5
    <2>2. Min({w, Len(data)}) \in 0..Len(data)
      BY <1>1, <2>1, MinOfTwo
    <2>3. QED
      BY <1>5, <2>2, WrittenOut
  <1>6. QED
    BY <1>2, <1>3, <1>4, <1>5, ConnOutputCases

\* conn_bufspace is a number, all of the buffer if nothing is queued.
LEMMA BufspaceType ==
  ASSUME NEW s \in State
  PROVE  /\ conn_bufspace(s) \in Nat
         /\ s.out_queue = <<>> => conn_bufspace(s) = MAX_BUF_SPACE
  <1>1. Len(s.out_queue) \in Nat /\ MAX_BUF_SPACE \in Nat
    BY SizeAssumption DEF State
  <1>2. s.out_queue = <<>> => Len(s.out_queue) = 0
    OBVIOUS
  <1>3. QED
    BY <1>1, <1>2 DEF conn_bufspace

\* ctcp_output takes the one segment out of the receive window.
LEMMA OutputOne ==
  ASSUME NEW h \in Host, NEW a, Ready(h, a), NEW m \in Message, NEW w \in Writes,
         NEW p \in Nat, a.rw.segments = <<m>>, a.rw.size = Len(m.data),
         m.data # <<>>, Len(m.data) <= MAX_SEG_DATA_SIZE,
         m.seqno < a.rw.ackno, m.data = Bytes(p, Len(m.data)),
         a.rw.ackno - 1 = p + Len(m.data),
         ~ StdoutBlocks => /\ a.out_queue = <<>> /\ ~ a.wrote_eof
                           /\ ~ a.wrote_err /\ a.output = Bytes(0, p)
  PROVE  /\ Ready(h, ctcp_output(a, w))
         /\ OutputInv(ctcp_output(a, w))
         /\ SameSender(a, ctcp_output(a, w))
         /\ Covered(ctcp_output(a, w)) = Covered(a)
         /\ ctcp_output(a, w).rw.ackno = a.rw.ackno
         /\ ctcp_output(a, w).status = a.status
         /\ Repeats(a, ctcp_output(a, w))
         /\ \/ Out(ctcp_output(a, w)) = Out(a)
            \/ \E k \in 0..Len(m.data) :
                 Out(ctcp_output(a, w)) = Out(a) \o Bytes(p, k)
  <1> DEFINE l == Len(m.data)
             b == conn_bufspace(a)
             n == Min({b, l})
             d == SubSeq(m.data, 1, n)
             x == conn_output(a, d, w)
             t == ctcp_output(a, w)
             rw == [a.rw EXCEPT !.size = 0, !.segments = <<>>]
  <1>1. HostInv(h, a) /\ a \in State
    BY DEF Ready, HostInv
  <1>2. a.rw.ackno \in Nat /\ m.seqno \in Nat /\ a.rw \in RecvWindow
        /\ l \in Nat /\ m.data \in Seq(Nat)
    BY <1>1 DEF State, RecvWindow, Message
  <1>3. b \in Nat
    BY <1>1, BufspaceType
  <1>4. n \in Nat /\ n <= l /\ (l <= b => n = l)
    <2> HIDE DEF l, b
    <2>1. n \in {b, l} /\ n <= b /\ n <= l
      BY <1>2, <1>3, MinOfTwo
    <2> HIDE DEF n
    <2>2. QED
      BY <1>2, <1>3, <2>1
  <1>5. d \in Seq(Nat)
    <2> HIDE DEF n
    <2>1. 1 \in Nat /\ 1 >= 1
      OBVIOUS
    <2>2. QED
      BY <1>2, <1>4, <2>1, SubSeqType
  <1>6. x \in State /\ SameButOutput(a, x)
    <2> HIDE DEF d
    <2>1. QED
      BY <1>1, <1>5, ConnOutputType
  <1>15. Out(x) = Out(a) \/ Out(x) = Out(a) \o d
    <2> HIDE DEF d
    <2>1. QED
      BY <1>1, <1>5, ConnOutputOut
  <1>16. d = Bytes(p, n)
    <2> HIDE DEF l, n
    <2>1. m.data = Bytes(p, l)
      BY DEF l
    <2>2. QED
      BY <1>2, <1>4, <2>1 DEF Bytes
  <1>7. t = [x EXCEPT !.rw.size = @ - l, !.rw.segments = Tail(@)]
    <2>1. Head(a.rw.segments) = m /\ a.rw.segments # <<>>
      OBVIOUS
    <2>2. ~ (m.seqno >= a.rw.ackno)
      BY <1>2
    <2>3. QED
      BY <2>1, <2>2 DEF ctcp_output
  <1> HIDE DEF x, t
  <1>8. t = [x EXCEPT !.rw = rw]
    <2>1. x.rw = a.rw
      BY <1>6 DEF SameButOutput
    <2>2. a.rw.size - l = 0 /\ Tail(a.rw.segments) = <<>>
      BY <1>2
    <2>3. QED
      BY <1>6, <1>7, <2>1, <2>2 DEF State
  <1>9. /\ rw \in RecvWindow /\ rw.size = 0 /\ rw.segments = <<>>
        /\ rw.ackno = a.rw.ackno /\ rw.max_size = a.rw.max_size
    <2>1. <<>> \in Seq(Message) /\ 0 \in Nat
      OBVIOUS
    <2>2. rw \in RecvWindow
      BY <1>2, <2>1 DEF RecvWindow
    <2>3. /\ rw.size = 0 /\ rw.segments = <<>>
          /\ rw.ackno = a.rw.ackno /\ rw.max_size = a.rw.max_size
      BY <1>2 DEF RecvWindow
    <2>4. QED
      BY <2>2, <2>3
  <1> HIDE DEF rw
  <1>10. /\ t \in State /\ t.rw = rw /\ t.sw = x.sw /\ t.input = x.input
         /\ t.wire = x.wire /\ t.output = x.output
         /\ t.out_queue = x.out_queue
         /\ (t.wrote_eof <=> x.wrote_eof) /\ (t.wrote_err <=> x.wrote_err)
         /\ t.status = x.status
    BY <1>6, <1>8, <1>9 DEF State
  <1>11. SameSender(a, t)
    BY <1>6, <1>10 DEF SameSender, SameButOutput
  <1>12. Ready(h, t) /\ Covered(t) = Covered(a)
    <2>1. SentBy(t) = SentBy(a)
      BY <1>9, <1>10, <1>11 DEF SentBy, SameSender
    <2>2. t.wire \in Seq(SentBy(t))
      BY <1>1, <1>6, <1>10, <2>1 DEF HostInv, SameButOutput
    <2>3. a.rw.ackno <= t.rw.ackno /\ t.rw.max_size = a.rw.max_size
      BY <1>2, <1>9, <1>10
    <2>4. QED
      BY <1>10, <1>11, <2>2, <2>3, ReadyKept
  <1>13. OutputInv(t)
    <2>1. t.rw.segments = <<>> /\ t.rw.size = 0
      BY <1>9, <1>10
    <2>2. ASSUME ~ StdoutBlocks
          PROVE  /\ t.out_queue = <<>> /\ ~ t.wrote_eof /\ ~ t.wrote_err
                 /\ t.output = Bytes(0, t.rw.ackno - 1)
      <3>1. b = MAX_BUF_SPACE
        BY <1>1, <2>2, BufspaceType
      <3>2. n = l
        <4>1. l <= MAX_SEG_DATA_SIZE
          OBVIOUS
        <4> HIDE DEF l, n
        <4>2. QED
          BY <1>2, <1>3, <1>4, <3>1, <4>1, SizeAssumption
      <3>3. d = m.data
        BY <1>2, <3>2
      <3> HIDE DEF d
      <3>4. /\ x.output = a.output \o d /\ x.out_queue = <<>>
            /\ ~ x.wrote_eof /\ ~ x.wrote_err
        BY <1>1, <1>2, <2>2, <3>3, ConnOutputAll DEF x
      <3>5. x.output = Bytes(0, p + l)
        BY <1>2, <2>2, <3>3, <3>4, BytesConcat
      <3>6. t.rw.ackno - 1 = p + l
        BY <1>9, <1>10
      <3>7. QED
        BY <1>10, <3>4, <3>5, <3>6
    <2>3. QED
      BY <2>1, <2>2 DEF OutputInv
  <1>14. Out(t) = Out(a) \/ \E k \in 0..l : Out(t) = Out(a) \o Bytes(p, k)
    <2>1. Out(t) = Out(x)
      BY <1>10, OutSame
    <2> HIDE DEF l, n
    <2>2. n \in 0..l
      BY <1>2, <1>4
    <2>3. QED
      BY <1>15, <1>16, <2>1, <2>2
  <1>17. t.status = a.status
    BY <1>6, <1>10 DEF SameButOutput
  <1>18. Repeats(a, t)
    BY <1>6, <1>10, <1>11, SameRepeats DEF SameButOutput
  <1>19. QED
    BY <1>9, <1>10, <1>11, <1>12, <1>13, <1>14, <1>17, <1>18 DEF t

-----------------------------------------------------------------------------
(* Steps of the system.                                                    *)

\* What the next state needs to be about one host and its peer.
PairInv(h) ==
  /\ HostInv(h, state[h])
  /\ OutputInv(state[h])
  /\ SentInv(state[h])
  /\ net[Peer(h)] \in Seq(SentBy(state[h]))
  /\ state[h].rw.ackno <= state[Peer(h)].sw.seqno
  /\ \A k \in 1..state[h].input :
       k < state[Peer(h)].rw.ackno \/ k \in Covered(state[h])

\* When a callback returns, its segments are on their way.
LEMMA CallbackReturns ==
  ASSUME NEW h \in Host, NEW s, Ready(h, s), OutputInv(s)
  PROVE  LET t == [s EXCEPT !.wire = <<>>] IN
         /\ HostInv(h, t)
         /\ OutputInv(t)
         /\ SentInv(t)
         /\ t \in State /\ SameSender(s, t) /\ t.rw = s.rw
         /\ Covered(t) = Covered(s)
         /\ SentBy(t) = SentBy(s)
  <1> DEFINE t == [s EXCEPT !.wire = <<>>]
  <1>1. s \in State
    BY DEF Ready, HostInv
  <1>2. <<>> \in Seq(Message)
    OBVIOUS
  <1>3. /\ t \in State /\ t.sw = s.sw /\ t.rw = s.rw /\ t.input = s.input
        /\ t.wire = <<>>
    BY <1>1, <1>2 DEF State
  <1>4. SameReceiver(s, t)
    BY <1>1 DEF SameReceiver, State
  <1> HIDE DEF t
  <1>5. SameSender(s, t)
    BY <1>3 DEF SameSender
  <1>6. t.wire \in Seq(SentBy(t))
    BY <1>3
  <1>7. s.rw.ackno <= t.rw.ackno
    BY <1>1, <1>3 DEF State, RecvWindow
  <1>8. Ready(h, t) /\ Covered(t) = Covered(s)
    BY <1>3, <1>5, <1>6, <1>7, ReadyKept
  <1>9. OutputInv(t)
    BY <1>4, OutputKept
  <1>10. SentInv(t)
    BY <1>3, <1>8 DEF SentInv, Ready
  <1>11. SentBy(t) = SentBy(s)
    BY <1>3 DEF SentBy
  <1>12. QED
    BY <1>3, <1>5, <1>8, <1>9, <1>10, <1>11 DEF t, Ready

\* A callback of h preserves the invariant if it leaves its own host sound,
\* moves its counters forwards only, acknowledges nothing that was not sent
\* and keeps every byte the peer has not received.
LEMMA CallbackStep ==
  ASSUME IInv, NEW h \in Host, NEW s, Ready(h, s), OutputInv(s),
         state[h].sw.seqno <= s.sw.seqno,
         state[h].rw.ackno <= s.rw.ackno,
         s.rw.ackno <= state[Peer(h)].sw.seqno,
         \A k \in 1..s.input : k < state[Peer(h)].rw.ackno \/ k \in Covered(s),
         state' = [state EXCEPT ![h] = [s EXCEPT !.wire = <<>>]],
         NEW q \in Seq(SentBy(state[Peer(h)])),
         net' = [net EXCEPT ![h] = q, ![Peer(h)] = @ \o s.wire],
         faults' \in Nat
  PROVE  IInv'
  <1> DEFINE p == Peer(h)
             t == [s EXCEPT !.wire = <<>>]
  <1>1. p \in Host /\ p # h /\ Peer(p) = h /\ Host = {h, p}
    BY PeerFacts DEF Host, Peer
  <1>2. PairInv(h) /\ PairInv(p) /\ state \in [Host -> State]
        /\ net \in [Host -> Seq(Message)]
    BY <1>1 DEF IInv, PairInv
  <1>3. /\ HostInv(h, t) /\ OutputInv(t) /\ SentInv(t) /\ t \in State
        /\ SameSender(s, t) /\ t.rw = s.rw /\ Covered(t) = Covered(s)
        /\ SentBy(t) = SentBy(s)
    BY CallbackReturns
  <1> HIDE DEF t
  <1>4. state'[h] = t /\ state'[p] = state[p]
    BY <1>1, <1>2 DEF t
  <1> HIDE DEF p
  <1>5. net'[h] = q /\ net'[p] = net[p] \o s.wire
    BY <1>1, <1>2 DEF p
  <1>6. s \in State /\ s.wire \in Seq(SentBy(s))
    BY DEF Ready, HostInv
  <1>7. SentBy(state[h]) \subseteq SentBy(s)
    BY <1>2, <1>6, SentByGrows
  <1>8. net[p] \in Seq(SentBy(s))
    <2>1. net[p] \in Seq(SentBy(state[h]))
      BY <1>2 DEF PairInv, p
    <2>2. QED
      BY <1>7, <2>1, SeqMono
  <1>9. net'[p] \in Seq(SentBy(t))
    <2>1. net[p] \o s.wire \in Seq(SentBy(s))
      BY <1>6, <1>8
    <2>2. QED
      BY <1>3, <1>5, <2>1
  <1>10. PairInv(h)'
    <2>1. t.rw.ackno <= state[p].sw.seqno
      BY <1>3 DEF p
    <2>2. \A k \in 1..t.input : k < state[p].rw.ackno \/ k \in Covered(t)
      BY <1>3 DEF SameSender, p
    <2>3. QED
      BY <1>3, <1>4, <1>9, <2>1, <2>2 DEF PairInv, p
  <1>11. PairInv(p)'
    <2>1. /\ HostInv(p, state[p]) /\ OutputInv(state[p]) /\ SentInv(state[p])
          /\ state[p].rw.ackno <= state[h].sw.seqno
          /\ \A k \in 1..state[p].input :
               k < state[h].rw.ackno \/ k \in Covered(state[p])
      BY <1>1, <1>2 DEF PairInv
    <2>2. /\ state[h].sw.seqno \in Nat /\ state[p].rw.ackno \in Nat
          /\ state[h].rw.ackno \in Nat /\ state[p].input \in Nat
          /\ s.sw.seqno \in Nat /\ s.rw.ackno \in Nat
      BY <1>1, <1>2, <1>6 DEF State, SendWindow, RecvWindow
    <2>3. state[p].rw.ackno <= t.sw.seqno
      BY <1>3, <2>1, <2>2 DEF SameSender
    <2>4. \A k \in 1..state[p].input : k < t.rw.ackno \/ k \in Covered(state[p])
      BY <1>3, <2>1, <2>2
    <2>5. net'[h] \in Seq(SentBy(state[p]))
      BY <1>5 DEF p
    <2>6. QED
      BY <1>1, <1>4, <2>1, <2>3, <2>4, <2>5 DEF PairInv
  <1>12. state' \in [Host -> State]
    BY <1>2, <1>3 DEF t
  <1>13. net' \in [Host -> Seq(Message)]
    <2>1. SentBy(state[p]) \subseteq Message /\ SentBy(t) \subseteq Message
      BY DEF SentBy
    <2>2. q \in Seq(Message)
      BY <2>1, SeqMono DEF p
    <2>3. net[p] \o s.wire \in Seq(Message)
      BY <1>5, <1>9, <2>1, SeqMono
    <2>4. QED
      BY <1>1, <1>2, <2>2, <2>3 DEF p
  <1>14. QED
    BY <1>1, <1>10, <1>11, <1>12, <1>13 DEF IInv, PairInv

\* A sound result of a callback of h: what CallbackStep asks for.
Outcome(h, s) ==
  /\ Ready(h, s)
  /\ OutputInv(s)
  /\ state[h].sw.seqno <= s.sw.seqno
  /\ state[h].rw.ackno <= s.rw.ackno
  /\ s.rw.ackno <= state[Peer(h)].sw.seqno
  /\ \A k \in 1..s.input : k < state[Peer(h)].rw.ackno \/ k \in Covered(s)

\* h hands over to stdout what it has acknowledged, or nothing.
Taken(s, t) ==
  \/ Out(t) = Out(s)
  \/ \E k \in Nat : /\ Out(t) = Out(s) \o Bytes(s.rw.ackno - 1, k)
                    /\ s.rw.ackno + k <= t.rw.ackno

\* What a callback does to the two streams of h: it reads from stdin, or it
\* acknowledges and hands over the next piece of the peer's, or neither.
Moved(h, t) ==
  LET s == state[h] IN
  /\ \/ t.input = s.input /\ t.rw.ackno = s.rw.ackno
     \/ \E n \in 1..MAX_SEG_DATA_SIZE :
          t.input = s.input + n /\ t.rw.ackno = s.rw.ackno
     \/ \E n \in 1..MAX_SEG_DATA_SIZE :
          t.input = s.input /\ t.rw.ackno = s.rw.ackno + n
  /\ Taken(s, t)

\* The next message that h takes: it is the expected data, and they fit.
Expected(h, m) ==
  /\ m.ok
  /\ m.data # <<>>
  /\ m.seqno = state[h].rw.ackno
  /\ Len(m.data) <= Window[h]

\* What ctcp_receive does with the i-th segment: it takes the expected data,
\* and only data from beyond them kill it.
Received(h, i, t) ==
  LET m == net[h][i]
      a == state[h].rw.ackno
  IN  /\ Arrives(h, i)
      /\ t.rw.ackno = IF Expected(h, m) THEN End(m) ELSE a
      /\ t.status = "crashed" => m.data # <<>> /\ m.seqno > a

\* Any other callback of a host that is up receives nothing and does not
\* kill it.
NotReceived(h, t) ==
  /\ state[h].status = "up"
  /\ t.rw.ackno = state[h].rw.ackno
  /\ t.status # "crashed"

\* A callback of h: it ends in a sound state and its segments leave.
Callback(h) ==
  \E s : /\ Outcome(h, s) /\ Moved(h, s) /\ Emits(state[h], s)
         /\ \/ Sends(h, s) /\ NotReceived(h, s)
            \/ \E i \in 1..Len(net[h]) : Consumes(h, i, s) /\ Received(h, i, s)

\* What the invariant says of a host and its peer.
LEMMA Facts ==
  ASSUME IInv, NEW h \in Host
  PROVE  /\ Ready(h, state[h]) /\ Outcome(h, state[h])
         /\ PairInv(h) /\ PairInv(Peer(h))
         /\ state[h] \in State /\ state[Peer(h)] \in State
         /\ net[h] \in Seq(SentBy(state[Peer(h)]))
         /\ state[h].sw.seqno \in Nat /\ state[h].rw.ackno \in Nat
         /\ state[Peer(h)].sw.seqno \in Nat /\ state[Peer(h)].rw.ackno \in Nat
  <1>1. PairInv(h) /\ PairInv(Peer(h)) /\ state \in [Host -> State]
    BY PeerFacts DEF IInv, PairInv
  <1>2. Peer(h) \in Host /\ Peer(Peer(h)) = h
    BY PeerFacts
  <1>3. state[h] \in State /\ state[Peer(h)] \in State
    BY <1>1, <1>2
  <1>4. /\ state[h].sw.seqno \in Nat /\ state[h].rw.ackno \in Nat
        /\ state[Peer(h)].sw.seqno \in Nat /\ state[Peer(h)].rw.ackno \in Nat
    BY <1>3 DEF State, SendWindow, RecvWindow
  <1>5. Ready(h, state[h])
    BY <1>1 DEF PairInv, Ready, SentInv
  <1>6. Outcome(h, state[h])
    BY <1>1, <1>4, <1>5 DEF PairInv, Outcome
  <1>7. net[h] \in Seq(SentBy(state[Peer(h)]))
    BY <1>1, <1>2 DEF PairInv
  <1>8. QED
    BY <1>1, <1>3, <1>4, <1>5, <1>6, <1>7

\* A callback that consumes no segment.
LEMMA SendsStep ==
  ASSUME IInv, NEW h \in Host, NEW s, Outcome(h, s), Sends(h, s)
  PROVE  IInv'
  <1> DEFINE q == net[h]
  <1>1. q \in Seq(SentBy(state[Peer(h)]))
    BY Facts
  <1>2. net \in [Host -> Seq(Message)] /\ faults \in Nat
    BY DEF IInv
  <1>3. Peer(h) \in Host /\ Peer(h) # h
    BY PeerFacts
  <1>4. state' = [state EXCEPT ![h] = [s EXCEPT !.wire = <<>>]]
    BY DEF Sends
  <1>5. net' = [net EXCEPT ![h] = q, ![Peer(h)] = @ \o s.wire]
    BY <1>2, <1>3 DEF Sends
  <1>6. faults' \in Nat
    BY <1>2 DEF Sends
  <1> HIDE DEF q
  <1>7. QED
    BY <1>1, <1>4, <1>5, <1>6, CallbackStep DEF Outcome

\* A callback that consumes the i-th segment.
LEMMA ConsumesStep ==
  ASSUME IInv, NEW h \in Host, NEW i \in 1..Len(net[h]), NEW s,
         Outcome(h, s), Consumes(h, i, s)
  PROVE  IInv'
  <1> DEFINE q == RemoveAt(net[h], i)
  <1>1. q \in Seq(SentBy(state[Peer(h)]))
    BY Facts, RemoveAtType
  <1>2. net \in [Host -> Seq(Message)] /\ faults \in Nat
    BY DEF IInv
  <1>4. state' = [state EXCEPT ![h] = [s EXCEPT !.wire = <<>>]]
    BY DEF Consumes
  <1>5. net' = [net EXCEPT ![h] = q, ![Peer(h)] = @ \o s.wire]
    BY <1>2 DEF Consumes
  <1>6. faults' \in Nat
    BY <1>2 DEF Consumes
  <1> HIDE DEF q
  <1>7. QED
    BY <1>1, <1>4, <1>5, <1>6, CallbackStep DEF Outcome

\* The state a callback leaves, without its wire.
LEMMA CallbackState ==
  ASSUME IInv, NEW h \in Host, NEW s, Outcome(h, s),
         Sends(h, s) \/ \E i \in 1..Len(net[h]) : Consumes(h, i, s)
  PROVE  /\ state'[h].input = s.input /\ state'[h].rw = s.rw
         /\ state'[h].sw = s.sw
         /\ state'[h].status = s.status /\ state'[h].output = s.output
         /\ state'[h].out_queue = s.out_queue
         /\ \A k \in Host : k # h => state'[k] = state[k]
  <1>1. s \in State
    BY DEF Outcome, Ready, HostInv
  <1>2. state \in [Host -> State]
    BY DEF IInv
  <1>3. state' = [state EXCEPT ![h] = [s EXCEPT !.wire = <<>>]]
    BY DEF Sends, Consumes
  <1> DEFINE t == [s EXCEPT !.wire = <<>>]
  <1>4. /\ t.input = s.input /\ t.rw = s.rw /\ t.sw = s.sw /\ t.status = s.status
        /\ t.output = s.output /\ t.out_queue = s.out_queue
    BY <1>1 DEF State
  <1> HIDE DEF t
  <1>5. state'[h] = t /\ \A k \in Host : k # h => state'[k] = state[k]
    BY <1>2, <1>3 DEF t
  <1>6. QED
    BY <1>4, <1>5

\* The network loses, repeats or delays what it carries.
LEMMA NetStep ==
  ASSUME IInv, NEW h \in Host, NEW q \in Seq(SentBy(state[Peer(h)])),
         state' = state, net' = [net EXCEPT ![h] = q], faults' \in Nat
  PROVE  IInv'
  <1>1. /\ Peer(h) \in Host /\ Peer(h) # h /\ Peer(Peer(h)) = h
        /\ Host = {h, Peer(h)}
    BY PeerFacts DEF Host, Peer
  <1>2. PairInv(h) /\ PairInv(Peer(h)) /\ state \in [Host -> State]
        /\ net \in [Host -> Seq(Message)]
    BY <1>1 DEF IInv, PairInv
  <1>3. net'[h] = q /\ net'[Peer(h)] = net[Peer(h)]
    BY <1>1, <1>2
  <1>4. PairInv(h)'
    BY <1>2, <1>3 DEF PairInv
  <1>5. PairInv(Peer(h))'
    BY <1>1, <1>2, <1>3 DEF PairInv
  <1>6. net' \in [Host -> Seq(Message)]
    <2>1. SentBy(state[Peer(h)]) \subseteq Message
      BY DEF SentBy
    <2>2. q \in Seq(Message)
      BY <2>1, SeqMono
    <2>3. QED
      BY <1>2, <2>2
  <1>7. state' \in [Host -> State]
    BY <1>2
  <1>8. QED
    BY <1>1, <1>4, <1>5, <1>6, <1>7 DEF IInv, PairInv

-----------------------------------------------------------------------------
(* ctcp_read.                                                              *)

\* A callback that leaves the receiving half alone is sound if its sender is.
LEMMA SenderOutcome ==
  ASSUME IInv, NEW h \in Host, NEW t, Ready(h, t), SameReceiver(state[h], t),
         state[h].sw.seqno <= t.sw.seqno,
         \A k \in 1..t.input : k < state[Peer(h)].rw.ackno \/ k \in Covered(t),
         \/ t.input = state[h].input
         \/ \E n \in 1..MAX_SEG_DATA_SIZE : t.input = state[h].input + n
  PROVE  Outcome(h, t) /\ Moved(h, t)
  <1>1. OutputInv(state[h]) /\ state[h].rw.ackno <= state[Peer(h)].sw.seqno
    BY Facts DEF PairInv
  <1>2. OutputInv(t)
    BY <1>1, OutputKept
  <1>3. t.rw.ackno = state[h].rw.ackno /\ state[h].rw.ackno \in Nat
    BY Facts DEF SameReceiver
  <1>4. Out(t) = Out(state[h])
    BY OutSame DEF SameReceiver
  <1>5. Moved(h, t)
    BY <1>3, <1>4 DEF Moved, Taken
  <1>6. QED
    BY <1>1, <1>2, <1>3, <1>5 DEF Outcome

\* Reading data.
LEMMA ReadDataStep ==
  ASSUME IInv, NEW h \in Host, CtcpReadData(h)
  PROVE  Callback(h)
  <1> DEFINE s == state[h]
  <1>1. PICK r \in 1..MAX_SEG_DATA_SIZE :
          /\ r <= buffer_size(s)
          /\ s.input + r <= InputLen[h]
          /\ Sends(h, SEND_DATA([s EXCEPT !.input = @ + r], Bytes(s.input, r)))
    BY DEF CtcpReadData
  <1> DEFINE x == [s EXCEPT !.input = @ + r]
             data == Bytes(s.input, r)
             t == SEND_DATA(x, data)
  <1>2. Ready(h, s) /\ s \in State /\ HostInv(h, s)
    BY Facts DEF Ready
  <1>3. /\ s.sw.max_size \in Nat /\ s.sw.size \in Nat /\ s.input \in Nat
        /\ s.sw.recv_win_size \in Nat /\ s.sw.seqno \in Nat
    BY <1>2, ReadyTypes
  <1>4. r \in Nat /\ r <= MAX_SEG_DATA_SIZE /\ MAX_SEG_DATA_SIZE \in Nat
    BY SizeAssumption
  <1>5. s.sw.size + r <= s.sw.max_size
    <2> DEFINE a == s.sw.max_size - s.sw.size
               b == s.sw.recv_win_size
    <2>1. a \in Int /\ b \in Int /\ MAX_SEG_DATA_SIZE \in Int
      BY <1>3, <1>4
    <2>2. buffer_size(s) = Min({a, b, MAX_SEG_DATA_SIZE})
      BY DEF buffer_size
    <2> HIDE DEF a, b
    <2>3. buffer_size(s) \in Int /\ buffer_size(s) <= a
      <3>1. /\ Min({a, b, MAX_SEG_DATA_SIZE}) \in Int
            /\ Min({a, b, MAX_SEG_DATA_SIZE}) <= a
        BY <2>1, MinOfThree
      <3>2. QED
        BY <2>2, <3>1
    <2>4. r <= a
      BY <1>1, <1>4, <2>1, <2>3
    <2>5. QED
      BY <1>3, <1>4, <2>4 DEF a
  <1>6. data \in Seq(Nat) /\ Len(data) = r
    BY <1>3, <1>4, BytesType
  <1>7. /\ x \in State /\ x.sw = s.sw /\ SameReceiver(s, x) /\ x.wire = s.wire
        /\ x.input = s.input + r
    <2>1. s.input + r \in Nat
      BY <1>3, <1>4
    <2>2. QED
      BY <1>2, <2>1 DEF State, SameReceiver
  <1>8. data = Bytes(s.input, Len(data)) /\ s.input + Len(data) <= InputLen[h]
    BY <1>1, <1>6
  <1> HIDE DEF x, data, s
  <1>9. /\ Ready(h, t) /\ SameReceiver(s, t)
        /\ t.sw.seqno = s.sw.seqno + r /\ t.input = s.input + r
        /\ Covered(s) \subseteq Covered(t)
        /\ \A k \in 1..(s.input + r) : k <= s.input \/ k \in Covered(t)
        /\ Emits(s, t)
    BY <1>2, <1>4, <1>5, <1>6, <1>7, <1>8, DataSent
  <1> HIDE DEF t
  <1>10. \A k \in 1..t.input : k < state[Peer(h)].rw.ackno \/ k \in Covered(t)
    <2>1. \A k \in 1..s.input : k < state[Peer(h)].rw.ackno \/ k \in Covered(s)
      BY Facts DEF Outcome, s
    <2>2. QED
      BY <1>3, <1>4, <1>9, <2>1
  <1>11. s.sw.seqno <= t.sw.seqno
    BY <1>3, <1>4, <1>9
  <1>12. Outcome(h, t) /\ Moved(h, t)
    BY <1>1, <1>9, <1>10, <1>11, SenderOutcome DEF s
  <1>13. Sends(h, t)
    BY <1>1 DEF t, x, data, s
  <1>14. NotReceived(h, t)
    BY <1>9 DEF SameReceiver, CtcpReadData, MayRead, NotReceived, s
  <1>15. QED
    BY <1>9, <1>12, <1>13, <1>14 DEF Callback, s

\* Reading nothing.
LEMMA ReadEmptyStep ==
  ASSUME IInv, NEW h \in Host, CtcpReadEmpty(h)
  PROVE  Callback(h)
  <1> DEFINE s == state[h]
             x == [s EXCEPT !.empties = @ + 1]
             data == <<>>
             t == SEND_DATA(x, data)
  <1>2. Ready(h, s) /\ s \in State /\ HostInv(h, s)
    BY Facts DEF Ready
  <1>3. /\ s.sw.max_size \in Nat /\ s.sw.size \in Nat /\ s.input \in Nat
        /\ s.sw.seqno \in Nat /\ s.input <= InputLen[h]
        /\ s.sw.size <= s.sw.max_size
    BY <1>2, ReadyTypes DEF HostInv
  <1>4. data \in Seq(Nat) /\ Len(data) = 0
    OBVIOUS
  <1>5. data = Bytes(s.input, Len(data))
    BY <1>4 DEF Bytes
  <1>6. /\ x \in State /\ x.sw = s.sw /\ SameReceiver(s, x) /\ x.wire = s.wire
        /\ x.input = s.input
    <2>1. s.empties + 1 \in Nat
      BY <1>2 DEF State
    <2>2. QED
      BY <1>2, <2>1 DEF State, SameReceiver
  <1> HIDE DEF x, data, s
  <1>7. /\ s.input + Len(data) = s.input /\ s.sw.size + Len(data) = s.sw.size
        /\ s.sw.seqno + Len(data) = s.sw.seqno
        /\ Len(data) <= MAX_SEG_DATA_SIZE
    BY <1>3, <1>4, SizeAssumption
  <1>8. /\ Ready(h, t) /\ SameReceiver(s, t)
        /\ t.sw.seqno = s.sw.seqno /\ t.input = s.input
        /\ Covered(s) \subseteq Covered(t) /\ Emits(s, t)
    <2>1. /\ x.input = s.input + Len(data)
          /\ s.input + Len(data) <= InputLen[h]
          /\ s.sw.size + Len(data) <= s.sw.max_size
      BY <1>3, <1>6, <1>7
    <2>2. /\ Ready(h, t) /\ SameReceiver(s, t)
          /\ t.sw.seqno = s.sw.seqno + Len(data)
          /\ t.input = s.input + Len(data) /\ Covered(s) \subseteq Covered(t)
          /\ Emits(s, t)
      BY <1>2, <1>4, <1>5, <1>6, <1>7, <2>1, DataSent
    <2>3. QED
      BY <1>7, <2>2
  <1> HIDE DEF t
  <1>9. \A k \in 1..t.input : k < state[Peer(h)].rw.ackno \/ k \in Covered(t)
    BY <1>8, Facts DEF Outcome, s
  <1>10. Outcome(h, t) /\ Moved(h, t)
    BY <1>3, <1>8, <1>9, SenderOutcome DEF s
  <1>11. Sends(h, t)
    BY DEF CtcpReadEmpty, t, x, data, s
  <1>12. NotReceived(h, t)
    BY <1>8 DEF SameReceiver, CtcpReadEmpty, MayRead, NotReceived, s
  <1>13. QED
    BY <1>8, <1>10, <1>11, <1>12 DEF Callback, s

\* Reading EOF.
LEMMA ReadEofStep ==
  ASSUME IInv, NEW h \in Host, CtcpReadEof(h)
  PROVE  Callback(h)
  <1> DEFINE s == state[h]
             x == [s EXCEPT !.eofs = @ + 1]
             t == SEND_FIN(x)
  <1>1. Ready(h, s) /\ s \in State /\ HostInv(h, s)
    BY Facts DEF Ready
  <1>2. s.rw.ackno \in Nat /\ s.sw.seqno \in Nat
    BY <1>1, ReadyTypes
  <1>3. /\ x \in State /\ SameSender(s, x) /\ SameReceiver(s, x)
        /\ x.wire = s.wire
    <2>1. s.eofs + 1 \in Nat
      BY <1>1 DEF State
    <2>2. x \in State /\ x.sw = s.sw /\ x.input = s.input
          /\ x.wire = s.wire /\ SameReceiver(s, x)
      BY <1>1, <2>1 DEF State, SameReceiver
    <2> HIDE DEF x, s
    <2>3. QED
      BY <2>2 DEF SameSender
  <1> HIDE DEF x, s
  <1>4. Ready(h, x) /\ Covered(x) = Covered(s)
    <2>1. SentBy(x) = SentBy(s)
      BY <1>3 DEF SentBy, SameSender, SameReceiver
    <2>2. x.wire \in Seq(SentBy(x))
      BY <1>1, <1>3, <2>1 DEF HostInv
    <2>3. x.rw.max_size = s.rw.max_size /\ s.rw.ackno <= x.rw.ackno
      BY <1>2, <1>3 DEF SameReceiver
    <2>4. QED
      BY <1>1, <1>3, <2>2, <2>3, ReadyKept
  <1>5. /\ Ready(h, t) /\ SameReceiver(x, t) /\ t.sw.seqno = x.sw.seqno
        /\ t.input = x.input /\ Covered(x) \subseteq Covered(t)
        /\ Repeats(x, t)
    BY <1>4, FinSent
  <1> HIDE DEF t
  <1>6. SameReceiver(s, t) /\ t.sw.seqno = s.sw.seqno /\ t.input = s.input
    BY <1>3, <1>5 DEF SameReceiver, SameSender
  <1>7. \A k \in 1..t.input : k < state[Peer(h)].rw.ackno \/ k \in Covered(t)
    BY <1>4, <1>5, <1>6, Facts DEF Outcome, s
  <1>8. Outcome(h, t) /\ Moved(h, t)
    BY <1>2, <1>5, <1>6, <1>7, SenderOutcome DEF s
  <1>9. Sends(h, t)
    BY DEF CtcpReadEof, t, x, s
  <1>10. NotReceived(h, t)
    BY <1>6 DEF SameReceiver, CtcpReadEof, MayRead, NotReceived, s
  <1>11. Emits(s, t)
    BY <1>3, <1>5, SameRepeats, RepeatsTwice DEF Emits
  <1>12. QED
    BY <1>8, <1>9, <1>10, <1>11 DEF Callback, s

-----------------------------------------------------------------------------
(* ctcp_receive.                                                           *)

\* A segment in flight is one its sender may have sent.
LEMMA MessageFacts ==
  ASSUME IInv, NEW h \in Host, NEW i \in 1..Len(net[h])
  PROVE  /\ net[h][i] \in SentBy(state[Peer(h)])
         /\ net[h][i] \in Message
         /\ net[h][i].window \in Nat
  <1>1. net[h] \in Seq(SentBy(state[Peer(h)]))
    BY Facts
  <1>2. net[h][i] \in SentBy(state[Peer(h)])
    BY <1>1
  <1>3. net[h][i] \in Message
    BY <1>2 DEF SentBy
  <1>4. QED
    BY <1>2, <1>3 DEF Message

\* A change of the host's flags and of the peer's window leaves it ready.
LEMMA FlagsChanged ==
  ASSUME NEW h \in Host, NEW s, NEW t, Ready(h, s), t \in State,
         SameSender(s, t), SameReceiver(s, t), t.wire = s.wire
  PROVE  Ready(h, t) /\ Covered(t) = Covered(s)
  <1>1. HostInv(h, s) /\ s \in State
    BY DEF Ready, HostInv
  <1>2. s.rw.ackno \in Nat
    BY <1>1, ReadyTypes
  <1>3. SentBy(t) = SentBy(s)
    BY DEF SentBy, SameSender, SameReceiver
  <1>4. t.wire \in Seq(SentBy(t))
    BY <1>1, <1>3 DEF HostInv
  <1>5. t.rw.max_size = s.rw.max_size /\ s.rw.ackno <= t.rw.ackno
    BY <1>2 DEF SameReceiver
  <1>6. QED
    BY <1>4, <1>5, ReadyKept

\* Taking over the peer's window.
LEMMA CheckedFacts ==
  ASSUME IInv, NEW h \in Host, NEW i \in 1..Len(net[h])
  PROVE  /\ Ready(h, Checked(h, i))
         /\ Checked(h, i) \in State
         /\ SameSender(state[h], Checked(h, i))
         /\ SameReceiver(state[h], Checked(h, i))
         /\ Covered(Checked(h, i)) = Covered(state[h])
         /\ Repeats(state[h], Checked(h, i))
  <1> DEFINE s == state[h]
             n == net[h][i].window
             sw == [s.sw EXCEPT !.recv_win_size = n]
             t == Checked(h, i)
  <1>1. Ready(h, s) /\ s \in State /\ n \in Nat
    BY Facts, MessageFacts
  <1>2. s.sw \in SendWindow
    BY <1>1 DEF State
  <1>3. t = [s EXCEPT !.sw = sw]
    BY <1>1 DEF Checked, State
  <1> HIDE DEF s, n, t
  <1>4. sw \in SendWindow
    BY <1>1, <1>2 DEF SendWindow
  <1>5. /\ sw.segments = s.sw.segments /\ sw.added = s.sw.added
        /\ sw.max_size = s.sw.max_size /\ sw.size = s.sw.size
        /\ sw.seqno = s.sw.seqno /\ (sw.timer <=> s.sw.timer)
    BY <1>2 DEF SendWindow
  <1> HIDE DEF sw
  <1>6. t \in State /\ t.sw = sw /\ t.input = s.input /\ t.wire = s.wire
    BY <1>1, <1>3, <1>4 DEF State
  <1>7. SameReceiver(s, t)
    BY <1>1, <1>3 DEF State, SameReceiver
  <1>8. SameSender(s, t)
    BY <1>5, <1>6 DEF SameSender
  <1>9. Ready(h, t) /\ Covered(t) = Covered(s)
    BY <1>1, <1>6, <1>7, <1>8, FlagsChanged
  <1>10. Repeats(s, t)
    BY <1>6, <1>8, SameRepeats
  <1>11. QED
    BY <1>6, <1>7, <1>8, <1>9, <1>10 DEF s, t

\* Receiving anything but the expected data kills no host.
LEMMA PlainReceived ==
  ASSUME NEW h \in Host, NEW i \in 1..Len(net[h]), Arrives(h, i), NEW t,
         t.status = state[h].status, t.rw.ackno = state[h].rw.ackno,
         ~ Expected(h, net[h][i])
  PROVE  Received(h, i, t)
  BY DEF Received, Arrives

\* A damaged segment.
LEMMA ReceiveCorruptStep ==
  ASSUME IInv, NEW h \in Host, NEW i \in 1..Len(net[h]), Arrives(h, i),
         ReceiveCorrupt(h, i)
  PROVE  Callback(h)
  <1>1. Consumes(h, i, state[h])
    BY DEF ReceiveCorrupt
  <1>2. Outcome(h, state[h]) /\ Moved(h, state[h])
    BY Facts DEF Moved, Taken
  <1>3. Received(h, i, state[h]) /\ Emits(state[h], state[h])
    BY PlainReceived DEF ReceiveCorrupt, Expected, Emits, Repeats
  <1>4. QED
    BY <1>1, <1>2, <1>3 DEF Callback

\* A FIN.
LEMMA ReceiveFinStep ==
  ASSUME IInv, NEW h \in Host, NEW i \in 1..Len(net[h]), Arrives(h, i),
         ReceiveFin(h, i)
  PROVE  Callback(h)
  <1> DEFINE c == Checked(h, i)
             s == SEND_FIN_ACK(c)
             t == IF s.teardown THEN s ELSE SEND_FIN(s)
  <1>1. /\ Ready(h, c) /\ SameSender(state[h], c) /\ SameReceiver(state[h], c)
        /\ Covered(c) = Covered(state[h]) /\ Repeats(state[h], c)
    BY CheckedFacts
  <1>2. FIN_ACK \in {TH_ACK, FIN_ACK}
    OBVIOUS
  <1> HIDE DEF c
  <1>3. /\ Ready(h, s) /\ SameSender(c, s) /\ SameReceiver(c, s)
        /\ Covered(s) = Covered(c) /\ Repeats(c, s)
    BY <1>1, <1>2, DirectSend DEF SEND_FIN_ACK
  <1>4. Consumes(h, i, t)
    BY DEF ReceiveFin, c
  <1> HIDE DEF s
  <1>5. /\ Ready(h, t) /\ SameReceiver(s, t) /\ t.sw.seqno = s.sw.seqno
        /\ t.input = s.input /\ Covered(s) \subseteq Covered(t)
        /\ Repeats(s, t)
    <2>1. CASE s.teardown
      BY <1>3, <2>1 DEF SameReceiver, Repeats
    <2>2. CASE ~ s.teardown
      BY <1>3, <2>2, FinSent
    <2>3. QED
      BY <2>1, <2>2
  <1> HIDE DEF t
  <1>6. /\ SameReceiver(state[h], t) /\ t.sw.seqno = state[h].sw.seqno
        /\ t.input = state[h].input
        /\ Covered(state[h]) \subseteq Covered(t)
    BY <1>1, <1>3, <1>5 DEF SameReceiver, SameSender
  <1>7. \A k \in 1..t.input : k < state[Peer(h)].rw.ackno \/ k \in Covered(t)
    BY <1>6, Facts DEF Outcome
  <1>8. state[h].sw.seqno <= t.sw.seqno
    BY <1>6, Facts
  <1>9. Outcome(h, t) /\ Moved(h, t)
    BY <1>5, <1>6, <1>7, <1>8, SenderOutcome
  <1>10. Received(h, i, t)
    BY <1>6, PlainReceived DEF ReceiveFin, Expected, SameReceiver
  <1>11. Emits(state[h], t)
    BY <1>1, <1>3, <1>5, RepeatsTwice DEF Emits
  <1>12. QED
    BY <1>4, <1>9, <1>10, <1>11 DEF Callback

\* Data received before.
LEMMA ReceiveDuplicateStep ==
  ASSUME IInv, NEW h \in Host, NEW i \in 1..Len(net[h]), Arrives(h, i),
         ReceiveDuplicate(h, i)
  PROVE  Callback(h)
  <1> DEFINE c == Checked(h, i)
             t == SEND_ACK(c)
  <1>1. /\ Ready(h, c) /\ SameSender(state[h], c) /\ SameReceiver(state[h], c)
        /\ Covered(c) = Covered(state[h]) /\ Repeats(state[h], c)
    BY CheckedFacts
  <1>2. TH_ACK \in {TH_ACK, FIN_ACK}
    OBVIOUS
  <1> HIDE DEF c
  <1>3. /\ Ready(h, t) /\ SameSender(c, t) /\ SameReceiver(c, t)
        /\ Covered(t) = Covered(c) /\ Repeats(c, t)
    BY <1>1, <1>2, DirectSend DEF SEND_ACK
  <1>4. Consumes(h, i, t)
    BY DEF ReceiveDuplicate, c
  <1> HIDE DEF t
  <1>5. /\ SameReceiver(state[h], t) /\ t.sw.seqno = state[h].sw.seqno
        /\ t.input = state[h].input /\ Covered(state[h]) = Covered(t)
    BY <1>1, <1>3 DEF SameReceiver, SameSender
  <1>6. \A k \in 1..t.input : k < state[Peer(h)].rw.ackno \/ k \in Covered(t)
    BY <1>5, Facts DEF Outcome
  <1>7. state[h].sw.seqno <= t.sw.seqno
    BY <1>5, Facts
  <1>8. Outcome(h, t) /\ Moved(h, t)
    BY <1>3, <1>5, <1>6, <1>7, SenderOutcome
  <1>9. Received(h, i, t)
    <2>1. t.status = state[h].status /\ t.rw.ackno = state[h].rw.ackno
      BY <1>5 DEF SameReceiver
    <2>2. ~ (net[h][i].seqno = state[h].rw.ackno)
      <3>1. net[h][i].seqno < state[h].rw.ackno
        BY DEF ReceiveDuplicate
      <3>2. net[h][i].seqno \in Nat /\ state[h].rw.ackno \in Nat
        BY Facts, MessageFacts DEF Message
      <3>3. QED
        BY <3>1, <3>2
    <2>3. QED
      BY <2>1, <2>2, PlainReceived DEF Expected
  <1>10. Emits(state[h], t)
    BY <1>1, <1>3, RepeatsTwice DEF Emits
  <1>11. QED
    BY <1>4, <1>8, <1>9, <1>10 DEF Callback

\* An acknowledgement confirms nothing the peer has not received.
LEMMA AcknowledgeOutcome ==
  ASSUME IInv, NEW h \in Host, NEW i \in 1..Len(net[h]), NEW c, Ready(h, c),
         SameSender(state[h], c), SameReceiver(state[h], c),
         Covered(c) = Covered(state[h]), Repeats(state[h], c)
  PROVE  /\ Outcome(h, Acknowledge(c, net[h][i]))
         /\ Moved(h, Acknowledge(c, net[h][i]))
         /\ Emits(state[h], Acknowledge(c, net[h][i]))
         /\ Acknowledge(c, net[h][i]).status = state[h].status
         /\ Acknowledge(c, net[h][i]).rw = state[h].rw
  <1> DEFINE m == net[h][i]
             t == Acknowledge(c, m)
  <1>1. m \in Message /\ m \in SentBy(state[Peer(h)])
    BY MessageFacts
  <1> HIDE DEF m
  <1>2. /\ Ready(h, t) /\ SameReceiver(c, t) /\ t.sw.seqno = c.sw.seqno
        /\ t.input = c.input
        /\ \A k \in Covered(c) : k < m.ackno \/ k \in Covered(t)
        /\ Repeats(c, t)
    BY <1>1, Acknowledged
  <1> HIDE DEF t
  <1>3. /\ SameReceiver(state[h], t) /\ t.sw.seqno = state[h].sw.seqno
        /\ t.input = state[h].input
    BY <1>2 DEF SameReceiver, SameSender
  <1>4. m.ackno \in Nat /\ m.ackno <= state[Peer(h)].rw.ackno
        /\ state[Peer(h)].rw.ackno \in Nat
    BY <1>1, Facts DEF SentBy, Message
  <1>5. ASSUME NEW k \in 1..t.input
        PROVE  k < state[Peer(h)].rw.ackno \/ k \in Covered(t)
    <2>1. k < state[Peer(h)].rw.ackno \/ k \in Covered(c)
      BY <1>3, Facts DEF Outcome
    <2>2. k < m.ackno => k < state[Peer(h)].rw.ackno
      BY <1>4
    <2>3. QED
      BY <1>2, <2>1, <2>2
  <1>6. state[h].sw.seqno <= t.sw.seqno
    BY <1>3, Facts
  <1>7. /\ Emits(state[h], t)
        /\ t.status = state[h].status /\ t.rw = state[h].rw
    BY <1>2, <1>3, RepeatsTwice DEF Emits, SameReceiver
  <1>8. QED
    BY <1>2, <1>3, <1>5, <1>6, <1>7, SenderOutcome DEF t, m

\* An ACK.
LEMMA ReceiveAckStep ==
  ASSUME IInv, NEW h \in Host, NEW i \in 1..Len(net[h]), Arrives(h, i),
         ReceiveAck(h, i)
  PROVE  Callback(h)
  <1> DEFINE t == Acknowledge(Checked(h, i), net[h][i])
  <1>1. /\ Outcome(h, t) /\ Moved(h, t) /\ Emits(state[h], t)
        /\ t.status = state[h].status /\ t.rw = state[h].rw
    BY CheckedFacts, AcknowledgeOutcome
  <1>2. Consumes(h, i, t) /\ net[h][i].data = <<>>
    BY DEF ReceiveAck
  <1> HIDE DEF t
  <1>3. Received(h, i, t)
    BY <1>1, <1>2, PlainReceived DEF Expected
  <1>4. QED
    BY <1>1, <1>2, <1>3 DEF Callback

\* A FIN-ACK.
LEMMA ReceiveFinAckStep ==
  ASSUME IInv, NEW h \in Host, NEW i \in 1..Len(net[h]), Arrives(h, i),
         ReceiveFinAck(h, i)
  PROVE  Callback(h)
  <1> DEFINE c == Checked(h, i)
             x == [c EXCEPT !.teardown = TRUE]
  <1>1. /\ Ready(h, c) /\ SameSender(state[h], c) /\ SameReceiver(state[h], c)
        /\ Covered(c) = Covered(state[h]) /\ c \in State
        /\ Repeats(state[h], c)
    BY CheckedFacts
  <1>2. Consumes(h, i, Acknowledge(x, net[h][i])) /\ net[h][i].data = <<>>
    BY DEF ReceiveFinAck
  <1> HIDE DEF c
  <1>3. x \in State /\ x.sw = c.sw /\ x.input = c.input /\ x.wire = c.wire
    BY <1>1 DEF State
  <1>4. SameReceiver(c, x)
    BY <1>1 DEF State, SameReceiver
  <1> HIDE DEF x
  <1>5. SameSender(c, x)
    BY <1>3 DEF SameSender
  <1>6. Ready(h, x) /\ Covered(x) = Covered(c)
    BY <1>1, <1>3, <1>4, <1>5, FlagsChanged
  <1>7. SameSender(state[h], x) /\ SameReceiver(state[h], x)
    BY <1>1, <1>4, <1>5 DEF SameSender, SameReceiver
  <1>8. Repeats(state[h], x)
    BY <1>1, <1>3, <1>5, SameRepeats, RepeatsTwice
  <1> DEFINE t == Acknowledge(x, net[h][i])
  <1>9. /\ Outcome(h, t) /\ Moved(h, t) /\ Emits(state[h], t)
        /\ t.status = state[h].status /\ t.rw = state[h].rw
    BY <1>1, <1>6, <1>7, <1>8, AcknowledgeOutcome
  <1> HIDE DEF t
  <1>10. Received(h, i, t)
    BY <1>2, <1>9, PlainReceived DEF Expected
  <1>11. QED
    BY <1>2, <1>9, <1>10 DEF Callback, t

\* A receiver that changes its list, size, ackno or status, and no sender.
LEMMA ReceiverReady ==
  ASSUME NEW h \in Host, NEW s, NEW t, Ready(h, s), t \in State,
         t.sw = s.sw, t.input = s.input, t.wire = s.wire,
         t.rw.max_size = s.rw.max_size, s.rw.ackno <= t.rw.ackno
  PROVE  Ready(h, t) /\ Covered(t) = Covered(s) /\ SameSender(s, t)
  <1>1. HostInv(h, s) /\ s \in State
    BY DEF Ready, HostInv
  <1>2. SameSender(s, t)
    BY DEF SameSender
  <1>3. s.sw.seqno <= t.sw.seqno
    BY <1>1, ReadyTypes
  <1>4. SentBy(s) \subseteq SentBy(t)
    BY <1>1, <1>3, SentByGrows
  <1>5. t.wire \in Seq(SentBy(t))
    BY <1>1, <1>4, SeqMono DEF HostInv
  <1>6. QED
    BY <1>2, <1>5, ReadyKept

\* The expected data.
LEMMA ReceiveInOrderStep ==
  ASSUME IInv, NEW h \in Host, NEW i \in 1..Len(net[h]), Arrives(h, i),
         ReceiveInOrder(h, i)
  PROVE  Callback(h)
  <1> DEFINE m == net[h][i]
             s == Checked(h, i)
             l == Len(m.data)
             t == [s EXCEPT !.rw.segments = Append(@, m),
                            !.rw.size = @ + Len(m.data),
                            !.rw.ackno = @ + Len(m.data)]
             a == SEND_ACK(t)
  <1>1. /\ Ready(h, s) /\ s \in State /\ SameSender(state[h], s)
        /\ SameReceiver(state[h], s) /\ Covered(s) = Covered(state[h])
    BY CheckedFacts
  <1>2. m \in Message /\ m \in SentBy(state[Peer(h)])
    BY MessageFacts
  <1>3. /\ m.data # <<>> /\ m.seqno = s.rw.ackno /\ state[h].status = "up"
        /\ Repeats(state[h], s)
    BY CheckedFacts DEF ReceiveInOrder, Arrives
  <1>4. CASE ~ Fits(s, m)
    <2>1. Consumes(h, i, s)
      BY <1>4 DEF ReceiveInOrder
    <2>6. Received(h, i, s)
      <3>1. s.status = state[h].status /\ s.rw = state[h].rw
        BY <1>1 DEF SameReceiver
      <3>2. s.rw.size = 0 /\ s.rw.max_size = Window[h]
        BY <1>3, <3>1, Facts DEF PairInv, OutputInv, HostInv
      <3>3. Len(m.data) \in Nat /\ Window[h] \in Nat
        BY <1>2, SizeAssumption DEF Message
      <3>4. ~ (Len(m.data) <= Window[h])
        BY <1>4, <3>2, <3>3 DEF Fits
      <3>5. QED
        BY <3>1, <3>4, PlainReceived DEF Expected
    <2>2. \A k \in 1..s.input : k < state[Peer(h)].rw.ackno \/ k \in Covered(s)
      BY <1>1, Facts DEF Outcome, SameSender
    <2>3. state[h].sw.seqno <= s.sw.seqno
      BY <1>1, Facts DEF SameSender
    <2> HIDE DEF s
    <2>4. Outcome(h, s) /\ Moved(h, s)
      BY <1>1, <2>2, <2>3, SenderOutcome DEF SameSender
    <2>5. QED
      BY <1>3, <2>1, <2>4, <2>6 DEF Callback, Emits
  <1>5. CASE Fits(s, m)
    <2>1. PICK w \in Writes : Consumes(h, i, ctcp_output(a, w))
      BY <1>5 DEF ReceiveInOrder
    <2>2. OutputInv(s) /\ s.status = "up"
      <3>1. OutputInv(state[h])
        BY Facts DEF Outcome
      <3>2. QED
        BY <1>1, <1>3, <3>1, OutputKept DEF SameReceiver
    <2> HIDE DEF s
    <2>3. s.rw.segments = <<>> /\ s.rw.size = 0
      BY <2>2 DEF OutputInv
    <2>4. /\ s.rw.ackno \in Nat /\ s.rw \in RecvWindow /\ l \in Nat /\ l # 0
          /\ m.seqno \in Nat /\ 1 <= m.seqno /\ m.data \in Seq(Nat)
          /\ l <= MAX_SEG_DATA_SIZE /\ m.data = Bytes(m.seqno - 1, l)
          /\ m.seqno + l <= state[Peer(h)].sw.seqno
      <3>1. s.rw.ackno \in Nat /\ s.rw \in RecvWindow
        BY <1>1 DEF State, RecvWindow
      <3> HIDE DEF m
      <3>2. l \in Nat /\ m.seqno \in Nat /\ m.data \in Seq(Nat)
        BY <1>2 DEF Message
      <3>3. l # 0
        BY <1>3, <3>2
      <3>4. /\ 1 <= m.seqno /\ l <= MAX_SEG_DATA_SIZE
            /\ m.data = Bytes(m.seqno - 1, l)
            /\ m.seqno + l <= state[Peer(h)].sw.seqno
        BY <1>2 DEF SentBy, End
      <3>5. QED
        BY <3>1, <3>2, <3>3, <3>4
    <2> DEFINE rw == [s.rw EXCEPT !.segments = <<m>>, !.size = l,
                                  !.ackno = s.rw.ackno + l]
    <2>5. t = [s EXCEPT !.rw = rw]
      <3>1. Append(s.rw.segments, m) = <<m>> /\ s.rw.size + l = l
        BY <2>3, <2>4
      <3>2. QED
        BY <1>1, <3>1 DEF State
    <2> HIDE DEF l, m, t
    <2>6. /\ rw \in RecvWindow /\ rw.segments = <<m>> /\ rw.size = l
          /\ rw.ackno = s.rw.ackno + l /\ rw.max_size = s.rw.max_size
      <3>1. <<m>> \in Seq(Message) /\ s.rw.ackno + l \in Nat
        BY <1>2, <2>4
      <3>2. rw \in RecvWindow
        BY <2>4, <3>1 DEF RecvWindow
      <3>3. /\ rw.segments = <<m>> /\ rw.size = l
            /\ rw.ackno = s.rw.ackno + l /\ rw.max_size = s.rw.max_size
        BY <2>4 DEF RecvWindow
      <3>4. QED
        BY <3>2, <3>3
    <2> HIDE DEF rw
    <2>7. /\ t \in State /\ t.rw = rw /\ t.sw = s.sw /\ t.input = s.input
          /\ t.wire = s.wire /\ t.output = s.output
          /\ t.out_queue = s.out_queue
          /\ (t.wrote_eof <=> s.wrote_eof) /\ (t.wrote_err <=> s.wrote_err)
          /\ t.status = s.status
      BY <1>1, <2>5, <2>6 DEF State
    <2>8. s.rw.ackno <= t.rw.ackno
      BY <2>4, <2>6, <2>7
    <2>9. Ready(h, t) /\ Covered(t) = Covered(s) /\ SameSender(s, t)
      BY <1>1, <2>6, <2>7, <2>8, ReceiverReady
    <2>10. /\ Ready(h, a) /\ SameSender(t, a) /\ SameReceiver(t, a)
           /\ Covered(a) = Covered(t) /\ Repeats(t, a)
      <3>1. TH_ACK \in {TH_ACK, FIN_ACK}
        OBVIOUS
      <3>2. QED
        BY <2>9, <3>1, DirectSend DEF SEND_ACK
    <2> HIDE DEF a
    <2> DEFINE p == m.seqno - 1
    <2>11. /\ a.rw.segments = <<m>> /\ a.rw.size = l
           /\ a.rw.ackno = s.rw.ackno + l
      BY <2>6, <2>7, <2>10 DEF SameReceiver
    <2>12. p \in Nat /\ a.rw.ackno - 1 = p + l /\ m.seqno < a.rw.ackno
      BY <1>3, <2>4, <2>11
    <2>13. ~ StdoutBlocks => /\ a.out_queue = <<>> /\ ~ a.wrote_eof
                             /\ ~ a.wrote_err /\ a.output = Bytes(0, p)
      BY <1>3, <2>2, <2>7, <2>10 DEF OutputInv, SameReceiver
    <2>14. m.data = Bytes(p, l)
      BY <2>4
    <2> HIDE DEF p
    <2> DEFINE o == ctcp_output(a, w)
    <2>15. /\ Ready(h, o) /\ OutputInv(o) /\ SameSender(a, o)
           /\ Covered(o) = Covered(a) /\ o.rw.ackno = a.rw.ackno
           /\ o.status = a.status /\ Repeats(a, o)
           /\ \/ Out(o) = Out(a)
              \/ \E k \in 0..l : Out(o) = Out(a) \o Bytes(p, k)
      <3>1. /\ m \in Message /\ Ready(h, a) /\ m.data # <<>>
            /\ a.rw.segments = <<m>> /\ a.rw.size = Len(m.data)
            /\ Len(m.data) <= MAX_SEG_DATA_SIZE
            /\ m.data = Bytes(p, Len(m.data))
            /\ a.rw.ackno - 1 = p + Len(m.data)
        BY <1>2, <1>3, <2>4, <2>10, <2>11, <2>12, <2>14 DEF l
      <3> HIDE DEF Ready
      <3>2. QED
        BY <2>12, <2>13, <3>1, OutputOne, SMTT(30) DEF l
    <2> HIDE DEF o
    <2>16. /\ o.sw.seqno = state[h].sw.seqno /\ o.input = state[h].input
           /\ Covered(o) = Covered(state[h])
      BY <1>1, <2>9, <2>10, <2>15 DEF SameSender
    <2>17. /\ state[h].rw.ackno <= o.rw.ackno
           /\ o.rw.ackno <= state[Peer(h)].sw.seqno
      <3>1. state[h].rw.ackno = s.rw.ackno
        BY <1>1 DEF SameReceiver
      <3>2. QED
        BY <1>3, <2>4, <2>11, <2>15, <3>1
    <2>18. Outcome(h, o)
      BY <2>15, <2>16, <2>17, Facts DEF Outcome
    <2>19. /\ state[h].rw.ackno = s.rw.ackno /\ o.status = state[h].status
           /\ p = s.rw.ackno - 1
      BY <1>1, <1>3, <2>7, <2>10, <2>15 DEF SameReceiver, p
    <2>20. Out(a) = Out(state[h])
      <3>1. /\ a.output = state[h].output
            /\ a.out_queue = state[h].out_queue
        BY <1>1, <2>7, <2>10 DEF SameReceiver
      <3>2. QED
        BY <3>1, OutSame
    <2>21. Taken(state[h], o)
      <3>1. ASSUME NEW k \in 0..l, Out(o) = Out(a) \o Bytes(p, k)
            PROVE  Taken(state[h], o)
        <4>1. k \in Nat /\ s.rw.ackno + k <= o.rw.ackno
          BY <2>4, <2>11, <2>15
        <4>2. Out(o) = Out(state[h]) \o Bytes(state[h].rw.ackno - 1, k)
          BY <2>19, <2>20, <3>1
        <4>3. QED
          BY <2>19, <4>1, <4>2 DEF Taken
      <3>2. QED
        BY <2>15, <2>20, <3>1 DEF Taken
    <2>22. Moved(h, o)
      <3>1. l \in 1..MAX_SEG_DATA_SIZE
        BY <2>4, SizeAssumption
      <3>2. o.input = state[h].input /\ o.rw.ackno = state[h].rw.ackno + l
        BY <2>11, <2>15, <2>16, <2>19
      <3>3. QED
        BY <2>19, <2>21, <3>1, <3>2 DEF Moved
    <2>23. Emits(state[h], o)
      <3>1. Repeats(s, t)
        BY <2>7, <2>9, SameRepeats
      <3>2. QED
        BY <1>3, <2>10, <2>15, <3>1, RepeatsTwice DEF Emits
    <2>24. Received(h, i, o)
      <3>1. o.rw.ackno = End(m)
        BY <1>3, <2>4, <2>11, <2>15 DEF End, l
      <3>2. o.status # "crashed"
        BY <1>3, <2>19
      <3>3. Len(m.data) <= Window[h]
        <4>1. s.rw.max_size = Window[h]
          BY <1>1 DEF Ready, HostInv
        <4>2. Window[h] \in Nat
          BY SizeAssumption
        <4>3. QED
          BY <1>5, <2>3, <4>1, <4>2 DEF Fits
      <3>4. Expected(h, m)
        BY <1>3, <2>19, <3>3 DEF Expected, ReceiveInOrder, m
      <3>5. QED
        BY <3>1, <3>2, <3>4 DEF Received, m
    <2>25. QED
      BY <2>1, <2>18, <2>22, <2>23, <2>24 DEF o, Callback
  <1>6. QED
    BY <1>4, <1>5

\* Data from beyond the expected: the host is not up any more, or ignores it.
LEMMA ReceiveFutureStep ==
  ASSUME IInv, NEW h \in Host, NEW i \in 1..Len(net[h]), Arrives(h, i),
         ReceiveFuture(h, i)
  PROVE  Callback(h)
  <1> DEFINE m == net[h][i]
             s == Checked(h, i)
             x == [s EXCEPT !.rw.segments = Append(@, m), !.status = "crashed"]
             t == IF Fits(s, m) THEN x ELSE s
  <1>1. /\ Ready(h, s) /\ s \in State /\ SameSender(state[h], s)
        /\ SameReceiver(state[h], s) /\ Covered(s) = Covered(state[h])
        /\ Repeats(state[h], s)
    BY CheckedFacts
  <1>2. m \in Message /\ m \in SentBy(state[Peer(h)])
    BY MessageFacts
  <1>9. m.data # <<>> /\ m.seqno > state[h].rw.ackno
    BY <1>1 DEF ReceiveFuture, SameReceiver
  <1>3. Consumes(h, i, t)
    BY DEF ReceiveFuture
  <1>4. OutputInv(s)
    BY <1>1, Facts, OutputKept DEF Outcome
  <1> HIDE DEF s, m
  <1>5. /\ Ready(h, x) /\ Covered(x) = Covered(s) /\ SameSender(s, x)
        /\ OutputInv(x) /\ x.rw.ackno = s.rw.ackno
        /\ x.output = s.output /\ x.out_queue = s.out_queue
        /\ Repeats(s, x)
    <2> DEFINE rw == [s.rw EXCEPT !.segments = Append(s.rw.segments, m)]
    <2>1. s.rw \in RecvWindow /\ s.rw.ackno \in Nat
      BY <1>1 DEF State, RecvWindow
    <2>2. Append(s.rw.segments, m) \in Seq(Message)
      BY <1>2, <2>1 DEF RecvWindow
    <2>3. x = [s EXCEPT !.rw = rw, !.status = "crashed"]
      BY <1>1 DEF State
    <2> HIDE DEF x
    <2>4. rw \in RecvWindow /\ rw.ackno = s.rw.ackno
          /\ rw.max_size = s.rw.max_size
      BY <2>1, <2>2 DEF RecvWindow
    <2> HIDE DEF rw
    <2>5. /\ x \in State /\ x.rw = rw /\ x.sw = s.sw /\ x.input = s.input
          /\ x.wire = s.wire /\ x.output = s.output
          /\ x.out_queue = s.out_queue /\ x.status = "crashed"
          /\ (x.wrote_eof <=> s.wrote_eof) /\ (x.wrote_err <=> s.wrote_err)
      BY <1>1, <2>3, <2>4 DEF State
    <2>6. s.rw.ackno <= x.rw.ackno /\ x.rw.max_size = s.rw.max_size
      BY <2>1, <2>4, <2>5
    <2>7. Ready(h, x) /\ Covered(x) = Covered(s) /\ SameSender(s, x)
      BY <1>1, <2>5, <2>6, ReceiverReady
    <2>8. OutputInv(x)
      BY <1>4, <2>4, <2>5 DEF OutputInv
    <2>9. QED
      BY <2>4, <2>5, <2>7, <2>8, SameRepeats
  <1> HIDE DEF x
  <1>6. /\ Ready(h, t) /\ OutputInv(t) /\ Covered(t) = Covered(state[h])
        /\ t.sw.seqno = state[h].sw.seqno /\ t.input = state[h].input
        /\ t.rw.ackno = state[h].rw.ackno
        /\ t.output = state[h].output /\ t.out_queue = state[h].out_queue
        /\ Repeats(state[h], t)
    <2>1. CASE t = s
      BY <1>1, <1>4, <2>1 DEF SameSender, SameReceiver
    <2>2. CASE t = x
      <3>1. Repeats(state[h], x)
        BY <1>1, <1>5, RepeatsTwice
      <3>2. QED
        BY <1>1, <1>5, <2>2, <3>1 DEF SameSender, SameReceiver
    <2>3. QED
      BY <2>1, <2>2
  <1> HIDE DEF t
  <1>7. Outcome(h, t)
    BY <1>6, Facts DEF Outcome
  <1>8. Moved(h, t)
    BY <1>6, OutSame DEF Moved, Taken
  <1>10. Received(h, i, t)
    <2>1. m.seqno \in Nat /\ state[h].rw.ackno \in Nat
      BY <1>2, Facts DEF Message
    <2>2. ~ (m.seqno = state[h].rw.ackno)
      BY <1>9, <2>1
    <2>3. ~ Expected(h, m)
      BY <2>2 DEF Expected
    <2>4. QED
      BY <1>6, <1>9, <2>3 DEF Received, m
  <1>11. QED
    BY <1>3, <1>6, <1>7, <1>8, <1>10 DEF Callback, Emits

-----------------------------------------------------------------------------
(* conn_drain, ctcp_timer and the network.                                 *)

\* Draining the output queue.
LEMMA ConnDrainStep ==
  ASSUME IInv, NEW h \in Host, ConnDrain(h)
  PROVE  Callback(h)
  <1> DEFINE s == state[h]
  <1>1. PICK n \in 0..Len(s.out_queue), failed \in BOOLEAN, w \in Writes :
          /\ n > 0 \/ failed
          /\ failed => n < Len(s.out_queue)
          /\ Sends(h, IF n > 0 THEN ctcp_output(Drained(s, n, failed), w)
                      ELSE Drained(s, n, failed))
    BY DEF ConnDrain
  <1> DEFINE d == Drained(s, n, failed)
             out == s.output \o SubSeq(s.out_queue, 1, n)
             queue == SubSeq(s.out_queue, n + 1, Len(s.out_queue))
             ends == s.chunk_ends \ {s.out_queue[k] : k \in 1..n}
             poll == n > 0 /\ s.out_queue[n] \notin s.chunk_ends
             err == failed \/ (s.wrote_eof /\ queue = <<>>)
  <1>2. Ready(h, s) /\ s \in State /\ OutputInv(s) /\ s.status = "up"
    BY Facts DEF Outcome, ConnDrain
  <1>3. s.output \in Seq(Nat) /\ s.out_queue \in Seq(Nat)
        /\ s.chunk_ends \in SUBSET Nat
    BY <1>2 DEF State
  <1>4. SubSeq(s.out_queue, 1, n) \in Seq(Nat) /\ queue \in Seq(Nat)
    <2> DEFINE q == s.out_queue
    <2>1. q \in Seq(Nat) /\ n \in 0..Len(q)
      BY <1>3
    <2> HIDE DEF q
    <2>2. SubSeq(q, 1, n) \in Seq(Nat) /\ SubSeq(q, n + 1, Len(q)) \in Seq(Nat)
      BY <2>1, SubSeqType
    <2>3. QED
      BY <2>2 DEF q
  <1>5. out \in Seq(Nat) /\ ends \in SUBSET Nat /\ poll \in BOOLEAN
        /\ err \in BOOLEAN
    BY <1>3, <1>4
  <1>6. d = [s EXCEPT !.output = out, !.out_queue = queue, !.chunk_ends = ends,
                      !.pollout = poll, !.wrote_err = err]
    BY DEF Drained
  <1> HIDE DEF d, out, queue, ends, poll, err
  <1>7. /\ d \in State /\ d.sw = s.sw /\ d.rw = s.rw /\ d.input = s.input
        /\ d.wire = s.wire /\ d.status = s.status
    BY <1>2, <1>4, <1>5, <1>6 DEF State
  <1>8. d.rw.segments = <<>> /\ d.rw.size = 0
    BY <1>2, <1>7 DEF OutputInv
  <1>9. Sends(h, d)
    <2>1. ctcp_output(d, w) = d
      BY <1>8 DEF ctcp_output
    <2>2. QED
      BY <1>1, <2>1 DEF d
  <1>10. StdoutBlocks
    <2>1. SUFFICES ASSUME s.out_queue = <<>> PROVE FALSE
      BY <1>2 DEF OutputInv
    <2>2. Len(s.out_queue) = 0
      BY <2>1
    <2>3. QED
      BY <1>1, <2>2
  <1>11. OutputInv(d)
    BY <1>8, <1>10 DEF OutputInv
  <1>12. s.rw.ackno <= d.rw.ackno
    <2>1. s.rw \in RecvWindow
      BY <1>2 DEF State
    <2>2. s.rw.ackno \in Nat
      BY <2>1 DEF RecvWindow
    <2>3. QED
      BY <2>2, <1>7
  <1>13. Ready(h, d) /\ Covered(d) = Covered(s)
    BY <1>2, <1>7, <1>12, ReceiverReady
  <1>14. Outcome(h, d)
    BY <1>7, <1>11, <1>13, Facts DEF Outcome
  <1>15. Out(d) = Out(s)
    <2> DEFINE a == s.output
               b == s.out_queue
    <2>1. d.output = out /\ d.out_queue = queue
      BY <1>2, <1>6 DEF State
    <2>2. a \in Seq(Nat) /\ b \in Seq(Nat) /\ n \in 0..Len(b)
      BY <1>3
    <2>3. out = a \o SubSeq(b, 1, n) /\ queue = SubSeq(b, n + 1, Len(b))
      BY DEF out, queue
    <2> HIDE DEF a, b
    <2>4. out \o queue = a \o b
      <3>1. BorderMoved(a, b, n, out, queue)
        BY <2>3 DEF BorderMoved
      <3>2. SameStream(out, queue, a, b)
        BY <2>2, <3>1, BorderSame
      <3>3. QED
        BY <3>2 DEF SameStream
    <2>5. QED
      BY <2>1, <2>4 DEF Out, a, b
  <1>16. Moved(h, d)
    BY <1>7, <1>15 DEF Moved, Taken
  <1>17. NotReceived(h, d)
    BY <1>2, <1>7 DEF NotReceived
  <1>18. Emits(s, d)
    BY <1>7 DEF Emits, Repeats
  <1>19. QED
    BY <1>9, <1>14, <1>16, <1>17, <1>18 DEF Callback

\* A timer destroys the connection of a host that is up.
LEMMA DestroyStep ==
  ASSUME IInv, NEW h \in Host, state[h].status = "up",
         Sends(h, ctcp_destroy(state[h]))
  PROVE  Callback(h)
  <1> DEFINE s == state[h]
             t == ctcp_destroy(s)
  <1>1. Ready(h, s) /\ s \in State /\ OutputInv(s)
    BY Facts DEF Outcome
  <1>2. t = [s EXCEPT !.status = "closed"]
    BY DEF ctcp_destroy
  <1> HIDE DEF t
  <1>3. /\ t \in State /\ t.rw = s.rw /\ t.sw = s.sw /\ t.input = s.input
        /\ t.wire = s.wire /\ t.output = s.output
        /\ t.out_queue = s.out_queue /\ t.status = "closed"
        /\ (t.wrote_eof <=> s.wrote_eof) /\ (t.wrote_err <=> s.wrote_err)
    BY <1>1, <1>2 DEF State
  <1>4. s.rw.ackno <= t.rw.ackno
    <2>1. s.rw \in RecvWindow
      BY <1>1 DEF State
    <2>2. s.rw.ackno \in Nat
      BY <2>1 DEF RecvWindow
    <2>3. t.rw.ackno = s.rw.ackno
      BY <1>3
    <2>4. QED
      BY <2>2, <2>3
  <1>5. Ready(h, t) /\ Covered(t) = Covered(s)
    BY <1>1, <1>3, <1>4, ReceiverReady
  <1>6. OutputInv(t)
    BY <1>1, <1>3 DEF OutputInv
  <1>7. Outcome(h, t)
    BY <1>3, <1>5, <1>6, Facts DEF Outcome
  <1>8. Moved(h, t)
    BY <1>3, OutSame DEF Moved, Taken
  <1>9. Emits(s, t) /\ NotReceived(h, t)
    BY <1>3 DEF Emits, Repeats, NotReceived
  <1>10. QED
    BY <1>3, <1>7, <1>8, <1>9 DEF t, Callback

\* A timer retransmits.
LEMMA RetransStep ==
  ASSUME IInv, NEW h \in Host, TimerRetrans(h)
  PROVE  Callback(h)
  <1> DEFINE s == state[h]
             t == ctcp_retrans([s EXCEPT !.sw.retrans_counter = @ + 1])
  <1>1. Ready(h, s)
    BY Facts
  <1>2. s.sw.segments # {} /\ s.sw.retrans_counter < MAX_TRIES
    BY <1>1 DEF TimerRetrans, Ready
  <1>3. Sends(h, t)
    BY DEF TimerRetrans
  <1> HIDE DEF s
  <1>4. /\ Ready(h, t) /\ SameReceiver(s, t) /\ t.sw.seqno = s.sw.seqno
        /\ t.input = s.input /\ Covered(s) \subseteq Covered(t)
        /\ Repeats(s, t) /\ s.status = "up"
    BY <1>1, <1>2, Retransmitted DEF TimerRetrans, s
  <1> HIDE DEF t
  <1>5. \A k \in 1..t.input : k < state[Peer(h)].rw.ackno \/ k \in Covered(t)
    BY <1>4, Facts DEF Outcome, s
  <1>6. state[h].sw.seqno <= t.sw.seqno
    BY <1>4, Facts DEF s
  <1>7. Outcome(h, t) /\ Moved(h, t)
    BY <1>4, <1>5, <1>6, SenderOutcome DEF s
  <1>8. NotReceived(h, t) /\ Emits(s, t)
    BY <1>4 DEF SameReceiver, NotReceived, Emits, s
  <1>9. QED
    BY <1>3, <1>7, <1>8 DEF Callback, s

\* What is left of a sequence of elements of S.
LEMMA TailType ==
  ASSUME NEW S, NEW q \in Seq(S), q # <<>>
  PROVE  Tail(q) \in Seq(S)
  OBVIOUS

\* The host is gone and its segments are dropped.
LEMMA FilterStep ==
  ASSUME IInv, NEW h \in Host, RecvFilterDrop(h)
  PROVE  IInv' /\ state' = state
  <1> DEFINE q == Tail(net[h])
  <1>1. net[h] \in Seq(SentBy(state[Peer(h)])) /\ net[h] # <<>>
    BY Facts DEF RecvFilterDrop
  <1>2. q \in Seq(SentBy(state[Peer(h)]))
    BY <1>1, TailType
  <1>3. state' = state /\ net' = [net EXCEPT ![h] = q] /\ faults' \in Nat
    BY DEF RecvFilterDrop, IInv
  <1> HIDE DEF q
  <1>4. QED
    BY <1>2, <1>3, NetStep

\* A segment stays what its sender may have sent when it is delayed or
\* damaged.
LEMMA TamperedType ==
  ASSUME NEW s, NEW m \in SentBy(s)
  PROVE  /\ [m EXCEPT !.late = TRUE] \in SentBy(s)
         /\ [m EXCEPT !.ok = FALSE] \in SentBy(s)
  <1>1. m \in Message
    BY DEF SentBy
  <1>2. [m EXCEPT !.late = TRUE] \in Message /\ [m EXCEPT !.ok = FALSE] \in Message
    BY <1>1 DEF Message
  <1>3. QED
    BY <1>1, <1>2 DEF SentBy, Message, End

\* The unreliability options.
LEMMA UnreliableStep ==
  ASSUME IInv, NEW h \in Host, Unreliable(h)
  PROVE  IInv' /\ state' = state
  <1> DEFINE S == SentBy(state[Peer(h)])
  <1>1. PICK i \in 1..Len(net[h]) :
          Drop(h, i) \/ Duplicate(h, i) \/ Delay(h, i) \/ Corrupt(h, i)
    BY DEF Unreliable
  <1>2. net[h] \in Seq(S) /\ net \in [Host -> Seq(Message)]
    BY Facts DEF IInv
  <1>3. net[h][i] \in S
    BY <1>2
  <1>4. /\ [net[h][i] EXCEPT !.late = TRUE] \in S
        /\ [net[h][i] EXCEPT !.ok = FALSE] \in S
    BY <1>3, TamperedType
  <1>5. state' = state /\ faults' \in Nat
    BY <1>1 DEF Drop, Duplicate, Delay, Corrupt, Hits, IInv
  <1>6. CASE Drop(h, i)
    <2> DEFINE q == RemoveAt(net[h], i)
    <2>1. q \in Seq(S)
      BY <1>2, RemoveAtType
    <2>2. net' = [net EXCEPT ![h] = q]
      BY <1>6 DEF Drop
    <2> HIDE DEF q
    <2>3. QED
      BY <1>5, <2>1, <2>2, NetStep
  <1>7. CASE Duplicate(h, i)
    <2> DEFINE m == [net[h][i] EXCEPT !.late = TRUE]
               q == InsertAt(net[h], i + 1, m)
    <2>1. m \in S
      BY <1>4
    <2>2. net' = [net EXCEPT ![h] = q]
      BY <1>7 DEF Duplicate
    <2> HIDE DEF m
    <2>3. q \in Seq(S)
      BY <1>2, <2>1, InsertAtType
    <2> HIDE DEF q
    <2>4. QED
      BY <1>5, <2>2, <2>3, NetStep
  <1>8. CASE Delay(h, i)
    <2> DEFINE m == [net[h][i] EXCEPT !.late = TRUE]
               q == [net[h] EXCEPT ![i] = m]
    <2>1. net' = [net EXCEPT ![h] = q]
      BY <1>2, <1>8 DEF Delay
    <2>2. m \in S
      BY <1>4
    <2> HIDE DEF m
    <2>3. q \in Seq(S)
      BY <1>2, <2>2
    <2> HIDE DEF q
    <2>4. QED
      BY <1>5, <2>1, <2>3, NetStep
  <1>9. CASE Corrupt(h, i)
    <2> DEFINE m == [net[h][i] EXCEPT !.ok = FALSE]
               q == [net[h] EXCEPT ![i] = m]
    <2>1. net' = [net EXCEPT ![h] = q]
      BY <1>2, <1>9 DEF Corrupt
    <2>2. m \in S
      BY <1>4
    <2> HIDE DEF m
    <2>3. q \in Seq(S)
      BY <1>2, <2>2
    <2> HIDE DEF q
    <2>4. QED
      BY <1>5, <2>1, <2>3, NetStep
  <1>10. QED
    BY <1>1, <1>6, <1>7, <1>8, <1>9

-----------------------------------------------------------------------------
(* The invariant.                                                          *)

\* ctcp_init returns a state with empty windows.
LEMMA InitType ==
  ASSUME NEW h \in Host
  PROVE  ctcp_init(h) \in State
  <1> DEFINE s == ctcp_init(h)
  <1>1. Peer(h) \in Host /\ Window[h] \in Nat /\ Window[Peer(h)] \in Nat
    BY PeerFacts, SizeAssumption
  <1>2. s.sw \in SendWindow
    BY <1>1, SizeAssumption DEF ctcp_init, SendWindow, MAX_TRIES
  <1>3. s.rw \in RecvWindow
    BY <1>1 DEF ctcp_init, RecvWindow
  <1>4. QED
    BY <1>2, <1>3 DEF ctcp_init, State

\* A connection as ctcp_init leaves it satisfies all that the callbacks keep.
LEMMA InitHost ==
  ASSUME NEW h \in Host
  PROVE  /\ HostInv(h, ctcp_init(h)) /\ OutputInv(ctcp_init(h))
         /\ SentInv(ctcp_init(h))
  <1> DEFINE s == ctcp_init(h)
  <1>1. s \in State
    BY InitType
  <1>2. /\ s.sw.segments = {} /\ s.sw.size = 0 /\ s.input = 0
        /\ s.sw.seqno = 1 /\ s.rw.ackno = 1 /\ s.wire = <<>>
        /\ s.sw.max_size = Window[Peer(h)] /\ s.rw.max_size = Window[h]
        /\ s.rw.segments = <<>> /\ s.rw.size = 0
        /\ s.output = <<>> /\ s.out_queue = <<>> /\ ~ s.sw.timer
        /\ ~ s.wrote_eof /\ ~ s.wrote_err
    BY DEF ctcp_init
  <1>3. Window[Peer(h)] \in Nat /\ InputLen[h] \in Nat
    BY PeerFacts, SizeAssumption
  <1>4. DataLen({}) = 0
    <2>1. UNION {{g.node} \X DOMAIN g.data : g \in {}} = {}
      OBVIOUS
    <2>2. QED
      BY <2>1, FS_EmptySet DEF DataLen
  <1>5. Bytes(0, 0) = <<>>
    BY DEF Bytes
  <1> HIDE DEF s
  <1>6. ListInv(s)
    BY <1>2, FS_EmptySet DEF ListInv
  <1>7. s.wire \in Seq(SentBy(s))
    BY <1>2
  <1>8. HostInv(h, s)
    BY <1>1, <1>2, <1>3, <1>4, <1>6, <1>7 DEF HostInv
  <1>9. OutputInv(s)
    BY <1>2, <1>5 DEF OutputInv
  <1>10. SentInv(s)
    BY <1>2 DEF SentInv
  <1>11. QED
    BY <1>8, <1>9, <1>10 DEF s

\* The invariant holds when both connections are set up.
LEMMA InitInv == Init => IInv
  <1> SUFFICES ASSUME Init PROVE IInv
    OBVIOUS
  <1>1. state \in [Host -> State]
    BY InitType DEF Init
  <1>2. net \in [Host -> Seq(Message)]
    BY DEF Init
  <1>3. faults \in Nat
    BY EnvironmentAssumption DEF Init
  <1>4. ASSUME NEW h \in Host
        PROVE  /\ HostInv(h, state[h]) /\ OutputInv(state[h])
               /\ SentInv(state[h])
               /\ net[Peer(h)] \in Seq(SentBy(state[h]))
               /\ state[h].rw.ackno <= state[Peer(h)].sw.seqno
               /\ \A k \in 1..state[h].input :
                    k < state[Peer(h)].rw.ackno \/ k \in Covered(state[h])
    <2>1. Peer(h) \in Host
      BY PeerFacts
    <2>2. /\ state[h] = ctcp_init(h) /\ state[Peer(h)] = ctcp_init(Peer(h))
          /\ net[Peer(h)] = <<>>
      BY <2>1 DEF Init
    <2>3. state[h].rw.ackno = 1 /\ state[Peer(h)].sw.seqno = 1
          /\ state[h].input = 0
      BY <2>2 DEF ctcp_init
    <2>4. HostInv(h, state[h]) /\ OutputInv(state[h]) /\ SentInv(state[h])
      BY <2>2, InitHost
    <2>5. net[Peer(h)] \in Seq(SentBy(state[h]))
      BY <2>2
    <2>6. QED
      BY <2>3, <2>4, <2>5
  <1>5. QED
    BY <1>1, <1>2, <1>3, <1>4 DEF IInv

\* A step of the network alone.
Travels ==
  /\ state' = state
  /\ net' = net \/ \E h \in Host : RecvFilterDrop(h) \/ Unreliable(h)

\* Each step is a callback of a host, or the network's.
LEMMA StepCases ==
  ASSUME IInv, [Next]_vars
  PROVE  (\E h \in Host : Callback(h)) \/ (IInv' /\ Travels)
  <1>1. CASE UNCHANGED vars
    BY <1>1 DEF vars, IInv, Travels
  <1>2. ASSUME NEW h \in Host, CtcpReadData(h) PROVE Callback(h)
    BY <1>2, ReadDataStep
  <1>3. ASSUME NEW h \in Host, CtcpReadEmpty(h) PROVE Callback(h)
    BY <1>3, ReadEmptyStep
  <1>4. ASSUME NEW h \in Host, CtcpReadEof(h) PROVE Callback(h)
    BY <1>4, ReadEofStep
  <1>5. ASSUME NEW h \in Host, CtcpReceive(h) PROVE Callback(h)
    <2>1. PICK i \in 1..Len(net[h]) :
            /\ Arrives(h, i)
            /\ \/ ReceiveCorrupt(h, i)
               \/ ReceiveFin(h, i)
               \/ ReceiveDuplicate(h, i)
               \/ ReceiveInOrder(h, i)
               \/ ReceiveFuture(h, i)
               \/ ReceiveAck(h, i)
               \/ ReceiveFinAck(h, i)
      BY <1>5 DEF CtcpReceive
    <2>2. CASE ReceiveCorrupt(h, i)
      BY <2>1, <2>2, ReceiveCorruptStep
    <2>3. CASE ReceiveFin(h, i)
      BY <2>1, <2>3, ReceiveFinStep
    <2>4. CASE ReceiveDuplicate(h, i)
      BY <2>1, <2>4, ReceiveDuplicateStep
    <2>5. CASE ReceiveInOrder(h, i)
      BY <2>1, <2>5, ReceiveInOrderStep
    <2>6. CASE ReceiveFuture(h, i)
      BY <2>1, <2>6, ReceiveFutureStep
    <2>7. CASE ReceiveAck(h, i)
      BY <2>1, <2>7, ReceiveAckStep
    <2>8. CASE ReceiveFinAck(h, i)
      BY <2>1, <2>8, ReceiveFinAckStep
    <2>9. QED
      BY <2>1, <2>2, <2>3, <2>4, <2>5, <2>6, <2>7, <2>8
  <1>6. ASSUME NEW h \in Host, RecvFilterDrop(h) PROVE IInv' /\ Travels
    BY <1>6, FilterStep DEF Travels
  <1>7. ASSUME NEW h \in Host, ConnDrain(h) PROVE Callback(h)
    BY <1>7, ConnDrainStep
  <1>8. ASSUME NEW h \in Host, TimerTeardown(h) PROVE Callback(h)
    BY <1>8, DestroyStep DEF TimerTeardown
  <1>9. ASSUME NEW h \in Host, TimerGiveUp(h) PROVE Callback(h)
    BY <1>9, DestroyStep DEF TimerGiveUp
  <1>10. ASSUME NEW h \in Host, TimerRetrans(h) PROVE Callback(h)
    BY <1>10, RetransStep
  <1>11. ASSUME NEW h \in Host, Unreliable(h) PROVE IInv' /\ Travels
    BY <1>11, UnreliableStep DEF Travels
  <1>12. QED
    BY <1>1, <1>2, <1>3, <1>4, <1>5, <1>6, <1>7, <1>8, <1>9, <1>10, <1>11
       DEF Next

\* Each step of either host, of its timer or of the network keeps the
\* invariant.
LEMMA NextInv == IInv /\ [Next]_vars => IInv'
  <1> SUFFICES ASSUME IInv, [Next]_vars PROVE IInv'
    OBVIOUS
  <1>1. ASSUME NEW h \in Host, Callback(h) PROVE IInv'
    <2>1. PICK s : /\ Outcome(h, s)
                   /\ \/ Sends(h, s)
                      \/ \E i \in 1..Len(net[h]) : Consumes(h, i, s)
      BY <1>1 DEF Callback
    <2>2. QED
      BY <2>1, SendsStep, ConsumesStep
  <1>2. QED
    BY <1>1, StepCases

\* The inductive invariant holds throughout, for every window, segment and
\* buffer size, every input, and any number of faults of every kind.
THEOREM InvHolds == Spec => []IInv
  BY InitInv, NextInv, PTL DEF Spec

\* The state structures of ctcp.c keep their types: no size or counter of the
\* two windows goes below zero, and the retransmission counter stays within
\* MAX_TRIES.
THEOREM TypeCorrect == Spec => []TypeOK
  <1>1. IInv => TypeOK
    BY DEF IInv, TypeOK
  <1>2. QED
    BY <1>1, InvHolds, PTL

\* sw->size is the number of unacknowledged bytes and never exceeds the window
\* the peer announced in the handshake, although ctcp_read, ctcp_makeseg and
\* ctcp_receive keep it by hand.
THEOREM WindowRespected == Spec => []WindowAccounting
  <1>1. IInv => WindowAccounting
    BY DEF IInv, HostInv, WindowAccounting
  <1>2. QED
    BY <1>1, InvHolds, PTL

\* The retransmission timer of a host counts exactly while its send window
\* holds a segment, all of which ctcp_send has sent.
THEOREM TimerRight == Spec => []TimerCountsUnacked
  <1>1. IInv => TimerCountsUnacked
    BY DEF IInv, SentInv, TimerCountsUnacked
  <1>2. QED
    BY <1>1, InvHolds, PTL

\* No byte read from stdin leaves the send window before the peer has received
\* it, under every loss, delay, duplication and corruption: the sliding loop of
\* ctcp_receive never frees a segment too early.
THEOREM NothingForgotten == Spec => []UnreceivedIsKept
  <1>1. IInv => UnreceivedIsKept
    BY DEF IInv, Covered, UnreceivedIsKept
  <1>2. QED
    BY <1>1, InvHolds, PTL

\* ctcp_output always empties the receive window again before ctcp_receive
\* returns, so the out-of-order branch only ever meets an empty list.
THEOREM ReceiveWindowDrained == Spec => []RecvWindowEmpty
  <1>1. IInv => RecvWindowEmpty
    BY DEF IInv, OutputInv, RecvWindowEmpty
  <1>2. QED
    BY <1>1, InvHolds, PTL

\* When stdout takes all it is given, each host has written exactly the bytes
\* it acknowledged, which are the first ones its peer read from stdin: the
\* path ctcp_read, conn_send, ctcp_receive, ctcp_output loses, repeats and
\* misplaces nothing, whatever the network does.
THEOREM PrefixDelivered ==
  ASSUME ~ StdoutBlocks
  PROVE  Spec => []OutputIsPrefix
  <1>1. IInv => OutputIsPrefix
    <2> SUFFICES ASSUME IInv, NEW h \in Host
                 PROVE  /\ state[h].output = Bytes(0, state[h].rw.ackno - 1)
                        /\ Len(state[h].output) <= state[Peer(h)].input
      BY DEF OutputIsPrefix
    <2>1. state[h].output = Bytes(0, state[h].rw.ackno - 1)
      BY DEF IInv, OutputInv
    <2>2. Peer(h) \in Host
      BY PeerFacts
    <2>3. HostInv(h, state[h]) /\ HostInv(Peer(h), state[Peer(h)])
          /\ state[h].rw.ackno <= state[Peer(h)].sw.seqno
      BY <2>2 DEF IInv
    <2>4. /\ state[h].rw.ackno \in Nat /\ state[Peer(h)].sw.seqno \in Nat
      BY Facts
    <2>5. 1 <= state[h].rw.ackno
          /\ state[Peer(h)].input = state[Peer(h)].sw.seqno - 1
      BY <2>3 DEF HostInv
    <2> DEFINE n == state[h].rw.ackno - 1
    <2>6. n \in Nat /\ n <= state[Peer(h)].input
      BY <2>3, <2>4, <2>5
    <2> HIDE DEF n
    <2>7. Len(Bytes(0, n)) = n
      BY <2>6 DEF Bytes
    <2>8. QED
      BY <2>1, <2>6, <2>7 DEF n
  <1>2. QED
    BY <1>1, InvHolds, PTL
=============================================================================
