-------------------------- MODULE CtcpStreamProofs --------------------------
(***************************************************************************)
(* What the two hosts do to the streams: they implement ByteStream while   *)
(* stdout does not block, and their output is in order even if it does.    *)
(* Both rest on IInv and on Moved, which says what one callback may do.    *)
(*                                                                         *)
(* Then, when ctcp_receive meets data from beyond the expected, and dies:  *)
(* only while its peer has two pieces outstanding, and never on a network  *)
(* that neither loses nor delays.  Both rest on what travels being cut     *)
(* into the same pieces at all times, however often they are sent again.   *)
(***************************************************************************)
EXTENDS CtcpProofs

-----------------------------------------------------------------------------
(* Order of the output.                                                    *)

\* q is in order, and nothing in it is beyond what was acknowledged.
Ordered(q, ackno) ==
  /\ \A i, j \in 1..Len(q) : i < j => q[i] < q[j]
  /\ \A i \in 1..Len(q) : q[i] < ackno

\* Of every host: what it has handed to stdout, written or waiting.
OrderInv == \A h \in Host : Ordered(Out(state[h]), state[h].rw.ackno)

\* The next piece of the stream goes behind an ordered output.
LEMMA OrderedGrows ==
  ASSUME NEW q \in Seq(Nat), NEW a \in Nat, 1 <= a, Ordered(q, a),
         NEW k \in Nat, NEW b \in Nat, a + k <= b
  PROVE  Ordered(q \o Bytes(a - 1, k), b)
  <1> DEFINE p == Bytes(a - 1, k)
             r == q \o p
  <1>1. p \in Seq(Nat) /\ Len(p) = k /\ \A i \in 1..k : p[i] = a - 1 + i
    BY DEF Bytes
  <1> HIDE DEF p
  <1>2. r \in Seq(Nat) /\ IsConcat(q, p, r)
    BY <1>1, ConcatFacts
  <1> HIDE DEF r
  <1>3. /\ Len(r) = Len(q) + k /\ Len(q) \in Nat
        /\ \A i \in 1..Len(q) : r[i] = q[i]
        /\ \A i \in 1..k : r[Len(q) + i] = a - 1 + i
    <2>1. /\ Len(r) = Len(q) + Len(p) /\ Len(q) \in Nat
          /\ \A i \in 1..Len(q) : r[i] = q[i]
          /\ \A i \in 1..Len(p) : r[Len(q) + i] = p[i]
      BY <1>2 DEF IsConcat
    <2>2. \A i \in 1..k : r[Len(q) + i] = a - 1 + i
      BY <1>1, <2>1
    <2>3. QED
      BY <1>1, <2>1, <2>2
  <1>4. ASSUME NEW i \in 1..Len(r), ~(i \in 1..Len(q))
        PROVE  i - Len(q) \in 1..k /\ r[i] = a - 1 + (i - Len(q))
    <2>1. i - Len(q) \in 1..k /\ Len(q) + (i - Len(q)) = i
      BY <1>3, <1>4
    <2>2. QED
      BY <1>3, <2>1
  <1>5. \A i \in 1..Len(q) : r[i] = q[i] /\ q[i] \in Nat /\ q[i] < a
    BY <1>3 DEF Ordered
  <1>6. ASSUME NEW i \in 1..Len(r)
        PROVE  r[i] < b
    <2>1. CASE i \in 1..Len(q)
      BY <1>5, <2>1
    <2>2. CASE ~(i \in 1..Len(q))
      BY <1>4, <2>2
    <2>3. QED
      BY <2>1, <2>2
  <1>7. ASSUME NEW i \in 1..Len(r), NEW j \in 1..Len(r), i < j
        PROVE  r[i] < r[j]
    <2>1. CASE j \in 1..Len(q)
      <3>1. i \in 1..Len(q)
        BY <1>3, <1>7, <2>1
      <3>2. q[i] < q[j]
        BY <1>7, <2>1, <3>1 DEF Ordered
      <3>3. QED
        BY <1>5, <2>1, <3>1, <3>2
    <2>2. CASE ~(j \in 1..Len(q)) /\ i \in 1..Len(q)
      BY <1>4, <1>5, <2>2, SMTT(30)
    <2>3. CASE ~(j \in 1..Len(q)) /\ ~(i \in 1..Len(q))
      <3>1. /\ r[i] = a - 1 + (i - Len(q))
            /\ r[j] = a - 1 + (j - Len(q))
        BY <1>4, <2>3
      <3>2. QED
        BY <1>3, <1>7, <3>1
    <2>4. QED
      BY <2>1, <2>2, <2>3
  <1>8. QED
    BY <1>6, <1>7 DEF Ordered, r, p

\* A callback keeps the output of its host in order.
LEMMA OrderKept ==
  ASSUME IInv, NEW h \in Host, NEW s, Outcome(h, s), Moved(h, s),
         Ordered(Out(state[h]), state[h].rw.ackno)
  PROVE  Ordered(Out(s), s.rw.ackno)
  <1> DEFINE q == Out(state[h])
             a == state[h].rw.ackno
             b == s.rw.ackno
  <1>1. q \in Seq(Nat)
    <2>1. state[h] \in State
      BY Facts
    <2>2. state[h].output \in Seq(Nat) /\ state[h].out_queue \in Seq(Nat)
      BY <2>1 DEF State
    <2>3. QED
      BY <2>2, ConcatFacts DEF Out
  <1>2. a \in Nat /\ b \in Nat /\ 1 <= a /\ a <= b
    <2>1. HostInv(h, state[h]) /\ HostInv(h, s) /\ a <= b
      BY Facts DEF PairInv, Outcome, Ready
    <2>2. QED
      BY <2>1, ReadyTypes DEF HostInv
  <1>3. Taken(state[h], s)
    BY DEF Moved
  <1>4. CASE Out(s) = q
    <2>1. \A i \in 1..Len(q) : q[i] \in Nat /\ q[i] < a
      BY <1>1 DEF Ordered
    <2> HIDE DEF q, a, b
    <2>2. \A i \in 1..Len(q) : q[i] < b
      BY <1>2, <2>1
    <2>3. Ordered(q, b)
      BY <2>2 DEF Ordered, q
    <2>4. QED
      BY <1>4, <2>3 DEF b
  <1>5. ASSUME NEW k \in Nat, Out(s) = q \o Bytes(a - 1, k), a + k <= b
        PROVE  Ordered(Out(s), b)
    <2> HIDE DEF q, a, b
    <2>1. Ordered(q, a)
      BY DEF q, a
    <2>2. Ordered(q \o Bytes(a - 1, k), b)
      BY <1>1, <1>2, <1>5, <2>1, OrderedGrows
    <2>3. QED
      BY <1>5, <2>2
  <1>6. QED
    BY <1>3, <1>4, <1>5 DEF Taken

\* Every step keeps the output of both hosts in order.
LEMMA OrderStep ==
  ASSUME IInv, OrderInv, [Next]_vars
  PROVE  OrderInv'
  <1>1. CASE state' = state
    BY <1>1 DEF OrderInv, Out
  <1>2. ASSUME NEW h \in Host, Callback(h)
        PROVE  OrderInv'
    <2>1. PICK s : /\ Outcome(h, s) /\ Moved(h, s)
                   /\ \/ Sends(h, s)
                      \/ \E i \in 1..Len(net[h]) : Consumes(h, i, s)
      BY <1>2 DEF Callback
    <2>2. /\ state'[h].output = s.output /\ state'[h].out_queue = s.out_queue
          /\ state'[h].rw = s.rw
          /\ \A k \in Host : k # h => state'[k] = state[k]
      BY <2>1, CallbackState
    <2>3. Ordered(Out(state'[h]), state'[h].rw.ackno)
      <3>1. Ordered(Out(s), s.rw.ackno)
        BY <2>1, OrderKept DEF OrderInv
      <3>2. Out(state'[h]) = Out(s)
        BY <2>2, OutSame
      <3>3. QED
        BY <2>2, <3>1, <3>2
    <2>4. ASSUME NEW k \in Host
          PROVE  Ordered(Out(state'[k]), state'[k].rw.ackno)
      BY <2>2, <2>3 DEF OrderInv
    <2>5. QED
      BY <2>4 DEF OrderInv, Out
  <1>3. QED
    BY <1>1, <1>2, StepCases DEF Travels

\* Whatever stdout does, taking a part of a write, blocking or breaking, the
\* bytes that a host writes or keeps for writing are in the order of the peer's
\* stdin and none comes twice (ctcp_output, conn_output, conn_drain).
THEOREM OrderedOutput == Spec => []OutputInOrder
  <1>1. Init => OrderInv
    <2> SUFFICES ASSUME Init, NEW h \in Host
                 PROVE  Ordered(Out(state[h]), state[h].rw.ackno)
      BY DEF OrderInv
    <2>1. state[h].output = <<>> /\ state[h].out_queue = <<>>
      BY DEF Init, ctcp_init
    <2>2. Out(state[h]) = <<>> /\ Len(<<>>) = 0
      BY <2>1 DEF Out
    <2>3. 1..Len(Out(state[h])) = {}
      BY <2>2
    <2>4. QED
      BY <2>3 DEF Ordered
  <1>2. OrderInv => OutputInOrder
    BY DEF OrderInv, OutputInOrder, Ordered, Out
  <1>3. IInv /\ OrderInv /\ [Next]_vars => OrderInv'
    BY OrderStep
  <1>4. QED
    BY <1>1, <1>2, <1>3, InvHolds, PTL DEF Spec

-----------------------------------------------------------------------------
(* The byte stream.                                                        *)

\* A host has written what it acknowledged, and its peer has read it.
Exact ==
  \A h \in Host :
    /\ state[h].output = Bytes(0, state[h].rw.ackno - 1)
    /\ state[h].rw.ackno \in Nat /\ 1 <= state[h].rw.ackno
    /\ state[h].input \in Nat
    /\ state[h].rw.ackno - 1 <= state[Peer(h)].input

\* So it is while stdout does not block.
LEMMA OutputExact ==
  ASSUME IInv, ~ StdoutBlocks
  PROVE  Exact
  <1> SUFFICES ASSUME NEW h \in Host
               PROVE  /\ state[h].output = Bytes(0, state[h].rw.ackno - 1)
                      /\ state[h].rw.ackno \in Nat /\ 1 <= state[h].rw.ackno
                      /\ state[h].input \in Nat
                      /\ state[h].rw.ackno - 1 <= state[Peer(h)].input
    BY DEF Exact
  <1>1. state[h].output = Bytes(0, state[h].rw.ackno - 1)
    BY DEF IInv, OutputInv
  <1>2. Peer(h) \in Host
    BY PeerFacts
  <1>3. HostInv(h, state[h]) /\ HostInv(Peer(h), state[Peer(h)])
        /\ state[h].rw.ackno <= state[Peer(h)].sw.seqno
    BY <1>2 DEF IInv
  <1>4. /\ state[h].rw.ackno \in Nat /\ 1 <= state[h].rw.ackno
        /\ state[h].input \in Nat
        /\ state[Peer(h)].sw.seqno = state[Peer(h)].input + 1
        /\ state[Peer(h)].input \in Nat
    BY <1>2, <1>3, ReadyTypes DEF HostInv
  <1>5. QED
    BY <1>1, <1>3, <1>4

\* The next n bytes behind the first p.
LEMMA NextBytes ==
  ASSUME NEW p \in Nat, NEW n \in Nat
  PROVE  /\ Len(Bytes(0, p)) = p
         /\ Bytes(0, p + n) = Bytes(0, p) \o [i \in 1..n |-> p + i]
  <1>1. Len(Bytes(0, p)) = p
    BY DEF Bytes
  <1>2. Bytes(0, p) \o Bytes(p, n) = Bytes(0, p + n)
    BY BytesConcat
  <1>3. Bytes(p, n) = [i \in 1..n |-> p + i]
    BY DEF Bytes
  <1>4. QED
    BY <1>1, <1>2, <1>3

\* Every step accepts input at one host, delivers output at one host, or
\* neither.
LEMMA StreamStep ==
  ASSUME IInv, Exact, Exact', [Next]_vars
  PROVE  [Stream!Next]_(Stream!vars)
  <1> DEFINE accepted == [h \in Host |-> state[h].input]
             delivered == [h \in Host |-> state[h].output]
  <1>1. CASE state' = state
    BY <1>1 DEF Stream!vars
  <1>2. ASSUME NEW h \in Host, Callback(h)
        PROVE  [Stream!Next]_(Stream!vars)
    <2>1. PICK s : /\ Outcome(h, s) /\ Moved(h, s)
                   /\ \/ Sends(h, s)
                      \/ \E i \in 1..Len(net[h]) : Consumes(h, i, s)
      BY <1>2 DEF Callback
    <2>2. /\ state'[h].input = s.input /\ state'[h].rw = s.rw
          /\ \A k \in Host : k # h => state'[k] = state[k]
      BY <2>1, CallbackState
    <2>3. /\ state[h].output = Bytes(0, state[h].rw.ackno - 1)
          /\ state[h].rw.ackno \in Nat /\ 1 <= state[h].rw.ackno
          /\ state[h].input \in Nat
      BY DEF Exact
    <2>4. /\ state'[h].output = Bytes(0, state'[h].rw.ackno - 1)
          /\ state'[h].rw.ackno - 1 <= state'[Peer(h)].input
      BY DEF Exact
    <2>5. CASE s.input = state[h].input /\ s.rw.ackno = state[h].rw.ackno
      <3>1. \A k \in Host : /\ state'[k].input = state[k].input
                            /\ state'[k].output = state[k].output
        BY <2>2, <2>3, <2>4, <2>5
      <3>2. accepted' = accepted /\ delivered' = delivered
        BY <3>1
      <3>3. QED
        BY <3>2 DEF Stream!vars
    <2>6. ASSUME NEW n \in 1..MAX_SEG_DATA_SIZE,
                 s.input = state[h].input + n,
                 s.rw.ackno = state[h].rw.ackno
          PROVE  Stream!Accept(h)
      <3>1. delivered' = delivered
        <4>1. \A k \in Host : state'[k].output = state[k].output
          BY <2>2, <2>3, <2>4, <2>6
        <4>2. QED
          BY <4>1
      <3>2. accepted' = [accepted EXCEPT ![h] = @ + n]
        BY <2>2, <2>6
      <3>3. QED
        BY <3>1, <3>2 DEF Stream!Accept
    <2>7. ASSUME NEW n \in 1..MAX_SEG_DATA_SIZE,
                 s.input = state[h].input,
                 s.rw.ackno = state[h].rw.ackno + n
          PROVE  Stream!Deliver(h)
      <3> DEFINE p == state[h].rw.ackno - 1
                 more == [i \in 1..n |-> p + i]
      <3>1. accepted' = accepted
        <4>1. \A k \in Host : state'[k].input = state[k].input
          BY <2>2, <2>7
        <4>2. QED
          BY <4>1
      <3>2. p \in Nat /\ n \in Nat /\ state'[h].rw.ackno - 1 = p + n
        BY <2>2, <2>3, <2>7, SizeAssumption
      <3>3. Len(delivered[h]) = p /\ delivered[h] = Bytes(0, p)
        BY <2>3, <3>2, NextBytes
      <3>4. p + n <= accepted[Peer(h)]
        <4>1. Peer(h) \in Host /\ Peer(h) # h
          BY PeerFacts
        <4>2. QED
          BY <2>2, <2>4, <3>2, <4>1
      <3>5. state'[h].output = state[h].output \o more
        BY <2>3, <2>4, <3>2, NextBytes
      <3>6. delivered' = [delivered EXCEPT ![h] = @ \o more]
        <4> HIDE DEF more
        <4>1. QED
          BY <2>2, <3>5
      <3>7. QED
        <4> HIDE DEF p
        <4>1. \E k \in 1..MAX_SEG_DATA_SIZE :
                /\ p + k <= accepted[Peer(h)]
                /\ delivered' = [delivered EXCEPT ![h] = @ \o [i \in 1..k |-> p + i]]
          BY <3>4, <3>6, ZenonT(30)
        <4>2. QED
          BY <3>1, <3>3, <4>1, ZenonT(30) DEF Stream!Deliver
    <2>8. QED
      BY <2>1, <2>5, <2>6, <2>7 DEF Moved, Stream!Next
  <1>3. QED
    BY <1>1, <1>2, StepCases DEF Travels

\* While stdout takes all it is given, the two programs implement a reliable
\* byte stream in each direction, under every loss, delay, duplication and
\* corruption: all that ctcp.c does besides is invisible.
THEOREM StreamImplemented ==
  ASSUME ~ StdoutBlocks
  PROVE  Spec => ImplementsStream
  <1>1. Init => Stream!Init
    <2> SUFFICES ASSUME Init PROVE Stream!Init
      OBVIOUS
    <2>1. \A h \in Host : state[h].input = 0 /\ state[h].output = <<>>
      BY DEF Init, ctcp_init
    <2>2. QED
      BY <2>1 DEF Stream!Init
  <1>2. IInv => Exact
    BY OutputExact
  <1>3. IInv /\ Exact /\ Exact' /\ [Next]_vars => [Stream!Next]_(Stream!vars)
    BY StreamStep
  <1>4. QED
    BY <1>1, <1>2, <1>3, InvHolds, PTL DEF Spec, ImplementsStream, Stream!Spec

-----------------------------------------------------------------------------
(* Sets of pieces.                                                         *)

\* The pieces of P lie side by side below e; none is longer than w, and a is
\* inside of none.
Sound(P, a, e, w) ==
  /\ \A p \in P :
       /\ p[1] \in Nat /\ p[2] \in Nat
       /\ p[1] < p[2] /\ p[2] <= e /\ p[2] - p[1] <= w
       /\ p[2] <= a \/ a <= p[1]
  /\ \A p, q \in P : p = q \/ p[2] <= q[1] \/ q[2] <= p[1]

\* Pieces may be forgotten.
LEMMA SoundLess ==
  ASSUME NEW P, NEW Q, NEW a, NEW e, NEW w, Sound(P, a, e, w), Q \subseteq P
  PROVE  Sound(Q, a, e, w)
  BY DEF Sound

\* A new piece goes behind all others.
LEMMA SoundMore ==
  ASSUME NEW P, NEW a \in Nat, NEW e \in Nat, NEW f \in Nat, NEW w \in Nat,
         Sound(P, a, e, w), a <= e, e < f, f - e <= w
  PROVE  Sound(P \cup {<<e, f>>}, a, f, w)
  <1> DEFINE n == <<e, f>>
  <1>1. n[1] = e /\ n[2] = f
    OBVIOUS
  <1> HIDE DEF n
  <1>2. \A p \in P : /\ p[1] \in Nat /\ p[2] \in Nat
                     /\ p[1] < p[2] /\ p[2] <= e /\ p[2] - p[1] <= w
                     /\ p[2] <= a \/ a <= p[1]
    BY DEF Sound
  <1>3. \A p \in P : p[2] <= f /\ p[2] <= n[1]
    BY <1>1, <1>2
  <1>4. \A p, q \in P : p = q \/ p[2] <= q[1] \/ q[2] <= p[1]
    BY DEF Sound
  <1>5. ASSUME NEW p \in P \cup {n}
        PROVE  /\ p[1] \in Nat /\ p[2] \in Nat
               /\ p[1] < p[2] /\ p[2] <= f /\ p[2] - p[1] <= w
               /\ p[2] <= a \/ a <= p[1]
    <2>1. CASE p \in P
      BY <1>2, <1>3, <2>1
    <2>2. CASE p = n
      BY <1>1, <2>2
    <2>3. QED
      BY <2>1, <2>2
  <1>6. \A p, q \in P \cup {n} : p = q \/ p[2] <= q[1] \/ q[2] <= p[1]
    BY <1>3, <1>4
  <1>7. QED
    BY <1>5, <1>6 DEF Sound, n

\* When the piece that starts at a is received, its end is inside of none.
LEMMA SoundReceived ==
  ASSUME NEW P, NEW a \in Nat, NEW e, NEW w, Sound(P, a, e, w),
         NEW m \in P, m[1] = a
  PROVE  Sound(P, m[2], e, w)
  <1>1. \A p \in P : /\ p[1] \in Nat /\ p[2] \in Nat
                     /\ p[1] < p[2] /\ p[2] <= e /\ p[2] - p[1] <= w
                     /\ p[2] <= a \/ a <= p[1]
    BY DEF Sound
  <1>2. \A p, q \in P : p = q \/ p[2] <= q[1] \/ q[2] <= p[1]
    BY DEF Sound
  <1>3. ASSUME NEW p \in P
        PROVE  p[2] <= m[2] \/ m[2] <= p[1]
    BY <1>1, <1>2
  <1>4. QED
    BY <1>1, <1>2, <1>3 DEF Sound

\* Two pieces with a byte in common are one.
LEMMA SamePiece ==
  ASSUME NEW P, NEW a, NEW e, NEW w, Sound(P, a, e, w),
         NEW p \in P, NEW q \in P, NEW k \in Nat,
         p[1] <= k, k < p[2], q[1] <= k, k < q[2]
  PROVE  p = q
  <1>1. /\ p[1] \in Nat /\ p[2] \in Nat /\ q[1] \in Nat /\ q[2] \in Nat
        /\ p = q \/ p[2] <= q[1] \/ q[2] <= p[1]
    BY DEF Sound
  <1>2. QED
    BY <1>1

\* A sequence whose elements are as good as elements of another carries no
\* more.
LEMMA CarriedLess ==
  ASSUME NEW q, NEW r,
         \A i \in 1..Len(r) : \E j \in 1..Len(q) :
           r[i].seqno = q[j].seqno /\ r[i].data = q[j].data
  PROVE  Carried(r) \subseteq Carried(q)
  BY DEF Carried, PieceSet, End

\* A message of a sequence, if it carries data, carries a piece.
LEMMA CarriedBy ==
  ASSUME NEW q, NEW i \in 1..Len(q), q[i].data # <<>>
  PROVE  <<q[i].seqno, End(q[i])>> \in Carried(q)
  BY DEF Carried, PieceSet

\* An empty sequence carries nothing.
LEMMA CarriedNone == Carried(<<>>) = {}
  BY DEF Carried, PieceSet

-----------------------------------------------------------------------------
(* What travels to a host is cut into the pieces of its peer's window.     *)

\* All that is on its way to h, or may be sent to it again.
Pieces(h) == Carried(net[h]) \cup PieceSet(state[Peer(h)].sw.segments)

\* One way of cutting for everything, in step with what h has received.
CutInv ==
  \A h \in Host :
    Sound(Pieces(h), state[h].rw.ackno, state[Peer(h)].sw.seqno, Window[h])

\* What a callback adds: nothing, or one new piece at the end.
LEMMA EmittedPieces ==
  ASSUME NEW s, NEW t, s.wire = <<>>, Emits(s, t)
  PROVE  LET P == PieceSet(t.sw.segments) \cup Carried(t.wire)
             Q == PieceSet(s.sw.segments)
         IN  \/ t.sw.seqno = s.sw.seqno /\ P \subseteq Q
             \/ /\ s.sw.seqno < t.sw.seqno
                /\ t.sw.seqno - s.sw.seqno <= s.sw.max_size
                /\ P \subseteq Q \cup {<<s.sw.seqno, t.sw.seqno>>}
  <1>1. CASE Repeats(s, t)
    BY <1>1, CarriedNone DEF Repeats
  <1>2. CASE Extends(s, t)
    <2>1. PICK m \in Message :
            /\ t.wire = s.wire \o <<m>> /\ m.data # <<>>
            /\ m.seqno = s.sw.seqno /\ End(m) = t.sw.seqno
      BY <1>2 DEF Extends
    <2>2. t.wire = <<m>>
      BY <2>1
    <2>3. Carried(t.wire) = {<<s.sw.seqno, t.sw.seqno>>}
      BY <2>1, <2>2, CarriedOne, PieceOne
    <2>4. QED
      BY <1>2, <2>3 DEF Extends
  <1>3. QED
    BY <1>1, <1>2 DEF Emits

\* The network after a callback.
LEMMA CallbackNet ==
  ASSUME IInv, NEW h \in Host, NEW s, Outcome(h, s)
  PROVE  /\ s.wire \in Seq(Message) /\ net[Peer(h)] \in Seq(Message)
         /\ Sends(h, s) =>
              net'[h] = net[h] /\ net'[Peer(h)] = net[Peer(h)] \o s.wire
         /\ \A i \in 1..Len(net[h]) : Consumes(h, i, s) =>
              /\ net'[h] = RemoveAt(net[h], i)
              /\ net'[Peer(h)] = net[Peer(h)] \o s.wire
  <1>1. Peer(h) \in Host /\ Peer(h) # h /\ net \in [Host -> Seq(Message)]
    BY PeerFacts DEF IInv
  <1>2. s.wire \in Seq(Message)
    BY DEF Outcome, Ready, HostInv, State
  <1>3. QED
    BY <1>1, <1>2 DEF Sends, Consumes

\* A consumed message is gone; the others carry no more than before.
LEMMA RemoveCarried ==
  ASSUME NEW S, NEW q \in Seq(S), NEW c \in 1..Len(q)
  PROVE  Carried(RemoveAt(q, c)) \subseteq Carried(q)
  <1> DEFINE r == RemoveAt(q, c)
  <1>1. /\ Len(r) = Len(q) - 1 /\ Len(q) \in Nat
        /\ \A i \in 1..(Len(q) - 1) : r[i] = IF i < c THEN q[i] ELSE q[i + 1]
    BY RemoveAtFacts
  <1> HIDE DEF r
  <1>2. \A i \in 1..Len(r) : \E j \in 1..Len(q) : r[i] = q[j]
    BY <1>1
  <1>3. Carried(r) \subseteq Carried(q)
    BY <1>2, CarriedLess
  <1>4. QED
    BY <1>3 DEF r

\* The peer of the host that runs hears, or will hear, the same pieces as
\* before, or one more.
LEMMA CutSender ==
  ASSUME IInv, CutInv, NEW h \in Host, NEW s,
         Outcome(h, s), Emits(state[h], s),
         Sends(h, s) \/ \E i \in 1..Len(net[h]) : Consumes(h, i, s)
  PROVE  Sound(Pieces(Peer(h))', state[Peer(h)].rw.ackno, s.sw.seqno,
               Window[Peer(h)])
  <1> DEFINE p == Peer(h)
             e == state[h].sw.seqno
             f == s.sw.seqno
             a == state[p].rw.ackno
             new == PieceSet(s.sw.segments) \cup Carried(s.wire)
             old == PieceSet(state[h].sw.segments)
  <1>1. p \in Host /\ p # h /\ Peer(p) = h
    BY PeerFacts
  <1>2. /\ a \in Nat /\ e \in Nat /\ f \in Nat /\ a <= e
        /\ Window[p] \in Nat /\ state[h].sw.max_size = Window[p]
        /\ state[h].wire = <<>>
    <2>1. a \in Nat /\ e \in Nat /\ a <= e
      BY <1>1, Facts DEF PairInv
    <2>2. f \in Nat
      BY ReadyTypes DEF Outcome, Ready
    <2>3. state[h].sw.max_size = Window[p] /\ state[h].wire = <<>>
      BY Facts DEF PairInv, HostInv, SentInv
    <2>4. QED
      BY <1>1, <2>1, <2>2, <2>3, SizeAssumption
  <1>3. Sound(Carried(net[p]) \cup old, a, e, Window[p])
    BY <1>1 DEF CutInv, Pieces
  <1>4. Pieces(p)' = Carried(net[p]) \cup new
    <2>1. state'[h].sw = s.sw
      BY CallbackState
    <2>2. net'[p] = net[p] \o s.wire
      BY CallbackNet
    <2>3. net[p] \in Seq(Message) /\ s.wire \in Seq(Message)
      BY CallbackNet
    <2> HIDE DEF p
    <2>4. Carried(net[p] \o s.wire) = Carried(net[p]) \cup Carried(s.wire)
      BY <2>3, CarriedConcat
    <2>5. Carried(net'[p]) = Carried(net[p]) \cup Carried(s.wire)
      BY <2>2, <2>4
    <2>6. QED
      BY <1>1, <2>1, <2>5 DEF Pieces
  <1>5. \/ f = e /\ new \subseteq old
        \/ e < f /\ f - e <= Window[p] /\ new \subseteq old \cup {<<e, f>>}
    BY <1>2, EmittedPieces
  <1> HIDE DEF a, e, f, p, old, new
  <1>6. CASE f = e /\ new \subseteq old
    <2>1. Carried(net[p]) \cup new \subseteq Carried(net[p]) \cup old
      BY <1>6
    <2>2. Sound(Carried(net[p]) \cup new, a, e, Window[p])
      BY <1>3, <2>1, SoundLess
    <2>3. QED
      BY <1>4, <1>6, <2>2 DEF a, f, p
  <1>7. CASE e < f /\ f - e <= Window[p] /\ new \subseteq old \cup {<<e, f>>}
    <2>1. Carried(net[p]) \cup new
            \subseteq (Carried(net[p]) \cup old) \cup {<<e, f>>}
      BY <1>7
    <2>2. Sound((Carried(net[p]) \cup old) \cup {<<e, f>>}, a, f, Window[p])
      BY <1>2, <1>3, <1>7, SoundMore
    <2>3. Sound(Carried(net[p]) \cup new, a, f, Window[p])
      BY <2>1, <2>2, SoundLess
    <2>4. QED
      BY <1>4, <2>3 DEF a, f, p
  <1>8. QED
    BY <1>5, <1>6, <1>7

\* The host that runs hears no other pieces than before, and has received a
\* whole one or none.
LEMMA CutReceiver ==
  ASSUME IInv, CutInv, NEW h \in Host, NEW s,
         Outcome(h, s), Emits(state[h], s),
         \/ Sends(h, s) /\ NotReceived(h, s)
         \/ \E i \in 1..Len(net[h]) : Consumes(h, i, s) /\ Received(h, i, s)
  PROVE  Sound(Pieces(h)', s.rw.ackno, state[Peer(h)].sw.seqno, Window[h])
  <1> DEFINE p == Peer(h)
             a == state[h].rw.ackno
             b == s.rw.ackno
             e == state[p].sw.seqno
  <1>1. p \in Host /\ p # h /\ Peer(p) = h
    BY PeerFacts
  <1>2. a \in Nat /\ b \in Nat
    BY Facts, ReadyTypes DEF Outcome, Ready
  <1>3. Sound(Pieces(h), a, e, Window[h])
    BY DEF CutInv
  <1>4. state'[p] = state[p]
    BY <1>1, CallbackState
  <1>5. net[h] \in Seq(Message)
    BY DEF IInv
  <1>6. Pieces(h)' \subseteq Pieces(h)
    <2>1. Carried(net'[h]) \subseteq Carried(net[h])
      <3>1. CASE Sends(h, s)
        BY <3>1, CallbackNet
      <3>2. ASSUME NEW i \in 1..Len(net[h]), Consumes(h, i, s)
            PROVE  Carried(net'[h]) \subseteq Carried(net[h])
        <4>1. net'[h] = RemoveAt(net[h], i)
          BY <3>2, CallbackNet
        <4>2. QED
          BY <1>5, <4>1, RemoveCarried
      <3>3. QED
        BY <3>1, <3>2
    <2>2. QED
      BY <1>4, <2>1 DEF Pieces
  <1>7. Sound(Pieces(h), b, e, Window[h])
    <2>1. CASE b = a
      BY <1>3, <2>1
    <2>2. ASSUME NEW i \in 1..Len(net[h]), Received(h, i, s), b # a
          PROVE  Sound(Pieces(h), b, e, Window[h])
      <3> DEFINE m == net[h][i]
                 q == <<m.seqno, End(m)>>
      <3>1. m.data # <<>> /\ m.seqno = a /\ b = End(m)
        BY <2>2 DEF Received, Expected
      <3>2. q \in Pieces(h)
        BY <3>1, CarriedBy DEF Pieces
      <3>3. q[1] = a /\ q[2] = b
        BY <3>1
      <3> HIDE DEF q, a, b, e
      <3>4. QED
        BY <1>2, <1>3, <3>2, <3>3, SoundReceived
    <2>3. QED
      BY <2>1, <2>2 DEF NotReceived
  <1>8. QED
    BY <1>6, <1>7, SoundLess

\* Every callback keeps the way of cutting.
LEMMA CutCallback ==
  ASSUME IInv, CutInv, NEW h \in Host, Callback(h)
  PROVE  CutInv'
  <1>1. PICK s :
          /\ Outcome(h, s) /\ Emits(state[h], s)
          /\ \/ Sends(h, s) /\ NotReceived(h, s)
             \/ \E i \in 1..Len(net[h]) : Consumes(h, i, s) /\ Received(h, i, s)
    BY DEF Callback
  <1>2. /\ Peer(h) \in Host /\ Peer(h) # h /\ Peer(Peer(h)) = h
        /\ Host = {h, Peer(h)}
    BY PeerFacts DEF Host, Peer
  <1>3. /\ state'[h].sw = s.sw /\ state'[h].rw = s.rw
        /\ state'[Peer(h)] = state[Peer(h)]
    BY <1>1, <1>2, CallbackState
  <1>4. Sound(Pieces(Peer(h))', state[Peer(h)].rw.ackno, s.sw.seqno,
              Window[Peer(h)])
    BY <1>1, CutSender
  <1>5. Sound(Pieces(h)', s.rw.ackno, state[Peer(h)].sw.seqno, Window[h])
    BY <1>1, CutReceiver
  <1>6. ASSUME NEW k \in Host
        PROVE  Sound(Pieces(k)', state'[k].rw.ackno, state'[Peer(k)].sw.seqno,
                     Window[k])
    <2>1. CASE k = h
      BY <1>3, <1>5, <2>1
    <2>2. CASE k = Peer(h)
      BY <1>2, <1>3, <1>4, <2>2
    <2>3. QED
      BY <1>2, <2>1, <2>2
  <1>7. QED
    BY <1>6 DEF CutInv

\* Whatever the network does, each message of a host's queue afterwards is a
\* copy of one before.
LEMMA TravelsCarried ==
  ASSUME IInv, Travels, NEW k \in Host
  PROVE  Carried(net'[k]) \subseteq Carried(net[k])
  <1>1. net \in [Host -> Seq(Message)]
    BY DEF IInv
  <1>2. CASE net' = net
    BY <1>2
  <1>3. ASSUME NEW h \in Host, RecvFilterDrop(h)
        PROVE  Carried(net'[k]) \subseteq Carried(net[k])
    <2>1. net[h] \in Seq(Message) /\ net[h] # <<>>
      BY <1>1, <1>3 DEF RecvFilterDrop
    <2>2. k # h => net'[k] = net[k]
      BY <1>1, <1>3 DEF RecvFilterDrop
    <2>3. net'[h] = Tail(net[h])
      BY <1>1, <1>3 DEF RecvFilterDrop
    <2> DEFINE q == net[h]
               r == Tail(q)
    <2> HIDE DEF q
    <2>4. Len(q) \in Nat /\ Len(r) = Len(q) - 1
          /\ \A i \in 1..Len(r) : r[i] = q[i + 1]
      BY <2>1 DEF q
    <2> HIDE DEF r
    <2>5. \A i \in 1..Len(r) : \E j \in 1..Len(q) : r[i] = q[j]
      BY <2>4
    <2>6. Carried(r) \subseteq Carried(q)
      BY <2>5, CarriedLess
    <2>7. QED
      BY <2>2, <2>3, <2>6 DEF r, q
  <1>4. ASSUME NEW h \in Host, Unreliable(h)
        PROVE  Carried(net'[k]) \subseteq Carried(net[k])
    <2>1. PICK i \in 1..Len(net[h]) :
            Drop(h, i) \/ Duplicate(h, i) \/ Delay(h, i) \/ Corrupt(h, i)
      BY <1>4 DEF Unreliable
    <2>2. net[h] \in Seq(Message) /\ net[h][i] \in Message
      BY <1>1
    <2>3. k # h => net'[k] = net[k]
      BY <1>1, <2>1 DEF Drop, Duplicate, Delay, Corrupt
    <2>4. CASE Drop(h, i)
      <3>1. net'[h] = RemoveAt(net[h], i)
        BY <1>1, <2>4 DEF Drop
      <3>2. QED
        BY <2>2, <2>3, <3>1, RemoveCarried
    <2>5. CASE Duplicate(h, i)
      <3> DEFINE m == [net[h][i] EXCEPT !.late = TRUE]
                 q == net[h]
                 r == InsertAt(q, i + 1, m)
      <3>1. net'[h] = r
        BY <1>1, <2>5 DEF Duplicate
      <3>2. m \in Message /\ m.seqno = q[i].seqno /\ m.data = q[i].data
        BY <2>2 DEF Message
      <3> HIDE DEF m, q
      <3>3. i + 1 \in 1..(Len(q) + 1) /\ q \in Seq(Message) /\ i \in 1..Len(q)
        BY <2>2 DEF q
      <3>4. /\ Len(r) = Len(q) + 1 /\ Len(q) \in Nat
            /\ \A j \in 1..(Len(q) + 1) :
                 r[j] = IF j < i + 1 THEN q[j]
                        ELSE IF j = i + 1 THEN m ELSE q[j - 1]
        <4> DEFINE c == i + 1
        <4>1. c \in 1..(Len(q) + 1) /\ m \in Message /\ q \in Seq(Message)
              /\ Len(q) \in Nat
          BY <3>2, <3>3
        <4> HIDE DEF c
        <4>2. /\ Len(InsertAt(q, c, m)) = Len(q) + 1
              /\ \A j \in 1..(Len(q) + 1) :
                   InsertAt(q, c, m)[j] = IF j < c THEN q[j]
                                          ELSE IF j = c THEN m ELSE q[j - 1]
          BY <4>1, InsertAtFacts
        <4>3. QED
          BY <4>1, <4>2 DEF c
      <3> HIDE DEF r
      <3>5. \A j \in 1..Len(r) : \E n \in 1..Len(q) :
              r[j].seqno = q[n].seqno /\ r[j].data = q[n].data
        <4> SUFFICES ASSUME NEW j \in 1..Len(r)
                     PROVE  \E n \in 1..Len(q) :
                              r[j].seqno = q[n].seqno /\ r[j].data = q[n].data
          OBVIOUS
        <4>1. CASE j < i + 1
          BY <3>3, <3>4, <4>1
        <4>2. CASE j = i + 1
          BY <3>2, <3>3, <3>4, <4>2
        <4>3. CASE j > i + 1
          <5>1. r[j] = q[j - 1] /\ j - 1 \in 1..Len(q)
            BY <3>3, <3>4, <4>3
          <5>2. QED
            BY <5>1
        <4>4. QED
          BY <3>3, <3>4, <4>1, <4>2, <4>3
      <3>6. Carried(r) \subseteq Carried(q)
        BY <3>5, CarriedLess
      <3>7. QED
        BY <2>3, <3>1, <3>6 DEF q
    <2>6. ASSUME NEW m \in Message, net'[h] = [net[h] EXCEPT ![i] = m],
                 m.seqno = net[h][i].seqno, m.data = net[h][i].data
          PROVE  Carried(net'[k]) \subseteq Carried(net[k])
      <3> DEFINE q == net[h]
                 r == [q EXCEPT ![i] = m]
      <3>1. /\ Len(r) = Len(q)
            /\ \A j \in 1..Len(q) : r[j] = IF j = i THEN m ELSE q[j]
        BY <2>2
      <3> HIDE DEF q, r
      <3>2. \A j \in 1..Len(r) :
              r[j].seqno = q[j].seqno /\ r[j].data = q[j].data
        BY <2>6, <3>1 DEF q
      <3>3. Carried(r) \subseteq Carried(q)
        BY <3>1, <3>2, CarriedLess
      <3>4. QED
        BY <2>3, <2>6, <3>3 DEF q, r
    <2>7. CASE Delay(h, i)
      <3> DEFINE m == [net[h][i] EXCEPT !.late = TRUE]
      <3>1. m \in Message /\ m.seqno = net[h][i].seqno /\ m.data = net[h][i].data
        BY <2>2 DEF Message
      <3>2. net'[h] = [net[h] EXCEPT ![i] = m]
        BY <1>1, <2>2, <2>7 DEF Delay
      <3> HIDE DEF m
      <3>3. QED
        BY <2>6, <3>1, <3>2
    <2>8. CASE Corrupt(h, i)
      <3> DEFINE m == [net[h][i] EXCEPT !.ok = FALSE]
      <3>1. m \in Message /\ m.seqno = net[h][i].seqno /\ m.data = net[h][i].data
        BY <2>2 DEF Message
      <3>2. net'[h] = [net[h] EXCEPT ![i] = m]
        BY <1>1, <2>2, <2>8 DEF Corrupt
      <3> HIDE DEF m
      <3>3. QED
        BY <2>6, <3>1, <3>2
    <2>9. QED
      BY <2>1, <2>4, <2>5, <2>7, <2>8
  <1>5. QED
    BY <1>2, <1>3, <1>4 DEF Travels

\* The network cuts nothing anew.
LEMMA CutTravels ==
  ASSUME IInv, CutInv, Travels
  PROVE  CutInv'
  <1>1. state' = state
    BY DEF Travels
  <1>2. ASSUME NEW k \in Host
        PROVE  Sound(Pieces(k)', state'[k].rw.ackno, state'[Peer(k)].sw.seqno,
                     Window[k])
    <2>1. Carried(net'[k]) \subseteq Carried(net[k])
      BY TravelsCarried
    <2>2. Pieces(k)' \subseteq Pieces(k)
      BY <1>1, <2>1 DEF Pieces
    <2>3. Sound(Pieces(k), state[k].rw.ackno, state[Peer(k)].sw.seqno, Window[k])
      BY DEF CutInv
    <2>4. Sound(Pieces(k)', state[k].rw.ackno, state[Peer(k)].sw.seqno, Window[k])
      BY <2>2, <2>3, SoundLess
    <2>5. QED
      BY <1>1, <2>4
  <1>3. QED
    BY <1>2 DEF CutInv

\* Before anything is read there is nothing to cut.
LEMMA CutInit == Init => CutInv
  <1> SUFFICES ASSUME Init, NEW h \in Host
               PROVE  Sound(Pieces(h), state[h].rw.ackno,
                            state[Peer(h)].sw.seqno, Window[h])
    BY DEF CutInv
  <1>1. net[h] = <<>> /\ state[Peer(h)].sw.segments = {}
    BY PeerFacts DEF Init, ctcp_init
  <1>2. PieceSet({}) = {}
    BY DEF PieceSet
  <1>3. Pieces(h) = {}
    BY <1>1, <1>2, CarriedNone DEF Pieces
  <1>4. QED
    BY <1>3 DEF Sound

-----------------------------------------------------------------------------
(* A host that was killed.                                                 *)

\* Its peer still holds a piece from beyond what it has received.
CrashInv ==
  \A h \in Host :
    state[h].status = "crashed" =>
      \E q \in PieceSet(state[Peer(h)].sw.segments) : state[h].rw.ackno < q[1]

\* The pieces of a window are bytes that were read.
LEMMA PieceBounds ==
  ASSUME NEW h \in Host, NEW s, HostInv(h, s),
         NEW q \in PieceSet(s.sw.segments)
  PROVE  q[1] \in 1..s.input /\ q[2] \in Nat /\ q[1] < q[2] /\ q[2] <= s.sw.seqno
  <1>1. PICK g \in s.sw.segments : g.data # <<>> /\ q = <<g.seqno, End(g)>>
    BY DEF PieceSet
  <1>2. s.sw.segments \in SUBSET Segment /\ s.sw.seqno \in Nat /\ s.input \in Nat
        /\ s.sw.seqno = s.input + 1
    BY ReadyTypes
  <1>3. g \in Segment /\ 1 <= g.seqno /\ End(g) <= s.sw.seqno
    BY <1>2 DEF HostInv, ListInv
  <1>4. g.seqno \in Nat /\ g.data \in Seq(Nat)
    BY <1>3 DEF Segment
  <1>5. Len(g.data) \in Nat \ {0}
    BY <1>1, <1>4
  <1>6. q[1] = g.seqno /\ q[2] = g.seqno + Len(g.data)
    BY <1>1 DEF End
  <1>7. QED
    BY <1>2, <1>3, <1>4, <1>5, <1>6, SMTT(30) DEF End

\* A byte in a window lies in one of its pieces.
LEMMA CoveredPiece ==
  ASSUME NEW h \in Host, NEW s, HostInv(h, s), NEW k \in Covered(s)
  PROVE  \E q \in PieceSet(s.sw.segments) : q[1] <= k /\ k < q[2]
  <1>1. PICK g \in s.sw.segments : g.seqno <= k /\ k < End(g)
    BY DEF Covered
  <1>2. s.sw.segments \in SUBSET Segment /\ s.input \in Nat
    BY ReadyTypes
  <1>3. g.seqno \in Nat /\ g.data \in Seq(Nat) /\ k \in Nat
    BY <1>2 DEF Segment, Covered
  <1>4. g.data # <<>>
    <2>1. SUFFICES ASSUME g.data = <<>> PROVE FALSE
      OBVIOUS
    <2>2. End(g) = g.seqno
      BY <1>3, <2>1 DEF End
    <2>3. QED
      BY <1>1, <1>3, <2>2
  <1> DEFINE q == <<g.seqno, End(g)>>
  <1>5. q \in PieceSet(s.sw.segments)
    BY <1>4 DEF PieceSet
  <1>6. q[1] = g.seqno /\ q[2] = End(g)
    OBVIOUS
  <1>7. QED
    BY <1>1, <1>5, <1>6

\* A host dies of a piece that its peer still holds.
LEMMA CrashReceiver ==
  ASSUME IInv, CutInv, NEW h \in Host, NEW i \in 1..Len(net[h]), NEW s,
         Received(h, i, s), s.status = "crashed"
  PROVE  \E q \in PieceSet(state[Peer(h)].sw.segments) : s.rw.ackno < q[1]
  <1> DEFINE p == Peer(h)
             m == net[h][i]
             a == state[h].rw.ackno
             r == <<m.seqno, End(m)>>
  <1>1. p \in Host /\ Peer(p) = h
    BY PeerFacts
  <1>2. m.data # <<>> /\ m.seqno > a
    BY DEF Received
  <1>3. m \in SentBy(state[p]) /\ m \in Message
    BY MessageFacts
  <1>4. HostInv(p, state[p]) /\ a \in Nat
        /\ \A k \in 1..state[p].input : k < a \/ k \in Covered(state[p])
    BY <1>1, Facts DEF PairInv
  <1>5. state[p].input \in Nat /\ state[p].sw.seqno = state[p].input + 1
    BY <1>1, <1>4, ReadyTypes
  <1>6. m.seqno \in Nat /\ Len(m.data) \in Nat \ {0} /\ 1 <= m.seqno
        /\ End(m) <= state[p].sw.seqno
    <2>1. m.seqno \in Nat /\ m.data \in Seq(Nat)
      BY <1>3 DEF Message
    <2>2. QED
      BY <1>2, <1>3, <2>1 DEF SentBy
  <1>7. m.seqno \in 1..state[p].input /\ m.seqno < End(m)
    BY <1>5, <1>6, SMTT(30) DEF End
  <1>8. s.rw.ackno = a
    BY <1>2, <1>4, <1>6 DEF Received, Expected
  <1>9. r \in Pieces(h)
    BY <1>2, CarriedBy DEF Pieces
  <1>10. r[1] = m.seqno /\ r[2] = End(m)
    OBVIOUS
  <1> HIDE DEF r, m, a
  <1>11. PICK q \in PieceSet(state[p].sw.segments) :
           q[1] <= m.seqno /\ m.seqno < q[2]
    <2>1. m.seqno \in Covered(state[p])
      BY <1>2, <1>4, <1>6, <1>7
    <2> HIDE DEF p
    <2>2. QED
      BY <1>1, <1>4, <2>1, CoveredPiece
  <1>12. q = r
    <2> DEFINE k == m.seqno
               P == Pieces(h)
    <2>1. q \in P
      BY <1>11 DEF Pieces
    <2>2. Sound(P, a, state[p].sw.seqno, Window[h])
      BY DEF CutInv, a
    <2>3. k \in Nat /\ q[1] <= k /\ k < q[2] /\ r[1] <= k /\ k < r[2]
      BY <1>6, <1>7, <1>10, <1>11
    <2> HIDE DEF k, P
    <2>4. QED
      BY <1>9, <2>1, <2>2, <2>3, SamePiece DEF P
  <1>13. QED
    BY <1>2, <1>8, <1>10, <1>11, <1>12

\* While its peer is dead, a host does not let go of the piece it died of.
LEMMA CrashSender ==
  ASSUME IInv, CutInv, NEW h \in Host, NEW s,
         Outcome(h, s), Emits(state[h], s),
         NEW q \in PieceSet(state[h].sw.segments),
         state[Peer(h)].rw.ackno < q[1]
  PROVE  q \in PieceSet(s.sw.segments)
  <1> DEFINE p == Peer(h)
             e == state[h].sw.seqno
             a == state[p].rw.ackno
             k == q[1]
  <1>1. p \in Host /\ Peer(p) = h
    BY PeerFacts
  <1>2. HostInv(h, state[h]) /\ HostInv(h, s) /\ e \in Nat /\ a \in Nat
        /\ e <= s.sw.seqno /\ state[h].wire = <<>>
        /\ \A j \in 1..s.input : j < a \/ j \in Covered(s)
    BY Facts DEF PairInv, SentInv, Outcome, Ready
  <1>3. k \in 1..state[h].input /\ q[2] \in Nat /\ k < q[2] /\ q[2] <= e
    BY <1>2, PieceBounds
  <1>4. /\ state[h].input \in Nat /\ s.input \in Nat /\ e = state[h].input + 1
        /\ s.sw.seqno = s.input + 1
    BY <1>2, ReadyTypes
  <1>5. k \in 1..s.input
    BY <1>2, <1>3, <1>4
  <1>6. k \in Covered(s)
    BY <1>2, <1>5
  <1>7. PICK r \in PieceSet(s.sw.segments) : r[1] <= k /\ k < r[2]
    BY <1>2, <1>6, CoveredPiece
  <1>8. r \in PieceSet(state[h].sw.segments) \cup {<<e, s.sw.seqno>>}
    BY <1>2, EmittedPieces
  <1>9. r # <<e, s.sw.seqno>>
    <2>1. SUFFICES ASSUME r = <<e, s.sw.seqno>> PROVE FALSE
      OBVIOUS
    <2>2. r[1] = e
      BY <2>1
    <2> HIDE DEF e, k
    <2>3. QED
      BY <1>2, <1>3, <1>7, <2>2
  <1>10. r = q
    <2> DEFINE P == Pieces(p)
    <2>1. q \in P /\ r \in P
      BY <1>1, <1>8, <1>9 DEF Pieces
    <2>2. Sound(P, a, e, Window[p])
      BY <1>1 DEF CutInv
    <2>3. k \in Nat /\ q[1] <= k /\ k < q[2]
      BY <1>3
    <2> HIDE DEF k, P, e, a
    <2>4. QED
      BY <1>7, <2>1, <2>2, <2>3, SamePiece
  <1>11. QED
    BY <1>7, <1>10

\* Every callback keeps what is held against the dead.
LEMMA CrashCallback ==
  ASSUME IInv, CutInv, CrashInv, NEW h \in Host, Callback(h)
  PROVE  CrashInv'
  <1>1. PICK s :
          /\ Outcome(h, s) /\ Emits(state[h], s)
          /\ \/ Sends(h, s) /\ NotReceived(h, s)
             \/ \E i \in 1..Len(net[h]) : Consumes(h, i, s) /\ Received(h, i, s)
    BY DEF Callback
  <1>2. /\ Peer(h) \in Host /\ Peer(h) # h /\ Peer(Peer(h)) = h
        /\ Host = {h, Peer(h)}
    BY PeerFacts DEF Host, Peer
  <1>3. /\ state'[h].sw = s.sw /\ state'[h].rw = s.rw
        /\ state'[h].status = s.status
        /\ state'[Peer(h)] = state[Peer(h)]
    BY <1>1, <1>2, CallbackState
  <1>4. ASSUME NEW k \in Host, state'[k].status = "crashed"
        PROVE  \E q \in PieceSet(state'[Peer(k)].sw.segments) :
                 state'[k].rw.ackno < q[1]
    <2>1. CASE k = h
      <3>1. s.status = "crashed"
        BY <1>3, <1>4, <2>1
      <3>2. \E q \in PieceSet(state[Peer(h)].sw.segments) : s.rw.ackno < q[1]
        BY <1>1, <3>1, CrashReceiver DEF NotReceived
      <3>3. QED
        BY <1>3, <2>1, <3>2
    <2>2. CASE k = Peer(h)
      <3>1. state[Peer(h)].status = "crashed"
        BY <1>3, <1>4, <2>2
      <3>2. PICK q \in PieceSet(state[h].sw.segments) :
              state[Peer(h)].rw.ackno < q[1]
        BY <1>2, <3>1 DEF CrashInv
      <3>3. q \in PieceSet(s.sw.segments)
        BY <1>1, <3>2, CrashSender
      <3>4. QED
        BY <1>2, <1>3, <2>2, <3>2, <3>3
    <2>3. QED
      BY <1>2, <2>1, <2>2
  <1>5. QED
    BY <1>4 DEF CrashInv

\* What the proofs of this module keep.
OrderingInv == IInv /\ CutInv /\ CrashInv

\* Both hosts are up at first.
LEMMA OrderingInit == Init => OrderingInv
  <1>1. Init => CrashInv
    BY DEF Init, ctcp_init, CrashInv
  <1>2. QED
    BY <1>1, InitInv, CutInit DEF OrderingInv

\* Every step keeps them.
LEMMA OrderingNext == OrderingInv /\ [Next]_vars => OrderingInv'
  <1> SUFFICES ASSUME OrderingInv, [Next]_vars PROVE OrderingInv'
    OBVIOUS
  <1>1. IInv /\ CutInv /\ CrashInv
    BY DEF OrderingInv
  <1>2. IInv'
    BY <1>1, NextInv
  <1>3. CASE \E h \in Host : Callback(h)
    BY <1>1, <1>2, <1>3, CutCallback, CrashCallback DEF OrderingInv
  <1>4. CASE Travels
    <2>1. CutInv'
      BY <1>1, <1>4, CutTravels
    <2>2. CrashInv'
      BY <1>1, <1>4 DEF CrashInv, Travels
    <2>3. QED
      BY <1>2, <2>1, <2>2 DEF OrderingInv
  <1>5. QED
    BY <1>1, <1>3, <1>4, StepCases

\* The byte that a dead host waits for lies in a piece of its own, in front
\* of the one it died of.
LEMMA CrashTwo == OrderingInv => CrashNeedsTwo
  <1> SUFFICES ASSUME OrderingInv, NEW h \in Host, state[h].status = "crashed"
               PROVE  \E f, g \in state[Peer(h)].sw.segments :
                        f.data # <<>> /\ g.data # <<>> /\ End(f) <= g.seqno
    BY DEF CrashNeedsTwo
  <1> DEFINE p == Peer(h)
             S == state[p].sw.segments
             a == state[h].rw.ackno
  <1>1. p \in Host /\ Peer(p) = h /\ IInv /\ CutInv /\ CrashInv
    BY PeerFacts DEF OrderingInv
  <1>2. PICK q \in PieceSet(S) : a < q[1]
    BY <1>1 DEF CrashInv
  <1>3. /\ HostInv(p, state[p]) /\ a \in Nat /\ 1 <= a
        /\ \A k \in 1..state[p].input : k < a \/ k \in Covered(state[p])
    BY <1>1, Facts DEF PairInv, HostInv
  <1>4. state[p].input \in Nat /\ q[1] \in 1..state[p].input
        /\ q[2] \in Nat /\ q[1] < q[2]
    <2> HIDE DEF p
    <2>1. QED
      BY <1>1, <1>2, <1>3, PieceBounds, ReadyTypes
  <1>5. a \in Covered(state[p])
    BY <1>2, <1>3, <1>4
  <1>6. PICK r \in PieceSet(S) : r[1] <= a /\ a < r[2]
    <2> HIDE DEF p, a
    <2>1. QED
      BY <1>1, <1>3, <1>5, CoveredPiece
  <1>7. /\ r[1] \in Nat /\ r[2] \in Nat
        /\ r = q \/ r[2] <= q[1] \/ q[2] <= r[1]
    BY <1>1, <1>2, <1>6 DEF CutInv, Sound, Pieces
  <1>8. r[2] <= q[1]
    BY <1>2, <1>3, <1>4, <1>6, <1>7
  <1>9. PICK f \in S : f.data # <<>> /\ r = <<f.seqno, End(f)>>
    BY DEF PieceSet
  <1>10. PICK g \in S : g.data # <<>> /\ q = <<g.seqno, End(g)>>
    BY DEF PieceSet
  <1>11. End(f) <= g.seqno
    BY <1>8, <1>9, <1>10
  <1>12. QED
    BY <1>9, <1>10, <1>11

\* Whatever the network loses, repeats, delays or damages: a host that is
\* killed by data out of order has a peer with two pieces outstanding.
THEOREM TwoOutstanding == Spec => []CrashNeedsTwo
  BY OrderingInit, OrderingNext, CrashTwo, PTL DEF Spec

\* Two segments of a list hold no more bytes than the list.
LEMMA TwoFit ==
  ASSUME NEW s \in State, ListInv(s),
         NEW f \in s.sw.segments, NEW g \in s.sw.segments, f # g
  PROVE  Len(f.data) + Len(g.data) <= DataLen(s.sw.segments)
  <1> DEFINE S == s.sw.segments
  <1>1. /\ IsFiniteSet(S) /\ \A e \in S : e.data \in Seq(Nat)
        /\ \A d, e \in S : d.node = e.node => d = e
    <2>1. \A e \in S : e \in Segment
      BY DEF State, SendWindow
    <2>2. \A e \in S : e.data \in Seq(Nat)
      BY <2>1 DEF Segment
    <2>3. IsFiniteSet(S) /\ \A d, e \in S : d.node = e.node => d = e
      BY DEF ListInv
    <2>4. QED
      BY <2>2, <2>3
  <1> HIDE DEF S
  <1>2. f \in S /\ g \in S
    BY DEF S
  <1>3. IsFiniteSet({}) /\ IsFiniteSet({f}) /\ IsFiniteSet({f, g})
    <2>1. IsFiniteSet({}) /\ IsFiniteSet({f})
      BY FS_EmptySet, FS_Singleton
    <2>2. IsFiniteSet({f} \cup {g})
      BY <2>1, FS_AddElement
    <2>3. {f} \cup {g} = {f, g}
      OBVIOUS
    <2>4. QED
      BY <2>1, <2>2, <2>3
  <1>4. DataLen({}) = 0
    BY <1>3, DataLenType
  <1>5. DataLen({f}) = Len(f.data)
    <2>1. DataLen({} \cup {f}) = DataLen({}) + Len(f.data)
      BY <1>1, <1>2, <1>3, DataLenAdd
    <2>2. QED
      BY <2>1, <1>1, <1>2, <1>4
  <1>6. DataLen({f, g}) = Len(f.data) + Len(g.data)
    <2>1. DataLen({f} \cup {g}) = DataLen({f}) + Len(g.data)
      BY <1>1, <1>2, <1>3, DataLenAdd
    <2>2. {f} \cup {g} = {f, g}
      OBVIOUS
    <2>3. QED
      BY <2>1, <2>2, <1>5
  <1>7. DataLen({f, g}) <= DataLen(S)
    <2>1. {f, g} \in SUBSET S
      BY <1>2
    <2>2. QED
      BY <2>1, <1>1, DataLenRemove
  <1>8. QED
    BY <1>6, <1>7 DEF S

\* A window of one byte is stop-and-wait: no host is ever killed, whatever the
\* network does.
THEOREM StopAndWaitLives ==
  ASSUME \A h \in Host : Window[h] = 1
  PROVE  Spec => []NeverCrashes
  <1>1. OrderingInv => NeverCrashes
    <2> SUFFICES ASSUME OrderingInv, NEW h \in Host,
                        state[h].status = "crashed"
                 PROVE  FALSE
      BY DEF NeverCrashes
    <2> DEFINE p == Peer(h)
               s == state[p]
    <2>1. p \in Host /\ Peer(p) = h /\ IInv
      BY PeerFacts DEF OrderingInv
    <2>2. HostInv(p, s)
      BY <2>1 DEF IInv
    <2>3. PICK f, g \in s.sw.segments :
            f.data # <<>> /\ g.data # <<>> /\ End(f) <= g.seqno
      BY CrashTwo DEF CrashNeedsTwo
    <2> HIDE DEF p, s
    <2>4. f \in Segment /\ g \in Segment /\ s \in State /\ ListInv(s)
      BY <2>2 DEF HostInv, State, SendWindow
    <2>5. f.data \in Seq(Nat) /\ g.data \in Seq(Nat)
          /\ f.seqno \in Nat /\ g.seqno \in Nat
      BY <2>4 DEF Segment
    <2>6. 1 <= Len(f.data) /\ 1 <= Len(g.data)
      BY <2>3, <2>5
    <2>7. f # g
      BY <2>3, <2>5, <2>6 DEF End
    <2>8. Len(f.data) + Len(g.data) <= DataLen(s.sw.segments)
      BY <2>4, <2>7, TwoFit
    <2>9. DataLen(s.sw.segments) <= 1
      BY <2>1, <2>2 DEF HostInv
    <2>10. QED
      <3>1. Len(f.data) \in Nat /\ Len(g.data) \in Nat
        BY <2>5
      <3>2. s.sw.size \in Nat /\ s.sw.size = DataLen(s.sw.segments)
        BY <2>2, <2>4 DEF HostInv, State, SendWindow
      <3>3. \A a, b, d \in Nat : ~ (1 <= a /\ 1 <= b /\ a + b <= d /\ d <= 1)
        OBVIOUS
      <3>4. DataLen(s.sw.segments) \in Nat
        BY <3>2
      <3> HIDE DEF DataLen
      <3>5. QED
        BY <2>6, <2>8, <2>9, <3>1, <3>3, <3>4
  <1>2. QED
    BY <1>1, OrderingInit, OrderingNext, PTL DEF Spec

-----------------------------------------------------------------------------
(* A network that only duplicates.                                         *)

\* Byte k is in a message in front of the n-th that arrives before all behind
\* it, and arrives sound.
OnWay(q, k, n) ==
  \E j \in 1..Len(q) :
    j < n /\ q[j].ok /\ ~ q[j].late /\ q[j].seqno <= k /\ k < End(q[j])

\* All bytes from a to e are on their way, and no message with data overtakes
\* one that is missing.
Flows(q, a, e) ==
  /\ \A k \in Nat : a <= k /\ k < e => OnWay(q, k, Len(q) + 1)
  /\ \A n \in 1..Len(q) : \A k \in Nat :
       q[n].data # <<>> /\ a <= k /\ k < q[n].seqno => OnWay(q, k, n)

\* What a host that is up can rely on.
FlowInv ==
  \A h \in Host :
    state[h].status = "up" =>
      Flows(net[h], state[h].rw.ackno, state[Peer(h)].sw.seqno)

\* A byte stays on its way as long as its message keeps its place.
LEMMA OnWayKept ==
  ASSUME NEW q, NEW r, NEW k, NEW n, NEW c, OnWay(q, k, n),
         \A j \in 1..Len(q) :
           j < n /\ q[j].ok /\ ~ q[j].late /\ q[j].seqno <= k /\ k < End(q[j])
             => \E i \in 1..Len(r) : i < c /\ r[i] = q[j]
  PROVE  OnWay(r, k, c)
  <1>1. PICK j \in 1..Len(q) :
          j < n /\ q[j].ok /\ ~ q[j].late /\ q[j].seqno <= k /\ k < End(q[j])
    BY DEF OnWay
  <1>2. PICK i \in 1..Len(r) : i < c /\ r[i] = q[j]
    BY <1>1
  <1>3. QED
    BY <1>1, <1>2 DEF OnWay

\* A message arrives of which no byte is missing any more.
LEMMA FlowsOut ==
  ASSUME NEW q \in Seq(Message), NEW c \in 1..Len(q), NEW a \in Nat,
         NEW b \in Nat, NEW e \in Nat, a <= b, Flows(q, a, e),
         \A k \in Nat : b <= k =>
           ~ (q[c].ok /\ q[c].seqno <= k /\ k < End(q[c]))
  PROVE  Flows(RemoveAt(q, c), b, e)
  <1> DEFINE r == RemoveAt(q, c)
  <1>1. /\ Len(r) = Len(q) - 1 /\ Len(q) \in Nat /\ c \in Int
        /\ \A i \in 1..(Len(q) - 1) : r[i] = IF i < c THEN q[i] ELSE q[i + 1]
    BY RemoveAtFacts
  <1> HIDE DEF r
  <1>2. ASSUME NEW j \in 1..Len(q), j # c, NEW n \in 1..(Len(q) + 1), j < n
        PROVE  \E i \in 1..Len(r) :
                 r[i] = q[j] /\ i < IF n <= c THEN n ELSE n - 1
    <2>1. CASE j < c
      <3>1. j \in 1..Len(r) /\ r[j] = q[j]
        BY <1>1, <2>1
      <3>2. j < IF n <= c THEN n ELSE n - 1
        BY <1>1, <1>2, <2>1
      <3>3. QED
        BY <3>1, <3>2
    <2>2. CASE j > c
      <3>1. j - 1 \in 1..Len(r) /\ r[j - 1] = q[j]
        BY <1>1, <2>2
      <3>2. j - 1 < IF n <= c THEN n ELSE n - 1
        BY <1>1, <1>2, <2>2
      <3>3. QED
        BY <3>1, <3>2
    <2>3. QED
      BY <1>1, <1>2, <2>1, <2>2
  <1>3. ASSUME NEW k \in Nat, b <= k, NEW n \in 1..(Len(q) + 1), OnWay(q, k, n)
        PROVE  OnWay(r, k, IF n <= c THEN n ELSE n - 1)
    <2> DEFINE d == IF n <= c THEN n ELSE n - 1
    <2>1. ASSUME NEW j \in 1..Len(q), j < n, q[j].ok, ~ q[j].late,
                 q[j].seqno <= k, k < End(q[j])
          PROVE  \E i \in 1..Len(r) : i < d /\ r[i] = q[j]
      <3>1. j # c
        BY <1>3, <2>1
      <3>2. QED
        BY <1>2, <2>1, <3>1
    <2> HIDE DEF d
    <2>2. OnWay(r, k, d)
      BY <1>3, <2>1, OnWayKept
    <2>3. QED
      BY <2>2 DEF d
  <1>4. ASSUME NEW k \in Nat, b <= k, k < e
        PROVE  OnWay(r, k, Len(r) + 1)
    <2> DEFINE n == Len(q) + 1
    <2>1. n \in 1..(Len(q) + 1) /\ ~ (n <= c) /\ n - 1 = Len(r) + 1
      BY <1>1
    <2>2. OnWay(q, k, n)
      BY <1>4 DEF Flows
    <2> HIDE DEF n
    <2>3. QED
      BY <1>3, <1>4, <2>1, <2>2
  <1>5. ASSUME NEW n \in 1..Len(r), NEW k \in Nat,
               r[n].data # <<>>, b <= k, k < r[n].seqno
        PROVE  OnWay(r, k, n)
    <2>1. CASE n < c
      <3>1. n \in 1..Len(q) /\ r[n] = q[n] /\ n \in 1..(Len(q) + 1) /\ n <= c
        BY <1>1, <2>1
      <3>2. OnWay(q, k, n)
        BY <1>5, <3>1 DEF Flows
      <3>3. QED
        BY <1>3, <1>5, <3>1, <3>2
    <2>2. CASE ~ (n < c)
      <3> DEFINE m == n + 1
      <3>1. /\ m \in 1..Len(q) /\ r[n] = q[m] /\ m \in 1..(Len(q) + 1)
            /\ ~ (m <= c) /\ m - 1 = n
        BY <1>1, <2>2
      <3> HIDE DEF m
      <3>2. OnWay(q, k, m)
        BY <1>5, <3>1 DEF Flows
      <3>3. OnWay(r, k, IF m <= c THEN m ELSE m - 1)
        BY <1>3, <1>5, <3>1, <3>2
      <3>4. QED
        BY <3>1, <3>3
    <2>3. QED
      BY <2>1, <2>2
  <1>6. Flows(r, b, e)
    BY <1>4, <1>5 DEF Flows
  <1>7. QED
    BY <1>6 DEF r

\* m carries what f carries.
SameData(m, f) == m.seqno = f.seqno /\ m.data = f.data

\* A message is doubled, and the copy falls behind.
LEMMA FlowsDoubled ==
  ASSUME NEW q \in Seq(Message), NEW c \in 1..Len(q), NEW m \in Message,
         SameData(m, q[c]), NEW a, NEW e, Flows(q, a, e)
  PROVE  Flows(InsertAt(q, c + 1, m), a, e)
  <1> DEFINE d == c + 1
             r == InsertAt(q, d, m)
  <1>1. d \in 1..(Len(q) + 1) /\ d = c + 1 /\ c \in Int /\ Len(q) \in Nat
    OBVIOUS
  <1> HIDE DEF d
  <1>2. /\ Len(r) = Len(q) + 1
        /\ \A i \in 1..(Len(q) + 1) :
             r[i] = IF i < d THEN q[i] ELSE IF i = d THEN m ELSE q[i - 1]
    <2>1. ASSUME NEW b \in 1..(Len(q) + 1)
          PROVE  /\ Len(InsertAt(q, b, m)) = Len(q) + 1
                 /\ \A i \in 1..(Len(q) + 1) :
                      InsertAt(q, b, m)[i] = IF i < b THEN q[i]
                                             ELSE IF i = b THEN m ELSE q[i - 1]
      BY InsertAtFacts, SMTT(30)
    <2>2. QED
      BY <1>1, <2>1
  <1> HIDE DEF r
  <1>3. ASSUME NEW k, NEW n \in 1..(Len(q) + 1), OnWay(q, k, n)
        PROVE  OnWay(r, k, IF n <= d THEN n ELSE n + 1)
    <2> DEFINE b == IF n <= d THEN n ELSE n + 1
    <2>1. ASSUME NEW j \in 1..Len(q), j < n
          PROVE  \E i \in 1..Len(r) : i < b /\ r[i] = q[j]
      <3>1. CASE j < d
        <4>1. j \in 1..Len(r) /\ r[j] = q[j]
          BY <1>1, <1>2, <3>1
        <4>2. j < b
          BY <1>1, <2>1, <3>1
        <4>3. QED
          BY <4>1, <4>2
      <3>2. CASE ~ (j < d)
        <4>1. j + 1 \in 1..Len(r) /\ r[j + 1] = q[j]
          BY <1>1, <1>2, <3>2
        <4>2. j + 1 < b
          BY <1>1, <2>1, <3>2
        <4>3. QED
          BY <4>1, <4>2
      <3>3. QED
        BY <3>1, <3>2
    <2> HIDE DEF b
    <2>2. OnWay(r, k, b)
      BY <1>3, <2>1, OnWayKept
    <2>3. QED
      BY <2>2 DEF b
  <1>4. ASSUME NEW k \in Nat, a <= k, k < e
        PROVE  OnWay(r, k, Len(r) + 1)
    <2> DEFINE n == Len(q) + 1
    <2>1. OnWay(q, k, n)
      BY <1>4 DEF Flows
    <2>2. n \in 1..(Len(q) + 1) /\ n + 1 = Len(r) + 1 /\ Len(r) = n
      BY <1>1, <1>2
    <2> HIDE DEF n
    <2>3. OnWay(r, k, IF n <= d THEN n ELSE n + 1)
      BY <1>3, <2>1, <2>2
    <2>4. CASE n <= d
      <3>1. OnWay(r, k, n) /\ n \in Int
        BY <2>2, <2>3, <2>4
      <3>2. OnWay(r, k, n + 1)
        BY <3>1, <1>2, <1>1, <2>2 DEF OnWay
      <3>3. QED
        BY <2>2, <3>2
    <2>5. QED
      BY <2>2, <2>3, <2>4
  <1>5. ASSUME NEW n \in 1..Len(r), NEW k \in Nat,
               r[n].data # <<>>, a <= k, k < r[n].seqno
        PROVE  OnWay(r, k, n)
    <2>1. CASE n < d
      <3>1. n \in 1..Len(q) /\ r[n] = q[n] /\ n \in 1..(Len(q) + 1) /\ n <= d
        BY <1>1, <1>2, <2>1
      <3>2. OnWay(q, k, n)
        BY <1>5, <3>1 DEF Flows
      <3>3. QED
        BY <1>3, <3>1, <3>2
    <2>2. CASE n = d
      <3>1. r[n] = m /\ c \in 1..(Len(q) + 1) /\ c <= d /\ c < n
        BY <1>1, <1>2, <2>2
      <3>2. q[c].data # <<>> /\ k < q[c].seqno
        BY <1>5, <3>1 DEF SameData
      <3>3. OnWay(q, k, c)
        BY <1>5, <3>2 DEF Flows
      <3>4. OnWay(r, k, c)
        BY <1>3, <3>1, <3>3
      <3>5. QED
        BY <1>1, <1>2, <3>1, <3>4 DEF OnWay
    <2>3. CASE n > d
      <3> DEFINE b == n - 1
      <3>1. /\ b \in 1..Len(q) /\ r[n] = q[b] /\ b \in 1..(Len(q) + 1)
            /\ b >= d /\ b + 1 = n /\ b \in Int
        BY <1>1, <1>2, <2>3
      <3> HIDE DEF b
      <3>2. OnWay(q, k, b)
        BY <1>5, <3>1 DEF Flows
      <3>3. OnWay(r, k, IF b <= d THEN b ELSE b + 1)
        BY <1>3, <3>1, <3>2
      <3>4. CASE b <= d
        <4>1. OnWay(r, k, b)
          BY <3>3, <3>4
        <4>2. OnWay(r, k, b + 1)
          BY <1>1, <1>2, <3>1, <4>1 DEF OnWay
        <4>3. QED
          BY <3>1, <4>2
      <3>5. QED
        BY <3>1, <3>3, <3>4
    <2>4. QED
      BY <1>1, <2>1, <2>2, <2>3
  <1>6. Flows(r, a, e)
    BY <1>4, <1>5 DEF Flows
  <1>7. QED
    BY <1>6 DEF r, d

\* New messages join the queue: they carry what was sent before, or the next
\* bytes.
LEMMA FlowsOn ==
  ASSUME NEW q \in Seq(Message), NEW w \in Seq(Message),
         NEW a \in Nat, NEW e \in Nat, NEW f \in Nat, Flows(q, a, e),
         \A n \in 1..Len(w) : w[n].data # <<>> => w[n].seqno <= e,
         \A k \in Nat : e <= k /\ k < f =>
           \E n \in 1..Len(w) :
             w[n].ok /\ ~ w[n].late /\ w[n].seqno <= k /\ k < End(w[n])
  PROVE  Flows(q \o w, a, f)
  <1> DEFINE r == q \o w
  <1>1. r \in Seq(Message) /\ IsConcat(q, w, r)
    BY ConcatFacts
  <1> HIDE DEF r
  <1>2. /\ Len(q) \in Nat /\ Len(w) \in Nat /\ Len(r) = Len(q) + Len(w)
        /\ \A i \in 1..Len(q) : r[i] = q[i]
        /\ \A i \in 1..Len(w) : r[Len(q) + i] = w[i]
    BY <1>1 DEF IsConcat
  <1>3. ASSUME NEW k, NEW n \in 1..(Len(q) + 1), OnWay(q, k, n),
               NEW b \in Int, n <= b
        PROVE  OnWay(r, k, b)
    <2>1. ASSUME NEW j \in 1..Len(q), j < n
          PROVE  \E i \in 1..Len(r) : i < b /\ r[i] = q[j]
      <3>1. j \in 1..Len(r) /\ r[j] = q[j] /\ j < b
        BY <1>2, <1>3, <2>1
      <3>2. QED
        BY <3>1
    <2>2. QED
      BY <1>3, <2>1, OnWayKept
  <1>4. ASSUME NEW k \in Nat, a <= k, k < f
        PROVE  OnWay(r, k, Len(r) + 1)
    <2>1. CASE k < e
      <3> DEFINE n == Len(q) + 1
                 b == Len(r) + 1
      <3>1. OnWay(q, k, n)
        BY <1>4, <2>1 DEF Flows
      <3>2. n \in 1..(Len(q) + 1) /\ b \in Int /\ n <= b
        BY <1>2
      <3> HIDE DEF n, b
      <3>3. OnWay(r, k, b)
        BY <1>3, <3>1, <3>2
      <3>4. QED
        BY <3>3 DEF b
    <2>2. CASE ~ (k < e)
      <3>1. PICK n \in 1..Len(w) :
              w[n].ok /\ ~ w[n].late /\ w[n].seqno <= k /\ k < End(w[n])
        BY <1>4, <2>2
      <3>2. Len(q) + n \in 1..Len(r) /\ r[Len(q) + n] = w[n]
            /\ Len(q) + n < Len(r) + 1
        BY <1>2
      <3>3. QED
        BY <3>1, <3>2 DEF OnWay
    <2>3. QED
      BY <2>1, <2>2
  <1>5. ASSUME NEW n \in 1..Len(r), NEW k \in Nat,
               r[n].data # <<>>, a <= k, k < r[n].seqno
        PROVE  OnWay(r, k, n)
    <2>1. CASE n <= Len(q)
      <3>1. n \in 1..Len(q) /\ r[n] = q[n] /\ n \in 1..(Len(q) + 1) /\ n \in Int
        BY <1>2, <2>1
      <3>2. OnWay(q, k, n)
        BY <1>5, <3>1 DEF Flows
      <3>3. QED
        BY <1>3, <3>1, <3>2
    <2>2. CASE ~ (n <= Len(q))
      <3> DEFINE i == n - Len(q)
                 b == Len(q) + 1
      <3>1. i \in 1..Len(w) /\ Len(q) + i = n
        BY <1>2, <2>2
      <3>2. r[n] = w[i]
        BY <1>2, <3>1
      <3> HIDE DEF i
      <3>3. w[i].seqno <= e /\ w[i].seqno \in Nat
        <4>1. w[i] \in Message
          BY <3>1
        <4>2. QED
          BY <1>5, <3>1, <3>2, <4>1 DEF Message
      <3>4. k < e
        BY <1>5, <3>2, <3>3
      <3>5. OnWay(q, k, b)
        BY <1>5, <3>4 DEF Flows
      <3>6. b \in 1..(Len(q) + 1) /\ n \in Int /\ b <= n
        BY <1>2, <2>2
      <3> HIDE DEF b
      <3>7. QED
        BY <1>3, <3>5, <3>6
    <2>3. QED
      BY <1>2, <2>1, <2>2
  <1>6. Flows(r, a, f)
    BY <1>4, <1>5 DEF Flows
  <1>7. QED
    BY <1>6 DEF r

\* What a callback sends flows on behind what is under way.
LEMMA FlowsSent ==
  ASSUME IInv, NEW h \in Host, NEW s, Outcome(h, s), Emits(state[h], s),
         NEW a \in Nat, Flows(net[Peer(h)], a, state[h].sw.seqno)
  PROVE  Flows(net[Peer(h)] \o s.wire, a, s.sw.seqno)
  <1> DEFINE q == net[Peer(h)]
             w == s.wire
             e == state[h].sw.seqno
             f == s.sw.seqno
             S == state[h].sw.segments
  <1>1. /\ q \in Seq(Message) /\ w \in Seq(Message) /\ e \in Nat /\ f \in Nat
        /\ state[h].wire = <<>> /\ HostInv(h, state[h])
    <2>1. q \in Seq(Message) /\ w \in Seq(Message)
      BY CallbackNet
    <2>2. HostInv(h, state[h]) /\ SentInv(state[h]) /\ HostInv(h, s)
      BY Facts DEF PairInv, Outcome, Ready
    <2>3. QED
      BY <2>1, <2>2, ReadyTypes DEF SentInv
  <1>2. CASE Repeats(state[h], s)
    <2>1. f = e /\ Carried(w) \subseteq PieceSet(S)
      BY <1>1, <1>2, CarriedNone DEF Repeats
    <2>2. ASSUME NEW n \in 1..Len(w), w[n].data # <<>>
          PROVE  w[n].seqno <= e
      <3> DEFINE r == <<w[n].seqno, End(w[n])>>
      <3>1. r \in PieceSet(S) /\ r[1] = w[n].seqno
        <4> HIDE DEF w
        <4>1. r \in Carried(w)
          BY <2>2, CarriedBy
        <4>2. QED
          BY <2>1, <4>1
      <3> HIDE DEF r
      <3>2. r[1] \in 1..state[h].input /\ r[2] \in Nat /\ r[1] < r[2] /\ r[2] <= e
        BY <1>1, <3>1, PieceBounds
      <3>3. state[h].input \in Nat
        BY <1>1, ReadyTypes
      <3>4. QED
        BY <1>1, <3>1, <3>2, <3>3
    <2>3. \A k \in Nat : ~ (e <= k /\ k < f)
      BY <1>1, <2>1
    <2>4. Flows(q, a, e)
      OBVIOUS
    <2> HIDE DEF q, w, e, f
    <2>5. Flows(q \o w, a, f)
      BY <1>1, <2>2, <2>3, <2>4, FlowsOn
    <2>6. QED
      BY <2>5 DEF q, w, f
  <1>3. CASE Extends(state[h], s)
    <2>1. PICK m \in Message :
            /\ w = state[h].wire \o <<m>>
            /\ m.data # <<>> /\ m.ok /\ ~ m.late
            /\ m.seqno = e /\ End(m) = f
      BY <1>3 DEF Extends
    <2>2. w = <<m>>
      BY <1>1, <2>1
    <2>3. Len(w) = 1 /\ w[1] = m
      BY <2>2
    <2>4. Flows(q, a, e)
      OBVIOUS
    <2> HIDE DEF q, w, e, f
    <2>5. \A n \in 1..Len(w) : w[n].data # <<>> => w[n].seqno <= e
      BY <1>1, <2>1, <2>3
    <2>6. \A k \in Nat : e <= k /\ k < f =>
            \E n \in 1..Len(w) :
              w[n].ok /\ ~ w[n].late /\ w[n].seqno <= k /\ k < End(w[n])
      BY <1>1, <2>1, <2>3
    <2>7. Flows(q \o w, a, f)
      BY <1>1, <2>4, <2>5, <2>6, FlowsOn
    <2>8. QED
      BY <2>7 DEF q, w, f
  <1>4. QED
    BY <1>2, <1>3 DEF Emits

\* Where a message's data end.
LEMMA MessageEnd ==
  ASSUME NEW m \in Message
  PROVE  /\ m.seqno \in Nat /\ Len(m.data) \in Nat /\ End(m) \in Nat
         /\ End(m) = m.seqno + Len(m.data)
  <1>1. m.seqno \in Nat /\ m.data \in Seq(Nat)
    BY DEF Message
  <1>2. Len(m.data) \in Nat
    BY <1>1
  <1>3. QED
    BY <1>1, <1>2 DEF End

\* The message that arrives is old, or the very next one, and it fits.
LEMMA NothingEarly ==
  ASSUME IInv, CutInv, FlowInv, NEW h \in Host, NEW i \in 1..Len(net[h]),
         Arrives(h, i), net[h][i].data # <<>>
  PROVE  LET m == net[h][i]
             a == state[h].rw.ackno
         IN  /\ m.seqno = a \/ (m.seqno < a /\ End(m) <= a)
             /\ Len(m.data) <= Window[h]
  <1> DEFINE q == net[h]
             m == q[i]
             a == state[h].rw.ackno
             p == <<m.seqno, End(m)>>
  <1>1. /\ a \in Nat /\ Window[h] \in Nat /\ m \in Message
        /\ q \in Seq(Message)
    BY Facts, MessageFacts, SizeAssumption DEF IInv
  <1>2. m.seqno \in Nat /\ Len(m.data) \in Nat /\ End(m) \in Nat
        /\ End(m) = m.seqno + Len(m.data)
    BY <1>1, MessageEnd
  <1>3. m.seqno <= a
    <2>1. SUFFICES ASSUME a < m.seqno PROVE FALSE
      BY <1>1, <1>2
    <2>2. OnWay(q, a, i)
      BY <1>1, <2>1 DEF FlowInv, Flows, Arrives
    <2>3. PICK j \in 1..Len(q) : j < i /\ ~ q[j].late
      BY <2>2 DEF OnWay
    <2>4. j \in 1..(i - 1)
      BY <1>1, <2>3
    <2>5. QED
      BY <2>3, <2>4 DEF Arrives
  <1>4. p \in Pieces(h)
    BY CarriedBy DEF Pieces
  <1>5. p[1] = m.seqno /\ p[2] = End(m)
    OBVIOUS
  <1>6. /\ p[2] - p[1] <= Window[h]
        /\ p[2] <= a \/ a <= p[1]
    BY <1>4 DEF CutInv, Sound
  <1> HIDE DEF p, m, a
  <1>7. /\ m.seqno = a \/ (m.seqno < a /\ End(m) <= a)
        /\ Len(m.data) <= Window[h]
    BY <1>1, <1>2, <1>3, <1>5, <1>6
  <1>8. QED
    BY <1>7 DEF m, a, q

\* A host that receives in this order does not die, and relies on the rest.
LEMMA FlowsReceived ==
  ASSUME IInv, CutInv, FlowInv, NEW h \in Host, NEW i \in 1..Len(net[h]),
         NEW s, Outcome(h, s), Received(h, i, s)
  PROVE  /\ s.status # "crashed"
         /\ Flows(RemoveAt(net[h], i), s.rw.ackno, state[Peer(h)].sw.seqno)
  <1> DEFINE q == net[h]
             m == q[i]
             a == state[h].rw.ackno
             b == s.rw.ackno
             e == state[Peer(h)].sw.seqno
  <1>1. /\ a \in Nat /\ b \in Nat /\ e \in Nat /\ a <= b
        /\ q \in Seq(Message) /\ m \in Message
    <2>1. a \in Nat /\ e \in Nat /\ a <= b /\ q \in Seq(Message) /\ m \in Message
      BY Facts, MessageFacts DEF IInv, Outcome
    <2>2. b \in Nat
      BY ReadyTypes DEF Outcome, Ready
    <2>3. QED
      BY <2>1, <2>2
  <1>2. m.seqno \in Nat /\ Len(m.data) \in Nat /\ End(m) = m.seqno + Len(m.data)
    BY <1>1, MessageEnd
  <1>3. Arrives(h, i) /\ Flows(q, a, e)
    BY DEF Received, FlowInv, Arrives
  <1>4. m.data # <<>> => /\ m.seqno = a \/ (m.seqno < a /\ End(m) <= a)
                         /\ Len(m.data) <= Window[h]
    BY <1>3, NothingEarly
  <1>5. s.status # "crashed"
    <2>1. s.status = "crashed" => m.data # <<>> /\ m.seqno > a
      BY DEF Received
    <2> HIDE DEF m, a
    <2>2. QED
      BY <1>1, <1>2, <1>4, <2>1
  <1>6. ASSUME NEW k \in Nat, b <= k, m.ok, m.seqno <= k, k < End(m)
        PROVE  FALSE
    <2>1. CASE m.data = <<>>
      <3>1. Len(m.data) = 0
        BY <2>1
      <3> HIDE DEF m, b
      <3>2. QED
        BY <1>2, <1>6, <3>1
    <2>2. CASE m.data # <<>> /\ m.seqno = a
      <3>1. b = End(m)
        BY <1>4, <1>6, <2>2 DEF Received, Expected
      <3> HIDE DEF m, b
      <3>2. QED
        BY <1>1, <1>2, <1>6, <3>1
    <2>3. CASE m.data # <<>> /\ m.seqno < a /\ End(m) <= a
      <3> HIDE DEF m, a, b
      <3>1. QED
        BY <1>1, <1>2, <1>6, <2>3
    <2>4. QED
      BY <1>4, <2>1, <2>2, <2>3
  <1> HIDE DEF a, b, e
  <1>7. \A k \in Nat : b <= k => ~ (q[i].ok /\ q[i].seqno <= k /\ k < End(q[i]))
    BY <1>6
  <1> HIDE DEF q, m
  <1>8. i \in 1..Len(q)
    BY DEF q
  <1>9. Flows(RemoveAt(q, i), b, e)
    BY <1>1, <1>3, <1>7, <1>8, FlowsOut
  <1>10. QED
    BY <1>5, <1>9 DEF q, b, e

\* Every callback keeps both hosts able to rely on what is under way, and
\* alive.
LEMMA FlowCallback ==
  ASSUME IInv, CutInv, FlowInv, NeverCrashes, NEW h \in Host, Callback(h)
  PROVE  FlowInv' /\ NeverCrashes'
  <1>1. PICK s :
          /\ Outcome(h, s) /\ Emits(state[h], s)
          /\ \/ Sends(h, s) /\ NotReceived(h, s)
             \/ \E i \in 1..Len(net[h]) : Consumes(h, i, s) /\ Received(h, i, s)
    BY DEF Callback
  <1>2. /\ Peer(h) \in Host /\ Peer(h) # h /\ Peer(Peer(h)) = h
        /\ Host = {h, Peer(h)}
    BY PeerFacts DEF Host, Peer
  <1>3. /\ state'[h].sw = s.sw /\ state'[h].rw = s.rw
        /\ state'[h].status = s.status
        /\ state'[Peer(h)] = state[Peer(h)]
    BY <1>1, <1>2, CallbackState
  <1>4. s.status # "crashed"
    BY <1>1, FlowsReceived DEF NotReceived
  <1>5. state[h].status = "up"
    BY <1>1 DEF NotReceived, Received, Arrives
  <1>6. Flows(net'[h], s.rw.ackno, state[Peer(h)].sw.seqno)
    <2>1. CASE Sends(h, s) /\ NotReceived(h, s)
      <3>1. net'[h] = net[h] /\ s.rw.ackno = state[h].rw.ackno
        BY <1>1, <2>1, CallbackNet DEF NotReceived
      <3>2. QED
        BY <1>5, <3>1 DEF FlowInv
    <2>2. ASSUME NEW i \in 1..Len(net[h]), Consumes(h, i, s), Received(h, i, s)
          PROVE  Flows(net'[h], s.rw.ackno, state[Peer(h)].sw.seqno)
      <3>1. net'[h] = RemoveAt(net[h], i)
        BY <1>1, <2>2, CallbackNet
      <3>2. QED
        BY <1>1, <2>2, <3>1, FlowsReceived
    <2>3. QED
      BY <1>1, <2>1, <2>2
  <1>7. state[Peer(h)].status = "up" =>
          Flows(net'[Peer(h)], state[Peer(h)].rw.ackno, s.sw.seqno)
    <2> SUFFICES ASSUME state[Peer(h)].status = "up"
                 PROVE  Flows(net'[Peer(h)], state[Peer(h)].rw.ackno, s.sw.seqno)
      OBVIOUS
    <2>1. Flows(net[Peer(h)], state[Peer(h)].rw.ackno, state[h].sw.seqno)
      BY <1>2 DEF FlowInv
    <2>2. state[Peer(h)].rw.ackno \in Nat
      BY Facts
    <2>3. net'[Peer(h)] = net[Peer(h)] \o s.wire
      BY <1>1, CallbackNet
    <2>4. QED
      BY <1>1, <2>1, <2>2, <2>3, FlowsSent
  <1>8. ASSUME NEW k \in Host
        PROVE  /\ state'[k].status = "up" =>
                    Flows(net'[k], state'[k].rw.ackno, state'[Peer(k)].sw.seqno)
               /\ state'[k].status # "crashed"
    <2>1. CASE k = h
      BY <1>3, <1>4, <1>6, <2>1
    <2>2. CASE k = Peer(h)
      BY <1>2, <1>3, <1>7, <2>2 DEF NeverCrashes
    <2>3. QED
      BY <1>2, <2>1, <2>2
  <1>9. QED
    BY <1>8 DEF FlowInv, NeverCrashes

\* So does a network that does no more than duplicate.
LEMMA FlowTravels ==
  ASSUME Faults \subseteq {"duplicate"}, IInv, FlowInv, Travels
  PROVE  FlowInv'
  <1>1. net \in [Host -> Seq(Message)] /\ state' = state
    BY DEF IInv, Travels
  <1>2. CASE net' = net
    BY <1>1, <1>2 DEF FlowInv
  <1>3. ASSUME NEW h \in Host, RecvFilterDrop(h)
        PROVE  FlowInv'
    <2>1. state[h].status # "up" /\ \A k \in Host : k # h => net'[k] = net[k]
      BY <1>1, <1>3 DEF RecvFilterDrop
    <2>2. QED
      BY <1>1, <2>1 DEF FlowInv
  <1>4. ASSUME NEW h \in Host, Unreliable(h)
        PROVE  FlowInv'
    <2>1. PICK i \in 1..Len(net[h]) : Duplicate(h, i)
      <3>1. ~ ("drop" \in Faults) /\ ~ ("delay" \in Faults)
            /\ ~ ("corrupt" \in Faults)
        OBVIOUS
      <3>2. QED
        BY <1>4, <3>1 DEF Unreliable, Drop, Delay, Corrupt, Hits
    <2> DEFINE m == [net[h][i] EXCEPT !.late = TRUE]
               q == net[h]
    <2>2. q \in Seq(Message) /\ i \in 1..Len(q)
      BY <1>1
    <2>3. m \in Message /\ SameData(m, q[i])
      <3>1. q[i] \in Message
        BY <2>2
      <3>2. QED
        BY <3>1 DEF Message, SameData
    <2>4. /\ net'[h] = InsertAt(q, i + 1, m)
          /\ \A k \in Host : k # h => net'[k] = net[k]
      BY <1>1, <2>1 DEF Duplicate
    <2> HIDE DEF m
    <2>5. ASSUME NEW a, NEW e, Flows(q, a, e)
          PROVE  Flows(net'[h], a, e)
      <3> HIDE DEF q
      <3>1. Flows(InsertAt(q, i + 1, m), a, e)
        BY <2>2, <2>3, <2>5, FlowsDoubled
      <3>2. QED
        BY <2>4, <3>1
    <2>6. QED
      BY <1>1, <2>4, <2>5 DEF FlowInv
  <1>5. QED
    BY <1>2, <1>3, <1>4 DEF Travels

\* What a network without loss keeps.
LivesInv == IInv /\ CutInv /\ FlowInv /\ NeverCrashes

\* At first nothing is missing.
LEMMA LivesInit == Init => LivesInv
  <1> SUFFICES ASSUME Init PROVE FlowInv /\ NeverCrashes
    BY InitInv, CutInit DEF LivesInv
  <1>1. ASSUME NEW h \in Host
        PROVE  /\ net[h] = <<>> /\ state[h].rw.ackno = 1
               /\ state[Peer(h)].sw.seqno = 1 /\ state[h].status = "up"
    BY PeerFacts DEF Init, ctcp_init
  <1>2. Flows(<<>>, 1, 1)
    BY DEF Flows
  <1>3. QED
    BY <1>1, <1>2 DEF FlowInv, NeverCrashes

\* Every step keeps it.
LEMMA LivesNext ==
  ASSUME Faults \subseteq {"duplicate"}
  PROVE  LivesInv /\ [Next]_vars => LivesInv'
  <1> SUFFICES ASSUME LivesInv, [Next]_vars PROVE LivesInv'
    OBVIOUS
  <1>1. IInv /\ CutInv /\ FlowInv /\ NeverCrashes
    BY DEF LivesInv
  <1>2. IInv'
    BY <1>1, NextInv
  <1>3. CASE \E h \in Host : Callback(h)
    BY <1>1, <1>2, <1>3, CutCallback, FlowCallback DEF LivesInv
  <1>4. CASE Travels
    <2>1. CutInv' /\ FlowInv'
      BY <1>1, <1>4, CutTravels, FlowTravels
    <2>2. NeverCrashes'
      BY <1>1, <1>4 DEF NeverCrashes, Travels
    <2>3. QED
      BY <1>2, <2>1, <2>2 DEF LivesInv
  <1>5. QED
    BY <1>1, <1>3, <1>4, StepCases

\* A network that neither loses, delays nor damages what it carries kills no
\* host, whatever the windows, the timers, the duplicates and stdout do.
THEOREM InOrderLives ==
  ASSUME Faults \subseteq {"duplicate"}
  PROVE  Spec => []NeverCrashes
  <1>1. LivesInv /\ [Next]_vars => LivesInv'
    BY LivesNext
  <1>2. LivesInv => NeverCrashes
    BY DEF LivesInv
  <1>3. QED
    BY <1>1, <1>2, LivesInit, PTL DEF Spec
=============================================================================
