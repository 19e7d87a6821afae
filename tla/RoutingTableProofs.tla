------------------------- MODULE RoutingTableProofs -------------------------
(***************************************************************************)
(* Proofs about the operators of RoutingTable, for addresses of any width  *)
(* and tables of any length: sr_load_rt, sr_verify_routing_table and       *)
(* longestprefixmatch, which finds what RouteOf says it should.            *)
(***************************************************************************)
EXTENDS RoutingTable, SeqLemmas, FiniteSetTheorems

-----------------------------------------------------------------------------
(* Masks as numbers.                                                       *)

\* The number of an address has as many bits.
LEMMA Widths ==
  /\ ADDR_OCTETS \in Nat /\ OCTET_BITS \in Nat /\ ADDR_BITS \in Nat
  /\ ADDR_OCTETS >= 1 /\ OCTET_BITS >= 1
  BY WidthAssumption DEF ADDR_BITS

\* The bits of an address are in bounds.
LEMMA BitInAddress ==
  ASSUME NEW j \in 1..ADDR_BITS
  PROVE  BitOf(j) \in 1..ADDR_BITS
  <1> DEFINE q == (j - 1) \div OCTET_BITS
             r == (j - 1) % OCTET_BITS
             u == ADDR_OCTETS - 1 - q
  <1>1. /\ q \in Nat /\ r \in 0..(OCTET_BITS - 1)
        /\ j - 1 = OCTET_BITS * q + r
    <2>1. j - 1 \in Nat
      BY Widths
    <2>2. QED
      BY <2>1, Widths, Division
  <1>2. BitOf(j) = OCTET_BITS * u + r + 1
    BY DEF BitOf
  <1>3. j - 1 < ADDR_OCTETS * OCTET_BITS
    BY Widths DEF ADDR_BITS
  <1> HIDE DEF q, r
  <1>4. q < ADDR_OCTETS
    <2>1. SUFFICES ASSUME q >= ADDR_OCTETS
                   PROVE  FALSE
      BY <1>1, Widths
    <2>2. OCTET_BITS * q >= OCTET_BITS * ADDR_OCTETS
      BY <1>1, <2>1, Widths
    <2>3. QED
      BY <1>1, <1>3, <2>2, Widths
  <1>5. u \in 0..(ADDR_OCTETS - 1)
    BY <1>1, <1>4, Widths
  <1> HIDE DEF u
  <1>6. OCTET_BITS * u <= OCTET_BITS * (ADDR_OCTETS - 1) /\ OCTET_BITS * u >= 0
    BY <1>5, Widths
  <1>7. OCTET_BITS * (ADDR_OCTETS - 1) = ADDR_BITS - OCTET_BITS
    BY Widths DEF ADDR_BITS
  <1>8. QED
    BY <1>1, <1>2, <1>5, <1>6, <1>7, Widths

\* Every bit of an address is in the number.
LEMMA BitInNumber ==
  ASSUME NEW i \in 1..ADDR_BITS
  PROVE  \E j \in 1..ADDR_BITS : BitOf(j) = i
  <1> DEFINE q == (i - 1) \div OCTET_BITS
             r == (i - 1) % OCTET_BITS
             u == ADDR_OCTETS - 1 - q
             k == OCTET_BITS * u + r
  <1>1. /\ q \in Nat /\ r \in 0..(OCTET_BITS - 1)
        /\ i - 1 = OCTET_BITS * q + r
    <2>1. i - 1 \in Nat
      BY Widths
    <2>2. QED
      BY <2>1, Widths, Division
  <1>2. i - 1 < ADDR_OCTETS * OCTET_BITS
    BY Widths DEF ADDR_BITS
  <1> HIDE DEF q, r
  <1>3. q < ADDR_OCTETS
    <2>1. SUFFICES ASSUME q >= ADDR_OCTETS
                   PROVE  FALSE
      BY <1>1, Widths
    <2>2. OCTET_BITS * q >= OCTET_BITS * ADDR_OCTETS
      BY <1>1, <2>1, Widths
    <2>3. QED
      BY <1>1, <1>2, <2>2, Widths
  <1>4. u \in 0..(ADDR_OCTETS - 1) /\ ADDR_OCTETS - 1 - u = q
    BY <1>1, <1>3, Widths
  <1> HIDE DEF u
  <1>5. k \in Nat /\ k <= OCTET_BITS * (ADDR_OCTETS - 1) + (OCTET_BITS - 1)
    <2>1. OCTET_BITS * u <= OCTET_BITS * (ADDR_OCTETS - 1)
          /\ OCTET_BITS * u \in Nat
      BY <1>4, Widths
    <2>2. QED
      BY <1>1, <2>1, Widths
  <1>6. OCTET_BITS * (ADDR_OCTETS - 1) = ADDR_BITS - OCTET_BITS
    BY Widths DEF ADDR_BITS
  <1>7. k \div OCTET_BITS = u /\ k % OCTET_BITS = r
    BY <1>1, <1>4, Widths, DivisionUnique
  <1> HIDE DEF k
  <1>8. k + 1 \in 1..ADDR_BITS /\ (k + 1) - 1 = k
    BY <1>5, <1>6, Widths
  <1>9. BitOf(k + 1) = OCTET_BITS * q + r + 1
    BY <1>4, <1>7, <1>8 DEF BitOf
  <1>10. BitOf(k + 1) = i
    BY <1>1, <1>9, Widths
  <1>11. QED
    BY <1>8, <1>10

\* f reads the bits of a one after another.
Reads(f, a) ==
  /\ f \in [0..ADDR_BITS -> Nat] /\ f[0] = 0
  /\ \A j \in 1..ADDR_BITS : f[j] = 2 * f[j - 1] + a[BitOf(j)]

\* s_addr is what such a function comes to.
LEMMA NumberRead ==
  ASSUME NEW a \in Address
  PROVE  \E f : Reads(f, a) /\ s_addr[a] = f[ADDR_BITS]
  <1> DEFINE number[j \in 0..ADDR_BITS] ==
               IF j = 0 THEN 0 ELSE 2 * number[j - 1] + a[BitOf(j)]
             step == [j \in 1..ADDR_BITS |-> [n \in Nat |-> 2 * n + a[BitOf(j)]]]
  <1>1. \A j \in 1..ADDR_BITS : a[BitOf(j)] \in {0, 1}
    BY BitInAddress DEF Address
  <1>2. step \in [1..ADDR_BITS -> [Nat -> Nat]]
    BY <1>1
  <1>3. PICK f \in [0..ADDR_BITS -> Nat] :
          f[0] = 0 /\ \A j \in 1..ADDR_BITS : f[j] = step[j][f[j - 1]]
    <2> DEFINE A == Nat
               b == 0
    <2>1. b \in A /\ IsStep(step, ADDR_BITS, A)
      BY <1>2 DEF IsStep
    <2> HIDE DEF step, A, b, number
    <2>2. \E f : Recurs(f, ADDR_BITS, A, b, step)
      BY <2>1, Widths, Recursion
    <2>3. QED
      BY <2>2 DEF A, b, Recurs
  <1>4. ASSUME NEW j \in 1..ADDR_BITS
        PROVE  f[j] = 2 * f[j - 1] + a[BitOf(j)]
    <2>1. j - 1 \in 0..ADDR_BITS
      BY Widths
    <2>2. f[j - 1] \in Nat
      BY <2>1
    <2>3. QED
      BY <1>3, <2>2
  <1> HIDE DEF step
  <1>5. f = [j \in 0..ADDR_BITS |->
               IF j = 0 THEN 0 ELSE 2 * f[j - 1] + a[BitOf(j)]]
    <2>1. \A j \in 0..ADDR_BITS : j # 0 => j \in 1..ADDR_BITS
      BY Widths
    <2>2. QED
      BY <1>3, <1>4, <2>1
  <1>6. number = [j \in 0..ADDR_BITS |->
               IF j = 0 THEN 0 ELSE 2 * number[j - 1] + a[BitOf(j)]]
    BY <1>5
  <1>7. s_addr[a] = number[ADDR_BITS]
    BY DEF s_addr
  <1> HIDE DEF number
  <1>8. number[0] = 0
    BY <1>6, Widths
  <1>9. ASSUME NEW j \in 1..ADDR_BITS
        PROVE  number[j] = 2 * number[j - 1] + a[BitOf(j)]
    <2>1. j \in 0..ADDR_BITS /\ j # 0
      BY Widths
    <2>2. QED
      BY <1>6, <2>1
  <1>10. \A j \in 0..ADDR_BITS : number[j] \in Nat
    <2>1. ASSUME NEW j \in 1..ADDR_BITS, number[j - 1] \in Nat
          PROVE  number[j] \in Nat
      BY <1>1, <1>9, <2>1
    <2> DEFINE A == Nat
    <2>2. number[0] \in A
      BY <1>8
    <2>3. \A j \in 1..ADDR_BITS : number[j - 1] \in A => number[j] \in A
      BY <2>1
    <2> HIDE DEF A
    <2>4. \A j \in 0..ADDR_BITS : number[j] \in A
      BY <2>2, <2>3, Widths, RecursionTyped
    <2>5. QED
      BY <2>4 DEF A
  <1>11. Reads(number, a)
    <2>1. number \in [0..ADDR_BITS -> Nat]
      BY <1>6, <1>10
    <2>2. QED
      BY <1>8, <1>9, <2>1 DEF Reads
  <1>12. QED
    BY <1>7, <1>11

\* The mask of a prefix is an address.
LEMMA MaskIsAddress ==
  ASSUME NEW n \in 0..ADDR_BITS
  PROVE  PrefixMask(n) \in Address
  BY DEF PrefixMask, Address

\* The longer of two prefixes has the larger mask, although the code compares
\* them with the last octet first: the shorter one's bits are among the
\* longer one's.
LEMMA LongerIsLarger ==
  ASSUME NEW m \in 0..ADDR_BITS, NEW n \in 0..ADDR_BITS, m < n
  PROVE  s_addr[PrefixMask(m)] < s_addr[PrefixMask(n)]
  <1> DEFINE a == PrefixMask(m)
             b == PrefixMask(n)
  <1>1. PICK f : Reads(f, a) /\ s_addr[a] = f[ADDR_BITS]
    BY MaskIsAddress, NumberRead
  <1>2. PICK g : Reads(g, b) /\ s_addr[b] = g[ADDR_BITS]
    BY MaskIsAddress, NumberRead
  <1>3. \A i \in 1..ADDR_BITS :
          a[i] \in {0, 1} /\ b[i] \in {0, 1} /\ a[i] <= b[i]
    BY Widths DEF PrefixMask
  <1>4. n \in 1..ADDR_BITS /\ a[n] = 0 /\ b[n] = 1
    BY Widths DEF PrefixMask
  <1> HIDE DEF a, b
  <1>5. PICK k \in 1..ADDR_BITS : BitOf(k) = n
    BY <1>4, BitInNumber
  <1> DEFINE S == {j \in 0..ADDR_BITS :
                     f[j] <= g[j] /\ (k <= j => f[j] < g[j])}
  <1>6. 0 \in S
    BY <1>1, <1>2, Widths DEF Reads
  <1>7. ASSUME NEW j \in 0..(ADDR_BITS - 1), j \in S
        PROVE  j + 1 \in S
    <2>1. j + 1 \in 1..ADDR_BITS /\ (j + 1) - 1 = j /\ j \in 0..ADDR_BITS
      BY Widths
    <2>2. /\ f[j + 1] = 2 * f[j] + a[BitOf(j + 1)]
          /\ g[j + 1] = 2 * g[j] + b[BitOf(j + 1)]
          /\ f[j] \in Nat /\ g[j] \in Nat
      BY <1>1, <1>2, <2>1 DEF Reads
    <2>3. BitOf(j + 1) \in 1..ADDR_BITS
      BY <2>1, BitInAddress
    <2>4. /\ a[BitOf(j + 1)] \in {0, 1} /\ b[BitOf(j + 1)] \in {0, 1}
          /\ a[BitOf(j + 1)] <= b[BitOf(j + 1)]
      BY <1>3, <2>3
    <2>5. f[j] <= g[j] /\ (k <= j => f[j] < g[j])
      BY <1>7
    <2>6. f[j + 1] <= g[j + 1]
      BY <2>2, <2>4, <2>5
    <2>7. k <= j => f[j + 1] < g[j + 1]
      BY <2>2, <2>4, <2>5
    <2>8. k = j + 1 => f[j + 1] < g[j + 1]
      <3>1. SUFFICES ASSUME k = j + 1
                     PROVE  f[j + 1] < g[j + 1]
        OBVIOUS
      <3>2. a[BitOf(j + 1)] = 0 /\ b[BitOf(j + 1)] = 1
        BY <1>4, <1>5, <3>1
      <3>3. QED
        BY <2>2, <2>5, <3>2
    <2>9. QED
      BY <2>1, <2>6, <2>7, <2>8
  <1>8. ADDR_BITS \in S
    <2>1. ADDR_BITS \in 0..ADDR_BITS
      BY Widths
    <2> HIDE DEF S
    <2>2. \A j \in 0..ADDR_BITS : j \in S
      BY <1>6, <1>7, Widths, Induction
    <2>3. QED
      BY <2>1, <2>2
  <1>9. f[ADDR_BITS] < g[ADDR_BITS]
    BY <1>5, <1>8
  <1>10. QED
    BY <1>1, <1>2, <1>9 DEF a, b

\* Masks compare like the lengths of their prefixes.
LEMMA MasksCompare ==
  ASSUME NEW m \in 0..ADDR_BITS, NEW n \in 0..ADDR_BITS
  PROVE  /\ s_addr[PrefixMask(m)] \in Nat
         /\ s_addr[PrefixMask(m)] > s_addr[PrefixMask(n)] <=> m > n
  <1>1. s_addr[PrefixMask(m)] \in Nat /\ s_addr[PrefixMask(n)] \in Nat
    <2>1. PICK f : /\ Reads(f, PrefixMask(m))
                   /\ s_addr[PrefixMask(m)] = f[ADDR_BITS]
      BY MaskIsAddress, NumberRead
    <2>2. PICK g : /\ Reads(g, PrefixMask(n))
                   /\ s_addr[PrefixMask(n)] = g[ADDR_BITS]
      BY MaskIsAddress, NumberRead
    <2>3. QED
      BY <2>1, <2>2, Widths DEF Reads
  <1>2. CASE m = n
    BY <1>1, <1>2
  <1>3. CASE m < n
    BY <1>1, <1>3, LongerIsLarger
  <1>4. CASE n < m
    BY <1>1, <1>4, LongerIsLarger
  <1>5. QED
    BY <1>1, <1>2, <1>3, <1>4

\* The length of a prefix is known from its mask.
LEMMA MaskLength ==
  ASSUME NEW m \in 0..ADDR_BITS, NEW n \in 0..ADDR_BITS,
         PrefixMask(m) = PrefixMask(n)
  PROVE  m = n
  BY MasksCompare, Widths

-----------------------------------------------------------------------------
(* The search.                                                             *)

\* An entry matches exactly if the address has its prefix.
LEMMA MatchIsPrefix ==
  ASSUME NEW n \in 0..ADDR_BITS, NEW d \in Address, NEW ip \in Address
  PROVE  And(PrefixMask(n), d) = And(PrefixMask(n), ip)
           <=> SubSeq(d, 1, n) = SubSeq(ip, 1, n)
  <1> DEFINE e == \A i \in 1..n : d[i] = ip[i]
  <1>1. And(PrefixMask(n), d) = And(PrefixMask(n), ip) <=> e
    <2>1. \A i \in 1..ADDR_BITS : d[i] \in {0, 1} /\ ip[i] \in {0, 1}
      BY DEF Address
    <2>2. ASSUME And(PrefixMask(n), d) = And(PrefixMask(n), ip), NEW i \in 1..n
          PROVE  d[i] = ip[i]
      <3>1. i \in 1..ADDR_BITS
        BY Widths
      <3>2. And(PrefixMask(n), d)[i] = And(PrefixMask(n), ip)[i]
        BY <2>2
      <3>3. PrefixMask(n)[i] = 1
        BY <3>1 DEF PrefixMask
      <3>4. 1 * d[i] = 1 * ip[i]
        BY <3>1, <3>2, <3>3 DEF And
      <3>5. QED
        BY <2>1, <3>1, <3>4
    <2>3. ASSUME e
          PROVE  And(PrefixMask(n), d) = And(PrefixMask(n), ip)
      <3>1. ASSUME NEW i \in 1..ADDR_BITS
            PROVE  PrefixMask(n)[i] * d[i] = PrefixMask(n)[i] * ip[i]
        <4>1. CASE i <= n
          BY <2>3, <4>1
        <4>2. CASE ~(i <= n)
          <5>1. PrefixMask(n)[i] = 0
            BY <4>2 DEF PrefixMask
          <5>2. QED
            BY <2>1, <5>1
        <4>3. QED
          BY <4>1, <4>2
      <3>2. QED
        BY <3>1 DEF And
    <2> HIDE DEF e
    <2>4. QED
      BY <2>2, <2>3 DEF e
  <1>2. SubSeq(d, 1, n) = SubSeq(ip, 1, n) <=> e
    <2>1. d \in Seq({0, 1}) /\ ip \in Seq({0, 1})
          /\ Len(d) = ADDR_BITS /\ Len(ip) = ADDR_BITS
      BY Widths DEF Address
    <2>2. /\ SubSeq(d, 1, n) \in Seq({0, 1}) /\ Len(SubSeq(d, 1, n)) = n
          /\ \A i \in 1..n : SubSeq(d, 1, n)[i] = d[i]
      BY <2>1, Widths
    <2>3. /\ SubSeq(ip, 1, n) \in Seq({0, 1}) /\ Len(SubSeq(ip, 1, n)) = n
          /\ \A i \in 1..n : SubSeq(ip, 1, n)[i] = ip[i]
      BY <2>1, Widths
    <2>4. QED
      BY <2>2, <2>3
  <1>3. QED
    BY <1>1, <1>2

\* Entry i of the table matches.
Matches(table, ip, i) ==
  And(table[i].mask, table[i].dest) = And(table[i].mask, ip)

\* Of the first n entries, i is the first of those that match with the
\* largest mask.
IsBest(table, ip, n, i) ==
  /\ i \in 1..n /\ Matches(table, ip, i)
  /\ \A j \in 1..n : Matches(table, ip, j) =>
       \/ s_addr[table[j].mask] < s_addr[table[i].mask]
       \/ s_addr[table[j].mask] = s_addr[table[i].mask] /\ i <= j

\* The entry found among the first n.
Found(table, ip, n, entry) ==
  \/ entry = NoEntry /\ \A i \in 1..n : ~Matches(table, ip, i)
  \/ \E i \in 1..n : entry = table[i] /\ IsBest(table, ip, n, i)

\* A table of which every entry can be compared.
Comparable(table) ==
  /\ DOMAIN table = 1..Len(table) /\ Len(table) \in Nat
  /\ \A i \in 1..Len(table) :
       table[i] # NoEntry /\ s_addr[table[i].mask] \in Nat

\* One turn of the loop.
LEMMA OneTurn ==
  ASSUME NEW table, Comparable(table), NEW ip, NEW n \in 1..Len(table),
         NEW entry, Found(table, ip, n - 1, entry)
  PROVE  Found(table, ip, n, Better(entry, table[n], ip))
  <1>1. n \in Nat /\ n >= 1 /\ Len(table) \in Nat
    BY DEF Comparable
  <1>2. \A i \in 1..n : i \in 1..Len(table)
    BY <1>1
  <1>3. \A i \in 1..n :
          table[i] # NoEntry /\ s_addr[table[i].mask] \in Nat
    BY <1>2 DEF Comparable
  <1>4. \A i \in 1..n : i = n \/ i \in 1..(n - 1)
    BY <1>1
  <1>5. n \in 1..n /\ \A i \in 1..(n - 1) : i \in 1..n /\ i < n
    BY <1>1
  <1>6. CASE ~Matches(table, ip, n)
    <2>1. Better(entry, table[n], ip) = entry
      BY <1>6 DEF Better, Matches
    <2>2. CASE entry = NoEntry /\ \A i \in 1..(n - 1) : ~Matches(table, ip, i)
      BY <1>4, <1>6, <2>1, <2>2 DEF Found
    <2>3. ASSUME NEW i \in 1..(n - 1), entry = table[i],
                 IsBest(table, ip, n - 1, i)
          PROVE  Found(table, ip, n, entry)
      <3>1. IsBest(table, ip, n, i)
        BY <1>4, <1>5, <1>6, <2>3 DEF IsBest
      <3>2. QED
        BY <1>5, <2>3, <3>1 DEF Found
    <2>4. QED
      BY <2>1, <2>2, <2>3 DEF Found
  <1>7. CASE Matches(table, ip, n)
    <2>1. CASE entry = NoEntry /\ \A i \in 1..(n - 1) : ~Matches(table, ip, i)
      <3>1. Better(entry, table[n], ip) = table[n]
        BY <1>7, <2>1 DEF Better, Matches
      <3>2. IsBest(table, ip, n, n)
        BY <1>1, <1>4, <1>5, <1>7, <2>1 DEF IsBest
      <3>3. QED
        BY <1>5, <3>1, <3>2 DEF Found
    <2>2. ASSUME NEW i \in 1..(n - 1), entry = table[i],
                 IsBest(table, ip, n - 1, i)
          PROVE  Found(table, ip, n, Better(entry, table[n], ip))
      <3>1. entry # NoEntry
        BY <1>3, <1>5, <2>2
      <3>2. i \in 1..n /\ i < n
        BY <1>5
      <3>n. s_addr[table[i].mask] \in Nat /\ s_addr[table[n].mask] \in Nat
        BY <1>3, <1>5, <3>2
      <3>3. CASE s_addr[table[n].mask] > s_addr[table[i].mask]
        <4>1. Better(entry, table[n], ip) = table[n]
          BY <1>7, <2>2, <3>1, <3>3 DEF Better, Matches
        <4>2. ASSUME NEW j \in 1..n, Matches(table, ip, j)
              PROVE  \/ s_addr[table[j].mask] < s_addr[table[n].mask]
                     \/ /\ s_addr[table[j].mask] = s_addr[table[n].mask]
                        /\ n <= j
          <5>1. CASE j = n
            BY <1>1, <5>1
          <5>2. CASE j \in 1..(n - 1)
            <6>1. s_addr[table[j].mask] <= s_addr[table[i].mask]
              BY <1>3, <2>2, <3>n, <4>2, <5>2 DEF IsBest
            <6>2. s_addr[table[j].mask] \in Nat
              BY <1>3
            <6>3. QED
              BY <3>3, <3>n, <6>1, <6>2
          <5>3. QED
            BY <1>4, <5>1, <5>2
        <4>3. IsBest(table, ip, n, n)
          BY <1>5, <1>7, <4>2 DEF IsBest
        <4>4. QED
          BY <1>5, <4>1, <4>3 DEF Found
      <3>4. CASE ~(s_addr[table[n].mask] > s_addr[table[i].mask])
        <4>1. Better(entry, table[n], ip) = entry
          BY <2>2, <3>1, <3>4 DEF Better
        <4>2. ASSUME NEW j \in 1..n, Matches(table, ip, j)
              PROVE  \/ s_addr[table[j].mask] < s_addr[table[i].mask]
                     \/ /\ s_addr[table[j].mask] = s_addr[table[i].mask]
                        /\ i <= j
          <5>1. CASE j = n
            BY <3>n, <3>2, <3>4, <5>1
          <5>2. CASE j \in 1..(n - 1)
            BY <2>2, <4>2, <5>2 DEF IsBest
          <5>3. QED
            BY <1>4, <5>1, <5>2
        <4>3. IsBest(table, ip, n, i)
          BY <2>2, <3>2, <4>2 DEF IsBest
        <4>4. QED
          BY <2>2, <3>2, <4>1, <4>3 DEF Found
      <3>5. QED
        BY <3>3, <3>4
    <2>3. QED
      BY <2>1, <2>2 DEF Found
  <1>8. QED
    BY <1>6, <1>7

\* The search goes through the table entry by entry.
SearchSteps(table, ip, best) ==
  /\ best[0] = NoEntry
  /\ \A n \in 1..Len(table) : best[n] = Better(best[n - 1], table[n], ip)

\* What it ends with is what longestprefixmatch returns.
LEMMA Search ==
  ASSUME NEW table, Len(table) \in Nat, NEW ip
  PROVE  \E best : /\ SearchSteps(table, ip, best)
                  /\ longestprefixmatch(table, ip) = best[Len(table)]
  <1> DEFINE N == Len(table)
             A == {NoEntry} \cup {table[i] : i \in 1..N}
             step == [n \in 1..N |-> [x \in A |-> Better(x, table[n], ip)]]
             best[n \in 0..N] ==
               IF n = 0 THEN NoEntry ELSE Better(best[n - 1], table[n], ip)
  <1>1. N \in Nat
    OBVIOUS
  <1>2. NoEntry \in A /\ IsStep(step, N, A)
    <2>1. ASSUME NEW n \in 1..N, NEW x \in A
          PROVE  Better(x, table[n], ip) \in A
      BY DEF Better
    <2> HIDE DEF A, N
    <2>2. step \in [1..N -> [A -> A]]
      BY <2>1
    <2>3. QED
      BY <2>2 DEF IsStep, A
  <1>3. PICK f : Recurs(f, N, A, NoEntry, step)
    <2> HIDE DEF A, step, N
    <2>1. QED
      BY <1>1, <1>2, Recursion
  <1>4. ASSUME NEW n \in 1..N
        PROVE  f[n] = Better(f[n - 1], table[n], ip)
    <2>1. n - 1 \in 0..N
      BY <1>1
    <2> HIDE DEF A
    <2>2. f[n - 1] \in A /\ f[n] = step[n][f[n - 1]]
      BY <1>3, <2>1 DEF Recurs
    <2>3. QED
      BY <2>2
  <1>5. f = [n \in 0..N |->
               IF n = 0 THEN NoEntry ELSE Better(f[n - 1], table[n], ip)]
    <2> HIDE DEF A, step, N
    <2>1. \A n \in 0..N : n # 0 => n \in 1..N
      BY <1>1
    <2>2. QED
      BY <1>3, <1>4, <2>1 DEF Recurs
  <1> HIDE DEF A, step
  <1>6. best = [n \in 0..N |->
               IF n = 0 THEN NoEntry ELSE Better(best[n - 1], table[n], ip)]
    BY <1>5
  <1>7. longestprefixmatch(table, ip) = best[N]
    BY DEF longestprefixmatch
  <1> HIDE DEF best
  <1>8. best[0] = NoEntry
    BY <1>1, <1>6
  <1>9. ASSUME NEW n \in 1..N
        PROVE  best[n] = Better(best[n - 1], table[n], ip)
    <2>1. n \in 0..N /\ n # 0
      BY <1>1
    <2>2. QED
      BY <1>6, <2>1
  <1>10. QED
    BY <1>7, <1>8, <1>9 DEF SearchSteps

\* It is an entry of the table, if any.
LEMMA SearchIn ==
  ASSUME NEW table, Len(table) \in Nat, NEW ip,
         longestprefixmatch(table, ip) # NoEntry
  PROVE  \E i \in 1..Len(table) : longestprefixmatch(table, ip) = table[i]
  <1> DEFINE N == Len(table)
             A == {NoEntry} \cup {table[i] : i \in 1..N}
  <1>1. PICK best : /\ SearchSteps(table, ip, best)
                    /\ longestprefixmatch(table, ip) = best[N]
    BY Search
  <1>2. best[0] \in A
    BY <1>1 DEF SearchSteps
  <1>3. ASSUME NEW n \in 1..N, best[n - 1] \in A
        PROVE  best[n] \in A
    <2>1. best[n] \in {best[n - 1], table[n]}
      BY <1>1 DEF SearchSteps, Better
    <2>2. QED
      BY <1>3, <2>1
  <1>4. N \in 0..N /\ N \in Nat
    OBVIOUS
  <1>5. best[N] \in A
    <2> HIDE DEF A, N
    <2>1. QED
      BY <1>2, <1>3, <1>4, RecursionTyped
  <1>6. QED
    BY <1>1, <1>5

\* What longestprefixmatch returns: no entry if none matches, otherwise the
\* first of the matching entries with the largest mask.
LEMMA SearchFinds ==
  ASSUME NEW table, Comparable(table), NEW ip
  PROVE  Found(table, ip, Len(table), longestprefixmatch(table, ip))
  <1> DEFINE N == Len(table)
  <1>1. N \in Nat
    BY DEF Comparable
  <1>2. PICK best : /\ SearchSteps(table, ip, best)
                    /\ longestprefixmatch(table, ip) = best[N]
    BY <1>1, Search
  <1> DEFINE S == {n \in 0..N : Found(table, ip, n, best[n])}
  <1>3. 0 \in S
    <2>1. best[0] = NoEntry
      BY <1>2 DEF SearchSteps
    <2>2. QED
      BY <1>1, <2>1 DEF Found
  <1>4. ASSUME NEW n \in 0..(N - 1), n \in S
        PROVE  n + 1 \in S
    <2>1. n + 1 \in 1..N /\ (n + 1) - 1 = n /\ n + 1 \in 0..N
      BY <1>1
    <2>2. best[n + 1] = Better(best[n], table[n + 1], ip)
      BY <1>2, <2>1 DEF SearchSteps
    <2>3. Found(table, ip, (n + 1) - 1, best[n])
      BY <1>4, <2>1
    <2>4. Found(table, ip, n + 1, best[n + 1])
      BY <2>1, <2>2, <2>3, OneTurn
    <2>5. QED
      BY <2>1, <2>4
  <1>5. \A n \in 0..N : n \in S
    <2> HIDE DEF S, N
    <2>1. QED
      BY <1>1, <1>3, <1>4, Induction
  <1>6. N \in 0..N
    BY <1>1
  <1>7. QED
    BY <1>2, <1>5, <1>6

-----------------------------------------------------------------------------
(* Loading the table.                                                      *)

\* What sr_load_rt yields if it returns 0: an entry of addresses for each
\* line.
LEMMA AllLoaded ==
  ASSUME NEW table, NEW lines, lines \in Seq(ToSet(lines)),
         sr_load_rt(table, lines).ret = 0
  PROVE  /\ \A i \in 1..Len(lines), k \in 1..3 : sscanf(lines, i, k) \in Address
         /\ Len(lines) = 0 => sr_load_rt(table, lines).table = table
         /\ Len(lines) # 0 =>
              /\ DOMAIN sr_load_rt(table, lines).table = 1..Len(lines)
              /\ Len(sr_load_rt(table, lines).table) = Len(lines)
              /\ \A i \in 1..Len(lines) :
                   sr_load_rt(table, lines).table[i] = EntryOf(lines, i)
  <1> DEFINE bad == {i \in DOMAIN lines :
                       \E k \in 1..3 : sscanf(lines, i, k) \notin Address}
  <1>1. sr_load_rt(table, lines).ret = IF bad = {} THEN 0 ELSE -1
    BY DEF sr_load_rt
  <1>2. bad = {}
    BY <1>1
  <1>3. DOMAIN lines = 1..Len(lines)
    OBVIOUS
  <1>4. sr_load_rt(table, lines).table
              = IF Len(lines) = 0 THEN table
                ELSE [i \in 1..Len(lines) |-> EntryOf(lines, i)]
    BY <1>2 DEF sr_load_rt
  <1>5. ASSUME Len(lines) # 0, NEW r, r = sr_load_rt(table, lines).table
        PROVE  /\ DOMAIN r = 1..Len(lines) /\ Len(r) = Len(lines)
               /\ \A i \in 1..Len(lines) : r[i] = EntryOf(lines, i)
    <2>1. r = [i \in 1..Len(lines) |-> EntryOf(lines, i)]
      BY <1>4, <1>5
    <2>2. Len(lines) \in Nat
      OBVIOUS
    <2>3. r \in Seq({EntryOf(lines, i) : i \in 1..Len(lines)})
      BY <2>1, <2>2
    <2>4. QED
      BY <2>1, <2>2, <2>3
  <1>6. QED
    BY <1>2, <1>3, <1>4, <1>5

\* A field that was never filled is no address.
LEMMA NoAddress ==
  NotAnAddress \notin Address
  <1>1. 1 \in 1..ADDR_BITS
    BY Widths DEF ADDR_BITS
  <1>2. QED
    BY <1>1 DEF Address, NotAnAddress

\* The line that the fields of line i come from.
Source(lines, i) == Max({j \in 1..i : lines[j] # <<>>})

RouteAt(lines, i) ==
  [dest |-> lines[i][1], gw |-> lines[i][2],
   mask |-> lines[i][3], interface |-> lines[i][4]]

\* A blank line adds the entry of the line before it once more.
LEMMA BlankRepeats ==
  ASSUME NEW lines, lines \in Seq(ToSet(lines)), Routes(lines),
         NEW i \in 1..Len(lines), sscanf(lines, i, 1) \in Address
  PROVE  /\ Source(lines, i) \in 1..i /\ lines[Source(lines, i)] # <<>>
         /\ lines[i] # <<>> => Source(lines, i) = i
         /\ EntryOf(lines, i) = RouteAt(lines, Source(lines, i))
  <1> DEFINE T == {j \in 1..i : lines[j] # <<>>}
             full(k) == {j \in 1..i : Len(lines[j]) >= k}
  <1>1. \A j \in 1..i : j \in DOMAIN lines
    OBVIOUS
  <1>2. \A j \in 1..i : Len(lines[j]) = IF lines[j] = <<>> THEN 0 ELSE 4
    <2>1. Len(<<>>) = 0
      OBVIOUS
    <2>2. QED
      BY <1>1, <2>1 DEF Routes
  <1>3. \A k \in 1..4 : full(k) = T
    BY <1>2
  <1>4. T # {}
    <2>1. full(1) # {}
      BY NoAddress DEF sscanf
    <2>2. QED
      BY <1>3, <2>1
  <1>5. i \in Nat /\ T \subseteq 0..i
    OBVIOUS
  <1>6. Max(T) \in T /\ \A y \in T : Max(T) >= y
    <2> HIDE DEF T
    <2>1. QED
      BY <1>4, <1>5, MaxExists
  <1>7. \A k \in 1..4 : sscanf(lines, i, k) = lines[Max(T)][k]
    <2>1. ASSUME NEW k \in 1..4
          PROVE  sscanf(lines, i, k) = lines[Max(T)][k]
      <3>1. full(k) = T
        BY <1>3
      <3>2. sscanf(lines, i, k)
              = IF full(k) = {} THEN NotAnAddress ELSE lines[Max(full(k))][k]
        BY DEF sscanf
      <3>3. QED
        BY <1>4, <3>1, <3>2
    <2>2. QED
      BY <2>1
  <1>8. Source(lines, i) = Max(T)
    BY DEF Source
  <1>9. lines[i] # <<>> => Max(T) = i
    <2>1. lines[i] # <<>> => i \in T
      OBVIOUS
    <2>2. Max(T) \in Int /\ Max(T) <= i
      BY <1>6
    <2>3. QED
      BY <1>5, <1>6, <2>1, <2>2
  <1>10. EntryOf(lines, i) = RouteAt(lines, Max(T))
    BY <1>7 DEF EntryOf, RouteAt
  <1>11. QED
    BY <1>6, <1>8, <1>9, <1>10

\* The table is what the lines yield, all of which are in order.
LoadedFrom(table, lines) ==
  sr_load_rt(<<>>, lines) = [ret |-> 0, table |-> table]

\* The length of the prefix in a line.
PrefixOf(lines, i) == CHOOSE n \in 0..ADDR_BITS : lines[i][3] = PrefixMask(n)

\* The table of such lines.
LEMMA LoadedTable ==
  ASSUME NEW lines, lines \in Seq(ToSet(lines)), Routes(lines),
         NEW table, LoadedFrom(table, lines)
  PROVE  /\ Len(table) = Len(lines) /\ Len(lines) \in Nat
         /\ DOMAIN table = 1..Len(lines) /\ DOMAIN lines = 1..Len(lines)
         /\ \A i \in 1..Len(lines) :
              /\ Source(lines, i) \in 1..i /\ lines[Source(lines, i)] # <<>>
              /\ lines[i] # <<>> => Source(lines, i) = i
              /\ table[i] = RouteAt(lines, Source(lines, i))
              /\ table[i].dest \in Address
              /\ PrefixOf(lines, Source(lines, i)) \in 0..ADDR_BITS
              /\ table[i].mask = PrefixMask(PrefixOf(lines, Source(lines, i)))
  <1> DEFINE N == Len(lines)
  <1>1. N \in Nat /\ DOMAIN lines = 1..N
    OBVIOUS
  <1>2. /\ sr_load_rt(<<>>, lines).ret = 0
        /\ sr_load_rt(<<>>, lines).table = table
    BY DEF LoadedFrom
  <1>3. \A i \in 1..N, k \in 1..3 : sscanf(lines, i, k) \in Address
    BY <1>2, AllLoaded
  <1>4. /\ N = 0 => table = <<>>
        /\ N # 0 => /\ DOMAIN table = 1..N /\ Len(table) = N
                    /\ \A i \in 1..N : table[i] = EntryOf(lines, i)
    BY <1>2, AllLoaded
  <1> HIDE DEF N
  <1>5. Len(table) = N /\ DOMAIN table = 1..N
    <2>1. CASE N = 0
      BY <1>4, <2>1
    <2>2. CASE N # 0
      BY <1>4, <2>2
    <2>3. QED
      BY <2>1, <2>2
  <1>6. ASSUME NEW i \in 1..N
        PROVE  /\ Source(lines, i) \in 1..i /\ lines[Source(lines, i)] # <<>>
               /\ lines[i] # <<>> => Source(lines, i) = i
               /\ table[i] = RouteAt(lines, Source(lines, i))
               /\ table[i].dest \in Address
               /\ PrefixOf(lines, Source(lines, i)) \in 0..ADDR_BITS
               /\ table[i].mask = PrefixMask(PrefixOf(lines, Source(lines, i)))
    <2> DEFINE s == Source(lines, i)
    <2>1. i \in 1..Len(lines) /\ sscanf(lines, i, 1) \in Address
          /\ sscanf(lines, i, 3) \in Address
      BY <1>3 DEF N
    <2>2. /\ s \in 1..i /\ lines[s] # <<>> /\ (lines[i] # <<>> => s = i)
          /\ EntryOf(lines, i) = RouteAt(lines, s)
      BY <2>1, BlankRepeats
    <2>3. table[i] = EntryOf(lines, i)
      <3>1. N # 0
        BY <1>1
      <3>2. QED
        BY <1>4, <3>1
    <2>4. /\ EntryOf(lines, i).dest = sscanf(lines, i, 1)
          /\ EntryOf(lines, i).mask = sscanf(lines, i, 3)
      BY DEF EntryOf
    <2>5. RouteAt(lines, s).mask = lines[s][3]
      BY DEF RouteAt
    <2> HIDE DEF s
    <2>6. lines[s][3] \in Address
      BY <2>1, <2>2, <2>4, <2>5
    <2>7. s \in DOMAIN lines
      BY <1>1, <2>2
    <2>8. \E n \in 0..ADDR_BITS : lines[s][3] = PrefixMask(n)
      BY <2>2, <2>6, <2>7 DEF Routes
    <2>9. /\ PrefixOf(lines, s) \in 0..ADDR_BITS
          /\ lines[s][3] = PrefixMask(PrefixOf(lines, s))
      BY <2>8 DEF PrefixOf
    <2>10. QED
      BY <2>1, <2>2, <2>3, <2>4, <2>5, <2>9 DEF s
  <1>7. QED
    BY <1>1, <1>5, <1>6 DEF N

\* What an entry's mask is as a number, and when the entry matches.
LEMMA EntryCompares ==
  ASSUME NEW lines, lines \in Seq(ToSet(lines)), Routes(lines),
         NEW table, LoadedFrom(table, lines), NEW ip \in Address,
         NEW i \in 1..Len(lines)
  PROVE  LET p == PrefixOf(lines, Source(lines, i))
         IN /\ table[i] # NoEntry /\ s_addr[table[i].mask] \in Nat
            /\ Matches(table, ip, i)
                 <=> SubSeq(table[i].dest, 1, p) = SubSeq(ip, 1, p)
  <1> DEFINE p == PrefixOf(lines, Source(lines, i))
  <1>1. /\ table[i].dest \in Address /\ p \in 0..ADDR_BITS
        /\ table[i].mask = PrefixMask(p)
    BY LoadedTable
  <1> HIDE DEF p
  <1>2. table[i] # NoEntry
    <2>1. NoEntry.dest = NotAnAddress
      BY DEF NoEntry
    <2>2. QED
      BY <1>1, <2>1, NoAddress
  <1>3. s_addr[table[i].mask] \in Nat
    BY <1>1, MasksCompare
  <1>4. Matches(table, ip, i)
          <=> SubSeq(table[i].dest, 1, p) = SubSeq(ip, 1, p)
    BY <1>1, MatchIsPrefix DEF Matches
  <1>5. QED
    BY <1>2, <1>3, <1>4 DEF p

\* For every table of routes that sr_load_rt loads, longestprefixmatch finds
\* what the reference says.
LEMMA SearchRight ==
  ASSUME NEW lines, lines \in Seq(ToSet(lines)), Routes(lines),
         NEW table, LoadedFrom(table, lines), NEW ip \in Address
  PROVE  longestprefixmatch(table, ip) = RouteOf(lines, ip)
  <1> DEFINE N == Len(lines)
             src(i) == Source(lines, i)
             p(i) == PrefixOf(lines, i)
             matching == {i \in DOMAIN lines :
                            /\ lines[i] # <<>>
                            /\ SubSeq(lines[i][1], 1, p(i)) =
                                 SubSeq(ip, 1, p(i))}
             Best(i) == \A j \in matching :
                          p(j) < p(i) \/ (p(j) = p(i) /\ j >= i)
             best == CHOOSE i \in matching : Best(i)
             entry == longestprefixmatch(table, ip)
  <1>1. /\ Len(table) = N /\ N \in Nat
        /\ DOMAIN table = 1..N /\ DOMAIN lines = 1..N
    BY LoadedTable
  <1>2. ASSUME NEW i \in 1..N
        PROVE  /\ src(i) \in 1..i /\ lines[src(i)] # <<>>
               /\ lines[i] # <<>> => src(i) = i
               /\ table[i] = RouteAt(lines, src(i))
               /\ p(src(i)) \in 0..ADDR_BITS
               /\ table[i].mask = PrefixMask(p(src(i)))
    BY LoadedTable
  <1>3. ASSUME NEW i \in 1..N
        PROVE  /\ table[i] # NoEntry /\ s_addr[table[i].mask] \in Nat
               /\ Matches(table, ip, i) <=>
                    SubSeq(lines[src(i)][1], 1, p(src(i))) =
                      SubSeq(ip, 1, p(src(i)))
    <2>1. table[i] = RouteAt(lines, src(i))
      BY <1>2
    <2>2. table[i].dest = lines[src(i)][1]
      BY <2>1 DEF RouteAt
    <2>3. /\ table[i] # NoEntry /\ s_addr[table[i].mask] \in Nat
          /\ Matches(table, ip, i) <=>
               SubSeq(table[i].dest, 1, p(src(i))) = SubSeq(ip, 1, p(src(i)))
      BY EntryCompares
    <2>4. QED
      BY <2>2, <2>3
  <1>4. Comparable(table)
    BY <1>1, <1>3 DEF Comparable
  <1>5. RouteOf(lines, ip)
          = IF matching = {} THEN NoEntry ELSE RouteAt(lines, best)
    BY DEF RouteOf, RouteAt, PrefixOf
  <1>6. Found(table, ip, N, entry)
    BY <1>1, <1>4, SearchFinds
  <1> HIDE DEF N, p, src, entry
  <1>7. ASSUME NEW i \in 1..N
        PROVE  Matches(table, ip, i) <=> src(i) \in matching
    <2>1. src(i) \in 1..N
      BY <1>1, <1>2
    <2>2. QED
      BY <1>1, <1>2, <1>3, <2>1
  <1>8. ASSUME NEW i \in matching
        PROVE  i \in 1..N /\ Matches(table, ip, i) /\ src(i) = i
    BY <1>1, <1>2, <1>7
  <1>9. matching \subseteq Nat
    BY <1>8
  <1> HIDE DEF matching
  <1>10. CASE entry = NoEntry /\ \A i \in 1..N : ~Matches(table, ip, i)
    <2>1. matching = {}
      BY <1>8, <1>10
    <2>2. QED
      BY <1>5, <1>10, <2>1 DEF entry
  <1>11. ASSUME NEW b \in 1..N, entry = table[b], IsBest(table, ip, N, b)
         PROVE  entry = RouteOf(lines, ip)
    <2>1. src(b) \in matching
      BY <1>7, <1>11 DEF IsBest
    <2>2. src(b) = b
      <3>1. src(b) \in 1..b /\ src(b) \in 1..N /\ Matches(table, ip, src(b))
            /\ src(src(b)) = src(b)
        BY <1>2, <1>8, <2>1
      <3>2. table[src(b)].mask = table[b].mask
        BY <1>2, <3>1
      <3>3. s_addr[table[b].mask] \in Nat
        BY <1>3
      <3>4. b <= src(b)
        BY <1>11, <3>1, <3>2, <3>3 DEF IsBest
      <3>5. QED
        BY <3>1, <3>4
    <2>3. b \in matching
      BY <2>1, <2>2
    <2>4. ASSUME NEW j \in matching
          PROVE  p(j) < p(b) \/ (p(j) = p(b) /\ j >= b)
      <3>1. j \in 1..N /\ Matches(table, ip, j) /\ src(j) = j
        BY <1>8
      <3>2. /\ p(j) \in 0..ADDR_BITS /\ table[j].mask = PrefixMask(p(j))
            /\ p(b) \in 0..ADDR_BITS /\ table[b].mask = PrefixMask(p(b))
        BY <1>2, <2>2, <3>1
      <3>3. \/ s_addr[table[j].mask] < s_addr[table[b].mask]
            \/ s_addr[table[j].mask] = s_addr[table[b].mask] /\ b <= j
        BY <1>11, <3>1 DEF IsBest
      <3>4. /\ s_addr[table[j].mask] \in Nat /\ s_addr[table[b].mask] \in Nat
            /\ s_addr[table[j].mask] > s_addr[table[b].mask] <=> p(j) > p(b)
            /\ s_addr[table[b].mask] > s_addr[table[j].mask] <=> p(b) > p(j)
        BY <3>2, MasksCompare
      <3>5. CASE p(j) > p(b)
        BY <3>3, <3>4, <3>5
      <3>6. CASE p(j) = p(b)
        BY <3>1, <3>2, <3>3, <3>4, <3>6
      <3>7. QED
        BY <3>2, <3>5, <3>6
    <2>5. Best(b)
      BY <2>4
    <2>6. best \in matching /\ Best(best)
      <3> HIDE DEF Best
      <3>1. QED
        BY <2>3, <2>5
    <2> HIDE DEF best
    <2>7. best = b
      <3>1. p(b) < p(best) \/ (p(b) = p(best) /\ b >= best)
        BY <2>3, <2>6
      <3>2. p(best) < p(b) \/ (p(best) = p(b) /\ best >= b)
        BY <2>4, <2>6
      <3>3. best \in 1..N /\ src(best) = best
        BY <1>8, <2>6
      <3>4. p(best) \in 0..ADDR_BITS /\ p(b) \in 0..ADDR_BITS
        BY <1>2, <2>2, <3>3
      <3>5. QED
        BY <3>1, <3>2, <3>3, <3>4
    <2>8. table[b] = RouteAt(lines, b)
      BY <1>2, <2>2
    <2>9. matching # {}
      BY <2>3
    <2>10. QED
      BY <1>5, <1>11, <2>7, <2>8, <2>9
  <1>12. QED
    BY <1>6, <1>10, <1>11 DEF Found, entry

\* A table of addresses.
Loaded(table) ==
  \A i \in DOMAIN table :
    {table[i].dest, table[i].gw, table[i].mask} \subseteq Address

\* Whatever the file, sr_load_rt lets only addresses into the table.
LEMMA LoadsAddresses ==
  ASSUME NEW table, Loaded(table),
         NEW lines, lines \in Seq(ToSet(lines))
  PROVE  Loaded(sr_load_rt(table, lines).table)
  <1> DEFINE bad == {i \in DOMAIN lines :
                       \E k \in 1..3 : sscanf(lines, i, k) \notin Address}
             n == IF bad = {} THEN Len(lines) ELSE Min(bad) - 1
  <1>1. sr_load_rt(table, lines).table
          = IF n = 0 THEN table ELSE [i \in 1..n |-> EntryOf(lines, i)]
    BY DEF sr_load_rt
  <1>2. DOMAIN lines = 1..Len(lines) /\ Len(lines) \in Nat
    OBVIOUS
  <1>3. ASSUME NEW i \in 1..n
        PROVE  i \in DOMAIN lines /\ i \notin bad
    <2>1. CASE bad = {}
      BY <1>2, <2>1
    <2>2. CASE bad # {}
      <3>1. bad \subseteq Nat /\ bad \subseteq DOMAIN lines
        BY <1>2
      <3>2. Min(bad) \in bad /\ \A y \in bad : Min(bad) <= y
        <4> HIDE DEF bad
        <4>1. QED
          BY <2>2, <3>1, MinExists
      <3>3. n = Min(bad) - 1
        BY <2>2
      <3> HIDE DEF bad, n
      <3>m. Min(bad) \in 1..Len(lines)
        BY <1>2, <3>1, <3>2
      <3>4. i < Min(bad) /\ i \in 1..Len(lines)
        <4>1. ASSUME NEW l \in Nat, NEW b \in 1..l, NEW j \in 1..(b - 1)
              PROVE  j < b /\ j \in 1..l
          OBVIOUS
        <4>2. i \in 1..(Min(bad) - 1)
          BY <3>3
        <4>3. QED
          BY <1>2, <3>m, <4>1, <4>2
      <3>5. i \notin bad
        <4>1. i \in Int /\ Min(bad) \in Int /\ i < Min(bad)
          BY <1>2, <3>m, <3>4
        <4>2. ~(Min(bad) <= i)
          BY <4>1
        <4>3. QED
          BY <3>2, <4>2
      <3>6. QED
        BY <1>2, <3>4, <3>5
    <2>3. QED
      BY <2>1, <2>2
  <1>4. ASSUME NEW i \in 1..n
        PROVE  {EntryOf(lines, i).dest, EntryOf(lines, i).gw,
                EntryOf(lines, i).mask} \subseteq Address
    <2>1. \A k \in 1..3 : sscanf(lines, i, k) \in Address
      BY <1>3
    <2>2. /\ sscanf(lines, i, 1) \in Address /\ sscanf(lines, i, 2) \in Address
          /\ sscanf(lines, i, 3) \in Address
      BY <2>1
    <2>3. QED
      BY <2>2 DEF EntryOf
  <1> HIDE DEF n
  <1>5. CASE n = 0
    BY <1>1, <1>5
  <1>6. CASE n # 0
    BY <1>1, <1>4, <1>6 DEF Loaded
  <1>7. QED
    BY <1>5, <1>6

\* What sr_load_rt makes of a list is one.
LEMMA LoadsSequence ==
  ASSUME NEW table, DOMAIN table = 1..Len(table), Len(table) \in Nat,
         NEW lines, lines \in Seq(ToSet(lines)), NEW r,
         r = sr_load_rt(table, lines).table
  PROVE  DOMAIN r = 1..Len(r) /\ Len(r) \in Nat
  <1> DEFINE bad == {i \in DOMAIN lines :
                       \E k \in 1..3 : sscanf(lines, i, k) \notin Address}
             n == IF bad = {} THEN Len(lines) ELSE Min(bad) - 1
  <1>1. r = IF n = 0 THEN table ELSE [i \in 1..n |-> EntryOf(lines, i)]
    BY DEF sr_load_rt
  <1>2. DOMAIN lines = 1..Len(lines) /\ Len(lines) \in Nat
    OBVIOUS
  <1>3. n \in Nat
    <2>1. bad # {} => Min(bad) \in bad
      <3>1. bad \subseteq Nat
        BY <1>2
      <3> HIDE DEF bad
      <3>2. QED
        BY <3>1, MinExists
    <2>2. bad \subseteq 1..Len(lines)
      BY <1>2
    <2>3. QED
      BY <1>2, <2>1, <2>2
  <1> HIDE DEF n
  <1>4. CASE n = 0
    BY <1>1, <1>4
  <1>5. CASE n # 0
    <2>1. r = [i \in 1..n |-> EntryOf(lines, i)]
      BY <1>1, <1>5
    <2>2. DOMAIN r = 1..n /\ Len(r) = n
      BY <1>3, <2>1
    <2>3. QED
      BY <1>3, <2>2
  <1>6. QED
    BY <1>4, <1>5

\* Loading the lines once more changes nothing.
LEMMA LoadedAgain ==
  ASSUME NEW table, NEW lines, table = <<>> \/ LoadedFrom(table, lines),
         sr_load_rt(table, lines).ret = 0
  PROVE  LoadedFrom(sr_load_rt(table, lines).table, lines)
  <1> DEFINE bad == {i \in DOMAIN lines :
                       \E k \in 1..3 : sscanf(lines, i, k) \notin Address}
             n == IF bad = {} THEN Len(lines) ELSE Min(bad) - 1
             new(t) == IF n = 0 THEN t ELSE [i \in 1..n |-> EntryOf(lines, i)]
  <1>1. ASSUME NEW t
        PROVE  sr_load_rt(t, lines)
                 = [ret |-> IF bad = {} THEN 0 ELSE -1, table |-> new(t)]
    BY DEF sr_load_rt
  <1> HIDE DEF bad, n
  <1>2. bad = {}
    BY <1>1
  <1>3. new(table) = new(<<>>)
    <2>1. CASE table = <<>>
      BY <2>1
    <2>2. CASE LoadedFrom(table, lines)
      <3>1. table = new(<<>>)
        BY <1>1, <2>2 DEF LoadedFrom
      <3>2. QED
        BY <3>1
    <2>3. QED
      BY <2>1, <2>2
  <1>4. QED
    BY <1>1, <1>2, <1>3 DEF LoadedFrom

-----------------------------------------------------------------------------
(* Routes and interfaces.                                                  *)

\* If sr_verify_routing_table returns 0, every route's interface exists.
LEMMA VerifiedRoutes ==
  ASSUME NEW table, NEW ifs, sr_verify_routing_table(table, ifs) = 0,
         DOMAIN table = 1..Len(table), Len(table) \in Nat
  PROVE  \A i \in 1..Len(table) :
           sr_get_interface(ifs, table[i].interface) # NoInterface
  <1> DEFINE S == {i \in DOMAIN table :
                   sr_get_interface(ifs, table[i].interface) = NoInterface}
  <1>1. Cardinality(S) = 0
    BY DEF sr_verify_routing_table
  <1>2. IsFiniteSet(S)
    <2>1. IsFiniteSet(1..Len(table))
      BY FS_Interval
    <2>2. S \subseteq 1..Len(table)
      OBVIOUS
    <2>3. QED
      BY <2>1, <2>2, FS_Subset
  <1>3. S = {}
    <2> HIDE DEF S
    <2>1. QED
      BY <1>1, <1>2, FS_EmptySet
  <1>4. QED
    BY <1>3
=============================================================================
