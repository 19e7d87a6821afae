----------------------------- MODULE SeqLemmas ------------------------------
(***************************************************************************)
(* Facts about numbers, recursion and sequences that the proofs of several *)
(* components need.                                                        *)
(***************************************************************************)
EXTENDS Integers, SequencesExt, TLAPS, WellFoundedInduction

\* A set of numbers that is not empty has a least one.
LEMMA MinExists ==
  ASSUME NEW S, S \subseteq Nat, S # {}
  PROVE  Min(S) \in S /\ \A y \in S : Min(S) <= y
  <1> DEFINE R == OpToRel(<, Nat)
  <1>1. IsWellFoundedOn(R, Nat)
    BY NatLessThanWellFounded
  <1>2. \E n \in S : \A m \in S : ~ (<<m, n>> \in R)
    <2> HIDE DEF R
    <2>1. QED
      BY <1>1, WFMin
  <1>3. PICK n \in S : \A m \in S : ~ (<<m, n>> \in R)
    BY <1>2
  <1>4. \A m \in S : n <= m
    <2>1. \A m \in S : ~ (m < n)
      BY <1>3 DEF OpToRel
    <2>2. QED
      BY <2>1
  <1>5. QED
    BY <1>4 DEF Min

\* A set of numbers that is not empty and has a bound has a greatest one.
LEMMA MaxExists ==
  ASSUME NEW b \in Nat, NEW S, S \subseteq 0..b, S # {}
  PROVE  Max(S) \in S /\ \A y \in S : Max(S) >= y
  <1> DEFINE T == {b - x : x \in S}
  <1>1. T \subseteq Nat /\ T # {}
    <2>1. \A x \in S : b - x \in Nat
      OBVIOUS
    <2>2. QED
      BY <2>1
  <1>2. PICK m \in T : \A y \in T : m <= y
    <2> HIDE DEF T
    <2>1. QED
      BY <1>1, MinExists
  <1>3. PICK x \in S : m = b - x
    BY <1>2
  <1>4. \A y \in S : x >= y
    <2>1. SUFFICES ASSUME NEW y \in S
                   PROVE  x >= y
      OBVIOUS
    <2>2. m <= b - y
      BY <1>2
    <2>3. QED
      BY <1>3, <2>2
  <1>5. QED
    BY <1>4 DEF Max

\* A number and its quotient and remainder.
LEMMA DivisionUnique ==
  ASSUME NEW d \in Nat, d >= 1, NEW q \in Nat, NEW r \in 0..(d - 1)
  PROVE  (d * q + r) \div d = q /\ (d * q + r) % d = r
  OBVIOUS

LEMMA Division ==
  ASSUME NEW d \in Nat, d >= 1, NEW n \in Nat
  PROVE  n \div d \in Nat /\ n % d \in 0..(d - 1) /\ n = d * (n \div d) + (n % d)
  <1>1. n % d \in 0..(d - 1)
    OBVIOUS
  <1>2. n = d * (n \div d) + (n % d)
    OBVIOUS
  <1>3. n \div d \in Int
    OBVIOUS
  <1>4. n \div d >= 0
    OBVIOUS
  <1>5. QED
    BY <1>1, <1>2, <1>3, <1>4

\* Induction: a set that holds 0 and goes on holds all numbers up to N.
LEMMA Induction ==
  ASSUME NEW N \in Nat, NEW S, 0 \in S,
         \A n \in 0..(N - 1) : n \in S => n + 1 \in S
  PROVE  \A n \in 0..N : n \in S
  <1> SUFFICES ASSUME NEW m \in 0..N, m \notin S
               PROVE  FALSE
    OBVIOUS
  <1> DEFINE Out == {n \in 0..N : n \notin S}
             least == Min(Out)
  <1>1. Out \subseteq Nat /\ Out # {}
    OBVIOUS
  <1>2. least \in Out /\ \A n \in Out : least <= n
    <2> HIDE DEF Out
    <2>1. QED
      BY <1>1, MinExists
  <1> HIDE DEF least
  <1>3. least \in 0..N /\ least \notin S /\ least # 0
    BY <1>2
  <1>4. least - 1 \in 0..(N - 1) /\ least - 1 \in S
    BY <1>2, <1>3
  <1>5. (least - 1) + 1 \in S /\ (least - 1) + 1 = least
    BY <1>3, <1>4
  <1>6. QED
    BY <1>3, <1>5

\* f[0] is b, and f[n] is step[n] of f[n - 1].
Recurs(f, N, A, b, step) ==
  /\ f \in [0..N -> A] /\ f[0] = b
  /\ \A n \in 1..N : f[n] = step[n][f[n - 1]]

IsStep(step, N, A) == step \in [1..N -> [A -> A]]

\* A function defined by recursion over 0..N exists.
LEMMA Recursion ==
  ASSUME NEW N \in Nat, NEW A, NEW b \in A, NEW step, IsStep(step, N, A)
  PROVE  \E f : Recurs(f, N, A, b, step)
  <1> DEFINE Good(f, k) == /\ f \in [0..k -> A] /\ f[0] = b
                           /\ \A n \in 1..k : f[n] = step[n][f[n - 1]]
             S == {k \in 0..N : \E f : Good(f, k)}
  <1> USE DEF IsStep
  <1>1. 0 \in S
    <2>1. Good([n \in 0..0 |-> b], 0)
      OBVIOUS
    <2> HIDE DEF Good
    <2>2. \E f : Good(f, 0)
      BY <2>1
    <2>3. QED
      BY <2>2
  <1>2. ASSUME NEW k \in 0..(N - 1), k \in S
        PROVE  k + 1 \in S
    <2>1. PICK f : Good(f, k)
      BY <1>2
    <2> DEFINE g == [n \in 0..(k + 1) |-> IF n <= k THEN f[n]
                                          ELSE step[k + 1][f[k]]]
    <2>2. f[k] \in A /\ step[k + 1] \in [A -> A]
      BY <2>1
    <2>3. g \in [0..(k + 1) -> A]
      BY <2>1, <2>2
    <2>4. g[0] = b
      BY <2>1
    <2>5. ASSUME NEW n \in 1..(k + 1)
          PROVE  g[n] = step[n][g[n - 1]]
      <3>1. CASE n <= k
        BY <2>1, <3>1
      <3>2. CASE n = k + 1
        BY <3>2
      <3>3. QED
        BY <3>1, <3>2
    <2>6. Good(g, k + 1)
      BY <2>3, <2>4, <2>5
    <2> HIDE DEF Good, g
    <2>7. \E h : Good(h, k + 1)
      BY <2>6
    <2>8. k + 1 \in 0..N
      OBVIOUS
    <2>9. QED
      BY <2>7, <2>8
  <1>3. N \in S
    <2> HIDE DEF S
    <2>1. \A n \in 0..N : n \in S
      BY <1>1, <1>2, Induction
    <2>2. QED
      BY <2>1
  <1>4. PICK f : Good(f, N)
    BY <1>3
  <1>5. QED
    BY <1>4 DEF Recurs

\* The values of a function that is defined by recursion over 0..N.
LEMMA RecursionTyped ==
  ASSUME NEW N \in Nat, NEW A, NEW f, f[0] \in A,
         \A n \in 1..N : f[n - 1] \in A => f[n] \in A
  PROVE  \A n \in 0..N : f[n] \in A
  <1> DEFINE S == {n \in 0..N : f[n] \in A}
  <1>1. 0 \in S
    OBVIOUS
  <1>2. ASSUME NEW n \in 0..(N - 1), n \in S
        PROVE  n + 1 \in S
    <2>1. n + 1 \in 1..N /\ (n + 1) - 1 = n /\ n + 1 \in 0..N
      OBVIOUS
    <2>2. f[(n + 1) - 1] \in A
      BY <1>2
    <2>3. f[n + 1] \in A
      BY <2>1, <2>2
    <2>4. QED
      BY <2>1, <2>3
  <1>3. \A n \in 0..N : n \in S
    <2> HIDE DEF S
    <2>1. QED
      BY <1>1, <1>2, Induction
  <1>4. QED
    BY <1>3

\* A sequence without its c-th element.
LEMMA RemoveAtFacts ==
  ASSUME NEW S, NEW q \in Seq(S), NEW c \in 1..Len(q)
  PROVE  /\ RemoveAt(q, c) \in Seq(S)
         /\ Len(RemoveAt(q, c)) = Len(q) - 1
         /\ \A i \in 1..(Len(q) - 1) :
              RemoveAt(q, c)[i] = IF i < c THEN q[i] ELSE q[i + 1]
  <1> DEFINE a == SubSeq(q, 1, c - 1)
             b == SubSeq(q, c + 1, Len(q))
  <1>1. /\ a \in Seq(S) /\ Len(a) = c - 1
        /\ \A i \in 1..(c - 1) : a[i] = q[i]
    OBVIOUS
  <1>2. /\ b \in Seq(S) /\ Len(b) = Len(q) - c
        /\ \A i \in 1..(Len(q) - c) : b[i] = q[c + i]
    OBVIOUS
  <1>3. RemoveAt(q, c) = a \o b
    BY DEF RemoveAt
  <1> HIDE DEF a, b
  <1>4. a \o b \in Seq(S) /\ Len(a \o b) = Len(q) - 1
    <2>1. a \o b \in Seq(S) /\ Len(a \o b) = Len(a) + Len(b)
      <3>1. ASSUME NEW s \in Seq(S), NEW t \in Seq(S)
            PROVE  s \o t \in Seq(S) /\ Len(s \o t) = Len(s) + Len(t)
        OBVIOUS
      <3>2. QED
        BY <1>1, <1>2, <3>1
    <2>2. Len(q) \in Nat /\ c \in Int
      OBVIOUS
    <2>3. QED
      BY <1>1, <1>2, <2>1, <2>2
  <1>5. ASSUME NEW i \in 1..(Len(q) - 1)
        PROVE  (a \o b)[i] = IF i < c THEN q[i] ELSE q[i + 1]
    <2>1. CASE i < c
      BY <1>1, <1>2, <2>1
    <2>2. CASE ~(i < c)
      <3>1. (a \o b)[i] = b[i - (c - 1)]
        BY <1>1, <1>2, <2>2
      <3>2. i - (c - 1) \in 1..(Len(q) - c) /\ c + (i - (c - 1)) = i + 1
        BY <2>2
      <3>3. QED
        BY <1>2, <2>2, <3>1, <3>2
    <2>3. QED
      BY <2>1, <2>2
  <1>6. QED
    BY <1>3, <1>4, <1>5

\* r is p behind q.
IsConcat(q, p, r) ==
  /\ Len(r) = Len(q) + Len(p)
  /\ \A i \in 1..Len(q) : r[i] = q[i]
  /\ \A i \in 1..Len(p) : r[Len(q) + i] = p[i]

\* What \o yields.
LEMMA ConcatFacts ==
  ASSUME NEW S, NEW q \in Seq(S), NEW p \in Seq(S)
  PROVE  q \o p \in Seq(S) /\ IsConcat(q, p, q \o p)
  BY DEF IsConcat

\* A sequence with m in front of its c-th element.
LEMMA InsertAtFacts ==
  ASSUME NEW S, NEW q \in Seq(S), NEW c \in 1..(Len(q) + 1), NEW m \in S
  PROVE  /\ InsertAt(q, c, m) \in Seq(S)
         /\ Len(InsertAt(q, c, m)) = Len(q) + 1
         /\ \A i \in 1..(Len(q) + 1) :
              InsertAt(q, c, m)[i] = IF i < c THEN q[i]
                                     ELSE IF i = c THEN m ELSE q[i - 1]
  <1> DEFINE a == SubSeq(q, 1, c - 1)
             o == <<m>>
             b == SubSeq(q, c, Len(q))
             d == a \o o
             r == d \o b
  <1>1. /\ a \in Seq(S) /\ Len(a) = c - 1 /\ Len(q) \in Nat /\ c \in Int
        /\ \A i \in 1..(c - 1) : a[i] = q[i]
    OBVIOUS
  <1>2. /\ b \in Seq(S) /\ Len(b) = Len(q) - (c - 1)
        /\ \A i \in 1..(Len(q) - (c - 1)) : b[i] = q[(c - 1) + i]
    OBVIOUS
  <1>3. o \in Seq(S) /\ Len(o) = 1 /\ o[1] = m
    OBVIOUS
  <1>4. InsertAt(q, c, m) = r
    BY DEF InsertAt
  <1> HIDE DEF a, b, o, d
  <1>5. d \in Seq(S) /\ IsConcat(a, o, d)
    BY <1>1, <1>3, ConcatFacts DEF d
  <1>6. r \in Seq(S) /\ IsConcat(d, b, r)
    BY <1>2, <1>5, ConcatFacts
  <1> HIDE DEF r
  <1>7. Len(d) = c /\ d[c] = m /\ \A i \in 1..(c - 1) : d[i] = q[i]
    BY <1>1, <1>3, <1>5 DEF IsConcat
  <1>8. Len(r) = Len(q) + 1
    BY <1>1, <1>2, <1>6, <1>7 DEF IsConcat
  <1>9. ASSUME NEW i \in 1..(Len(q) + 1)
        PROVE  r[i] = IF i < c THEN q[i] ELSE IF i = c THEN m ELSE q[i - 1]
    <2>1. CASE i <= c
      <3>1. r[i] = d[i]
        BY <1>1, <1>6, <1>7, <2>1 DEF IsConcat
      <3>2. QED
        BY <1>1, <1>7, <2>1, <3>1
    <2>2. CASE ~ (i <= c)
      <3>1. i - c \in 1..Len(b) /\ c + (i - c) = i
            /\ (c - 1) + (i - c) = i - 1
        BY <1>1, <1>2, <2>2
      <3>2. r[i] = b[i - c]
        BY <1>6, <1>7, <3>1 DEF IsConcat
      <3>3. b[i - c] = q[i - 1]
        BY <1>2, <3>1
      <3>4. QED
        BY <1>1, <2>2, <3>2, <3>3
    <2>3. QED
      BY <2>1, <2>2
  <1>10. QED
    BY <1>4, <1>6, <1>8, <1>9

\* A sequence is one over its own elements.
LEMMA OwnElements ==
  ASSUME NEW S, NEW q \in Seq(S)
  PROVE  q \in Seq(ToSet(q))
  <1>1. \A i \in 1..Len(q) : q[i] \in ToSet(q)
    BY DEF ToSet
  <1>2. QED
    BY <1>1

\* A sequence with another element at place i, if there is such a place.
LEMMA ReplaceFacts ==
  ASSUME NEW S, NEW q \in Seq(S), NEW i, NEW x, i \in 1..Len(q) => x \in S
  PROVE  /\ [q EXCEPT ![i] = x] \in Seq(S)
         /\ Len([q EXCEPT ![i] = x]) = Len(q)
         /\ \A m \in 1..Len(q) :
              [q EXCEPT ![i] = x][m] = IF m = i THEN x ELSE q[m]
  <1>1. CASE i \in 1..Len(q)
    BY <1>1
  <1>2. CASE i \notin 1..Len(q)
    <2>1. [q EXCEPT ![i] = x] = q
      BY <1>2
    <2>2. QED
      BY <1>2, <2>1
  <1>3. QED
    BY <1>1, <1>2

\* Two sequences of one length with the same elements are equal.
LEMMA SameElements ==
  ASSUME NEW S, NEW q \in Seq(S), NEW p \in Seq(S), Len(q) = Len(p),
         \A i \in 1..Len(q) : q[i] = p[i]
  PROVE  q = p
  OBVIOUS

\* The first k elements of b go over to a: c and d are what they become.
BorderMoved(a, b, k, c, d) ==
  c = a \o SubSeq(b, 1, k) /\ d = SubSeq(b, k + 1, Len(b))

\* Together they stay what they are.
LEMMA MoveBorder ==
  ASSUME NEW S, NEW a \in Seq(S), NEW b \in Seq(S), NEW k \in 1..Len(b),
         NEW c, NEW d, BorderMoved(a, b, k, c, d)
  PROVE  /\ c \in Seq(S) /\ d \in Seq(S)
         /\ c \o d = a \o b /\ Len(c) = Len(a) + k /\ c # <<>>
         /\ a # <<>> => c[1] = a[1]
  <1> DEFINE m == SubSeq(b, 1, k)
             x == c \o d
             y == a \o b
  <1>1. m \in Seq(S) /\ Len(m) = k /\ \A i \in 1..k : m[i] = b[i]
    OBVIOUS
  <1>2. /\ d \in Seq(S) /\ Len(d) = Len(b) - k
        /\ \A i \in 1..(Len(b) - k) : d[i] = b[k + i]
    BY DEF BorderMoved
  <1>3. c = a \o m
    BY DEF BorderMoved
  <1>4. k \in Nat /\ 1 <= k /\ k <= Len(b) /\ Len(b) \in Nat /\ Len(a) \in Nat
    OBVIOUS
  <1> HIDE DEF m
  <1>5. /\ c \in Seq(S) /\ Len(c) = Len(a) + k
        /\ \A i \in 1..Len(a) : c[i] = a[i]
        /\ \A i \in 1..k : c[Len(a) + i] = m[i]
    <2>1. a \o m \in Seq(S) /\ IsConcat(a, m, a \o m)
      BY <1>1, ConcatFacts
    <2>2. c \in Seq(S) /\ IsConcat(a, m, c)
      BY <1>3, <2>1
    <2>3. QED
      BY <1>1, <2>2 DEF IsConcat
  <1>6. /\ y \in Seq(S) /\ Len(y) = Len(a) + Len(b)
        /\ \A i \in 1..Len(a) : y[i] = a[i]
        /\ \A i \in 1..Len(b) : y[Len(a) + i] = b[i]
    BY ConcatFacts DEF IsConcat
  <1>7. /\ x \in Seq(S) /\ Len(x) = Len(c) + Len(d)
        /\ \A i \in 1..Len(c) : x[i] = c[i]
        /\ \A i \in 1..Len(d) : x[Len(c) + i] = d[i]
    <2>1. x \in Seq(S) /\ IsConcat(c, d, x)
      BY <1>2, <1>5, ConcatFacts
    <2>2. QED
      BY <2>1 DEF IsConcat
  <1> HIDE DEF x, y
  <1>8. ASSUME NEW i \in 1..Len(x)
        PROVE  x[i] = y[i]
    <2>1. i \in Nat /\ 1 <= i /\ i <= Len(a) + Len(b)
      BY <1>2, <1>4, <1>5, <1>7
    <2>2. CASE i <= Len(a)
      <3>1. i \in 1..Len(c) /\ i \in 1..Len(a)
        BY <1>4, <1>5, <2>1, <2>2
      <3>2. QED
        BY <1>5, <1>6, <1>7, <3>1
    <2>3. CASE Len(a) < i /\ i <= Len(a) + k
      <3>1. PICK j \in 1..k : i = Len(a) + j
        <4>1. i - Len(a) \in 1..k /\ i = Len(a) + (i - Len(a))
          BY <1>4, <2>1, <2>3
        <4>2. QED
          BY <4>1
      <3>2. i \in 1..Len(c) /\ j \in 1..Len(b)
        BY <1>4, <1>5, <2>1, <2>3
      <3>3. x[i] = b[j]
        BY <1>1, <1>5, <1>7, <3>1, <3>2
      <3>4. y[i] = b[j]
        BY <1>6, <3>1, <3>2
      <3>5. QED
        BY <3>3, <3>4
    <2>4. CASE Len(a) + k < i
      <3>1. PICK j \in 1..(Len(b) - k) : i = Len(a) + k + j
        <4>1. /\ i - (Len(a) + k) \in 1..(Len(b) - k)
              /\ i = Len(a) + k + (i - (Len(a) + k))
          BY <1>4, <2>1, <2>4
        <4>2. QED
          BY <4>1
      <3>2. j \in 1..Len(d) /\ k + j \in 1..Len(b)
            /\ Len(a) + k + j = Len(a) + (k + j)
        BY <1>2, <1>4
      <3>3. x[i] = b[k + j]
        BY <1>2, <1>5, <1>7, <3>1, <3>2
      <3>4. y[i] = b[k + j]
        BY <1>6, <3>1, <3>2
      <3>5. QED
        BY <3>3, <3>4
    <2>5. QED
      BY <1>4, <2>1, <2>2, <2>3, <2>4
  <1>9. x = y
    <2>1. Len(x) = Len(y)
      BY <1>2, <1>4, <1>5, <1>6, <1>7
    <2>2. QED
      BY <1>6, <1>7, <1>8, <2>1, SameElements
  <1>10. c # <<>> /\ (a # <<>> => c[1] = a[1])
    <2>1. Len(c) # 0
      BY <1>4, <1>5
    <2>2. a # <<>> => 1 \in 1..Len(a)
      BY <1>4
    <2>3. QED
      BY <1>5, <2>1, <2>2
  <1>11. QED
    BY <1>2, <1>5, <1>9, <1>10 DEF x, y

\* Three sequences, one behind the other.
LEMMA ConcatAssoc ==
  ASSUME NEW S, NEW a \in Seq(S), NEW b \in Seq(S), NEW c \in Seq(S)
  PROVE  (a \o b) \o c = a \o (b \o c)
  OBVIOUS

\* Two ways to cut one sequence in two.
SameStream(g, r, a, b) == g \o r = a \o b

\* Elements that go over the border do not change the whole.
LEMMA BorderSame ==
  ASSUME NEW S, NEW a \in Seq(S), NEW b \in Seq(S), NEW k \in 0..Len(b),
         NEW c, NEW d, BorderMoved(a, b, k, c, d)
  PROVE  c \in Seq(S) /\ d \in Seq(S) /\ SameStream(c, d, a, b)
  <1>1. CASE k = 0
    <2>1. SubSeq(b, 1, 0) = <<>> /\ SubSeq(b, 1, Len(b)) = b
      OBVIOUS
    <2>2. c = a /\ d = b
      BY <1>1, <2>1 DEF BorderMoved
    <2>3. QED
      BY <2>2 DEF SameStream
  <1>2. CASE k # 0
    <2>1. k \in 1..Len(b)
      BY <1>2
    <2>2. c \in Seq(S) /\ d \in Seq(S) /\ c \o d = a \o b
      BY <2>1, MoveBorder
    <2>3. QED
      BY <2>2 DEF SameStream
  <1>3. QED
    BY <1>1, <1>2

\* What is appended to the end is appended to the whole.
LEMMA StreamAssoc ==
  ASSUME NEW S, NEW a \in Seq(S), NEW b \in Seq(S), NEW c \in Seq(S)
  PROVE  SameStream(a \o b, c, a, b \o c)
  BY ConcatAssoc DEF SameStream
=============================================================================
