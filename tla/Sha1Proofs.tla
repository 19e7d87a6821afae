----------------------------- MODULE Sha1Proofs -----------------------------
(***************************************************************************)
(* Proofs about Sha1, for octets of any width and messages of any length   *)
(* in any number of SHA1Input calls.                                       *)
(*                                                                         *)
(* The padded message is a sequence q of octets.  SHA1Input, and then      *)
(* SHA1PadMessage, put its octets one after another into the block, and    *)
(* every full block is compressed: after k octets the context holds the    *)
(* first k of q (Fills).                                                   *)
(***************************************************************************)
EXTENDS Sha1, SeqLemmas

\* The contexts that occur, whatever is in the block.
Context ==
  [Length_Low : Nat, Length_High : Nat,
   Message_Block : [0..(BLOCK - 1) -> Int], Message_Block_Index : Nat,
   Message_Digest : Seq([0..(BLOCK - 1) -> Int]),
   Computed : BOOLEAN, Corrupted : BOOLEAN]

\* The b-th block of q.
BlockOf(q, b) == [i \in 0..(BLOCK - 1) |-> q[BLOCK * (b - 1) + i + 1]]

\* The blocks compressed so far, and the octets in the next one, are the
\* first k octets of q.
Fills(c, q, k) ==
  /\ k = BLOCK * Len(c.Message_Digest) + c.Message_Block_Index
  /\ \A b \in 1..Len(c.Message_Digest) : c.Message_Digest[b] = BlockOf(q, b)
  /\ \A i \in 0..(c.Message_Block_Index - 1) :
       c.Message_Block[i] = q[BLOCK * Len(c.Message_Digest) + i + 1]

\* All but the block and what was compressed.
SameCount(r, c) ==
  /\ r.Length_Low = c.Length_Low /\ r.Length_High = c.Length_High
  /\ r.Computed = c.Computed /\ r.Corrupted = c.Corrupted

-----------------------------------------------------------------------------
(* The block.                                                              *)

\* One octet more.
LEMMA PutFacts ==
  ASSUME NEW c \in Context, NEW x \in Int, NEW r, r = Put(c, x)
  PROVE  /\ r \in Context /\ SameCount(r, c)
         /\ r.Message_Block_Index = c.Message_Block_Index + 1
         /\ r.Message_Digest = c.Message_Digest
         /\ r.Message_Block = [c.Message_Block EXCEPT
                                 ![c.Message_Block_Index] = x]
  <1>1. PICK b : b = [c.Message_Block EXCEPT ![c.Message_Block_Index] = x]
    OBVIOUS
  <1>2. r = [c EXCEPT !.Message_Block = b,
                      !.Message_Block_Index = c.Message_Block_Index + 1]
    BY <1>1 DEF Put, Context
  <1>3. c.Message_Block \in [0..(BLOCK - 1) -> Int]
        /\ c.Message_Block_Index + 1 \in Nat
    BY DEF Context
  <1>4. b \in [0..(BLOCK - 1) -> Int]
    BY <1>1, <1>3
  <1>5. /\ r.Message_Block = b
        /\ r.Message_Block_Index = c.Message_Block_Index + 1
        /\ r.Message_Digest = c.Message_Digest /\ SameCount(r, c)
    BY <1>2 DEF Context, SameCount
  <1>6. r \in Context
    BY <1>2, <1>3, <1>4 DEF Context
  <1>7. QED
    BY <1>1, <1>5, <1>6

\* Where it goes.
LEMMA PutPlace ==
  ASSUME NEW c \in Context, NEW x \in Int, NEW r, r = Put(c, x)
  PROVE  /\ r \in Context /\ SameCount(r, c)
         /\ r.Message_Block_Index = c.Message_Block_Index + 1
  <1>1. r \in Context /\ SameCount(r, c)
    BY PutFacts
  <1>2. r.Message_Block_Index = c.Message_Block_Index + 1
    BY PutFacts
  <1>3. QED
    BY <1>1, <1>2

\* The octets of the block after that.
LEMMA PutBlock ==
  ASSUME NEW c \in Context, NEW x \in Int, NEW r, r = Put(c, x),
         c.Message_Block_Index < BLOCK, NEW i \in 0..(BLOCK - 1)
  PROVE  r.Message_Block[i] = IF i = c.Message_Block_Index THEN x
                              ELSE c.Message_Block[i]
  <1>1. r.Message_Block = [c.Message_Block EXCEPT ![c.Message_Block_Index] = x]
    BY PutFacts
  <1>2. c.Message_Block \in [0..(BLOCK - 1) -> Int]
    BY DEF Context
  <1>3. QED
    BY <1>1, <1>2

\* The block is compressed.
LEMMA ProcessFacts ==
  ASSUME NEW c \in Context, NEW r, r = SHA1ProcessMessageBlock(c)
  PROVE  /\ r \in Context /\ SameCount(r, c)
         /\ r.Message_Block_Index = 0
         /\ Len(r.Message_Digest) = Len(c.Message_Digest) + 1
         /\ \A b \in 1..Len(c.Message_Digest) :
              r.Message_Digest[b] = c.Message_Digest[b]
         /\ r.Message_Digest[Len(c.Message_Digest) + 1] = c.Message_Block
         /\ Len(c.Message_Digest) \in Nat
  <1>1. r = [c EXCEPT !.Message_Digest =
                        Append(c.Message_Digest, c.Message_Block),
                      !.Message_Block_Index = 0]
    BY DEF SHA1ProcessMessageBlock, Context
  <1>2. PICK d : d = Append(c.Message_Digest, c.Message_Block)
    OBVIOUS
  <1>3. /\ c.Message_Digest \in Seq([0..(BLOCK - 1) -> Int])
        /\ c.Message_Block \in [0..(BLOCK - 1) -> Int]
    BY DEF Context
  <1>4. /\ d \in Seq([0..(BLOCK - 1) -> Int])
        /\ Len(d) = Len(c.Message_Digest) + 1
        /\ \A b \in 1..Len(c.Message_Digest) : d[b] = c.Message_Digest[b]
        /\ d[Len(c.Message_Digest) + 1] = c.Message_Block
        /\ Len(c.Message_Digest) \in Nat
    BY <1>2, <1>3
  <1>5. /\ r.Message_Digest = d /\ r.Message_Block_Index = 0 /\ SameCount(r, c)
    BY <1>1, <1>2 DEF Context, SameCount
  <1>6. r \in Context
    <2>1. r = [c EXCEPT !.Message_Digest = d, !.Message_Block_Index = 0]
      BY <1>1, <1>2
    <2>2. d \in Seq([0..(BLOCK - 1) -> Int]) /\ 0 \in Nat
      BY <1>4
    <2>3. QED
      BY <2>1, <2>2 DEF Context
  <1>7. QED
    BY <1>4, <1>5, <1>6

\* Zeroes up to the n-th octet of the block.
LEMMA ZeroFacts ==
  ASSUME NEW c \in Context, NEW n \in 0..BLOCK, c.Message_Block_Index <= n,
         NEW r, r = ZeroTo(c, n)
  PROVE  /\ r \in Context /\ SameCount(r, c)
         /\ r.Message_Block_Index = n
         /\ r.Message_Digest = c.Message_Digest
         /\ \A i \in 0..(BLOCK - 1) :
              r.Message_Block[i] =
                IF c.Message_Block_Index <= i /\ i < n THEN 0
                ELSE c.Message_Block[i]
  <1> DEFINE b == [i \in 0..(BLOCK - 1) |->
                     IF c.Message_Block_Index <= i /\ i < n THEN 0
                     ELSE c.Message_Block[i]]
  <1>1. c.Message_Block \in [0..(BLOCK - 1) -> Int] /\ c.Message_Block_Index \in Nat
    BY DEF Context
  <1>2. Max({n, c.Message_Block_Index}) = n
    <2>1. n \in Nat
      BY DEF BLOCK
    <2>2. {n, c.Message_Block_Index} \subseteq 0..n
      BY <1>1, <2>1
    <2>3. Max({n, c.Message_Block_Index}) \in 0..n
          /\ Max({n, c.Message_Block_Index}) >= n
      BY <2>1, <2>2, MaxExists
    <2>4. QED
      BY <2>1, <2>3
  <1>3. r = [c EXCEPT !.Message_Block = b, !.Message_Block_Index = n]
    BY <1>1, <1>2 DEF ZeroTo, Context
  <1>4. b \in [0..(BLOCK - 1) -> Int]
    BY <1>1 DEF BLOCK
  <1>5. \A i \in 0..(BLOCK - 1) :
          b[i] = IF c.Message_Block_Index <= i /\ i < n THEN 0
                 ELSE c.Message_Block[i]
    OBVIOUS
  <1> HIDE DEF b
  <1>6. /\ r.Message_Block = b /\ r.Message_Block_Index = n
        /\ r.Message_Digest = c.Message_Digest /\ SameCount(r, c)
    BY <1>3 DEF Context, SameCount
  <1>7. r \in Context
    <2>1. n \in Nat
      BY DEF BLOCK
    <2>2. QED
      BY <1>3, <1>4, <2>1 DEF Context
  <1>8. QED
    BY <1>5, <1>6, <1>7

-----------------------------------------------------------------------------
(* What the context holds.                                                 *)

\* How far a context is.
LEMMA PlaceTyped ==
  ASSUME NEW c \in Context
  PROVE  /\ c.Message_Block_Index \in Nat /\ Len(c.Message_Digest) \in Nat
         /\ BLOCK \in Nat /\ BLOCK * Len(c.Message_Digest) \in Nat
         /\ BLOCK * (Len(c.Message_Digest) + 1)
              = BLOCK * Len(c.Message_Digest) + BLOCK
  <1>1. c.Message_Block_Index \in Nat /\ Len(c.Message_Digest) \in Nat
    BY DEF Context
  <1>2. PICK d \in Nat : d = Len(c.Message_Digest)
    BY <1>1
  <1>3. BLOCK * d \in Nat /\ BLOCK * (d + 1) = BLOCK * d + BLOCK
    BY DEF BLOCK
  <1>4. QED
    BY <1>1, <1>2, <1>3 DEF BLOCK

\* An octet of q more.
LEMMA PutFills ==
  ASSUME NEW c \in Context, NEW q, NEW k, Fills(c, q, k),
         c.Message_Block_Index < BLOCK,
         NEW x \in Int, x = q[k + 1], NEW r, r = Put(c, x)
  PROVE  Fills(r, q, k + 1)
  <1> DEFINE n == c.Message_Block_Index
             d == Len(c.Message_Digest)
  <1>1. n \in Nat /\ d \in Nat /\ BLOCK \in Nat
    BY PlaceTyped
  <1>2. /\ r.Message_Block_Index = n + 1 /\ r.Message_Digest = c.Message_Digest
        /\ \A i \in 0..(BLOCK - 1) :
             r.Message_Block[i] = IF i = n THEN x ELSE c.Message_Block[i]
    <2>1. r.Message_Block_Index = n + 1 /\ r.Message_Digest = c.Message_Digest
      BY PutFacts, ZenonT(40)
    <2>2. ASSUME NEW i \in 0..(BLOCK - 1)
          PROVE  r.Message_Block[i] = IF i = n THEN x ELSE c.Message_Block[i]
      BY <2>2, PutBlock
    <2>3. QED
      BY <2>1, <2>2
  <1>3. /\ k = BLOCK * d + n
        /\ \A b \in 1..d : c.Message_Digest[b] = BlockOf(q, b)
        /\ \A i \in 0..(n - 1) : c.Message_Block[i] = q[BLOCK * d + i + 1]
    BY DEF Fills
  <1>4. BLOCK * d \in Nat
    BY <1>1
  <1>5. k + 1 = BLOCK * d + (n + 1)
    BY <1>1, <1>3, <1>4
  <1>6. ASSUME NEW i \in 0..((n + 1) - 1)
        PROVE  r.Message_Block[i] = q[BLOCK * d + i + 1]
    <2>1. i \in 0..(BLOCK - 1)
      BY <1>1, <1>6
    <2>2. CASE i = n
      <3>1. k + 1 = BLOCK * d + i + 1
        BY <1>1, <1>3, <1>4, <2>2
      <3>2. QED
        BY <1>2, <2>1, <2>2, <3>1
    <2>3. CASE i # n
      <3>1. i \in 0..(n - 1)
        BY <1>1, <1>6, <2>3
      <3>2. QED
        BY <1>2, <1>3, <2>1, <2>3, <3>1
    <2>4. QED
      BY <2>2, <2>3
  <1>7. QED
    BY <1>2, <1>3, <1>5, <1>6 DEF Fills

\* A block of q more, whichever way the last n octets came there.
LEMMA BlockFills ==
  ASSUME NEW c \in Context, NEW q, NEW k, c.Message_Block_Index <= BLOCK,
         Fills(c, q, k),
         \A i \in c.Message_Block_Index..(BLOCK - 1) :
           c.Message_Block[i] = q[BLOCK * Len(c.Message_Digest) + i + 1],
         NEW r, r = SHA1ProcessMessageBlock(c)
  PROVE  Fills(r, q, k + (BLOCK - c.Message_Block_Index))
  <1> DEFINE n == c.Message_Block_Index
             d == Len(c.Message_Digest)
  <1>1. n \in Nat /\ d \in Nat /\ BLOCK \in Nat
        /\ BLOCK * d \in Nat /\ BLOCK * (d + 1) = BLOCK * d + BLOCK
    BY PlaceTyped
  <1>2. /\ r.Message_Block_Index = 0
        /\ Len(r.Message_Digest) = d + 1
        /\ \A b \in 1..d : r.Message_Digest[b] = c.Message_Digest[b]
        /\ r.Message_Digest[d + 1] = c.Message_Block
    BY ProcessFacts
  <1>3. /\ k = BLOCK * d + n
        /\ \A b \in 1..d : c.Message_Digest[b] = BlockOf(q, b)
        /\ \A i \in 0..(n - 1) : c.Message_Block[i] = q[BLOCK * d + i + 1]
    BY DEF Fills
  <1>4. \A i \in 0..(BLOCK - 1) : c.Message_Block[i] = q[BLOCK * d + i + 1]
    <2>1. ASSUME NEW i \in 0..(BLOCK - 1)
          PROVE  i \in 0..(n - 1) \/ i \in n..(BLOCK - 1)
      BY <1>1
    <2>2. QED
      BY <1>3, <2>1
  <1>5. c.Message_Block = BlockOf(q, d + 1)
    <2>1. c.Message_Block = [i \in 0..(BLOCK - 1) |-> c.Message_Block[i]]
      BY DEF Context
    <2>2. (d + 1) - 1 = d
      BY <1>1
    <2>3. QED
      BY <1>4, <2>1, <2>2 DEF BlockOf
  <1>6. \A b \in 1..(d + 1) : r.Message_Digest[b] = BlockOf(q, b)
    <2>1. \A b \in 1..(d + 1) : b \in 1..d \/ b = d + 1
      BY <1>1
    <2>2. QED
      BY <1>2, <1>3, <1>5, <2>1
  <1>7. k + (BLOCK - n) = BLOCK * (d + 1) + 0
    <2> HIDE DEF n, d
    <2>1. QED
      BY <1>1, <1>3
  <1>8. QED
    BY <1>2, <1>6, <1>7 DEF Fills

\* Zeroes of q more.
LEMMA ZeroFills ==
  ASSUME NEW c \in Context, NEW q, NEW k, Fills(c, q, k),
         NEW n \in 0..BLOCK, c.Message_Block_Index <= n,
         \A i \in (k + 1)..(k + (n - c.Message_Block_Index)) : q[i] = 0,
         NEW r, r = ZeroTo(c, n)
  PROVE  Fills(r, q, k + (n - c.Message_Block_Index))
  <1> DEFINE m == c.Message_Block_Index
             d == Len(c.Message_Digest)
  <1>1. m \in Nat /\ d \in Nat /\ BLOCK \in Nat /\ BLOCK * d \in Nat /\ n \in Nat
        /\ n <= BLOCK
    <2>1. m \in Nat /\ d \in Nat /\ BLOCK \in Nat /\ BLOCK * d \in Nat
      BY PlaceTyped
    <2>2. n \in Nat /\ n <= BLOCK
      BY <2>1
    <2>3. QED
      BY <2>1, <2>2
  <1>2. /\ r.Message_Block_Index = n /\ r.Message_Digest = c.Message_Digest
        /\ \A i \in 0..(BLOCK - 1) :
             r.Message_Block[i] = IF m <= i /\ i < n THEN 0
                                  ELSE c.Message_Block[i]
    BY ZeroFacts
  <1>3. /\ k = BLOCK * d + m
        /\ \A b \in 1..d : c.Message_Digest[b] = BlockOf(q, b)
        /\ \A i \in 0..(m - 1) : c.Message_Block[i] = q[BLOCK * d + i + 1]
    BY DEF Fills
  <1>4. ASSUME NEW i \in 0..(n - 1)
        PROVE  r.Message_Block[i] = q[BLOCK * d + i + 1]
    <2>1. i \in 0..(BLOCK - 1) /\ i < n
      BY <1>1
    <2>2. CASE m <= i
      <3>1. BLOCK * d + i + 1 \in (k + 1)..(k + (n - m))
        BY <1>1, <1>3, <2>1, <2>2, SMTT(30)
      <3>2. QED
        BY <1>2, <2>1, <2>2, <3>1
    <2>3. CASE ~(m <= i)
      <3>1. i \in 0..(m - 1)
        BY <1>1, <2>3
      <3>2. QED
        BY <1>2, <1>3, <2>1, <2>3, <3>1
    <2>4. QED
      BY <2>2, <2>3
  <1>5. k + (n - m) = BLOCK * d + n
    BY <1>1, <1>3
  <1>6. QED
    BY <1>2, <1>3, <1>4, <1>5 DEF Fills

-----------------------------------------------------------------------------
(* The octets of the bit count.                                            *)

\* What the octets of a number count.
LEMMA Weights ==
  /\ Weight[0] = 1
  /\ \A i \in 1..8 : Weight[i] = OCTET * Weight[i - 1]
  /\ \A i \in 0..8 : Weight[i] \in Nat /\ Weight[i] >= 1
  <1> DEFINE A == Nat \ {0}
             step == [i \in 1..8 |-> [x \in A |-> OCTET * x]]
             S(f) == f = [i \in 0..8 |->
                            IF i = 0 THEN 1 ELSE OCTET * f[i - 1]]
  <1>1. \A x \in A : OCTET * x \in A
    <2>1. ASSUME NEW x \in Nat, x >= 1
          PROVE  OCTET * x \in Nat /\ OCTET * x >= 1
      BY <2>1, OctetAssumption
    <2>2. QED
      BY <2>1
  <1>2. IsStep(step, 8, A)
    BY <1>1 DEF IsStep
  <1>3. PICK f : Recurs(f, 8, A, 1, step)
    <2> HIDE DEF A, step
    <2>1. 8 \in Nat /\ 1 \in A
      BY DEF A
    <2>2. QED
      BY <1>2, <2>1, Recursion
  <1>4. /\ f \in [0..8 -> A] /\ f[0] = 1
        /\ \A i \in 1..8 : f[i] = OCTET * f[i - 1]
    <2>1. /\ f \in [0..8 -> A] /\ f[0] = 1
          /\ \A i \in 1..8 : f[i] = step[i][f[i - 1]]
      BY <1>3 DEF Recurs
    <2>2. \A i \in 1..8 : f[i - 1] \in A
      <3>1. \A i \in 1..8 : i - 1 \in 0..8
        OBVIOUS
      <3>2. QED
        BY <2>1, <3>1
    <2>3. QED
      BY <2>1, <2>2
  <1>5. S(f)
    <2>1. f = [i \in 0..8 |-> f[i]]
      BY <1>4
    <2>2. \A i \in 0..8 : i = 0 \/ i \in 1..8
      OBVIOUS
    <2>3. \A i \in 0..8 : f[i] = IF i = 0 THEN 1 ELSE OCTET * f[i - 1]
      BY <1>4, <2>2
    <2>4. QED
      BY <2>1, <2>3
  <1>6. Weight = CHOOSE g : S(g)
    BY DEF Weight
  <1>7. S(Weight)
    <2> HIDE DEF S
    <2>1. QED
      BY <1>5, <1>6
  <1>8. Weight[0] = 1 /\ \A i \in 1..8 : Weight[i] = OCTET * Weight[i - 1]
    <2>1. \A i \in 0..8 :
            Weight[i] = IF i = 0 THEN 1 ELSE OCTET * Weight[i - 1]
      BY <1>7
    <2>2. 0 \in 0..8 /\ \A i \in 1..8 : i \in 0..8 /\ i # 0
      OBVIOUS
    <2>3. QED
      BY <2>1, <2>2
  <1>9. \A i \in 0..8 : Weight[i] \in A
    <2>1. Weight[0] \in A
      BY <1>8
    <2>2. ASSUME NEW i \in 1..8, Weight[i - 1] \in A
          PROVE  Weight[i] \in A
      BY <1>1, <1>8, <2>2
    <2> HIDE DEF A
    <2>3. QED
      BY <2>1, <2>2, RecursionTyped
  <1>10. QED
    BY <1>8, <1>9

\* Products.
LEMMA Products ==
  ASSUME NEW x \in Nat, NEW y \in Nat, NEW z \in Nat
  PROVE  /\ x * y \in Nat /\ x * (y * z) = (x * y) * z /\ x * y = y * x
         /\ x * (y + z) = x * y + x * z
  OBVIOUS

\* Octets on octets.
LEMMA WeightsMultiply ==
  ASSUME NEW a \in 0..8, NEW b \in 0..(8 - a)
  PROVE  Weight[a + b] = Weight[a] * Weight[b]
  <1> DEFINE S == {n \in 0..(8 - a) : Weight[a + n] = Weight[a] * Weight[n]}
  <1>1. 0 \in S
    <2>1. Weight[a] \in Nat /\ Weight[0] = 1 /\ a + 0 = a
      BY Weights
    <2>2. QED
      BY <2>1
  <1>2. ASSUME NEW n \in 0..((8 - a) - 1), n \in S
        PROVE  n + 1 \in S
    <2>1. /\ a + n \in 0..8 /\ n \in 0..8 /\ n + 1 \in 1..8
          /\ a + (n + 1) \in 1..8 /\ (n + 1) - 1 = n
          /\ (a + (n + 1)) - 1 = a + n
      OBVIOUS
    <2>2. /\ Weight[a + (n + 1)] = OCTET * Weight[a + n]
          /\ Weight[n + 1] = OCTET * Weight[n]
      BY <2>1, Weights
    <2>3. PICK x \in Nat : x = Weight[a]
      BY Weights
    <2>4. PICK y \in Nat : y = Weight[n]
      BY <2>1, Weights
    <2>5. OCTET * (x * y) = x * (OCTET * y)
      BY OctetAssumption
    <2>6. Weight[a + n] = x * y
      BY <1>2, <2>3, <2>4
    <2>7. Weight[a + (n + 1)] = Weight[a] * Weight[n + 1]
      BY <2>2, <2>3, <2>4, <2>5, <2>6
    <2>8. n + 1 \in 0..(8 - a)
      OBVIOUS
    <2>9. QED
      BY <2>7, <2>8
  <1>3. \A n \in 0..(8 - a) : n \in S
    <2> HIDE DEF S
    <2>1. 8 - a \in Nat
      OBVIOUS
    <2>2. QED
      BY <1>1, <1>2, <2>1, Induction
  <1>4. QED
    BY <1>3

\* A multiple does not change the remainder.
LEMMA RemainderOf ==
  ASSUME NEW d \in Nat, d >= 1, NEW k \in Nat, NEW x \in Nat
  PROVE  (d * k + x) % d = x % d
  <1>1. PICK q \in Nat : q = x \div d
    BY Division
  <1>2. PICK r \in 0..(d - 1) : r = x % d
    BY Division
  <1>3. x = d * q + r
    BY <1>1, <1>2, Division
  <1>4. d * k + x = d * (k + q) + r
    BY <1>3
  <1>5. k + q \in Nat
    OBVIOUS
  <1>6. (d * (k + q) + r) % d = r
    BY <1>5, DivisionUnique
  <1>7. QED
    BY <1>2, <1>4, <1>6

\* A word is a number of four octets.
LEMMA Words ==
  WORD \in Nat /\ WORD >= 1 /\ WORD = Weight[4]
  BY Weights DEF WORD

\* An octet of the high word, as one of the number that both words make.
LEMMA HighOctet ==
  ASSUME NEW high \in Nat, NEW low \in 0..(WORD - 1), NEW e \in 4..7
  PROVE  ((high * WORD + low) \div Weight[e]) % OCTET = OctetOf(high, e - 4)
  <1>1. e - 4 \in 0..8 /\ e \in 0..8 /\ 4 \in 0..8 /\ e - 4 \in 0..(8 - 4)
        /\ 4 + (e - 4) = e
    OBVIOUS
  <1>2. PICK v \in Nat : v = Weight[e - 4] /\ v >= 1
    BY <1>1, Weights
  <1>3. PICK w \in Nat : w = WORD /\ w >= 1
    BY Words
  <1>4. Weight[e] = w * v
    <2>1. Weight[4 + (e - 4)] = Weight[4] * Weight[e - 4]
      BY <1>1, WeightsMultiply
    <2>2. QED
      BY <1>1, <1>2, <1>3, <2>1, Words
  <1>5. PICK q \in Nat : q = high \div v
    BY <1>2, Division
  <1>6. PICK r \in 0..(v - 1) : r = high % v
    BY <1>2, Division
  <1>7. high = v * q + r
    BY <1>2, <1>5, <1>6, Division
  <1>8. low \in 0..(w - 1)
    BY <1>3
  <1>9. high * w + low = (w * v) * q + (w * r + low)
    BY <1>7, <1>8
  <1>10. w * r + low \in 0..((w * v) - 1)
    <2>1. w * r \in Nat /\ w * v \in Nat
      BY <1>2, <1>3
    <2>2. w * r + w <= w * v
      <3>1. r + 1 <= v
        BY <1>2
      <3>2. w * (r + 1) <= w * v
        BY <1>2, <1>3, <3>1
      <3>3. QED
        BY <1>2, <1>3, <3>2
    <2>3. QED
      BY <1>3, <1>8, <2>1, <2>2
  <1>11. w * v \in Nat /\ w * v >= 1
    BY <1>2, <1>3
  <1>12. (high * w + low) \div (w * v) = q
    BY <1>9, <1>10, <1>11, DivisionUnique
  <1>13. QED
    BY <1>2, <1>3, <1>4, <1>5, <1>12 DEF OctetOf

\* An octet of the low word.
LEMMA LowOctet ==
  ASSUME NEW high \in Nat, NEW low \in 0..(WORD - 1), NEW e \in 0..3
  PROVE  ((high * WORD + low) \div Weight[e]) % OCTET = OctetOf(low, e)
  <1>1. /\ 3 - e \in 0..8 /\ e \in 0..8 /\ 4 - e \in 1..8
        /\ 4 - e \in 0..(8 - e) /\ e + (4 - e) = 4 /\ (4 - e) - 1 = 3 - e
    OBVIOUS
  <1>2. PICK v \in Nat : v = Weight[3 - e]
    BY <1>1, Weights
  <1>3. PICK w \in Nat : w = Weight[e] /\ w >= 1
    BY <1>1, Weights
  <1>4. WORD = w * (OCTET * v)
    <2>1. Weight[e + (4 - e)] = Weight[e] * Weight[4 - e]
      BY <1>1, WeightsMultiply
    <2>2. Weight[4 - e] = OCTET * Weight[3 - e]
      BY <1>1, Weights
    <2>3. QED
      BY <1>1, <1>2, <1>3, <2>1, <2>2, Words
  <1> low \in Nat
    BY Words
  <1>5. PICK q \in Nat : q = low \div w
    BY <1>3, Division
  <1>6. PICK r \in 0..(w - 1) : r = low % w
    BY <1>3, Division
  <1>7. low = w * q + r
    BY <1>3, <1>5, <1>6, Division
  <1>8. OCTET \in Nat /\ OCTET >= 1
    BY OctetAssumption
  <1>9. high * WORD + low = w * (OCTET * (high * v) + q) + r
    <2>1. high * (w * (OCTET * v)) = w * (OCTET * (high * v))
      BY <1>2, <1>3, <1>8
    <2>2. PICK x \in Nat : x = OCTET * (high * v)
      BY <1>2, <1>8
    <2>3. w * (x + q) + r = w * x + (w * q + r)
      BY <1>3
    <2>4. QED
      BY <1>4, <1>7, <2>1, <2>2, <2>3
  <1>10. OCTET * (high * v) + q \in Nat /\ high * v \in Nat
    BY <1>2, <1>8
  <1>11. (high * WORD + low) \div w = OCTET * (high * v) + q
    <2>1. PICK y \in Nat : y = OCTET * (high * v) + q
      BY <1>10
    <2>2. (w * y + r) \div w = y
      BY <1>3, DivisionUnique
    <2>3. QED
      BY <1>9, <2>1, <2>2
  <1>12. (OCTET * (high * v) + q) % OCTET = q % OCTET
    BY <1>8, <1>10, RemainderOf
  <1>13. QED
    BY <1>3, <1>5, <1>11, <1>12 DEF OctetOf

-----------------------------------------------------------------------------
(* Input.                                                                  *)

\* The two words count the bits of k octets.
BitsOf(high, low, k) ==
  /\ high \in 0..(WORD - 1) /\ low \in 0..(WORD - 1)
  /\ high * WORD + low = 8 * k /\ \E j \in Nat : low = 8 * j

Counts(c, k) == BitsOf(c.Length_High, c.Length_Low, k)

\* The context after the first k octets of q, unless there were too many.
Absorbed(c, q, k) ==
  /\ c \in Context /\ ~c.Computed
  /\ ~c.Corrupted =>
       Fills(c, q, k) /\ Counts(c, k) /\ c.Message_Block_Index < BLOCK

\* The two words when eight more bits are counted.
LEMMA MoreBits ==
  ASSUME NEW high, NEW low, NEW k \in Nat, BitsOf(high, low, k),
         NEW l, l = (low + 8) % WORD,
         NEW h, h = IF l = 0 THEN (high + 1) % WORD ELSE high,
         ~(l = 0 /\ h = 0)
  PROVE  BitsOf(h, l, k + 1)
  <1> high \in 0..(WORD - 1) /\ low \in 0..(WORD - 1)
      /\ high * WORD + low = 8 * k
    BY DEF BitsOf
  <1> PICK j \in Nat : low = 8 * j
    BY DEF BitsOf
  <1>1. PICK w \in Nat : w = WORD /\ w >= 1
    BY Words
  <1>2. w = 8 * (w \div 8) /\ w \div 8 \in Nat
    <2>1. w % 8 = 0
      BY <1>1, OctetAssumption
    <2>2. w = 8 * (w \div 8) + (w % 8) /\ w \div 8 \in Nat
      BY Division
    <2>3. QED
      BY <2>1, <2>2
  <1>3. low + 8 <= w /\ high \in 0..(w - 1) /\ low \in 0..(w - 1)
    BY <1>1, <1>2
  <1>4. high * w \in Nat /\ (high + 1) * w = high * w + w
    BY <1>1, <1>3
  <1>5. CASE low + 8 = w
    <2>1. l = 0
      <3>1. (w * 1 + 0) % w = 0
        BY <1>1, DivisionUnique
      <3>2. QED
        BY <1>1, <1>5, <3>1
    <2>2. high + 1 # w
      <3>1. SUFFICES ASSUME high + 1 = w
                     PROVE  h = 0
        BY <2>1
      <3>2. (w * 1 + 0) % w = 0
        BY <1>1, DivisionUnique
      <3>3. QED
        BY <1>1, <2>1, <3>1, <3>2
    <2>3. h = high + 1 /\ h \in 0..(w - 1)
      <3>1. high + 1 \in 0..(w - 1)
        BY <1>3, <2>2
      <3>2. (w * 0 + (high + 1)) % w = high + 1
        BY <1>1, <3>1, DivisionUnique
      <3>3. w * 0 + (high + 1) = high + 1
        BY <1>1, <3>1
      <3>4. QED
        BY <1>1, <2>1, <3>1, <3>2, <3>3
    <2>4. h * w + l = 8 * (k + 1)
      BY <1>1, <1>3, <1>4, <1>5, <2>1, <2>3
    <2>5. l = 8 * 0 /\ l \in 0..(w - 1)
      BY <1>1, <2>1
    <2>6. QED
      BY <1>1, <2>3, <2>4, <2>5 DEF BitsOf
  <1>6. CASE low + 8 # w
    <2>1. low + 8 \in 0..(w - 1)
      BY <1>3, <1>6
    <2>2. l = low + 8
      <3>1. (w * 0 + (low + 8)) % w = low + 8
        BY <1>1, <2>1, DivisionUnique
      <3>2. w * 0 + (low + 8) = low + 8
        BY <1>1, <2>1
      <3>3. QED
        BY <1>1, <3>1, <3>2
    <2>3. h = high
      BY <1>3, <2>2
    <2>4. h * w + l = 8 * (k + 1)
      BY <1>1, <1>3, <1>4, <2>2, <2>3
    <2>5. l = 8 * (j + 1) /\ j + 1 \in Nat
      BY <2>2
    <2>6. QED
      BY <1>1, <1>3, <2>1, <2>2, <2>3, <2>4, <2>5 DEF BitsOf
  <1>7. QED
    BY <1>5, <1>6

\* Eight more bits leave the rest alone.
LEMMA CountFacts ==
  ASSUME NEW c \in Context, NEW r, r = CountOctet(c)
  PROVE  /\ r \in Context /\ r.Computed = c.Computed
         /\ r.Message_Block = c.Message_Block
         /\ r.Message_Block_Index = c.Message_Block_Index
         /\ r.Message_Digest = c.Message_Digest
         /\ r.Length_Low = (c.Length_Low + 8) % WORD
         /\ r.Length_High = IF r.Length_Low = 0 THEN (c.Length_High + 1) % WORD
                            ELSE c.Length_High
         /\ r.Corrupted
              <=> c.Corrupted \/ (r.Length_Low = 0 /\ r.Length_High = 0)
  <1>1. PICK l : l = (c.Length_Low + 8) % WORD
    OBVIOUS
  <1>2. PICK h : h = IF l = 0 THEN (c.Length_High + 1) % WORD
                     ELSE c.Length_High
    OBVIOUS
  <1>3. PICK b \in BOOLEAN : b <=> c.Corrupted \/ (l = 0 /\ h = 0)
    OBVIOUS
  <1>4. l \in Nat /\ h \in Nat
    <2>1. c.Length_Low + 8 \in Nat /\ c.Length_High + 1 \in Nat
          /\ c.Length_High \in Nat
      BY DEF Context
    <2>2. ASSUME NEW x \in Nat
          PROVE  x % WORD \in Nat
      <3>1. PICK w \in Nat : w = WORD /\ w >= 1
        BY Words
      <3>2. x % w \in 0..(w - 1)
        BY <3>1, Division
      <3>3. QED
        BY <3>1, <3>2
    <2>3. QED
      BY <1>1, <1>2, <2>1, <2>2
  <1>5. c.Corrupted \in BOOLEAN
    BY DEF Context
  <1>6. r = [c EXCEPT !.Length_Low = l, !.Length_High = h, !.Corrupted = b]
    <2>1. (c.Corrupted \/ (l = 0 /\ h = 0)) = b
      BY <1>3
    <2>2. QED
      BY <1>1, <1>2, <2>1 DEF CountOctet, Context
  <1>7. /\ r.Computed = c.Computed
        /\ r.Message_Block = c.Message_Block
        /\ r.Message_Block_Index = c.Message_Block_Index
        /\ r.Message_Digest = c.Message_Digest
        /\ r.Length_Low = l /\ r.Length_High = h /\ r.Corrupted = b
    BY <1>6 DEF Context
  <1>8. r \in Context
    BY <1>3, <1>4, <1>6 DEF Context
  <1>9. QED
    BY <1>1, <1>2, <1>3, <1>7, <1>8

\* One octet of the message.
LEMMA OctetTyped ==
  ASSUME NEW c \in Context, NEW x \in Int, NEW r, r = InputOctet(c, x)
  PROVE  r \in Context /\ r.Computed = c.Computed
  <1>1. CASE c.Corrupted
    BY <1>1 DEF InputOctet
  <1>2. CASE ~c.Corrupted
    <2>1. PICK p : p = Put(c, x)
      OBVIOUS
    <2>2. p \in Context /\ p.Computed = c.Computed
      BY <2>1, PutFacts, ZenonT(40) DEF SameCount
    <2>3. PICK n : n = CountOctet(p)
      OBVIOUS
    <2>4. n \in Context /\ n.Computed = c.Computed
      BY <2>2, <2>3, CountFacts
    <2>5. PICK b : b = SHA1ProcessMessageBlock(n)
      OBVIOUS
    <2>6. b \in Context /\ b.Computed = c.Computed
      BY <2>4, <2>5, ProcessFacts DEF SameCount
    <2>7. r = IF n.Message_Block_Index = BLOCK THEN b ELSE n
      BY <1>2, <2>1, <2>3, <2>5 DEF InputOctet
    <2>8. QED
      BY <2>4, <2>6, <2>7
  <1>3. QED
    BY <1>1, <1>2

LEMMA OctetAbsorbed ==
  ASSUME NEW c \in Context, NEW q, NEW k \in Nat, Absorbed(c, q, k),
         NEW x \in Int, x = q[k + 1], NEW r, r = InputOctet(c, x)
  PROVE  Absorbed(r, q, k + 1)
  <1>1. c \in Context /\ ~c.Computed /\ r \in Context /\ ~r.Computed
    BY OctetTyped DEF Absorbed
  <1>2. SUFFICES ASSUME ~r.Corrupted
                 PROVE  /\ Fills(r, q, k + 1) /\ Counts(r, k + 1)
                        /\ r.Message_Block_Index < BLOCK
    BY <1>1 DEF Absorbed
  <1>3. ~c.Corrupted
    BY <1>2 DEF InputOctet
  <1>4. Fills(c, q, k) /\ Counts(c, k) /\ c.Message_Block_Index < BLOCK
    BY <1>3 DEF Absorbed
  <1>5. PICK p : p = Put(c, x)
    OBVIOUS
  <1>6. /\ p \in Context /\ SameCount(p, c) /\ Fills(p, q, k + 1)
        /\ p.Message_Block_Index = c.Message_Block_Index + 1
    <2>1. /\ p \in Context /\ SameCount(p, c)
          /\ p.Message_Block_Index = c.Message_Block_Index + 1
      BY <1>5, PutPlace
    <2>2. Fills(p, q, k + 1)
      BY <1>4, <1>5, PutFills
    <2>3. QED
      BY <2>1, <2>2
  <1>7. PICK n : n = CountOctet(p)
    OBVIOUS
  <1>8. /\ n \in Context
        /\ n.Message_Block = p.Message_Block
        /\ n.Message_Block_Index = p.Message_Block_Index
        /\ n.Message_Digest = p.Message_Digest
    BY <1>6, <1>7, CountFacts
  <1>9. Fills(n, q, k + 1)
    BY <1>6, <1>8 DEF Fills
  <1>10. r = IF n.Message_Block_Index = BLOCK THEN SHA1ProcessMessageBlock(n)
             ELSE n
    BY <1>3, <1>5, <1>7 DEF InputOctet
  <1>11. PICK b : b = SHA1ProcessMessageBlock(n)
    OBVIOUS
  <1>12. b \in Context /\ SameCount(b, n) /\ b.Message_Block_Index = 0
    BY <1>8, <1>11, ProcessFacts
  <1>13. SameCount(r, n)
    BY <1>10, <1>11, <1>12 DEF SameCount
  <1>14. Counts(r, k + 1)
    <2>1. ~n.Corrupted
      BY <1>2, <1>13 DEF SameCount
    <2>2. /\ n.Length_Low = (p.Length_Low + 8) % WORD
          /\ n.Length_High = IF n.Length_Low = 0
                             THEN (p.Length_High + 1) % WORD
                             ELSE p.Length_High
          /\ ~(n.Length_Low = 0 /\ n.Length_High = 0)
      BY <1>6, <1>7, <2>1, CountFacts
    <2>3. p.Length_Low = c.Length_Low /\ p.Length_High = c.Length_High
      BY <1>6 DEF SameCount
    <2>4. PICK low, high : low = c.Length_Low /\ high = c.Length_High
      OBVIOUS
    <2>5. BitsOf(high, low, k)
      BY <1>4, <2>4 DEF Counts
    <2>6. PICK l, h : l = n.Length_Low /\ h = n.Length_High
      OBVIOUS
    <2>7. /\ l = (low + 8) % WORD
          /\ h = IF l = 0 THEN (high + 1) % WORD ELSE high
          /\ ~(l = 0 /\ h = 0)
      BY <2>2, <2>3, <2>4, <2>6
    <2>8. BitsOf(h, l, k + 1)
      BY <2>5, <2>7, MoreBits
    <2>9. r.Length_Low = l /\ r.Length_High = h
      BY <1>13, <2>6 DEF SameCount
    <2>10. QED
      BY <2>8, <2>9 DEF Counts
  <1>15. CASE n.Message_Block_Index = BLOCK
    <2>1. BLOCK \in Nat /\ 0 < BLOCK /\ BLOCK..(BLOCK - 1) = {}
      BY DEF BLOCK
    <2>2. Fills(b, q, (k + 1) + (BLOCK - n.Message_Block_Index))
      BY <1>8, <1>9, <1>11, <1>15, <2>1, BlockFills
    <2>3. (k + 1) + (BLOCK - n.Message_Block_Index) = k + 1
      BY <1>15, <2>1
    <2>4. QED
      BY <1>10, <1>11, <1>12, <1>14, <1>15, <2>1, <2>2, <2>3
  <1>16. CASE n.Message_Block_Index # BLOCK
    <2>1. c.Message_Block_Index \in Nat /\ BLOCK \in Nat
      BY <1>1, PlaceTyped
    <2>2. n.Message_Block_Index < BLOCK
      BY <1>4, <1>6, <1>8, <1>16, <2>1
    <2>3. QED
      BY <1>9, <1>10, <1>14, <1>16, <2>2
  <1>17. QED
    BY <1>15, <1>16

\* A whole message, at whatever octet of a block it starts.
LEMMA InputAbsorbed ==
  ASSUME NEW c, NEW q, NEW k \in Nat, Absorbed(c, q, k),
         NEW m \in Seq(Int), \A j \in 1..Len(m) : m[j] = q[k + j],
         NEW r, r = SHA1Input(c, m)
  PROVE  Absorbed(r, q, k + Len(m))
  <1>1. c \in Context /\ ~c.Computed /\ Len(m) \in Nat
    BY DEF Absorbed
  <1>2. CASE m = <<>>
    <2>1. r = c /\ k + Len(m) = k
      BY <1>2 DEF SHA1Input
    <2>2. QED
      BY <2>1
  <1>3. CASE m # <<>> /\ c.Corrupted
    <2>1. r = [c EXCEPT !.Corrupted = TRUE]
      BY <1>3 DEF SHA1Input
    <2>2. r \in Context /\ ~r.Computed /\ r.Corrupted
      BY <1>1, <2>1 DEF Context
    <2>3. QED
      BY <2>2 DEF Absorbed
  <1>4. CASE m # <<>> /\ ~c.Corrupted
    <2> DEFINE N == Len(m)
               step == [n \in 1..N |-> [x \in Context |-> InputOctet(x, m[n])]]
               taken[n \in 0..N] ==
                 IF n = 0 THEN c ELSE InputOctet(taken[n - 1], m[n])
               S(f) == f = [n \in 0..N |->
                              IF n = 0 THEN c ELSE InputOctet(f[n - 1], m[n])]
    <2>1. r = taken[N]
      BY <1>1, <1>4 DEF SHA1Input
    <2>2. \A n \in 1..N : m[n] \in Int
      BY <1>1
    <2>3. IsStep(step, N, Context)
      <3>1. \A n \in 1..N : \A x \in Context : InputOctet(x, m[n]) \in Context
        BY <2>2, OctetTyped
      <3>2. QED
        BY <3>1 DEF IsStep
    <2> HIDE DEF N, step
    <2>4. PICK f : Recurs(f, N, Context, c, step)
      BY <1>1, <2>3, Recursion DEF N
    <2>5. /\ f \in [0..N -> Context] /\ f[0] = c
          /\ \A n \in 1..N : f[n] = InputOctet(f[n - 1], m[n])
      <3>1. /\ f \in [0..N -> Context] /\ f[0] = c
            /\ \A n \in 1..N : f[n] = step[n][f[n - 1]]
        BY <2>4 DEF Recurs
      <3>2. \A n \in 1..N : f[n - 1] \in Context
        <4>1. \A n \in 1..N : n - 1 \in 0..N
          BY <1>1 DEF N
        <4>2. QED
          BY <3>1, <4>1
      <3>3. QED
        BY <3>1, <3>2 DEF step
    <2>6. S(f)
      <3>1. f = [n \in 0..N |-> f[n]]
        BY <2>5
      <3>2. \A n \in 0..N : n = 0 \/ n \in 1..N
        BY <1>1 DEF N
      <3>3. \A n \in 0..N : f[n] = IF n = 0 THEN c ELSE InputOctet(f[n - 1], m[n])
        BY <2>5, <3>2
      <3>4. QED
        BY <3>1, <3>3
    <2>7. S(taken)
      <3>1. taken = CHOOSE g : S(g)
        OBVIOUS
      <3> HIDE DEF S, taken
      <3>2. QED
        BY <2>6, <3>1
    <2>8. taken[0] = c /\ \A n \in 1..N : taken[n] = InputOctet(taken[n - 1], m[n])
      <3>1. \A n \in 0..N :
              taken[n] = IF n = 0 THEN c ELSE InputOctet(taken[n - 1], m[n])
        <4> HIDE DEF taken
        <4>1. QED
          BY <2>7
      <3>2. 0 \in 0..N /\ \A n \in 1..N : n \in 0..N /\ n # 0
        BY <1>1 DEF N
      <3> HIDE DEF taken
      <3>3. QED
        BY <3>1, <3>2
    <2> HIDE DEF taken
    <2> DEFINE T == {n \in 0..N : Absorbed(taken[n], q, k + n)}
    <2>9. N \in Nat
      BY <1>1 DEF N
    <2>10. 0 \in T
      <3>1. k + 0 = k /\ 0 \in 0..N
        BY <2>9
      <3>2. QED
        BY <2>8, <3>1
    <2>11. ASSUME NEW n \in 0..(N - 1), n \in T
           PROVE  n + 1 \in T
      <3>1. /\ n + 1 \in 1..N /\ n + 1 \in 0..N /\ (n + 1) - 1 = n
            /\ k + n \in Nat /\ (k + n) + 1 = k + (n + 1)
        BY <2>9
      <3>2. taken[n + 1] = InputOctet(taken[n], m[n + 1])
        BY <2>8, <3>1
      <3>3. m[n + 1] \in Int /\ m[n + 1] = q[(k + n) + 1]
        BY <2>2, <3>1 DEF N
      <3>4. Absorbed(taken[n], q, k + n) /\ taken[n] \in Context
        BY <2>11 DEF Absorbed
      <3>5. Absorbed(taken[n + 1], q, (k + n) + 1)
        BY <3>1, <3>2, <3>3, <3>4, OctetAbsorbed
      <3>6. QED
        BY <3>1, <3>5
    <2>12. \A n \in 0..N : n \in T
      <3> HIDE DEF T
      <3>1. QED
        BY <2>9, <2>10, <2>11, Induction
    <2>13. N \in T
      BY <2>9, <2>12
    <2>14. QED
      BY <2>1, <2>13 DEF N
  <1>5. QED
    BY <1>2, <1>3, <1>4

\* An empty context has taken in nothing.
LEMMA ResetAbsorbed ==
  ASSUME NEW q
  PROVE  Absorbed(SHA1Reset, q, 0)
  <1>1. SHA1Reset \in Context
    <2>1. Uninitialized \in Int
      BY OctetAssumption DEF Uninitialized
    <2>2. [i \in 0..(BLOCK - 1) |-> Uninitialized] \in [0..(BLOCK - 1) -> Int]
      BY <2>1
    <2>3. <<>> \in Seq([0..(BLOCK - 1) -> Int]) /\ 0 \in Nat
          /\ FALSE \in BOOLEAN
      OBVIOUS
    <2>4. QED
      BY <2>2, <2>3 DEF SHA1Reset, Context
  <1>2. /\ SHA1Reset.Message_Digest = <<>> /\ SHA1Reset.Message_Block_Index = 0
        /\ SHA1Reset.Length_Low = 0 /\ SHA1Reset.Length_High = 0
        /\ SHA1Reset.Computed = FALSE
    BY DEF SHA1Reset
  <1>3. Fills(SHA1Reset, q, 0)
    BY <1>2 DEF Fills, BLOCK
  <1>4. Counts(SHA1Reset, 0)
    <2>1. PICK w \in Nat : w = WORD /\ w >= 1
      BY Words
    <2>2. 0 \in 0..(WORD - 1) /\ 0 * WORD + 0 = 8 * 0
      BY <2>1
    <2>3. 0 = 8 * 0
      OBVIOUS
    <2>4. BitsOf(0, 0, 0)
      BY <2>2, <2>3 DEF BitsOf
    <2>5. QED
      BY <1>2, <2>4 DEF Counts
  <1>5. 0 < BLOCK
    BY DEF BLOCK
  <1>6. QED
    BY <1>1, <1>2, <1>3, <1>4, <1>5 DEF Absorbed

-----------------------------------------------------------------------------
(* Padding.                                                                *)

\* How many zeroes are put behind a message of n octets.
ZeroCount(n) == (55 - n) % BLOCK

\* Octet j of the eight that say how many bits there are.
LengthOctet(n, j) == ((8 * n) \div Weight[8 - j]) % OCTET

\* q is the message m, padded.
IsPadded(q, m) ==
  /\ Len(q) = Len(m) + 1 + ZeroCount(Len(m)) + 8
  /\ \A i \in 1..Len(m) : q[i] = m[i]
  /\ q[Len(m) + 1] = 128
  /\ \A i \in 1..ZeroCount(Len(m)) : q[Len(m) + 1 + i] = 0
  /\ \A j \in 1..8 :
       q[Len(m) + 1 + ZeroCount(Len(m)) + j] = LengthOctet(Len(m), j)

\* The octets of the bit count are numbers.
LEMMA LengthTyped ==
  ASSUME NEW n \in Nat, NEW j \in 1..8
  PROVE  LengthOctet(n, j) \in Int
  <1>1. 8 - j \in 0..8 /\ 8 * n \in Nat
    OBVIOUS
  <1>2. PICK w \in Nat : w = Weight[8 - j] /\ w >= 1
    BY <1>1, Weights
  <1>3. PICK x \in Nat : x = (8 * n) \div w
    BY <1>1, <1>2, Division
  <1>4. x % OCTET \in 0..(OCTET - 1)
    BY OctetAssumption, Division
  <1>5. QED
    BY <1>2, <1>3, <1>4, OctetAssumption DEF LengthOctet

\* Padded does that.
LEMMA PaddedIs ==
  ASSUME NEW m \in Seq(Int)
  PROVE  IsPadded(Padded(m), m)
  <1> DEFINE n == Len(m)
             z == ZeroCount(n)
             l == [i \in 1..8 |-> LengthOctet(n, i)]
             a == m \o <<128>>
             b == a \o Zeroes(z)
  <1>1. n \in Nat /\ z \in Nat
    <2>1. n \in Nat
      OBVIOUS
    <2>2. (55 - n) % 64 \in Nat
      BY <2>1
    <2>3. QED
      BY <2>1, <2>2 DEF ZeroCount, BLOCK
  <1>2. Padded(m) = b \o l
    BY DEF Padded, ZeroCount, LengthOctet
  <1> HIDE DEF z
  <1>3. <<128>> \in Seq(Int) /\ Len(<<128>>) = 1 /\ <<128>>[1] = 128
    OBVIOUS
  <1>4. a \in Seq(Int) /\ IsConcat(m, <<128>>, a)
    BY <1>3, ConcatFacts
  <1>5. /\ Zeroes(z) \in Seq(Int) /\ Len(Zeroes(z)) = z
        /\ \A i \in 1..z : Zeroes(z)[i] = 0
    BY <1>1 DEF Zeroes
  <1> HIDE DEF a
  <1>6. b \in Seq(Int) /\ IsConcat(a, Zeroes(z), b)
    BY <1>4, <1>5, ConcatFacts
  <1>7. l \in Seq(Int) /\ Len(l) = 8 /\ \A j \in 1..8 : l[j] = LengthOctet(n, j)
    BY <1>1, LengthTyped
  <1> HIDE DEF b, l
  <1>8. PICK q : q = b \o l
    OBVIOUS
  <1>9. q \in Seq(Int) /\ IsConcat(b, l, q)
    BY <1>6, <1>7, <1>8, ConcatFacts
  <1>10. Len(a) = n + 1 /\ Len(b) = n + 1 + z /\ Len(q) = n + 1 + z + 8
    BY <1>1, <1>3, <1>4, <1>5, <1>6, <1>7, <1>9 DEF IsConcat
  <1>11. \A i \in 1..(n + 1 + z) : q[i] = b[i]
    BY <1>9, <1>10 DEF IsConcat
  <1>12. \A i \in 1..(n + 1) : q[i] = a[i]
    <2>1. \A i \in 1..(n + 1) : i \in 1..(n + 1 + z)
      BY <1>1
    <2>2. \A i \in 1..(n + 1) : b[i] = a[i]
      BY <1>6, <1>10 DEF IsConcat
    <2>3. QED
      BY <1>11, <2>1, <2>2
  <1>13. \A i \in 1..n : q[i] = m[i]
    <2>1. \A i \in 1..n : i \in 1..(n + 1)
      BY <1>1
    <2>2. \A i \in 1..n : a[i] = m[i]
      BY <1>4 DEF IsConcat
    <2>3. QED
      BY <1>12, <2>1, <2>2
  <1>14. q[n + 1] = 128
    <2>1. n + 1 \in 1..(n + 1) /\ 1 \in 1..Len(<<128>>)
      BY <1>1, <1>3
    <2>2. a[n + 1] = 128
      BY <1>3, <1>4, <2>1 DEF IsConcat
    <2>3. QED
      BY <1>12, <2>1, <2>2
  <1>15. \A i \in 1..z : q[n + 1 + i] = 0
    <2>1. \A i \in 1..z : b[n + 1 + i] = 0
      BY <1>5, <1>6, <1>10 DEF IsConcat
    <2>2. \A i \in 1..z : n + 1 + i \in 1..(n + 1 + z)
      BY <1>1
    <2>3. QED
      BY <1>11, <2>1, <2>2
  <1>16. \A j \in 1..8 : q[n + 1 + z + j] = LengthOctet(n, j)
    BY <1>7, <1>9, <1>10 DEF IsConcat
  <1>17. QED
    <2>1. q = Padded(m)
      BY <1>2, <1>8
    <2>2. IsPadded(q, m)
      BY <1>10, <1>13, <1>14, <1>15, <1>16, Zenon DEF IsPadded, z
    <2>3. QED
      BY <2>1, <2>2

\* How many zeroes that is, by where in a block the message ends.
LEMMA ZeroesNeeded ==
  ASSUME NEW f \in Nat, NEW i \in 0..(BLOCK - 1), NEW n, n = BLOCK * f + i
  PROVE  ZeroCount(n) = IF i > 55 THEN 119 - i ELSE 55 - i
  <1>1. i \in 0..63 /\ n = 64 * f + i
    BY DEF BLOCK
  <1>2. CASE i > 55
    <2>1. 55 - n = 64 * ((-f) - 1) + (119 - i)
      BY <1>1
    <2>2. (55 - n) % 64 = 119 - i
      BY <1>1, <1>2, <2>1
    <2>3. QED
      BY <1>2, <2>2 DEF ZeroCount, BLOCK
  <1>3. CASE ~(i > 55)
    <2>1. 55 - n = 64 * (-f) + (55 - i)
      BY <1>1
    <2>2. (55 - n) % 64 = 55 - i
      BY <1>1, <1>3, <2>1
    <2>3. QED
      BY <1>3, <2>2 DEF ZeroCount, BLOCK
  <1>4. QED
    BY <1>2, <1>3

\* The context when there are 56 octets in its last block.
Filled(c) ==
  LET marked == Put(c, 128)
  IN IF c.Message_Block_Index > 55
     THEN ZeroTo(SHA1ProcessMessageBlock(ZeroTo(marked, BLOCK)), 56)
     ELSE ZeroTo(marked, 56)

LEMMA FilledHolds ==
  ASSUME NEW c \in Context, NEW q, NEW m \in Seq(Int), IsPadded(q, m),
         Fills(c, q, Len(m)), c.Message_Block_Index < BLOCK,
         NEW r, r = Filled(c)
  PROVE  /\ r \in Context /\ SameCount(r, c) /\ r.Message_Block_Index = 56
         /\ Fills(r, q, Len(m) + 1 + ZeroCount(Len(m)))
  <1>1. PICK n : n = Len(m)
    OBVIOUS
  <1>2. PICK i : i = c.Message_Block_Index
    OBVIOUS
  <1>3. PICK f : f = Len(c.Message_Digest)
    OBVIOUS
  <1>4. PICK z : z = ZeroCount(n)
    OBVIOUS
  <1>5. /\ i \in Nat /\ f \in Nat /\ BLOCK \in Nat /\ i < BLOCK
        /\ n = BLOCK * f + i /\ n \in Nat /\ BLOCK = 64
    BY <1>1, <1>2, <1>3, PlaceTyped DEF Fills, BLOCK
  <1>6. z = IF i > 55 THEN 119 - i ELSE 55 - i
    <2>1. i \in 0..(BLOCK - 1)
      BY <1>5
    <2>2. QED
      BY <1>4, <1>5, <2>1, ZeroesNeeded
  <1>7. /\ q[n + 1] = 128 /\ \A k \in 1..z : q[n + 1 + k] = 0
    BY <1>1, <1>4 DEF IsPadded
  <1>8. PICK p : p = Put(c, 128)
    OBVIOUS
  <1>9. /\ p \in Context /\ SameCount(p, c) /\ p.Message_Block_Index = i + 1
    <2>1. 128 \in Int
      OBVIOUS
    <2>2. /\ p \in Context /\ SameCount(p, c)
          /\ p.Message_Block_Index = c.Message_Block_Index + 1
      BY <1>8, <2>1, PutPlace
    <2>3. QED
      BY <1>2, <2>2
  <1>10. Fills(p, q, n + 1)
    BY <1>1, <1>7, <1>8, PutFills
  <1>11. CASE i > 55
    <2>1. PICK a : a = ZeroTo(p, BLOCK)
      OBVIOUS
    <2>2. BLOCK \in 0..BLOCK /\ p.Message_Block_Index <= BLOCK
          /\ (n + 1) + (BLOCK - p.Message_Block_Index) = n + 64 - i
      BY <1>5, <1>9
    <2>3. a \in Context /\ SameCount(a, p) /\ a.Message_Block_Index = BLOCK
      BY <1>9, <2>1, <2>2, ZeroFacts
    <2>4. Fills(a, q, n + 64 - i)
      <3>1. \A k \in ((n + 1) + 1)..(n + 64 - i) : q[k] = 0
        <4>1. ASSUME NEW k \in ((n + 1) + 1)..(n + 64 - i)
              PROVE  k - (n + 1) \in 1..z /\ n + 1 + (k - (n + 1)) = k
          BY <1>5, <1>6, <1>11
        <4>2. QED
          BY <1>7, <4>1
      <3>2. QED
        BY <1>9, <1>10, <2>1, <2>2, <3>1, ZeroFills
    <2>5. PICK b : b = SHA1ProcessMessageBlock(a)
      OBVIOUS
    <2>6. b \in Context /\ SameCount(b, a) /\ b.Message_Block_Index = 0
      BY <2>3, <2>5, ProcessFacts
    <2>7. Fills(b, q, n + 64 - i)
      <3>1. /\ a.Message_Block_Index <= BLOCK
            /\ a.Message_Block_Index..(BLOCK - 1) = {}
            /\ (n + 64 - i) + (BLOCK - a.Message_Block_Index) = n + 64 - i
        BY <1>5, <2>3
      <3>2. Fills(b, q, (n + 64 - i) + (BLOCK - a.Message_Block_Index))
        BY <2>3, <2>4, <2>5, <3>1, BlockFills
      <3>3. QED
        BY <3>1, <3>2
    <2>8. r = ZeroTo(b, 56)
      BY <1>2, <1>8, <1>11, <2>1, <2>5 DEF Filled
    <2>9. 56 \in 0..BLOCK /\ b.Message_Block_Index <= 56
          /\ (n + 64 - i) + (56 - b.Message_Block_Index) = n + 1 + z
      BY <1>5, <1>6, <1>11, <2>6
    <2>10. r \in Context /\ SameCount(r, b) /\ r.Message_Block_Index = 56
      BY <2>6, <2>8, <2>9, ZeroFacts
    <2>11. Fills(r, q, n + 1 + z)
      <3>1. \A k \in ((n + 64 - i) + 1)..(n + 1 + z) : q[k] = 0
        <4>1. ASSUME NEW k \in ((n + 64 - i) + 1)..(n + 1 + z)
              PROVE  k - (n + 1) \in 1..z /\ n + 1 + (k - (n + 1)) = k
          BY <1>5, <1>6, <1>11
        <4>2. QED
          BY <1>7, <4>1
      <3>2. QED
        BY <2>6, <2>7, <2>8, <2>9, <3>1, ZeroFills
    <2>12. SameCount(r, c)
      BY <1>9, <2>3, <2>6, <2>10 DEF SameCount
    <2>13. QED
      BY <1>1, <1>4, <2>10, <2>11, <2>12
  <1>12. CASE ~(i > 55)
    <2>1. r = ZeroTo(p, 56)
      BY <1>2, <1>8, <1>12 DEF Filled
    <2>2. 56 \in 0..BLOCK /\ p.Message_Block_Index <= 56
          /\ (n + 1) + (56 - p.Message_Block_Index) = n + 1 + z
      BY <1>5, <1>6, <1>9, <1>12
    <2>3. r \in Context /\ SameCount(r, p) /\ r.Message_Block_Index = 56
      BY <1>9, <2>1, <2>2, ZeroFacts
    <2>4. Fills(r, q, n + 1 + z)
      <3>1. \A k \in ((n + 1) + 1)..(n + 1 + z) : q[k] = 0
        <4>1. ASSUME NEW k \in ((n + 1) + 1)..(n + 1 + z)
              PROVE  k - (n + 1) \in 1..z /\ n + 1 + (k - (n + 1)) = k
          BY <1>5, <1>6, <1>12
        <4>2. QED
          BY <1>7, <4>1
      <3>2. QED
        BY <1>9, <1>10, <2>1, <2>2, <3>1, ZeroFills
    <2>5. SameCount(r, c)
      BY <1>9, <2>3 DEF SameCount
    <2>6. QED
      BY <1>1, <1>4, <2>3, <2>4, <2>5
  <1>13. QED
    BY <1>11, <1>12

\* The last eight octets of the last block.
LEMMA LengthsWritten ==
  ASSUME NEW c, NEW n \in Nat, Counts(c, n), NEW i \in 56..63
  PROVE  OctetOf(IF i < 60 THEN c.Length_High ELSE c.Length_Low, (63 - i) % 4)
           = LengthOctet(n, i - 55)
  <1>1. PICK high, low : high = c.Length_High /\ low = c.Length_Low
    OBVIOUS
  <1>2. BitsOf(high, low, n)
    BY <1>1 DEF Counts
  <1>3. /\ high \in Nat /\ low \in 0..(WORD - 1) /\ high * WORD + low = 8 * n
    <2>1. PICK w \in Nat : w = WORD
      BY Words
    <2>2. high \in 0..(w - 1)
      BY <1>2, <2>1 DEF BitsOf
    <2>3. high \in Nat
      BY <2>2
    <2>4. QED
      BY <1>2, <2>3 DEF BitsOf
  <1>4. 8 - (i - 55) = 63 - i
    OBVIOUS
  <1>5. LengthOctet(n, i - 55) = ((high * WORD + low) \div Weight[63 - i]) % OCTET
    BY <1>3, <1>4 DEF LengthOctet
  <1>6. CASE i < 60
    <2>1. 63 - i \in 4..7 /\ (63 - i) % 4 = (63 - i) - 4
      BY <1>6
    <2>2. ((high * WORD + low) \div Weight[63 - i]) % OCTET
            = OctetOf(high, (63 - i) - 4)
      BY <1>3, <2>1, HighOctet
    <2>3. QED
      BY <1>1, <1>5, <1>6, <2>1, <2>2
  <1>7. CASE ~(i < 60)
    <2>1. 63 - i \in 0..3 /\ (63 - i) % 4 = 63 - i
      BY <1>7
    <2>2. ((high * WORD + low) \div Weight[63 - i]) % OCTET
            = OctetOf(low, 63 - i)
      BY <1>3, <2>1, LowOctet
    <2>3. QED
      BY <1>1, <1>5, <1>7, <2>1, <2>2
  <1>8. QED
    BY <1>6, <1>7

\* Padding a context that holds the message m makes its digest.
LEMMA PadRight ==
  ASSUME NEW m \in Seq(Int), NEW q, IsPadded(q, m), q = Padded(m),
         NEW c, Absorbed(c, q, Len(m)), ~c.Corrupted
  PROVE  SHA1Result(c).Message_Digest = Digest(m)
  <1>1. /\ c \in Context /\ ~c.Computed
        /\ Fills(c, q, Len(m)) /\ Counts(c, Len(m))
        /\ c.Message_Block_Index < BLOCK
    BY DEF Absorbed
  <1>2. PICK n \in Nat : n = Len(m)
    OBVIOUS
  <1>3. PICK z \in Nat : z = ZeroCount(n)
    <2>1. (55 - n) % 64 \in Nat
      OBVIOUS
    <2>2. QED
      BY <2>1 DEF ZeroCount, BLOCK
  <1>4. PICK d : d = Filled(c)
    OBVIOUS
  <1>5. d \in Context /\ SameCount(d, c) /\ d.Message_Block_Index = 56
        /\ Fills(d, q, n + 1 + z)
    BY <1>1, <1>2, <1>3, <1>4, FilledHolds
  <1>6. Counts(d, n)
    BY <1>1, <1>2, <1>5 DEF Counts, SameCount
  <1> DEFINE octet(i) == OctetOf(IF i < 60 THEN d.Length_High ELSE d.Length_Low,
                                 (63 - i) % 4)
             lengths == [i \in 56..63 |-> octet(i)]
             block == [i \in 0..(BLOCK - 1) |->
                         IF i < 56 THEN d.Message_Block[i] ELSE lengths[i]]
  <1>7. \A i \in 56..63 : lengths[i] = LengthOctet(n, i - 55)
    BY <1>6, LengthsWritten
  <1>8. d.Message_Block \in [0..(BLOCK - 1) -> Int]
    BY <1>5 DEF Context
  <1> HIDE DEF lengths
  <1>9. block \in [0..(BLOCK - 1) -> Int]
    <2>1. ASSUME NEW i \in 0..(BLOCK - 1), ~(i < 56)
          PROVE  lengths[i] \in Int
      <3>1. i \in 56..63 /\ i - 55 \in 1..8
        BY <2>1 DEF BLOCK
      <3>2. QED
        BY <1>7, <3>1, LengthTyped
    <2>2. QED
      BY <1>8, <2>1
  <1>10. PICK e : e = [d EXCEPT !.Message_Block = block]
    OBVIOUS
  <1>11. \A i \in 0..(BLOCK - 1) :
           block[i] = IF i < 56 THEN d.Message_Block[i] ELSE lengths[i]
    OBVIOUS
  <1>12. PICK p : p = SHA1ProcessMessageBlock(e)
    OBVIOUS
  <1>13. SHA1PadMessage(c) = p
    <2>1. SHA1PadMessage(c) = SHA1ProcessMessageBlock(
            [d EXCEPT !.Message_Block =
               [i \in DOMAIN d.Message_Block |->
                  IF i < 56 THEN d.Message_Block[i] ELSE lengths[i]]])
      BY <1>4, <1>5 DEF SHA1PadMessage, Filled, lengths, Context
    <2>2. DOMAIN d.Message_Block = 0..(BLOCK - 1)
      BY <1>8
    <2>3. QED
      BY <1>10, <1>12, <2>1, <2>2
  <1> HIDE DEF block
  <1>14. /\ e \in Context /\ e.Message_Block = block
         /\ e.Message_Block_Index = 56
         /\ e.Message_Digest = d.Message_Digest
    BY <1>5, <1>9, <1>10 DEF Context
  <1>15. PICK f \in Nat : f = Len(e.Message_Digest)
    BY <1>14, PlaceTyped
  <1>16. n + 1 + z = BLOCK * f + 56 /\ BLOCK * f \in Nat /\ BLOCK = 64
    BY <1>5, <1>14, <1>15, PlaceTyped DEF Fills, BLOCK
  <1>17. Fills(e, q, n + 1 + z)
    <2>1. \A b \in 1..f : e.Message_Digest[b] = BlockOf(q, b)
      BY <1>5, <1>14, <1>15 DEF Fills
    <2>2. ASSUME NEW i \in 0..(56 - 1)
          PROVE  e.Message_Block[i] = q[BLOCK * f + i + 1]
      <3>1. i \in 0..(BLOCK - 1) /\ i < 56
        BY <1>16
      <3>2. d.Message_Block[i] = q[BLOCK * f + i + 1]
        BY <1>5, <1>14, <1>15 DEF Fills
      <3>3. QED
        BY <1>11, <1>14, <3>1, <3>2
    <2>3. QED
      BY <1>14, <1>15, <1>16, <2>1, <2>2 DEF Fills
  <1>18. ASSUME NEW i \in 56..(BLOCK - 1)
         PROVE  e.Message_Block[i] = q[BLOCK * f + i + 1]
    <2>1. /\ i \in 0..(BLOCK - 1) /\ ~(i < 56) /\ i \in 56..63
          /\ i - 55 \in 1..8 /\ n + 1 + z + (i - 55) = BLOCK * f + i + 1
      BY <1>16
    <2>2. q[n + 1 + z + (i - 55)] = LengthOctet(n, i - 55)
      BY <1>2, <1>3, <2>1 DEF IsPadded
    <2>3. QED
      BY <1>7, <1>11, <1>14, <2>1, <2>2
  <1>19. Fills(p, q, (n + 1 + z) + (BLOCK - 56)) /\ p \in Context
         /\ p.Message_Block_Index = 0
    <2>1. Fills(p, q, (n + 1 + z) + (BLOCK - e.Message_Block_Index))
      <3>1. e.Message_Block_Index <= BLOCK
        BY <1>14, <1>16
      <3>2. \A i \in e.Message_Block_Index..(BLOCK - 1) :
              e.Message_Block[i] = q[BLOCK * Len(e.Message_Digest) + i + 1]
        BY <1>14, <1>15, <1>18
      <3>3. QED
        BY <1>12, <1>14, <1>17, <3>1, <3>2, BlockFills
    <2>2. p \in Context /\ p.Message_Block_Index = 0
      BY <1>12, <1>14, ProcessFacts
    <2>3. QED
      BY <1>14, <2>1, <2>2
  <1>20. PICK g \in Nat : g = Len(p.Message_Digest)
    BY <1>19, PlaceTyped
  <1>21. Len(q) = BLOCK * g /\ \A b \in 1..g : p.Message_Digest[b] = BlockOf(q, b)
    <2>1. Len(q) = n + 1 + z + 8
      BY <1>2, <1>3 DEF IsPadded
    <2>2. (n + 1 + z) + (BLOCK - 56) = n + 1 + z + 8
      BY <1>16
    <2>3. /\ (n + 1 + z) + (BLOCK - 56) = BLOCK * g + 0
          /\ \A b \in 1..g : p.Message_Digest[b] = BlockOf(q, b)
      BY <1>19, <1>20 DEF Fills
    <2>4. BLOCK * g + 0 = BLOCK * g
      BY <1>16
    <2>5. QED
      BY <2>1, <2>2, <2>3, <2>4
  <1>22. Len(q) \div BLOCK = g
    BY <1>16, <1>21
  <1>23. Digest(m) = [b \in 1..g |-> BlockOf(q, b)]
    BY <1>22 DEF Digest, BlockOf
  <1>24. p.Message_Digest = [b \in 1..g |-> p.Message_Digest[b]]
    <2>1. p.Message_Digest \in Seq([0..(BLOCK - 1) -> Int])
      BY <1>19 DEF Context
    <2>2. QED
      BY <1>20, <2>1
  <1>25. p.Message_Digest = Digest(m)
    BY <1>21, <1>23, <1>24
  <1>26. SHA1Result(c) = [p EXCEPT !.Computed = TRUE]
    BY <1>1, <1>13 DEF SHA1Result
  <1>27. QED
    BY <1>19, <1>25, <1>26 DEF Context

-----------------------------------------------------------------------------
(* The digest of a message that comes in two parts.                        *)

\* SHA1Input twice and SHA1Result, as sr_handle_auth_request calls them, give
\* the SHA-1 of the two parts behind one another, wherever the first part and
\* the message end in a block, unless the message is too long for the two
\* words of the bit count.
THEOREM TwoParts ==
  ASSUME NEW a \in Seq(0..(OCTET - 1)), NEW b \in Seq(0..(OCTET - 1)),
         NEW c, c = SHA1Result(SHA1Input(SHA1Input(SHA1Reset, a), b))
  PROVE  ~c.Corrupted => c.Message_Digest = Digest(a \o b)
  <1>1. a \in Seq(Int) /\ b \in Seq(Int)
    <2>1. PICK S : S = 0..(OCTET - 1)
      OBVIOUS
    <2>2. \A i \in S : i \in Int
      BY <2>1
    <2>3. ASSUME NEW s \in Seq(S)
          PROVE  s \in Seq(Int)
      <3>1. \A i \in 1..Len(s) : s[i] \in Int
        BY <2>2
      <3>2. s = [i \in 1..Len(s) |-> s[i]] /\ Len(s) \in Nat
        OBVIOUS
      <3>3. QED
        BY <3>1, <3>2
    <2>4. QED
      BY <2>1, <2>3
  <1>2. PICK m : m = a \o b
    OBVIOUS
  <1>3. m \in Seq(Int) /\ IsConcat(a, b, m)
    BY <1>1, <1>2, ConcatFacts
  <1>4. PICK q : q = Padded(m)
    OBVIOUS
  <1>5. IsPadded(q, m)
    BY <1>3, <1>4, PaddedIs
  <1>6. /\ Len(m) = Len(a) + Len(b) /\ Len(a) \in Nat /\ Len(b) \in Nat
        /\ \A i \in 1..Len(a) : m[i] = a[i]
        /\ \A i \in 1..Len(b) : m[Len(a) + i] = b[i]
    BY <1>1, <1>3 DEF IsConcat
  <1>7. \A i \in 1..Len(m) : q[i] = m[i]
    BY <1>5 DEF IsPadded
  <1>8. PICK x : x = SHA1Input(SHA1Reset, a)
    OBVIOUS
  <1>9. Absorbed(x, q, 0 + Len(a))
    <2>1. \A j \in 1..Len(a) : a[j] = q[0 + j]
      <3>1. \A j \in 1..Len(a) : j \in 1..Len(m) /\ 0 + j = j
        BY <1>6
      <3>2. QED
        BY <1>6, <1>7, <3>1
    <2>2. 0 \in Nat
      OBVIOUS
    <2>3. QED
      BY <1>1, <1>8, <2>1, <2>2, ResetAbsorbed, InputAbsorbed
  <1>10. PICK y : y = SHA1Input(x, b)
    OBVIOUS
  <1>11. Absorbed(y, q, Len(m))
    <2>1. 0 + Len(a) = Len(a)
      BY <1>6
    <2>2. \A j \in 1..Len(b) : b[j] = q[Len(a) + j]
      <3>1. \A j \in 1..Len(b) : Len(a) + j \in 1..Len(m)
        BY <1>6
      <3>2. QED
        BY <1>6, <1>7, <3>1
    <2>3. Absorbed(y, q, Len(a) + Len(b))
      BY <1>1, <1>6, <1>9, <1>10, <2>1, <2>2, InputAbsorbed
    <2>4. QED
      BY <1>6, <2>3
  <1>12. c = SHA1Result(y)
    BY <1>8, <1>10
  <1>13. CASE y.Corrupted
    <2>1. c = y
      BY <1>12, <1>13 DEF SHA1Result
    <2>2. QED
      BY <1>13, <2>1
  <1>14. CASE ~y.Corrupted
    <2>1. c.Message_Digest = Digest(m)
      BY <1>3, <1>4, <1>5, <1>11, <1>12, <1>14, PadRight
    <2>2. QED
      BY <1>2, <2>1
  <1>15. QED
    BY <1>13, <1>14
=============================================================================
