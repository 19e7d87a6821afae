-------------------------------- MODULE Sha1 --------------------------------
(***************************************************************************)
(* The SHA-1 of sha1.c, which the router signs the VNS server's salt with. *)
(* The model keeps what the caller can get wrong: how the octets of        *)
(* several SHA1Input calls fall into blocks of 64, the bit count kept in   *)
(* two words, and the padding.  The compression function is abstracted to  *)
(* an injective one: the digest is the sequence of the blocks compressed   *)
(* so far, so two digests are equal exactly if the blocks are.             *)
(*                                                                         *)
(* The width of an octet is a parameter: 256 in the code, small for TLC so *)
(* that the low word of the bit count overflows within a short message.    *)
(***************************************************************************)
EXTENDS Integers, SequencesExt

CONSTANT OCTET     \* the number of values of an octet

\* What octet i of a number counts, 0 the least significant: OCTET^i.
Weight[i \in 0..8] == IF i = 0 THEN 1 ELSE OCTET * Weight[i - 1]

BLOCK == 64
WORD == Weight[4]    \* the number of values of a word

ASSUME OctetAssumption == OCTET \in Nat /\ OCTET > 1 /\ WORD % 8 = 0

\* What malloc or the stack leaves in Message_Block: no octet of a message.
Uninitialized == OCTET

SHA1Context ==
  [Length_Low : 0..(WORD - 1), Length_High : 0..(WORD - 1),
   Message_Block : [0..(BLOCK - 1) -> Int], Message_Block_Index : 0..BLOCK,
   Message_Digest : Seq([0..(BLOCK - 1) -> Int]),
   Computed : BOOLEAN, Corrupted : BOOLEAN]

SHA1Reset ==
  [Length_Low |-> 0, Length_High |-> 0,
   Message_Block |-> [i \in 0..(BLOCK - 1) |-> Uninitialized],
   Message_Block_Index |-> 0, Message_Digest |-> <<>>,
   Computed |-> FALSE, Corrupted |-> FALSE]

SHA1ProcessMessageBlock(context) ==
  [context EXCEPT !.Message_Digest = Append(@, context.Message_Block),
                  !.Message_Block_Index = 0]

\* Message_Block[Message_Block_Index++] = octet
Put(context, octet) ==
  [context EXCEPT !.Message_Block[context.Message_Block_Index] = octet,
                  !.Message_Block_Index = @ + 1]

\* while (Message_Block_Index < n) Message_Block[Message_Block_Index++] = 0
ZeroTo(context, n) ==
  [context EXCEPT
     !.Message_Block = [i \in DOMAIN @ |->
        IF context.Message_Block_Index <= i /\ i < n THEN 0 ELSE @[i]],
     !.Message_Block_Index = Max({n, @})]

\* Eight more bits.
CountOctet(context) ==
  LET low == (context.Length_Low + 8) % WORD
      high == IF low = 0 THEN (context.Length_High + 1) % WORD
              ELSE context.Length_High
  IN [context EXCEPT !.Length_Low = low, !.Length_High = high,
                     !.Corrupted = @ \/ (low = 0 /\ high = 0)]

InputOctet(context, octet) ==
  IF context.Corrupted THEN context
  ELSE LET c == CountOctet(Put(context, octet))
       IN IF c.Message_Block_Index = BLOCK THEN SHA1ProcessMessageBlock(c)
          ELSE c

SHA1Input(context, message) ==
  IF message = <<>> THEN context
  ELSE IF context.Computed \/ context.Corrupted
  THEN [context EXCEPT !.Corrupted = TRUE]
  ELSE LET taken[n \in 0..Len(message)] ==
             IF n = 0 THEN context ELSE InputOctet(taken[n - 1], message[n])
       IN taken[Len(message)]

\* Octet i of a word: (w >> 8 * i) & 0xFF.
OctetOf(w, i) == (w \div Weight[i]) % OCTET

\* Mutant: a block with 56 octets in it is taken to have room for the length.
PadOneShort(context) ==
  LET marked == Put(context, 128)
      c == IF context.Message_Block_Index > 56
           THEN ZeroTo(SHA1ProcessMessageBlock(ZeroTo(marked, BLOCK)), 56)
           ELSE ZeroTo(marked, 56)
      lengths == [i \in 56..63 |-> OctetOf(IF i < 60 THEN c.Length_High
                                           ELSE c.Length_Low, (63 - i) % 4)]
  IN SHA1ProcessMessageBlock(
       [c EXCEPT !.Message_Block =
          [i \in DOMAIN @ |-> IF i < 56 THEN @[i] ELSE lengths[i]]])

\* The octet 0x80, zeroes, and the bit count in the last eight octets of a
\* block: of this one, or of one more if this one is too full.
SHA1PadMessage(context) ==
  LET marked == Put(context, 128)
      c == IF context.Message_Block_Index > 55
           THEN ZeroTo(SHA1ProcessMessageBlock(ZeroTo(marked, BLOCK)), 56)
           ELSE ZeroTo(marked, 56)
      lengths == [i \in 56..63 |-> OctetOf(IF i < 60 THEN c.Length_High
                                           ELSE c.Length_Low, (63 - i) % 4)]
  IN SHA1ProcessMessageBlock(
       [c EXCEPT !.Message_Block =
          [i \in DOMAIN @ |-> IF i < 56 THEN @[i] ELSE lengths[i]]])

\* The context after SHA1Result; it returns 0 for a corrupted one.
SHA1Result(context) ==
  IF context.Corrupted \/ context.Computed THEN context
  ELSE [SHA1PadMessage(context) EXCEPT !.Computed = TRUE]

-----------------------------------------------------------------------------
(* The reference: FIPS 180, the digest of a whole message.                 *)

Zeroes(n) == [i \in 1..n |-> 0]

\* The message, a one bit, as few zeroes as bring it 64 bits short of whole
\* blocks, and its length in bits as a number of 64 bits.
Padded(message) ==
  message \o <<128>> \o Zeroes((55 - Len(message)) % BLOCK)
          \o [i \in 1..8 |-> ((8 * Len(message)) \div Weight[8 - i]) % OCTET]

Digest(message) ==
  LET padded == Padded(message)
  IN [b \in 1..(Len(padded) \div BLOCK) |->
        [i \in 0..(BLOCK - 1) |-> padded[BLOCK * (b - 1) + i + 1]]]

=============================================================================
