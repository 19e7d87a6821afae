----------------------------- MODULE ByteStream -----------------------------
(***************************************************************************)
(* What a cTCP connection is for: a reliable byte stream in each           *)
(* direction.  A host's stdin is accepted piece by piece; the peer's       *)
(* stdout receives, piece by piece and in order, bytes already accepted.   *)
(* A byte is its position in the stream, from 1.                           *)
(***************************************************************************)
EXTENDS Naturals, Sequences

CONSTANTS
  Host,      \* the two hosts
  Peer(_),   \* the other one
  Chunk      \* most bytes accepted or delivered at once

VARIABLES
  accepted,  \* accepted[h]: how many bytes were read from h's stdin
  delivered  \* delivered[h]: the bytes written to h's stdout

vars == <<accepted, delivered>>

Init ==
  /\ accepted = [h \in Host |-> 0]
  /\ delivered = [h \in Host |-> <<>>]

Accept(h) ==
  /\ \E n \in 1..Chunk : accepted' = [accepted EXCEPT ![h] = @ + n]
  /\ UNCHANGED delivered

Deliver(h) ==
  LET d == Len(delivered[h]) IN
  /\ \E n \in 1..Chunk :
       /\ d + n <= accepted[Peer(h)]
       /\ delivered' = [delivered EXCEPT ![h] = @ \o [i \in 1..n |-> d + i]]
  /\ UNCHANGED accepted

Next == \E h \in Host : Accept(h) \/ Deliver(h)

Spec == Init /\ [][Next]_vars
=============================================================================
