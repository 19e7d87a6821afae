------------------------------- MODULE MCCtcp -------------------------------
(* Instances of Ctcp for TLC.                                              *)
EXTENDS Ctcp

\* Big-endian words of at most two bytes, an odd byte padded with 0.
MCWordSum(d) ==
  CASE Len(d) = 0 -> 0
    [] Len(d) = 1 -> d[1] * 256
    [] OTHER      -> d[1] * 256 + d[2]

\* One host sends, the other only answers.
OneWay(n) == (Client :> n) @@ (Server :> 0)
OneWay1 == OneWay(1)
OneWay2 == OneWay(2)
OneWay3 == OneWay(3)
OneWay5 == OneWay(5)

\* The server has more to say than the client.
Reply2 == (Client :> 1) @@ (Server :> 2)

\* The server's user waits for the whole of the client's input.
AfterLast == (Client :> 0) @@ (Server :> InputLen[Client])

\* The same for both hosts.
BothWays(n) == [h \in Host |-> n]
Both0 == BothWays(0)
Both1 == BothWays(1)
Both2 == BothWays(2)

\* write() may take any part of what it is given, or fail.
AnyWrite == -1..MAX_SEG_DATA_SIZE
=============================================================================
