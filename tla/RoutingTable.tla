---------------------------- MODULE RoutingTable ----------------------------
(***************************************************************************)
(* The routing table (sr_rt.c), the interface list (sr_if.c), the check    *)
(* of one against the other (sr_verify_routing_table) and the search for a *)
(* route (longestprefixmatch), as operators on the two lists.              *)
(*                                                                         *)
(* An address is the sequence of its bits as they travel, the first octet  *)
(* first.  The code compares masks as they lie in memory: on the machines  *)
(* it runs on the first octet is the LEAST significant, so                 *)
(* 255.255.255.0 is the number 0x00FFFFFF.  The width of an octet and of   *)
(* an address are parameters.                                              *)
(***************************************************************************)
EXTENDS Integers, SequencesExt

CONSTANTS
  ADDR_OCTETS,   \* octets of an address (4)
  OCTET_BITS     \* bits of an octet (8)

ASSUME WidthAssumption ==
  ADDR_OCTETS \in Nat \ {0} /\ OCTET_BITS \in Nat \ {0}

ADDR_BITS == ADDR_OCTETS * OCTET_BITS

Address == [1..ADDR_BITS -> {0, 1}]

\* The mask of a prefix of n bits.
PrefixMask(n) == [i \in 1..ADDR_BITS |-> IF i <= n THEN 1 ELSE 0]

\* What the stack holds in a field that no line has filled yet, and a field
\* that inet_aton does not accept.
NotAnAddress == <<>>

\* The bit of an address that a little-endian machine has as the j-th of the
\* number s_addr, the most significant first: the last octet comes first.
BitOf(j) ==
  OCTET_BITS * (ADDR_OCTETS - 1 - ((j - 1) \div OCTET_BITS))
    + ((j - 1) % OCTET_BITS) + 1

\* An address as that number.
s_addr[a \in Address] ==
  LET number[j \in 0..ADDR_BITS] ==
        IF j = 0 THEN 0 ELSE 2 * number[j - 1] + a[BitOf(j)]
  IN number[ADDR_BITS]

And(a, b) == [i \in 1..ADDR_BITS |-> a[i] * b[i]]

-----------------------------------------------------------------------------
(* Loading the table.  A file is a sequence of lines, a line the sequence  *)
(* of its words: dest, gw, mask and interface, or fewer.                   *)

\* Field k after sscanf has read line i: word k of the latest line that has
\* so many, since a shorter line leaves in the field what was there.
sscanf(lines, i, k) ==
  LET full == {j \in 1..i : Len(lines[j]) >= k}
  IN IF full = {} THEN NotAnAddress ELSE lines[Max(full)][k]

\* The entry that sr_add_rt_entry appends for line i.
EntryOf(lines, i) ==
  [dest |-> sscanf(lines, i, 1), gw |-> sscanf(lines, i, 2),
   mask |-> sscanf(lines, i, 3), interface |-> sscanf(lines, i, 4)]

\* The table after the file was read, and what sr_load_rt returns.  Reading
\* ends at the first address that inet_aton refuses, and what was added till
\* then stays.  The old table goes when the first line is added: an empty
\* file keeps it.
sr_load_rt(table, lines) ==
  LET bad == {i \in DOMAIN lines :
                \E k \in 1..3 : sscanf(lines, i, k) \notin Address}
      n == IF bad = {} THEN Len(lines) ELSE Min(bad) - 1
  IN [ret |-> IF bad = {} THEN 0 ELSE -1,
      table |-> IF n = 0 THEN table
                ELSE [i \in 1..n |-> EntryOf(lines, i)]]

-----------------------------------------------------------------------------
(* The interface list.                                                     *)

\* malloc leaves an interface's addresses unset.
Unset == "unset"

sr_add_interface(if_list, name) ==
  Append(if_list, [name |-> name, addr |-> Unset, ip |-> Unset])

\* Mutant: the address is given to the first interface of the list.
SetFirstIp(if_list, ip) == [if_list EXCEPT ![1].ip = ip]

\* Both set the address of the LAST interface in the list.
sr_set_ether_addr(if_list, addr) == [if_list EXCEPT ![Len(if_list)].addr = addr]
sr_set_ether_ip(if_list, ip) == [if_list EXCEPT ![Len(if_list)].ip = ip]

NoInterface == [name |-> "", addr |-> Unset, ip |-> Unset]

\* The first interface of that name.
sr_get_interface(if_list, name) ==
  LET i == SelectInSeq(if_list, LAMBDA f : f.name = name)
  IN IF i = 0 THEN NoInterface ELSE if_list[i]

\* Mutant: the walk ends at the first route whose interface exists.
VerifyUntilFound(table, if_list) ==
  IF if_list = <<>> \/ table = <<>> THEN 999
  ELSE IF sr_get_interface(if_list, table[1].interface) # NoInterface THEN 0
       ELSE 1

\* How many routes name an interface that does not exist; 999 if a list is
\* empty.
sr_verify_routing_table(table, if_list) ==
  IF if_list = <<>> \/ table = <<>> THEN 999
  ELSE Cardinality({i \in DOMAIN table :
         sr_get_interface(if_list, table[i].interface) = NoInterface})

-----------------------------------------------------------------------------
(* The search for a route.                                                 *)

NoEntry == [dest |-> NotAnAddress]

\* Mutant: a route counts only if its mask is larger than zero.
MatchOne(best, entry, target_ip) ==
  LET longest == IF best = NoEntry THEN 0 ELSE s_addr[best.mask]
  IN IF /\ And(entry.mask, entry.dest) = And(entry.mask, target_ip)
        /\ s_addr[entry.mask] > longest
     THEN entry ELSE best

\* One turn of the loop: entry takes the place of the best one so far.
Better(best, entry, target_ip) ==
  IF /\ And(entry.mask, entry.dest) = And(entry.mask, target_ip)
     /\ \/ best = NoEntry
        \/ s_addr[entry.mask] > s_addr[best.mask]
  THEN entry ELSE best

longestprefixmatch(table, target_ip) ==
  LET best[n \in 0..Len(table)] ==
        IF n = 0 THEN NoEntry ELSE Better(best[n - 1], table[n], target_ip)
  IN best[Len(table)]

\* Every line is blank or has all four words, and the masks are those of
\* prefixes.
Routes(lines) ==
  \A i \in DOMAIN lines : lines[i] # <<>> =>
    /\ Len(lines[i]) = 4
    /\ lines[i][3] \in Address =>
         \E n \in 0..ADDR_BITS : lines[i][3] = PrefixMask(n)

\* The reference: among the lines whose prefix target_ip has, one with the
\* longest prefix, the first if there are several.
RouteOf(lines, target_ip) ==
  LET prefix(i) == CHOOSE n \in 0..ADDR_BITS : lines[i][3] = PrefixMask(n)
      matching == {i \in DOMAIN lines :
                     /\ lines[i] # <<>>
                     /\ SubSeq(lines[i][1], 1, prefix(i)) =
                          SubSeq(target_ip, 1, prefix(i))}
      best == CHOOSE i \in matching : \A j \in matching :
                prefix(j) < prefix(i) \/ (prefix(j) = prefix(i) /\ j >= i)
  IN IF matching = {} THEN NoEntry
     ELSE [dest |-> lines[best][1], gw |-> lines[best][2],
           mask |-> lines[best][3], interface |-> lines[best][4]]

=============================================================================
