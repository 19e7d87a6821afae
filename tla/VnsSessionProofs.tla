-------------------------- MODULE VnsSessionProofs --------------------------
(***************************************************************************)
(* Proofs about VnsSession, for any server, any commands and any way in    *)
(* which TCP cuts the stream.                                              *)
(*                                                                         *)
(* The octets that were read and those that are on their way together are  *)
(* whole commands of the server, one after another (Framed).  Reading      *)
(* moves the border between the two; handling a command takes the first    *)
(* one away; the server adds one at the end.  That is Inv.                 *)
(*                                                                         *)
(* SessionInv goes on from there.  The commands come in their order        *)
(* (OrderInv), so that Consumed counts those that were handled; the server *)
(* has kept to the protocol (HistoryInv, ServerInv); and therefore the     *)
(* salt is the first command's (SaltInv), the routing table is that of the *)
(* file that was meant (TableInv), and the interfaces are those of the     *)
(* only description, which came before every packet (HardwareInv).         *)
(***************************************************************************)
EXTENDS VnsSession, RoutingTableProofs, Sha1Proofs

\* Behind the first o octets of q lies the n-th command of s.
FrameAt(q, s, o, n) ==
  /\ o + CommandLen(s[n]) <= Len(q)
  /\ \A j \in 1..CommandLen(s[n]) : q[o + j] = <<n, j>>

\* Every octet of q is in such a command.
Framed(q, s) ==
  \A i \in DOMAIN q : \E o \in 0..(i - 1), n \in DOMAIN s :
    FrameAt(q, s, o, n) /\ i <= o + CommandLen(s[n])

\* Octet k of the n-th command.
Octet == Nat \X Nat

\* What the server sends, a command of at least LEN_OCTETS + 1 octets.
SentInv ==
  /\ sent \in Seq(ToSet(sent))
  /\ \A n \in DOMAIN sent :
       /\ "mType" \in DOMAIN sent[n]
       /\ sent[n].mType = "VNS_RTABLE" => sent[n].body.rtable \in ServerTables

\* The server starts with something else than a table.
StartInv ==
  /\ sent # <<>> => sent[1].mType # "VNS_RTABLE"
  /\ request.mType # "none" => sent # <<>>
  /\ pc = "open" => sent # <<>>

\* The command being read.  Its length is known as soon as LEN_OCTETS octets
\* are there, and no more is read than its length.
ReadInv ==
  /\ rd \in [got : Seq(Octet), len : Nat]
  /\ net \in Seq(Octet)
  /\ rd.len = 0 => Len(rd.got) < LEN_OCTETS
  /\ rd.len # 0 => /\ LEN_OCTETS <= Len(rd.got) /\ Len(rd.got) <= rd.len
                   /\ rd.len = CommandLen(sent[rd.got[1][1]])
  /\ rd.len > MAX_COMMAND => pc = "exit"

\* Files are sequences of lines.
FilesInv == \A name \in DOMAIN files : files[name] \in Seq(ToSet(files[name]))

\* The inductive invariant: the octets read and those on their way are the
\* server's commands, one after another.
Inv ==
  /\ StateTypes /\ SentInv /\ StartInv /\ ReadInv /\ FilesInv
  /\ Framed(rd.got \o net, sent)

-----------------------------------------------------------------------------
(* The stream as commands.                                                 *)

\* Appending to a sequence over its own elements.
LEMMA AppendOwn ==
  ASSUME NEW q, q \in Seq(ToSet(q)), NEW c
  PROVE  /\ Append(q, c) \in Seq(ToSet(Append(q, c)))
         /\ Len(Append(q, c)) = Len(q) + 1
         /\ DOMAIN Append(q, c) = 1..(Len(q) + 1)
         /\ DOMAIN q = 1..Len(q) /\ Len(q) \in Nat
         /\ \A n \in DOMAIN q : Append(q, c)[n] = q[n]
         /\ Append(q, c)[Len(q) + 1] = c
  <1> DEFINE S == ToSet(q) \cup {c}
  <1>1. q \in Seq(S) /\ c \in S
    <2>1. \A i \in 1..Len(q) : q[i] \in S
      OBVIOUS
    <2> HIDE DEF S
    <2>2. QED
      BY <2>1, c \in S DEF S
  <1> HIDE DEF S
  <1>2. Append(q, c) \in Seq(S)
    BY <1>1
  <1>3. Append(q, c) \in Seq(ToSet(Append(q, c)))
    BY <1>2, OwnElements
  <1>4. QED
    BY <1>1, <1>3

\* A command is longer than its length.
LEMMA CommandLenType ==
  ASSUME NEW c, c.mType = "VNS_RTABLE" => c.body.rtable \in ServerTables
  PROVE  CommandLen(c) \in Nat /\ LEN_OCTETS + 1 <= CommandLen(c)
  <1>1. CASE c.mType = "VNS_RTABLE"
    <2>1. PICK t \in ServerTables : t = c.body.rtable
      BY <1>1
    <2>2. Len(t) \in Nat
      BY TableAssumption
    <2>3. CommandLen(c) = LEN_OCTETS + 1 + Len(t)
      BY <1>1, <2>1 DEF CommandLen
    <2>4. QED
      BY <2>2, <2>3, CommandAssumption
  <1>2. CASE c.mType # "VNS_RTABLE"
    BY <1>2, CommandAssumption DEF CommandLen
  <1>3. QED
    BY <1>1, <1>2

\* The stream begins with a whole command.
LEMMA FirstCommand ==
  ASSUME NEW q \in Seq(Octet), NEW s, Framed(q, s), q # <<>>,
         \A n \in DOMAIN s : CommandLen(s[n]) \in Nat
  PROVE  q[1][1] \in DOMAIN s /\ FrameAt(q, s, 0, q[1][1])
  <1>1. 1 \in DOMAIN q
    OBVIOUS
  <1>2. PICK o \in 0..(1 - 1), n \in DOMAIN s :
          FrameAt(q, s, o, n) /\ 1 <= o + CommandLen(s[n])
    BY <1>1 DEF Framed
  <1>3. o = 0 /\ 1 \in 1..CommandLen(s[n])
    BY <1>2
  <1>4. q[1] = <<n, 1>>
    BY <1>2, <1>3 DEF FrameAt
  <1>5. QED
    BY <1>2, <1>3, <1>4

\* Without that command it is still a stream of commands.
LEMMA RestFramed ==
  ASSUME NEW a \in Seq(Octet), NEW b \in Seq(Octet), NEW s,
         Framed(a \o b, s), a # <<>>,
         \A n \in DOMAIN s : CommandLen(s[n]) \in Nat,
         Len(a) = CommandLen(s[a[1][1]])
  PROVE  Framed(b, s)
  <1> DEFINE q == a \o b
             m == a[1][1]
  <1>1. /\ q \in Seq(Octet) /\ q # <<>>
        /\ Len(q) = Len(a) + Len(b) /\ q[1] = a[1]
        /\ Len(a) \in Nat /\ Len(b) \in Nat
    OBVIOUS
  <1>2. ASSUME NEW i \in 1..Len(b)
        PROVE  q[Len(a) + i] = b[i]
    <2>1. /\ Len(a) + i \in 1..(Len(a) + Len(b)) /\ ~(Len(a) + i <= Len(a))
          /\ (Len(a) + i) - Len(a) = i
      BY <1>1
    <2>2. QED
      BY <1>1, <2>1
  <1>3. Framed(q, s)
    OBVIOUS
  <1>m. Len(a) = CommandLen(s[m]) /\ q[1][1] = m
    BY <1>1
  <1> HIDE DEF q, m
  <1>4. m \in DOMAIN s /\ FrameAt(q, s, 0, m)
    BY <1>1, <1>m, <1>3, FirstCommand
  <1>5. ASSUME NEW j \in 1..Len(a)
        PROVE  q[j] = <<m, j>>
    <2>1. q[0 + j] = <<m, j>>
      BY <1>m, <1>4 DEF FrameAt
    <2>2. QED
      BY <1>1, <2>1
  <1>6. SUFFICES ASSUME NEW i \in DOMAIN b
                 PROVE  \E o \in 0..(i - 1), n \in DOMAIN s :
                          FrameAt(b, s, o, n) /\ i <= o + CommandLen(s[n])
    BY DEF Framed
  <1>l. i \in 1..Len(b) /\ Len(a) \in Nat /\ Len(b) \in Nat
    BY <1>1
  <1>7. Len(a) + i \in DOMAIN q
    <2>1. DOMAIN q = 1..(Len(a) + Len(b))
      BY <1>1
    <2>2. QED
      BY <1>l, <2>1
  <1>8. PICK o \in 0..(Len(a) + i - 1), n \in DOMAIN s :
          FrameAt(q, s, o, n) /\ Len(a) + i <= o + CommandLen(s[n])
    BY <1>3, <1>7 DEF Framed
  <1>9. Len(a) <= o
    <2>1. SUFFICES ASSUME o < Len(a)
                   PROVE  FALSE
      BY <1>1
    <2>2. 1 \in 1..CommandLen(s[n]) /\ o + 1 \in 1..Len(a)
      BY <1>1, <1>8, <2>1
    <2>3. q[o + 1] = <<n, 1>> /\ q[o + 1] = <<m, o + 1>>
      BY <1>5, <1>8, <2>2 DEF FrameAt
    <2>4. n = m /\ o = 0
      BY <2>3
    <2>5. QED
      BY <1>l, <1>m, <1>8, <2>4
  <1>10. FrameAt(b, s, o - Len(a), n)
    <2>1. o - Len(a) + CommandLen(s[n]) <= Len(b)
      BY <1>1, <1>8, <1>9 DEF FrameAt
    <2>2. ASSUME NEW j \in 1..CommandLen(s[n])
          PROVE  b[o - Len(a) + j] = <<n, j>>
      <3>1. o - Len(a) + j \in 1..Len(b)
        <4>1. j \in 1..CommandLen(s[n]) /\ CommandLen(s[n]) \in Nat
          OBVIOUS
        <4>2. QED
          BY <1>l, <1>9, <2>1, <4>1, SMTT(30)
      <3>2. q[Len(a) + (o - Len(a) + j)] = b[o - Len(a) + j]
        BY <1>2, <3>1
      <3>3. Len(a) + (o - Len(a) + j) = o + j
        BY <1>1, SMTT(30)
      <3>4. QED
        BY <1>8, <3>2, <3>3 DEF FrameAt
    <2>3. QED
      BY <2>1, <2>2 DEF FrameAt
  <1>11. o - Len(a) \in 0..(i - 1)
    BY <1>1, <1>8, <1>9, SMTT(30)
  <1>12. i <= (o - Len(a)) + CommandLen(s[n])
    BY <1>1, <1>8, SMTT(30)
  <1>13. QED
    BY <1>10, <1>11, <1>12

\* The octets of c, the n-th command.
OctetsOf(n, c) == [k \in 1..CommandLen(c) |-> <<n, k>>]

\* A stream stays one when the commands behind it change, if their lengths
\* do not, and when one more follows.
LEMMA MoreFramed ==
  ASSUME NEW q \in Seq(Octet), NEW s, NEW t, NEW n, NEW f,
         Framed(q, s),
         \A m \in DOMAIN s : /\ CommandLen(s[m]) \in Nat /\ m \in DOMAIN t
                             /\ CommandLen(t[m]) = CommandLen(s[m]),
         n \in DOMAIN t \cap Nat, CommandLen(t[n]) \in Nat,
         f = OctetsOf(n, t[n])
  PROVE  f \in Seq(Octet) /\ Framed(q \o f, t)
  <1> DEFINE L == CommandLen(t[n])
             r == q \o f
  <1>1. f \in Seq(Octet) /\ Len(f) = L
    <2>1. \A k \in 1..L : <<n, k>> \in Octet
      BY DEF Octet
    <2>2. QED
      BY <2>1 DEF OctetsOf
  <1>2. /\ r \in Seq(Octet) /\ Len(r) = Len(q) + L
        /\ Len(q) \in Nat /\ L \in Nat
        /\ \A i \in 1..Len(q) : r[i] = q[i]
    <2> HIDE DEF L
    <2>1. L \in Nat
      BY DEF L
    <2>2. QED
      BY <1>1, <2>1
  <1>3. \A i \in 1..L : r[Len(q) + i] = <<n, i>>
    <2>0. \A i \in 1..L : f[i] = <<n, i>>
      BY DEF OctetsOf
    <2>1. ASSUME NEW i \in 1..L
          PROVE  r[Len(q) + i] = f[i]
      <3> HIDE DEF L
      <3>1. L \in Nat
        BY DEF L
      <3>2. QED
        BY <1>1, <3>1
    <2>2. QED
      BY <2>0, <2>1
  <1> HIDE DEF L, r
  <1>4. ASSUME NEW i \in DOMAIN r
        PROVE  \E o \in 0..(i - 1), m \in DOMAIN t :
                 FrameAt(r, t, o, m) /\ i <= o + CommandLen(t[m])
    <2>1. CASE i <= Len(q)
      <3>1. PICK o \in 0..(i - 1), m \in DOMAIN s :
              FrameAt(q, s, o, m) /\ i <= o + CommandLen(s[m])
        BY <1>2, <2>1 DEF Framed
      <3>2. FrameAt(r, t, o, m)
        <4>1. /\ CommandLen(t[m]) = CommandLen(s[m])
              /\ CommandLen(s[m]) \in Nat /\ m \in DOMAIN t
          OBVIOUS
        <4>2. o + CommandLen(s[m]) <= Len(q)
          BY <3>1 DEF FrameAt
        <4>3. ASSUME NEW j \in 1..CommandLen(s[m])
              PROVE  r[o + j] = <<m, j>>
          <5>1. o + j \in 1..Len(q)
            BY <1>2, <4>1, <4>2
          <5>2. QED
            BY <1>2, <3>1, <5>1 DEF FrameAt
        <4>4. QED
          BY <1>2, <4>1, <4>2, <4>3 DEF FrameAt
      <3>3. QED
        BY <3>1, <3>2
    <2>2. CASE ~(i <= Len(q))
      <3>1. FrameAt(r, t, Len(q), n)
        BY <1>2, <1>3 DEF FrameAt, L
      <3>2. Len(q) \in 0..(i - 1) /\ i <= Len(q) + CommandLen(t[n])
        BY <1>2, <2>2 DEF L
      <3>3. QED
        BY <3>1, <3>2
    <2>3. QED
      BY <2>1, <2>2
  <1>5. QED
    BY <1>1, <1>4 DEF Framed, r

-----------------------------------------------------------------------------
(* The routing table.                                                      *)

\* sr_load_rt_wrap keeps that, whether the file is there or not.
LEMMA WrapLoads ==
  ASSUME Inv, NEW name, NEW next, sr_load_rt_wrap(name, next)
  PROVE  Loaded(rt') /\ pc' \in {next, "exit"}
  <1>1. Loaded(rt)
    BY DEF Inv, StateTypes, Loaded
  <1>2. CASE name \in DOMAIN files
    <2>1. files[name] \in Seq(ToSet(files[name]))
      BY <1>2 DEF Inv, FilesInv
    <2>2. rt' = sr_load_rt(rt, files[name]).table
      BY <1>2 DEF sr_load_rt_wrap
    <2>3. Loaded(rt')
      BY <1>1, <2>1, <2>2, LoadsAddresses
    <2>4. QED
      BY <2>3 DEF sr_load_rt_wrap
  <1>3. CASE name \notin DOMAIN files
    BY <1>1, <1>3 DEF sr_load_rt_wrap
  <1>4. QED
    BY <1>2, <1>3

-----------------------------------------------------------------------------
(* The interface list.                                                     *)

\* An interface with values of V.
Iface(V) == [name : V, addr : V, ip : V]

\* What one entry of VNSHWINFO does to the list.
LEMMA EntryDoes ==
  ASSUME NEW V, NEW ifs \in Seq(Iface(V)), NEW entry, entry.value \in V,
         Unset \in V, NEW r, r = HwEntry(ifs, entry)
  PROVE  /\ r \in Seq(Iface(V))
         /\ entry.mKey = "HWINTERFACE" =>
              /\ Len(r) = Len(ifs) + 1
              /\ \A m \in 1..Len(ifs) : r[m] = ifs[m]
              /\ r[Len(r)] = [name |-> entry.value, addr |-> Unset, ip |-> Unset]
         /\ entry.mKey # "HWINTERFACE" =>
              /\ Len(r) = Len(ifs)
              /\ \A m \in 1..Len(ifs) :
                   /\ r[m].name = ifs[m].name
                   /\ r[m].addr = IF entry.mKey = "HWETHER" /\ m = Len(ifs)
                                  THEN entry.value ELSE ifs[m].addr
                   /\ r[m].ip = IF entry.mKey = "HWETHIP" /\ m = Len(ifs)
                                THEN entry.value ELSE ifs[m].ip
  <1>1. CASE entry.mKey = "HWINTERFACE"
    <2> DEFINE f == [name |-> entry.value, addr |-> Unset, ip |-> Unset]
    <2>1. r = Append(ifs, f)
      BY <1>1 DEF HwEntry, sr_add_interface
    <2>2. f \in Iface(V)
      BY DEF Iface
    <2> HIDE DEF f
    <2>3. /\ r \in Seq(Iface(V)) /\ Len(r) = Len(ifs) + 1
          /\ \A m \in 1..Len(ifs) : r[m] = ifs[m]
          /\ r[Len(r)] = f
      BY <2>1, <2>2
    <2>4. QED
      BY <1>1, <2>3 DEF f
  <1>2. CASE entry.mKey = "HWETHIP"
    <2> DEFINE g == [ifs[Len(ifs)] EXCEPT !.ip = entry.value]
    <2>1. r = [ifs EXCEPT ![Len(ifs)] = g]
      BY <1>2 DEF HwEntry, sr_set_ether_ip
    <2>2. Len(ifs) \in 1..Len(ifs) =>
            /\ g \in Iface(V)
            /\ g.name = ifs[Len(ifs)].name /\ g.ip = entry.value
            /\ g.addr = ifs[Len(ifs)].addr
      <3>1. SUFFICES ASSUME NEW f \in Iface(V)
                     PROVE  LET h == [f EXCEPT !.ip = entry.value]
                            IN /\ h \in Iface(V) /\ h.name = f.name
                               /\ h.ip = entry.value /\ h.addr = f.addr
        OBVIOUS
      <3>2. QED
        BY DEF Iface
    <2> HIDE DEF g
    <2>3. /\ r \in Seq(Iface(V)) /\ Len(r) = Len(ifs)
          /\ \A m \in 1..Len(ifs) : r[m] = IF m = Len(ifs) THEN g ELSE ifs[m]
      BY <2>1, <2>2, ReplaceFacts
    <2>4. QED
      BY <1>2, <2>2, <2>3
  <1>3. CASE entry.mKey = "HWETHER"
    <2> DEFINE g == [ifs[Len(ifs)] EXCEPT !.addr = entry.value]
    <2>1. r = [ifs EXCEPT ![Len(ifs)] = g]
      BY <1>3 DEF HwEntry, sr_set_ether_addr
    <2>2. Len(ifs) \in 1..Len(ifs) =>
            /\ g \in Iface(V)
            /\ g.name = ifs[Len(ifs)].name /\ g.addr = entry.value
            /\ g.ip = ifs[Len(ifs)].ip
      <3>1. SUFFICES ASSUME NEW f \in Iface(V)
                     PROVE  LET h == [f EXCEPT !.addr = entry.value]
                            IN /\ h \in Iface(V) /\ h.name = f.name
                               /\ h.addr = entry.value /\ h.ip = f.ip
        OBVIOUS
      <3>2. QED
        BY DEF Iface
    <2> HIDE DEF g
    <2>3. /\ r \in Seq(Iface(V)) /\ Len(r) = Len(ifs)
          /\ \A m \in 1..Len(ifs) : r[m] = IF m = Len(ifs) THEN g ELSE ifs[m]
      BY <2>1, <2>2, ReplaceFacts
    <2>4. QED
      BY <1>3, <2>2, <2>3
  <1>4. CASE entry.mKey \notin {"HWINTERFACE", "HWETHIP", "HWETHER"}
    <2>1. r = ifs
      BY <1>4 DEF HwEntry
    <2>2. QED
      BY <1>4, <2>1
  <1>5. QED
    BY <1>1, <1>2, <1>3, <1>4

\* Of the first n entries those behind that of an interface.
Behind(hw, i, n) ==
  {j \in (i + 1)..n : \A m \in (i + 1)..j : hw[m].mKey # "HWINTERFACE"}

\* A field with the value that an entry of that key behind i gives it, or
\* without one.
Given(hw, i, n, mKey, value) ==
  \/ value = Unset /\ \A j \in Behind(hw, i, n) : hw[j].mKey # mKey
  \/ \E j \in Behind(hw, i, n) : hw[j].mKey = mKey /\ hw[j].value = value

\* The interfaces of list are those that the first n entries name, in their
\* order: interface m is that of entry at[m].
Listed(hw, n, list, at) ==
  /\ at \in Seq(1..Len(hw)) /\ Len(at) = Len(list)
  /\ \A m \in 1..Len(list) :
       /\ at[m] <= n /\ hw[at[m]].mKey = "HWINTERFACE"
       /\ list[m].name = hw[at[m]].value
       /\ Given(hw, at[m], n, "HWETHER", list[m].addr)
       /\ Given(hw, at[m], n, "HWETHIP", list[m].ip)
  /\ \A l, m \in 1..Len(list) : l < m => at[l] < at[m]
  /\ \A i \in 1..n : hw[i].mKey = "HWINTERFACE" =>
       \E m \in 1..Len(list) : at[m] = i

\* The entry behind the first n either is behind i or ends what is.
LEMMA GivenNext ==
  ASSUME NEW hw, NEW n \in Nat, NEW i \in 1..n, NEW mKey, NEW v,
         Given(hw, i, n, mKey, v), mKey # "HWINTERFACE"
  PROVE  /\ \/ hw[n + 1].mKey # mKey
            \/ \E m \in (i + 1)..n : hw[m].mKey = "HWINTERFACE"
            => Given(hw, i, n + 1, mKey, v)
         /\ (\A m \in (i + 1)..n : hw[m].mKey # "HWINTERFACE")
            /\ hw[n + 1].mKey = mKey
            => Given(hw, i, n + 1, mKey, hw[n + 1].value)
  <1>1. Behind(hw, i, n) \subseteq Behind(hw, i, n + 1)
    BY DEF Behind
  <1>2. \A j \in Behind(hw, i, n + 1) : j = n + 1 \/ j \in Behind(hw, i, n)
    BY DEF Behind
  <1>3. ASSUME NEW m \in (i + 1)..n, hw[m].mKey = "HWINTERFACE"
        PROVE  n + 1 \notin Behind(hw, i, n + 1)
    BY <1>3 DEF Behind
  <1>4. ASSUME \A m \in (i + 1)..n : hw[m].mKey # "HWINTERFACE",
               hw[n + 1].mKey = mKey
        PROVE  n + 1 \in Behind(hw, i, n + 1)
    BY <1>4 DEF Behind
  <1>5. QED
    BY <1>1, <1>2, <1>3, <1>4 DEF Given

\* One entry more.
LEMMA OneEntry ==
  ASSUME NEW V, Unset \in V, NEW hw, hw \in Seq(ToSet(hw)),
         NEW n \in 0..(Len(hw) - 1), hw[n + 1].value \in V,
         NEW list \in Seq(Iface(V)), NEW at, Listed(hw, n, list, at),
         NEW r, r = HwEntry(list, hw[n + 1])
  PROVE  r \in Seq(Iface(V)) /\ \E a : Listed(hw, n + 1, r, a)
  <1>1. n \in Nat /\ n + 1 \in 1..Len(hw) /\ Len(hw) \in Nat /\ Len(list) \in Nat
    OBVIOUS
  <1>2. /\ at \in Seq(1..Len(hw)) /\ Len(at) = Len(list)
        /\ \A m \in 1..Len(list) : at[m] \in 1..Len(hw) /\ at[m] \in 1..n
    BY <1>1 DEF Listed
  <1>3. /\ r \in Seq(Iface(V))
        /\ hw[n + 1].mKey = "HWINTERFACE" =>
             /\ Len(r) = Len(list) + 1
             /\ \A m \in 1..Len(list) : r[m] = list[m]
             /\ r[Len(r)] = [name |-> hw[n + 1].value,
                             addr |-> Unset, ip |-> Unset]
        /\ hw[n + 1].mKey # "HWINTERFACE" =>
             /\ Len(r) = Len(list)
             /\ \A m \in 1..Len(list) :
                  /\ r[m].name = list[m].name
                  /\ r[m].addr = IF hw[n + 1].mKey = "HWETHER" /\ m = Len(list)
                                 THEN hw[n + 1].value ELSE list[m].addr
                  /\ r[m].ip = IF hw[n + 1].mKey = "HWETHIP" /\ m = Len(list)
                               THEN hw[n + 1].value ELSE list[m].ip
    BY EntryDoes
  <1>4. CASE hw[n + 1].mKey = "HWINTERFACE"
    <2> DEFINE a == Append(at, n + 1)
    <2>1. /\ a \in Seq(1..Len(hw)) /\ Len(a) = Len(r)
          /\ \A m \in 1..Len(list) : a[m] = at[m]
          /\ a[Len(list) + 1] = n + 1
      BY <1>1, <1>2, <1>3, <1>4
    <2> HIDE DEF a
    <2>2. \A m \in 1..Len(r) : m = Len(r) \/ m \in 1..Len(list)
      BY <1>1, <1>3, <1>4
    <2>3. Len(r) = Len(list) + 1 /\ a[Len(r)] = n + 1
      BY <1>3, <1>4, <2>1
    <2>4. ASSUME NEW m \in 1..Len(r)
          PROVE  /\ a[m] <= n + 1 /\ hw[a[m]].mKey = "HWINTERFACE"
                 /\ r[m].name = hw[a[m]].value
                 /\ Given(hw, a[m], n + 1, "HWETHER", r[m].addr)
                 /\ Given(hw, a[m], n + 1, "HWETHIP", r[m].ip)
      <3>1. CASE m = Len(r)
        <4>1. Behind(hw, n + 1, n + 1) = {}
          BY <1>1 DEF Behind
        <4>2. r[m].addr = Unset /\ r[m].ip = Unset
              /\ r[m].name = hw[n + 1].value
          BY <1>3, <1>4, <3>1
        <4>3. QED
          BY <1>1, <1>4, <2>3, <3>1, <4>1, <4>2 DEF Given
      <3>2. CASE m \in 1..Len(list)
        <4>1. /\ a[m] = at[m] /\ r[m] = list[m] /\ at[m] \in 1..n
          BY <1>2, <1>3, <1>4, <2>1, <3>2
        <4>2. /\ at[m] <= n /\ hw[at[m]].mKey = "HWINTERFACE"
              /\ list[m].name = hw[at[m]].value
              /\ Given(hw, at[m], n, "HWETHER", list[m].addr)
              /\ Given(hw, at[m], n, "HWETHIP", list[m].ip)
          BY <3>2 DEF Listed
        <4>3. /\ Given(hw, at[m], n + 1, "HWETHER", list[m].addr)
              /\ Given(hw, at[m], n + 1, "HWETHIP", list[m].ip)
          BY <1>1, <1>4, <4>1, <4>2, GivenNext
        <4>4. at[m] <= n + 1
          BY <1>1, <4>1
        <4>5. QED
          BY <4>1, <4>2, <4>3, <4>4
      <3>3. QED
        BY <2>2, <3>1, <3>2
    <2>5. ASSUME NEW l \in 1..Len(r), NEW m \in 1..Len(r), l < m
          PROVE  a[l] < a[m]
      <3>1. l \in 1..Len(list)
        BY <1>1, <2>2, <2>3, <2>5
      <3>2. CASE m = Len(r)
        <4>1. a[l] = at[l] /\ at[l] \in 1..n /\ a[m] = n + 1
          BY <1>2, <2>1, <2>3, <3>1, <3>2
        <4>2. QED
          BY <1>1, <4>1
      <3>3. CASE m \in 1..Len(list)
        BY <2>1, <2>5, <3>1, <3>3 DEF Listed
      <3>4. QED
        BY <2>2, <3>2, <3>3
    <2>6. ASSUME NEW i \in 1..(n + 1), hw[i].mKey = "HWINTERFACE"
          PROVE  \E m \in 1..Len(r) : a[m] = i
      <3>1. CASE i = n + 1
        <4>1. Len(r) \in 1..Len(r)
          BY <1>1, <2>3
        <4>2. QED
          BY <2>3, <3>1, <4>1
      <3>2. CASE i \in 1..n
        <4>1. PICK m \in 1..Len(list) : at[m] = i
          BY <2>6, <3>2 DEF Listed
        <4>2. m \in 1..Len(r)
          BY <1>1, <2>3
        <4>3. QED
          BY <2>1, <4>1, <4>2
      <3>3. QED
        BY <1>1, <3>1, <3>2
    <2>7. Listed(hw, n + 1, r, a)
      BY <2>1, <2>4, <2>5, <2>6 DEF Listed
    <2>8. QED
      BY <1>3, <2>7
  <1>5. CASE hw[n + 1].mKey # "HWINTERFACE"
    <2>1. Len(r) = Len(list)
      BY <1>3, <1>5
    <2>2. ASSUME NEW m \in 1..Len(list), m # Len(list)
          PROVE  \E j \in (at[m] + 1)..n : hw[j].mKey = "HWINTERFACE"
      <3>1. Len(list) \in 1..Len(list) /\ m < Len(list)
        BY <1>1, <2>2
      <3>2. at[m] < at[Len(list)] /\ hw[at[Len(list)]].mKey = "HWINTERFACE"
        BY <3>1 DEF Listed
      <3>3. at[Len(list)] \in (at[m] + 1)..n
        BY <1>2, <3>1, <3>2
      <3>4. QED
        BY <3>2, <3>3
    <2>3. ASSUME NEW m \in 1..Len(list), m = Len(list)
          PROVE  \A j \in (at[m] + 1)..n : hw[j].mKey # "HWINTERFACE"
      <3>1. SUFFICES ASSUME NEW j \in (at[m] + 1)..n, hw[j].mKey = "HWINTERFACE"
                     PROVE  FALSE
        OBVIOUS
      <3>2. at[m] \in 1..n /\ j \in 1..n /\ at[m] < j
        BY <1>1, <1>2
      <3>3. PICK l \in 1..Len(list) : at[l] = j
        BY <3>1, <3>2 DEF Listed
      <3>4. l = m \/ l < m
        BY <1>1, <2>3
      <3>5. at[l] = at[m] \/ at[l] < at[m]
        BY <3>4 DEF Listed
      <3>6. QED
        BY <3>2, <3>3, <3>5
    <2>4. ASSUME NEW m \in 1..Len(list)
          PROVE  /\ Given(hw, at[m], n + 1, "HWETHER", r[m].addr)
                 /\ Given(hw, at[m], n + 1, "HWETHIP", r[m].ip)
      <3>1. at[m] \in 1..n
        BY <1>2
      <3>2. /\ Given(hw, at[m], n, "HWETHER", list[m].addr)
            /\ Given(hw, at[m], n, "HWETHIP", list[m].ip)
        BY DEF Listed
      <3>3. Given(hw, at[m], n + 1, "HWETHER", r[m].addr)
        <4>1. r[m].addr = IF hw[n + 1].mKey = "HWETHER" /\ m = Len(list)
                          THEN hw[n + 1].value ELSE list[m].addr
          BY <1>3, <1>5
        <4>2. CASE hw[n + 1].mKey = "HWETHER" /\ m = Len(list)
          BY <1>1, <2>3, <3>1, <3>2, <4>1, <4>2, GivenNext
        <4>3. CASE ~(hw[n + 1].mKey = "HWETHER" /\ m = Len(list))
          BY <1>1, <2>2, <3>1, <3>2, <4>1, <4>3, GivenNext
        <4>4. QED
          BY <4>2, <4>3
      <3>4. Given(hw, at[m], n + 1, "HWETHIP", r[m].ip)
        <4>1. r[m].ip = IF hw[n + 1].mKey = "HWETHIP" /\ m = Len(list)
                        THEN hw[n + 1].value ELSE list[m].ip
          BY <1>3, <1>5
        <4>2. CASE hw[n + 1].mKey = "HWETHIP" /\ m = Len(list)
          BY <1>1, <2>3, <3>1, <3>2, <4>1, <4>2, GivenNext
        <4>3. CASE ~(hw[n + 1].mKey = "HWETHIP" /\ m = Len(list))
          BY <1>1, <2>2, <3>1, <3>2, <4>1, <4>3, GivenNext
        <4>4. QED
          BY <4>2, <4>3
      <3>5. QED
        BY <3>3, <3>4
    <2>5. ASSUME NEW m \in 1..Len(list)
          PROVE  /\ at[m] <= n + 1 /\ hw[at[m]].mKey = "HWINTERFACE"
                 /\ r[m].name = hw[at[m]].value
      <3>1. at[m] \in 1..n /\ hw[at[m]].mKey = "HWINTERFACE"
        BY <1>2 DEF Listed
      <3>2. list[m].name = hw[at[m]].value
        BY DEF Listed
      <3>3. r[m].name = list[m].name
        BY <1>3, <1>5
      <3>4. QED
        BY <1>1, <3>1, <3>2, <3>3
    <2>6. ASSUME NEW i \in 1..(n + 1), hw[i].mKey = "HWINTERFACE"
          PROVE  \E m \in 1..Len(list) : at[m] = i
      <3>1. i \in 1..n
        BY <1>1, <1>5, <2>6
      <3>2. QED
        BY <2>6, <3>1 DEF Listed
    <2>7. \A l, m \in 1..Len(list) : l < m => at[l] < at[m]
      BY DEF Listed
    <2>8. Listed(hw, n + 1, r, at)
      BY <1>2, <2>1, <2>4, <2>5, <2>6, <2>7 DEF Listed
    <2>9. QED
      BY <1>3, <2>8
  <1>6. QED
    BY <1>4, <1>5

\* The values of the entries, and none.
Values(hw) == {Unset} \cup {hw[n].value : n \in 1..Len(hw)}

\* The interfaces that the router has after VNSHWINFO.
LEMMA HardwareListed ==
  ASSUME NEW hw, hw \in Seq(ToSet(hw))
  PROVE  /\ WithHardware(<<>>, hw) \in Seq(Iface(Values(hw)))
         /\ \E at : Listed(hw, Len(hw), WithHardware(<<>>, hw), at)
  <1> DEFINE N == Len(hw)
             V == Values(hw)
             A == Seq(Iface(V))
             step == [n \in 1..N |-> [x \in A |-> HwEntry(x, hw[n])]]
             list[n \in 0..N] ==
               IF n = 0 THEN <<>> ELSE HwEntry(list[n - 1], hw[n])
  <1>1. N \in Nat
    OBVIOUS
  <1>2. Unset \in V /\ \A n \in 1..N : hw[n].value \in V
    BY DEF Values
  <1> HIDE DEF N, V
  <1>3. <<>> \in A /\ IsStep(step, N, A)
    <2>1. ASSUME NEW n \in 1..N, NEW x \in A
          PROVE  HwEntry(x, hw[n]) \in A
      <3>1. hw[n].value \in V
        BY <1>2
      <3>2. QED
        BY <1>2, <3>1, EntryDoes
    <2>2. <<>> \in A
      OBVIOUS
    <2> HIDE DEF A
    <2>3. step \in [1..N -> [A -> A]]
      BY <2>1
    <2>4. QED
      BY <2>2, <2>3 DEF IsStep
  <1>4. PICK f : Recurs(f, N, A, <<>>, step)
    <2> HIDE DEF A, step
    <2>1. QED
      BY <1>1, <1>3, Recursion
  <1>5. ASSUME NEW n \in 1..N
        PROVE  f[n] = HwEntry(f[n - 1], hw[n])
    <2>1. n - 1 \in 0..N
      BY <1>1
    <2> HIDE DEF A
    <2>2. f[n - 1] \in A /\ f[n] = step[n][f[n - 1]]
      BY <1>4, <2>1 DEF Recurs
    <2>3. QED
      BY <2>2
  <1>6. f = [n \in 0..N |-> IF n = 0 THEN <<>> ELSE HwEntry(f[n - 1], hw[n])]
    <2> HIDE DEF A, step
    <2>1. \A n \in 0..N : n # 0 => n \in 1..N
      BY <1>1
    <2>2. QED
      BY <1>4, <1>5, <2>1 DEF Recurs
  <1> HIDE DEF step
  <1>7. list = [n \in 0..N |->
                  IF n = 0 THEN <<>> ELSE HwEntry(list[n - 1], hw[n])]
    BY <1>6
  <1>8. WithHardware(<<>>, hw) = list[N]
    BY DEF WithHardware, N
  <1> HIDE DEF list
  <1> DEFINE S == {n \in 0..N : list[n] \in A /\ \E at : Listed(hw, n, list[n], at)}
  <1>9. 0 \in S
    <2>1. list[0] = <<>>
      BY <1>1, <1>7
    <2>2. Listed(hw, 0, <<>>, <<>>)
      BY DEF Listed
    <2>3. \E at : Listed(hw, 0, list[0], at)
      BY <2>1, <2>2
    <2>4. list[0] \in A /\ 0 \in 0..N
      BY <1>1, <1>3, <2>1
    <2> HIDE DEF A
    <2>5. QED
      BY <2>3, <2>4
  <1>10. ASSUME NEW n \in 0..(N - 1), n \in S
         PROVE  n + 1 \in S
    <2>1. n + 1 \in 1..N /\ (n + 1) - 1 = n /\ n + 1 \in 0..N /\ n + 1 # 0
      BY <1>1
    <2>2. list[n + 1] = HwEntry(list[n], hw[n + 1])
      BY <1>7, <2>1
    <2>3. PICK at : Listed(hw, n, list[n], at)
      BY <1>10
    <2>4. hw[n + 1].value \in V /\ list[n] \in A /\ n \in 0..(Len(hw) - 1)
      BY <1>2, <1>10, <2>1 DEF N
    <2>5. list[n + 1] \in A /\ \E a : Listed(hw, n + 1, list[n + 1], a)
      BY <1>2, <2>2, <2>3, <2>4, OneEntry
    <2>6. QED
      BY <2>1, <2>5
  <1>11. \A n \in 0..N : n \in S
    <2> HIDE DEF S
    <2>1. QED
      BY <1>1, <1>9, <1>10, Induction
  <1>12. N \in S
    BY <1>1, <1>11
  <1>13. QED
    BY <1>8, <1>12 DEF N, V

\* hw has an interface of that name.
Names(hw, name) ==
  \E i \in DOMAIN hw : hw[i].mKey = "HWINTERFACE" /\ hw[i].value = name

\* The first interface of a name in a list.
LEMMA FirstInterface ==
  ASSUME NEW ifs, NEW S, ifs \in Seq(S), NEW name
  PROVE  \/ /\ sr_get_interface(ifs, name) = NoInterface
            /\ \A m \in 1..Len(ifs) : ifs[m].name # name
         \/ \E m \in 1..Len(ifs) :
              /\ sr_get_interface(ifs, name) = ifs[m] /\ ifs[m].name = name
              /\ \A l \in 1..Len(ifs) : ifs[l].name = name => m <= l
  <1> DEFINE I == {m \in 1..Len(ifs) : ifs[m].name = name}
             i == SelectInSeq(ifs, LAMBDA f : f.name = name)
  <1>1. i = IF I # {} THEN Min(I) ELSE 0
    BY DEF SelectInSeq
  <1>2. sr_get_interface(ifs, name) = IF i = 0 THEN NoInterface ELSE ifs[i]
    BY DEF sr_get_interface
  <1> HIDE DEF i
  <1>3. CASE I = {}
    BY <1>1, <1>2, <1>3
  <1>4. CASE I # {}
    <2>1. I \subseteq Nat
      OBVIOUS
    <2>2. Min(I) \in I /\ \A m \in I : Min(I) <= m
      <3> HIDE DEF I
      <3>1. QED
        BY <1>4, <2>1, MinExists
    <2>3. i \in I /\ i # 0 /\ \A m \in I : i <= m
      BY <1>1, <1>4, <2>2
    <2>4. QED
      BY <1>2, <2>3
  <1>5. QED
    BY <1>3, <1>4

\* The two addresses of an interface come from its own entries.
LEMMA OwnAddresses ==
  ASSUME NEW hw \in Hardware, NEW i \in DOMAIN hw,
         hw[i].mKey = "HWINTERFACE",
         NEW mKey \in {"HWETHER", "HWETHIP"}, NEW v,
         Given(hw, i, Len(hw), mKey, v)
  PROVE  /\ v # Unset
         /\ v = hw[Min({j \in i..Len(hw) : hw[j].mKey = mKey})].value
  <1>1. hw \in Seq(ToSet(hw)) /\ i \in 1..Len(hw) /\ Len(hw) \in Nat
    BY HardwareAssumption
  <1>2. PICK j \in EntriesOf(hw, i) :
          /\ hw[j].mKey = mKey /\ hw[j].value # Unset
          /\ \A m \in EntriesOf(hw, i) : hw[m].mKey = mKey => m = j
    BY HardwareAssumption
  <1>3. Behind(hw, i, Len(hw)) = EntriesOf(hw, i)
    BY DEF Behind, EntriesOf
  <1>4. v = hw[j].value
    BY <1>2, <1>3 DEF Given
  <1> DEFINE M == {m \in i..Len(hw) : hw[m].mKey = mKey}
  <1>5. /\ j \in (i + 1)..Len(hw)
        /\ \A m \in (i + 1)..j : hw[m].mKey # "HWINTERFACE"
    BY <1>2 DEF EntriesOf
  <1>6. j \in M /\ M \subseteq Nat
    BY <1>1, <1>2, <1>5
  <1>7. Min(M) \in M /\ \A m \in M : Min(M) <= m
    <2> HIDE DEF M
    <2>1. QED
      BY <1>6, MinExists
  <1>8. PICK l : l = Min(M)
    OBVIOUS
  <1>9. l \in i..Len(hw) /\ hw[l].mKey = mKey /\ l <= j
    BY <1>6, <1>7, <1>8
  <1>10. l # i
    BY <1>9
  <1>11. l \in EntriesOf(hw, i)
    BY <1>1, <1>5, <1>9, <1>10 DEF EntriesOf
  <1>12. l = j
    BY <1>2, <1>9, <1>11
  <1>13. QED
    BY <1>2, <1>4, <1>8, <1>12

\* Of every interface that the server describes the router has both
\* addresses, and those the server means; it has no others.
LEMMA InterfaceFound ==
  ASSUME NEW hw \in Hardware, NEW name,
         NEW f, f = sr_get_interface(WithHardware(<<>>, hw), name)
  PROVE  /\ Names(hw, name) =>
              /\ f # NoInterface /\ f.name = name
              /\ f.addr # Unset /\ f.ip # Unset
              /\ f.ip = AddressOf(hw, name)
         /\ f # NoInterface => Names(hw, name)
  <1> DEFINE ifs == WithHardware(<<>>, hw)
             I == {n \in DOMAIN hw : /\ hw[n].mKey = "HWINTERFACE"
                                     /\ hw[n].value = name}
  <1>1. /\ hw \in Seq(ToSet(hw)) /\ DOMAIN hw = 1..Len(hw) /\ Len(hw) \in Nat
    BY HardwareAssumption
  <1>2. /\ ifs \in Seq(Iface(Values(hw)))
        /\ \E at : Listed(hw, Len(hw), ifs, at)
    BY <1>1, HardwareListed
  <1>3. AddressOf(hw, name)
          = hw[Min({j \in Min(I)..Len(hw) : hw[j].mKey = "HWETHIP"})].value
    BY DEF AddressOf
  <1> HIDE DEF ifs
  <1>4. PICK at : Listed(hw, Len(hw), ifs, at)
    BY <1>2
  <1>5. /\ at \in Seq(1..Len(hw)) /\ Len(at) = Len(ifs)
        /\ \A m \in 1..Len(ifs) : at[m] \in 1..Len(hw)
    BY <1>4 DEF Listed
  <1>6. CASE /\ f = NoInterface
             /\ \A m \in 1..Len(ifs) : ifs[m].name # name
    <2>1. ~Names(hw, name)
      <3>1. SUFFICES ASSUME NEW i \in 1..Len(hw),
                            hw[i].mKey = "HWINTERFACE", hw[i].value = name
                     PROVE  FALSE
        BY <1>1 DEF Names
      <3>2. PICK m \in 1..Len(ifs) : at[m] = i
        BY <1>4, <3>1 DEF Listed
      <3>3. ifs[m].name = hw[i].value
        BY <1>4, <3>2 DEF Listed
      <3>4. QED
        BY <1>6, <3>1, <3>3
    <2>2. QED
      BY <1>6, <2>1
  <1>7. ASSUME NEW m \in 1..Len(ifs), f = ifs[m], ifs[m].name = name,
               \A l \in 1..Len(ifs) : ifs[l].name = name => m <= l
        PROVE  /\ Names(hw, name) /\ f # NoInterface /\ f.name = name
               /\ f.addr # Unset /\ f.ip # Unset
               /\ f.ip = AddressOf(hw, name)
    <2>1. /\ at[m] \in 1..Len(hw) /\ hw[at[m]].mKey = "HWINTERFACE"
          /\ hw[at[m]].value = name
          /\ Given(hw, at[m], Len(hw), "HWETHER", f.addr)
          /\ Given(hw, at[m], Len(hw), "HWETHIP", f.ip)
      BY <1>4, <1>5, <1>7 DEF Listed
    <2>2. f.addr # Unset
      BY <1>1, <2>1, OwnAddresses
    <2>3. /\ f.ip # Unset
          /\ f.ip = hw[Min({j \in at[m]..Len(hw) :
                              hw[j].mKey = "HWETHIP"})].value
      BY <1>1, <2>1, OwnAddresses
    <2>4. Min(I) = at[m]
      <3>1. at[m] \in I /\ I \subseteq Nat
        BY <1>1, <2>1
      <3>2. Min(I) \in I /\ \A n \in I : Min(I) <= n
        <4> HIDE DEF I
        <4>1. QED
          BY <3>1, MinExists
      <3>3. PICK i : i = Min(I)
        OBVIOUS
      <3>4. /\ i \in 1..Len(hw) /\ hw[i].mKey = "HWINTERFACE"
            /\ hw[i].value = name /\ i <= at[m]
        BY <1>1, <3>1, <3>2, <3>3
      <3>5. PICK l \in 1..Len(ifs) : at[l] = i
        BY <1>4, <3>4 DEF Listed
      <3>6. ifs[l].name = name
        BY <1>4, <3>4, <3>5 DEF Listed
      <3>7. m <= l
        BY <1>7, <3>6
      <3>8. m = l \/ m < l
        BY <1>2, <3>7
      <3>9. m = l \/ at[m] < at[l]
        BY <1>4, <3>8 DEF Listed
      <3>10. at[m] <= i
        BY <2>1, <3>4, <3>5, <3>9
      <3>11. QED
        BY <2>1, <3>3, <3>4, <3>10
    <2>5. NoInterface.addr = Unset
      BY DEF NoInterface
    <2>6. f # NoInterface
      BY <2>2, <2>5
    <2>7. Names(hw, name)
      BY <1>1, <2>1 DEF Names
    <2>8. QED
      BY <1>3, <1>7, <2>2, <2>3, <2>4, <2>6, <2>7
  <1>8. \/ f = NoInterface /\ \A m \in 1..Len(ifs) : ifs[m].name # name
        \/ \E m \in 1..Len(ifs) :
             /\ f = ifs[m] /\ ifs[m].name = name
             /\ \A l \in 1..Len(ifs) : ifs[l].name = name => m <= l
    BY <1>2, FirstInterface DEF ifs
  <1>9. QED
    BY <1>6, <1>7, <1>8

-----------------------------------------------------------------------------
(* The packets that are due.                                               *)

\* What command k adds to the packets q of the commands before it.
NextDue(s, k, q) ==
  IF s[k].mType = "VNSPACKET" /\ ForUs(s, s[k].body)
  THEN Append(q, s[k].body) ELSE q

\* f[k] are the packets of the first k commands.
DueIn(s, n, f) ==
  f[0] = <<>> /\ \A k \in 1..n : f[k] = NextDue(s, k, f[k - 1])

\* Such a function is what Due takes its last value from.
LEMMA DueFunction ==
  ASSUME NEW s, NEW n \in Nat
  PROVE  \E f : DueIn(s, n, f) /\ Due(s, n) = f[n]
  <1> DEFINE A == Seq({s[k].body : k \in 1..n})
             step == [k \in 1..n |-> [x \in A |-> NextDue(s, k, x)]]
             due[k \in 0..n] ==
               IF k = 0 THEN <<>>
               ELSE IF s[k].mType = "VNSPACKET" /\ ForUs(s, s[k].body)
                    THEN Append(due[k - 1], s[k].body) ELSE due[k - 1]
  <1>1. <<>> \in A /\ IsStep(step, n, A)
    <2>1. ASSUME NEW k \in 1..n, NEW x \in A
          PROVE  NextDue(s, k, x) \in A
      BY DEF NextDue
    <2>2. <<>> \in A
      OBVIOUS
    <2> HIDE DEF A
    <2>3. step \in [1..n -> [A -> A]]
      BY <2>1
    <2>4. QED
      BY <2>2, <2>3 DEF IsStep
  <1>2. PICK f : Recurs(f, n, A, <<>>, step)
    <2> HIDE DEF A, step
    <2>1. QED
      BY <1>1, Recursion
  <1>3. ASSUME NEW k \in 1..n
        PROVE  f[k] = NextDue(s, k, f[k - 1])
    <2>1. k - 1 \in 0..n
      OBVIOUS
    <2> HIDE DEF A
    <2>2. f[k - 1] \in A /\ f[k] = step[k][f[k - 1]]
      BY <1>2, <2>1 DEF Recurs
    <2>3. QED
      BY <2>2
  <1>4. f = [k \in 0..n |->
               IF k = 0 THEN <<>>
               ELSE IF s[k].mType = "VNSPACKET" /\ ForUs(s, s[k].body)
                    THEN Append(f[k - 1], s[k].body) ELSE f[k - 1]]
    <2> HIDE DEF A, step
    <2>1. \A k \in 0..n : k # 0 => k \in 1..n
      OBVIOUS
    <2>2. QED
      BY <1>2, <1>3, <2>1 DEF Recurs, NextDue
  <1> HIDE DEF A, step
  <1>5. due = [k \in 0..n |->
               IF k = 0 THEN <<>>
               ELSE IF s[k].mType = "VNSPACKET" /\ ForUs(s, s[k].body)
                    THEN Append(due[k - 1], s[k].body) ELSE due[k - 1]]
    BY <1>4
  <1>6. Due(s, n) = due[n]
    BY DEF Due
  <1> HIDE DEF due
  <1>7. DueIn(s, n, due)
    <2>1. due[0] = <<>>
      BY <1>5
    <2>2. ASSUME NEW k \in 1..n
          PROVE  due[k] = NextDue(s, k, due[k - 1])
      <3>1. k \in 0..n /\ k # 0
        OBVIOUS
      <3>2. QED
        BY <1>5, <3>1 DEF NextDue
    <2>3. QED
      BY <2>1, <2>2 DEF DueIn
  <1>8. QED
    BY <1>6, <1>7

\* Two histories have the same packets if their commands are the same in what
\* matters.
LEMMA DueSame ==
  ASSUME NEW s, NEW t, NEW n \in Nat, NEW f, NEW g,
         DueIn(s, n, f), DueIn(t, n, g),
         \A k \in 1..n : \A q : NextDue(s, k, q) = NextDue(t, k, q)
  PROVE  f[n] = g[n]
  <1> DEFINE S == {k \in 0..n : f[k] = g[k]}
  <1>1. 0 \in S
    BY DEF DueIn
  <1>2. ASSUME NEW k \in 0..(n - 1), k \in S
        PROVE  k + 1 \in S
    <2>1. k + 1 \in 1..n /\ (k + 1) - 1 = k /\ k + 1 \in 0..n
      OBVIOUS
    <2>2. /\ f[k + 1] = NextDue(s, k + 1, f[k])
          /\ g[k + 1] = NextDue(t, k + 1, g[k])
      BY <2>1 DEF DueIn
    <2>3. f[k] = g[k]
      BY <1>2
    <2>4. QED
      BY <2>1, <2>2, <2>3
  <1>3. \A k \in 0..n : k \in S
    <2> HIDE DEF S
    <2>1. QED
      BY <1>1, <1>2, Induction
  <1>4. QED
    BY <1>3

\* One command after another.
LEMMA DueNext ==
  ASSUME NEW s, NEW n \in Nat
  PROVE  Due(s, 0) = <<>> /\ Due(s, n + 1) = NextDue(s, n + 1, Due(s, n))
  <1>1. Due(s, 0) = <<>>
    BY DueFunction DEF DueIn
  <1>2. PICK f : DueIn(s, n, f) /\ Due(s, n) = f[n]
    BY DueFunction
  <1>3. PICK g : DueIn(s, n + 1, g) /\ Due(s, n + 1) = g[n + 1]
    BY DueFunction
  <1>4. DueIn(s, n, g)
    BY <1>3 DEF DueIn
  <1>5. f[n] = g[n]
    BY <1>2, <1>4, DueSame
  <1>6. g[n + 1] = NextDue(s, n + 1, g[n])
    <2>1. n + 1 \in 1..(n + 1) /\ (n + 1) - 1 = n
      OBVIOUS
    <2>2. QED
      BY <1>3, <2>1 DEF DueIn
  <1>7. QED
    BY <1>1, <1>2, <1>3, <1>5, <1>6

\* The packets of the first n commands stay when other commands follow.
LEMMA DueKept ==
  ASSUME NEW s, NEW t, NEW n \in Nat,
         \A k \in 1..n :
           /\ s[k].mType = "VNSPACKET" <=> t[k].mType = "VNSPACKET"
           /\ s[k].mType = "VNSPACKET" =>
                s[k].body = t[k].body
                  /\ (ForUs(s, s[k].body) <=> ForUs(t, s[k].body))
  PROVE  Due(s, n) = Due(t, n)
  <1>1. PICK f : DueIn(s, n, f) /\ Due(s, n) = f[n]
    BY DueFunction
  <1>2. PICK g : DueIn(t, n, g) /\ Due(t, n) = g[n]
    BY DueFunction
  <1>3. ASSUME NEW k \in 1..n, NEW q
        PROVE  NextDue(s, k, q) = NextDue(t, k, q)
    BY DEF NextDue
  <1>4. f[n] = g[n]
    BY <1>1, <1>2, <1>3, DueSame
  <1>5. QED
    BY <1>1, <1>2, <1>4

\* Without a packet there is none due.
LEMMA DueNone ==
  ASSUME NEW s, NEW n \in Nat, \A k \in 1..n : s[k].mType # "VNSPACKET"
  PROVE  Due(s, n) = <<>>
  <1>1. PICK f : DueIn(s, n, f) /\ Due(s, n) = f[n]
    BY DueFunction
  <1> DEFINE S == {k \in 0..n : f[k] = <<>>}
  <1>2. 0 \in S
    BY <1>1 DEF DueIn
  <1>3. ASSUME NEW k \in 0..(n - 1), k \in S
        PROVE  k + 1 \in S
    <2>1. k + 1 \in 1..n /\ (k + 1) - 1 = k /\ k + 1 \in 0..n
      OBVIOUS
    <2>2. f[k + 1] = NextDue(s, k + 1, f[k])
      BY <1>1, <2>1 DEF DueIn
    <2>3. f[k + 1] = f[k]
      BY <2>1, <2>2 DEF NextDue
    <2>4. QED
      BY <1>3, <2>1, <2>3
  <1>4. \A k \in 0..n : k \in S
    <2> HIDE DEF S
    <2>1. QED
      BY <1>2, <1>3, Induction
  <1>5. QED
    BY <1>1, <1>4

-----------------------------------------------------------------------------
(* The main thread.                                                        *)

\* When main starts nothing was sent or read.
LEMMA InitInv ==
  Init => Inv
  <1> SUFFICES ASSUME Init
               PROVE  Inv
    OBVIOUS
  <1>1. rd.got = <<>> /\ rd.len = 0 /\ net = <<>> /\ sent = <<>> /\ rt = <<>>
    BY DEF Init, NothingRead
  <1>2. Framed(rd.got \o net, sent)
    <2>1. rd.got \o net = <<>>
      BY <1>1
    <2>2. QED
      BY <2>1 DEF Framed
  <1>3. StateTypes
    <2>1. Len(rd.got) = 0 /\ 0 <= MAX_COMMAND
      BY <1>1, CommandAssumption
    <2>2. pc \in {"load", "connect"} /\ srv = "listens"
          /\ cleanup = FALSE /\ eof = FALSE
      BY DEF Init
    <2>3. \A i \in DOMAIN rt :
            {rt[i].dest, rt[i].gw, rt[i].mask} \subseteq Address
      BY <1>1
    <2>4. rd.len \in Nat /\ Len(rd.got) <= MAX_COMMAND
      BY <1>1, <2>1
    <2>5. cleanup \in BOOLEAN /\ eof \in BOOLEAN
      BY <2>2
    <2>6. QED
      BY <2>2, <2>3, <2>4, <2>5, Zenon DEF StateTypes
  <1>4. SentInv
    BY <1>1 DEF SentInv
  <1>5. StartInv
    BY <1>1 DEF StartInv, Init, None
  <1>6. ReadInv
    <2>1. rd \in [got : Seq(Octet), len : Nat] /\ net \in Seq(Octet)
      BY DEF Init, NothingRead
    <2>2. Len(rd.got) < LEN_OCTETS /\ ~(rd.len > MAX_COMMAND)
      BY <1>1, CommandAssumption
    <2>3. QED
      BY <1>1, <2>1, <2>2 DEF ReadInv
  <1>7. FilesInv
    BY TableAssumption DEF Init, FilesInv
  <1>8. QED
    BY <1>2, <1>3, <1>4, <1>5, <1>6, <1>7 DEF Inv

\* What main does between two commands leaves the stream alone.
LEMMA QuietStep ==
  ASSUME Inv, Loaded(rt'), cleanup' \in BOOLEAN, FilesInv',
         UNCHANGED <<rd, net, sent, eof>>,
         srv' \in {"listens", "accepted", "asked", "judged", "open",
                   "running", "closed"},
         pc # "exit",
         pc' \in {"load", "connect", "VNS_AUTH_REQUEST", "VNS_AUTH_STATUS",
                  "VNS_RTABLE", "reload", "init", "loop", "exit", "aborted"},
         request' = request \/ sent # <<>>
  PROVE  Inv'
  <1>1. StateTypes'
    BY DEF Inv, StateTypes, Loaded
  <1>2. SentInv'
    BY DEF Inv, SentInv
  <1>3. StartInv'
    BY DEF Inv, StartInv
  <1>4. ReadInv'
    BY DEF Inv, ReadInv
  <1>5. QED
    BY <1>1, <1>2, <1>3, <1>4 DEF Inv

\* The table is loaded.
LEMMA LoadSteps ==
  ASSUME Inv, LoadTable \/ ReloadTable
  PROVE  Inv'
  <1>1. /\ Loaded(rt') /\ pc' \in {"connect", "init", "exit"}
        /\ UNCHANGED <<rd, net, sent, eof, srv, files, cleanup, request>>
        /\ pc # "exit"
    <2>1. CASE LoadTable
      BY <2>1, WrapLoads DEF LoadTable, serverVars
    <2>2. CASE ReloadTable
      BY <2>2, WrapLoads DEF ReloadTable, serverVars
    <2>3. QED
      BY <2>1, <2>2
  <1>2. FilesInv'
    BY <1>1 DEF Inv, FilesInv
  <1>3. cleanup \in BOOLEAN /\ srv \in {"listens", "accepted", "asked",
          "judged", "open", "running", "closed"}
    BY DEF Inv, StateTypes
  <1>4. QED
    BY <1>1, <1>2, <1>3, QuietStep

\* The connection is made, a topology asked for, the ARP cache started.
LEMMA OtherSteps ==
  ASSUME Inv, Connect \/ SendOpen \/ sr_init
  PROVE  Inv'
  <1>1. /\ UNCHANGED <<rd, net, sent, eof, rt, files>>
        /\ pc # "exit" /\ cleanup' \in {cleanup, TRUE}
        /\ pc' \in {"VNS_AUTH_REQUEST", "VNS_RTABLE", "reload", "loop", "exit"}
        /\ srv' \in {srv, "accepted"} /\ (request' = request \/ pc = "open")
    <2>1. CASE Connect
      BY <2>1 DEF Connect, mainVars
    <2>2. CASE SendOpen
      BY <2>2 DEF SendOpen, mainVars, serverVars
    <2>3. CASE sr_init
      BY <2>3 DEF sr_init, serverVars
    <2>4. QED
      BY <2>1, <2>2, <2>3
  <1>2. FilesInv' /\ Loaded(rt')
    BY <1>1 DEF Inv, FilesInv, StateTypes, Loaded
  <1>3. cleanup \in BOOLEAN /\ srv \in {"listens", "accepted", "asked",
          "judged", "open", "running", "closed"}
    BY DEF Inv, StateTypes
  <1>4. request' = request \/ sent # <<>>
    BY <1>1 DEF Inv, StartInv
  <1>5. QED
    BY <1>1, <1>2, <1>3, <1>4, QuietStep

-----------------------------------------------------------------------------
(* Reading.                                                                *)

\* The commands of the server have lengths that their octets tell.
LEMMA SentLengths ==
  ASSUME Inv
  PROVE  /\ sent \in Seq(ToSet(sent))
         /\ \A n \in DOMAIN sent :
              CommandLen(sent[n]) \in Nat /\ LEN_OCTETS + 1 <= CommandLen(sent[n])
  <1>1. ASSUME NEW n \in DOMAIN sent
        PROVE  CommandLen(sent[n]) \in Nat /\ LEN_OCTETS + 1 <= CommandLen(sent[n])
    <2>1. sent[n].mType = "VNS_RTABLE" => sent[n].body.rtable \in ServerTables
      BY DEF Inv, SentInv
    <2>2. QED
      BY <2>1, CommandLenType
  <1>2. QED
    BY <1>1 DEF Inv, SentInv

\* Once LEN_OCTETS octets are there the length of the command is known.
LEMMA LengthKnown ==
  ASSUME Inv, NEW g \in Seq(Octet), NEW r \in Seq(Octet),
         Framed(g \o r, sent), Len(g) = LEN_OCTETS
  PROVE  LengthsOf(g) = {CommandLen(sent[g[1][1]])}
  <1> DEFINE q == g \o r
             n == g[1][1]
  <1>1. LEN_OCTETS \in Nat /\ 1 <= LEN_OCTETS
    BY CommandAssumption
  <1>2. /\ q \in Seq(Octet) /\ q # <<>> /\ q[1] = g[1]
        /\ \A i \in 1..LEN_OCTETS : q[i] = g[i]
    BY <1>1
  <1>3. Framed(q, sent)
    OBVIOUS
  <1> HIDE DEF q
  <1>4. n \in DOMAIN sent /\ FrameAt(q, sent, 0, n)
    <2>1. \A m \in DOMAIN sent : CommandLen(sent[m]) \in Nat
      BY SentLengths
    <2>2. QED
      BY <1>2, <1>3, <2>1, FirstCommand
  <1>5. LEN_OCTETS + 1 <= CommandLen(sent[n]) /\ CommandLen(sent[n]) \in Nat
    BY <1>4, SentLengths
  <1> HIDE DEF n
  <1>6. ASSUME NEW i \in 1..LEN_OCTETS
        PROVE  g[i] = <<n, i>>
    <2>1. i \in 1..CommandLen(sent[n])
      BY <1>1, <1>5
    <2>2. q[0 + i] = <<n, i>>
      BY <1>4, <2>1 DEF FrameAt
    <2>3. 0 + i = i
      BY <1>1
    <2>4. QED
      BY <1>2, <2>2, <2>3
  <1>7. g = [k \in 1..LEN_OCTETS |-> <<n, k>>]
    <2>1. g = [k \in 1..Len(g) |-> g[k]]
      OBVIOUS
    <2>2. QED
      BY <1>6, <2>1
  <1>8. QED
    BY <1>7 DEF LengthsOf, n

\* recv takes over some octets of the stream.
LEMMA RecvStep ==
  ASSUME Inv, Recv
  PROVE  Inv'
  <1>1. PICK k \in 1..Len(net) :
          /\ k <= Want
          /\ net' = SubSeq(net, k + 1, Len(net))
          /\ LET got == rd.got \o SubSeq(net, 1, k)
             IN IF rd.len = 0 /\ Len(got) = LEN_OCTETS
                THEN \E len \in LengthsOf(got) :
                       /\ rd' = [got |-> got, len |-> len]
                       /\ pc' = IF len > MAX_COMMAND THEN "exit" ELSE pc
                ELSE rd' = [rd EXCEPT !.got = got] /\ pc' = pc
    BY DEF Recv
  <1> DEFINE got == rd.got \o SubSeq(net, 1, k)
  <1>2. /\ rd \in [got : Seq(Octet), len : Nat] /\ net \in Seq(Octet)
        /\ rd.got \in Seq(Octet) /\ rd.len \in Nat /\ Len(rd.got) \in Nat
        /\ LEN_OCTETS \in Nat /\ 1 <= LEN_OCTETS /\ MAX_COMMAND \in Nat
        /\ LEN_OCTETS < MAX_COMMAND /\ k \in Nat
    BY CommandAssumption DEF Inv, ReadInv
  <1>3. /\ got \in Seq(Octet) /\ net' \in Seq(Octet)
        /\ got \o net' = rd.got \o net /\ Len(got) = Len(rd.got) + k
        /\ got # <<>> /\ (rd.got # <<>> => got[1] = rd.got[1])
    <2>1. rd.got \in Seq(Octet) /\ net \in Seq(Octet)
      BY <1>2
    <2>2. net' = SubSeq(net, k + 1, Len(net))
      BY <1>1
    <2>3. BorderMoved(rd.got, net, k, got, net')
      BY <2>2 DEF BorderMoved
    <2> HIDE DEF got
    <2>4. got \o net' = rd.got \o net
      <3>1. SameStream(got, net', rd.got, net)
        BY <2>1, <2>3, BorderSame
      <3>2. QED
        BY <3>1 DEF SameStream
    <2>5. /\ got \in Seq(Octet) /\ net' \in Seq(Octet)
          /\ Len(got) = Len(rd.got) + k /\ got # <<>>
      BY <2>1, <2>3, MoveBorder
    <2>6. rd.got # <<>> => got[1] = rd.got[1]
      BY <2>1, <2>3, MoveBorder
    <2>7. QED
      BY <2>4, <2>5, <2>6
  <1>4. /\ UNCHANGED <<sent, srv, eof, cleanup, rt, files, request>>
        /\ Reading /\ ~Complete
    BY DEF Recv, mainVars, serverVars
  <1>5. ~(rd.len > MAX_COMMAND)
    BY <1>4 DEF Inv, ReadInv, Reading
  <1>6. /\ (rd.len = 0 /\ Len(got) = LEN_OCTETS
             => \E len \in LengthsOf(got) :
                  /\ rd' = [got |-> got, len |-> len]
                  /\ pc' = IF len > MAX_COMMAND THEN "exit" ELSE pc)
        /\ (~(rd.len = 0 /\ Len(got) = LEN_OCTETS)
             => rd' = [rd EXCEPT !.got = got] /\ pc' = pc)
    BY <1>1
  <1> HIDE DEF got
  <1>7. Framed(got \o net', sent)
    BY <1>3 DEF Inv
  <1>8. /\ rd' \in [got : Seq(Octet), len : Nat] /\ rd'.got = got
        /\ pc' \in {pc, "exit"} /\ Len(got) <= MAX_COMMAND
        /\ rd'.len = 0 => Len(got) < LEN_OCTETS
        /\ rd'.len # 0 => /\ LEN_OCTETS <= Len(got) /\ Len(got) <= rd'.len
                          /\ rd'.len = CommandLen(sent[got[1][1]])
        /\ rd'.len > MAX_COMMAND => pc' = "exit"
    <2>1. CASE rd.len = 0 /\ Len(got) = LEN_OCTETS
      <3>1. LengthsOf(got) = {CommandLen(sent[got[1][1]])}
        BY <1>3, <1>7, <2>1, LengthKnown
      <3>2. got[1][1] \in DOMAIN sent
        <4>1. Framed(got \o net', sent) /\ got \o net' \in Seq(Octet)
              /\ got \o net' # <<>> /\ (got \o net')[1] = got[1]
          <5>1. ASSUME NEW a \in Seq(Octet), NEW b \in Seq(Octet), a # <<>>
                PROVE  /\ a \o b \in Seq(Octet) /\ a \o b # <<>>
                       /\ (a \o b)[1] = a[1]
            <6>1. a \o b \in Seq(Octet) /\ IsConcat(a, b, a \o b)
              BY ConcatFacts
            <6>2. Len(a) \in Nat /\ Len(b) \in Nat /\ Len(a) # 0
              BY <5>1
            <6>3. 1 \in 1..Len(a) /\ Len(a \o b) # 0
              BY <6>1, <6>2 DEF IsConcat
            <6>4. QED
              BY <6>1, <6>3 DEF IsConcat
          <5>2. QED
            BY <1>3, <1>7, <5>1
        <4>2. \A m \in DOMAIN sent : CommandLen(sent[m]) \in Nat
          BY SentLengths
        <4>3. QED
          BY <4>1, <4>2, FirstCommand
      <3> DEFINE len == CommandLen(sent[got[1][1]])
      <3>3. len \in Nat /\ LEN_OCTETS + 1 <= len
        BY <3>2, SentLengths
      <3>4. /\ rd' = [got |-> got, len |-> len]
            /\ pc' = IF len > MAX_COMMAND THEN "exit" ELSE pc
        BY <1>6, <2>1, <3>1
      <3> HIDE DEF len
      <3>5. rd'.got = got /\ rd'.len = len
            /\ rd' \in [got : Seq(Octet), len : Nat]
        BY <1>3, <3>3, <3>4
      <3>6. rd'.len # 0 /\ LEN_OCTETS <= Len(got) /\ Len(got) <= rd'.len
            /\ Len(got) <= MAX_COMMAND
        BY <1>2, <2>1, <3>3, <3>5
      <3>7. QED
        BY <3>4, <3>5, <3>6 DEF len
    <2>2. CASE ~(rd.len = 0 /\ Len(got) = LEN_OCTETS)
      <3>1. rd' = [rd EXCEPT !.got = got] /\ pc' = pc
        BY <1>6, <2>2
      <3>2. rd'.got = got /\ rd'.len = rd.len
            /\ rd' \in [got : Seq(Octet), len : Nat]
        BY <1>2, <1>3, <3>1
      <3>3. CASE rd.len = 0
        <4>1. k <= LEN_OCTETS - Len(rd.got)
          BY <1>1, <3>3 DEF Want
        <4>2. Len(got) < LEN_OCTETS /\ Len(got) <= MAX_COMMAND
          <5>1. Len(got) # LEN_OCTETS
            BY <2>2, <3>3
          <5>2. Len(got) = Len(rd.got) + k
            BY <1>3
          <5>3. QED
            BY <1>2, <4>1, <5>1, <5>2
        <4>3. QED
          BY <1>2, <3>1, <3>2, <3>3, <4>2
      <3>4. CASE rd.len # 0
        <4>1. k <= rd.len - Len(rd.got)
          BY <1>1, <3>4 DEF Want
        <4>2. /\ LEN_OCTETS <= Len(rd.got) /\ Len(rd.got) <= rd.len
              /\ rd.len = CommandLen(sent[rd.got[1][1]])
          BY <3>4 DEF Inv, ReadInv
        <4>3. rd.got # <<>>
          BY <1>2, <4>2
        <4>4. /\ LEN_OCTETS <= Len(got) /\ Len(got) <= rd.len
              /\ Len(got) <= MAX_COMMAND
          BY <1>2, <1>3, <1>5, <4>1, <4>2
        <4>5. rd.len = CommandLen(sent[got[1][1]])
          BY <1>3, <4>2, <4>3
        <4>6. QED
          BY <1>5, <3>1, <3>2, <3>4, <4>4, <4>5
      <3>5. QED
        BY <3>3, <3>4
    <2>3. QED
      BY <2>1, <2>2
  <1>9. StateTypes'
    <2>1. rd'.len \in Nat /\ Len(rd'.got) <= MAX_COMMAND
      BY <1>8
    <2>2. QED
      BY <1>4, <1>8, <2>1 DEF Inv, StateTypes
  <1>10. ReadInv'
    BY <1>3, <1>4, <1>8 DEF ReadInv
  <1>11. SentInv' /\ FilesInv'
    BY <1>4 DEF Inv, SentInv, FilesInv
  <1>12. StartInv'
    BY <1>4, <1>8 DEF Inv, StartInv
  <1>13. Framed(rd'.got \o net', sent')
    BY <1>4, <1>7, <1>8
  <1>14. QED
    BY <1>9, <1>10, <1>11, <1>12, <1>13 DEF Inv

\* recv fails and main ends.
LEMMA RecvFailsStep ==
  ASSUME Inv, RecvFails
  PROVE  Inv'
  <1>1. UNCHANGED <<rd, net, sent, srv, eof, cleanup, rt, files, request>>
        /\ pc' = "exit"
    BY DEF RecvFails, mainVars, serverVars
  <1>2. StateTypes' /\ SentInv' /\ StartInv' /\ ReadInv' /\ FilesInv'
    BY <1>1 DEF Inv, StateTypes, SentInv, StartInv, ReadInv, FilesInv
  <1>3. QED
    BY <1>1, <1>2 DEF Inv

-----------------------------------------------------------------------------
(* Handling.                                                               *)

\* What is dispatched is one whole command; behind it the stream goes on
\* with the next.
LEMMA WholeCommand ==
  ASSUME Inv, Complete, NEW n, n = rd.got[1][1]
  PROVE  /\ n \in DOMAIN sent /\ sent # <<>>
         /\ rd.got = [k \in 1..CommandLen(sent[n]) |-> <<n, k>>]
         /\ Command = sent[n]
         /\ Framed(net, sent)
  <1> DEFINE q == rd.got \o net
             L == CommandLen(sent[n])
  <1>1. /\ rd.got \in Seq(Octet) /\ net \in Seq(Octet) /\ rd.len \in Nat
        /\ LEN_OCTETS <= Len(rd.got) /\ Len(rd.got) <= rd.len
        /\ rd.len = L
    BY DEF Inv, ReadInv, Complete
  <1>2. Len(rd.got) = L /\ Len(rd.got) \in Nat /\ rd.got # <<>>
    BY <1>1, CommandAssumption DEF Complete
  <1>3. \A m \in DOMAIN sent : CommandLen(sent[m]) \in Nat
    BY SentLengths
  <1>4. q \in Seq(Octet) /\ IsConcat(rd.got, net, q)
    BY <1>1, ConcatFacts
  <1>5. q # <<>> /\ q[1] = rd.got[1] /\ \A i \in 1..L : q[i] = rd.got[i]
    <2>1. 1 \in 1..Len(rd.got)
      BY <1>2
    <2>2. Len(q) # 0
      BY <1>1, <1>2, <1>4, <2>1, SMTT(30) DEF IsConcat
    <2>3. QED
      BY <1>2, <1>4, <2>1, <2>2 DEF IsConcat
  <1>6. Framed(q, sent)
    BY DEF Inv
  <1> HIDE DEF q, L
  <1>7. n \in DOMAIN sent /\ FrameAt(q, sent, 0, n)
    BY <1>3, <1>4, <1>5, <1>6, FirstCommand
  <1>8. L \in Nat /\ LEN_OCTETS + 1 <= L
    BY <1>7, SentLengths DEF L
  <1>9. ASSUME NEW i \in 1..L
        PROVE  rd.got[i] = <<n, i>>
    <2>1. q[0 + i] = <<n, i>>
      BY <1>7 DEF FrameAt, L
    <2>2. 0 + i = i
      BY <1>8
    <2>3. QED
      BY <1>5, <2>1, <2>2
  <1>10. rd.got = [k \in 1..L |-> <<n, k>>]
    <2>1. rd.got = [k \in 1..Len(rd.got) |-> rd.got[k]]
      BY <1>1
    <2>2. QED
      BY <1>2, <1>9, <2>1
  <1>11. Command = sent[n]
    <2>1. LEN_OCTETS + 1 \in 1..L
      BY <1>8, CommandAssumption
    <2>2. rd.got[LEN_OCTETS + 1] = <<n, LEN_OCTETS + 1>>
      BY <1>9, <2>1
    <2>3. QED
      BY <2>2 DEF Command
  <1>12. Framed(net, sent)
    <2>1. Framed(rd.got \o net, sent)
      BY DEF Inv
    <2>2. Len(rd.got) = CommandLen(sent[rd.got[1][1]])
      BY <1>2 DEF L
    <2>3. QED
      BY <1>1, <1>2, <1>3, <2>1, <2>2, RestFramed
  <1>13. sent # <<>>
    BY <1>7
  <1>14. QED
    BY <1>7, <1>10, <1>11, <1>12, <1>13 DEF L

\* sr_read_from_server_expect returns and the command is gone.
LEMMA ReturnStep ==
  ASSUME Inv, Reading, Complete, NEW r, Return(r),
         UNCHANGED <<net, sent, srv, eof, cleanup, rt>>, FilesInv',
         request'.mType = request.mType \/ request'.mType = "VNS_AUTH_REPLY"
  PROVE  Inv'
  <1>1. sent # <<>> /\ Framed(net, sent)
    BY WholeCommand
  <1>2. rd' = NothingRead /\ rd'.got = <<>> /\ rd'.len = 0
    BY DEF Return, NothingRead
  <1>3. pc' \in {"exit", "VNS_AUTH_STATUS", "open", "reload", "loop"}
    BY DEF Return, Reading
  <1>4. net \in Seq(Octet) /\ <<>> \o net = net
    <2>1. net \in Seq(Octet)
      BY DEF Inv, ReadInv
    <2>2. QED
      BY <2>1
  <1>5. Framed(rd'.got \o net', sent')
    BY <1>1, <1>2, <1>4
  <1>6. StateTypes'
    <2>1. Len(rd'.got) = 0 /\ rd'.len \in Nat
      BY <1>2
    <2>2. Len(rd'.got) <= MAX_COMMAND
      BY <2>1, CommandAssumption
    <2>3. QED
      BY <1>3, <2>1, <2>2 DEF Inv, StateTypes
  <1>7. SentInv'
    BY DEF Inv, SentInv
  <1>8. StartInv'
    BY <1>1 DEF Inv, StartInv
  <1>9. ReadInv'
    <2>1. rd' \in [got : Seq(Octet), len : Nat]
      BY <1>2 DEF NothingRead
    <2>2. Len(rd'.got) < LEN_OCTETS /\ ~(rd'.len > MAX_COMMAND)
      BY <1>2, CommandAssumption
    <2>3. QED
      BY <1>2, <1>4, <2>1, <2>2 DEF ReadInv
  <1>10. QED
    BY <1>5, <1>6, <1>7, <1>8, <1>9 DEF Inv

\* The handlers whose command changes no table.
LEMMA PlainHandlers ==
  ASSUME Inv,
         \/ UnexpectedCommand \/ HandleClose \/ HandleOther
         \/ sr_handle_auth_request \/ sr_handle_auth_status
         \/ sr_handle_hwinfo
  PROVE  Inv'
  <1>1. /\ UNCHANGED <<net, sent, srv, eof, cleanup, rt, files>>
        /\ Reading /\ Complete /\ \E r : Return(r)
        /\ \/ request'.mType = request.mType
           \/ request'.mType = "VNS_AUTH_REPLY"
    <2>1. CASE UnexpectedCommand
      BY <2>1 DEF UnexpectedCommand, mainVars, serverVars
    <2>2. CASE HandleClose
      BY <2>2 DEF HandleClose, mainVars, serverVars
    <2>3. CASE HandleOther
      BY <2>3 DEF HandleOther, Handles, mainVars, serverVars
    <2>4. CASE sr_handle_auth_request
      BY <2>4 DEF sr_handle_auth_request, Handles, mainVars, serverVars
    <2>5. CASE sr_handle_auth_status
      BY <2>5 DEF sr_handle_auth_status, Handles, mainVars, serverVars
    <2>6. CASE sr_handle_hwinfo
      BY <2>6 DEF sr_handle_hwinfo, Handles, serverVars
    <2>7. QED
      BY <2>1, <2>2, <2>3, <2>4, <2>5, <2>6
  <1>2. FilesInv'
    BY <1>1 DEF Inv, FilesInv
  <1>3. PICK r : Return(r)
    BY <1>1
  <1>4. QED
    BY <1>1, <1>2, <1>3, ReturnStep

\* The server's table becomes a file.
LEMMA TableHandler ==
  ASSUME Inv, sr_handle_rtable
  PROVE  Inv'
  <1>1. /\ UNCHANGED <<net, sent, srv, eof, cleanup, rt, request>>
        /\ Reading /\ Complete /\ Command.mType = "VNS_RTABLE"
        /\ \E r : Return(r)
    BY DEF sr_handle_rtable, Handles, serverVars
  <1>2. Command.body.rtable \in ServerTables
    <2>1. PICK n : n = rd.got[1][1]
      OBVIOUS
    <2>2. n \in DOMAIN sent /\ Command = sent[n]
      BY <1>1, <2>1, WholeCommand
    <2>3. QED
      BY <1>1, <2>2 DEF Inv, SentInv
  <1>3. FilesInv'
    <2>1. PICK t \in ServerTables : t = Command.body.rtable
      BY <1>2
    <2>2. t \in Seq(ToSet(t))
      BY TableAssumption
    <2>3. PICK f : f = RtableFile(Command.body.mVirtualHostID)
      OBVIOUS
    <2>4. files' = files \/ files' = [x \in DOMAIN files \cup {f} |->
                                 IF x = f THEN t ELSE files[x]]
      BY <2>1, <2>3 DEF sr_handle_rtable
    <2>5. CASE files' = files
      BY <2>5 DEF Inv, FilesInv
    <2>6. CASE files' = [x \in DOMAIN files \cup {f} |->
                                 IF x = f THEN t ELSE files[x]]
      <3>1. ASSUME NEW name \in DOMAIN files'
            PROVE  files'[name] = t \/ (name \in DOMAIN files
                                          /\ files'[name] = files[name])
        BY <2>6, <3>1
      <3>2. QED
        BY <2>2, <3>1 DEF Inv, FilesInv
    <2>7. QED
      BY <2>4, <2>5, <2>6
  <1>4. PICK r : Return(r)
    BY <1>1
  <1>5. QED
    BY <1>1, <1>3, <1>4, ReturnStep

\* A packet is handed on, or its interface is not there and main aborts.
LEMMA PacketHandler ==
  ASSUME Inv, HandlePacket
  PROVE  Inv'
  <1>1. /\ UNCHANGED <<net, sent, srv, eof, cleanup, rt, files, request>>
        /\ Reading /\ Complete
        /\ (pc' = "aborted" /\ rd' = rd) \/ (\E r : Return(r))
    BY DEF HandlePacket, Handles, serverVars
  <1>2. FilesInv'
    BY <1>1 DEF Inv, FilesInv
  <1>3. CASE pc' = "aborted" /\ rd' = rd
    <2>1. pc # "exit"
      BY <1>1 DEF Reading
    <2>2. StateTypes' /\ SentInv' /\ StartInv'
      BY <1>1, <1>3 DEF Inv, StateTypes, SentInv, StartInv
    <2>3. ReadInv'
      BY <1>1, <1>3, <2>1 DEF Inv, ReadInv
    <2>4. QED
      BY <1>1, <1>2, <1>3, <2>2, <2>3 DEF Inv
  <1>4. CASE \E r : Return(r)
    <2>1. PICK r : Return(r)
      BY <1>4
    <2>2. QED
      BY <1>1, <1>2, <2>1, ReturnStep
  <1>5. QED
    BY <1>1, <1>3, <1>4

-----------------------------------------------------------------------------
(* The server.                                                             *)

\* Where the server may be.
States == {"listens", "accepted", "asked", "judged", "open", "running",
           "closed"}

\* h is what the server sent, the salt perhaps forgotten.
SameCommands(h) ==
  /\ h \in Seq(ToSet(h)) /\ Len(h) = Len(sent)
  /\ \A n \in DOMAIN sent :
       /\ "mType" \in DOMAIN h[n] /\ h[n].mType = sent[n].mType
       /\ h[n].mType = "VNS_RTABLE" => h[n] = sent[n]

\* One more command follows those that are on their way.
LEMMA TransmitStep ==
  ASSUME Inv, NEW h, SameCommands(h), NEW mType, NEW body, NEW s \in States,
         TransmitAfter(h, mType, body, s),
         mType = "VNS_RTABLE" => body.rtable \in ServerTables /\ sent # <<>>,
         eof' = eof, request' = request \/ request' = None
  PROVE  Inv'
  <1> DEFINE c == [mType |-> mType, body |-> body]
             n == Len(h) + 1
             f == OctetsOf(n, c)
  <1>1. /\ sent' = Append(h, c) /\ net' = net \o f /\ srv' = s
        /\ UNCHANGED <<cleanup, files, rt, pc, rd>>
    BY DEF TransmitAfter, mainVars, OctetsOf
  <1>2. /\ h \in Seq(ToSet(h)) /\ Len(h) = Len(sent)
        /\ sent \in Seq(ToSet(sent)) /\ DOMAIN sent = 1..Len(sent)
        /\ Len(sent) \in Nat
    BY SentLengths DEF SameCommands
  <1>3. /\ c.mType = mType /\ c.body = body /\ "mType" \in DOMAIN c
        /\ c.mType = "VNS_RTABLE" => c.body.rtable \in ServerTables
    OBVIOUS
  <1>4. CommandLen(c) \in Nat
    BY <1>3, CommandLenType
  <1> HIDE DEF c
  <1>5. /\ sent' \in Seq(ToSet(sent')) /\ DOMAIN sent' = 1..(Len(sent) + 1)
        /\ \A m \in DOMAIN sent : sent'[m] = h[m]
        /\ sent'[Len(sent) + 1] = c /\ Len(sent') = Len(sent) + 1
    BY <1>1, <1>2, AppendOwn
  <1>6. ASSUME NEW m \in DOMAIN sent
        PROVE  /\ CommandLen(sent[m]) \in Nat /\ m \in DOMAIN sent'
               /\ CommandLen(sent'[m]) = CommandLen(sent[m])
    <2>1. sent'[m].mType = sent[m].mType
          /\ (sent'[m].mType = "VNS_RTABLE" => sent'[m] = sent[m])
      BY <1>5 DEF SameCommands
    <2>2. CommandLen(sent'[m]) = CommandLen(sent[m])
      BY <2>1 DEF CommandLen
    <2>3. QED
      BY <1>2, <1>5, <2>2, SentLengths
  <1>7. SentInv'
    <2>1. ASSUME NEW m \in DOMAIN sent'
          PROVE  /\ "mType" \in DOMAIN sent'[m]
                 /\ sent'[m].mType = "VNS_RTABLE" =>
                      sent'[m].body.rtable \in ServerTables
      <3>1. CASE m \in DOMAIN sent
        BY <1>5, <3>1 DEF SameCommands, Inv, SentInv
      <3>2. CASE m \notin DOMAIN sent
        <4>1. m = Len(sent) + 1
          BY <1>2, <1>5, <3>2
        <4>2. QED
          BY <1>3, <1>5, <4>1
      <3>3. QED
        BY <3>1, <3>2
    <2>2. QED
      BY <1>5, <2>1 DEF SentInv
  <1>8. StartInv'
    <2>1. sent' # <<>>
      BY <1>2, <1>5
    <2>2. sent'[1].mType # "VNS_RTABLE"
      <3>1. CASE sent = <<>>
        <4>1. sent'[1] = c
          BY <1>5, <3>1
        <4>2. QED
          BY <1>3, <3>1, <4>1
      <3>2. CASE sent # <<>>
        <4>1. 1 \in DOMAIN sent
          BY <1>2, <3>2
        <4>2. sent'[1].mType = sent[1].mType
          BY <1>5, <4>1 DEF SameCommands
        <4>3. QED
          BY <3>2, <4>2 DEF Inv, StartInv
      <3>3. QED
        BY <3>1, <3>2
    <2>3. QED
      BY <2>1, <2>2 DEF StartInv
  <1>9. rd.got \in Seq(Octet) /\ net \in Seq(Octet) /\ rd.len \in Nat
        /\ Len(rd.got) \in Nat
    BY DEF Inv, ReadInv
  <1> DEFINE q == rd.got \o net
  <1>10. q \in Seq(Octet) /\ Framed(q, sent) /\ IsConcat(rd.got, net, q)
    BY <1>9, ConcatFacts DEF Inv
  <1>11. f \in Seq(Octet) /\ Framed(q \o f, sent')
    <2>1. /\ n \in DOMAIN sent' \cap Nat /\ sent'[n] = c
      BY <1>2, <1>5
    <2>2. CommandLen(sent'[n]) \in Nat
          /\ f = OctetsOf(n, sent'[n])
      BY <1>4, <2>1
    <2>3. \A m \in DOMAIN sent : /\ CommandLen(sent[m]) \in Nat
                                 /\ m \in DOMAIN sent'
                                 /\ CommandLen(sent'[m]) = CommandLen(sent[m])
      BY <1>6
    <2> HIDE DEF q, f, n
    <2>4. ASSUME NEW t, t = sent'
          PROVE  f \in Seq(Octet) /\ Framed(q \o f, t)
      <3>1. /\ q \in Seq(Octet) /\ Framed(q, sent)
            /\ \A m \in DOMAIN sent : /\ CommandLen(sent[m]) \in Nat
                                      /\ m \in DOMAIN t
                                      /\ CommandLen(t[m]) = CommandLen(sent[m])
        BY <1>10, <2>3, <2>4
      <3>2. n \in DOMAIN t \cap Nat
        BY <2>1, <2>4
      <3>3. CommandLen(t[n]) \in Nat
        BY <2>2, <2>4
      <3>4. f = OctetsOf(n, t[n])
        BY <2>2, <2>4
      <3>5. QED
        BY <3>1, <3>2, <3>3, <3>4, MoreFramed
    <2>5. QED
      BY <2>4
  <1>12. q \o f = rd.got \o (net \o f)
    <2> HIDE DEF f, n
    <2>1. SameStream(rd.got \o net, f, rd.got, net \o f)
      BY <1>9, <1>11, StreamAssoc
    <2>2. QED
      BY <2>1 DEF SameStream
  <1>13. Framed(rd'.got \o net', sent')
    BY <1>1, <1>11, <1>12
  <1>14. net' \in Seq(Octet)
    <2> HIDE DEF f, n
    <2>1. net \o f \in Seq(Octet)
      BY <1>9, <1>11, ConcatFacts
    <2>2. QED
      BY <1>1, <2>1
  <1>15. ReadInv'
    <2>1. ASSUME rd.len # 0
          PROVE  rd.len = CommandLen(sent'[rd.got[1][1]])
      <3>1. LEN_OCTETS <= Len(rd.got)
            /\ rd.len = CommandLen(sent[rd.got[1][1]])
        BY <2>1 DEF Inv, ReadInv
      <3>2. 1 \in 1..Len(rd.got)
        BY <1>9, <3>1, CommandAssumption
      <3>3. q # <<>> /\ q[1] = rd.got[1]
        <4>1. q[1] = rd.got[1] /\ Len(q) = Len(rd.got) + Len(net)
          BY <1>10, <3>2 DEF IsConcat
        <4>2. Len(q) # 0
          BY <1>9, <3>2, <4>1
        <4>3. QED
          BY <4>1, <4>2
      <3>4. rd.got[1][1] \in DOMAIN sent
        <4> HIDE DEF q
        <4>1. \A m \in DOMAIN sent : CommandLen(sent[m]) \in Nat
          BY SentLengths
        <4>2. q[1][1] \in DOMAIN sent
          BY <1>10, <3>3, <4>1, FirstCommand
        <4>3. QED
          BY <3>3, <4>2
      <3>5. QED
        BY <1>6, <3>1, <3>4
    <2>2. QED
      BY <1>1, <1>14, <2>1 DEF Inv, ReadInv
  <1>16. StateTypes' /\ FilesInv'
    <2>1. srv' \in States
      BY <1>1
    <2>2. QED
      BY <1>1, <2>1 DEF Inv, StateTypes, FilesInv, States
  <1>17. QED
    BY <1>7, <1>8, <1>13, <1>15, <1>16 DEF Inv

\* What was sent is what was sent.
LEMMA SentSame ==
  ASSUME Inv
  PROVE  SameCommands(sent) /\ srv \in States
  BY DEF Inv, SentInv, StateTypes, SameCommands, States

\* The server sends a command.
LEMMA ServerSends ==
  ASSUME Inv, ServerAsks \/ ServerDescribes \/ ServerTalks \/ ServerCloses
  PROVE  Inv'
  <1>1. \E mType, body, s :
          /\ s \in States /\ TransmitAfter(sent, mType, body, s)
          /\ mType # "VNS_RTABLE"
    <2>1. CASE ServerAsks
      <3>1. PICK salt \in Salts :
              Transmit("VNS_AUTH_REQUEST", [salt |-> salt], "asked")
        BY <2>1 DEF ServerAsks
      <3>2. QED
        BY <3>1 DEF Transmit, States
    <2>2. CASE ServerDescribes
      <3>1. PICK hw \in Hardware :
              Transmit("VNSHWINFO", [mHWInfo |-> hw], "running")
        BY <2>2 DEF ServerDescribes
      <3>2. QED
        BY <3>1 DEF Transmit, States
    <2>3. CASE ServerTalks
      <3>1. \/ \E p \in Packets : Transmit("VNSPACKET", p, srv)
            \/ \E mType \in {"VNSBANNER", "unknown"} :
                 Transmit(mType, <<>>, srv)
        BY <2>3 DEF ServerTalks
      <3>2. CASE \E p \in Packets : Transmit("VNSPACKET", p, srv)
        <4>1. PICK p \in Packets : Transmit("VNSPACKET", p, srv)
          BY <3>2
        <4>2. TransmitAfter(sent, "VNSPACKET", p, srv)
          BY <4>1 DEF Transmit
        <4>3. QED
          BY <4>2, SentSame
      <3>3. CASE \E mType \in {"VNSBANNER", "unknown"} :
                   Transmit(mType, <<>>, srv)
        <4>1. PICK mType \in {"VNSBANNER", "unknown"} :
                TransmitAfter(sent, mType, <<>>, srv)
          BY <3>3 DEF Transmit
        <4>2. mType # "VNS_RTABLE"
          OBVIOUS
        <4>3. QED
          BY <4>1, <4>2, SentSame
      <3>4. QED
        BY <3>1, <3>2, <3>3
    <2>4. CASE ServerCloses
      <3>1. TransmitAfter(sent, "VNSCLOSE", <<>>, "closed")
        BY <2>4 DEF ServerCloses, Transmit
      <3>2. QED
        BY <3>1 DEF States
    <2>5. QED
      BY <2>1, <2>2, <2>3, <2>4
  <1>2. eof' = eof /\ request' = request
    BY DEF ServerAsks, ServerDescribes, ServerTalks, ServerCloses
  <1>3. PICK mType, body, s :
          /\ s \in States /\ TransmitAfter(sent, mType, body, s)
          /\ mType # "VNS_RTABLE"
    BY <1>1
  <1>4. QED
    BY <1>2, <1>3, SentSame, TransmitStep

\* The server judges the digest and forgets the salt.
LEMMA ServerJudgesStep ==
  ASSUME Inv, ServerJudges
  PROVE  Inv'
  <1> DEFINE h == [sent EXCEPT ![1].body = <<>>]
  <1>1. /\ request.mType = "VNS_AUTH_REPLY" /\ eof' = eof /\ request' = None
        /\ \E ok : TransmitAfter(h, "VNS_AUTH_STATUS", [auth_ok |-> ok],
                                 "judged")
    BY DEF ServerJudges
  <1>2. /\ sent # <<>> /\ sent[1].mType # "VNS_RTABLE"
        /\ sent \in Seq(ToSet(sent)) /\ DOMAIN sent = 1..Len(sent)
        /\ Len(sent) \in Nat
    BY <1>1, SentLengths DEF Inv, StartInv
  <1>3. SameCommands(h)
    <2>1. 1 \in DOMAIN sent /\ "mType" \in DOMAIN sent[1]
      BY <1>2 DEF Inv, SentInv
    <2>2. /\ DOMAIN h = DOMAIN sent
          /\ h[1].mType = sent[1].mType /\ "mType" \in DOMAIN h[1]
          /\ \A m \in DOMAIN sent : m # 1 => h[m] = sent[m]
      BY <2>1
    <2>3. h \in Seq(ToSet(sent) \cup {h[1]})
      <3>1. \A m \in DOMAIN sent : h[m] \in ToSet(sent) \cup {h[1]}
        <4>1. \A m \in DOMAIN sent : sent[m] \in ToSet(sent)
          BY <1>2 DEF ToSet
        <4>2. QED
          BY <2>2, <4>1
      <3>2. h = [m \in 1..Len(sent) |-> h[m]]
        BY <1>2, <2>2
      <3> HIDE DEF h
      <3>3. QED
        BY <1>2, <3>1, <3>2
    <2> HIDE DEF h
    <2>4. h \in Seq(ToSet(h)) /\ Len(h) = Len(sent)
      <3>1. DOMAIN h = 1..Len(h) /\ Len(h) \in Nat
        BY <2>3
      <3>2. Len(h) = Len(sent)
        BY <1>2, <2>2, <3>1
      <3>3. QED
        BY <2>3, <3>2, OwnElements
    <2>5. \A n \in DOMAIN sent :
            /\ "mType" \in DOMAIN h[n] /\ h[n].mType = sent[n].mType
            /\ h[n].mType = "VNS_RTABLE" => h[n] = sent[n]
      BY <1>2, <2>2 DEF Inv, SentInv
    <2>6. QED
      BY <2>4, <2>5 DEF SameCommands
  <1> HIDE DEF h
  <1>4. PICK ok : TransmitAfter(h, "VNS_AUTH_STATUS", [auth_ok |-> ok],
                                "judged")
    BY <1>1
  <1>5. "judged" \in States
    BY DEF States
  <1>6. QED
    BY <1>1, <1>3, <1>4, <1>5, TransmitStep

\* The server takes the request for a topology, and may send its table.
LEMMA ServerOpensStep ==
  ASSUME Inv, ServerOpens
  PROVE  Inv'
  <1>1. /\ request.mType \in {"VNSOPEN", "VNS_OPEN_TEMPLATE"}
        /\ eof' = eof /\ request' = None
    BY DEF ServerOpens
  <1>2. sent # <<>>
    BY <1>1 DEF Inv, StartInv
  <1>3. "open" \in States
    BY DEF States
  <1>4. CASE request.mType = "VNSOPEN"
    <2>1. srv' = "open"
          /\ UNCHANGED <<cleanup, files, rt, pc, rd, sent, net>>
      BY <1>4 DEF ServerOpens, mainVars
    <2>2. StateTypes' /\ SentInv' /\ FilesInv' /\ ReadInv'
      BY <1>1, <2>1 DEF Inv, StateTypes, SentInv, FilesInv, ReadInv
    <2>3. StartInv'
      BY <1>2, <2>1 DEF Inv, StartInv
    <2>4. QED
      BY <2>1, <2>2, <2>3 DEF Inv
  <1>5. CASE request.mType # "VNSOPEN"
    <2>1. PICK t \in ServerTables :
            TransmitAfter(sent, "VNS_RTABLE",
                          [mVirtualHostID |-> request.mVirtualHostID,
                           rtable |-> t], "open")
      BY <1>5 DEF ServerOpens, Transmit
    <2>2. PICK body : body = [mVirtualHostID |-> request.mVirtualHostID,
                              rtable |-> t]
      OBVIOUS
    <2>3. body.rtable \in ServerTables
          /\ TransmitAfter(sent, "VNS_RTABLE", body, "open")
      BY <2>1, <2>2
    <2>4. QED
      BY <1>1, <1>2, <1>3, <2>3, SentSame, TransmitStep
  <1>6. QED
    BY <1>4, <1>5

\* The connection ends.
LEMMA ServerDropsStep ==
  ASSUME Inv, ServerDrops
  PROVE  Inv'
  <1>1. /\ eof' = TRUE
        /\ UNCHANGED <<cleanup, files, rt, sent, srv, pc, rd, net, request>>
    BY DEF ServerDrops, mainVars
  <1>2. StateTypes' /\ SentInv' /\ FilesInv' /\ ReadInv' /\ StartInv'
    BY <1>1 DEF Inv, StateTypes, SentInv, FilesInv, ReadInv, StartInv
  <1>3. QED
    BY <1>1, <1>2 DEF Inv

-----------------------------------------------------------------------------
(* Theorems.                                                               *)

\* Every step keeps the invariant.
LEMMA NextInv ==
  Inv /\ [Next]_vars => Inv'
  <1> SUFFICES ASSUME Inv, [Next]_vars
               PROVE  Inv'
    OBVIOUS
  <1>1. CASE Router
    <2>1. CASE LoadTable \/ ReloadTable
      BY <2>1, LoadSteps
    <2>2. CASE Connect \/ SendOpen \/ sr_init
      BY <2>2, OtherSteps
    <2>3. CASE Recv
      BY <2>3, RecvStep
    <2>4. CASE Handle
      <3>1. CASE HandlePacket
        BY <3>1, PacketHandler
      <3>2. CASE sr_handle_rtable
        BY <3>2, TableHandler
      <3>3. CASE \/ UnexpectedCommand \/ HandleClose \/ HandleOther
                 \/ sr_handle_auth_request \/ sr_handle_auth_status
                 \/ sr_handle_hwinfo
        BY <3>3, PlainHandlers
      <3>4. QED
        BY <2>4, <3>1, <3>2, <3>3 DEF Handle
    <2>5. QED
      BY <1>1, <2>1, <2>2, <2>3, <2>4 DEF Router
  <1>2. CASE RecvFails
    BY <1>2, RecvFailsStep
  <1>3. CASE Server
    BY <1>3, ServerSends, ServerJudgesStep, ServerOpensStep, ServerDropsStep
       DEF Server
  <1>4. CASE UNCHANGED vars
    <2>1. UNCHANGED <<cleanup, files, rt, sent, srv, eof, pc, rd, net, request>>
      BY <1>4 DEF vars, mainVars, serverVars
    <2>2. StateTypes' /\ SentInv' /\ FilesInv' /\ ReadInv' /\ StartInv'
      BY <2>1 DEF Inv, StateTypes, SentInv, FilesInv, ReadInv, StartInv
    <2>3. QED
      BY <2>1, <2>2 DEF Inv
  <1>5. QED
    BY <1>1, <1>2, <1>3, <1>4 DEF Next

\* What holds of the session at every moment: the invariant from which the
\* theorems below follow.
THEOREM Inductive ==
  Spec => []Inv
  <1>1. QED
    BY InitInv, NextInv, PTL DEF Spec

\* main is where its code has a place, no command of more than MAX_COMMAND
\* octets is read, and the routing table holds addresses whatever the file or
\* the server says: sr_load_rt stops at the first that inet_aton refuses.
THEOREM StateTyped ==
  Spec => []StateTypes
  <1>1. Inv => StateTypes
    BY DEF Inv
  <1>2. QED
    BY <1>1, Inductive, PTL

\* However TCP cuts the stream, sr_read_from_server_expect dispatches whole
\* commands of the server, for commands of any length.
THEOREM CommandsWhole ==
  Spec => []FramesWhole
  <1>1. Inv => FramesWhole
    <2>1. SUFFICES ASSUME Inv, Complete
                   PROVE  rd.got = [k \in 1..CommandLen(sent[rd.got[1][1]]) |->
                                      <<rd.got[1][1], k>>]
      BY DEF FramesWhole
    <2>2. PICK n : n = rd.got[1][1]
      OBVIOUS
    <2>3. QED
      BY <2>1, <2>2, WholeCommand
  <1>2. QED
    BY <1>1, Inductive, PTL

-----------------------------------------------------------------------------
(* The order of the stream.                                                *)

\* What the router has not taken in yet.
Stream == rd.got \o net

\* Of the octets q each is followed by the next of its command or by the first
\* of the next command, and the last is the last of the history s.
InOrder(q, s) ==
  /\ \A i \in 1..(Len(q) - 1) :
       q[i + 1] \in {<<q[i][1], q[i][2] + 1>>, <<q[i][1] + 1, 1>>}
  /\ q # <<>> => q[Len(q)] = <<Len(s), CommandLen(s[Len(s)])>>

\* How many of the commands s are not among the octets q.
Taken(q, s) == IF q = <<>> THEN Len(s) ELSE q[1][1] - 1

\* Without its first command the rest begins with the next.
LEMMA OrderRest ==
  ASSUME NEW a \in Seq(Octet), NEW b \in Seq(Octet), NEW s,
         InOrder(a \o b, s), Framed(b, s), NEW n \in Nat,
         NEW L \in Nat, L >= 1, Len(a) = L,
         \A k \in 1..L : a[k] = <<n, k>>,
         \A m \in DOMAIN s : CommandLen(s[m]) \in Nat
  PROVE  InOrder(b, s) /\ Taken(b, s) = n
  <1> DEFINE q == a \o b
  <1>1. /\ q \in Seq(Octet) /\ IsConcat(a, b, q)
        /\ Len(b) \in Nat
    BY ConcatFacts
  <1>2. InOrder(q, s)
    OBVIOUS
  <1> HIDE DEF q
  <1>3. /\ Len(q) = L + Len(b) /\ q[L] = <<n, L>>
        /\ \A i \in 1..Len(b) : q[L + i] = b[i]
    <2>1. L \in 1..L
      OBVIOUS
    <2>2. QED
      BY <1>1, <2>1 DEF IsConcat
  <1>4. CASE b = <<>>
    <2>1. Len(q) = L /\ q # <<>>
      BY <1>1, <1>3, <1>4
    <2>2. <<n, L>> = <<Len(s), CommandLen(s[Len(s)])>>
      BY <1>2, <1>3, <2>1 DEF InOrder
    <2>3. n = Len(s)
      BY <2>2
    <2>4. QED
      BY <1>4, <2>3 DEF InOrder, Taken
  <1>5. CASE b # <<>>
    <2>1. 1 \in 1..Len(b) /\ L \in 1..(Len(q) - 1) /\ Len(b) >= 1
      BY <1>1, <1>3, <1>5
    <2>2. q[L + 1] = b[1]
      BY <1>3, <2>1
    <2>3. b[1] \in {<<n, L + 1>>, <<n + 1, 1>>}
      <3>1. q[L][1] = n /\ q[L][2] = L
        BY <1>3
      <3>2. q[L + 1] \in {<<q[L][1], q[L][2] + 1>>, <<q[L][1] + 1, 1>>}
        BY <1>2, <2>1 DEF InOrder
      <3>3. QED
        BY <2>2, <3>1, <3>2
    <2>4. b[1] = <<b[1][1], 1>>
      <3>1. PICK m : m = b[1][1]
        OBVIOUS
      <3>2. m \in DOMAIN s /\ FrameAt(b, s, 0, m)
        BY <1>5, <3>1, FirstCommand
      <3>3. 1 \in 1..CommandLen(s[m])
        <4>1. PICK o \in 0..(1 - 1), l \in DOMAIN s :
                FrameAt(b, s, o, l) /\ 1 <= o + CommandLen(s[l])
          <5>1. 1 \in DOMAIN b
            BY <2>1
          <5>2. QED
            BY <5>1 DEF Framed
        <4>2. o = 0 /\ 1 \in 1..CommandLen(s[l])
          BY <4>1
        <4>3. b[1] = <<l, 1>>
          BY <4>1, <4>2 DEF FrameAt
        <4>4. QED
          BY <3>1, <4>2, <4>3
      <3>4. b[0 + 1] = <<m, 1>>
        BY <3>2, <3>3 DEF FrameAt
      <3>5. QED
        BY <3>1, <3>4
    <2>5. b[1][2] = 1
      BY <2>4
    <2>6. b[1] = <<n + 1, 1>>
      <3>1. b[1] # <<n, L + 1>>
        BY <2>5
      <3>2. QED
        BY <2>3, <3>1
    <2>7. ASSUME NEW i \in 1..(Len(b) - 1)
          PROVE  b[i + 1] \in {<<b[i][1], b[i][2] + 1>>, <<b[i][1] + 1, 1>>}
      <3>1. /\ i \in 1..Len(b) /\ i + 1 \in 1..Len(b)
            /\ L + i \in 1..(Len(q) - 1) /\ L + (i + 1) = (L + i) + 1
        BY <1>1, <1>3
      <3>2. q[(L + i) + 1] = b[i + 1] /\ q[L + i] = b[i]
        BY <1>3, <3>1
      <3>3. QED
        BY <1>2, <3>1, <3>2 DEF InOrder
    <2>8. b[Len(b)] = q[Len(q)] /\ q # <<>>
      <3>1. Len(b) \in 1..Len(b) /\ Len(q) # 0
        BY <1>1, <1>3, <2>1
      <3>2. QED
        BY <1>3, <3>1
    <2>9. InOrder(b, s)
      BY <1>2, <2>7, <2>8 DEF InOrder
    <2>10. Taken(b, s) = n
      <3>1. b[1][1] = n + 1
        BY <2>6
      <3>2. QED
        BY <1>5, <3>1 DEF Taken
    <2>11. QED
      BY <2>9, <2>10
  <1>6. QED
    BY <1>4, <1>5

\* One command more at the end.
LEMMA OrderMore ==
  ASSUME NEW q \in Seq(Octet), NEW s, InOrder(q, s), Len(s) \in Nat, NEW t,
         Len(t) = Len(s) + 1, NEW n, n = Len(s) + 1,
         CommandLen(t[n]) \in Nat, CommandLen(t[n]) >= 1,
         q # <<>> => CommandLen(t[Len(s)]) = CommandLen(s[Len(s)]),
         NEW f, f = OctetsOf(n, t[n])
  PROVE  InOrder(q \o f, t) /\ Taken(q \o f, t) = Taken(q, s)
  <1> DEFINE L == CommandLen(t[n])
             r == q \o f
  <1>0. L \in Nat /\ L >= 1 /\ n \in Nat
    OBVIOUS
  <1>1. f \in Seq(Octet) /\ Len(f) = L /\ \A k \in 1..L : f[k] = <<n, k>>
    <2>1. \A k \in 1..L : <<n, k>> \in Octet
      BY <1>0 DEF Octet
    <2>2. f = [k \in 1..L |-> <<n, k>>]
      BY DEF OctetsOf
    <2> HIDE DEF L
    <2>3. QED
      BY <1>0, <2>1, <2>2
  <1>2. r \in Seq(Octet) /\ IsConcat(q, f, r) /\ Len(q) \in Nat
    BY <1>1, ConcatFacts
  <1>3. L = CommandLen(t[Len(t)])
    OBVIOUS
  <1> HIDE DEF L, r
  <1>4. /\ Len(r) = Len(q) + L
        /\ \A i \in 1..Len(q) : r[i] = q[i]
        /\ \A k \in 1..L : r[Len(q) + k] = <<n, k>>
    BY <1>1, <1>2 DEF IsConcat
  <1>5. r # <<>> /\ r[Len(r)] = <<Len(t), CommandLen(t[Len(t)])>>
    <2>1. L \in 1..L /\ Len(r) # 0
      BY <1>0, <1>2, <1>4
    <2>2. QED
      BY <1>3, <1>4, <2>1
  <1>6. ASSUME NEW i \in 1..(Len(r) - 1)
        PROVE  r[i + 1] \in {<<r[i][1], r[i][2] + 1>>, <<r[i][1] + 1, 1>>}
    <2>1. CASE i < Len(q)
      <3>1. i \in 1..(Len(q) - 1) /\ i \in 1..Len(q) /\ i + 1 \in 1..Len(q)
        BY <1>0, <1>2, <1>4, <2>1
      <3>2. QED
        BY <1>4, <3>1 DEF InOrder
    <2>2. CASE i = Len(q)
      <3>1. 1 \in 1..L /\ i \in 1..Len(q) /\ q # <<>>
        BY <1>0, <1>2, <2>2
      <3>2. r[i + 1] = <<n, 1>> /\ r[i] = q[Len(q)]
        BY <1>4, <2>2, <3>1
      <3>3. q[Len(q)][1] = Len(s)
        BY <3>1 DEF InOrder
      <3>4. QED
        BY <3>2, <3>3
    <2>3. CASE i > Len(q)
      <3>1. PICK k \in Int : k = i - Len(q)
        BY <1>2
      <3>2. k \in 1..L /\ k + 1 \in 1..L /\ i = Len(q) + k
            /\ i + 1 = Len(q) + (k + 1)
        BY <1>0, <1>2, <1>4, <2>3, <3>1, SMTT(30)
      <3>3. r[i] = <<n, k>> /\ r[i + 1] = <<n, k + 1>>
        BY <1>4, <3>2
      <3>4. r[i][1] = n /\ r[i][2] = k
        BY <3>3
      <3>5. QED
        BY <3>3, <3>4
    <2>4. QED
      BY <1>2, <2>1, <2>2, <2>3
  <1>7. InOrder(r, t)
    BY <1>5, <1>6 DEF InOrder
  <1>8. Taken(r, t) = Taken(q, s)
    <2>1. CASE q = <<>>
      <3>1. Len(q) = 0 /\ 1 \in 1..L
        BY <1>0, <2>1
      <3>2. r[0 + 1] = <<n, 1>>
        BY <1>4, <3>1
      <3>3. r[1][1] = Len(s) + 1
        BY <3>2
      <3>4. QED
        BY <1>5, <2>1, <3>3 DEF Taken
    <2>2. CASE q # <<>>
      <3>1. 1 \in 1..Len(q)
        BY <1>2, <2>2
      <3>2. QED
        BY <1>4, <1>5, <2>2, <3>1 DEF Taken
    <2>3. QED
      BY <2>1, <2>2
  <1>9. QED
    BY <1>7, <1>8 DEF r

\* The stream is in this order.
OrderInv == InOrder(Stream, sent)

\* How many commands were taken in does not depend on where the border
\* between read and unread is.
LEMMA Border ==
  ASSUME NEW g \in Seq(Octet), NEW r \in Seq(Octet), NEW s
  PROVE  Taken(g \o r, s) = IF g # <<>> THEN g[1][1] - 1
                            ELSE IF r # <<>> THEN r[1][1] - 1 ELSE Len(s)
  <1>1. CASE g = <<>>
    <2>1. g \o r = r
      BY <1>1
    <2>2. QED
      BY <1>1, <2>1 DEF Taken
  <1>2. CASE g # <<>>
    <2>1. IsConcat(g, r, g \o r) /\ Len(g) \in Nat /\ Len(r) \in Nat
      BY ConcatFacts
    <2>2. 1 \in 1..Len(g)
      BY <1>2, <2>1
    <2>3. (g \o r)[1] = g[1] /\ Len(g \o r) # 0
      BY <2>1, <2>2 DEF IsConcat
    <2>4. g \o r # <<>>
      BY <2>3
    <2>5. QED
      BY <1>2, <2>3, <2>4 DEF Taken
  <1>3. QED
    BY <1>1, <1>2

\* The commands that the router has taken in are among those sent.
LEMMA Position ==
  ASSUME Inv
  PROVE  /\ Consumed = Taken(Stream, sent) /\ Consumed \in 0..Len(sent)
         /\ Stream \in Seq(Octet) /\ Framed(Stream, sent)
         /\ Len(sent) \in Nat /\ DOMAIN sent = 1..Len(sent)
  <1>1. rd.got \in Seq(Octet) /\ net \in Seq(Octet)
    BY DEF Inv, ReadInv
  <1>2. Consumed = Taken(Stream, sent)
    BY <1>1, Border DEF Consumed, Stream
  <1>3. Stream \in Seq(Octet)
    BY <1>1, ConcatFacts DEF Stream
  <1>4. Framed(Stream, sent)
    BY DEF Inv, Stream
  <1>5. /\ Len(sent) \in Nat /\ DOMAIN sent = 1..Len(sent)
        /\ \A n \in DOMAIN sent : CommandLen(sent[n]) \in Nat
    BY SentLengths
  <1>6. Consumed \in 0..Len(sent)
    <2>1. CASE Stream = <<>>
      BY <1>2, <1>5, <2>1 DEF Taken
    <2>2. CASE Stream # <<>>
      <3>1. Stream[1][1] \in DOMAIN sent
        BY <1>3, <1>4, <1>5, <2>2, FirstCommand
      <3>2. QED
        BY <1>2, <1>5, <2>2, <3>1 DEF Taken
    <2>3. QED
      BY <2>1, <2>2
  <1>7. QED
    BY <1>2, <1>3, <1>4, <1>5, <1>6

\* A step that neither handles a command nor sends one.
LEMMA QuietOrder ==
  ASSUME Inv, Inv', OrderInv, sent' = sent, Stream' = Stream
  PROVE  OrderInv' /\ Consumed' = Consumed
  <1>1. rd'.got \in Seq(Octet) /\ net' \in Seq(Octet)
    BY DEF Inv, ReadInv
  <1>2. Consumed' = Taken(Stream', sent')
    BY <1>1, Border DEF Consumed, Stream
  <1>3. QED
    BY <1>2, Position DEF OrderInv

\* recv moves the border.
LEMMA RecvOrder ==
  ASSUME Inv, Recv
  PROVE  Stream' = Stream /\ pc' \in {pc, "exit"}
  <1>1. PICK k \in 1..Len(net) :
          /\ net' = SubSeq(net, k + 1, Len(net))
          /\ rd'.got = rd.got \o SubSeq(net, 1, k)
          /\ pc' \in {pc, "exit"}
    <2>1. PICK k \in 1..Len(net) :
            /\ net' = SubSeq(net, k + 1, Len(net))
            /\ LET got == rd.got \o SubSeq(net, 1, k)
               IN IF rd.len = 0 /\ Len(got) = LEN_OCTETS
                  THEN \E len \in LengthsOf(got) :
                         /\ rd' = [got |-> got, len |-> len]
                         /\ pc' = IF len > MAX_COMMAND THEN "exit" ELSE pc
                  ELSE rd' = [rd EXCEPT !.got = got] /\ pc' = pc
      BY DEF Recv
    <2> DEFINE got == rd.got \o SubSeq(net, 1, k)
    <2>2. /\ pc' \in {pc, "exit"}
          /\ \/ \E len : rd' = [got |-> got, len |-> len]
             \/ rd' = [rd EXCEPT !.got = got]
      <3>1. CASE rd.len = 0 /\ Len(got) = LEN_OCTETS
        <4>1. PICK len \in LengthsOf(got) :
                /\ rd' = [got |-> got, len |-> len]
                /\ pc' = IF len > MAX_COMMAND THEN "exit" ELSE pc
          BY <2>1, <3>1
        <4>2. QED
          BY <4>1
      <3>2. CASE ~(rd.len = 0 /\ Len(got) = LEN_OCTETS)
        BY <2>1, <3>2
      <3>3. QED
        BY <3>1, <3>2
    <2>3. rd \in [got : Seq(Octet), len : Nat]
      BY DEF Inv, ReadInv
    <2> HIDE DEF got
    <2>4. rd'.got = got
      BY <2>2, <2>3
    <2>5. QED
      BY <2>1, <2>2, <2>4 DEF got
  <1>2. rd.got \in Seq(Octet) /\ net \in Seq(Octet)
    BY DEF Inv, ReadInv
  <1>3. SameStream(rd'.got, net', rd.got, net)
    <2>1. BorderMoved(rd.got, net, k, rd'.got, net')
      BY <1>1 DEF BorderMoved
    <2>2. k \in 0..Len(net)
      BY <1>2
    <2>3. QED
      BY <1>2, <2>1, <2>2, BorderSame
  <1>4. QED
    BY <1>1, <1>3 DEF SameStream, Stream

\* The command that is handled is the next.
LEMMA HandleOrder ==
  ASSUME Inv, Inv', OrderInv, Complete, rd' = NothingRead,
         UNCHANGED <<net, sent>>
  PROVE  /\ OrderInv' /\ Consumed' = Consumed + 1 /\ Consumed \in Nat
         /\ Consumed + 1 \in DOMAIN sent /\ Command = sent[Consumed + 1]
  <1>1. PICK n : n = rd.got[1][1]
    OBVIOUS
  <1>2. /\ n \in DOMAIN sent /\ Command = sent[n] /\ Framed(net, sent)
        /\ rd.got = OctetsOf(n, sent[n])
    BY <1>1, WholeCommand DEF OctetsOf
  <1>3. rd.got \in Seq(Octet) /\ net \in Seq(Octet)
    BY DEF Inv, ReadInv
  <1>4. /\ \A m \in DOMAIN sent : CommandLen(sent[m]) \in Nat
        /\ CommandLen(sent[n]) >= 1 /\ n \in Nat
    <2>1. \A m \in DOMAIN sent : CommandLen(sent[m]) \in Nat
                                 /\ LEN_OCTETS + 1 <= CommandLen(sent[m])
      BY SentLengths
    <2>2. DOMAIN sent = 1..Len(sent)
      BY SentLengths
    <2>3. QED
      BY <1>2, <2>1, <2>2, CommandAssumption
  <1>5. PICK L \in Nat : L = CommandLen(sent[n]) /\ L >= 1
    BY <1>2, <1>4
  <1>6. Len(rd.got) = L /\ \A k \in 1..L : rd.got[k] = <<n, k>>
    <2>1. rd.got = [k \in 1..L |-> <<n, k>>]
      BY <1>2, <1>5 DEF OctetsOf
    <2>2. QED
      BY <1>5, <2>1
  <1>7. InOrder(rd.got \o net, sent)
    BY DEF OrderInv, Stream
  <1>8. InOrder(net, sent) /\ Taken(net, sent) = n
    BY <1>2, <1>3, <1>4, <1>5, <1>6, <1>7, OrderRest
  <1>9. rd'.got = <<>> /\ Stream' = net
    BY <1>3 DEF NothingRead, Stream
  <1>10. OrderInv'
    BY <1>8, <1>9 DEF OrderInv
  <1>11. Consumed' = n
    BY <1>8, <1>9 DEF Consumed, Taken
  <1>12. Consumed = n - 1
    <2>1. rd.got # <<>>
      BY <1>3, <1>5, <1>6
    <2>2. QED
      BY <1>1, <2>1 DEF Consumed
  <1>13. Consumed + 1 = n /\ Consumed \in Nat
    <2>1. n \in 1..Len(sent)
      BY <1>2, SentLengths
    <2>2. QED
      BY <1>4, <1>12, <2>1
  <1>14. QED
    BY <1>2, <1>10, <1>11, <1>13

\* h is what the server sent, but for the salt.
KeptCommands(h) ==
  /\ Len(h) = Len(sent) /\ h \in Seq(ToSet(h))
  /\ \A n \in DOMAIN sent :
       /\ h[n].mType = sent[n].mType
       /\ sent[n].mType # "VNS_AUTH_REQUEST" => h[n] = sent[n]

\* The server has sent one more command, of that type.
Extended(mType, body) ==
  /\ Len(sent) \in Nat /\ DOMAIN sent = 1..Len(sent)
  /\ DOMAIN sent' = 1..(Len(sent) + 1)
  /\ \A n \in DOMAIN sent :
       /\ sent'[n].mType = sent[n].mType
       /\ sent[n].mType # "VNS_AUTH_REQUEST" => sent'[n] = sent[n]
  /\ sent'[Len(sent) + 1].mType = mType
  /\ sent'[Len(sent) + 1].body = body
  /\ Consumed \in 0..Len(sent) /\ Consumed' = Consumed

\* The router has taken in no more than before.
LEMMA TransmitOrder ==
  ASSUME Inv, Inv', OrderInv, NEW h, KeptCommands(h), NEW mType, NEW body,
         NEW s, TransmitAfter(h, mType, body, s)
  PROVE  OrderInv' /\ Extended(mType, body)
  <1> DEFINE c == [mType |-> mType, body |-> body]
             n == Len(h) + 1
             f == OctetsOf(n, c)
  <1>1. sent' = Append(h, c) /\ net' = net \o f /\ rd' = rd
    BY DEF TransmitAfter, OctetsOf
  <1>2. /\ Len(sent) \in Nat /\ DOMAIN sent = 1..Len(sent)
        /\ Len(h) = Len(sent) /\ Consumed \in 0..Len(sent)
        /\ Consumed = Taken(Stream, sent) /\ Stream \in Seq(Octet)
        /\ h \in Seq(ToSet(h))
    BY Position DEF KeptCommands
  <1>3. c.mType = mType /\ c.body = body
    OBVIOUS
  <1> HIDE DEF c
  <1>4. /\ Len(sent') = Len(sent) + 1 /\ DOMAIN sent' = 1..(Len(sent) + 1)
        /\ \A m \in DOMAIN sent : sent'[m] = h[m]
        /\ sent'[Len(sent) + 1] = c
    BY <1>1, <1>2, AppendOwn
  <1>5. \A m \in DOMAIN sent :
          /\ sent'[m].mType = sent[m].mType
          /\ sent[m].mType # "VNS_AUTH_REQUEST" => sent'[m] = sent[m]
    BY <1>4 DEF KeptCommands
  <1>6. \A m \in DOMAIN sent : CommandLen(sent'[m]) = CommandLen(sent[m])
    BY <1>5 DEF CommandLen
  <1>7. CommandLen(sent'[n]) \in Nat /\ CommandLen(sent'[n]) >= 1
    <2>1. n \in DOMAIN sent'
      BY <1>2, <1>4
    <2>2. sent'[n].mType = "VNS_RTABLE" =>
            sent'[n].body.rtable \in ServerTables
      BY <2>1 DEF Inv, SentInv
    <2>3. QED
      BY <2>2, CommandLenType, CommandAssumption
  <1>8. /\ rd.got \in Seq(Octet) /\ net \in Seq(Octet)
        /\ rd'.got \in Seq(Octet) /\ net' \in Seq(Octet)
    BY DEF Inv, ReadInv
  <1>9. sent'[n] = c
    BY <1>2, <1>4
  <1>10. PICK t : t = sent'
    OBVIOUS
  <1>11. InOrder(Stream \o f, t) /\ Taken(Stream \o f, t) = Taken(Stream, sent)
    <2>1. f = OctetsOf(n, t[n]) /\ n = Len(sent) + 1
      BY <1>2, <1>9, <1>10
    <2>2. Len(t) = Len(sent) + 1
      BY <1>4, <1>10
    <2>3. CommandLen(t[n]) \in Nat /\ CommandLen(t[n]) >= 1
      BY <1>7, <1>10
    <2>4. Stream # <<>> => CommandLen(t[Len(sent)]) = CommandLen(sent[Len(sent)])
      <3>1. SUFFICES ASSUME Stream # <<>>
                     PROVE  Len(sent) \in DOMAIN sent
        BY <1>6, <1>10
      <3>2. Stream[1][1] \in DOMAIN sent
        BY <3>1, Position, SentLengths, FirstCommand
      <3>3. QED
        BY <1>2, <3>2
    <2> HIDE DEF n, f
    <2>5. InOrder(Stream, sent)
      BY DEF OrderInv
    <2>6. QED
      BY <1>2, <2>1, <2>2, <2>3, <2>4, <2>5, OrderMore
  <1>12. f \in Seq(Octet)
    <2>1. f = [k \in 1..CommandLen(c) |-> <<n, k>>]
      BY DEF OctetsOf
    <2>2. CommandLen(c) \in Nat /\ n \in Nat
      BY <1>2, <1>7, <1>9
    <2>3. \A k \in 1..CommandLen(c) : <<n, k>> \in Octet
      BY <2>2 DEF Octet
    <2> HIDE DEF n
    <2>4. QED
      BY <2>1, <2>2, <2>3
  <1> HIDE DEF n, f
  <1>13. Stream' = Stream \o f
    <2>1. SameStream(rd.got \o net, f, rd.got, net \o f)
      BY <1>8, <1>12, StreamAssoc
    <2>2. QED
      BY <1>1, <2>1 DEF SameStream, Stream
  <1>14. Consumed' = Taken(Stream', sent')
    BY <1>8, Border DEF Consumed, Stream
  <1>15. Consumed' = Consumed /\ OrderInv'
    BY <1>2, <1>10, <1>11, <1>13, <1>14 DEF OrderInv
  <1>16. QED
    BY <1>2, <1>3, <1>4, <1>5, <1>15 DEF Extended

-----------------------------------------------------------------------------
(* The history of the session.                                             *)

\* The numbers of the commands of that type.
Numbers(s, mType) == {n \in DOMAIN s : s[n].mType = mType}

\* Only the first command is a request to authenticate, there is one table, of
\* the host, and one description of the hardware, and packets come after it,
\* on its interfaces.
HistoryInv ==
  /\ Numbers(sent, "VNS_AUTH_REQUEST") \subseteq {1}
  /\ \A mType \in {"VNS_RTABLE", "VNSHWINFO"} :
       \A m, n \in Numbers(sent, mType) : m = n
  /\ \A n \in Numbers(sent, "VNS_RTABLE") :
       args.template /\ sent[n].body.mVirtualHostID = args.host
  /\ \A n \in Numbers(sent, "VNSHWINFO") : sent[n].body.mHWInfo \in Hardware
  /\ \A n \in Numbers(sent, "VNSPACKET") :
       \E m \in Numbers(sent, "VNSHWINFO") :
         m < n /\ Names(sent[m].body.mHWInfo, sent[n].body.iface)

\* The requests for a topology.
Opens == {"VNSOPEN", "VNS_OPEN_TEMPLATE"}

\* Neither a table nor hardware nor a packet was sent.
NothingYet ==
  /\ srv \notin {"open", "running"}
  /\ \A mType \in {"VNS_RTABLE", "VNSHWINFO", "VNSPACKET"} :
       Numbers(sent, mType) = {}

\* Where main is before it asks for a topology.
Early == {"load", "connect", "VNS_AUTH_REQUEST", "VNS_AUTH_STATUS", "open"}

\* Where the server is.
ServerInv ==
  /\ srv \in {"listens", "accepted"} => sent = <<>>
  /\ pc \in {"load", "connect"} => srv = "listens"
  /\ pc \in Early => NothingYet /\ request.mType \notin Opens
  /\ request.mType \in Opens =>
       NothingYet /\ request.mVirtualHostID = args.host
  /\ request.mType = "VNS_OPEN_TEMPLATE" => args.template
  /\ srv = "open" => Numbers(sent, "VNSHWINFO") = {}
  /\ srv = "running" => Numbers(sent, "VNSHWINFO") # {}

\* The salt is there until the digest was judged, and no other comes.
SaltInv ==
  /\ key \in AuthKeys
  /\ pc \notin {"load", "connect", "VNS_AUTH_REQUEST", "exit"} => Consumed >= 1
  /\ request.mType # "none" => Consumed >= 1
  /\ Consumed = 0 =>
       \A n \in Numbers(sent, "VNS_AUTH_REQUEST") : sent[n].body.salt \in Salts
  /\ request.mType = "VNS_AUTH_REPLY" => sent[1].mType = "VNS_AUTH_REQUEST"
  /\ DigestRight

\* The routing table comes from the file of -r, and that from the server if
\* main asked for a template.
TableInv ==
  /\ \A name \in DOMAIN files : Routes(files[name])
  /\ DOMAIN rt = 1..Len(rt) /\ Len(rt) \in Nat
  /\ pc = "load" => rt = <<>>
  /\ pc \in {"load", "VNS_RTABLE"} => (args.template <=> pc = "VNS_RTABLE")
  /\ pc \in {"connect", "VNS_AUTH_REQUEST", "VNS_AUTH_STATUS", "open",
             "VNS_RTABLE", "reload"} =>
       \/ rt = <<>> /\ args.template
       \/ /\ ~args.template /\ args.rtable \in DOMAIN files
          /\ LoadedFrom(rt, files[args.rtable])
  /\ pc = "init" =>
       args.rtable \in DOMAIN files /\ LoadedFrom(rt, files[args.rtable])
  /\ pc \in {"reload", "init"} /\ args.template =>
       \E n \in Numbers(sent, "VNS_RTABLE") :
         /\ RtableFile(args.host) \in DOMAIN files
         /\ files[RtableFile(args.host)] = sent[n].body.rtable

\* The descriptions of the hardware that the router has taken in.
Taught == Numbers(sent, "VNSHWINFO") \cap 1..Consumed

\* The interfaces are those that the server described, once it has, and every
\* route has one of them, unless main has ended over it.
HardwareInv ==
  /\ if_list = <<>> \/ \E hw \in Hardware : if_list = WithHardware(<<>>, hw)
  /\ Taught = {} => if_list = <<>>
  /\ \A h \in Taught :
       \/ pc = "exit" /\ h = Consumed
       \/ /\ pc \in {"loop", "exit"}
          /\ if_list = WithHardware(<<>>, sent[h].body.mHWInfo)
          /\ sr_verify_routing_table(rt, if_list) = 0
  /\ PacketsHandled

\* The inductive invariant of the whole session.
SessionInv ==
  /\ Inv /\ OrderInv /\ HistoryInv /\ ServerInv /\ SaltInv /\ TableInv
  /\ HardwareInv

\* What the server may send next.
Allowed(mType, body) ==
  /\ mType = "VNS_AUTH_REQUEST" => sent = <<>> /\ body.salt \in Salts
  /\ mType \in {"VNS_RTABLE", "VNSHWINFO"} => Numbers(sent, mType) = {}
  /\ mType = "VNS_RTABLE" =>
       args.template /\ body.mVirtualHostID = args.host
  /\ mType = "VNSHWINFO" => body.mHWInfo \in Hardware
  /\ mType = "VNSPACKET" =>
       \E m \in Numbers(sent, "VNSHWINFO") :
         Names(sent[m].body.mHWInfo, body.iface)

\* One number more.
LEMMA NumbersGrow ==
  ASSUME NEW mType, NEW body, Extended(mType, body), NEW t
  PROVE  Numbers(sent', t)
           = Numbers(sent, t) \cup (IF t = mType THEN {Len(sent) + 1} ELSE {})
  <1>1. /\ Len(sent) \in Nat /\ DOMAIN sent = 1..Len(sent)
        /\ DOMAIN sent' = 1..(Len(sent) + 1)
    BY DEF Extended
  <1>2. \A n \in DOMAIN sent' : n \in DOMAIN sent \/ n = Len(sent) + 1
    BY <1>1
  <1>3. \A n \in DOMAIN sent : n \in DOMAIN sent' /\ n # Len(sent) + 1
    BY <1>1
  <1>4. Len(sent) + 1 \in DOMAIN sent'
    BY <1>1
  <1>5. /\ \A n \in DOMAIN sent : sent'[n].mType = sent[n].mType
        /\ sent'[Len(sent) + 1].mType = mType
    BY DEF Extended
  <1>6. ASSUME NEW n
        PROVE  n \in Numbers(sent', t)
                 <=> n \in Numbers(sent, t) \/ (t = mType /\ n = Len(sent) + 1)
    BY <1>2, <1>3, <1>4, <1>5 DEF Numbers
  <1>7. QED
    BY <1>6

\* Of the other commands nothing changes.
LEMMA BodyStays ==
  ASSUME NEW mType, NEW body, Extended(mType, body),
         NEW t, t # "VNS_AUTH_REQUEST", NEW n \in Numbers(sent, t)
  PROVE  /\ sent'[n] = sent[n] /\ n \in Numbers(sent', t)
         /\ n \in 1..Len(sent) /\ Len(sent) \in Nat
  BY DEF Extended, Numbers

\* The history stays in order.
LEMMA HistoryKept ==
  ASSUME HistoryInv, args' = args, NEW mType, NEW body,
         Extended(mType, body), Allowed(mType, body)
  PROVE  HistoryInv'
  <1> DEFINE last == Len(sent) + 1
  <1>1. /\ Len(sent) \in Nat /\ DOMAIN sent = 1..Len(sent)
        /\ sent'[last].mType = mType /\ sent'[last].body = body
    BY DEF Extended
  <1>2. \A t : \A n \in Numbers(sent', t) :
          n \in Numbers(sent, t) \/ (n = last /\ t = mType)
    BY NumbersGrow
  <1> HIDE DEF last
  <1>3. Numbers(sent', "VNS_AUTH_REQUEST") \subseteq {1}
    <2>1. sent = <<>> => last = 1
      BY DEF last
    <2>2. QED
      BY <1>2, <2>1 DEF HistoryInv, Allowed
  <1>4. ASSUME NEW t \in {"VNS_RTABLE", "VNSHWINFO"},
               NEW m \in Numbers(sent', t), NEW n \in Numbers(sent', t)
        PROVE  m = n
    <2>1. CASE t = mType
      <3>1. Numbers(sent, t) = {}
        BY <2>1 DEF Allowed
      <3>2. QED
        BY <1>2, <3>1
    <2>2. CASE t # mType
      <3>1. m \in Numbers(sent, t) /\ n \in Numbers(sent, t)
        BY <1>2, <2>2
      <3>2. QED
        BY <3>1 DEF HistoryInv
    <2>3. QED
      BY <2>1, <2>2
  <1>5. ASSUME NEW n \in Numbers(sent', "VNS_RTABLE")
        PROVE  args.template /\ sent'[n].body.mVirtualHostID = args.host
    <2>1. CASE n \in Numbers(sent, "VNS_RTABLE")
      BY <2>1, BodyStays DEF HistoryInv
    <2>2. CASE n = last /\ mType = "VNS_RTABLE"
      BY <1>1, <2>2 DEF Allowed
    <2>3. QED
      BY <1>2, <2>1, <2>2
  <1>6. ASSUME NEW n \in Numbers(sent', "VNSHWINFO")
        PROVE  sent'[n].body.mHWInfo \in Hardware
    <2>1. CASE n \in Numbers(sent, "VNSHWINFO")
      BY <2>1, BodyStays DEF HistoryInv
    <2>2. CASE n = last /\ mType = "VNSHWINFO"
      BY <1>1, <2>2 DEF Allowed
    <2>3. QED
      BY <1>2, <2>1, <2>2
  <1>7. ASSUME NEW n \in Numbers(sent', "VNSPACKET")
        PROVE  \E m \in Numbers(sent', "VNSHWINFO") :
                 m < n /\ Names(sent'[m].body.mHWInfo, sent'[n].body.iface)
    <2>1. CASE n \in Numbers(sent, "VNSPACKET")
      <3>1. PICK m \in Numbers(sent, "VNSHWINFO") :
              m < n /\ Names(sent[m].body.mHWInfo, sent[n].body.iface)
        BY <2>1 DEF HistoryInv
      <3>2. m \in Numbers(sent', "VNSHWINFO") /\ sent'[m] = sent[m]
            /\ sent'[n] = sent[n]
        BY <2>1, BodyStays
      <3>3. QED
        BY <3>1, <3>2
    <2>2. CASE n = last /\ mType = "VNSPACKET"
      <3>1. PICK m \in Numbers(sent, "VNSHWINFO") :
              Names(sent[m].body.mHWInfo, body.iface)
        BY <2>2 DEF Allowed
      <3>2. /\ m \in Numbers(sent', "VNSHWINFO") /\ sent'[m] = sent[m]
            /\ m \in 1..Len(sent)
        BY BodyStays
      <3>3. m < n
        BY <1>1, <2>2, <3>2 DEF last
      <3>4. QED
        BY <1>1, <2>2, <3>1, <3>2, <3>3
    <2>3. QED
      BY <1>2, <2>1, <2>2
  <1>8. QED
    BY <1>3, <1>4, <1>5, <1>6, <1>7 DEF HistoryInv

-----------------------------------------------------------------------------
(* Steps that leave the history alone.                                     *)

\* What main does outside of the handlers, and the end of the connection.
Quiet ==
  \/ LoadTable \/ Connect \/ SendOpen \/ ReloadTable \/ sr_init
  \/ Recv \/ RecvFails \/ ServerDrops

\* What all of them leave alone.
LEMMA QuietFacts ==
  ASSUME SessionInv, Inv', Quiet
  PROVE  /\ OrderInv' /\ Consumed' = Consumed /\ HistoryInv'
         /\ UNCHANGED <<sent, args, key, files, if_list, handled>>
         /\ Consumed \in Nat /\ pc \notin {"exit", "aborted"}
         /\ \A t : Numbers(sent', t) = Numbers(sent, t)
         /\ pc \in {"load", "reload"} \/ rt' = rt
         /\ pc' \in {pc, "exit"}
              \/ pc \in {"load", "connect", "open", "reload", "init"}
  <1>1. /\ UNCHANGED <<sent, args, key, files, if_list, handled>>
        /\ Stream' = Stream /\ pc \notin {"exit", "aborted"}
        /\ pc \in {"load", "reload"} \/ rt' = rt
        /\ pc' \in {pc, "exit"}
             \/ pc \in {"load", "connect", "open", "reload", "init"}
    <2>1. CASE LoadTable \/ ReloadTable
      BY <2>1 DEF LoadTable, ReloadTable, serverVars, Stream
    <2>2. CASE Connect \/ SendOpen \/ sr_init
      BY <2>2 DEF Connect, SendOpen, sr_init, mainVars, serverVars, Stream
    <2>3. CASE Recv
      <3>1. Stream' = Stream /\ pc' \in {pc, "exit"}
        BY <2>3, RecvOrder DEF SessionInv
      <3>2. /\ UNCHANGED <<sent, args, key, files, if_list, handled, rt>>
            /\ Reading
        BY <2>3 DEF Recv, mainVars, serverVars
      <3>3. QED
        BY <3>1, <3>2 DEF Reading
    <2>4. CASE RecvFails
      BY <2>4 DEF RecvFails, Reading, mainVars, serverVars, Stream
    <2>5. CASE ServerDrops
      BY <2>5 DEF ServerDrops, Up, mainVars, Stream
    <2>6. QED
      BY <2>1, <2>2, <2>3, <2>4, <2>5 DEF Quiet
  <1>2. OrderInv' /\ Consumed' = Consumed
    BY <1>1, QuietOrder DEF SessionInv
  <1>3. HistoryInv'
    BY <1>1 DEF SessionInv, HistoryInv
  <1>4. Consumed \in Nat
    BY Position DEF SessionInv
  <1>5. \A t : Numbers(sent', t) = Numbers(sent, t)
    BY <1>1
  <1>6. QED
    BY <1>1, <1>2, <1>3, <1>4, <1>5

\* The server is where it was, or a request for a topology is on its way.
LEMMA QuietServer ==
  ASSUME SessionInv, Inv', Quiet
  PROVE  ServerInv'
  <1>1. /\ UNCHANGED <<sent, args>> /\ pc \notin {"exit", "aborted"}
        /\ \A t : Numbers(sent', t) = Numbers(sent, t)
    BY QuietFacts
  <1>2. \/ srv' = srv
        \/ pc = "connect" /\ srv' = "accepted" /\ pc' = "VNS_AUTH_REQUEST"
    BY DEF Quiet, LoadTable, Connect, SendOpen, ReloadTable, sr_init, Recv,
           RecvFails, ServerDrops, serverVars
  <1>3. NothingYet => NothingYet'
    BY <1>1, <1>2 DEF NothingYet
  <1>4. /\ pc' \in Early => pc \in Early /\ request' = request
        /\ pc' \in {"load", "connect"} =>
             pc \in {"load", "connect"} /\ srv' = srv
    <2>1. CASE LoadTable
      BY <2>1 DEF LoadTable, sr_load_rt_wrap, Early, serverVars
    <2>2. CASE Connect
      BY <2>2 DEF Connect, Early
    <2>3. CASE SendOpen
      BY <2>3 DEF SendOpen, Early
    <2>4. CASE ReloadTable
      BY <2>4 DEF ReloadTable, sr_load_rt_wrap, Early
    <2>5. CASE sr_init
      BY <2>5 DEF sr_init, Early
    <2>6. CASE Recv
      BY <2>6, RecvOrder DEF SessionInv, Recv, Early, serverVars
    <2>7. CASE RecvFails
      BY <2>7 DEF RecvFails, Early
    <2>8. CASE ServerDrops
      BY <2>8 DEF ServerDrops, Early
    <2>9. QED
      BY <2>1, <2>2, <2>3, <2>4, <2>5, <2>6, <2>7, <2>8 DEF Quiet
  <1>5. \/ request' = request
        \/ /\ pc = "open" /\ srv' = srv
           /\ request'.mVirtualHostID = args.host
           /\ request'.mType = "VNS_OPEN_TEMPLATE" => args.template
    <2>1. CASE SendOpen
      <3>1. CASE request' = request
        BY <3>1
      <3>2. CASE request' = [mType |-> IF args.template THEN "VNS_OPEN_TEMPLATE"
                                       ELSE "VNSOPEN",
                             mVirtualHostID |-> args.host]
        BY <2>1, <3>2 DEF SendOpen, serverVars
      <3>3. QED
        BY <2>1, <3>1, <3>2 DEF SendOpen
    <2>2. CASE ~SendOpen
      BY <2>2 DEF Quiet, LoadTable, Connect, ReloadTable, sr_init, Recv,
                  RecvFails, ServerDrops
    <2>3. QED
      BY <2>1, <2>2
  <1>6. (srv' \in {"listens", "accepted"} => sent' = <<>>)
        /\ (pc' \in {"load", "connect"} => srv' = "listens")
    BY <1>1, <1>2, <1>4 DEF SessionInv, ServerInv
  <1>7. pc' \in Early => NothingYet' /\ request'.mType \notin Opens
    BY <1>3, <1>4 DEF SessionInv, ServerInv
  <1>8. /\ request'.mType \in Opens =>
             NothingYet' /\ request'.mVirtualHostID = args'.host
        /\ request'.mType = "VNS_OPEN_TEMPLATE" => args'.template
    <2>1. CASE request' = request
      BY <1>1, <1>3, <2>1 DEF SessionInv, ServerInv
    <2>2. CASE request' # request
      <3>1. NothingYet
        BY <1>5, <2>2 DEF SessionInv, ServerInv, Early
      <3>2. QED
        BY <1>1, <1>3, <1>5, <2>2, <3>1
    <2>3. QED
      BY <2>1, <2>2
  <1>9. (srv' = "open" => Numbers(sent', "VNSHWINFO") = {})
        /\ (srv' = "running" => Numbers(sent', "VNSHWINFO") # {})
    BY <1>1, <1>2 DEF SessionInv, ServerInv
  <1>10. QED
    BY <1>6, <1>7, <1>8, <1>9 DEF ServerInv

\* The salt is where it was.
LEMMA QuietSalt ==
  ASSUME SessionInv, Inv', Quiet
  PROVE  SaltInv'
  <1>1. /\ UNCHANGED <<sent, key>> /\ Consumed' = Consumed
        /\ Consumed \in Nat /\ pc \notin {"exit", "aborted"}
        /\ \A t : Numbers(sent', t) = Numbers(sent, t)
    BY QuietFacts
  <1>2. \/ pc' \in {"connect", "VNS_AUTH_REQUEST", "exit"}
        \/ pc' = pc /\ request' = request
        \/ pc \in {"open", "reload", "init"}
    <2>1. CASE Recv
      BY <2>1, RecvOrder DEF SessionInv, Recv
    <2>2. CASE ~Recv
      BY <2>2 DEF Quiet, LoadTable, Connect, ReloadTable, sr_init,
                  SendOpen, RecvFails, ServerDrops, sr_load_rt_wrap
    <2>3. QED
      BY <2>1, <2>2
  <1>3. request' = request \/ (pc = "open" /\ request'.mType \in Opens)
    <2>1. CASE SendOpen
      <3>1. CASE request' = [mType |-> IF args.template THEN "VNS_OPEN_TEMPLATE"
                                       ELSE "VNSOPEN",
                             mVirtualHostID |-> args.host]
        BY <2>1, <3>1 DEF SendOpen, Opens
      <3>2. QED
        BY <2>1, <3>1 DEF SendOpen
    <2>2. CASE ~SendOpen
      BY <2>2 DEF Quiet, LoadTable, Connect, ReloadTable, sr_init, Recv,
                  RecvFails, ServerDrops
    <2>3. QED
      BY <2>1, <2>2
  <1>4. pc \in {"open", "reload", "init"} => Consumed >= 1
    BY DEF SessionInv, SaltInv
  <1>5. pc' \notin {"load", "connect", "VNS_AUTH_REQUEST", "exit"} =>
          Consumed' >= 1
    BY <1>1, <1>2, <1>4 DEF SessionInv, SaltInv
  <1>6. request'.mType # "none" => Consumed' >= 1
    BY <1>1, <1>3, <1>4 DEF SessionInv, SaltInv
  <1>7. Consumed' = 0 =>
          \A n \in Numbers(sent', "VNS_AUTH_REQUEST") :
            sent'[n].body.salt \in Salts
    BY <1>1 DEF SessionInv, SaltInv
  <1>8. /\ request'.mType = "VNS_AUTH_REPLY" =>
             sent'[1].mType = "VNS_AUTH_REQUEST"
        /\ DigestRight'
    BY <1>1, <1>3 DEF SessionInv, SaltInv, DigestRight, Opens
  <1>9. QED
    BY <1>1, <1>5, <1>6, <1>7, <1>8 DEF SessionInv, SaltInv

\* Interfaces and packets stay.
LEMMA QuietHardware ==
  ASSUME SessionInv, Inv', Quiet
  PROVE  HardwareInv'
  <1>1. /\ UNCHANGED <<sent, if_list, handled>> /\ Consumed' = Consumed
        /\ pc \notin {"exit", "aborted"}
        /\ pc \in {"load", "reload"} \/ rt' = rt
        /\ pc' \in {pc, "exit"}
             \/ pc \in {"load", "connect", "open", "reload", "init"}
    BY QuietFacts
  <1>2. Taught' = Taught
    BY <1>1 DEF Taught, Numbers
  <1>3. pc' # "aborted"
    <2>1. CASE Recv
      BY <1>1, <2>1, RecvOrder DEF SessionInv
    <2>2. CASE ~Recv
      BY <1>1, <2>2 DEF Quiet, LoadTable, Connect, ReloadTable, sr_init,
           SendOpen, RecvFails, ServerDrops, sr_load_rt_wrap
    <2>3. QED
      BY <2>1, <2>2
  <1>4. PacketsHandled'
    BY <1>1, <1>3 DEF SessionInv, HardwareInv, PacketsHandled
  <1>5. ASSUME NEW h \in Taught'
        PROVE  \/ pc' = "exit" /\ h = Consumed'
               \/ /\ pc' \in {"loop", "exit"}
                  /\ if_list' = WithHardware(<<>>, sent'[h].body.mHWInfo)
                  /\ sr_verify_routing_table(rt', if_list') = 0
    <2>1. /\ pc \in {"loop", "exit"}
          /\ if_list = WithHardware(<<>>, sent[h].body.mHWInfo)
          /\ sr_verify_routing_table(rt, if_list) = 0
      BY <1>1, <1>2 DEF SessionInv, HardwareInv
    <2>2. rt' = rt /\ pc' \in {"loop", "exit"}
      BY <1>1, <2>1
    <2>3. QED
      BY <1>1, <2>1, <2>2
  <1>6. QED
    BY <1>1, <1>2, <1>4, <1>5 DEF SessionInv, HardwareInv

\* The wrapper of sr_load_rt yields a table, and what the lines say if main
\* goes on.
LEMMA WrapTable ==
  ASSUME Inv, DOMAIN rt = 1..Len(rt), Len(rt) \in Nat,
         NEW name, NEW next, sr_load_rt_wrap(name, next)
  PROVE  /\ DOMAIN rt' = 1..Len(rt') /\ Len(rt') \in Nat
         /\ pc' # "exit" =>
              /\ pc' = next /\ name \in DOMAIN files
              /\ rt = <<>> \/ LoadedFrom(rt, files[name])
                   => LoadedFrom(rt', files[name])
  <1>1. CASE name \in DOMAIN files
    <2>1. files[name] \in Seq(ToSet(files[name]))
      BY <1>1 DEF Inv, FilesInv
    <2>2. PICK lines : lines = files[name]
      OBVIOUS
    <2>3. /\ rt' = sr_load_rt(rt, lines).table
          /\ pc' = IF sr_load_rt(rt, lines).ret = 0 THEN next ELSE "exit"
      BY <1>1, <2>2 DEF sr_load_rt_wrap
    <2>4. DOMAIN rt' = 1..Len(rt') /\ Len(rt') \in Nat
      BY <2>1, <2>2, <2>3, LoadsSequence
    <2>5. ASSUME rt = <<>> \/ LoadedFrom(rt, lines),
                 sr_load_rt(rt, lines).ret = 0
          PROVE  LoadedFrom(rt', lines)
      BY <2>3, <2>5, LoadedAgain
    <2>6. QED
      BY <1>1, <2>2, <2>3, <2>4, <2>5
  <1>2. CASE name \notin DOMAIN files
    BY <1>2 DEF sr_load_rt_wrap
  <1>3. QED
    BY <1>1, <1>2

\* The table comes from the file of -r.
LEMMA QuietTable ==
  ASSUME SessionInv, Inv', Quiet
  PROVE  TableInv'
  <1>1. /\ UNCHANGED <<sent, args, files>> /\ pc \notin {"exit", "aborted"}
        /\ pc \in {"load", "reload"} \/ rt' = rt
    BY QuietFacts
  <1>2. \A n : n \in Numbers(sent', "VNS_RTABLE")
                 <=> n \in Numbers(sent, "VNS_RTABLE")
    BY <1>1 DEF Numbers
  <1>3. TableInv
    BY DEF SessionInv
  <1>4. CASE LoadTable
    <2>1. pc = "load" /\ sr_load_rt_wrap(args.rtable, "connect")
      BY <1>4 DEF LoadTable
    <2>2. rt = <<>> /\ ~args.template
      BY <1>3, <2>1 DEF TableInv
    <2>3. /\ DOMAIN rt' = 1..Len(rt') /\ Len(rt') \in Nat
          /\ pc' # "exit" =>
               /\ pc' = "connect" /\ args.rtable \in DOMAIN files
               /\ LoadedFrom(rt', files[args.rtable])
      BY <1>3, <2>1, <2>2, WrapTable DEF SessionInv, TableInv
    <2>4. QED
      BY <1>1, <1>3, <2>2, <2>3 DEF TableInv
  <1>5. CASE ReloadTable
    <2>1. pc = "reload" /\ sr_load_rt_wrap(args.rtable, "init")
      BY <1>5 DEF ReloadTable
    <2>2. rt = <<>> \/ LoadedFrom(rt, files[args.rtable])
      BY <1>3, <2>1 DEF TableInv
    <2>3. /\ DOMAIN rt' = 1..Len(rt') /\ Len(rt') \in Nat
          /\ pc' # "exit" =>
               /\ pc' = "init" /\ args.rtable \in DOMAIN files
               /\ LoadedFrom(rt', files[args.rtable])
      BY <1>3, <2>1, <2>2, WrapTable DEF SessionInv, TableInv
    <2>4. args.template =>
            \E n \in Numbers(sent, "VNS_RTABLE") :
              /\ RtableFile(args.host) \in DOMAIN files
              /\ files[RtableFile(args.host)] = sent[n].body.rtable
      BY <1>3, <2>1 DEF TableInv
    <2>5. CASE pc' = "exit"
      BY <1>1, <1>3, <2>3, <2>5 DEF TableInv
    <2>6. CASE pc' # "exit"
      <3>1. pc' = "init"
        BY <2>3, <2>6
      <3>2. args.template =>
              \E n \in Numbers(sent', "VNS_RTABLE") :
                /\ RtableFile(args'.host) \in DOMAIN files'
                /\ files'[RtableFile(args'.host)] = sent'[n].body.rtable
        BY <1>1, <1>2, <2>4
      <3>3. QED
        BY <1>1, <1>3, <2>3, <3>1, <3>2 DEF TableInv
    <2>7. QED
      BY <2>5, <2>6
  <1>6. CASE ~LoadTable /\ ~ReloadTable
    <2>1. rt' = rt
      BY <1>6 DEF Quiet, Connect, SendOpen, sr_init, Recv, RecvFails,
                  ServerDrops, mainVars
    <2>2. \/ pc' \in {pc, "exit", "loop"}
          \/ pc = "connect" /\ pc' = "VNS_AUTH_REQUEST"
          \/ pc = "open" /\ pc' = IF args.template THEN "VNS_RTABLE"
                                  ELSE "reload"
      <3>1. CASE Recv
        BY <3>1, RecvOrder DEF SessionInv
      <3>2. CASE ~Recv
        BY <1>6, <3>2 DEF Quiet, Connect, SendOpen, sr_init, RecvFails,
                          ServerDrops
      <3>3. QED
        BY <3>1, <3>2
    <2>3. CASE pc' = pc
      BY <1>1, <1>2, <1>3, <2>1, <2>3 DEF TableInv
    <2>4. CASE pc' \in {"exit", "loop"}
      BY <1>1, <1>3, <2>1, <2>4 DEF TableInv
    <2>5. CASE pc = "connect" /\ pc' = "VNS_AUTH_REQUEST"
      BY <1>1, <1>3, <2>1, <2>5 DEF TableInv
    <2>6. CASE pc = "open" /\ pc' = IF args.template THEN "VNS_RTABLE"
                                    ELSE "reload"
      BY <1>1, <1>3, <2>1, <2>6 DEF TableInv, StateTypes
    <2>7. QED
      BY <2>2, <2>3, <2>4, <2>5, <2>6
  <1>7. QED
    BY <1>4, <1>5, <1>6

\* All of it.
LEMMA QuietSession ==
  ASSUME SessionInv, Inv', Quiet
  PROVE  SessionInv'
  <1>1. OrderInv' /\ HistoryInv'
    BY QuietFacts
  <1>2. QED
    BY <1>1, QuietServer, QuietSalt, QuietTable, QuietHardware DEF SessionInv

-----------------------------------------------------------------------------
(* Steps that handle a command.                                            *)

\* What all handlers do, unless an assertion fails.
LEMMA HandleFacts ==
  ASSUME SessionInv, Inv', Handle, pc' # "aborted"
  PROVE  /\ OrderInv' /\ Consumed' = Consumed + 1 /\ Consumed \in Nat
         /\ Consumed + 1 \in DOMAIN sent /\ Command = sent[Consumed + 1]
         /\ UNCHANGED <<sent, srv, args, key, rt>>
         /\ \/ pc' = "exit" /\ Reading
            \/ pc = "VNS_AUTH_REQUEST" /\ pc' = "VNS_AUTH_STATUS"
            \/ pc = "VNS_AUTH_STATUS" /\ pc' = "open"
            \/ pc = "VNS_RTABLE" /\ pc' = "reload" /\ sr_handle_rtable
            \/ pc = "loop" /\ pc' = "loop"
         /\ request' = request \/ sr_handle_auth_request
         /\ files' = files \/ sr_handle_rtable
         /\ if_list' = if_list \/ sr_handle_hwinfo
         /\ handled' = handled \/ HandlePacket
  <1>1. /\ Reading /\ Complete /\ \E r : Return(r)
        /\ UNCHANGED <<net, sent, srv, args, key, rt>>
        /\ request' = request \/ sr_handle_auth_request
        /\ files' = files \/ sr_handle_rtable
        /\ if_list' = if_list \/ sr_handle_hwinfo
        /\ handled' = handled \/ HandlePacket
        /\ pc = "VNS_RTABLE" /\ pc' # "exit" => sr_handle_rtable
    <2>1. CASE UnexpectedCommand
      <3>1. Return(-1)
        BY <2>1 DEF UnexpectedCommand
      <3>2. pc' = "exit"
        BY <3>1 DEF Return
      <3>3. QED
        BY <2>1, <3>1, <3>2 DEF UnexpectedCommand, mainVars, serverVars
    <2>2. CASE HandleClose
      <3>1. Return(0)
        BY <2>2 DEF HandleClose
      <3>2. pc' = "exit"
        BY <3>1 DEF Return
      <3>3. QED
        BY <2>2, <3>1, <3>2 DEF HandleClose, mainVars, serverVars
    <2>3. CASE HandleOther
      BY <2>3 DEF HandleOther, Handles, mainVars, serverVars
    <2>4. CASE HandlePacket
      <3>1. \E r : Return(r)
        BY <2>4 DEF HandlePacket
      <3>2. QED
        BY <2>4, <3>1 DEF HandlePacket, Handles, serverVars
    <2>5. CASE sr_handle_auth_request
      BY <2>5 DEF sr_handle_auth_request, Handles, mainVars, serverVars
    <2>6. CASE sr_handle_auth_status
      BY <2>6 DEF sr_handle_auth_status, Handles, mainVars, serverVars
    <2>7. CASE sr_handle_rtable
      BY <2>7 DEF sr_handle_rtable, Handles, serverVars
    <2>8. CASE sr_handle_hwinfo
      BY <2>8 DEF sr_handle_hwinfo, Handles, serverVars
    <2>9. QED
      BY <2>1, <2>2, <2>3, <2>4, <2>5, <2>6, <2>7, <2>8 DEF Handle
  <1>2. rd' = NothingRead
    BY <1>1 DEF Return
  <1>3. /\ OrderInv' /\ Consumed' = Consumed + 1 /\ Consumed \in Nat
        /\ Consumed + 1 \in DOMAIN sent /\ Command = sent[Consumed + 1]
    BY <1>1, <1>2, HandleOrder DEF SessionInv
  <1>4. \/ pc' = "exit" /\ Reading
        \/ pc = "VNS_AUTH_REQUEST" /\ pc' = "VNS_AUTH_STATUS"
        \/ pc = "VNS_AUTH_STATUS" /\ pc' = "open"
        \/ pc = "VNS_RTABLE" /\ pc' = "reload"
        \/ pc = "loop" /\ pc' = "loop"
    BY <1>1 DEF Return, Reading
  <1>5. QED
    BY <1>1, <1>3, <1>4

\* Where the server is.
LEMMA HandleServer ==
  ASSUME SessionInv, Inv', Handle, pc' # "aborted"
  PROVE  ServerInv' /\ HistoryInv'
  <1>1. /\ UNCHANGED <<sent, srv, args>>
        /\ pc' \in Early => pc \in Early
        /\ pc' \notin {"load", "connect"}
    BY HandleFacts DEF Early
  <1>2. request' = request \/ request'.mType = "VNS_AUTH_REPLY"
    <2>1. CASE sr_handle_auth_request
      BY <2>1 DEF sr_handle_auth_request
    <2>2. QED
      BY <2>1, HandleFacts
  <1>3. \A t : Numbers(sent', t) = Numbers(sent, t)
    BY <1>1
  <1>4. NothingYet' <=> NothingYet
    BY <1>1, <1>3 DEF NothingYet
  <1>5. ServerInv'
    BY <1>1, <1>2, <1>3, <1>4 DEF SessionInv, ServerInv, Opens
  <1>6. HistoryInv'
    BY <1>1 DEF SessionInv, HistoryInv
  <1>7. QED
    BY <1>5, <1>6

\* Where there is one command of a type, that is the first.
LEMMA OnlyOne ==
  ASSUME NEW s, DOMAIN s \subseteq Nat, NEW t,
         \A m, n \in Numbers(s, t) : m = n, NEW m \in Numbers(s, t)
  PROVE  FirstIn(s, t) = m
  <1>1. Numbers(s, t) \subseteq Nat /\ Numbers(s, t) # {}
    BY DEF Numbers
  <1>2. Min(Numbers(s, t)) \in Numbers(s, t)
    BY <1>1, MinExists
  <1>3. FirstIn(s, t) = Min(Numbers(s, t))
    BY DEF FirstIn, Numbers
  <1>4. QED
    BY <1>2, <1>3

\* The file of a host's table is the one that the server's table goes to.
LEMMA HandleTable ==
  ASSUME SessionInv, Inv', Handle, pc' # "aborted"
  PROVE  TableInv'
  <1>1. /\ UNCHANGED <<sent, args, rt>>
        /\ \/ pc' = "exit"
           \/ pc = "VNS_AUTH_REQUEST" /\ pc' = "VNS_AUTH_STATUS"
           \/ pc = "VNS_AUTH_STATUS" /\ pc' = "open"
           \/ pc = "VNS_RTABLE" /\ pc' = "reload" /\ sr_handle_rtable
           \/ pc = "loop" /\ pc' = "loop"
        /\ files' = files \/ sr_handle_rtable
        /\ Consumed + 1 \in DOMAIN sent /\ Command = sent[Consumed + 1]
    BY HandleFacts
  <1>2. TableInv
    BY DEF SessionInv
  <1>3. CASE sr_handle_rtable
    <2>1. /\ Command.mType = "VNS_RTABLE"
          /\ Consumed + 1 \in Numbers(sent, "VNS_RTABLE")
      BY <1>1, <1>3 DEF sr_handle_rtable, Handles, Numbers
    <2>2. /\ args.template /\ Command.body.mVirtualHostID = args.host
          /\ Command.body.rtable \in ServerTables
      BY <1>1, <2>1 DEF SessionInv, HistoryInv, Inv, SentInv
    <2>3. PICK t \in ServerTables : t = Command.body.rtable
      BY <2>2
    <2>4. PICK f : f = RtableFile(args.host)
      OBVIOUS
    <2>5. \/ /\ files' = [x \in DOMAIN files \cup {f} |->
                            IF x = f THEN t ELSE files[x]]
             /\ Return(1)
          \/ files' = files /\ Return(-1)
      BY <1>3, <2>2, <2>3, <2>4 DEF sr_handle_rtable
    <2>6. \A name \in DOMAIN files' : Routes(files'[name])
      <3>1. CASE files' = files
        BY <1>2, <3>1 DEF TableInv
      <3>2. CASE files' = [x \in DOMAIN files \cup {f} |->
                             IF x = f THEN t ELSE files[x]]
        <4>1. ASSUME NEW name \in DOMAIN files'
              PROVE  files'[name] = t \/ (name \in DOMAIN files
                                            /\ files'[name] = files[name])
          BY <3>2, <4>1
        <4>2. QED
          BY <1>2, <4>1, RoutesAssumption DEF TableInv
      <3>3. QED
        BY <2>5, <3>1, <3>2
    <2>7. CASE pc = "VNS_RTABLE" /\ pc' = "reload"
      <3>1. ~ Return(-1)
        BY <2>7 DEF Return
      <3>2. /\ f \in DOMAIN files' /\ files'[f] = t
        BY <2>5, <3>1
      <3>3. /\ Consumed + 1 \in Numbers(sent', "VNS_RTABLE")
            /\ t = sent'[Consumed + 1].body.rtable
        BY <1>1, <2>1, <2>3
      <3>4. rt = <<>>
        BY <1>2, <2>2, <2>7 DEF TableInv
      <3>5. \E n \in Numbers(sent', "VNS_RTABLE") :
              /\ RtableFile(args'.host) \in DOMAIN files'
              /\ files'[RtableFile(args'.host)] = sent'[n].body.rtable
        BY <1>1, <2>4, <3>2, <3>3
      <3>6. QED
        BY <1>1, <1>2, <2>2, <2>6, <2>7, <3>4, <3>5 DEF TableInv
    <2>8. CASE ~(pc = "VNS_RTABLE" /\ pc' = "reload")
      BY <1>1, <1>2, <2>2, <2>6, <2>8 DEF TableInv
    <2>9. QED
      BY <2>7, <2>8
  <1>4. CASE ~sr_handle_rtable
    BY <1>1, <1>2, <1>4 DEF TableInv
  <1>5. QED
    BY <1>3, <1>4

\* The digest of the salt and the key.
LEMMA KeySalted ==
  ASSUME NEW salt \in Salts, NEW k \in AuthKeys, ~SaltedKey(salt, k).Corrupted
  PROVE  SaltedKey(salt, k).Message_Digest = Digest(salt \o k)
  <1>1. salt \in Seq(0..(OCTET - 1)) /\ k \in Seq(0..(OCTET - 1))
    BY SaltAssumption
  <1>2. PICK c : c = SaltedKey(salt, k)
    OBVIOUS
  <1>3. c = SHA1Result(SHA1Input(SHA1Input(SHA1Reset, salt), k))
    BY <1>2 DEF SaltedKey
  <1>4. ~c.Corrupted => c.Message_Digest = Digest(salt \o k)
    BY <1>1, <1>3, TwoParts
  <1>5. QED
    BY <1>2, <1>4

\* A key that fills the array is all that is hashed.
LEMMA KeyFills ==
  ASSUME NEW k \in AuthKeys, NEW stack, Len(k) = AUTH_KEY_LEN
  PROVE  KeyBuffer(k, stack) = k
  <1>1. k \in Seq(0..(OCTET - 1))
    BY SaltAssumption
  <1>2. DOMAIN k = 1..AUTH_KEY_LEN /\ k = [i \in DOMAIN k |-> k[i]]
    BY <1>1
  <1>3. \A i \in 1..AUTH_KEY_LEN : i <= Len(k)
    BY DEF AUTH_KEY_LEN
  <1>4. KeyBuffer(k, stack) = [i \in 1..AUTH_KEY_LEN |-> k[i]]
    BY <1>3 DEF KeyBuffer
  <1>5. QED
    BY <1>2, <1>4

\* The digest is that of the salt, which was sent first and is still there.
LEMMA HandleSalt ==
  ASSUME SessionInv, Inv', Handle, pc' # "aborted"
  PROVE  SaltInv'
  <1>1. /\ UNCHANGED <<sent, key>> /\ Consumed' >= 1
        /\ request' = request \/ sr_handle_auth_request
        /\ Consumed + 1 \in DOMAIN sent /\ Command = sent[Consumed + 1]
        /\ Consumed \in Nat
    BY HandleFacts
  <1>2. SaltInv
    BY DEF SessionInv
  <1>3. CASE request' = request
    BY <1>1, <1>2, <1>3 DEF SaltInv, DigestRight
  <1>4. CASE sr_handle_auth_request /\ request' # request
    <2>1. Command.mType = "VNS_AUTH_REQUEST"
      BY <1>4 DEF sr_handle_auth_request, Handles
    <2>2. Consumed + 1 \in Numbers(sent, "VNS_AUTH_REQUEST")
      BY <1>1, <2>1 DEF Numbers
    <2>3. Consumed + 1 = 1
      BY <2>2 DEF SessionInv, HistoryInv
    <2>4. Consumed = 0 /\ Command = sent[1]
      BY <1>1, <2>3
    <2>5. Command.body.salt \in Salts
      BY <1>2, <2>2, <2>3, <2>4 DEF SaltInv
    <2>6. PICK salt \in Salts : salt = Command.body.salt
      BY <2>5
    <2>7. PICK stack \in StackContents :
            LET sha1 == SaltedKey(salt, KeyBuffer(key, stack))
            IN /\ ~sha1.Corrupted
               /\ request' = [mType |-> "VNS_AUTH_REPLY",
                              digest |-> sha1.Message_Digest]
      BY <1>4, <2>6 DEF sr_handle_auth_request
    <2>8. key \in AuthKeys
      BY <1>2 DEF SaltInv
    <2>9. ASSUME Len(key) = AUTH_KEY_LEN
          PROVE  request'.digest = Digest(salt \o key)
      <3>1. KeyBuffer(key, stack) = key
        BY <2>8, <2>9, KeyFills
      <3>2. SaltedKey(salt, key).Message_Digest = Digest(salt \o key)
        BY <2>7, <2>8, <3>1, KeySalted
      <3>3. QED
        BY <2>7, <3>1, <3>2
    <2>10. DigestRight'
      BY <1>1, <2>4, <2>6, <2>9 DEF DigestRight
    <2>11. sent'[1].mType = "VNS_AUTH_REQUEST"
      BY <1>1, <2>1, <2>4
    <2>12. ~(Consumed' = 0)
      <3>1. Consumed' = Consumed + 1
        BY HandleFacts
      <3>2. QED
        BY <1>1, <3>1
    <2>13. QED
      BY <1>1, <2>8, <2>10, <2>11, <2>12 DEF SaltInv
  <1>5. QED
    BY <1>1, <1>3, <1>4

\* The interfaces of the only description, when it was taken in.
LEMMA TaughtOnce ==
  ASSUME SessionInv, NEW h \in Taught, Reading
  PROVE  /\ pc = "loop" /\ if_list = WithHardware(<<>>, sent[h].body.mHWInfo)
         /\ sent[h].body.mHWInfo \in Hardware
         /\ sr_verify_routing_table(rt, if_list) = 0
         /\ FirstIn(sent, "VNSHWINFO") = h
         /\ h \in 1..Consumed /\ h \in Numbers(sent, "VNSHWINFO")
  <1>1. h \in 1..Consumed /\ h \in Numbers(sent, "VNSHWINFO")
    BY DEF Taught
  <1>2. pc \in {"loop", "exit"} /\ pc # "exit"
    BY DEF SessionInv, HardwareInv, Reading
  <1>3. /\ if_list = WithHardware(<<>>, sent[h].body.mHWInfo)
        /\ sr_verify_routing_table(rt, if_list) = 0
    BY <1>2 DEF SessionInv, HardwareInv
  <1>4. sent[h].body.mHWInfo \in Hardware
    BY <1>1 DEF SessionInv, HistoryInv
  <1>5. FirstIn(sent, "VNSHWINFO") = h
    <2>1. DOMAIN sent \subseteq Nat
      BY Position DEF SessionInv
    <2>2. \A m, n \in Numbers(sent, "VNSHWINFO") : m = n
      BY DEF SessionInv, HistoryInv
    <2>3. QED
      BY <1>1, <2>1, <2>2, OnlyOne
  <1>6. QED
    BY <1>1, <1>2, <1>3, <1>4, <1>5

\* When a packet is next, its interface is known, and whether it is for the
\* router is what the assertion's function says.
LEMMA PacketNext ==
  ASSUME SessionInv, Reading, Consumed + 1 \in Numbers(sent, "VNSPACKET"),
         NEW p, p = sent[Consumed + 1].body
  PROVE  /\ pc = "loop" /\ Taught # {}
         /\ sr_arp_req_not_for_us(if_list, p).ok
         /\ sr_arp_req_not_for_us(if_list, p).drop <=> ~ForUs(sent, p)
  <1>1. PICK m \in Numbers(sent, "VNSHWINFO") :
          m < Consumed + 1 /\ Names(sent[m].body.mHWInfo, p.iface)
    BY DEF SessionInv, HistoryInv
  <1>2. m \in Taught
    <2>1. m \in 1..Len(sent) /\ Consumed \in 0..Len(sent) /\ Len(sent) \in Nat
      BY <1>1, Position DEF Numbers, SessionInv
    <2>2. m \in 1..Consumed
      BY <1>1, <2>1
    <2>3. QED
      BY <1>1, <2>2 DEF Taught
  <1>3. PICK hw : hw = sent[m].body.mHWInfo
    OBVIOUS
  <1>4. /\ pc = "loop" /\ if_list = WithHardware(<<>>, hw) /\ hw \in Hardware
        /\ FirstIn(sent, "VNSHWINFO") = m
    BY <1>2, <1>3, TaughtOnce
  <1>5. PICK f : f = sr_get_interface(if_list, p.iface)
    OBVIOUS
  <1>6. f # NoInterface /\ f.ip = AddressOf(hw, p.iface)
    BY <1>1, <1>3, <1>4, <1>5, InterfaceFound
  <1>7. /\ sr_arp_req_not_for_us(if_list, p).ok = (~p.long \/ f # NoInterface)
        /\ sr_arp_req_not_for_us(if_list, p).drop
             = (p.long /\ p.arp_request /\ p.tip # f.ip)
    BY <1>5 DEF sr_arp_req_not_for_us
  <1>8. ForUs(sent, p)
          <=> (p.long /\ p.arp_request => p.tip = AddressOf(hw, p.iface))
    BY <1>3, <1>4 DEF ForUs
  <1>9. QED
    BY <1>2, <1>4, <1>6, <1>7, <1>8

\* So the assertion never fails.
LEMMA NeverAborts ==
  ASSUME SessionInv, Inv', Handle
  PROVE  pc' # "aborted"
  <1>1. CASE HandlePacket /\ ~sr_arp_req_not_for_us(if_list, Command.body).ok
    <2>1. Complete /\ Reading /\ Command.mType = "VNSPACKET"
      BY <1>1 DEF HandlePacket, Handles
    <2>2. PICK n : n = rd.got[1][1]
      OBVIOUS
    <2>3. n \in DOMAIN sent /\ Command = sent[n] /\ rd.got # <<>>
      <3>1. /\ n \in DOMAIN sent /\ Command = sent[n]
            /\ rd.got = [k \in 1..CommandLen(sent[n]) |-> <<n, k>>]
        BY <2>1, <2>2, WholeCommand DEF SessionInv
      <3>2. CommandLen(sent[n]) \in Nat /\ CommandLen(sent[n]) # 0
        BY <3>1, SentLengths, CommandAssumption DEF SessionInv
      <3>3. rd.got # <<>>
        <4>1. 1 \in DOMAIN rd.got
          BY <3>1, <3>2
        <4>2. QED
          BY <4>1
      <3>4. QED
        BY <3>1, <3>3
    <2>4. Consumed = n - 1 /\ n \in Nat
      BY <2>2, <2>3, SentLengths DEF Consumed, SessionInv
    <2>5. Consumed + 1 = n
      BY <2>4
    <2>6. n \in Numbers(sent, "VNSPACKET")
      BY <2>1, <2>3 DEF Numbers
    <2>7. QED
      BY <1>1, <2>1, <2>3, <2>5, <2>6, PacketNext
  <1>2. CASE HandlePacket /\ sr_arp_req_not_for_us(if_list, Command.body).ok
    <2>1. \E r : Return(r)
      BY <1>2 DEF HandlePacket
    <2>2. Reading
      BY <1>2 DEF HandlePacket, Handles
    <2>3. QED
      BY <2>1, <2>2 DEF Return, Reading
  <1>3. CASE ~HandlePacket
    <2>1. Reading /\ \E r : Return(r)
      BY <1>3 DEF Handle, UnexpectedCommand, HandleClose, HandleOther, Handles,
                  sr_handle_auth_request, sr_handle_auth_status,
                  sr_handle_rtable, sr_handle_hwinfo
    <2>2. QED
      BY <2>1 DEF Return, Reading
  <1>4. QED
    BY <1>1, <1>2, <1>3

\* The packets that were handed on are those that are due.
LEMMA HandlePackets ==
  ASSUME SessionInv, Inv', Handle
  PROVE  PacketsHandled'
  <1>1. pc' # "aborted"
    BY NeverAborts
  <1>2. /\ sent' = sent /\ Consumed' = Consumed + 1 /\ Consumed \in Nat
        /\ Consumed + 1 \in DOMAIN sent /\ Command = sent[Consumed + 1]
        /\ handled' = handled \/ HandlePacket
    BY <1>1, HandleFacts
  <1>3. handled = Due(sent, Consumed)
    BY DEF SessionInv, HardwareInv, PacketsHandled
  <1>4. Due(sent', Consumed') = NextDue(sent, Consumed + 1, handled)
    BY <1>2, <1>3, DueNext
  <1>5. CASE Command.mType = "VNSPACKET"
    <2>1. Consumed + 1 \in Numbers(sent, "VNSPACKET")
      BY <1>2, <1>5 DEF Numbers
    <2>2. Reading
      BY DEF Handle, UnexpectedCommand, HandleClose, HandleOther, Handles,
             HandlePacket, sr_handle_auth_request, sr_handle_auth_status,
             sr_handle_rtable, sr_handle_hwinfo
    <2>3. PICK p : p = sent[Consumed + 1].body
      OBVIOUS
    <2>4. /\ pc = "loop" /\ sr_arp_req_not_for_us(if_list, p).ok
          /\ sr_arp_req_not_for_us(if_list, p).drop <=> ~ForUs(sent, p)
      BY <2>1, <2>2, <2>3, PacketNext
    <2>5. HandlePacket
      BY <1>5, <2>4 DEF Handle, UnexpectedCommand, HandleClose, HandleOther,
             Handles, sr_handle_auth_request, sr_handle_auth_status,
             sr_handle_rtable, sr_handle_hwinfo
    <2>6. handled' = IF sr_arp_req_not_for_us(if_list, p).drop THEN handled
                     ELSE Append(handled, p)
      BY <1>2, <2>3, <2>4, <2>5 DEF HandlePacket
    <2>7. handled' = NextDue(sent, Consumed + 1, handled)
      BY <1>2, <1>5, <2>3, <2>4, <2>6 DEF NextDue
    <2>8. QED
      BY <1>1, <1>4, <2>7 DEF PacketsHandled
  <1>6. CASE Command.mType # "VNSPACKET"
    <2>1. handled' = handled
      BY <1>2, <1>6 DEF HandlePacket, Handles
    <2>2. NextDue(sent, Consumed + 1, handled) = handled
      BY <1>2, <1>6 DEF NextDue
    <2>3. QED
      BY <1>1, <1>4, <2>1, <2>2 DEF PacketsHandled
  <1>7. QED
    BY <1>5, <1>6

\* The interfaces are those of the description that was taken in.
LEMMA HandleHardware ==
  ASSUME SessionInv, Inv', Handle
  PROVE  HardwareInv'
  <1>1. pc' # "aborted"
    BY NeverAborts
  <1> DEFINE n == Consumed + 1
  <1>2. /\ UNCHANGED <<sent, rt>> /\ Consumed' = n /\ Consumed \in Nat
        /\ n \in DOMAIN sent /\ Command = sent[n]
        /\ if_list' = if_list \/ sr_handle_hwinfo
        /\ pc' = "exit" \/ (pc = "loop" /\ pc' = "loop")
             \/ pc \in {"VNS_AUTH_REQUEST", "VNS_AUTH_STATUS", "VNS_RTABLE"}
    BY <1>1, HandleFacts
  <1>3. Reading
    BY DEF Handle, UnexpectedCommand, HandleClose, HandleOther, Handles,
           HandlePacket, sr_handle_auth_request, sr_handle_auth_status,
           sr_handle_rtable, sr_handle_hwinfo
  <1>4. \A h : h \in Taught' <=> \/ h \in Taught
                                 \/ h = n /\ n \in Numbers(sent, "VNSHWINFO")
    <2>1. \A h : h \in 1..Consumed' <=> h \in 1..Consumed \/ h = n
      BY <1>2
    <2>2. Numbers(sent', "VNSHWINFO") = Numbers(sent, "VNSHWINFO")
      BY <1>2
    <2>3. QED
      BY <2>1, <2>2 DEF Taught
  <1>5. ASSUME n \in Numbers(sent, "VNSHWINFO"), NEW h \in Taught
        PROVE  FALSE
    <2>1. h \in Numbers(sent, "VNSHWINFO") /\ h \in 1..Consumed
      BY DEF Taught
    <2>2. h = n
      BY <1>5, <2>1 DEF SessionInv, HistoryInv
    <2>3. QED
      BY <1>2, <2>1, <2>2
  <1>6. PacketsHandled'
    BY HandlePackets
  <1>7. CASE sr_handle_hwinfo
    <2>1. n \in Numbers(sent, "VNSHWINFO") /\ pc = "loop"
      BY <1>2, <1>7 DEF sr_handle_hwinfo, Handles, Numbers, Reading
    <2>2. Taught = {}
      BY <1>5, <2>1
    <2>3. PICK hw \in Hardware : hw = sent[n].body.mHWInfo
      BY <2>1 DEF SessionInv, HistoryInv
    <2>4. if_list = <<>>
      BY <2>2 DEF SessionInv, HardwareInv
    <2>5. if_list' = WithHardware(<<>>, hw)
      BY <1>2, <1>7, <2>3, <2>4 DEF sr_handle_hwinfo
    <2>6. /\ Return(IF sr_verify_routing_table(rt, if_list') # 0 THEN -1
                    ELSE 1)
          /\ rt' = rt
      BY <1>7 DEF sr_handle_hwinfo
    <2>7. pc' = "exit" \/ (pc' = "loop"
                             /\ sr_verify_routing_table(rt', if_list') = 0)
      BY <2>1, <2>6 DEF Return
    <2>8. ASSUME NEW h \in Taught'
          PROVE  \/ pc' = "exit" /\ h = Consumed'
                 \/ /\ pc' \in {"loop", "exit"}
                    /\ if_list' = WithHardware(<<>>, sent'[h].body.mHWInfo)
                    /\ sr_verify_routing_table(rt', if_list') = 0
      <3>1. h = n
        BY <1>4, <2>2
      <3>2. QED
        BY <1>2, <2>3, <2>5, <2>7, <3>1
    <2>9. QED
      BY <1>4, <1>6, <2>1, <2>5, <2>8 DEF HardwareInv
  <1>8. CASE ~sr_handle_hwinfo
    <2>1. if_list' = if_list
      BY <1>2, <1>8
    <2>2. n \in Numbers(sent, "VNSHWINFO") => pc' = "exit"
      <3>1. SUFFICES ASSUME n \in Numbers(sent, "VNSHWINFO")
                     PROVE  pc' = "exit"
        OBVIOUS
      <3>2. Command.mType = "VNSHWINFO"
        BY <1>2, <3>1 DEF Numbers
      <3>3. UnexpectedCommand
        BY <1>8, <3>2 DEF Handle, HandleClose, HandleOther, Handles,
           HandlePacket, sr_handle_auth_request, sr_handle_auth_status,
           sr_handle_rtable
      <3>4. Return(-1)
        BY <3>3 DEF UnexpectedCommand
      <3>5. QED
        BY <3>4 DEF Return
    <2>3. ASSUME NEW h \in Taught'
          PROVE  \/ pc' = "exit" /\ h = Consumed'
                 \/ /\ pc' \in {"loop", "exit"}
                    /\ if_list' = WithHardware(<<>>, sent'[h].body.mHWInfo)
                    /\ sr_verify_routing_table(rt', if_list') = 0
      <3>1. CASE h \in Taught
        <4>1. /\ pc = "loop" /\ sr_verify_routing_table(rt, if_list) = 0
              /\ if_list = WithHardware(<<>>, sent[h].body.mHWInfo)
          BY <1>3, <3>1, TaughtOnce
        <4>2. QED
          BY <1>2, <2>1, <4>1
      <3>2. CASE h = n /\ n \in Numbers(sent, "VNSHWINFO")
        BY <1>2, <2>2, <3>2
      <3>3. QED
        BY <1>4, <3>1, <3>2
    <2>4. Taught' = {} => if_list' = <<>>
      BY <1>4, <2>1 DEF SessionInv, HardwareInv
    <2>5. if_list' = <<>> \/ \E hw \in Hardware : if_list' = WithHardware(<<>>, hw)
      BY <2>1 DEF SessionInv, HardwareInv
    <2>6. QED
      BY <1>6, <2>3, <2>4, <2>5 DEF HardwareInv
  <1>9. QED
    BY <1>7, <1>8

-----------------------------------------------------------------------------
(* Steps of the server.                                                    *)

\* What the server sends and where it goes on.
Sends(h, mType, body, s) ==
  /\ KeptCommands(h) /\ TransmitAfter(h, mType, body, s)
  /\ Allowed(mType, body)
  /\ \/ h = sent /\ request' = request
     \/ request.mType # "none" /\ request' = None
          /\ mType # "VNS_AUTH_REQUEST"
  /\ s \notin {"listens", "accepted"} /\ srv # "listens"
  /\ \/ /\ mType \notin {"VNS_RTABLE", "VNSHWINFO", "VNSPACKET"}
        /\ s \in {"open", "running"} => s = srv
     \/ pc \notin Early /\ request'.mType \notin Opens
  /\ s = "open" => Numbers(sent, "VNSHWINFO") = {} /\ mType # "VNSHWINFO"
  /\ s = "running" => Numbers(sent, "VNSHWINFO") # {} \/ mType = "VNSHWINFO"

\* What it leaves alone.
LEMMA SendsFacts ==
  ASSUME SessionInv, Inv', NEW h, NEW mType, NEW body, NEW s,
         Sends(h, mType, body, s)
  PROVE  /\ OrderInv' /\ HistoryInv' /\ Extended(mType, body)
         /\ UNCHANGED <<args, files, key, rt, if_list, handled, pc>>
         /\ srv' = s
         /\ \A t : \A n \in Numbers(sent, t) : n \in Numbers(sent', t)
         /\ \A t : t # mType => Numbers(sent', t) = Numbers(sent, t)
  <1>1. OrderInv' /\ Extended(mType, body)
    BY TransmitOrder DEF Sends, SessionInv
  <1>2. /\ UNCHANGED <<args, files, key, rt, if_list, handled, pc>>
        /\ srv' = s
    BY DEF Sends, TransmitAfter, mainVars
  <1>3. HistoryInv'
    BY <1>1, <1>2, HistoryKept DEF Sends, SessionInv
  <1>4. /\ \A t : \A n \in Numbers(sent, t) : n \in Numbers(sent', t)
        /\ \A t : t # mType => Numbers(sent', t) = Numbers(sent, t)
    BY <1>1, NumbersGrow
  <1>5. QED
    BY <1>1, <1>2, <1>3, <1>4

\* Where the server is.
LEMMA SendsServer ==
  ASSUME SessionInv, Inv', NEW h, NEW mType, NEW body, NEW s,
         Sends(h, mType, body, s)
  PROVE  ServerInv'
  <1>1. /\ UNCHANGED <<args, pc>> /\ srv' = s /\ Extended(mType, body)
        /\ \A t : \A n \in Numbers(sent, t) : n \in Numbers(sent', t)
        /\ \A t : t # mType => Numbers(sent', t) = Numbers(sent, t)
    BY SendsFacts
  <1>2. ServerInv
    BY DEF SessionInv
  <1>3. s \notin {"listens", "accepted"} /\ pc \notin {"load", "connect"}
    BY <1>2 DEF Sends, ServerInv
  <1>4. \/ NothingYet => NothingYet'
        \/ pc \notin Early /\ request'.mType \notin Opens
    <2>1. CASE /\ mType \notin {"VNS_RTABLE", "VNSHWINFO", "VNSPACKET"}
               /\ s \in {"open", "running"} => s = srv
      BY <1>1, <2>1 DEF NothingYet
    <2>2. QED
      BY <2>1 DEF Sends
  <1>5. request' = request \/ request' = None
    BY DEF Sends
  <1>6. request'.mType \in Opens => request' = request
    BY <1>5 DEF None, Opens
  <1>7. pc' \in Early => NothingYet' /\ request'.mType \notin Opens
    BY <1>1, <1>2, <1>4, <1>6 DEF ServerInv
  <1>8. request'.mType \in Opens =>
          NothingYet' /\ request'.mVirtualHostID = args'.host
    BY <1>1, <1>2, <1>4, <1>6 DEF ServerInv
  <1>9. request'.mType = "VNS_OPEN_TEMPLATE" => args'.template
    BY <1>1, <1>2, <1>6 DEF ServerInv, Opens
  <1>10. srv' = "open" => Numbers(sent', "VNSHWINFO") = {}
    <2>1. CASE s = "open"
      <3>1. Numbers(sent, "VNSHWINFO") = {} /\ mType # "VNSHWINFO"
        BY <2>1 DEF Sends
      <3>2. QED
        BY <1>1, <3>1
    <2>2. QED
      BY <1>1, <2>1
  <1>11. srv' = "running" => Numbers(sent', "VNSHWINFO") # {}
    <2>1. CASE s = "running"
      <3>1. CASE mType = "VNSHWINFO"
        <4>1. Len(sent) + 1 \in Numbers(sent', "VNSHWINFO")
          BY <1>1, <3>1 DEF Extended, Numbers
        <4>2. QED
          BY <4>1
      <3>2. CASE mType # "VNSHWINFO"
        BY <1>1, <2>1, <3>2 DEF Sends
      <3>3. QED
        BY <3>1, <3>2
    <2>2. QED
      BY <1>1, <2>1
  <1>12. QED
    BY <1>1, <1>3, <1>7, <1>8, <1>9, <1>10, <1>11 DEF ServerInv

\* The salt.
LEMMA SendsSalt ==
  ASSUME SessionInv, Inv', NEW h, NEW mType, NEW body, NEW s,
         Sends(h, mType, body, s)
  PROVE  SaltInv'
  <1>1. /\ UNCHANGED <<key, pc>> /\ Extended(mType, body)
        /\ Consumed' = Consumed /\ Len(sent) \in Nat
        /\ DOMAIN sent = 1..Len(sent)
    BY SendsFacts DEF Extended
  <1>2. SaltInv
    BY DEF SessionInv
  <1>3. CASE request.mType # "none" /\ request' = None
               /\ mType # "VNS_AUTH_REQUEST"
    <2>1. Consumed >= 1 /\ Consumed \in Nat
      BY <1>1, <1>2, <1>3 DEF SaltInv, Extended
    <2>2. request'.mType = "none"
      BY <1>3 DEF None
    <2>3. QED
      BY <1>1, <1>2, <2>1, <2>2 DEF SaltInv, DigestRight
  <1>4. CASE h = sent /\ request' = request
    <2>1. \A n \in DOMAIN sent : sent'[n] = sent[n]
      <3>1. sent' = Append(sent, [mType |-> mType, body |-> body])
        BY <1>4 DEF Sends, TransmitAfter
      <3>2. sent \in Seq(ToSet(sent))
        BY SentLengths DEF SessionInv
      <3>3. QED
        BY <3>1, <3>2, AppendOwn
    <2>2. ASSUME Consumed = 0, NEW n \in Numbers(sent', "VNS_AUTH_REQUEST")
          PROVE  sent'[n].body.salt \in Salts
      <3>1. CASE n \in Numbers(sent, "VNS_AUTH_REQUEST")
        BY <1>2, <2>1, <2>2, <3>1 DEF SaltInv, Numbers
      <3>2. CASE n = Len(sent) + 1 /\ mType = "VNS_AUTH_REQUEST"
        BY <1>1, <3>2 DEF Sends, Allowed, Extended
      <3>3. QED
        BY <1>1, <3>1, <3>2, NumbersGrow
    <2>3. ASSUME request.mType = "VNS_AUTH_REPLY"
          PROVE  sent'[1] = sent[1]
      <3>1. sent # <<>>
        BY <2>3 DEF SessionInv, Inv, StartInv
      <3>2. 1 \in DOMAIN sent
        BY <1>1, <3>1, SentLengths DEF SessionInv
      <3>3. QED
        BY <2>1, <3>2
    <2>4. /\ request'.mType = "VNS_AUTH_REPLY" =>
               sent'[1].mType = "VNS_AUTH_REQUEST"
          /\ DigestRight'
      BY <1>1, <1>2, <1>4, <2>3 DEF SaltInv, DigestRight
    <2>5. QED
      BY <1>1, <1>2, <1>4, <2>2, <2>4 DEF SaltInv
  <1>5. QED
    BY <1>3, <1>4 DEF Sends

\* The tables.
LEMMA SendsTable ==
  ASSUME SessionInv, Inv', NEW h, NEW mType, NEW body, NEW s,
         Sends(h, mType, body, s)
  PROVE  TableInv'
  <1>1. /\ UNCHANGED <<args, files, rt, pc>> /\ Extended(mType, body)
    BY SendsFacts
  <1>2. \A n \in Numbers(sent, "VNS_RTABLE") :
          n \in Numbers(sent', "VNS_RTABLE") /\ sent'[n] = sent[n]
    BY <1>1, BodyStays
  <1>3. TableInv
    BY DEF SessionInv
  <1>4. ASSUME pc \in {"reload", "init"} /\ args.template
        PROVE  \E n \in Numbers(sent', "VNS_RTABLE") :
                 /\ RtableFile(args.host) \in DOMAIN files
                 /\ files[RtableFile(args.host)] = sent'[n].body.rtable
    <2>1. PICK n \in Numbers(sent, "VNS_RTABLE") :
            /\ RtableFile(args.host) \in DOMAIN files
            /\ files[RtableFile(args.host)] = sent[n].body.rtable
      BY <1>3, <1>4 DEF TableInv
    <2>2. QED
      BY <1>2, <2>1
  <1>5. QED
    BY <1>1, <1>3, <1>4 DEF TableInv

\* The interfaces and the packets.
LEMMA SendsHardware ==
  ASSUME SessionInv, Inv', NEW h, NEW mType, NEW body, NEW s,
         Sends(h, mType, body, s)
  PROVE  HardwareInv'
  <1>1. /\ UNCHANGED <<rt, if_list, handled, pc>> /\ HistoryInv'
        /\ Extended(mType, body)
    BY SendsFacts
  <1>2. /\ Consumed' = Consumed /\ Consumed \in 0..Len(sent)
        /\ Len(sent) \in Nat /\ DOMAIN sent = 1..Len(sent)
        /\ DOMAIN sent' = 1..(Len(sent) + 1)
        /\ \A n \in DOMAIN sent :
             /\ sent'[n].mType = sent[n].mType
             /\ sent[n].mType # "VNS_AUTH_REQUEST" => sent'[n] = sent[n]
    BY <1>1 DEF Extended
  <1>3. \A n : n \in Taught' <=> n \in Taught
    BY <1>2 DEF Taught, Numbers
  <1>4. \A n \in Taught : sent'[n] = sent[n]
    BY <1>2 DEF Taught, Numbers
  <1>5. Due(sent', Consumed) = Due(sent, Consumed)
    <2>1. ASSUME NEW k \in 1..Consumed, sent[k].mType = "VNSPACKET"
          PROVE  /\ sent'[k] = sent[k]
                 /\ ForUs(sent, sent[k].body) <=> ForUs(sent', sent[k].body)
      <3>1. k \in Numbers(sent, "VNSPACKET") /\ sent'[k] = sent[k]
        BY <1>2, <2>1 DEF Numbers
      <3>2. PICK m \in Numbers(sent, "VNSHWINFO") : TRUE
        BY <3>1 DEF SessionInv, HistoryInv
      <3>3. m \in Numbers(sent', "VNSHWINFO") /\ sent'[m] = sent[m]
        BY <1>1, BodyStays
      <3>4. /\ \A l, n \in Numbers(sent, "VNSHWINFO") : l = n
            /\ \A l, n \in Numbers(sent', "VNSHWINFO") : l = n
        BY <1>1 DEF SessionInv, HistoryInv
      <3>5. DOMAIN sent \subseteq Nat /\ DOMAIN sent' \subseteq Nat
        BY <1>2
      <3>6. FirstIn(sent, "VNSHWINFO") = m
        BY <3>2, <3>4, <3>5, OnlyOne
      <3>7. FirstIn(sent', "VNSHWINFO") = m
        BY <3>3, <3>4, <3>5, OnlyOne
      <3>8. QED
        BY <3>1, <3>3, <3>6, <3>7 DEF ForUs
    <2>2. \A k \in 1..Consumed :
            /\ sent[k].mType = "VNSPACKET" <=> sent'[k].mType = "VNSPACKET"
            /\ sent[k].mType = "VNSPACKET" =>
                 sent[k].body = sent'[k].body
                   /\ (ForUs(sent, sent[k].body) <=> ForUs(sent', sent[k].body))
      BY <1>2, <2>1
    <2>3. Consumed \in Nat
      BY <1>2
    <2>4. QED
      BY <2>2, <2>3, DueKept
  <1>6. PacketsHandled'
    BY <1>1, <1>2, <1>5 DEF SessionInv, HardwareInv, PacketsHandled
  <1>7. ASSUME NEW n \in Taught'
        PROVE  \/ pc' = "exit" /\ n = Consumed'
               \/ /\ pc' \in {"loop", "exit"}
                  /\ if_list' = WithHardware(<<>>, sent'[n].body.mHWInfo)
                  /\ sr_verify_routing_table(rt', if_list') = 0
    BY <1>1, <1>2, <1>3, <1>4 DEF SessionInv, HardwareInv
  <1>8. QED
    BY <1>1, <1>3, <1>6, <1>7 DEF SessionInv, HardwareInv

\* All of it.
LEMMA SendsSession ==
  ASSUME SessionInv, Inv', NEW h, NEW mType, NEW body, NEW s,
         Sends(h, mType, body, s)
  PROVE  SessionInv'
  BY SendsFacts, SendsServer, SendsSalt, SendsTable, SendsHardware
     DEF SessionInv

\* What was sent stays.
LEMMA SentKept ==
  ASSUME SessionInv
  PROVE  KeptCommands(sent)
  BY SentLengths DEF SessionInv, KeptCommands

\* An interface that the server has described is one of its hardware.
LEMMA DescribedNames ==
  ASSUME NEW name \in Described
  PROVE  \E m \in Numbers(sent, "VNSHWINFO") : Names(sent[m].body.mHWInfo, name)
  <1>1. PICK e \in UNION {ToSet(c.body.mHWInfo) :
                    c \in {c \in ToSet(sent) : c.mType = "VNSHWINFO"}} :
               e.mKey = "HWINTERFACE" /\ e.value = name
    BY DEF Described
  <1>2. PICK c \in ToSet(sent) : c.mType = "VNSHWINFO"
                                   /\ e \in ToSet(c.body.mHWInfo)
    BY <1>1
  <1>3. PICK m \in DOMAIN sent : c = sent[m]
    BY <1>2 DEF ToSet
  <1>4. PICK i \in DOMAIN c.body.mHWInfo : e = c.body.mHWInfo[i]
    BY <1>2 DEF ToSet
  <1>5. m \in Numbers(sent, "VNSHWINFO")
    BY <1>2, <1>3 DEF Numbers
  <1>6. QED
    BY <1>1, <1>3, <1>4, <1>5 DEF Names

\* The server sends a command on its own account.
LEMMA TalksSession ==
  ASSUME SessionInv, Inv',
         ServerAsks \/ ServerDescribes \/ ServerTalks \/ ServerCloses
  PROVE  SessionInv'
  <1>1. ServerInv /\ KeptCommands(sent) /\ request' = request
    BY SentKept DEF SessionInv, ServerAsks, ServerDescribes, ServerTalks,
                    ServerCloses
  <1>2. CASE ServerAsks
    <2>1. PICK salt \in Salts :
            TransmitAfter(sent, "VNS_AUTH_REQUEST", [salt |-> salt], "asked")
      BY <1>2 DEF ServerAsks, Transmit
    <2>2. sent = <<>> /\ srv = "accepted"
      BY <1>1, <1>2 DEF ServerAsks, ServerInv
    <2>3. Sends(sent, "VNS_AUTH_REQUEST", [salt |-> salt], "asked")
      BY <1>1, <2>1, <2>2 DEF Sends, Allowed
    <2>4. QED
      BY <2>3, SendsSession
  <1>3. CASE ServerDescribes
    <2>1. PICK hw \in Hardware :
            TransmitAfter(sent, "VNSHWINFO", [mHWInfo |-> hw], "running")
      BY <1>3 DEF ServerDescribes, Transmit
    <2>2. srv = "open" /\ Numbers(sent, "VNSHWINFO") = {}
      BY <1>1, <1>3 DEF ServerDescribes, ServerInv
    <2>3. pc \notin Early /\ request'.mType \notin Opens
      BY <1>1, <2>2 DEF ServerInv, NothingYet
    <2>4. Sends(sent, "VNSHWINFO", [mHWInfo |-> hw], "running")
      BY <1>1, <2>1, <2>2, <2>3 DEF Sends, Allowed
    <2>5. QED
      BY <2>4, SendsSession
  <1>4. CASE ServerTalks
    <2>1. CASE \E p \in Packets : /\ srv = "running" /\ p.iface \in Described
                                  /\ Transmit("VNSPACKET", p, srv)
      <3>1. PICK p \in Packets : /\ srv = "running" /\ p.iface \in Described
                                 /\ TransmitAfter(sent, "VNSPACKET", p, srv)
        BY <2>1 DEF Transmit
      <3>2. \E m \in Numbers(sent, "VNSHWINFO") :
              Names(sent[m].body.mHWInfo, p.iface)
        BY <3>1, DescribedNames
      <3>3. pc \notin Early /\ request'.mType \notin Opens
            /\ Numbers(sent, "VNSHWINFO") # {}
        BY <1>1, <3>1 DEF ServerInv, NothingYet
      <3>4. Sends(sent, "VNSPACKET", p, srv)
        BY <1>1, <3>1, <3>2, <3>3 DEF Sends, Allowed
      <3>5. QED
        BY <3>4, SendsSession
    <2>2. CASE /\ srv \in {"judged", "running"}
               /\ \E mType \in {"VNSBANNER", "unknown"} :
                    Transmit(mType, <<>>, srv)
      <3>1. PICK mType \in {"VNSBANNER", "unknown"} :
              TransmitAfter(sent, mType, <<>>, srv)
        BY <2>2 DEF Transmit
      <3>2. srv = "running" => Numbers(sent, "VNSHWINFO") # {}
        BY <1>1 DEF ServerInv
      <3>3. Sends(sent, mType, <<>>, srv)
        BY <1>1, <2>2, <3>1, <3>2 DEF Sends, Allowed
      <3>4. QED
        BY <3>3, SendsSession
    <2>3. QED
      BY <1>4, <2>1, <2>2 DEF ServerTalks
  <1>5. CASE ServerCloses
    <2>1. TransmitAfter(sent, "VNSCLOSE", <<>>, "closed") /\ srv # "listens"
      BY <1>5 DEF ServerCloses, Transmit
    <2>2. Sends(sent, "VNSCLOSE", <<>>, "closed")
      BY <1>1, <2>1 DEF Sends, Allowed
    <2>3. QED
      BY <2>2, SendsSession
  <1>6. QED
    BY <1>2, <1>3, <1>4, <1>5

\* The server judges the digest; the salt has served.
LEMMA JudgesSession ==
  ASSUME SessionInv, Inv', ServerJudges
  PROVE  SessionInv'
  <1> DEFINE h == [sent EXCEPT ![1].body = <<>>]
  <1>1. /\ request.mType = "VNS_AUTH_REPLY" /\ request' = None
        /\ \E ok : TransmitAfter(h, "VNS_AUTH_STATUS", [auth_ok |-> ok],
                                 "judged")
    BY DEF ServerJudges
  <1>2. /\ sent # <<>> /\ sent[1].mType = "VNS_AUTH_REQUEST"
        /\ sent \in Seq(ToSet(sent)) /\ DOMAIN sent = 1..Len(sent)
        /\ Len(sent) \in Nat
    BY <1>1, SentLengths DEF SessionInv, Inv, StartInv, SaltInv
  <1>3. KeptCommands(h)
    <2>1. 1 \in DOMAIN sent /\ "mType" \in DOMAIN sent[1]
      BY <1>2 DEF SessionInv, Inv, SentInv
    <2>2. /\ DOMAIN h = DOMAIN sent /\ h[1].mType = sent[1].mType
          /\ \A m \in DOMAIN sent : m # 1 => h[m] = sent[m]
      BY <2>1
    <2>3. \A m \in DOMAIN sent : h[m] \in ToSet(sent) \cup {h[1]}
      <3>1. \A m \in DOMAIN sent : sent[m] \in ToSet(sent)
        BY DEF ToSet
      <3>2. QED
        BY <2>2, <3>1
    <2>4. h = [m \in 1..Len(sent) |-> h[m]]
      BY <1>2, <2>2
    <2> HIDE DEF h
    <2>5. h \in Seq(ToSet(sent) \cup {h[1]}) /\ Len(h) = Len(sent)
      BY <1>2, <2>3, <2>4
    <2>6. h \in Seq(ToSet(h))
      BY <2>5, OwnElements
    <2>7. QED
      BY <1>2, <2>2, <2>5, <2>6 DEF KeptCommands
  <1> HIDE DEF h
  <1>4. PICK ok : TransmitAfter(h, "VNS_AUTH_STATUS", [auth_ok |-> ok],
                                "judged")
    BY <1>1
  <1>5. srv # "listens"
    BY <1>2 DEF SessionInv, ServerInv
  <1>6. Sends(h, "VNS_AUTH_STATUS", [auth_ok |-> ok], "judged")
    BY <1>1, <1>3, <1>4, <1>5 DEF Sends, Allowed
  <1>7. QED
    BY <1>6, SendsSession

\* The server takes the request for a topology.
LEMMA OpensSession ==
  ASSUME SessionInv, Inv', ServerOpens
  PROVE  SessionInv'
  <1>1. request.mType \in {"VNSOPEN", "VNS_OPEN_TEMPLATE"} /\ request' = None
    BY DEF ServerOpens
  <1>2. /\ NothingYet /\ request.mVirtualHostID = args.host /\ pc \notin Early
        /\ request.mType = "VNS_OPEN_TEMPLATE" => args.template
        /\ Numbers(sent, "VNSHWINFO") = {}
    BY <1>1 DEF SessionInv, ServerInv, Opens, NothingYet
  <1>3. srv # "listens"
    BY <1>1 DEF SessionInv, ServerInv, Inv, StartInv
  <1>4. request'.mType \notin Opens /\ request'.mType = "none"
    BY <1>1 DEF None, Opens
  <1>5. CASE request.mType = "VNSOPEN"
    <2>1. /\ srv' = "open"
          /\ UNCHANGED <<args, files, key, rt, if_list, handled, pc, rd, sent,
                         net>>
      BY <1>5 DEF ServerOpens, mainVars
    <2>2. OrderInv' /\ Consumed' = Consumed
      <3>1. Stream' = Stream
        BY <2>1 DEF Stream
      <3>2. QED
        BY <2>1, <3>1, QuietOrder DEF SessionInv
    <2>3. \A t : Numbers(sent', t) = Numbers(sent, t)
      BY <2>1
    <2>4. HistoryInv'
      BY <2>1 DEF SessionInv, HistoryInv
    <2>5. ServerInv'
      <3>1. pc' \notin Early /\ pc' \notin {"load", "connect"}
        BY <1>2, <2>1 DEF Early
      <3>2. QED
        BY <1>2, <1>4, <2>1, <2>3, <3>1 DEF ServerInv
    <2>6. SaltInv'
      BY <1>4, <2>1, <2>2 DEF SessionInv, SaltInv, DigestRight
    <2>7. TableInv'
      BY <2>1 DEF SessionInv, TableInv
    <2>8. HardwareInv'
      <3>1. Taught' = Taught
        BY <2>1, <2>2 DEF Taught
      <3>2. PacketsHandled'
        BY <2>1, <2>2 DEF SessionInv, HardwareInv, PacketsHandled
      <3>3. QED
        BY <2>1, <2>2, <3>1, <3>2 DEF SessionInv, HardwareInv
    <2>9. QED
      BY <2>2, <2>4, <2>5, <2>6, <2>7, <2>8 DEF SessionInv
  <1>6. CASE request.mType = "VNS_OPEN_TEMPLATE"
    <2>1. PICK t \in ServerTables :
            TransmitAfter(sent, "VNS_RTABLE",
                          [mVirtualHostID |-> request.mVirtualHostID,
                           rtable |-> t], "open")
      BY <1>6 DEF ServerOpens, Transmit
    <2>2. PICK body : body = [mVirtualHostID |-> request.mVirtualHostID,
                              rtable |-> t]
      OBVIOUS
    <2>3. body.mVirtualHostID = args.host
          /\ TransmitAfter(sent, "VNS_RTABLE", body, "open")
      BY <1>2, <2>1, <2>2
    <2>4. Allowed("VNS_RTABLE", body)
      BY <1>2, <1>6, <2>3 DEF Allowed, NothingYet
    <2>5. KeptCommands(sent)
      BY SentKept
    <2>6. Sends(sent, "VNS_RTABLE", body, "open")
      BY <1>1, <1>2, <1>3, <1>4, <1>6, <2>3, <2>4, <2>5 DEF Sends
    <2>7. QED
      BY <2>6, SendsSession
  <1>7. QED
    BY <1>1, <1>5, <1>6

-----------------------------------------------------------------------------
(* The session from start to end.                                          *)

\* The router handles a command.
LEMMA HandleSession ==
  ASSUME SessionInv, Inv', Handle
  PROVE  SessionInv'
  <1>1. pc' # "aborted"
    BY NeverAborts
  <1>2. OrderInv'
    BY <1>1, HandleFacts
  <1>3. QED
    BY <1>1, <1>2, HandleServer, HandleSalt, HandleTable, HandleHardware
       DEF SessionInv

\* Before the first step nothing was sent.
LEMMA InitSession ==
  ASSUME Init
  PROVE  SessionInv
  <1>1. Inv
    BY InitInv
  <1>2. /\ rd.got = <<>> /\ net = <<>> /\ sent = <<>> /\ rt = <<>>
        /\ if_list = <<>> /\ handled = <<>> /\ srv = "listens"
        /\ request.mType = "none" /\ key \in AuthKeys /\ files \in FileSystems
        /\ pc = IF args.template THEN "connect" ELSE "load"
    BY DEF Init, NothingRead, None
  <1>3. \A t : Numbers(sent, t) = {}
    BY <1>2 DEF Numbers
  <1>4. Consumed = 0
    BY <1>2 DEF Consumed
  <1>5. OrderInv
    BY <1>2 DEF OrderInv, InOrder, Stream
  <1>6. HistoryInv
    BY <1>3 DEF HistoryInv
  <1>7. ServerInv
    BY <1>2, <1>3 DEF ServerInv, NothingYet, Opens
  <1>8. SaltInv
    BY <1>2, <1>3, <1>4 DEF SaltInv, DigestRight
  <1>9. TableInv
    <2>1. \A name \in DOMAIN files : Routes(files[name])
      BY <1>2, RoutesAssumption
    <2>2. DOMAIN rt = 1..Len(rt) /\ Len(rt) \in Nat
      BY <1>2
    <2>3. CASE args.template
      BY <1>2, <2>1, <2>2, <2>3 DEF TableInv
    <2>4. CASE ~args.template /\ pc = "load"
      BY <1>2, <2>1, <2>2, <2>4 DEF TableInv
    <2>5. QED
      BY <1>2, <2>3, <2>4
  <1>10. HardwareInv
    <2>1. Taught = {}
      BY <1>3 DEF Taught
    <2>2. PacketsHandled
      BY <1>2, <1>4, DueNext DEF PacketsHandled
    <2>3. QED
      BY <1>2, <2>1, <2>2 DEF HardwareInv
  <1>11. QED
    BY <1>1, <1>5, <1>6, <1>7, <1>8, <1>9, <1>10 DEF SessionInv

\* A step that changes nothing.
LEMMA StutterSession ==
  ASSUME SessionInv, Inv', UNCHANGED vars
  PROVE  SessionInv'
  <1>1. UNCHANGED <<args, files, key, rt, if_list, handled, sent, srv, pc, rd,
                    net, request>>
    BY DEF vars, mainVars, serverVars
  <1>2. OrderInv' /\ Consumed' = Consumed
    <2>1. Stream' = Stream
      BY <1>1 DEF Stream
    <2>2. QED
      BY <1>1, <2>1, QuietOrder DEF SessionInv
  <1>3. \A t : Numbers(sent', t) = Numbers(sent, t)
    BY <1>1
  <1>4. HistoryInv'
    BY <1>1 DEF SessionInv, HistoryInv
  <1>5. ServerInv'
    BY <1>1, <1>3 DEF SessionInv, ServerInv, NothingYet
  <1>6. SaltInv'
    BY <1>1, <1>2 DEF SessionInv, SaltInv, DigestRight
  <1>7. TableInv'
    BY <1>1 DEF SessionInv, TableInv
  <1>8. HardwareInv'
    <2>1. Taught' = Taught
      BY <1>1, <1>2 DEF Taught
    <2>2. PacketsHandled'
      BY <1>1, <1>2 DEF SessionInv, HardwareInv, PacketsHandled
    <2>3. QED
      BY <1>1, <1>2, <2>1, <2>2 DEF SessionInv, HardwareInv
  <1>9. QED
    BY <1>2, <1>4, <1>5, <1>6, <1>7, <1>8 DEF SessionInv

\* Every step keeps the invariant of the session.
LEMMA NextSession ==
  ASSUME SessionInv, [Next]_vars
  PROVE  SessionInv'
  <1>1. Inv'
    BY NextInv DEF SessionInv
  <1>2. CASE Quiet
    BY <1>1, <1>2, QuietSession
  <1>3. CASE Handle
    BY <1>1, <1>3, HandleSession
  <1>4. CASE ServerAsks \/ ServerDescribes \/ ServerTalks \/ ServerCloses
    BY <1>1, <1>4, TalksSession
  <1>5. CASE ServerJudges
    BY <1>1, <1>5, JudgesSession
  <1>6. CASE ServerOpens
    BY <1>1, <1>6, OpensSession
  <1>7. CASE UNCHANGED vars
    BY <1>1, <1>7, StutterSession
  <1>8. Next => \/ Quiet \/ Handle \/ ServerJudges \/ ServerOpens
                \/ ServerAsks \/ ServerDescribes \/ ServerTalks \/ ServerCloses
    BY DEF Next, Router, Server, Quiet
  <1>9. QED
    BY <1>2, <1>3, <1>4, <1>5, <1>6, <1>7, <1>8

-----------------------------------------------------------------------------
(* What the invariant of the session says.                                 *)

\* An interface has a name and two addresses.
LEMMA InterfacesTyped ==
  ASSUME SessionInv
  PROVE  TypeOK
  <1>1. StateTypes
    BY DEF SessionInv, Inv
  <1>2. ASSUME NEW i \in DOMAIN if_list
        PROVE  DOMAIN if_list[i] = {"name", "addr", "ip"}
    <2>1. if_list # <<>>
      BY <1>2
    <2>2. PICK hw \in Hardware : if_list = WithHardware(<<>>, hw)
      BY <2>1 DEF SessionInv, HardwareInv
    <2>3. if_list \in Seq(Iface(Values(hw)))
      BY <2>2, HardwareListed, HardwareAssumption
    <2>4. if_list[i] \in Iface(Values(hw))
      BY <1>2, <2>3
    <2>5. QED
      BY <2>4 DEF Iface
  <1>3. QED
    BY <1>1, <1>2 DEF TypeOK

\* The table that main routes by is the one that was meant.
LEMMA RoutesIntended ==
  ASSUME SessionInv
  PROVE  LongestMatch
  <1>1. SUFFICES ASSUME pc = "init", ReceivedIsRead, NEW ip \in Address
                 PROVE  longestprefixmatch(rt, ip) = RouteOf(IntendedTable, ip)
    BY DEF LongestMatch
  <1>2. PICK lines : lines = files[args.rtable]
    OBVIOUS
  <1>3. /\ LoadedFrom(rt, lines) /\ Routes(lines)
        /\ lines \in Seq(ToSet(lines))
    <2>1. args.rtable \in DOMAIN files /\ LoadedFrom(rt, lines)
      BY <1>1, <1>2 DEF SessionInv, TableInv
    <2>2. Routes(lines)
      BY <1>2, <2>1 DEF SessionInv, TableInv
    <2>3. lines \in Seq(ToSet(lines))
      BY <1>2, <2>1 DEF SessionInv, Inv, FilesInv
    <2>4. QED
      BY <2>1, <2>2, <2>3
  <1>4. longestprefixmatch(rt, ip) = RouteOf(lines, ip)
    BY <1>3, SearchRight
  <1>5. IntendedTable = lines
    <2>1. CASE args.template
      <3>0. args.rtable = RtableFile(args.host)
        BY <1>1, <2>1 DEF ReceivedIsRead
      <3>1. PICK n \in Numbers(sent, "VNS_RTABLE") :
              files[RtableFile(args.host)] = sent[n].body.rtable
        BY <1>1, <2>1 DEF SessionInv, TableInv
      <3>2. \A m, l \in Numbers(sent, "VNS_RTABLE") : m = l
        BY DEF SessionInv, HistoryInv
      <3>3. DOMAIN sent \subseteq Nat
        <4>1. DOMAIN sent = 1..Len(sent)
          BY Position DEF SessionInv
        <4>2. QED
          BY <4>1
      <3>4. FirstIn(sent, "VNS_RTABLE") = n
        BY <3>2, <3>3, OnlyOne
      <3>5. QED
        BY <1>2, <2>1, <3>0, <3>1, <3>4 DEF IntendedTable
    <2>2. QED
      BY <1>2, <2>1 DEF IntendedTable
  <1>6. QED
    BY <1>4, <1>5

\* Where a packet was handed on, the hardware was described before, and every
\* route has an interface.
LEMMA RequestsLeave ==
  ASSUME SessionInv
  PROVE  FramesLeave
  <1>1. SUFFICES ASSUME handled # <<>>, NEW ip \in Address,
                        NEW f, f = sr_arp_request(rt, if_list, ip),
                        longestprefixmatch(rt, ip) # NoEntry
                 PROVE  /\ sr_ether_addrs_match_interface(if_list,
                             f.ether_shost, f.iface)
                        /\ f.ether_shost # Unset /\ f.ar_sip # Unset
    BY DEF FramesLeave
  <1>2. /\ handled = Due(sent, Consumed) /\ Consumed \in Nat
        /\ Consumed <= Len(sent) /\ DOMAIN sent = 1..Len(sent)
        /\ Len(sent) \in Nat
    BY Position DEF SessionInv, HardwareInv, PacketsHandled
  <1>3. PICK k \in 1..Consumed : sent[k].mType = "VNSPACKET"
    BY <1>1, <1>2, DueNone
  <1>4. k \in Numbers(sent, "VNSPACKET")
    BY <1>2, <1>3 DEF Numbers
  <1>5. PICK m \in Numbers(sent, "VNSHWINFO") : m < k
    BY <1>4 DEF SessionInv, HistoryInv
  <1>6. m \in Taught /\ m # Consumed
    <2>1. m \in DOMAIN sent
      BY <1>5 DEF Numbers
    <2>2. m \in 1..Consumed /\ m # Consumed
      BY <1>2, <1>5, <2>1
    <2>3. QED
      BY <1>5, <2>2 DEF Taught
  <1>7. PICK hw : hw = sent[m].body.mHWInfo
    OBVIOUS
  <1>8. hw \in Hardware /\ if_list = WithHardware(<<>>, hw)
        /\ sr_verify_routing_table(rt, if_list) = 0
    BY <1>5, <1>6, <1>7 DEF SessionInv, HardwareInv, HistoryInv
  <1>9. PICK i \in 1..Len(rt) : longestprefixmatch(rt, ip) = rt[i]
    BY <1>1, SearchIn DEF SessionInv, TableInv
  <1>10. PICK name : name = rt[i].interface
    OBVIOUS
  <1>11. PICK iface : iface = sr_get_interface(if_list, name)
    OBVIOUS
  <1>12. iface # NoInterface
    BY <1>8, <1>10, <1>11, VerifiedRoutes DEF SessionInv, TableInv
  <1>13. iface.name = name /\ iface.addr # Unset /\ iface.ip # Unset
    BY <1>8, <1>11, <1>12, InterfaceFound
  <1>14. f = sr_arp_make_packet(iface, Unset, ip, 1)
    BY <1>1, <1>9, <1>10, <1>11 DEF sr_arp_request
  <1>15. f.ether_shost = iface.addr /\ f.ar_sip = iface.ip
         /\ f.iface = iface.name
    BY <1>14 DEF sr_arp_make_packet
  <1>16. sr_ether_addrs_match_interface(if_list, f.ether_shost, f.iface)
    BY <1>11, <1>12, <1>13, <1>15 DEF sr_ether_addrs_match_interface
  <1>17. QED
    BY <1>13, <1>15, <1>16

-----------------------------------------------------------------------------
(* Theorems about the session.                                             *)

\* Where main, the server and what is between them are, at every moment of
\* every session: the invariant from which the theorems below follow.
THEOREM SessionInductive ==
  Spec => []SessionInv
  <1>1. Init => SessionInv
    BY InitSession
  <1>2. SessionInv /\ [Next]_vars => SessionInv'
    BY NextSession
  <1>3. QED
    BY <1>1, <1>2, PTL DEF Spec

\* The types of the state, with those of the interfaces that
\* sr_handle_hwinfo makes of whatever hardware the server describes.
THEOREM Typed ==
  Spec => []TypeOK
  <1>1. SessionInv => TypeOK
    BY InterfacesTyped
  <1>2. QED
    BY <1>1, SessionInductive, PTL

\* sr_handle_auth_request answers with the SHA-1 of the salt and the key, for
\* salts of any length and keys of AUTH_KEY_LEN octets, the number it hashes
\* of every key.
THEOREM SignsRight ==
  Spec => []DigestRight
  <1>1. SessionInv => DigestRight
    BY DEF SessionInv, SaltInv
  <1>2. QED
    BY <1>1, SessionInductive, PTL

\* Every packet for the router that was read has gone to sr_handlepacket, once
\* and in order, and the assertion in sr_arp_req_not_for_us never fails.
THEOREM PacketsArrive ==
  Spec => []PacketsHandled
  <1>1. SessionInv => PacketsHandled
    BY DEF SessionInv, HardwareInv
  <1>2. QED
    BY <1>1, SessionInductive, PTL

\* main routes by the longest prefixes of the table that was meant, whatever
\* that table and however wide addresses are, unless a template was asked for
\* and -r names another file than the one the table received is written to.
THEOREM RoutesRight ==
  Spec => []LongestMatch
  <1>1. SessionInv => LongestMatch
    BY RoutesIntended
  <1>2. QED
    BY <1>1, SessionInductive, PTL

\* Once a packet was handed on, every route has an interface with both its
\* addresses, so that the ARP requests of sr_handlepacket can leave.
THEOREM RequestsGoOut ==
  Spec => []FramesLeave
  <1>1. SessionInv => FramesLeave
    BY RequestsLeave
  <1>2. QED
    BY <1>1, SessionInductive, PTL
=============================================================================
