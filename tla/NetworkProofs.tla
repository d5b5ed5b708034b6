--------------------------- MODULE NetworkProofs ---------------------------
(* One connection: whatever the messages, however their bytes are cut into    *)
(* pieces and in whatever order writes fail and the connection ends, messages *)
(* are delivered in their order, and a peer gets the first of the writes.     *)
(* The peers: for any nodes, addresses and order of connections, handshakes   *)
(* and failures, one entry per node, handshakes kept with their connection    *)
(* while only one at a time is awaited, and the blacklist.                    *)
EXTENDS Connection, Peers, SequenceTheorems, FiniteSetTheorems,
        WellFoundedInduction, TLAPS

-----------------------------------------------------------------------------
(* Numbers and recursion *)

Less == {ss \in Nat \X Nat : ss[1] < ss[2]}

LEMMA SmallestExists ==
  ASSUME NEW S \in SUBSET Nat, S # {}
  PROVE  \E m \in S : \A x \in S : m <= x
<1>1. IsWellFoundedOn(Less, Nat)
  BY Zenon, NatLessThanWellFounded DEF OpToRel, Less
<1>2. PICK m \in S : \A x \in S : ~ (<<x, m>> \in Less)
  BY <1>1, WFMin, Zenon
<1>3. ASSUME NEW x \in S PROVE m <= x
  <2>1. x < m => <<x, m>> \in Less
    BY DEF Less
  <2>. QED BY <1>2, <2>1
<1>. QED
  BY <1>3

\* Induction: a set of natural numbers with 0 and every successor is Nat.
LEMMA Induction ==
  ASSUME NEW S, 0 \in S, \A n \in Nat : n \in S => n + 1 \in S
  PROVE  Nat \subseteq S
<1>1. SUFFICES ASSUME Nat \ S # {} PROVE FALSE
  OBVIOUS
<1>2. PICK m \in Nat \ S : \A x \in Nat \ S : m <= x
  <2>1. Nat \ S \in SUBSET Nat
    OBVIOUS
  <2>. QED BY <1>1, <2>1, SmallestExists
<1>3. m # 0
  OBVIOUS
<1>4. m - 1 \in Nat /\ m - 1 \in S
  BY <1>2, <1>3
<1>. QED BY <1>4

\* What f has at i: an end, or more than it has at a greater number.
GoesOn(f, i, stop, end, back, more) ==
  f[i] = IF i \in stop THEN end[i] ELSE more[<<i, f[back[i]]>>]

\* A recursion to greater numbers exists.
LEMMA ForwardRecursion ==
  ASSUME NEW n \in Nat, NEW V, NEW stop, NEW end, NEW back, NEW more,
         \A i \in 1..n : i \in stop => end[i] \in V,
         \A i \in 1..n : i \notin stop =>
           back[i] \in i + 1..n /\ \A v \in V : more[<<i, v>>] \in V
  PROVE  \E f \in [1..n -> V] : \A i \in 1..n : GoesOn(f, i, stop, end, back, more)
<1>. DEFINE On(k, f) == \A i \in n - k + 1..n : GoesOn(f, i, stop, end, back, more)
            S == {k \in Nat : k <= n => \E f \in [n - k + 1..n -> V] : On(k, f)}
<1>1. 0 \in S
  <2>1. [i \in n - 0 + 1..n |-> end[i]] \in [n - 0 + 1..n -> V]
    OBVIOUS
  <2>2. On(0, [i \in n - 0 + 1..n |-> end[i]])
    OBVIOUS
  <2>. QED BY <2>1, <2>2
<1>2. ASSUME NEW k \in Nat, k \in S PROVE k + 1 \in S
  <2>1. SUFFICES ASSUME k + 1 <= n
                 PROVE  \E f \in [n - (k + 1) + 1..n -> V] : On(k + 1, f)
    OBVIOUS
  <2>2. PICK f \in [n - k + 1..n -> V] : On(k, f)
    BY <1>2, <2>1
  <2>. DEFINE new == IF n - k \in stop THEN end[n - k] ELSE more[<<n - k, f[back[n - k]]>>]
              g == [i \in n - (k + 1) + 1..n |-> IF i = n - k THEN new ELSE f[i]]
  <2>3. n - k \in 1..n /\ n - (k + 1) + 1 = n - k
    BY <2>1
  <2>4. new \in V
    <3>1. CASE n - k \in stop
      BY <2>3, <3>1
    <3>2. CASE n - k \notin stop
      <4>1. back[n - k] \in n - k + 1..n
        BY <2>3, <3>2
      <4>. QED BY <2>3, <3>2, <4>1
    <3>. QED BY <3>1, <3>2
  <2>. HIDE DEF new
  <2>5. g \in [n - (k + 1) + 1..n -> V]
    BY <2>3, <2>4
  <2>6. g[n - k] = new /\ \A i \in n - k + 1..n : g[i] = f[i]
    BY <2>3
  <2>. HIDE DEF g
  <2>7. ASSUME NEW i \in n - (k + 1) + 1..n PROVE GoesOn(g, i, stop, end, back, more)
    <3>1. CASE i = n - k
      <4>1. CASE i \in stop
        BY <2>6, <3>1, <4>1 DEF GoesOn, new
      <4>2. CASE i \notin stop
        <5>1. back[i] \in n - k + 1..n
          BY <2>3, <3>1, <4>2
        <5>2. g[back[i]] = f[back[i]]
          BY <2>6, <5>1
        <5>. QED BY <2>6, <3>1, <4>2, <5>2 DEF GoesOn, new
      <4>. QED BY <4>1, <4>2
    <3>2. CASE i # n - k
      <4>1. i \in n - k + 1..n /\ i \in 1..n
        BY <2>3, <3>2
      <4>2. i \notin stop => back[i] \in n - k + 1..n
        BY <4>1
      <4>. QED BY <2>2, <2>6, <4>1, <4>2 DEF GoesOn
    <3>. QED BY <3>1, <3>2
  <2>. QED BY <2>5, <2>7
<1>. HIDE DEF S
<1>3. n \in S
  BY <1>1, <1>2, Induction
<1>4. PICK f \in [n - n + 1..n -> V] : On(n, f)
  BY <1>3 DEF S
<1>. QED BY <1>4

-----------------------------------------------------------------------------
(* Cutting packets *)

Byte == 0..Base - 1

Idle(data, i) ==
  \/ Len(data) - i + 1 < HeaderSize
  \/ ~ValidLength(data, i)
  \/ ~Complete(data, i)

Behind(data, i) == i + HeaderSize + LengthAt(data, i)

\* What getPacket has cut off from position i on.
Cut(cut, data, i) ==
  IF Len(data) - i + 1 < HeaderSize
    THEN [packets |-> <<>>, rest |-> i, throws |-> FALSE]
  ELSE IF ~ValidLength(data, i)
    THEN [packets |-> <<>>, rest |-> i, throws |-> TRUE]
  ELSE IF ~Complete(data, i)
    THEN [packets |-> <<>>, rest |-> i, throws |-> FALSE]
  ELSE [cut[Behind(data, i)] EXCEPT
          !.packets = <<SubSeq(data, i + HeaderSize, Behind(data, i) - 1)>> \o @]

Cuts(cut, data) == cut = [i \in 1..Len(data) + 1 |-> Cut(cut, data, i)]

LEMMA OtherPackets ==
  ASSUME NEW A, NEW B, NEW C, NEW v \in [packets : A, rest : B, throws : C], NEW x
  PROVE  [v EXCEPT !.packets = x] = [packets |-> x, rest |-> v.rest, throws |-> v.throws]
OBVIOUS

LEMMA CutExists ==
  ASSUME NEW data \in Seq(Byte)
  PROVE  \E cut : Cuts(cut, data)
<1>. DEFINE n == Len(data) + 1
            Cutting == [packets : Seq(Seq(Byte)), rest : 1..n, throws : BOOLEAN]
            stop == {i \in 1..n : Idle(data, i)}
            wrong(i) == Len(data) - i + 1 >= HeaderSize /\ ~ValidLength(data, i)
            end == [i \in 1..n |-> [packets |-> <<>>, rest |-> i,
                                    throws |-> IF wrong(i) THEN TRUE ELSE FALSE]]
            back == [i \in 1..n |-> Behind(data, i)]
            more == [p \in (1..n) \X Cutting |->
                      [packets |-> <<SubSeq(data, p[1] + HeaderSize, Behind(data, p[1]) - 1)>>
                                     \o p[2].packets,
                       rest |-> p[2].rest, throws |-> p[2].throws]]
<1>1. n \in Nat /\ HeaderSize \in Nat \ {0}
  BY ConnectionAssumption
<1>2. ASSUME NEW i \in 1..n, i \in stop PROVE end[i] \in Cutting
  BY <1>1
<1>3. ASSUME NEW i \in 1..n, i \notin stop
      PROVE  Behind(data, i) \in i + 1..n
  <2>1. LengthAt(data, i) \in Nat
    BY <1>3, ConnectionAssumption DEF Idle, ValidLength
  <2>. QED BY <1>1, <1>3, <2>1 DEF Idle, Complete, Behind
<1>4. ASSUME NEW i \in 1..n, i \notin stop, NEW v \in Cutting
      PROVE  /\ more[<<i, v>>] = [v EXCEPT !.packets =
                   <<SubSeq(data, i + HeaderSize, Behind(data, i) - 1)>> \o @]
             /\ more[<<i, v>>] \in Cutting
  <2>1. Behind(data, i) \in i + 1..n
    BY <1>3, <1>4
  <2>. DEFINE front == SubSeq(data, i + HeaderSize, Behind(data, i) - 1)
  <2>2. front \in Seq(Byte)
    <3>1. \A j \in i + HeaderSize..Behind(data, i) - 1 : data[j] \in Byte
      BY <1>1, <2>1
    <3>2. i + HeaderSize \in Int /\ Behind(data, i) - 1 \in Int
      BY <1>1, <2>1
    <3>. QED BY <3>1, <3>2, SubSeqProperties
  <2>. HIDE DEF front
  <2>3. <<front>> \o v.packets \in Seq(Seq(Byte))
    BY <2>2
  <2>4. more[<<i, v>>] = [packets |-> <<front>> \o v.packets, rest |-> v.rest,
                          throws |-> v.throws]
    BY DEF front
  <2>6. v.rest \in 1..n /\ v.throws \in BOOLEAN
    OBVIOUS
  <2>7. [v EXCEPT !.packets = <<front>> \o @]
          = [packets |-> <<front>> \o v.packets, rest |-> v.rest, throws |-> v.throws]
    <3>1. v \in [packets : Seq(Seq(Byte)), rest : 1..n, throws : BOOLEAN]
      OBVIOUS
    <3>. DEFINE x == <<front>> \o v.packets
    <3>2. [v EXCEPT !.packets = x] = [packets |-> x, rest |-> v.rest, throws |-> v.throws]
      <4>. HIDE DEF n, more, Cutting, x
      <4>. QED BY <3>1, OtherPackets
    <3>. QED BY <3>2, Zenon
  <2>. HIDE DEF more
  <2>8. more[<<i, v>>] \in Cutting
    BY <2>3, <2>4, <2>6
  <2>. QED BY <2>4, <2>7, <2>8 DEF front
<1>. HIDE DEF n, Cutting, stop, end, wrong, back, more
<1>5. \A i \in 1..n : i \notin stop => back[i] = Behind(data, i) /\ back[i] \in i + 1..n
  BY <1>3 DEF back
<1>6. PICK f \in [1..n -> Cutting] : \A i \in 1..n : GoesOn(f, i, stop, end, back, more)
  BY <1>1, <1>2, <1>4, <1>5, ForwardRecursion
<1>7. ASSUME NEW i \in 1..n PROVE f[i] = Cut(f, data, i)
  <2>1. CASE i \in stop
    <3>1. f[i] = end[i]
      BY <1>6, <2>1 DEF GoesOn
    <3>2. end[i] = [packets |-> <<>>, rest |-> i, throws |-> IF wrong(i) THEN TRUE ELSE FALSE]
      BY DEF end
    <3>3. Len(data) - i + 1 >= HeaderSize <=> ~(Len(data) - i + 1 < HeaderSize)
      BY <1>1 DEF n
    <3>4. CASE wrong(i)
      BY <3>1, <3>2, <3>3, <3>4 DEF wrong, Cut
    <3>5. CASE ~wrong(i)
      <4>1. Len(data) - i + 1 < HeaderSize \/ (ValidLength(data, i) /\ ~Complete(data, i))
        BY <2>1, <3>3, <3>5 DEF wrong, stop, Idle
      <4>. QED BY <3>1, <3>2, <3>5, <4>1 DEF Cut
    <3>. QED BY <3>4, <3>5
  <2>2. CASE i \notin stop
    <3>1. f[i] = more[<<i, f[Behind(data, i)]>>] /\ f[Behind(data, i)] \in Cutting
      <4>1. back[i] \in 1..n
        BY <1>1, <1>5, <2>2
      <4>. QED BY <1>5, <1>6, <2>2, <4>1 DEF GoesOn
    <3>2. ~Idle(data, i)
      BY <2>2 DEF stop
    <3>. QED BY <1>4, <2>2, <3>1, <3>2 DEF Idle, Cut
  <2>. QED BY <2>1, <2>2
<1>8. f = [i \in 1..n |-> f[i]]
  OBVIOUS
<1>9. f = [i \in 1..n |-> Cut(f, data, i)]
  BY <1>7, <1>8, Zenon
<1>. QED BY <1>9 DEF Cuts, n

LEMMA GetPacketCuts ==
  ASSUME NEW data \in Seq(Byte)
  PROVE  \E cut : /\ getPacket(data) = cut[1]
                  /\ \A i \in 1..Len(data) + 1 : cut[i] = Cut(cut, data, i)
<1>. DEFINE F == CHOOSE cut : Cuts(cut, data)
<1>1. getPacket(data) = F[1]
  BY Zenon DEF getPacket, Cuts, Cut, Behind
<1>2. Cuts(F, data)
  BY CutExists, Zenon
<1>. HIDE DEF F
<1>3. \A i \in 1..Len(data) + 1 : F[i] = Cut(F, data, i)
  BY <1>2, Zenon DEF Cuts
<1>. QED BY <1>1, <1>3

-----------------------------------------------------------------------------
(* What is on the wire *)

\* The bytes the peer writes: the handshake, then its messages, the k-th from the
\* byte at[k] on.
Wire(full, at, messages) ==
  /\ full \in Seq(Byte) /\ at \in [1..Len(messages) + 1 -> Nat]
  /\ at[1] = Len(HandshakeBytes) + 1 /\ at[Len(messages) + 1] = Len(full) + 1
  /\ SubSeq(full, 1, Len(HandshakeBytes)) = HandshakeBytes
  /\ \A k \in 1..Len(messages) :
       /\ at[k + 1] = at[k] + HeaderSize + Len(messages[k])
       /\ SubSeq(full, at[k], at[k] + HeaderSize - 1) = HeaderOf(Len(messages[k]))
       /\ SubSeq(full, at[k] + HeaderSize, at[k + 1] - 1) = messages[k]

LEMMA HeaderIs ==
  ASSUME NEW m \in Msg
  PROVE  /\ HeaderOf(Len(m)) \in Seq(Byte) /\ Len(HeaderOf(Len(m))) = HeaderSize
         /\ LengthOf(HeaderOf(Len(m))) = Len(m)
<1>1. Len(m) \in 0..MAX_PACKET_LEN
  <2>1. Len(m) \in 1..MAX_PACKET_LEN /\ MAX_PACKET_LEN \in Nat
    BY ConnectionAssumption
  <2>. QED BY <2>1
<1>2. \E header \in Header : LengthOf(header) = Len(m)
  BY <1>1, HeaderHoldsLength
<1>3. HeaderOf(Len(m)) \in Header /\ LengthOf(HeaderOf(Len(m))) = Len(m)
  BY <1>2, Zenon DEF HeaderOf
<1>4. \A h \in Header : h \in Seq(Byte) /\ Len(h) = HeaderSize
  BY ConnectionAssumption DEF Header, Byte
<1>. QED BY <1>3, <1>4

LEMMA PartOfPart ==
  ASSUME NEW S, NEW s \in Seq(S), NEW a \in Nat \ {0}, NEW p \in 0..Len(s),
         NEW i \in Nat \ {0}, NEW j \in Nat, j <= p - a + 1
  PROVE  SubSeq(SubSeq(s, a, p), i, j) = SubSeq(s, a + i - 1, a + j - 1)
<1>. DEFINE t == SubSeq(s, a, p)
<1>1. t \in Seq(S) /\ Len(t) = p - a + 1 /\ \A l \in 1..Len(t) : t[l] = s[a + l - 1]
  OBVIOUS
<1>. HIDE DEF t
<1>2. SubSeq(t, i, j) \in Seq(S) /\ SubSeq(s, a + i - 1, a + j - 1) \in Seq(S)
  BY <1>1
<1>3. Len(SubSeq(t, i, j)) = Len(SubSeq(s, a + i - 1, a + j - 1))
  BY <1>1
<1>4. ASSUME NEW l \in 1..Len(SubSeq(t, i, j))
      PROVE  SubSeq(t, i, j)[l] = SubSeq(s, a + i - 1, a + j - 1)[l]
  <2>1. l \in Nat \ {0} /\ l <= j - i + 1
    BY <1>1
  <2>2. PICK k \in Nat : k = i + l - 1
    BY <2>1
  <2>3. k \in 1..Len(t) /\ k \in i..j /\ a + k - 1 = a + i - 1 + l - 1
    BY <1>1, <2>1, <2>2
  <2>4. SubSeq(t, i, j)[l] = t[k] /\ t[k] = s[a + k - 1]
    BY <1>1, <2>1, <2>2, <2>3
  <2>5. SubSeq(s, a + i - 1, a + j - 1)[l] = s[a + i - 1 + l - 1]
    BY <1>3
  <2>. QED BY <2>3, <2>4, <2>5, Zenon
<1>5. SubSeq(t, i, j) = SubSeq(s, a + i - 1, a + j - 1)
  BY <1>2, <1>3, <1>4, SeqEqual
<1>. QED BY <1>5 DEF t

LEMMA MessageSizes ==
  ASSUME NEW messages \in Seq(Msg)
  PROVE  /\ Len(messages) \in Nat
         /\ \A k \in 1..Len(messages) :
              messages[k] \in Msg /\ Len(messages[k]) \in 1..MAX_PACKET_LEN
BY ConnectionAssumption

LEMMA WireTypes ==
  ASSUME NEW full, NEW at, NEW messages \in Seq(Msg), Wire(full, at, messages)
  PROVE  /\ HeaderSize \in Nat \ {0} /\ full \in Seq(Byte) /\ Len(full) \in Nat
         /\ Len(HandshakeBytes) \in Nat \ {0}
         /\ \A k \in 1..Len(messages) + 1 : at[k] \in Nat
         /\ \A k \in 1..Len(messages) : Len(messages[k]) \in Nat
<1>1. HeaderSize \in Nat \ {0} /\ HandshakeBytes \in Seq(0..Base - 1) /\ HandshakeBytes # <<>>
  BY ConnectionAssumption
<1>2. full \in Seq(Byte) /\ at \in [1..Len(messages) + 1 -> Nat]
  BY DEF Wire
<1>3. \A k \in 1..Len(messages) : Len(messages[k]) \in Nat
  <2>1. MAX_PACKET_LEN \in Nat
    BY ConnectionAssumption
  <2>. QED BY <2>1, MessageSizes
<1>4. Len(HandshakeBytes) \in Nat \ {0}
  BY <1>1, EmptySeq
<1>. QED BY <1>1, <1>2, <1>3, <1>4

LEMMA WireGrowing ==
  ASSUME NEW full, NEW at, NEW messages \in Seq(Msg), Wire(full, at, messages),
         NEW i \in 1..Len(messages) + 1, NEW j \in i..Len(messages) + 1
  PROVE  at[i] \in 1..Len(full) + 1 /\ at[i] <= at[j]
<1>. DEFINE n == Len(messages)
            S == {d \in Nat : \A k \in 1..n + 1 : k + d <= n + 1 => at[k] <= at[k + d]}
<1>1. /\ n \in Nat /\ HeaderSize \in Nat
      /\ \A k \in 1..n : Len(messages[k]) \in Nat
      /\ \A k \in 1..n + 1 : at[k] \in Nat
  BY WireTypes
<1>. HIDE DEF n
<1>2. 0 \in S
  BY <1>1
<1>3. ASSUME NEW d \in Nat, d \in S PROVE d + 1 \in S
  <2>1. ASSUME NEW k \in 1..n + 1, k + (d + 1) <= n + 1 PROVE at[k] <= at[k + (d + 1)]
    <3>1. at[k] <= at[k + d] /\ k + d \in 1..n /\ k + d \in 1..n + 1 /\ k + d + 1 = k + (d + 1)
      BY <1>1, <1>3, <2>1
    <3>2. at[k + d + 1] = at[k + d] + HeaderSize + Len(messages[k + d])
      BY <3>1, Zenon DEF Wire, n
    <3>3. at[k] \in Nat /\ at[k + d] \in Nat /\ Len(messages[k + d]) \in Nat
      BY <1>1, <3>1
    <3>4. at[k] <= at[k + d + 1]
      <4>1. PICK x \in Nat, y \in Nat, z \in Nat :
              x = at[k] /\ y = at[k + d] /\ z = Len(messages[k + d])
        BY <3>3
      <4>2. at[k + d + 1] = y + HeaderSize + z
        BY <3>2, <4>1, Zenon
      <4>3. x <= y
        BY <3>1, <4>1, Zenon
      <4>4. x <= y + HeaderSize + z
        BY <1>1, <4>3
      <4>. QED BY <4>1, <4>2, <4>4, Zenon
    <3>. QED BY <3>1, <3>4, Zenon
  <2>. QED BY <2>1
<1>4. Nat \subseteq S
  <2>. HIDE DEF S
  <2>. QED BY <1>2, <1>3, Induction
<1>5. \A k \in 1..n + 1, l \in 1..n + 1 : k <= l => at[k] <= at[l]
  <2>1. ASSUME NEW k \in 1..n + 1, NEW l \in 1..n + 1, k <= l PROVE at[k] <= at[l]
    <3>1. l - k \in Nat /\ k + (l - k) = l
      BY <1>1, <2>1
    <3>2. l - k \in S
      BY <1>4, <3>1
    <3>. QED BY <1>1, <3>1, <3>2
  <2>. QED BY <2>1
<1>6. at[1] = Len(HandshakeBytes) + 1 /\ at[n + 1] = Len(full) + 1
      /\ Len(HandshakeBytes) \in Nat /\ Len(full) \in Nat
  BY WireTypes DEF Wire, n
<1>7. 1 \in 1..n + 1 /\ n + 1 \in 1..n + 1 /\ i \in 1..n + 1 /\ j \in 1..n + 1 /\ i <= j
  BY <1>1 DEF n
<1>8. at[1] <= at[i] /\ at[i] <= at[n + 1] /\ at[i] <= at[j]
  BY <1>1, <1>5, <1>7
<1>. QED BY <1>1, <1>6, <1>7, <1>8

LEMMA PartOfPacket ==
  ASSUME NEW S, NEW s \in Seq(S), NEW a \in Nat \ {0}, NEW p \in 0..Len(s),
         NEW b \in Nat, a <= b, NEW l \in Nat \ {0}, b + l <= p + 1
  PROVE  SubSeq(SubSeq(s, a, p), b - a + 1, b - a + 1 + l - 1) = SubSeq(s, b, b + l - 1)
<1>. DEFINE i == b - a + 1
            j == i + l - 1
<1>0. p \in Nat
  OBVIOUS
<1>1. i \in Nat \ {0} /\ j \in Nat /\ j <= p - a + 1
  BY <1>0
<1>2. a + i - 1 = b /\ a + j - 1 = b + l - 1
  OBVIOUS
<1>. HIDE DEF i, j
<1>3. SubSeq(SubSeq(s, a, p), i, j) = SubSeq(s, a + i - 1, a + j - 1)
  BY <1>1, PartOfPart
<1>. QED BY <1>2, <1>3 DEF j, i

\* A header that is whole in a part of the wire that starts with a packet.
LEMMA LengthRead ==
  ASSUME NEW full, NEW at, NEW messages \in Seq(Msg), Wire(full, at, messages),
         NEW k \in 1..Len(messages), NEW i \in k..Len(messages), NEW p \in 0..Len(full),
         at[i] + HeaderSize <= p + 1
  PROVE  /\ LengthAt(SubSeq(full, at[k], p), at[i] - at[k] + 1) = Len(messages[i])
         /\ ValidLength(SubSeq(full, at[k], p), at[i] - at[k] + 1)
<1>. DEFINE h == at[i] - at[k] + 1
<1>1. at[i] \in Nat /\ at[k] \in Nat \ {0} /\ at[k] <= at[i]
  <2>1. /\ k \in 1..Len(messages) + 1 /\ i \in k..Len(messages) + 1
        /\ i \in 1..Len(messages) + 1 /\ Len(full) \in Nat
    BY MessageSizes, WireTypes
  <2>2. at[k] \in 1..Len(full) + 1 /\ at[k] <= at[i] /\ at[i] \in Nat
    BY <2>1, WireGrowing, WireTypes
  <2>. QED BY <2>1, <2>2
<1>2. HeaderSize \in Nat \ {0} /\ full \in Seq(Byte)
  BY WireTypes
<1>3. SubSeq(SubSeq(full, at[k], p), h, h + HeaderSize - 1)
        = SubSeq(full, at[i], at[i] + HeaderSize - 1)
  <2>. HIDE DEF Wire
  <2>1. /\ at[k] \in Nat \ {0} /\ at[i] \in Nat /\ at[k] <= at[i]
        /\ full \in Seq(Byte) /\ p \in 0..Len(full) /\ HeaderSize \in Nat \ {0}
        /\ at[i] + HeaderSize <= p + 1
    BY <1>1, <1>2
  <2>2. PICK a \in Nat \ {0}, b \in Nat, l \in Nat \ {0} :
          a = at[k] /\ b = at[i] /\ l = HeaderSize
    BY <2>1
  <2>3. a <= b /\ b + l <= p + 1
    BY <2>1, <2>2, Zenon
  <2>4. SubSeq(SubSeq(full, a, p), b - a + 1, b - a + 1 + l - 1) = SubSeq(full, b, b + l - 1)
    <3>. HIDE DEF h
    <3>. QED BY ONLY <2>1, <2>3, PartOfPacket
  <2>. QED BY <2>2, <2>4, Zenon
<1>. HIDE DEF h
<1>6. i \in 1..Len(messages)
  BY MessageSizes
<1>7. SubSeq(full, at[i], at[i] + HeaderSize - 1) = HeaderOf(Len(messages[i]))
  BY <1>6, Zenon DEF Wire
<1>8. SubSeq(SubSeq(full, at[k], p), h, h + HeaderSize - 1) = HeaderOf(Len(messages[i]))
  BY <1>3, <1>7
<1>9. messages[i] \in Msg /\ Len(messages[i]) \in 1..MAX_PACKET_LEN
  BY <1>6, MessageSizes
<1>10. LengthAt(SubSeq(full, at[k], p), h) = Len(messages[i])
  BY <1>8, <1>9, HeaderIs DEF LengthAt
<1>11. Len(messages[i]) \in 0..MAX_PACKET_LEN
  <2>1. MAX_PACKET_LEN \in Nat
    BY ConnectionAssumption
  <2>. QED BY <1>9, <2>1
<1>. QED BY <1>10, <1>11 DEF h, ValidLength

\* Where the packets that are whole up to byte p end.
LEMMA LastWhole ==
  ASSUME NEW full, NEW at, NEW messages \in Seq(Msg), Wire(full, at, messages),
         NEW k \in 1..Len(messages) + 1, NEW p \in 0..Len(full), at[k] <= p + 1
  PROVE  \E j \in k..Len(messages) + 1 :
           /\ at[j] <= p + 1
           /\ j <= Len(messages) => at[j] + HeaderSize + Len(messages[j]) > p + 1
<1>. DEFINE n == Len(messages)
            S == {d \in Nat : k + d <= n + 1 /\ at[k + d] <= p + 1}
            D == {n + 1 - k - d : d \in S}
<1>0. n \in Nat /\ k \in 1..n + 1
  BY MessageSizes
<1>p. p \in Nat /\ \A l \in 1..n + 1 : at[l] \in Nat
  BY WireTypes
<1>1. 0 \in S
  BY <1>0
<1>2. D \in SUBSET Nat /\ D # {}
  <2>1. \A d \in Nat : k + d <= n + 1 => n + 1 - k - d \in Nat
    BY <1>0
  <2>. QED BY <1>1, <2>1
<1>3. PICK e \in D : \A f \in D : e <= f
  <2>. HIDE DEF D
  <2>. QED BY <1>2, SmallestExists
<1>4. PICK d \in S : e = n + 1 - k - d
  OBVIOUS
<1>5. k + d \in k..n + 1 /\ at[k + d] <= p + 1
  BY <1>0
<1>6. ASSUME k + d <= n PROVE at[k + d] + HeaderSize + Len(messages[k + d]) > p + 1
  <2>1. k + d \in 1..n /\ k + (d + 1) = k + d + 1 /\ k + d + 1 \in 1..n + 1
    BY <1>0, <1>6
  <2>2. d + 1 \notin S
    <3>1. ASSUME d + 1 \in S PROVE FALSE
      <4>1. n + 1 - k - (d + 1) \in D
        BY <3>1
      <4>2. e <= n + 1 - k - (d + 1)
        BY <1>3, <4>1
      <4>. QED BY <1>0, <1>4, <4>2
    <3>. QED BY <3>1
  <2>3. ~(at[k + d + 1] <= p + 1)
    <3>1. d + 1 \in Nat /\ k + (d + 1) <= n + 1
      BY <1>0, <2>1
    <3>2. d + 1 \in S <=> at[k + (d + 1)] <= p + 1
      BY <3>1
    <3>. QED BY <2>1, <2>2, <3>2
  <2>4. at[k + d + 1] = at[k + d] + HeaderSize + Len(messages[k + d])
    BY <2>1, Zenon DEF Wire
  <2>5. at[k + d + 1] \in Nat /\ p \in Nat
    BY <2>1, WireTypes
  <2>. QED BY <2>3, <2>4, <2>5
<1>. QED BY <1>5, <1>6

\* A part of the wire from packet k on, cut from packet i on.
CutFrom(at, messages, k, i, j) ==
  [packets |-> SubSeq(messages, i, j - 1), rest |-> at[j] - at[k] + 1, throws |-> FALSE]

LEMMA CutEnds ==
  ASSUME NEW full, NEW at, NEW messages \in Seq(Msg), Wire(full, at, messages),
         NEW k \in 1..Len(messages) + 1, NEW p \in 0..Len(full),
         NEW j \in k..Len(messages) + 1, at[j] <= p + 1,
         j <= Len(messages) => at[j] + HeaderSize + Len(messages[j]) > p + 1,
         NEW cut
  PROVE  Cut(cut, SubSeq(full, at[k], p), at[j] - at[k] + 1)
           = CutFrom(at, messages, k, j, j)
<1>0. HeaderSize \in Nat \ {0} /\ full \in Seq(Byte) /\ Len(full) \in Nat /\ Len(messages) \in Nat
  BY WireTypes, MessageSizes
<1>1. p \in Nat /\ k \in Nat /\ j \in Nat /\ j \in 1..Len(messages) + 1
  BY <1>0
<1>2. at[k] \in Nat \ {0} /\ at[j] \in Nat /\ at[k] <= at[j]
  <2>1. at[k] \in 1..Len(full) + 1 /\ at[k] <= at[j] /\ at[j] \in Nat
    BY <1>1, WireGrowing, WireTypes
  <2>. QED BY <1>0, <2>1
<1>a. PICK a \in Nat \ {0}, b \in Nat : a = at[k] /\ b = at[j]
  BY <1>2
<1>b. a <= b /\ b <= p + 1
  BY <1>2, <1>a
<1>. DEFINE data == SubSeq(full, a, p)
            i == b - a + 1
<1>3. Len(data) = p - a + 1
  BY <1>0, <1>1, <1>b
<1>5. SubSeq(messages, j, j - 1) = <<>>
  BY <1>1, SubSeqEmpty
<1>. HIDE DEF data
<1>4. Len(data) - i + 1 = p + 1 - b
  BY <1>1, <1>3
<1>. HIDE DEF i
<1>e. CutFrom(at, messages, k, j, j) = [packets |-> <<>>, rest |-> i, throws |-> FALSE]
  BY <1>a, <1>5 DEF CutFrom, i
<1>6. CASE p + 1 - b < HeaderSize
  BY <1>4, <1>6, <1>e, <1>a DEF Cut, data, i
<1>7. CASE ~(p + 1 - b < HeaderSize)
  <2>1. b + HeaderSize <= p + 1
    BY <1>0, <1>1, <1>7
  <2>2. j \in k..Len(messages) /\ k \in 1..Len(messages)
    <3>1. at[Len(messages) + 1] = Len(full) + 1
      BY DEF Wire
    <3>2. j # Len(messages) + 1
      <4>1. SUFFICES ASSUME b = Len(full) + 1 PROVE FALSE
        BY <1>a, <3>1
      <4>. QED BY <1>0, <2>1, <4>1
    <3>. QED BY <1>0, <1>1, <3>2
  <2>3. LengthAt(data, i) = Len(messages[j]) /\ ValidLength(data, i)
    <3>1. at[j] + HeaderSize <= p + 1
      BY <2>1, <1>a
    <3>2. LengthAt(SubSeq(full, at[k], p), at[j] - at[k] + 1) = Len(messages[j])
          /\ ValidLength(SubSeq(full, at[k], p), at[j] - at[k] + 1)
      <4>. HIDE DEF i
      <4>. QED BY <3>1, <2>2, LengthRead
    <3>. QED BY <1>a, <3>2, Zenon DEF data, i
  <2>4. PICK l \in Nat : l = Len(messages[j])
    <3>1. j \in 1..Len(messages)
      BY <1>0, <1>1, <2>2
    <3>2. Len(messages[j]) \in Nat
      BY <3>1, WireTypes
    <3>. QED BY <3>2
  <2>6. b + HeaderSize + l > p + 1
    <3>1. j <= Len(messages)
      BY <1>0, <1>1, <2>2
    <3>. QED BY <1>a, <2>4, <3>1
  <2>5. ~Complete(data, i)
    <3>1. ~(p + 1 - b >= HeaderSize + l)
      <4>. HIDE DEF i
      <4>. QED BY <1>0, <1>1, <2>6
    <3>. QED BY <1>4, <2>3, <2>4, <3>1 DEF Complete
  <2>. QED BY <1>4, <1>7, <1>a, <1>e, <2>3, <2>5 DEF Cut, data, i
<1>. QED BY <1>6, <1>7

LEMMA CutGoesOn ==
  ASSUME NEW full, NEW at, NEW messages \in Seq(Msg), Wire(full, at, messages),
         NEW k \in 1..Len(messages) + 1, NEW p \in 0..Len(full),
         NEW j \in k..Len(messages) + 1, at[j] <= p + 1,
         NEW i \in k..j, i # j,
         NEW cut, cut[at[i + 1] - at[k] + 1] = CutFrom(at, messages, k, i + 1, j)
  PROVE  Cut(cut, SubSeq(full, at[k], p), at[i] - at[k] + 1)
           = CutFrom(at, messages, k, i, j)
<1>0. HeaderSize \in Nat \ {0} /\ full \in Seq(Byte) /\ Len(full) \in Nat /\ Len(messages) \in Nat
  BY WireTypes, MessageSizes
<1>1. /\ p \in Nat /\ k \in Nat /\ j \in Nat /\ i \in Nat
      /\ i \in 1..Len(messages) /\ i \in k..Len(messages) /\ k \in 1..Len(messages)
      /\ i + 1 \in 1..Len(messages) + 1 /\ j \in i + 1..Len(messages) + 1
      /\ i \in 1..Len(messages) + 1 /\ i \in k..Len(messages) + 1 /\ j \in 1..Len(messages) + 1
  BY <1>0
<1>2. /\ at[k] \in Nat \ {0} /\ at[i] \in Nat /\ at[k] <= at[i]
      /\ at[i + 1] \in Nat /\ at[i + 1] <= at[j] /\ at[j] \in Nat
  <2>1. at[k] \in 1..Len(full) + 1 /\ at[k] <= at[i] /\ at[i] \in Nat
    BY <1>1, WireGrowing, WireTypes
  <2>2. at[i + 1] \in Nat /\ at[i + 1] <= at[j] /\ at[j] \in Nat
    BY <1>1, WireGrowing, WireTypes
  <2>. QED BY <1>0, <2>1, <2>2
<1>3. Len(messages[i]) \in 1..MAX_PACKET_LEN /\ at[i + 1] = at[i] + HeaderSize + Len(messages[i])
  BY <1>1, MessageSizes, Zenon DEF Wire
<1>a. PICK a \in Nat \ {0}, b \in Nat, c \in Nat, l \in Nat \ {0} :
        a = at[k] /\ b = at[i] /\ c = at[i + 1] /\ l = Len(messages[i])
  <2>1. Len(messages[i]) \in Nat \ {0}
    <3>1. MAX_PACKET_LEN \in Nat
      BY ConnectionAssumption
    <3>. QED BY <1>3, <3>1
  <2>. QED BY <1>2, <2>1
<1>b. a <= b /\ c = b + HeaderSize + l /\ c <= p + 1
  <2>1. a <= b /\ c = b + HeaderSize + l
    BY <1>a, <1>2, <1>3
  <2>2. c <= at[j] /\ at[j] \in Nat
    BY <1>a, <1>2
  <2>. QED BY <1>1, <2>1, <2>2
<1>. DEFINE data == SubSeq(full, a, p)
            h == b - a + 1
<1>4. Len(data) = p - a + 1
  <2>1. a <= p + 1
    BY <1>0, <1>1, <1>b
  <2>. QED BY <1>0, <1>1, <2>1
<1>. HIDE DEF data
<1>5. Len(data) - h + 1 = p + 1 - b
  BY <1>1, <1>4
<1>. HIDE DEF h
<1>6. LengthAt(data, h) = l /\ ValidLength(data, h)
  <2>1. b + HeaderSize <= p + 1
    BY <1>0, <1>1, <1>b
  <2>2. at[i] + HeaderSize <= p + 1
    BY <2>1, <1>a
  <2>3. LengthAt(SubSeq(full, at[k], p), at[i] - at[k] + 1) = Len(messages[i])
        /\ ValidLength(SubSeq(full, at[k], p), at[i] - at[k] + 1)
    BY <1>1, <2>2, LengthRead
  <2>. QED BY <1>a, <2>3, Zenon DEF data, h
<1>7. Behind(data, h) = c - a + 1 /\ Behind(data, h) - 1 = b + HeaderSize - a + 1 + l - 1
      /\ h + HeaderSize = b + HeaderSize - a + 1
  <2>1. Behind(data, h) = h + HeaderSize + l
    BY <1>6 DEF Behind
  <2>. QED BY <1>0, <1>b, <2>1 DEF h
<1>8. SubSeq(data, h + HeaderSize, Behind(data, h) - 1) = messages[i]
  <2>1. PICK q \in Nat : q = b + HeaderSize
    BY <1>0
  <2>2. a <= q /\ q + l <= p + 1 /\ q + l - 1 = c - 1
        /\ q - a + 1 = h + HeaderSize /\ q - a + 1 + l - 1 = Behind(data, h) - 1
    BY <1>0, <1>b, <1>7, <2>1
  <2>3. SubSeq(SubSeq(full, a, p), q - a + 1, q - a + 1 + l - 1) = SubSeq(full, q, q + l - 1)
    <3>. HIDE <1>a
    <3>. QED BY <1>0, <2>2, PartOfPacket
  <2>4. SubSeq(full, at[i] + HeaderSize, at[i + 1] - 1) = messages[i]
    BY <1>1, Zenon DEF Wire
  <2>5. SubSeq(full, q, q + l - 1) = messages[i]
    BY <1>a, <2>1, <2>2, <2>4
  <2>. QED BY <2>2, <2>3, <2>5, Zenon DEF data
<1>9. Complete(data, h) /\ ~(Len(data) - h + 1 < HeaderSize)
  <2>1. p + 1 - b >= HeaderSize + l /\ ~(p + 1 - b < HeaderSize)
    BY <1>0, <1>1, <1>b
  <2>. QED BY <1>5, <1>6, <2>1 DEF Complete
<1>10. <<messages[i]>> \o SubSeq(messages, i + 1, j - 1) = SubSeq(messages, i, j - 1)
  <2>1. j - 1 \in i..Len(messages) /\ i \in 1..Len(messages)
    BY <1>0, <1>1
  <2>2. i \in Int /\ j - 1 \in Int /\ i <= j - 1 /\ 1 <= i /\ j - 1 <= Len(messages)
    BY <1>0, <2>1
  <2>. QED BY <2>1, <2>2, SubSeqRecursiveFirst
<1>11. CutFrom(at, messages, k, i, j) =
         [CutFrom(at, messages, k, i + 1, j) EXCEPT !.packets = <<messages[i]>> \o @]
  <2>1. (i + 1) - 1 = i
    BY <1>1
  <2>. DEFINE x == SubSeq(messages, i + 1, j - 1)
              y == at[j] - at[k] + 1
  <2>2. <<messages[i]>> \o x = SubSeq(messages, i, j - 1)
    BY <1>10
  <2>. HIDE DEF x, y
  <2>3. [[packets |-> x, rest |-> y, throws |-> FALSE] EXCEPT !.packets = <<messages[i]>> \o @]
          = [packets |-> <<messages[i]>> \o x, rest |-> y, throws |-> FALSE]
    <3>. DEFINE z == <<messages[i]>> \o x
                v == [packets |-> x, rest |-> y, throws |-> FALSE]
    <3>1. v \in [packets : {x}, rest : {y}, throws : BOOLEAN] /\ v.packets = x
          /\ v.rest = y /\ v.throws = FALSE
      OBVIOUS
    <3>2. [v EXCEPT !.packets = z] = [packets |-> z, rest |-> y, throws |-> FALSE]
      <4>1. [v EXCEPT !.packets = z] = [packets |-> z, rest |-> v.rest, throws |-> v.throws]
        <5>. HIDE DEF v, z
        <5>. QED BY <3>1, OtherPackets, SMTT(30)
      <4>. QED BY <3>1, <4>1, Zenon
    <3>3. [v EXCEPT !.packets = <<messages[i]>> \o @] = [v EXCEPT !.packets = z]
      BY <3>1
    <3>. QED BY <3>2, <3>3, Zenon
  <2>. QED BY <2>2, <2>3, Zenon DEF CutFrom, x, y
<1>12. cut[Behind(data, h)] = CutFrom(at, messages, k, i + 1, j)
  BY <1>7, <1>a
<1>13. Cut(cut, data, h) = [cut[Behind(data, h)] EXCEPT !.packets = <<messages[i]>> \o @]
  BY <1>6, <1>8, <1>9, Zenon DEF Cut
<1>14. Cut(cut, data, h) = CutFrom(at, messages, k, i, j)
  BY <1>11, <1>12, <1>13, Zenon
<1>. QED BY <1>14, <1>a, Zenon DEF data, h

\* From the start of a packet the whole packets are cut off, as they were sent.
LEMMA PacketsCut ==
  ASSUME NEW full, NEW at, NEW messages \in Seq(Msg), Wire(full, at, messages),
         NEW k \in 1..Len(messages) + 1, NEW p \in 0..Len(full), at[k] <= p + 1
  PROVE  \E j \in k..Len(messages) + 1 :
           /\ at[j] <= p + 1
           /\ getPacket(SubSeq(full, at[k], p)) = CutFrom(at, messages, k, k, j)
<1>. DEFINE data == SubSeq(full, at[k], p)
<1>1. PICK j \in k..Len(messages) + 1 :
        /\ at[j] <= p + 1
        /\ j <= Len(messages) => at[j] + HeaderSize + Len(messages[j]) > p + 1
  BY LastWhole
<1>0. HeaderSize \in Nat \ {0} /\ full \in Seq(Byte) /\ Len(full) \in Nat /\ Len(messages) \in Nat
  BY WireTypes, MessageSizes
<1>2. /\ HeaderSize \in Nat \ {0} /\ full \in Seq(Byte) /\ Len(full) \in Nat /\ p \in Nat
      /\ Len(messages) \in Nat /\ k \in Nat /\ j \in Nat /\ j \in 1..Len(messages) + 1
  BY <1>0
<1>3. at[k] \in Nat \ {0}
  <2>1. k \in k..Len(messages) + 1
    BY <1>2
  <2>2. at[k] \in 1..Len(full) + 1
    BY <2>1, WireGrowing
  <2>. QED BY <1>2, <2>2
<1>a. PICK a \in Nat \ {0} : a = at[k] /\ a <= p + 1
  BY <1>3
<1>4. data \in Seq(Byte) /\ Len(data) = p - a + 1
  BY <1>2, <1>a
<1>. HIDE DEF data
<1>5. PICK cut : /\ getPacket(data) = cut[1]
                 /\ \A i \in 1..Len(data) + 1 : cut[i] = Cut(cut, data, i)
  BY <1>4, GetPacketCuts
<1>6. ASSUME NEW i \in k..j PROVE at[i] - at[k] + 1 \in 1..Len(data) + 1
  <2>1. i \in k..Len(messages) + 1 /\ i \in 1..Len(messages) + 1 /\ j \in i..Len(messages) + 1
    BY <1>2
  <2>2. at[k] <= at[i] /\ at[i] <= at[j] /\ at[i] \in Nat /\ at[j] \in Nat
    BY <1>2, <2>1, WireGrowing, WireTypes
  <2>3. PICK b \in Nat : b = at[i]
    BY <2>2
  <2>4. a <= b /\ b <= p + 1
    BY <1>1, <1>2, <1>a, <2>2, <2>3
  <2>5. b - a + 1 \in 1..Len(data) + 1
    <3>1. PICK d \in Nat : d = Len(data) /\ d = p - a + 1
      BY <1>2, <1>4, <1>a
    <3>2. b - a + 1 \in 1..d + 1
      BY <1>2, <2>4, <3>1
    <3>. QED BY <3>1, <3>2
  <2>. QED BY <1>a, <2>3, <2>5
<1>. DEFINE S == {d \in Nat : k + d <= j => cut[at[j - d] - at[k] + 1]
                                              = CutFrom(at, messages, k, j - d, j)}
<1>7. 0 \in S
  <2>1. j \in k..j /\ j - 0 = j
    BY <1>2
  <2>2. cut[at[j] - at[k] + 1] = Cut(cut, data, at[j] - at[k] + 1)
    BY <1>5, <1>6, <2>1
  <2>3. Cut(cut, data, at[j] - at[k] + 1) = CutFrom(at, messages, k, j, j)
    <3>1. Cut(cut, SubSeq(full, at[k], p), at[j] - at[k] + 1) = CutFrom(at, messages, k, j, j)
      <4>. HIDE DEF S
      <4>. QED BY <1>1, CutEnds
    <3>. QED BY <3>1, Zenon DEF data
  <2>. QED BY <2>1, <2>2, <2>3
<1>8. ASSUME NEW d \in Nat, d \in S PROVE d + 1 \in S
  <2>. SUFFICES ASSUME k + (d + 1) <= j
                PROVE  cut[at[j - (d + 1)] - at[k] + 1]
                         = CutFrom(at, messages, k, j - (d + 1), j)
    OBVIOUS
  <2>. DEFINE i == j - (d + 1)
  <2>1. i \in k..j /\ i # j /\ i + 1 = j - d /\ k + d <= j
    BY <1>2
  <2>2. cut[at[i + 1] - at[k] + 1] = CutFrom(at, messages, k, i + 1, j)
    BY <1>8, <2>1
  <2>. HIDE DEF i
  <2>3. cut[at[i] - at[k] + 1] = Cut(cut, data, at[i] - at[k] + 1)
    BY <1>5, <1>6, <2>1
  <2>4. Cut(cut, data, at[i] - at[k] + 1) = CutFrom(at, messages, k, i, j)
    <3>1. Cut(cut, SubSeq(full, at[k], p), at[i] - at[k] + 1) = CutFrom(at, messages, k, i, j)
      <4>. HIDE DEF S
      <4>1. /\ messages \in Seq(Msg) /\ Wire(full, at, messages)
            /\ at[j] <= p + 1 /\ p \in 0..Len(full) /\ k \in 1..Len(messages) + 1
            /\ j \in k..Len(messages) + 1 /\ i \in k..j /\ i # j
        BY <1>1, <2>1
      <4>. QED BY ONLY <2>2, <4>1, CutGoesOn
    <3>. QED BY <3>1, Zenon DEF data
  <2>. QED BY <2>3, <2>4 DEF i
<1>9. j - k \in S
  <2>. HIDE DEF S
  <2>. QED BY <1>2, <1>7, <1>8, Induction
<1>10. j - (j - k) = k /\ k + (j - k) <= j /\ at[k] - at[k] + 1 = 1
  BY <1>2, <1>3
<1>11. cut[1] = CutFrom(at, messages, k, k, j)
  BY <1>9, <1>10
<1>. QED BY <1>1, <1>5, <1>11 DEF data

-----------------------------------------------------------------------------
(* What is delivered *)

\* The packets that parse are the first ones of those cut off.
LEMMA FirstPackets ==
  ASSUME NEW packets \in Seq(Msg)
  PROVE  \E n \in 0..Len(packets) : ParsedOf(packets) = SubSeq(packets, 1, n)
<1>. DEFINE more == Append(packets, <<>>)
            I == {i \in 1..Len(more) : ~Parses(more[i])}
<1>1. <<>> \notin Msg
  <2>1. Len(<<>>) = 0 /\ \A m \in Msg : Len(m) \in 1..MAX_PACKET_LEN
    BY ConnectionAssumption
  <2>2. 0 \notin 1..MAX_PACKET_LEN
    BY ConnectionAssumption
  <2>. QED BY <2>1, <2>2, Zenon
<1>2. Len(more) = Len(packets) + 1 /\ more[Len(packets) + 1] = <<>> /\ Len(packets) \in Nat
  OBVIOUS
<1>. HIDE DEF more
<1>3. Len(packets) + 1 \in I
  BY <1>1, <1>2 DEF Parses
<1>4. I \in SUBSET Nat /\ I # {}
  BY <1>2, <1>3
<1>5. PICK m \in I : \A x \in I : m <= x
  <2>. HIDE DEF I
  <2>. QED BY <1>4, SmallestExists
<1>6. Min(I) \in I
  <2>. HIDE DEF I
  <2>. QED BY <1>5, Zenon DEF Min
<1>7. Min(I) \in 1..Len(packets) + 1
  BY <1>2, <1>6
<1>8. Min(I) - 1 \in 0..Len(packets)
  <2>. HIDE DEF I
  <2>. QED BY <1>2, <1>7
<1>9. ParsedOf(packets) = SubSeq(packets, 1, Min(I) - 1)
  <2>1. ParsedOf(packets) = SubSeq(packets, 1, (IF I # {} THEN Min(I) ELSE 0) - 1)
    BY Zenon DEF ParsedOf, SelectInSeq, more
  <2>. HIDE DEF I
  <2>. QED BY <1>4, <2>1, Zenon
<1>. HIDE DEF I
<1>. QED BY <1>8, <1>9

\* d are some of the first n of s, in their order and none twice.
Embeds(d, s, n) ==
  /\ d \in Seq(Msg)
  /\ \E e \in [1..Len(d) -> 1..n] :
       /\ \A i \in 1..Len(d), j \in 1..Len(d) : i < j => e[i] < e[j]
       /\ \A i \in 1..Len(d) : d[i] = s[e[i]]

LEMMA EmbedsNothing ==
  ASSUME NEW s, NEW n \in Nat
  PROVE  Embeds(<<>>, s, n)
<1>1. <<>> \in Seq(Msg) /\ Len(<<>>) = 0
  OBVIOUS
<1>2. PICK e \in [1..Len(<<>>) -> 1..n] : TRUE
  <2>1. [i \in 1..0 |-> 1] \in [1..0 -> 1..n]
    OBVIOUS
  <2>. QED BY <1>1, <2>1
<1>3. \A i \in 1..Len(<<>>) : FALSE
  BY <1>1
<1>. QED BY <1>1, <1>2, <1>3, Zenon DEF Embeds

LEMMA EmbedsGrown ==
  ASSUME NEW d, NEW s, NEW t, NEW n \in Nat, NEW l \in Nat, n <= l,
         \A i \in 1..n : t[i] = s[i], Embeds(d, s, n)
  PROVE  Embeds(d, t, l)
<1>1. PICK e \in [1..Len(d) -> 1..n] :
        /\ \A i \in 1..Len(d), j \in 1..Len(d) : i < j => e[i] < e[j]
        /\ \A i \in 1..Len(d) : d[i] = s[e[i]]
  BY DEF Embeds
<1>2. e \in [1..Len(d) -> 1..l]
  OBVIOUS
<1>3. \A i \in 1..Len(d) : d[i] = t[e[i]]
  BY <1>1
<1>. QED BY <1>1, <1>2, <1>3, Zenon DEF Embeds

LEMMA EmbedsMore ==
  ASSUME NEW s \in Seq(Msg), NEW k \in 1..Len(s) + 1, NEW j \in k..Len(s) + 1,
         NEW n \in 0..j - k, NEW d, Embeds(d, s, k - 1)
  PROVE  Embeds(d \o SubSeq(s, k, k + n - 1), s, j - 1)
<1>. DEFINE x == SubSeq(s, k, k + n - 1)
            c == Len(d)
<1>1. /\ d \in Seq(Msg) /\ c \in Nat /\ Len(s) \in Nat /\ k \in Nat \ {0} /\ j \in Nat
      /\ n \in Nat /\ k + n - 1 <= j - 1 /\ j - 1 <= Len(s) /\ k - 1 \in Nat
  <2>1. Len(s) \in Nat /\ d \in Seq(Msg)
    BY DEF Embeds
  <2>. QED BY <2>1
<1>2. x \in Seq(Msg) /\ Len(x) = n /\ \A i \in 1..n : x[i] = s[k + i - 1]
  <2>1. \A i \in k..k + n - 1 : s[i] \in Msg
    BY <1>1
  <2>. QED BY <1>1, <2>1, SubSeqProperties
<1>. HIDE DEF x
<1>3. /\ d \o x \in Seq(Msg) /\ Len(d \o x) = c + n
      /\ \A i \in 1..c + n : (d \o x)[i] = IF i <= c THEN d[i] ELSE x[i - c]
  BY <1>1, <1>2
<1>4. PICK e \in [1..c -> 1..k - 1] :
        /\ \A i \in 1..c, l \in 1..c : i < l => e[i] < e[l]
        /\ \A i \in 1..c : d[i] = s[e[i]]
  BY DEF Embeds
<1>. HIDE DEF c
<1>. DEFINE f == [i \in 1..c + n |-> IF i <= c THEN e[i] ELSE k + (i - c) - 1]
<1>5. \A i \in 1..c : e[i] \in 1..k - 1
  BY <1>4
<1>6. \A i \in 1..c + n : IF i <= c THEN i \in 1..c /\ f[i] = e[i]
                          ELSE i - c \in 1..n /\ f[i] = k + (i - c) - 1
  BY <1>1
<1>. HIDE DEF f
<1>7. ASSUME NEW i \in 1..c + n PROVE f[i] \in 1..j - 1
  <2>1. CASE i <= c
    BY <1>1, <1>5, <1>6, <2>1
  <2>2. CASE ~(i <= c)
    BY <1>1, <1>6, <2>2
  <2>. QED BY <2>1, <2>2
<1>8. f \in [1..c + n -> 1..j - 1]
  BY <1>7 DEF f
<1>9. ASSUME NEW i \in 1..c + n, NEW l \in 1..c + n, i < l PROVE f[i] < f[l]
  <2>1. CASE l <= c
    <3>1. i \in 1..c /\ l \in 1..c /\ i <= c
      BY <1>1, <1>9, <2>1
    <3>. QED BY <1>4, <1>6, <1>9, <2>1, <3>1
  <2>2. CASE i <= c /\ ~(l <= c)
    <3>1. f[i] \in 1..k - 1 /\ f[l] = k + (l - c) - 1 /\ l - c \in 1..n
      BY <1>5, <1>6, <2>2
    <3>. QED BY <1>1, <3>1
  <2>3. CASE ~(i <= c) /\ ~(l <= c)
    <3>1. f[i] = k + (i - c) - 1 /\ f[l] = k + (l - c) - 1
      BY <1>6, <2>3
    <3>. QED BY <1>1, <1>9, <3>1
  <2>. QED BY <1>1, <1>9, <2>1, <2>2, <2>3
<1>10. ASSUME NEW i \in 1..c + n PROVE (d \o x)[i] = s[f[i]]
  <2>1. CASE i <= c
    BY <1>3, <1>4, <1>6, <2>1
  <2>2. CASE ~(i <= c)
    <3>1. i - c \in 1..n /\ f[i] = k + (i - c) - 1
      BY <1>6, <2>2
    <3>. QED BY <1>2, <1>3, <2>2, <3>1
  <2>. QED BY <2>1, <2>2
<1>11. Embeds(d \o x, s, j - 1)
  BY <1>3, <1>8, <1>9, <1>10 DEF Embeds
<1>. QED BY <1>11 DEF x

Keeps(d, s, n) ==
  \E kept \in SUBSET (1..n) :
    d = [i \in 1..Cardinality(kept) |->
           s[CHOOSE k \in kept : Cardinality({j \in kept : j <= k}) = i]]

\* Such messages are those of a set of places in s, in the order of the places.
LEMMA KeptFrom ==
  ASSUME NEW d, NEW s, NEW n \in Nat, Embeds(d, s, n)
  PROVE  Keeps(d, s, n)
<1>. DEFINE c == Len(d)
<1>1. c \in Nat /\ d \in Seq(Msg)
  BY DEF Embeds
<1>2. PICK e \in [1..c -> 1..n] :
        /\ \A i \in 1..c, j \in 1..c : i < j => e[i] < e[j]
        /\ \A i \in 1..c : d[i] = s[e[i]]
  BY DEF Embeds
<1>3. d = [i \in 1..c |-> d[i]]
  BY <1>1
<1>. HIDE DEF c
<1>. DEFINE kept == {e[i] : i \in 1..c}
<1>4. kept \in SUBSET (1..n) /\ \A i \in 1..c : e[i] \in Nat
  OBVIOUS
<1>5. ASSUME NEW i \in 1..c PROVE Cardinality({j \in kept : j <= e[i]}) = i
  <2>. DEFINE S == {j \in kept : j <= e[i]}
              f == [l \in 1..i |-> e[l]]
  <2>0. i \in Nat /\ \A l \in 1..i : l \in 1..c
    BY <1>1
  <2>1. ASSUME NEW l \in 1..c PROVE e[l] <= e[i] <=> l <= i
    <3>1. e[l] \in Nat /\ e[i] \in Nat /\ l \in Int /\ i \in Int
      BY <1>4
    <3>2. (l < i => e[l] < e[i]) /\ (i < l => e[i] < e[l])
      BY <1>2
    <3>3. l = i => e[l] = e[i]
      OBVIOUS
    <3>. QED BY <3>1, <3>2, <3>3
  <2>2. S = {e[l] : l \in 1..i}
    <3>1. ASSUME NEW j \in S PROVE j \in {e[l] : l \in 1..i}
      <4>1. PICK l \in 1..c : j = e[l] /\ e[l] <= e[i]
        OBVIOUS
      <4>2. l \in 1..i
        BY <1>1, <2>0, <2>1, <4>1
      <4>. QED BY <4>1, <4>2
    <3>2. ASSUME NEW l \in 1..i PROVE e[l] \in S
      <4>1. l \in 1..c /\ l <= i
        BY <2>0
      <4>. QED BY <2>1, <4>1
    <3>. QED BY <3>1, <3>2
  <2>3. f \in [1..i -> S] /\ \A l \in 1..i : f[l] = e[l]
    BY <2>2
  <2>4. \A l \in 1..i, m \in 1..i : e[l] = e[m] => l = m
    <3>1. ASSUME NEW l \in 1..i, NEW m \in 1..i, e[l] = e[m] PROVE l = m
      <4>1. l \in 1..c /\ m \in 1..c /\ l \in Int /\ m \in Int
        BY <2>0
      <4>2. (l < m => e[l] < e[m]) /\ (m < l => e[m] < e[l]) /\ e[l] \in Nat
        BY <1>2, <1>4, <4>1
      <4>. QED BY <3>1, <4>1, <4>2
    <3>. QED BY <3>1
  <2>. HIDE DEF S, f
  <2>5. f \in Injection(1..i, S)
    BY <2>3, <2>4 DEF Injection, IsInjective
  <2>6. \A j \in S : \E l \in 1..i : f[l] = j
    BY <2>2, <2>3
  <2>7. f \in Surjection(1..i, S)
    BY <2>3, <2>6 DEF Surjection
  <2>8. ExistsBijection(1..i, S)
    BY <2>5, <2>7 DEF ExistsBijection, Bijection
  <2>9. Cardinality(S) = i
    BY <2>0, <2>8, FS_CountingElements
  <2>. QED BY <2>9 DEF S
<1>6. Cardinality(kept) = c
  <2>1. CASE c = 0
    <3>1. kept = {}
      BY <2>1
    <3>. HIDE DEF kept
    <3>. QED BY <2>1, <3>1, FS_EmptySet
  <2>2. CASE c # 0
    <3>1. c \in 1..c
      BY <1>1, <2>2
    <3>2. \A i \in 1..c : e[i] <= e[c]
      <4>1. ASSUME NEW i \in 1..c PROVE e[i] <= e[c]
        <5>1. e[i] \in Nat /\ e[c] \in Nat /\ i \in Int /\ i <= c
          BY <1>1, <1>4, <3>1
        <5>2. i < c => e[i] < e[c]
          BY <1>2, <3>1
        <5>3. i = c => e[i] = e[c]
          OBVIOUS
        <5>. QED BY <1>1, <5>1, <5>2, <5>3
      <4>. QED BY <4>1
    <3>3. {j \in kept : j <= e[c]} = kept
      BY <3>2
    <3>. QED BY <1>5, <3>1, <3>3
  <2>. QED BY <2>1, <2>2
<1>7. ASSUME NEW i \in 1..c
      PROVE  (CHOOSE k \in kept : Cardinality({j \in kept : j <= k}) = i) = e[i]
  <2>1. e[i] \in kept
    OBVIOUS
  <2>2. \A k \in kept : Cardinality({j \in kept : j <= k}) = i => k = e[i]
    BY <1>5
  <2>3. Cardinality({j \in kept : j <= e[i]}) = i
    BY <1>5
  <2>. HIDE DEF kept
  <2>. QED BY <2>1, <2>2, <2>3
<1>8. ASSUME NEW i \in 1..c
      PROVE  d[i] = s[CHOOSE k \in kept : Cardinality({j \in kept : j <= k}) = i]
  BY <1>2, <1>7
<1>. HIDE DEF kept
<1>9. d = [i \in 1..c |-> s[CHOOSE k \in kept : Cardinality({j \in kept : j <= k}) = i]]
  BY <1>3, <1>8
<1>10. d = [i \in 1..Cardinality(kept) |->
              s[CHOOSE k \in kept : Cardinality({j \in kept : j <= k}) = i]]
  BY <1>6, <1>9, Zenon
<1>. QED BY <1>4, <1>10, Zenon DEF Keeps

-----------------------------------------------------------------------------
(* The wire grows *)

LEMMA FrontOfConcat ==
  ASSUME NEW S, NEW s \in Seq(S), NEW x \in Seq(S), NEW i \in Nat \ {0}, NEW j \in 0..Len(s)
  PROVE  SubSeq(s \o x, i, j) = SubSeq(s, i, j)
<1>1. s \o x \in Seq(S) /\ j \in Nat /\ \A l \in 1..Len(s) : (s \o x)[l] = s[l]
  OBVIOUS
<1>2. \A l \in i..j : s[l] \in S /\ (s \o x)[l] \in S
  BY <1>1
<1>3. /\ SubSeq(s, i, j) \in Seq(S) /\ SubSeq(s \o x, i, j) \in Seq(S)
      /\ Len(SubSeq(s, i, j)) = Len(SubSeq(s \o x, i, j))
      /\ \A l \in 1..j - i + 1 : SubSeq(s, i, j)[l] = s[i + l - 1]
      /\ \A l \in 1..j - i + 1 : SubSeq(s \o x, i, j)[l] = (s \o x)[i + l - 1]
      /\ Len(SubSeq(s, i, j)) = IF i <= j THEN j - i + 1 ELSE 0
  BY <1>1, <1>2, SubSeqProperties
<1>4. ASSUME NEW l \in 1..Len(SubSeq(s, i, j)) PROVE SubSeq(s, i, j)[l] = SubSeq(s \o x, i, j)[l]
  <2>1. l \in 1..j - i + 1 /\ i + l - 1 \in 1..Len(s)
    BY <1>1, <1>3
  <2>. QED BY <1>1, <1>3, <2>1
<1>. QED BY <1>3, <1>4, SeqEqual

LEMMA RestOfConcat ==
  ASSUME NEW S, NEW s \in Seq(S), NEW x \in Seq(S), NEW t \in 0..Len(s)
  PROVE  SubSeq(s \o x, t + 1, Len(s \o x)) = SubSeq(s, t + 1, Len(s)) \o x
<1>. DEFINE y == s \o x
            u == SubSeq(s, t + 1, Len(s))
<1>1. /\ y \in Seq(S) /\ Len(y) = Len(s) + Len(x) /\ Len(s) \in Nat /\ Len(x) \in Nat /\ t \in Nat
      /\ \A l \in 1..Len(s) + Len(x) : y[l] = IF l <= Len(s) THEN s[l] ELSE x[l - Len(s)]
  OBVIOUS
<1>2. u \in Seq(S) /\ Len(u) = Len(s) - t /\ \A l \in 1..Len(s) - t : u[l] = s[t + l]
  OBVIOUS
<1>. HIDE DEF y, u
<1>3. /\ u \o x \in Seq(S) /\ Len(u \o x) = Len(s) - t + Len(x)
      /\ \A l \in 1..Len(u \o x) : (u \o x)[l] = IF l <= Len(s) - t THEN u[l] ELSE x[l - (Len(s) - t)]
  BY <1>1, <1>2
<1>4. \A l \in t + 1..Len(y) : y[l] \in S
  BY <1>1
<1>5. /\ SubSeq(y, t + 1, Len(y)) \in Seq(S)
      /\ Len(SubSeq(y, t + 1, Len(y))) = Len(s) - t + Len(x)
      /\ \A l \in 1..Len(s) - t + Len(x) : SubSeq(y, t + 1, Len(y))[l] = y[t + l]
  BY <1>1, <1>4, SubSeqProperties, SMTT(30)
<1>6. ASSUME NEW l \in 1..Len(s) - t + Len(x) PROVE SubSeq(y, t + 1, Len(y))[l] = (u \o x)[l]
  <2>1. CASE l <= Len(s) - t
    BY <1>1, <1>2, <1>3, <1>5, <2>1
  <2>2. CASE ~(l <= Len(s) - t)
    <3>1. y[t + l] = x[t + l - Len(s)] /\ t + l - Len(s) = l - (Len(s) - t)
      BY <1>1, <2>2
    <3>. QED BY <1>3, <1>5, <2>2, <3>1
  <2>. QED BY <2>1, <2>2
<1>7. SubSeq(y, t + 1, Len(y)) = u \o x
  BY <1>3, <1>5, <1>6, SeqEqual
<1>. QED BY <1>7 DEF y, u

\* The peer writes one more message.
LEMMA WireGrows ==
  ASSUME NEW full, NEW at, NEW messages \in Seq(Msg), Wire(full, at, messages), NEW m \in Msg
  PROVE  /\ HeaderOf(Len(m)) \o m \in Seq(Byte)
         /\ \E at2 : /\ Wire(full \o (HeaderOf(Len(m)) \o m), at2, Append(messages, m))
                     /\ \A k \in 1..Len(messages) + 1 : at2[k] = at[k]
<1>. DEFINE H == HeaderOf(Len(m))
            x == H \o m
            full2 == full \o x
            n == Len(messages)
            more == Append(messages, m)
            at2 == [k \in 1..n + 2 |-> IF k <= n + 1 THEN at[k] ELSE at[n + 1] + HeaderSize + Len(m)]
<1>1. m \in Seq(Byte) /\ Len(m) \in Nat /\ H \in Seq(Byte) /\ Len(H) = HeaderSize
      /\ HeaderSize \in Nat
  <2>1. Msg \subseteq Seq(Byte) /\ HeaderSize \in Nat
    BY ConnectionAssumption DEF Byte
  <2>2. m \in Seq(Byte)
    BY <2>1
  <2>. QED BY <2>1, <2>2, HeaderIs
<1>2. full \in Seq(Byte) /\ Len(full) \in Nat /\ n \in Nat /\ Len(HandshakeBytes) \in Nat \ {0}
  BY WireTypes, MessageSizes
<1>3. /\ more \in Seq(Msg) /\ Len(more) = n + 1 /\ more[n + 1] = m
      /\ \A k \in 1..n : more[k] = messages[k]
  OBVIOUS
<1>. HIDE DEF H, more, at2
<1>4. x \in Seq(Byte) /\ Len(x) = HeaderSize + Len(m)
  BY <1>1
<1>5. SubSeq(x, 1, HeaderSize) = H /\ SubSeq(x, HeaderSize + 1, HeaderSize + Len(m)) = m
  <2>1. SubSeq(H \o m, 1, Len(H)) = SubSeq(H, 1, Len(H))
    <3>1. Len(H) \in 0..Len(H)
      BY <1>1
    <3>. QED BY <1>1, <3>1, FrontOfConcat
  <2>2. SubSeq(H \o m, Len(H) + 1, Len(H \o m)) = SubSeq(H, Len(H) + 1, Len(H)) \o m
    <3>1. Len(H) \in 0..Len(H)
      BY <1>1
    <3>. QED BY <1>1, <3>1, RestOfConcat
  <2>3. SubSeq(H, 1, Len(H)) = H
    BY <1>1, SubSeqFull
  <2>4. SubSeq(H, Len(H) + 1, Len(H)) = <<>> /\ <<>> \o m = m
    BY <1>1
  <2>. QED BY <1>1, <1>4, <2>1, <2>2, <2>3, <2>4
<1>. HIDE DEF x
<1>6. full2 \in Seq(Byte) /\ Len(full2) = Len(full) + HeaderSize + Len(m)
  <2>1. full \o x \in Seq(Byte) /\ Len(full \o x) = Len(full) + Len(x)
    BY <1>2, <1>4
  <2>. HIDE DEF full2
  <2>2. Len(full) + Len(x) = Len(full) + HeaderSize + Len(m)
    BY <1>1, <1>2, <1>4
  <2>. QED BY <2>1, <2>2, Zenon DEF full2
<1>7. SubSeq(full2, Len(full) + 1, Len(full) + HeaderSize) = H
      /\ SubSeq(full2, Len(full) + 1 + HeaderSize, Len(full) + HeaderSize + Len(m)) = m
  <2>1. SubSeq(full2, Len(full) + 1, Len(full2)) = SubSeq(full, Len(full) + 1, Len(full)) \o x
    <3>1. Len(full) \in 0..Len(full)
      BY <1>2
    <3>. QED BY <1>2, <1>4, <3>1, RestOfConcat
  <2>2. SubSeq(full, Len(full) + 1, Len(full)) = <<>> /\ <<>> \o x = x
    BY <1>2, <1>4
  <2>. HIDE DEF full2
  <2>3. SubSeq(full2, Len(full) + 1, Len(full2)) = x
    BY <2>1, <2>2, Zenon
  <2>4. Len(full) + 1 \in Nat \ {0} /\ Len(full2) \in 0..Len(full2)
    BY <1>1, <1>2, <1>6
  <2>5. SubSeq(x, 1, HeaderSize) = SubSeq(full2, Len(full) + 1, Len(full) + HeaderSize)
    <3>1. HeaderSize <= Len(full2) - (Len(full) + 1) + 1
      BY <1>1, <1>2, <1>6
    <3>2. SubSeq(SubSeq(full2, Len(full) + 1, Len(full2)), 1, HeaderSize)
            = SubSeq(full2, Len(full) + 1 + 1 - 1, Len(full) + 1 + HeaderSize - 1)
      BY <1>1, <1>6, <2>4, <3>1, PartOfPart
    <3>3. Len(full) + 1 + 1 - 1 = Len(full) + 1 /\ Len(full) + 1 + HeaderSize - 1 = Len(full) + HeaderSize
      BY <1>1, <1>2
    <3>. QED BY <2>3, <3>2, <3>3, Zenon
  <2>6. SubSeq(x, HeaderSize + 1, HeaderSize + Len(m))
          = SubSeq(full2, Len(full) + 1 + HeaderSize, Len(full) + HeaderSize + Len(m))
    <3>1. HeaderSize + Len(m) <= Len(full2) - (Len(full) + 1) + 1
          /\ HeaderSize + 1 \in Nat \ {0} /\ HeaderSize + Len(m) \in Nat
      BY <1>1, <1>2, <1>6
    <3>2. SubSeq(SubSeq(full2, Len(full) + 1, Len(full2)), HeaderSize + 1, HeaderSize + Len(m))
            = SubSeq(full2, Len(full) + 1 + (HeaderSize + 1) - 1, Len(full) + 1 + (HeaderSize + Len(m)) - 1)
      <4>. DEFINE i == HeaderSize + 1
                  j == HeaderSize + Len(m)
      <4>. HIDE DEF i, j
      <4>1. i \in Nat \ {0} /\ j \in Nat /\ j <= Len(full2) - (Len(full) + 1) + 1
        BY <3>1 DEF i, j
      <4>2. SubSeq(SubSeq(full2, Len(full) + 1, Len(full2)), i, j)
              = SubSeq(full2, Len(full) + 1 + i - 1, Len(full) + 1 + j - 1)
        <5>1. PICK a \in Nat \ {0} : a = Len(full) + 1
          BY <2>4
        <5>2. full2 \in Seq(Byte) /\ Len(full2) \in 0..Len(full2) /\ j <= Len(full2) - a + 1
          BY <1>6, <2>4, <4>1, <5>1, Zenon
        <5>3. SubSeq(SubSeq(full2, a, Len(full2)), i, j) = SubSeq(full2, a + i - 1, a + j - 1)
          BY ONLY <4>1, <5>2, PartOfPart
        <5>. QED BY <5>1, <5>3, Zenon
      <4>. QED BY <4>2, Zenon DEF i, j
    <3>3. Len(full) + 1 + (HeaderSize + 1) - 1 = Len(full) + 1 + HeaderSize
          /\ Len(full) + 1 + (HeaderSize + Len(m)) - 1 = Len(full) + HeaderSize + Len(m)
      BY <1>1, <1>2
    <3>. QED BY <2>3, <3>2, <3>3, Zenon
  <2>. QED BY <1>5, <2>5, <2>6
<1>8. \A i \in Nat \ {0} : \A j \in 0..Len(full) : SubSeq(full2, i, j) = SubSeq(full, i, j)
  BY <1>2, <1>4, FrontOfConcat
<1>. HIDE DEF full2
<1>9. /\ at \in [1..n + 1 -> Nat] /\ at[n + 1] = Len(full) + 1
      /\ at[1] = Len(HandshakeBytes) + 1
      /\ SubSeq(full, 1, Len(HandshakeBytes)) = HandshakeBytes
  BY DEF Wire
<1>10. /\ at2 \in [1..n + 2 -> Nat] /\ \A k \in 1..n + 1 : at2[k] = at[k]
       /\ at2[n + 2] = Len(full) + 1 + HeaderSize + Len(m)
  <2>. HIDE DEF n
  <2>. QED BY <1>1, <1>2, <1>9 DEF at2
<1>. HIDE DEF n
<1>11. ASSUME NEW k \in 1..n + 1
       PROVE  /\ at2[k + 1] = at2[k] + HeaderSize + Len(more[k])
              /\ SubSeq(full2, at2[k], at2[k] + HeaderSize - 1) = HeaderOf(Len(more[k]))
              /\ SubSeq(full2, at2[k] + HeaderSize, at2[k + 1] - 1) = more[k]
  <2>1. CASE k = n + 1
    <3>1. at2[k] = Len(full) + 1 /\ at2[k + 1] = Len(full) + 1 + HeaderSize + Len(m) /\ more[k] = m
      <4>1. k + 1 = n + 2
        BY <1>2, <2>1
      <4>. QED BY <1>3, <1>9, <1>10, <2>1, <4>1
    <3>2. /\ Len(full) + 1 + HeaderSize - 1 = Len(full) + HeaderSize
          /\ (Len(full) + 1 + HeaderSize + Len(m)) - 1 = Len(full) + HeaderSize + Len(m)
      BY <1>1, <1>2
    <3>3. SubSeq(full2, at2[k], at2[k] + HeaderSize - 1) = H
      BY <1>7, <3>1, <3>2, Zenon
    <3>4. SubSeq(full2, at2[k] + HeaderSize, at2[k + 1] - 1) = m
      BY <1>7, <3>1, <3>2, Zenon
    <3>5. at2[k + 1] = at2[k] + HeaderSize + Len(m)
      BY <3>1
    <3>. QED BY <3>1, <3>3, <3>4, <3>5 DEF H
  <2>2. CASE k # n + 1
    <3>1. k \in 1..n /\ k \in 1..n + 1 /\ k + 1 \in 1..n + 1 /\ n + 1 \in k..n + 1
          /\ n + 1 \in k + 1..n + 1
      BY <1>2, <2>2
    <3>2. /\ at[k + 1] = at[k] + HeaderSize + Len(messages[k])
          /\ SubSeq(full, at[k], at[k] + HeaderSize - 1) = HeaderOf(Len(messages[k]))
          /\ SubSeq(full, at[k] + HeaderSize, at[k + 1] - 1) = messages[k]
      BY <3>1, Zenon DEF Wire, n
    <3>3. at[k] \in 1..Len(full) + 1 /\ at[k + 1] \in 1..Len(full) + 1
      BY <3>1, WireGrowing DEF n
    <3>4. at2[k] = at[k] /\ at2[k + 1] = at[k + 1] /\ more[k] = messages[k]
      BY <1>3, <1>10, <3>1
    <3>5. PICK a \in Nat \ {0}, b \in Nat, l \in Nat : a = at[k] /\ b = at[k + 1] /\ l = Len(messages[k])
      <4>1. Len(messages[k]) \in Nat
        BY <3>1, WireTypes DEF n
      <4>. QED BY <1>2, <3>3, <4>1
    <3>6. b = a + HeaderSize + l /\ b <= Len(full) + 1
      BY <1>2, <3>2, <3>3, <3>5
    <3>7. a + HeaderSize - 1 \in 0..Len(full) /\ a + HeaderSize \in Nat \ {0} /\ b - 1 \in 0..Len(full)
      BY <1>1, <1>2, <3>6
    <3>8. SubSeq(full2, a, a + HeaderSize - 1) = SubSeq(full, a, a + HeaderSize - 1)
          /\ SubSeq(full2, a + HeaderSize, b - 1) = SubSeq(full, a + HeaderSize, b - 1)
      BY <1>8, <3>7
    <3>. QED BY <3>2, <3>4, <3>5, <3>8
  <2>. QED BY <2>1, <2>2
<1>12. SubSeq(full2, 1, Len(HandshakeBytes)) = HandshakeBytes
  <2>1. Len(HandshakeBytes) <= Len(full)
    <3>1. 1 \in 1..n + 1 /\ n + 1 \in 1..n + 1
      BY <1>2
    <3>2. at[1] \in 1..Len(full) + 1
      BY <3>1, WireGrowing DEF n
    <3>. QED BY <1>2, <1>9, <3>2
  <2>2. Len(HandshakeBytes) \in 0..Len(full) /\ 1 \in Nat \ {0}
    BY <1>2, <2>1
  <2>. QED BY <1>8, <1>9, <2>2
<1>13. Wire(full2, at2, more)
  <2>1. at2 \in [1..Len(more) + 1 -> Nat] /\ at2[Len(more) + 1] = Len(full2) + 1
    <3>1. Len(more) + 1 = n + 2 /\ Len(full2) + 1 = Len(full) + 1 + HeaderSize + Len(m)
      BY <1>1, <1>2, <1>3, <1>6
    <3>. QED BY <1>10, <3>1
  <2>2. at2[1] = Len(HandshakeBytes) + 1
    BY <1>2, <1>9, <1>10
  <2>. QED BY <1>3, <1>6, <1>11, <1>12, <2>1, <2>2, Zenon DEF Wire
<1>14. \E z : Wire(full2, z, more) /\ \A k \in 1..n + 1 : z[k] = at[k]
  BY <1>10, <1>13, Zenon
<1>. QED BY <1>4, <1>14, Zenon DEF full2, x, H, more, n

-----------------------------------------------------------------------------
(* What is on the way *)

\* An event that takes the bytes from a + 1 to b off the wire, if it is a piece.
Piece(full, event, a, b) ==
  /\ a <= b
  /\ IF event.kind = "Received" THEN event.data = SubSeq(full, a + 1, b) ELSE a = b

\* The pieces among the events hold the bytes from + 1 to to.
Carried(full, events, from, to) ==
  \E pos \in [0..Len(events) -> 0..Len(full)] :
    /\ pos[0] = from /\ pos[Len(events)] = to
    /\ \A i \in 1..Len(events) : Piece(full, events[i], pos[i - 1], pos[i])

\* The events and the bytes that are not read hold all that is behind from.
Rest(full, events, unread, from) ==
  \E to \in 0..Len(full) :
    Carried(full, events, from, to) /\ unread = SubSeq(full, to + 1, Len(full))

LEMMA CarriedHead ==
  ASSUME NEW S, NEW events \in Seq(S), events # <<>>, NEW full, NEW from, NEW to,
         Carried(full, events, from, to)
  PROVE  \E mid \in 0..Len(full) :
           Piece(full, Head(events), from, mid) /\ Carried(full, Tail(events), mid, to)
<1>. DEFINE n == Len(events)
            rest == Tail(events)
<1>1. n \in Nat \ {0} /\ n - 1 \in Nat /\ Len(rest) = n - 1 /\ Head(events) = events[1]
      /\ \A i \in 1..n - 1 : rest[i] = events[i + 1]
  OBVIOUS
<1>2. PICK pos \in [0..n -> 0..Len(full)] :
        /\ pos[0] = from /\ pos[n] = to
        /\ \A i \in 1..n : Piece(full, events[i], pos[i - 1], pos[i])
  BY DEF Carried
<1>. HIDE DEF n, rest
<1>3. Piece(full, Head(events), from, pos[1]) /\ pos[1] \in 0..Len(full)
  <2>1. 1 \in 1..n /\ 1 - 1 = 0 /\ 1 \in 0..n
    BY <1>1
  <2>. QED BY <1>1, <1>2, <2>1
<1>. DEFINE next == [i \in 0..n - 1 |-> pos[i + 1]]
<1>4. next \in [0..n - 1 -> 0..Len(full)] /\ \A i \in 0..n - 1 : next[i] = pos[i + 1]
  BY <1>1
<1>. HIDE DEF next
<1>5. next[0] = pos[1] /\ next[n - 1] = to
  <2>1. 0 \in 0..n - 1 /\ n - 1 \in 0..n - 1 /\ n - 1 + 1 = n /\ 0 + 1 = 1
    BY <1>1
  <2>. QED BY <1>2, <1>4, <2>1
<1>6. ASSUME NEW i \in 1..n - 1 PROVE Piece(full, rest[i], next[i - 1], next[i])
  <2>1. i + 1 \in 1..n /\ i - 1 \in 0..n - 1 /\ i \in 0..n - 1 /\ i - 1 + 1 = i /\ (i + 1) - 1 = i
    BY <1>1
  <2>2. rest[i] = events[i + 1] /\ next[i - 1] = pos[i] /\ next[i] = pos[i + 1]
    BY <1>1, <1>4, <2>1
  <2>3. Piece(full, events[i + 1], pos[i], pos[i + 1])
    BY <1>2, <2>1
  <2>. QED BY <2>2, <2>3
<1>7. Carried(full, rest, pos[1], to)
  <2>1. /\ next \in [0..Len(rest) -> 0..Len(full)] /\ next[0] = pos[1] /\ next[Len(rest)] = to
        /\ \A i \in 1..Len(rest) : Piece(full, rest[i], next[i - 1], next[i])
    BY <1>1, <1>4, <1>5, <1>6
  <2>. QED BY <2>1, Zenon DEF Carried
<1>. QED BY <1>3, <1>7 DEF rest

LEMMA CarriedMore ==
  ASSUME NEW S, NEW events \in Seq(S), NEW full, NEW from, NEW to, Carried(full, events, from, to),
         NEW e, NEW b \in 0..Len(full), Piece(full, e, to, b)
  PROVE  Carried(full, Append(events, e), from, b)
<1>. DEFINE n == Len(events)
            more == Append(events, e)
<1>1. n \in Nat /\ Len(more) = n + 1 /\ more[n + 1] = e /\ \A i \in 1..n : more[i] = events[i]
  <2>1. events \in Seq(S \cup {e})
    OBVIOUS
  <2>. QED BY <2>1
<1>2. PICK pos \in [0..n -> 0..Len(full)] :
        /\ pos[0] = from /\ pos[n] = to
        /\ \A i \in 1..n : Piece(full, events[i], pos[i - 1], pos[i])
  BY DEF Carried
<1>. HIDE DEF n, more
<1>. DEFINE next == [i \in 0..n + 1 |-> IF i = n + 1 THEN b ELSE pos[i]]
<1>3. next \in [0..n + 1 -> 0..Len(full)] /\ next[n + 1] = b /\ \A i \in 0..n : next[i] = pos[i]
  BY <1>1
<1>. HIDE DEF next
<1>4. next[0] = from
  BY <1>1, <1>2, <1>3
<1>5. ASSUME NEW i \in 1..n + 1 PROVE Piece(full, more[i], next[i - 1], next[i])
  <2>1. CASE i = n + 1
    <3>1. i - 1 = n /\ n \in 0..n
      BY <1>1, <2>1
    <3>2. more[i] = e /\ next[i - 1] = to /\ next[i] = b
      BY <1>1, <1>2, <1>3, <2>1, <3>1
    <3>. QED BY <3>2
  <2>2. CASE i # n + 1
    <3>1. i \in 1..n /\ i - 1 \in 0..n /\ i \in 0..n
      BY <1>1, <2>2
    <3>2. more[i] = events[i] /\ next[i - 1] = pos[i - 1] /\ next[i] = pos[i]
      BY <1>1, <1>3, <3>1
    <3>3. Piece(full, events[i], pos[i - 1], pos[i])
      BY <1>2, <3>1
    <3>. QED BY <3>2, <3>3
  <2>. QED BY <2>1, <2>2
<1>6. /\ next \in [0..Len(more) -> 0..Len(full)] /\ next[0] = from /\ next[Len(more)] = b
      /\ \A i \in 1..Len(more) : Piece(full, more[i], next[i - 1], next[i])
  BY <1>1, <1>3, <1>4, <1>5
<1>. QED BY <1>6, Zenon DEF Carried, more

LEMMA CarriedGrown ==
  ASSUME NEW events, Len(events) \in Nat, NEW full \in Seq(Byte), NEW x \in Seq(Byte),
         NEW from, NEW to, Carried(full, events, from, to)
  PROVE  Carried(full \o x, events, from, to)
<1>. DEFINE n == Len(events)
            full2 == full \o x
<1>1. PICK pos \in [0..n -> 0..Len(full)] :
        /\ pos[0] = from /\ pos[n] = to
        /\ \A i \in 1..n : Piece(full, events[i], pos[i - 1], pos[i])
  BY DEF Carried
<1>2. Len(full2) = Len(full) + Len(x) /\ Len(full) \in Nat /\ Len(x) \in Nat
  OBVIOUS
<1>3. \A i \in Nat \ {0} : \A j \in 0..Len(full) : SubSeq(full2, i, j) = SubSeq(full, i, j)
  BY FrontOfConcat
<1>. HIDE DEF n, full2
<1>4. pos \in [0..n -> 0..Len(full2)]
  BY <1>2
<1>5. ASSUME NEW i \in 1..n PROVE Piece(full2, events[i], pos[i - 1], pos[i])
  <2>1. n \in Nat
    BY DEF n
  <2>2. pos[i - 1] \in 0..Len(full) /\ pos[i] \in 0..Len(full)
    BY <2>1
  <2>3. PICK a \in Nat, b \in 0..Len(full) : a = pos[i - 1] /\ b = pos[i]
    BY <1>2, <2>2
  <2>4. SubSeq(full2, a + 1, b) = SubSeq(full, a + 1, b)
    <3>1. a + 1 \in Nat \ {0}
      OBVIOUS
    <3>. QED BY <1>3, <3>1
  <2>5. Piece(full, events[i], a, b)
    BY <1>1, <2>3
  <2>6. Piece(full2, events[i], a, b)
    BY <2>4, <2>5 DEF Piece
  <2>. QED BY <2>3, <2>6
<1>. QED BY <1>1, <1>4, <1>5, Zenon DEF Carried, n, full2

LEMMA RestHead ==
  ASSUME NEW S, NEW events \in Seq(S), events # <<>>, NEW full, Len(full) \in Nat, NEW unread,
         NEW from \in 0..Len(full), Rest(full, events, unread, from)
  PROVE  \E mid \in from..Len(full) :
           /\ Rest(full, Tail(events), unread, mid)
           /\ Head(events).kind = "Received" => Head(events).data = SubSeq(full, from + 1, mid)
           /\ Head(events).kind # "Received" => mid = from
<1>1. PICK to \in 0..Len(full) :
        Carried(full, events, from, to) /\ unread = SubSeq(full, to + 1, Len(full))
  BY DEF Rest
<1>2. PICK mid \in 0..Len(full) :
        Piece(full, Head(events), from, mid) /\ Carried(full, Tail(events), mid, to)
  BY <1>1, CarriedHead
<1>3. Rest(full, Tail(events), unread, mid)
  BY <1>1, <1>2 DEF Rest
<1>4. mid \in from..Len(full)
  BY <1>2 DEF Piece
<1>5. /\ Head(events).kind = "Received" => Head(events).data = SubSeq(full, from + 1, mid)
      /\ Head(events).kind # "Received" => mid = from
  BY <1>2 DEF Piece
<1>. QED BY <1>3, <1>4, <1>5

LEMMA RestAppend ==
  ASSUME NEW S, NEW events \in Seq(S), NEW full, Len(full) \in Nat, NEW unread, NEW from,
         Rest(full, events, unread, from), NEW e, e.kind # "Received"
  PROVE  Rest(full, Append(events, e), unread, from)
<1>1. PICK to \in 0..Len(full) :
        Carried(full, events, from, to) /\ unread = SubSeq(full, to + 1, Len(full))
  BY DEF Rest
<1>2. Piece(full, e, to, to)
  BY DEF Piece
<1>3. Carried(full, Append(events, e), from, to)
  BY <1>1, <1>2, CarriedMore
<1>. QED BY <1>1, <1>3 DEF Rest

LEMMA RestPiece ==
  ASSUME NEW S, NEW events \in Seq(S), NEW full \in Seq(Byte), NEW unread, NEW from,
         Rest(full, events, unread, from), NEW n \in 1..Len(unread),
         NEW e, e.kind = "Received", e.data = SubSeq(unread, 1, n)
  PROVE  Rest(full, Append(events, e), SubSeq(unread, n + 1, Len(unread)), from)
<1>1. PICK to \in 0..Len(full) :
        Carried(full, events, from, to) /\ unread = SubSeq(full, to + 1, Len(full))
  BY DEF Rest
<1>2. Len(full) \in Nat /\ to \in Nat /\ Len(unread) = Len(full) - to /\ n \in Nat \ {0}
  BY <1>1
<1>3. to + n \in 0..Len(full) /\ to + 1 \in Nat \ {0} /\ n <= Len(full) - (to + 1) + 1
      /\ Len(full) \in 0..Len(full) /\ n + 1 \in Nat \ {0} /\ Len(unread) \in Nat
      /\ Len(unread) <= Len(full) - (to + 1) + 1
  BY <1>2
<1>4. SubSeq(SubSeq(full, to + 1, Len(full)), 1, n) = SubSeq(full, to + 1 + 1 - 1, to + 1 + n - 1)
  BY <1>2, <1>3, PartOfPart
<1>5. SubSeq(unread, n + 1, Len(unread))
        = SubSeq(full, to + 1 + (n + 1) - 1, to + 1 + Len(unread) - 1)
  <2>. DEFINE i == n + 1
  <2>. HIDE DEF i
  <2>1. i \in Nat \ {0}
    BY <1>3 DEF i
  <2>2. \A j \in Nat : j <= Len(full) - (to + 1) + 1 =>
          SubSeq(SubSeq(full, to + 1, Len(full)), i, j)
            = SubSeq(full, to + 1 + i - 1, to + 1 + j - 1)
    BY <1>3, <2>1, PartOfPart
  <2>3. SubSeq(SubSeq(full, to + 1, Len(full)), i, Len(unread))
            = SubSeq(full, to + 1 + i - 1, to + 1 + Len(unread) - 1)
    BY <1>3, <2>2
  <2>. QED BY <1>1, <2>3, Zenon DEF i
<1>6. to + 1 + 1 - 1 = to + 1 /\ to + 1 + n - 1 = to + n /\ to + 1 + (n + 1) - 1 = to + n + 1
      /\ to + 1 + Len(unread) - 1 = Len(full)
  BY <1>2
<1>7. Piece(full, e, to, to + n)
  <2>1. e.data = SubSeq(full, to + 1, to + n)
    BY <1>1, <1>4, <1>6, Zenon
  <2>2. to <= to + n
    BY <1>2
  <2>. QED BY <2>1, <2>2 DEF Piece
<1>8. Carried(full, Append(events, e), from, to + n)
  BY <1>1, <1>3, <1>7, CarriedMore
<1>9. SubSeq(unread, n + 1, Len(unread)) = SubSeq(full, to + n + 1, Len(full))
  BY <1>5, <1>6, Zenon
<1>. QED BY <1>3, <1>8, <1>9, Zenon DEF Rest

LEMMA RestGrown ==
  ASSUME NEW events, Len(events) \in Nat, NEW full \in Seq(Byte), NEW x \in Seq(Byte),
         NEW unread, NEW from, Rest(full, events, unread, from)
  PROVE  Rest(full \o x, events, unread \o x, from)
<1>1. PICK to \in 0..Len(full) :
        Carried(full, events, from, to) /\ unread = SubSeq(full, to + 1, Len(full))
  BY DEF Rest
<1>2. Carried(full \o x, events, from, to)
  BY <1>1, CarriedGrown
<1>3. SubSeq(full \o x, to + 1, Len(full \o x)) = unread \o x
  BY <1>1, RestOfConcat
<1>4. to \in 0..Len(full \o x)
  OBVIOUS
<1>. QED BY <1>2, <1>3, <1>4 DEF Rest

-----------------------------------------------------------------------------
IsSeq(s) == \E S : s \in Seq(S)

NoPiece(events) == \A i \in 1..Len(events) : events[i].kind # "Received"

OnePiece(events) ==
  \A i \in 1..Len(events), j \in 1..Len(events) :
    events[i].kind = "Received" /\ events[j].kind = "Received" => i = j

\* The handshakes are checked before the next piece is taken.
CheckNext(events) ==
  \E c \in 1..Len(events) :
    events[c].kind = "HandshakeCheck" /\ \A i \in 1..c : events[i].kind # "Received"

\* The peer's handshake has not been taken.
Waiting(full) ==
  /\ cycle = "handshake" /\ ~handshakeGot /\ delivered = <<>> /\ chunksBuffer = <<>>
  /\ handshakeSent \/ (box # <<>> /\ Head(box).kind = "Handshake")
  /\ Rest(full, box, stream, 0) /\ OnePiece(box)
  /\ link = "open" /\ reading => NoPiece(box)

\* What was taken was not the handshake.
Lost ==
  cycle = "handshake" /\ ~handshakeGot /\ delivered = <<>> /\ link # "open" /\ NoPiece(box)

Shaken(full) ==
  /\ cycle = "handshake" /\ handshakeGot /\ handshakeSent
  /\ delivered = <<>> /\ chunksBuffer = <<>>
  /\ Rest(full, box, stream, Len(HandshakeBytes)) /\ CheckNext(box)

\* The buffer starts with a packet, and all behind it is on the way.
Working(full, at) ==
  /\ cycle = "working"
  /\ \E k \in 1..Len(sent) + 1, from \in 0..Len(full) :
       /\ at[k] <= from + 1 /\ chunksBuffer = SubSeq(full, at[k], from)
       /\ Rest(full, box, stream, from) /\ Embeds(delivered, sent, k - 1)

Stopped == cycle = "stopped" /\ Embeds(delivered, sent, Len(sent))

OrderInv ==
  /\ sent \in Seq(Msg) /\ IsSeq(box)
  /\ ~gap => \/ Lost \/ Stopped
             \/ \E full, at : /\ Wire(full, at, sent)
                              /\ Waiting(full) \/ Shaken(full) \/ Working(full, at)

-----------------------------------------------------------------------------
(* The mailbox *)

\* later is events after one was taken, or more have come, and none is a piece.
Follows(events, later) ==
  /\ IsSeq(later)
  /\ NoPiece(events) => NoPiece(later)
  /\ OnePiece(events) => OnePiece(later)
  /\ \A full, unread, from :
       Len(full) \in Nat /\ from \in 0..Len(full) /\ Rest(full, events, unread, from)
         => Rest(full, later, unread, from)

LEMMA TailOf ==
  ASSUME NEW s, IsSeq(s), s # <<>>
  PROVE  /\ IsSeq(Tail(s)) /\ Len(s) \in Nat \ {0} /\ Len(Tail(s)) = Len(s) - 1
         /\ Head(s) = s[1] /\ \A i \in 1..Len(s) - 1 : Tail(s)[i] = s[i + 1]
<1>1. PICK S : s \in Seq(S)
  BY DEF IsSeq
<1>2. Tail(s) \in Seq(S)
  BY <1>1
<1>. QED BY <1>1, <1>2 DEF IsSeq

LEMMA AppendOf ==
  ASSUME NEW s, IsSeq(s), NEW e
  PROVE  /\ IsSeq(Append(s, e)) /\ Len(s) \in Nat /\ Len(Append(s, e)) = Len(s) + 1
         /\ Append(s, e)[Len(s) + 1] = e /\ \A i \in 1..Len(s) : Append(s, e)[i] = s[i]
<1>1. PICK S : s \in Seq(S)
  BY DEF IsSeq
<1>2. s \in Seq(S \cup {e})
  BY <1>1
<1>3. Append(s, e) \in Seq(S \cup {e})
  BY <1>2
<1>. QED BY <1>2, <1>3 DEF IsSeq

LEMMA FollowsAppend ==
  ASSUME NEW events, IsSeq(events), NEW e, e.kind # "Received"
  PROVE  /\ Follows(events, Append(events, e))
         /\ CheckNext(events) => CheckNext(Append(events, e))
<1>. DEFINE n == Len(events)
            more == Append(events, e)
<1>1. n \in Nat /\ IsSeq(more) /\ Len(more) = n + 1 /\ more[n + 1] = e
      /\ \A i \in 1..n : more[i] = events[i]
  BY AppendOf
<1>2. \A full, unread, from :
        Len(full) \in Nat /\ from \in 0..Len(full) /\ Rest(full, events, unread, from)
          => Rest(full, more, unread, from)
  BY RestAppend DEF IsSeq
<1>. HIDE DEF n, more
<1>3. \A i \in 1..n + 1 : i # n + 1 => i \in 1..n /\ more[i] = events[i]
  BY <1>1
<1>4. more[n + 1].kind # "Received"
  BY <1>1
<1>5. NoPiece(events) => NoPiece(more)
  BY <1>1, <1>3, <1>4 DEF NoPiece, n
<1>6. OnePiece(events) => OnePiece(more)
  BY <1>1, <1>3, <1>4 DEF OnePiece, n
<1>7. CheckNext(events) => CheckNext(more)
  <2>1. ASSUME NEW c \in 1..n, events[c].kind = "HandshakeCheck",
               \A i \in 1..c : events[i].kind # "Received"
        PROVE  CheckNext(more)
    <3>1. c \in 1..n + 1 /\ more[c].kind = "HandshakeCheck"
      BY <1>1, <2>1
    <3>2. \A i \in 1..c : more[i].kind # "Received"
      BY <1>1, <2>1
    <3>. QED BY <1>1, <3>1, <3>2 DEF CheckNext
  <2>. QED BY <2>1 DEF CheckNext, n
<1>. QED BY <1>1, <1>2, <1>5, <1>6, <1>7 DEF Follows, more

LEMMA FollowsTail ==
  ASSUME NEW events, IsSeq(events), events # <<>>, Head(events).kind # "Received"
  PROVE  /\ Follows(events, Tail(events))
         /\ CheckNext(events) /\ Head(events).kind # "HandshakeCheck" => CheckNext(Tail(events))
<1>. DEFINE n == Len(events)
            rest == Tail(events)
<1>1. n \in Nat \ {0} /\ IsSeq(rest) /\ Len(rest) = n - 1 /\ Head(events) = events[1]
      /\ \A i \in 1..n - 1 : rest[i] = events[i + 1]
  BY TailOf
<1>2. \A full, unread, from :
        Len(full) \in Nat /\ from \in 0..Len(full) /\ Rest(full, events, unread, from)
          => Rest(full, rest, unread, from)
  <2>1. ASSUME NEW full, NEW unread, NEW from, Len(full) \in Nat, from \in 0..Len(full),
               Rest(full, events, unread, from)
        PROVE  Rest(full, rest, unread, from)
    <3>1. PICK mid \in from..Len(full) : Rest(full, rest, unread, mid) /\ mid = from
      BY <2>1, RestHead DEF IsSeq
    <3>. QED BY <3>1
  <2>. QED BY <2>1
<1>. HIDE DEF n, rest
<1>3. \A i \in 1..n - 1 : i + 1 \in 1..n /\ rest[i] = events[i + 1]
  BY <1>1
<1>4. NoPiece(events) => NoPiece(rest)
  BY <1>1, <1>3 DEF NoPiece, n
<1>5. OnePiece(events) => OnePiece(rest)
  <2>1. ASSUME OnePiece(events), NEW i \in 1..n - 1, NEW j \in 1..n - 1,
               rest[i].kind = "Received", rest[j].kind = "Received"
        PROVE  i = j
    <3>1. i + 1 = j + 1
      BY <1>3, <2>1 DEF OnePiece, n
    <3>. QED BY <3>1
  <2>. QED BY <1>1, <2>1 DEF OnePiece
<1>6. CheckNext(events) /\ Head(events).kind # "HandshakeCheck" => CheckNext(rest)
  <2>1. ASSUME NEW c \in 1..n, events[c].kind = "HandshakeCheck",
               \A i \in 1..c : events[i].kind # "Received",
               events[1].kind # "HandshakeCheck"
        PROVE  CheckNext(rest)
    <3>1. c # 1
      BY <2>1
    <3>2. c - 1 \in 1..n - 1 /\ c - 1 + 1 = c
      BY <1>1, <3>1
    <3>3. rest[c - 1].kind = "HandshakeCheck"
      BY <1>3, <2>1, <3>2
    <3>4. \A i \in 1..c - 1 : rest[i].kind # "Received"
      <4>1. \A i \in 1..c - 1 : i \in 1..n - 1 /\ i + 1 \in 1..c
        BY <1>1
      <4>. QED BY <1>3, <2>1, <4>1
    <3>. QED BY <1>1, <3>2, <3>3, <3>4 DEF CheckNext
  <2>. QED BY <1>1, <2>1 DEF CheckNext, n
<1>. QED BY <1>1, <1>2, <1>4, <1>5, <1>6 DEF Follows, rest

LEMMA FollowsBoth ==
  ASSUME NEW a, NEW b, NEW c, Follows(a, b), Follows(b, c)
  PROVE  Follows(a, c)
BY DEF Follows

LEMMA FollowsSame ==
  ASSUME NEW a, IsSeq(a)
  PROVE  Follows(a, a)
BY DEF Follows

-----------------------------------------------------------------------------
(* Steps that take no piece *)

LEMMA FollowsStep ==
  ASSUME OrderInv, Follows(box, box'),
         UNCHANGED <<stream, sent, cycle, handshakeGot, chunksBuffer, delivered, gap>>,
         link' = "open" => link = "open",
         reading' /\ link' = "open" => reading,
         cycle = "handshake" /\ handshakeSent => handshakeSent',
         cycle = "handshake" /\ ~handshakeGot /\ (handshakeSent \/ (box # <<>> /\ Head(box).kind = "Handshake"))
           => handshakeSent' \/ (box' # <<>> /\ Head(box').kind = "Handshake"),
         cycle = "handshake" /\ handshakeGot /\ handshakeSent /\ CheckNext(box) => CheckNext(box')
  PROVE  OrderInv'
<1>1. sent' \in Seq(Msg) /\ IsSeq(box')
  BY DEF OrderInv, Follows
<1>2. CASE gap
  BY <1>1, <1>2 DEF OrderInv
<1>3. CASE Lost
  <2>1. Lost'
    BY <1>3 DEF Lost, Follows
  <2>. QED BY <1>1, <2>1 DEF OrderInv
<1>4. CASE Stopped
  <2>1. Stopped'
    BY <1>4 DEF Stopped
  <2>. QED BY <1>1, <2>1 DEF OrderInv
<1>5. ASSUME NEW full, NEW at, Wire(full, at, sent), Waiting(full) \/ Shaken(full) \/ Working(full, at)
      PROVE  OrderInv'
  <2>1. Len(full) \in Nat /\ 0 \in 0..Len(full) /\ Len(HandshakeBytes) \in 0..Len(full)
    <3>1. sent \in Seq(Msg)
      BY DEF OrderInv
    <3>2. Len(full) \in Nat /\ Len(HandshakeBytes) \in Nat /\ Len(sent) \in Nat
      BY <1>5, <3>1, WireTypes, MessageSizes
    <3>3. 1 \in 1..Len(sent) + 1 /\ Len(sent) + 1 \in 1..Len(sent) + 1
      BY <3>2
    <3>4. at[1] \in 1..Len(full) + 1 /\ at[1] = Len(HandshakeBytes) + 1
      <4>1. at[1] = Len(HandshakeBytes) + 1
        BY <1>5 DEF Wire
      <4>. QED BY <1>5, <3>1, <3>3, <4>1, WireGrowing
    <3>. QED BY <3>2, <3>4
  <2>2. CASE Waiting(full)
    <3>1. Waiting(full)'
      BY <2>1, <2>2 DEF Waiting, Follows
    <3>. QED BY <1>1, <1>5, <3>1 DEF OrderInv
  <2>3. CASE Shaken(full)
    <3>1. Shaken(full)'
      BY <2>1, <2>3 DEF Shaken, Follows
    <3>. QED BY <1>1, <1>5, <3>1 DEF OrderInv
  <2>4. CASE Working(full, at)
    <3>1. PICK k \in 1..Len(sent) + 1, from \in 0..Len(full) :
            /\ at[k] <= from + 1 /\ chunksBuffer = SubSeq(full, at[k], from)
            /\ Rest(full, box, stream, from) /\ Embeds(delivered, sent, k - 1)
      BY <2>4 DEF Working
    <3>2. Rest(full, box', stream', from)
      BY <2>1, <3>1 DEF Follows
    <3>3. Working(full, at)'
      BY <2>4, <3>1, <3>2 DEF Working
    <3>. QED BY <1>1, <1>5, <3>3 DEF OrderInv
  <2>. QED BY <1>5, <2>2, <2>3, <2>4
<1>. QED BY <1>2, <1>3, <1>4, <1>5 DEF OrderInv

-----------------------------------------------------------------------------
(* The handler and the connection *)

LEMMA TookOne ==
  ASSUME NEW behaviour, NEW kind, Took(behaviour, kind), IsSeq(box)
  PROVE  /\ cycle = behaviour /\ box # <<>> /\ Head(box) = box[1] /\ box[1].kind = kind
         /\ 1 \in 1..Len(box) /\ Len(box) \in Nat \ {0} /\ IsSeq(Tail(box))
<1>1. cycle = behaviour /\ box # <<>> /\ Head(box).kind = kind
  BY DEF Took
<1>2. IsSeq(Tail(box)) /\ Len(box) \in Nat \ {0} /\ Head(box) = box[1]
  BY <1>1, TailOf
<1>3. 1 \in 1..Len(box)
  BY <1>2
<1>. QED BY <1>1, <1>2, <1>3

\* Events that this node adds to the mailbox are no pieces.
LEMMA Added ==
  ASSUME NEW events, IsSeq(events), NEW kind, kind # "Received", NEW data
  PROVE  /\ Follows(events, Append(events, Event(kind, data)))
         /\ CheckNext(events) => CheckNext(Append(events, Event(kind, data)))
         /\ events # <<>> => /\ Append(events, Event(kind, data)) # <<>>
                             /\ Head(Append(events, Event(kind, data))) = Head(events)
<1>. DEFINE e == Event(kind, data)
            more == Append(events, e)
<1>1. e.kind # "Received"
  BY DEF Event
<1>. HIDE DEF e
<1>2. Follows(events, more) /\ (CheckNext(events) => CheckNext(more))
  BY <1>1, FollowsAppend
<1>3. IsSeq(more) /\ Len(events) \in Nat /\ Len(more) = Len(events) + 1
      /\ \A i \in 1..Len(events) : more[i] = events[i]
  BY AppendOf
<1>. HIDE DEF more
<1>4. more # <<>>
  BY <1>3
<1>5. ASSUME events # <<>> PROVE Head(more) = Head(events)
  <2>1. Head(events) = events[1] /\ Len(events) \in Nat \ {0}
    BY <1>5, TailOf
  <2>2. Head(more) = more[1]
    BY <1>3, <1>4, TailOf
  <2>. QED BY <1>3, <2>1, <2>2
<1>. QED BY <1>2, <1>4, <1>5 DEF more, e

LEMMA AddedStep ==
  ASSUME OrderInv, NEW kind, kind # "Received", NEW data,
         box' = Append(box, Event(kind, data)),
         UNCHANGED <<stream, sent, handlerVars>>,
         link' = "open" => link = "open", UNCHANGED reading
  PROVE  OrderInv'
<1>1. IsSeq(box)
  BY DEF OrderInv
<1>2. /\ Follows(box, box') /\ (CheckNext(box) => CheckNext(box'))
      /\ box # <<>> => box' # <<>> /\ Head(box') = Head(box)
  BY <1>1, Added
<1>3. UNCHANGED <<stream, sent, cycle, handshakeGot, handshakeSent, chunksBuffer, delivered, gap>>
  BY DEF handlerVars, flags
<1>4. /\ handshakeSent => handshakeSent'
      /\ handshakeSent \/ (box # <<>> /\ Head(box).kind = "Handshake")
           => handshakeSent' \/ (box' # <<>> /\ Head(box').kind = "Handshake")
  BY <1>2, <1>3
<1>5. reading' /\ link' = "open" => reading
  BY Zenon
<1>. QED BY <1>2, <1>3, <1>4, <1>5, FollowsStep

LEMMA ConnectionSteps ==
  ASSUME OrderInv,
         \/ Closed \/ Breaks \/ \E r \in Reply : SendReply(r)
         \/ \E kind \in {"Blacklist", "CloseConnection"} : Enforced(kind)
  PROVE  OrderInv'
<1>1. CASE Closed \/ Breaks
  BY <1>1, AddedStep DEF Closed, Breaks
<1>2. ASSUME NEW kind \in {"Message", "Blacklist", "CloseConnection"}, NEW data, Command(kind, data)
      PROVE  OrderInv'
  BY <1>2, AddedStep DEF Command, tcpVars
<1>. QED BY <1>1, <1>2 DEF SendReply, Enforced

LEMMA TakenStep ==
  ASSUME OrderInv, box # <<>>, Head(box).kind # "Received",
         cycle = "handshake" => Head(box).kind \notin {"Handshake", "HandshakeCheck"},
         Follows(Tail(box), box'), CheckNext(Tail(box)) => CheckNext(box'),
         UNCHANGED <<stream, sent, cycle, flags, chunksBuffer, delivered, gap>>,
         link' = "open" => link = "open",
         reading' /\ link' = "open" => reading
  PROVE  OrderInv'
<1>1. IsSeq(box)
  BY DEF OrderInv
<1>2. /\ Follows(box, Tail(box))
      /\ CheckNext(box) /\ Head(box).kind # "HandshakeCheck" => CheckNext(Tail(box))
  BY <1>1, FollowsTail
<1>3. Follows(box, box')
  BY <1>2, FollowsBoth
<1>. QED BY <1>2, <1>3, FollowsStep DEF flags

\* Either nothing is added to what is left of the mailbox or that the write failed.
LEMMA WriteFollows ==
  ASSUME NEW what, NEW rest, IsSeq(rest), Write(what, rest)
  PROVE  Follows(rest, box') /\ (CheckNext(rest) => CheckNext(box'))
<1>1. CASE box' = rest
  BY <1>1, FollowsSame
<1>2. CASE box' = Append(rest, Event("CommandFailed", <<>>))
  BY <1>2, Added
<1>. QED BY <1>1, <1>2 DEF Write

LEMMA TailFollows ==
  ASSUME IsSeq(box), box # <<>>, box' = Tail(box)
  PROVE  Follows(Tail(box), box') /\ (CheckNext(Tail(box)) => CheckNext(box'))
BY TailOf, FollowsSame

LEMMA TakingSteps ==
  ASSUME OrderInv,
         SendMessage \/ BlacklistPeer \/ WriteFailed \/ CloseConnection \/ Unhandled
  PROVE  OrderInv'
<1>. USE DEF Took, handlerVars, flags, tcpVars
<1>1. IsSeq(box) /\ (box # <<>> => IsSeq(Tail(box)))
  BY TailOf DEF OrderInv
<1>2. CASE SendMessage
  <2>1. box # <<>> /\ Write(Head(box).data, Tail(box))
    BY <1>2 DEF SendMessage
  <2>2. Follows(Tail(box), box') /\ (CheckNext(Tail(box)) => CheckNext(box'))
    BY <1>1, <2>1, WriteFollows
  <2>. QED BY <1>2, <2>1, <2>2, TakenStep DEF SendMessage
<1>3. CASE BlacklistPeer
  <2>1. Follows(Tail(box), box') /\ (CheckNext(Tail(box)) => CheckNext(box'))
    BY <1>1, <1>3, TailFollows DEF BlacklistPeer
  <2>. QED BY <1>3, <2>1, TakenStep DEF BlacklistPeer, Close
<1>4. CASE WriteFailed
  <2>1. Follows(Tail(box), box') /\ (CheckNext(Tail(box)) => CheckNext(box'))
    BY <1>1, <1>4, TailFollows DEF WriteFailed
  <2>2. link' # "open"
    BY <1>4 DEF WriteFailed, CloseAfterFailure, Close
  <2>. QED BY <1>4, <2>1, <2>2, TakenStep DEF WriteFailed
<1>5. CASE CloseConnection
  <2>1. Follows(Tail(box), box') /\ (CheckNext(Tail(box)) => CheckNext(box'))
    BY <1>1, <1>5, TailFollows DEF CloseConnection
  <2>. QED BY <1>5, <2>1, TakenStep DEF CloseConnection, Close
<1>6. CASE Unhandled
  <2>1. Follows(Tail(box), box') /\ (CheckNext(Tail(box)) => CheckNext(box'))
    BY <1>1, <1>6, TailFollows DEF Unhandled
  <2>. QED BY <1>6, <2>1, TakenStep DEF Unhandled
<1>. QED BY <1>2, <1>3, <1>4, <1>5, <1>6

LEMMA HandshakeSentStep ==
  ASSUME OrderInv, SendHandshake
  PROVE  OrderInv'
<1>. DEFINE rest == Append(Tail(box), Event("HandshakeCheck", <<>>))
<1>1. IsSeq(box) /\ box # <<>> /\ Head(box).kind = "Handshake" /\ cycle = "handshake"
      /\ IsSeq(Tail(box))
  BY TailOf DEF OrderInv, SendHandshake, Took
<1>2. Follows(box, Tail(box)) /\ (CheckNext(box) => CheckNext(Tail(box)))
  BY <1>1, FollowsTail
<1>3. Follows(Tail(box), rest) /\ (CheckNext(Tail(box)) => CheckNext(rest)) /\ IsSeq(rest)
  BY <1>1, Added DEF Follows
<1>4. Write("Handshake", rest)
  BY DEF SendHandshake
<1>. HIDE DEF rest
<1>5. Follows(rest, box') /\ (CheckNext(rest) => CheckNext(box'))
  BY <1>3, <1>4, WriteFollows
<1>6. Follows(box, box')
  BY <1>2, <1>3, <1>5, FollowsBoth
<1>. QED BY <1>2, <1>3, <1>5, <1>6, FollowsStep DEF SendHandshake

\* What the peer has written, and how the handler stands to it.
LEMMA OnTheWire ==
  ASSUME OrderInv, ~gap, ~Lost, ~Stopped
  PROVE  \E full, at : /\ Wire(full, at, sent) /\ full \in Seq(Byte) /\ Len(full) \in Nat
                       /\ Len(sent) \in Nat /\ Len(HandshakeBytes) \in Nat \ {0}
                       /\ Len(HandshakeBytes) \in 0..Len(full)
                       /\ at[1] = Len(HandshakeBytes) + 1
                       /\ SubSeq(full, 1, Len(HandshakeBytes)) = HandshakeBytes
                       /\ Waiting(full) \/ Shaken(full) \/ Working(full, at)
<1>1. PICK full, at : /\ Wire(full, at, sent)
                      /\ Waiting(full) \/ Shaken(full) \/ Working(full, at)
  BY Zenon DEF OrderInv
<1>2. sent \in Seq(Msg)
  BY DEF OrderInv
<1>3. /\ full \in Seq(Byte) /\ Len(full) \in Nat /\ Len(HandshakeBytes) \in Nat \ {0}
      /\ Len(sent) \in Nat
  BY <1>1, <1>2, WireTypes, MessageSizes
<1>4. 1 \in 1..Len(sent) + 1 /\ Len(sent) + 1 \in 1..Len(sent) + 1
  BY <1>3
<1>5. at[1] = Len(HandshakeBytes) + 1 /\ SubSeq(full, 1, Len(HandshakeBytes)) = HandshakeBytes
  BY <1>1 DEF Wire
<1>6. at[1] \in 1..Len(full) + 1
  BY <1>1, <1>2, <1>4, WireGrowing
<1>7. Len(HandshakeBytes) \in 0..Len(full)
  BY <1>3, <1>5, <1>6
<1>. QED BY <1>1, <1>3, <1>5, <1>7

LEMMA HandshakeCheckStep ==
  ASSUME OrderInv, HandshakeCheck
  PROVE  OrderInv'
<1>1. /\ IsSeq(box) /\ box # <<>> /\ Head(box).kind = "HandshakeCheck" /\ cycle = "handshake"
      /\ box' = Tail(box) /\ sent \in Seq(Msg)
  BY DEF OrderInv, HandshakeCheck, Took
<1>2. Follows(box, box')
  BY <1>1, FollowsTail
<1>3. CASE ~BothHandshakes
  BY <1>1, <1>2, <1>3, FollowsStep DEF HandshakeCheck, BothHandshakes, flags
<1>4. CASE BothHandshakes
  <2>1. /\ cycle' = "working"
        /\ UNCHANGED <<stream, sent, chunksBuffer, delivered, gap>>
    BY <1>4 DEF HandshakeCheck
  <2>2. sent' \in Seq(Msg) /\ IsSeq(box')
    BY <1>1, <1>2, <2>1 DEF Follows
  <2>3. CASE gap
    BY <2>1, <2>2, <2>3 DEF OrderInv
  <2>4. CASE ~gap
    <3>1. ~Lost /\ ~Stopped
      BY <1>1, <1>4 DEF Lost, Stopped, BothHandshakes
    <3>2. PICK full, at :
            /\ Wire(full, at, sent) /\ full \in Seq(Byte) /\ Len(full) \in Nat
            /\ Len(sent) \in Nat /\ Len(HandshakeBytes) \in Nat \ {0}
            /\ Len(HandshakeBytes) \in 0..Len(full)
            /\ at[1] = Len(HandshakeBytes) + 1
            /\ Waiting(full) \/ Shaken(full) \/ Working(full, at)
      BY <2>4, <3>1, OnTheWire
    <3>3. Shaken(full)
      BY <1>1, <1>4, <3>2 DEF Waiting, Working, BothHandshakes
    <3>4. delivered' = <<>> /\ chunksBuffer' = <<>> /\ Rest(full, box', stream', Len(HandshakeBytes))
      BY <1>2, <2>1, <3>2, <3>3 DEF Shaken, Follows
    <3>5. 1 \in 1..Len(sent') + 1 /\ Embeds(delivered', sent', 1 - 1)
      BY <2>1, <3>2, <3>4, EmbedsNothing
    <3>6. at[1] <= Len(HandshakeBytes) + 1
          /\ chunksBuffer' = SubSeq(full, at[1], Len(HandshakeBytes))
      <4>1. SubSeq(full, Len(HandshakeBytes) + 1, Len(HandshakeBytes)) = <<>>
        BY <3>2
      <4>. QED BY <3>2, <3>4, <4>1
    <3>7. Working(full, at)'
      BY <2>1, <3>2, <3>4, <3>5, <3>6 DEF Working
    <3>. QED BY <2>1, <2>2, <3>2, <3>7 DEF OrderInv
  <2>. QED BY <2>3, <2>4
<1>. QED BY <1>3, <1>4

\* A piece at the head of the mailbox, before the handshakes were made.
LEMMA FirstPiece ==
  ASSUME OrderInv, Took("handshake", "Received"), ~gap
  PROVE  \E full, at :
           /\ Wire(full, at, sent) /\ full \in Seq(Byte) /\ Len(full) \in Nat
           /\ Len(HandshakeBytes) \in Nat \ {0} /\ Len(HandshakeBytes) \in 0..Len(full)
           /\ SubSeq(full, 1, Len(HandshakeBytes)) = HandshakeBytes
           /\ Waiting(full) /\ handshakeSent /\ NoPiece(Tail(box))
           /\ ~(link = "open" /\ reading)
<1>1. /\ IsSeq(box) /\ cycle = "handshake" /\ box # <<>> /\ Head(box) = box[1]
      /\ box[1].kind = "Received" /\ 1 \in 1..Len(box) /\ Len(box) \in Nat \ {0}
  BY TookOne DEF OrderInv
<1>2. ~Lost /\ ~Stopped
  BY <1>1 DEF Lost, Stopped, NoPiece
<1>3. PICK full, at :
        /\ Wire(full, at, sent) /\ full \in Seq(Byte) /\ Len(full) \in Nat
        /\ Len(HandshakeBytes) \in Nat \ {0} /\ Len(HandshakeBytes) \in 0..Len(full)
        /\ SubSeq(full, 1, Len(HandshakeBytes)) = HandshakeBytes
        /\ Waiting(full) \/ Shaken(full) \/ Working(full, at)
  BY <1>2, OnTheWire
<1>4. ~Shaken(full)
  <2>1. ASSUME NEW c \in 1..Len(box), \A i \in 1..c : box[i].kind # "Received" PROVE FALSE
    <3>1. 1 \in 1..c
      BY <1>1
    <3>. QED BY <1>1, <2>1, <3>1
  <2>. QED BY <2>1 DEF Shaken, CheckNext
<1>5. Waiting(full)
  BY <1>1, <1>3, <1>4 DEF Working
<1>6. handshakeSent
  BY <1>1, <1>5 DEF Waiting
<1>7. NoPiece(Tail(box))
  <2>1. ASSUME NEW i \in 1..Len(Tail(box)), Tail(box)[i].kind = "Received" PROVE FALSE
    <3>1. i \in 1..Len(box) - 1 /\ Tail(box)[i] = box[i + 1]
      BY <1>1, <2>1, TailOf
    <3>2. i + 1 \in 1..Len(box) /\ i + 1 # 1
      BY <1>1, <3>1
    <3>. QED BY <1>1, <1>5, <2>1, <3>1, <3>2 DEF Waiting, OnePiece
  <2>. QED BY <2>1 DEF NoPiece
<1>8. ~(link = "open" /\ reading)
  BY <1>1, <1>5 DEF Waiting, NoPiece
<1>. QED BY <1>3, <1>5, <1>6, <1>7, <1>8

LEMMA NoHandshakeStep ==
  ASSUME OrderInv, NoHandshakeReceived
  PROVE  OrderInv'
<1>1. /\ Took("handshake", "Received") /\ box' = Tail(box)
      /\ UNCHANGED <<stream, sent, cycle, handshakeGot, delivered, gap>>
      /\ link' # "open"
  BY DEF NoHandshakeReceived, handlerVars, flags, Close
<1>2. sent' \in Seq(Msg) /\ IsSeq(box')
  BY <1>1, TookOne DEF OrderInv
<1>3. CASE gap
  BY <1>1, <1>2, <1>3 DEF OrderInv
<1>4. CASE ~gap
  <2>1. PICK full : Waiting(full) /\ NoPiece(Tail(box))
    BY <1>1, <1>4, FirstPiece
  <2>2. Lost'
    BY <1>1, <2>1 DEF Waiting, Lost
  <2>. QED BY <1>2, <2>2 DEF OrderInv
<1>. QED BY <1>3, <1>4

LEMMA HandshakeReceivedStep ==
  ASSUME OrderInv, HandshakeReceived
  PROVE  OrderInv'
<1>1. /\ Took("handshake", "Received")
      /\ box' = Append(Tail(box), Event("HandshakeCheck", <<>>))
      /\ UNCHANGED <<stream, sent, cycle, handshakeSent, chunksBuffer, delivered>>
      /\ handshakeGot' /\ gap' = (gap \/ Head(box).data # HandshakeBytes)
  BY DEF HandshakeReceived
<1>2. IsSeq(box) /\ IsSeq(Tail(box)) /\ box # <<>> /\ Head(box).kind = "Received"
      /\ cycle = "handshake"
  BY <1>1, TookOne DEF OrderInv, Took
<1>3. sent' \in Seq(Msg) /\ IsSeq(box')
  BY <1>1, <1>2, AppendOf DEF OrderInv
<1>4. CASE gap'
  BY <1>3, <1>4 DEF OrderInv
<1>5. CASE ~gap'
  <2>1. ~gap /\ Head(box).data = HandshakeBytes
    BY <1>1, <1>5
  <2>2. PICK full, at :
           /\ Wire(full, at, sent) /\ full \in Seq(Byte) /\ Len(full) \in Nat
           /\ Len(HandshakeBytes) \in Nat \ {0}
           /\ Waiting(full) /\ handshakeSent /\ NoPiece(Tail(box))
    BY <1>1, <2>1, FirstPiece
  <2>3. Rest(full, box, stream, 0) /\ 0 \in 0..Len(full)
    BY <2>2 DEF Waiting
  <2>4. PICK mid \in 0..Len(full) :
          Rest(full, Tail(box), stream, mid) /\ Head(box).data = SubSeq(full, 0 + 1, mid)
    BY <1>2, <2>2, <2>3, RestHead DEF IsSeq
  <2>5. mid = Len(HandshakeBytes)
    <3>1. Len(SubSeq(full, 1, mid)) = mid
      BY <2>2
    <3>. QED BY <2>1, <2>4, <3>1
  <2>6. /\ Follows(Tail(box), box')
    BY <1>1, <1>2, Added
  <2>7. Rest(full, box', stream', Len(HandshakeBytes))
    BY <1>1, <2>2, <2>4, <2>5, <2>6 DEF Follows
  <2>8. CheckNext(box')
    <3>. DEFINE c == Len(Tail(box)) + 1
    <3>1. c \in 1..Len(box') /\ box'[c].kind = "HandshakeCheck" /\ c = Len(box') /\ c \in Nat
      BY <1>1, <1>2, AppendOf DEF Event
    <3>2. NoPiece(box')
      BY <2>2, <2>6 DEF Follows
    <3>. QED BY <3>1, <3>2 DEF CheckNext, NoPiece
  <2>9. Shaken(full)'
    BY <1>1, <1>2, <2>2, <2>7, <2>8 DEF Shaken, Waiting
  <2>. QED BY <1>1, <1>3, <2>2, <2>9 DEF OrderInv
<1>. QED BY <1>4, <1>5

LEMMA ConnectionClosedStep ==
  ASSUME OrderInv, ConnectionClosed
  PROVE  OrderInv'
<1>1. /\ cycle \in {"handshake", "working"} /\ cycle' = "stopped" /\ box' = <<>>
      /\ UNCHANGED <<sent, delivered, gap>>
  BY DEF ConnectionClosed, ErrorCycles, Took, tcpVars
<1>2. sent' \in Seq(Msg) /\ IsSeq(box')
  <2>1. <<>> \in Seq({})
    OBVIOUS
  <2>. QED BY <1>1, <2>1 DEF OrderInv, IsSeq
<1>3. CASE gap
  BY <1>1, <1>2, <1>3 DEF OrderInv
<1>4. CASE ~gap
  <2>0. Len(sent) \in Nat
    BY DEF OrderInv
  <2>1. Embeds(delivered, sent, Len(sent))
    <3>1. CASE delivered = <<>>
      BY <2>0, <3>1, EmbedsNothing
    <3>2. CASE delivered # <<>>
      <4>1. ~Lost /\ ~Stopped
        BY <1>1, <3>2 DEF Lost, Stopped
      <4>2. PICK full, at : Waiting(full) \/ Shaken(full) \/ Working(full, at)
        BY <1>4, <4>1, OnTheWire
      <4>3. PICK k \in 1..Len(sent) + 1 : Embeds(delivered, sent, k - 1)
        BY <3>2, <4>2 DEF Waiting, Shaken, Working
      <4>4. k - 1 \in Nat /\ k - 1 <= Len(sent)
        BY <2>0
      <4>. QED BY <2>0, <4>3, <4>4, EmbedsGrown
    <3>. QED BY <3>1, <3>2
  <2>2. Stopped'
    BY <1>1, <2>1 DEF Stopped
  <2>. QED BY <1>2, <2>2 DEF OrderInv
<1>. QED BY <1>3, <1>4

LEMMA ReceivePieceStep ==
  ASSUME OrderInv, ReceivePiece
  PROVE  OrderInv'
<1>1. PICK n \in 1..Len(stream) :
        /\ box' = Append(box, Event("Received", SubSeq(stream, 1, n)))
        /\ stream' = SubSeq(stream, n + 1, Len(stream))
  BY DEF ReceivePiece
<1>2. /\ link = "open" /\ reading /\ ~reading'
      /\ UNCHANGED <<sent, link, cycle, handshakeGot, handshakeSent, chunksBuffer, delivered, gap>>
  BY DEF ReceivePiece, handlerVars, flags
<1>. DEFINE e == Event("Received", SubSeq(stream, 1, n))
<1>3. e.kind = "Received" /\ e.data = SubSeq(stream, 1, n) /\ box' = Append(box, e)
  BY <1>1 DEF Event
<1>. HIDE DEF e
<1>4. IsSeq(box) /\ sent' \in Seq(Msg)
  BY <1>2 DEF OrderInv
<1>5. /\ IsSeq(box') /\ Len(box) \in Nat /\ Len(box') = Len(box) + 1
      /\ \A i \in 1..Len(box) : box'[i] = box[i]
  BY <1>3, <1>4, AppendOf
<1>6. CASE gap
  BY <1>2, <1>4, <1>5, <1>6 DEF OrderInv
<1>7. CASE Stopped
  <2>1. Stopped'
    BY <1>2, <1>7 DEF Stopped
  <2>. QED BY <1>4, <1>5, <2>1 DEF OrderInv
<1>8. CASE ~gap /\ ~Stopped
  <2>1. ~Lost
    BY <1>2 DEF Lost
  <2>2. PICK full, at :
          /\ Wire(full, at, sent) /\ full \in Seq(Byte) /\ Len(full) \in Nat
          /\ Waiting(full) \/ Shaken(full) \/ Working(full, at)
    BY <1>8, <2>1, OnTheWire
  <2>3. \A from : Rest(full, box, stream, from) => Rest(full, box', stream', from)
    BY <1>1, <1>3, <1>4, <2>2, RestPiece DEF IsSeq
  <2>4. CASE Waiting(full)
    <3>1. NoPiece(box)
      BY <1>2, <2>4 DEF Waiting
    <3>2. OnePiece(box')
      <4>1. ASSUME NEW i \in 1..Len(box'), NEW j \in 1..Len(box'),
                   box'[i].kind = "Received", box'[j].kind = "Received"
            PROVE  i = j
        <5>1. \A l \in 1..Len(box') : l # Len(box') => l \in 1..Len(box) /\ box'[l] = box[l]
          BY <1>5
        <5>. QED BY <3>1, <4>1, <5>1 DEF NoPiece
      <4>. QED BY <4>1 DEF OnePiece
    <3>3. handshakeSent' \/ (box' # <<>> /\ Head(box').kind = "Handshake")
      <4>1. CASE handshakeSent
        BY <1>2, <4>1
      <4>2. CASE box # <<>> /\ Head(box).kind = "Handshake"
        <5>1. Head(box) = box[1] /\ Len(box) \in Nat \ {0}
          BY <1>4, <4>2, TailOf
        <5>2. box' # <<>>
          BY <1>5
        <5>3. Head(box') = box'[1]
          BY <1>5, <5>2, TailOf
        <5>. QED BY <1>5, <4>2, <5>1, <5>2, <5>3
      <4>. QED BY <2>4, <4>1, <4>2 DEF Waiting
    <3>4. Waiting(full)'
      BY <1>2, <2>3, <2>4, <3>2, <3>3 DEF Waiting
    <3>. QED BY <1>2, <1>4, <1>5, <2>2, <3>4 DEF OrderInv
  <2>5. CASE Shaken(full)
    <3>1. CheckNext(box')
      <4>1. PICK c \in 1..Len(box) :
              box[c].kind = "HandshakeCheck" /\ \A i \in 1..c : box[i].kind # "Received"
        BY <2>5 DEF Shaken, CheckNext
      <4>2. c \in 1..Len(box') /\ box'[c].kind = "HandshakeCheck"
            /\ \A i \in 1..c : box'[i].kind # "Received"
        BY <1>5, <4>1
      <4>. QED BY <4>2 DEF CheckNext
    <3>2. Shaken(full)'
      BY <1>2, <2>3, <2>5, <3>1 DEF Shaken
    <3>. QED BY <1>2, <1>4, <1>5, <2>2, <3>2 DEF OrderInv
  <2>6. CASE Working(full, at)
    <3>1. PICK k \in 1..Len(sent) + 1, from \in 0..Len(full) :
            /\ at[k] <= from + 1 /\ chunksBuffer = SubSeq(full, at[k], from)
            /\ Rest(full, box, stream, from) /\ Embeds(delivered, sent, k - 1)
      BY <2>6 DEF Working
    <3>2. Working(full, at)'
      BY <1>2, <2>3, <2>6, <3>1 DEF Working
    <3>. QED BY <1>2, <1>4, <1>5, <2>2, <3>2 DEF OrderInv
  <2>. QED BY <2>2, <2>4, <2>5, <2>6
<1>. QED BY <1>6, <1>7, <1>8

LEMMA PeerSendsStep ==
  ASSUME OrderInv, NEW m \in Msg, PeerSends(m)
  PROVE  OrderInv'
<1>. DEFINE x == HeaderOf(Len(m)) \o m
<1>1. /\ sent' = Append(sent, m) /\ stream' = stream \o HeaderOf(Len(m)) \o m
      /\ UNCHANGED <<link, reading, box, cycle, handshakeGot, handshakeSent, chunksBuffer,
                     delivered, gap>>
  BY DEF PeerSends, handlerVars, flags
<1>2. /\ sent \in Seq(Msg) /\ Len(sent) \in Nat /\ sent' \in Seq(Msg)
      /\ Len(sent') = Len(sent) + 1 /\ \A i \in 1..Len(sent) : sent'[i] = sent[i]
  BY <1>1 DEF OrderInv
<1>3. IsSeq(box') /\ Len(box) \in Nat
  BY <1>1 DEF OrderInv, IsSeq
<1>4. HeaderOf(Len(m)) \in Seq(Byte) /\ m \in Seq(Byte)
  <2>1. Msg \subseteq Seq(Byte)
    BY ConnectionAssumption DEF Byte
  <2>. QED BY <2>1, HeaderIs
<1>5. ASSUME NEW n \in 0..Len(sent), Embeds(delivered, sent, n)
      PROVE  \A l \in n..Len(sent') : Embeds(delivered', sent', l)
  <2>1. ASSUME NEW l \in n..Len(sent') PROVE Embeds(delivered, sent', l)
    <3>1. n \in Nat /\ l \in Nat /\ n <= l /\ \A i \in 1..n : sent'[i] = sent[i]
      BY <1>2
    <3>. QED BY <1>5, <3>1, EmbedsGrown
  <2>. QED BY <1>1, <2>1
<1>6. CASE gap
  BY <1>1, <1>2, <1>3, <1>6 DEF OrderInv
<1>7. CASE Stopped
  <2>1. Stopped'
    BY <1>1, <1>2, <1>5, <1>7 DEF Stopped
  <2>. QED BY <1>2, <1>3, <2>1 DEF OrderInv
<1>8. CASE Lost
  <2>1. Lost'
    BY <1>1, <1>8 DEF Lost
  <2>. QED BY <1>2, <1>3, <2>1 DEF OrderInv
<1>9. CASE ~gap /\ ~Stopped /\ ~Lost
  <2>1. PICK full, at :
          /\ Wire(full, at, sent) /\ full \in Seq(Byte) /\ Len(full) \in Nat
          /\ Len(HandshakeBytes) \in 0..Len(full)
          /\ Waiting(full) \/ Shaken(full) \/ Working(full, at)
    BY <1>9, OnTheWire
  <2>2. x \in Seq(Byte)
    BY <1>4
  <2>3. PICK at2 : Wire(full \o x, at2, sent') /\ \A k \in 1..Len(sent) + 1 : at2[k] = at[k]
    BY <1>1, <1>2, <2>1, WireGrows
  <2>4. ASSUME NEW from, Rest(full, box, stream, from)
        PROVE  Rest(full \o x, box', stream', from)
    <3>1. PICK to \in 0..Len(full) : stream = SubSeq(full, to + 1, Len(full))
      BY <2>4 DEF Rest
    <3>2. stream \in Seq(Byte)
      BY <2>1, <3>1
    <3>3. stream' = stream \o x
      <4>1. PICK h \in Seq(Byte) : h = HeaderOf(Len(m))
        BY <1>4
      <4>2. (stream \o h) \o m = stream \o (h \o m)
        <5>1. m \in Seq(Byte) /\ h \in Seq(Byte) /\ stream \in Seq(Byte)
          BY <1>4, <3>2
        <5>. QED BY ONLY <5>1, ConcatAssociative, SMTT(30)
      <4>. QED BY <1>1, <4>1, <4>2, Zenon
    <3>4. Rest(full \o x, box, stream \o x, from)
      <4>. HIDE DEF x
      <4>. QED BY <1>3, <2>1, <2>2, <2>4, RestGrown
    <3>. QED BY <1>1, <3>3, <3>4
  <2>. HIDE DEF x
  <2>5. CASE Waiting(full)
    <3>1. Waiting(full \o x)'
      BY <1>1, <2>4, <2>5 DEF Waiting
    <3>. QED BY <1>1, <1>2, <1>3, <2>3, <3>1 DEF OrderInv
  <2>6. CASE Shaken(full)
    <3>1. Shaken(full \o x)'
      BY <1>1, <2>4, <2>6 DEF Shaken
    <3>. QED BY <1>1, <1>2, <1>3, <2>3, <3>1 DEF OrderInv
  <2>7. CASE Working(full, at)
    <3>1. PICK k \in 1..Len(sent) + 1, from \in 0..Len(full) :
            /\ at[k] <= from + 1 /\ chunksBuffer = SubSeq(full, at[k], from)
            /\ Rest(full, box, stream, from) /\ Embeds(delivered, sent, k - 1)
      BY <2>7 DEF Working
    <3>2. k \in 1..Len(sent') + 1 /\ k - 1 \in 0..Len(sent) /\ k - 1 \in k - 1..Len(sent')
      BY <1>2
    <3>3. Embeds(delivered', sent', k - 1)
      BY <1>5, <3>1, <3>2
    <3>4. from \in 0..Len(full \o x) /\ at[k] = at2[k]
      BY <2>1, <2>2, <2>3
    <3>5. at[k] \in 1..Len(full) + 1
      <4>1. Len(sent) + 1 \in k..Len(sent) + 1
        BY <1>2
      <4>. QED BY <1>2, <2>1, <4>1, WireGrowing
    <3>6. SubSeq(full \o x, at[k], from) = SubSeq(full, at[k], from)
      <4>1. at[k] \in Nat \ {0}
        BY <2>1, <3>5
      <4>. QED BY <2>1, <2>2, <4>1, FrontOfConcat
    <3>7. /\ at2[k] <= from + 1 /\ chunksBuffer' = SubSeq(full \o x, at2[k], from)
          /\ Rest(full \o x, box', stream', from)
      BY <1>1, <2>4, <3>1, <3>4, <3>6
    <3>8. Working(full \o x, at2)'
      BY <1>1, <2>7, <3>2, <3>3, <3>4, <3>7 DEF Working
    <3>. QED BY <1>1, <1>2, <1>3, <2>3, <3>8 DEF OrderInv
  <2>. QED BY <2>1, <2>5, <2>6, <2>7
<1>. QED BY <1>6, <1>7, <1>8, <1>9

\* A piece that comes in the working cycle: the packets that are whole are cut off.
LEMMA PieceCut ==
  ASSUME OrderInv, Took("working", "Received"), ~gap
  PROVE  \E full, at, k, j, mid :
           /\ k \in 1..Len(sent) + 1 /\ j \in k..Len(sent) + 1 /\ mid \in 0..Len(full)
           /\ Wire(full, at, sent) /\ full \in Seq(Byte) /\ Len(full) \in Nat
           /\ at[k] \in Nat \ {0} /\ at[j] \in Nat /\ at[k] <= at[j] /\ at[j] <= mid + 1
           /\ chunksBuffer \o Head(box).data = SubSeq(full, at[k], mid)
           /\ getPacket(SubSeq(full, at[k], mid)) = CutFrom(at, sent, k, k, j)
           /\ Rest(full, Tail(box), stream, mid) /\ Embeds(delivered, sent, k - 1)
<1>1. /\ IsSeq(box) /\ cycle = "working" /\ box # <<>> /\ Head(box).kind = "Received"
      /\ sent \in Seq(Msg) /\ Len(sent) \in Nat
  BY DEF OrderInv, Took
<1>2. ~Lost /\ ~Stopped
  BY <1>1 DEF Lost, Stopped
<1>3. PICK full, at :
        /\ Wire(full, at, sent) /\ full \in Seq(Byte) /\ Len(full) \in Nat
        /\ Waiting(full) \/ Shaken(full) \/ Working(full, at)
  BY <1>2, OnTheWire
<1>4. PICK k \in 1..Len(sent) + 1, from \in 0..Len(full) :
        /\ at[k] <= from + 1 /\ chunksBuffer = SubSeq(full, at[k], from)
        /\ Rest(full, box, stream, from) /\ Embeds(delivered, sent, k - 1)
  BY <1>1, <1>3 DEF Waiting, Shaken, Working
<1>5. PICK mid \in from..Len(full) :
        Rest(full, Tail(box), stream, mid) /\ Head(box).data = SubSeq(full, from + 1, mid)
  BY <1>1, <1>3, <1>4, RestHead DEF IsSeq
<1>6. at[k] \in 1..Len(full) + 1
  <2>1. Len(sent) + 1 \in k..Len(sent) + 1
    BY <1>1
  <2>. QED BY <1>1, <1>3, <2>1, WireGrowing
<1>a. PICK a \in 1..Len(full) + 1 : a = at[k]
  BY <1>6
<1>7. a \in Nat \ {0} /\ from \in a - 1..Len(full) /\ mid \in 0..Len(full) /\ a <= mid + 1
  <2>1. a <= from + 1
    BY <1>4, <1>a
  <2>. QED BY <1>3, <2>1
<1>8. SubSeq(full, a, from) \o SubSeq(full, from + 1, mid) = SubSeq(full, a, mid)
  BY <1>3, <1>7, ConcatAdjacentSubSeq
<1>9. PICK j \in k..Len(sent) + 1 :
        at[j] <= mid + 1 /\ getPacket(SubSeq(full, at[k], mid)) = CutFrom(at, sent, k, k, j)
  <2>1. at[k] <= mid + 1
    BY <1>7, <1>a
  <2>. QED BY <1>1, <1>3, <1>7, <2>1, PacketsCut
<1>10. at[k] <= at[j] /\ at[j] \in Nat
  <2>1. j \in 1..Len(sent) + 1
    BY <1>1
  <2>. QED BY <1>1, <1>3, <2>1, WireGrowing, WireTypes
<1>11. /\ at[k] \in Nat \ {0}
       /\ chunksBuffer \o Head(box).data = SubSeq(full, at[k], mid)
  BY <1>4, <1>5, <1>7, <1>8, <1>a
<1>. QED BY <1>3, <1>4, <1>5, <1>7, <1>9, <1>10, <1>11, Zenon

LEMMA InvalidLengthStep ==
  ASSUME OrderInv, InvalidLength
  PROVE  OrderInv'
<1>1. Took("working", "Received") /\ getPacket(chunksBuffer \o Head(box).data).throws
      /\ box' = Tail(box) /\ UNCHANGED <<sent, gap>>
  BY DEF InvalidLength
<1>2. CASE gap
  <2>1. IsSeq(box') /\ sent' \in Seq(Msg)
    BY <1>1, TookOne DEF OrderInv
  <2>. QED BY <1>1, <1>2, <2>1 DEF OrderInv
<1>3. CASE ~gap
  <2>1. PICK full, at, k, j, mid :
           /\ k \in 1..Len(sent) + 1 /\ j \in k..Len(sent) + 1 /\ mid \in 0..Len(full)
           /\ Wire(full, at, sent) /\ full \in Seq(Byte) /\ Len(full) \in Nat
           /\ at[k] \in Nat \ {0} /\ at[j] \in Nat /\ at[k] <= at[j] /\ at[j] <= mid + 1
           /\ chunksBuffer \o Head(box).data = SubSeq(full, at[k], mid)
           /\ getPacket(SubSeq(full, at[k], mid)) = CutFrom(at, sent, k, k, j)
           /\ Rest(full, Tail(box), stream, mid) /\ Embeds(delivered, sent, k - 1)
    BY <1>1, <1>3, PieceCut, Zenon
  <2>2. getPacket(chunksBuffer \o Head(box).data) = CutFrom(at, sent, k, k, j)
    BY <2>1
  <2>3. ~CutFrom(at, sent, k, k, j).throws
    BY DEF CutFrom
  <2>. QED BY <1>1, <2>2, <2>3, Zenon
<1>. QED BY <1>2, <1>3

LEMMA DataReceivedStep ==
  ASSUME OrderInv, DataReceived
  PROVE  OrderInv'
<1>. DEFINE data == chunksBuffer \o Head(box).data
<1>1. /\ Took("working", "Received") /\ box' = Tail(box)
      /\ chunksBuffer' = Remainder(data, getPacket(data))
      /\ delivered' = delivered \o ParsedOf(getPacket(data).packets)
      /\ UNCHANGED <<stream, sent, cycle, gap>>
  BY DEF DataReceived
<1>2. IsSeq(box') /\ sent \in Seq(Msg) /\ sent' \in Seq(Msg) /\ Len(sent) \in Nat
      /\ cycle = "working"
  BY <1>1, TookOne DEF OrderInv
<1>3. CASE gap
  BY <1>1, <1>2, <1>3 DEF OrderInv
<1>4. CASE ~gap
  <2>2. PICK full, at, k, j, mid :
           /\ k \in 1..Len(sent) + 1 /\ j \in k..Len(sent) + 1 /\ mid \in 0..Len(full)
           /\ Wire(full, at, sent) /\ full \in Seq(Byte) /\ Len(full) \in Nat
           /\ at[k] \in Nat \ {0} /\ at[j] \in Nat /\ at[k] <= at[j] /\ at[j] <= mid + 1
           /\ data = SubSeq(full, at[k], mid)
           /\ getPacket(SubSeq(full, at[k], mid)) = CutFrom(at, sent, k, k, j)
           /\ Rest(full, Tail(box), stream, mid) /\ Embeds(delivered, sent, k - 1)
    BY <1>1, <1>4, PieceCut, Zenon
  <2>. HIDE DEF data
  <2>3. /\ getPacket(data).packets = SubSeq(sent, k, j - 1)
        /\ getPacket(data).rest = at[j] - at[k] + 1
    BY <2>2 DEF CutFrom
  <2>4. chunksBuffer' = SubSeq(full, at[j], mid)
    <3>0. mid \in Nat /\ mid \in 0..Len(full)
      BY <2>2
    <3>1. PICK a \in Nat \ {0}, b \in Nat : a = at[k] /\ b = at[j]
      BY <2>2
    <3>a. a <= b /\ b <= mid + 1
      BY <2>2, <3>1
    <3>2. Len(data) = mid - a + 1 /\ mid \in 0..Len(full) /\ a <= mid + 1
      <4>1. a <= mid + 1
        BY <3>0, <3>a
      <4>2. Len(SubSeq(full, a, mid)) = mid - a + 1
        BY <2>2, <4>1
      <4>. QED BY <2>2, <3>1, <4>1, <4>2
    <3>3. b - a + 1 \in Nat \ {0} /\ mid - a + 1 \in Nat
      BY <3>0, <3>a
    <3>4. SubSeq(SubSeq(full, a, mid), b - a + 1, mid - a + 1)
            = SubSeq(full, a + (b - a + 1) - 1, a + (mid - a + 1) - 1)
      <4>. DEFINE i == b - a + 1
                  l == mid - a + 1
      <4>1. i \in Nat \ {0} /\ l \in Nat /\ l <= mid - a + 1
        BY <3>3
      <4>. HIDE DEF i, l
      <4>2. SubSeq(SubSeq(full, a, mid), i, l) = SubSeq(full, a + i - 1, a + l - 1)
        BY <2>2, <3>0, <4>1, PartOfPart
      <4>. QED BY <4>2, Zenon DEF i, l
    <3>5. a + (b - a + 1) - 1 = b /\ a + (mid - a + 1) - 1 = mid
      BY <3>0
    <3>6. chunksBuffer' = SubSeq(data, b - a + 1, mid - a + 1)
      BY <1>1, <2>3, <3>1, <3>2, Zenon DEF Remainder
    <3>. QED BY <2>2, <3>1, <3>4, <3>5, <3>6, Zenon
  <2>5. SubSeq(sent, k, j - 1) \in Seq(Msg) /\ Len(SubSeq(sent, k, j - 1)) = j - k
        /\ k \in Nat \ {0} /\ j \in 1..Len(sent) + 1 /\ j - 1 \in 0..Len(sent) /\ j \in Nat
    <3>1. k \in Nat \ {0} /\ j \in Nat /\ k <= j /\ j - 1 <= Len(sent)
      BY <1>2, <2>2
    <3>. QED BY <1>2, <2>2, <3>1
  <2>6. PICK n \in 0..j - k : ParsedOf(getPacket(data).packets)
                                = SubSeq(SubSeq(sent, k, j - 1), 1, n)
    BY <2>3, <2>5, FirstPackets
  <2>7. SubSeq(SubSeq(sent, k, j - 1), 1, n) = SubSeq(sent, k + 1 - 1, k + n - 1)
    <3>1. n \in Nat /\ n <= (j - 1) - k + 1
      BY <2>5
    <3>. QED BY <1>2, <2>5, <3>1, PartOfPart
  <2>8. delivered' = delivered \o SubSeq(sent, k, k + n - 1)
    <3>1. k + 1 - 1 = k
      BY <2>5
    <3>. QED BY <1>1, <2>6, <2>7, <3>1, Zenon
  <2>9. Embeds(delivered', sent', j - 1)
    BY <1>1, <1>2, <2>2, <2>8, EmbedsMore
  <2>10. Working(full, at)'
    BY <1>1, <1>2, <2>2, <2>4, <2>5, <2>9 DEF Working
  <2>. QED BY <1>1, <1>2, <2>2, <2>10 DEF OrderInv
<1>. QED BY <1>3, <1>4

\* What is remembered of the handshakes.
FirstInv ==
  /\ IsSeq(told) /\ IsSeq(offered)
  /\ handshakeGot => "Handshaked" \in ToSet(told)
  /\ handshakeSent => "Handshake" \in ToSet(offered)
  /\ cycle = "working" \/ delivered # <<>>
       => "Handshaked" \in ToSet(told) /\ "Handshake" \in ToSet(offered)

LEMMA AppendToSet ==
  ASSUME NEW s, IsSeq(s), NEW e
  PROVE  e \in ToSet(Append(s, e)) /\ \A x \in ToSet(s) : x \in ToSet(Append(s, e))
<1>1. PICK S : s \in Seq(S)
  BY DEF IsSeq
<1>2. s \in Seq(S \cup {e})
  BY <1>1
<1>3. Append(s, e) \in Seq(S \cup {e})
  BY <1>2
<1>4. /\ DOMAIN s = 1..Len(s) /\ DOMAIN Append(s, e) = 1..Len(s) + 1 /\ Len(s) \in Nat
      /\ Append(s, e)[Len(s) + 1] = e /\ \A i \in 1..Len(s) : Append(s, e)[i] = s[i]
  BY <1>2, <1>3
<1>5. Len(s) + 1 \in 1..Len(s) + 1 /\ \A i \in 1..Len(s) : i \in 1..Len(s) + 1
  BY <1>4
<1>. QED BY <1>4, <1>5 DEF ToSet

\* More is told or written, and the handshakes that are made are among it.
LEMMA FirstKept ==
  ASSUME FirstInv,
         told' = told \/ \E e : told' = Append(told, e),
         offered' = offered \/ \E e : offered' = Append(offered, e),
         handshakeGot' => handshakeGot \/ told' = Append(told, "Handshaked"),
         handshakeSent' => handshakeSent \/ offered' = Append(offered, "Handshake"),
         cycle' = "working" => cycle = "working" \/ (handshakeGot /\ handshakeSent),
         delivered' # <<>> => delivered # <<>> \/ cycle = "working"
  PROVE  FirstInv'
<1>1. IsSeq(told') /\ IsSeq(offered')
  BY AppendOf DEF FirstInv
<1>2. ToSet(told) \subseteq ToSet(told') /\ ToSet(offered) \subseteq ToSet(offered')
  BY AppendToSet DEF FirstInv
<1>3. (handshakeGot' => "Handshaked" \in ToSet(told'))
      /\ (handshakeSent' => "Handshake" \in ToSet(offered'))
  BY <1>2, AppendToSet DEF FirstInv
<1>4. cycle' = "working" \/ delivered' # <<>>
        => "Handshaked" \in ToSet(told') /\ "Handshake" \in ToSet(offered')
  BY <1>2 DEF FirstInv
<1>. QED BY <1>1, <1>3, <1>4 DEF FirstInv

LEMMA FirstNext ==
  ASSUME FirstInv, [ConnectionNext]_connectionVars
  PROVE  FirstInv'
<1>. USE DEF tcpVars, handlerVars, flags
<1>1. CASE SendHandshake \/ SendMessage
  BY <1>1, FirstKept DEF SendHandshake, SendMessage, Write, Took
<1>2. CASE HandshakeReceived \/ HandshakeCheck
  BY <1>2, FirstKept DEF HandshakeReceived, HandshakeCheck, BothHandshakes, Took
<1>3. CASE NoHandshakeReceived \/ BlacklistPeer \/ WriteFailed \/ CloseConnection
           \/ ConnectionClosed \/ Unhandled
  BY <1>3, FirstKept DEF NoHandshakeReceived, BlacklistPeer, WriteFailed, CloseConnection,
     ConnectionClosed, Unhandled
<1>4. CASE DataReceived \/ InvalidLength
  BY <1>4, FirstKept DEF DataReceived, InvalidLength, Took
<1>5. CASE Closed \/ Breaks \/ ReceivePiece \/ \E m \in Msg : PeerSends(m)
  BY <1>5, FirstKept DEF Closed, Breaks, ReceivePiece, PeerSends
<1>6. CASE \/ \E r \in Reply : SendReply(r)
           \/ \E kind \in {"Blacklist", "CloseConnection"} : Enforced(kind)
  BY <1>6, FirstKept DEF SendReply, Enforced, Command
<1>7. CASE UNCHANGED connectionVars
  BY <1>7, FirstKept DEF connectionVars
<1>. QED
  BY <1>1, <1>2, <1>3, <1>4, <1>5, <1>6, <1>7 DEF ConnectionNext, Handle

LEMMA OrderNext ==
  ASSUME OrderInv, [ConnectionNext]_connectionVars
  PROVE  OrderInv'
<1>1. CASE UNCHANGED connectionVars
  <2>1. /\ UNCHANGED <<stream, sent, link, reading, box, cycle, handshakeGot, handshakeSent,
                       chunksBuffer, delivered, gap>>
    BY <1>1 DEF connectionVars, tcpVars, handlerVars, flags
  <2>. QED BY <2>1 DEF OrderInv, Lost, Stopped, Waiting, Shaken, Working
<1>. QED
  BY <1>1, ConnectionSteps, TakingSteps, HandshakeSentStep, HandshakeCheckStep,
     NoHandshakeStep, HandshakeReceivedStep, ConnectionClosedStep, ReceivePieceStep,
     PeerSendsStep, InvalidLengthStep, DataReceivedStep DEF ConnectionNext, Handle

LEMMA OrderInit == ConnectionInit => OrderInv /\ FirstInv
<1>. SUFFICES ASSUME ConnectionInit PROVE OrderInv /\ FirstInv
  OBVIOUS
<1>1. /\ stream = HandshakeBytes /\ sent = <<>> /\ box = <<Event("Handshake", <<>>)>>
      /\ cycle = "handshake" /\ ~handshakeGot /\ ~handshakeSent /\ chunksBuffer = <<>>
      /\ delivered = <<>> /\ told = <<>> /\ offered = <<>>
  BY DEF ConnectionInit
<1>. DEFINE e == Event("Handshake", <<>>)
            at == [k \in 1..1 |-> Len(HandshakeBytes) + 1]
<1>2. e.kind = "Handshake"
  BY DEF Event
<1>. HIDE DEF e
<1>3. box = <<e>> /\ box \in Seq({e}) /\ Len(box) = 1 /\ box[1] = e /\ Head(box) = e /\ box # <<>>
  BY <1>1 DEF e
<1>4. HandshakeBytes \in Seq(Byte) /\ Len(HandshakeBytes) \in Nat
  BY ConnectionAssumption DEF Byte
<1>5. Wire(HandshakeBytes, at, sent)
  <2>1. Len(sent) = 0 /\ SubSeq(HandshakeBytes, 1, Len(HandshakeBytes)) = HandshakeBytes
    BY <1>1, <1>4, SubSeqFull
  <2>2. at \in [1..0 + 1 -> Nat] /\ at[1] = Len(HandshakeBytes) + 1
        /\ at[0 + 1] = Len(HandshakeBytes) + 1
    BY <1>4
  <2>3. \A k \in 1..0 : FALSE
    OBVIOUS
  <2>. HIDE DEF at
  <2>. QED BY <1>4, <2>1, <2>2, <2>3, Zenon DEF Wire
<1>. HIDE DEF at
<1>6. Rest(HandshakeBytes, box, stream, 0)
  <2>1. 0 \in 0..Len(HandshakeBytes) /\ stream = SubSeq(HandshakeBytes, 0 + 1, Len(HandshakeBytes))
    BY <1>1, <1>4, SubSeqFull
  <2>. DEFINE pos == [i \in 0..1 |-> 0]
  <2>2. pos \in [0..Len(box) -> 0..Len(HandshakeBytes)] /\ pos[0] = 0 /\ pos[Len(box)] = 0
    BY <1>3, <2>1
  <2>3. ASSUME NEW i \in 1..Len(box) PROVE Piece(HandshakeBytes, box[i], pos[i - 1], pos[i])
    <3>1. box[i] = e /\ pos[i - 1] = 0 /\ pos[i] = 0
      BY <1>3
    <3>. HIDE DEF pos
    <3>. QED BY <1>2, <3>1 DEF Piece
  <2>. HIDE DEF pos
  <2>. QED BY <2>1, <2>2, <2>3, Zenon DEF Rest, Carried
<1>7. OnePiece(box) /\ NoPiece(box)
  BY <1>2, <1>3 DEF OnePiece, NoPiece
<1>8. Waiting(HandshakeBytes)
  BY <1>1, <1>2, <1>3, <1>6, <1>7, Zenon DEF Waiting
<1>9. sent \in Seq(Msg) /\ IsSeq(box) /\ IsSeq(told) /\ IsSeq(offered)
  <2>1. \A s : s = <<>> => IsSeq(s) /\ s \in Seq(Msg)
    BY DEF IsSeq
  <2>2. IsSeq(box)
    BY <1>3 DEF IsSeq
  <2>. QED BY <1>1, <2>1, <2>2
<1>10. OrderInv
  BY <1>5, <1>8, <1>9, Zenon DEF OrderInv
<1>11. FirstInv
  BY <1>1, <1>9 DEF FirstInv
<1>. QED BY <1>10, <1>11

LEMMA OrderHolds ==
  ASSUME OrderInv, FirstInv
  PROVE  InOrder
<1>1. ASSUME ~gap PROVE Keeps(delivered, sent, Len(sent))
  <2>1. sent \in Seq(Msg) /\ Len(sent) \in Nat
    BY DEF OrderInv
  <2>2. Embeds(delivered, sent, Len(sent))
    <3>1. CASE delivered = <<>>
      BY <2>1, <3>1, EmbedsNothing
    <3>2. CASE delivered # <<>> /\ Stopped
      BY <3>2 DEF Stopped
    <3>3. CASE delivered # <<>> /\ ~Stopped
      <4>1. ~Lost
        BY <3>3 DEF Lost
      <4>2. PICK full, at : Waiting(full) \/ Shaken(full) \/ Working(full, at)
        BY <1>1, <3>3, <4>1, OnTheWire
      <4>3. PICK k \in 1..Len(sent) + 1 : Embeds(delivered, sent, k - 1)
        BY <3>3, <4>2 DEF Waiting, Shaken, Working
      <4>4. k - 1 \in Nat /\ k - 1 <= Len(sent)
        BY <2>1
      <4>. QED BY <2>1, <4>3, <4>4, EmbedsGrown
    <3>. QED BY <3>1, <3>2, <3>3
  <2>. QED BY <2>1, <2>2, KeptFrom
<1>2. delivered # <<>> => "Handshaked" \in ToSet(told) /\ "Handshake" \in ToSet(offered)
  BY DEF FirstInv
<1>. QED BY <1>1, <1>2, Zenon DEF InOrder, Keeps

\* However the stream is cut into pieces, and whatever is sent, fails or ends
\* meanwhile, what is delivered are messages of the peer in their order and none
\* twice, and none before both handshakes, unless bytes were dropped with the
\* handshake (Buffering.getPacket; PeerConnectionHandler, handshakeCycle and
\* workingCycle).
THEOREM AlwaysInOrder == ConnectionSpec => []InOrder
<1>1. ConnectionInit => OrderInv /\ FirstInv
  BY OrderInit
<1>2. OrderInv /\ FirstInv /\ [ConnectionNext]_connectionVars => (OrderInv /\ FirstInv)'
  BY OrderNext, FirstNext
<1>3. OrderInv /\ FirstInv => InOrder
  BY OrderHolds
<1>. QED
  BY <1>1, <1>2, <1>3, PTL DEF ConnectionSpec
-----------------------------------------------------------------------------
(* What this node writes *)

\* As long as the connection takes writes all of them have arrived.  A write that
\* fails ends that for good: writing is resumed only together with the close.
WritesInv ==
  /\ IsSeq(arrived) /\ IsSeq(offered) /\ IsPrefix(arrived, offered)
  /\ link = "open" /\ writable => arrived = offered

LEMMA PrefixOfItself == ASSUME NEW s, IsSeq(s) PROVE IsPrefix(s, s)
BY DEF IsSeq, IsPrefix

LEMMA PrefixOfMore ==
  ASSUME NEW s, NEW t, IsSeq(s), IsSeq(t), IsPrefix(s, t), NEW e
  PROVE  IsPrefix(s, Append(t, e))
<1>1. PICK S : s \in Seq(S)
  BY DEF IsSeq
<1>2. PICK T : t \in Seq(T)
  BY DEF IsSeq
<1>3. Len(s) <= Len(t) /\ Len(Append(t, e)) = Len(t) + 1
  BY <1>2 DEF IsPrefix
<1>4. \A i \in 1..Len(s) : Append(t, e)[i] = t[i]
  BY <1>1, <1>2, <1>3
<1>5. SubSeq(Append(t, e), 1, Len(s)) = SubSeq(t, 1, Len(s))
  BY <1>1, <1>2, <1>3, <1>4
<1>. QED
  BY <1>1, <1>2, <1>3, <1>5 DEF IsPrefix

LEMMA WriteInv ==
  ASSUME WritesInv, NEW what, NEW rest, Write(what, rest), UNCHANGED link
  PROVE  WritesInv'
<1>1. IsSeq(offered)' /\ IsPrefix(arrived, offered') /\ offered' = Append(offered, what)
  BY AppendOf, PrefixOfMore DEF Write, WritesInv
<1>2. CASE link = "open" /\ writable /\ arrived' = Append(arrived, what)
  <2>1. arrived' = offered'
    BY <1>1, <1>2 DEF WritesInv
  <2>. QED
    BY <1>1, <2>1, PrefixOfItself DEF WritesInv
<1>3. CASE UNCHANGED arrived /\ (link # "open" \/ ~writable')
  BY <1>1, <1>3 DEF WritesInv
<1>. QED
  BY <1>2, <1>3 DEF Write

\* A step that writes nothing opens no connection, nor resumes writing on one that
\* is open.
LEMMA NoWriteInv ==
  ASSUME WritesInv, UNCHANGED <<arrived, offered>>,
         link' = "open" => link = "open" /\ (writable' => writable)
  PROVE  WritesInv'
BY DEF WritesInv

LEMMA WritesNext ==
  ASSUME WritesInv, [ConnectionNext]_connectionVars
  PROVE  WritesInv'
<1>. USE DEF tcpVars, handlerVars, flags
<1>1. CASE SendHandshake \/ SendMessage
  BY <1>1, WriteInv DEF SendHandshake, SendMessage
<1>2. CASE HandshakeReceived \/ HandshakeCheck \/ DataReceived \/ InvalidLength
           \/ ConnectionClosed \/ Unhandled
  BY <1>2, NoWriteInv DEF HandshakeReceived, HandshakeCheck, DataReceived, InvalidLength,
     ConnectionClosed, Unhandled
<1>3. CASE NoHandshakeReceived \/ BlacklistPeer \/ WriteFailed \/ CloseConnection
  BY <1>3, NoWriteInv DEF NoHandshakeReceived, BlacklistPeer, WriteFailed, CloseConnection,
     CloseAfterFailure, Close
<1>4. CASE Closed \/ Breaks \/ ReceivePiece \/ \E m \in Msg : PeerSends(m)
  BY <1>4, NoWriteInv DEF Closed, Breaks, ReceivePiece, PeerSends
<1>5. CASE \/ \E r \in Reply : SendReply(r)
           \/ \E kind \in {"Blacklist", "CloseConnection"} : Enforced(kind)
  BY <1>5, NoWriteInv DEF SendReply, Enforced, Command
<1>6. CASE UNCHANGED connectionVars
  BY <1>6, NoWriteInv DEF connectionVars
<1>. QED
  BY <1>1, <1>2, <1>3, <1>4, <1>5, <1>6 DEF ConnectionNext, Handle

\* Writes that failed leave no hole (PeerConnectionHandler.scala:81-87).
THEOREM NoHoleEver == ConnectionSpec => []NoHole
<1>1. ConnectionInit => WritesInv
  <2>1. \A s : s = <<>> => IsSeq(s)
    BY DEF IsSeq
  <2>. QED
    BY <2>1, PrefixOfItself DEF ConnectionInit, WritesInv
<1>2. WritesInv => NoHole
  BY DEF WritesInv, NoHole
<1>. QED
  BY <1>1, <1>2, WritesNext, PTL DEF ConnectionSpec
-----------------------------------------------------------------------------
(* The PeerManager *)

\* The connections are numbered; one from outside has its number for an address,
\* one to the outside that at which its node listens.
ConnsOK ==
  /\ \E k \in 0..MaxConn : DOMAIN conns = 1..k
  /\ \A c \in DOMAIN conns :
       /\ conns[c].node \in Node
       /\ \/ conns[c].address = c
          \/ conns[c].address \in Listening /\ conns[c].address = Listen[conns[c].node]

\* Messages are about connections there are, and so are the entries.
InboxOK ==
  /\ DOMAIN inbox = Conn
  /\ \A c \in Conn : inbox[c] # <<>> => c \in DOMAIN conns

EntriesOK == \A a \in DOMAIN connectedPeers : connectedPeers[a].conn \in DOMAIN conns

PeersInv ==
  TypeOK /\ ConnsOK /\ InboxOK /\ EntriesOK /\ OneEntryPerNode /\ RightHandshake

LEMMA InitInv == Init => PeersInv
<1>. SUFFICES ASSUME Init PROVE PeersInv
  OBVIOUS
<1>1. DOMAIN conns = {} /\ DOMAIN connectedPeers = {}
  BY DEF Init
<1>2. TypeOK
  BY <1>1, PeersAssumption DEF Init, TypeOK, Known, Listening
<1>3. ConnsOK
  <2>1. 0 \in 0..MaxConn /\ 1..0 = {}
    BY PeersAssumption
  <2>. QED
    BY <1>1, <2>1 DEF ConnsOK
<1>4. InboxOK
  BY DEF Init, InboxOK
<1>. QED
  BY <1>1, <1>2, <1>3, <1>4 DEF PeersInv, EntriesOK, OneEntryPerNode, RightHandshake

\* Two connections of one address lead to one node.
LEMMA AddressOfOneNode ==
  ASSUME ConnsOK, NEW c \in DOMAIN conns, NEW d \in DOMAIN conns,
         conns[c].address = conns[d].address
  PROVE  conns[c].node = conns[d].node
<1>1. c \in 1..MaxConn /\ d \in 1..MaxConn
  BY PeersAssumption DEF ConnsOK
<1>. QED
  BY <1>1, PeersAssumption DEF ConnsOK, Listening

\* A connection that is opened is a new one.
LEMMA OpenedInv ==
  ASSUME PeersInv, NEW c \in Conn, NEW a, NEW n \in Node, Opened(c, a, n),
         a = c \/ (a \in Listening /\ a = Listen[n]), dialing' \subseteq dialing
  PROVE  PeersInv'
<1>1. PICK k \in 0..MaxConn : DOMAIN conns = 1..k
  BY DEF PeersInv, ConnsOK
<1>2. c = k + 1 /\ c \notin DOMAIN conns
  <2>1. Cardinality(1..k) = k
    BY FS_Interval
  <2>. QED
    BY <1>1, <2>1 DEF Opened
<1>3. /\ DOMAIN conns' = DOMAIN conns \cup {c}
      /\ conns'[c] = [address |-> a, node |-> n]
      /\ \A d \in DOMAIN conns : conns'[d] = conns[d]
  BY <1>2 DEF Opened, With
<1>4. ConnsOK'
  <2>1. DOMAIN conns' = 1..k + 1 /\ k + 1 \in 0..MaxConn
    BY <1>1, <1>2, <1>3, PeersAssumption DEF Conn
  <2>2. \E i \in 0..MaxConn : DOMAIN conns' = 1..i
    BY <2>1
  <2>3. ASSUME NEW d \in DOMAIN conns'
        PROVE  /\ conns'[d].node \in Node
               /\ \/ conns'[d].address = d
                  \/ /\ conns'[d].address \in Listening
                     /\ conns'[d].address = Listen[conns'[d].node]
    BY <1>3 DEF PeersInv, ConnsOK
  <2>. QED
    BY <2>2, <2>3 DEF ConnsOK
<1>5. InboxOK'
  BY <1>3 DEF Opened, Tells, PeersInv, InboxOK
<1>6. UNCHANGED <<peersPersistence, connectedPeers, connectingPeer, learned, failed, greeted,
                  toClose, mixed>> /\ live' = live \cup {c}
  BY DEF Opened, managerVars, ghosts
<1>7. TypeOK'
  BY <1>3, <1>6 DEF PeersInv, TypeOK, EntriesOK, Known
<1>8. EntriesOK' /\ OneEntryPerNode' /\ RightHandshake'
  BY <1>3, <1>6 DEF PeersInv, EntriesOK, OneEntryPerNode, RightHandshake, Pending
<1>. QED
  BY <1>4, <1>5, <1>7, <1>8 DEF PeersInv
-----------------------------------------------------------------------------
(* The messages of the PeerManager: what each makes of the peers *)

\* Connections are what they were, and what is told about them is one message less
\* at most.
Handling(c) ==
  /\ c \in Conn /\ inbox[c] # <<>> /\ c \in DOMAIN conns
  /\ inbox' = [inbox EXCEPT ![c] = Tail(@)]
  /\ UNCHANGED <<dialing, failed, conns, greeted, live, blacklistings, asked>>

LEMMA HandlingKeepsConns ==
  ASSUME PeersInv, NEW c, Handling(c)
  PROVE  ConnsOK' /\ InboxOK'
BY DEF PeersInv, ConnsOK, InboxOK, Handling

LEMMA ConnectedInv ==
  ASSUME PeersInv, NEW c, Handling(c), Connected(c, conns[c].address)
  PROVE  PeersInv'
<1>. DEFINE a == conns[c].address
            entry == [conn |-> HandlerFor(a, c), node |-> None]
<1>1. /\ entry.conn \in DOMAIN conns /\ conns[entry.conn].address = a /\ entry \in Entry
      /\ entry.node = None
  BY DEF HandlerFor, Handling, PeersInv, EntriesOK, TypeOK, Entry, ConnsOK, Conn
<1>2. /\ DOMAIN connectedPeers' \subseteq DOMAIN connectedPeers \cup {a}
      /\ \A b \in DOMAIN connectedPeers' :
           \/ b = a /\ connectedPeers'[b] = entry
           \/ b \in DOMAIN connectedPeers /\ connectedPeers'[b] = connectedPeers[b]
  BY DEF Connected, With
<1>. HIDE DEF entry
<1>3. /\ Known' = Known /\ connectingPeer' \in {connectingPeer, None}
      /\ peersPersistence' \in [Known -> {"good", "blacklisted", "over"}]
  BY DEF Connected, AfterAsking, Resolved, Known, PeersInv, TypeOK
<1>4. TypeOK'
  <2>1. \A b \in DOMAIN connectedPeers' :
          connectedPeers'[b] \in Entry /\ conns[connectedPeers'[b].conn].address = b
    BY <1>1, <1>2 DEF PeersInv, TypeOK
  <2>. QED
    BY <1>3, <2>1 DEF Connected, Handling, PeersInv, TypeOK
<1>5. EntriesOK'
  BY <1>1, <1>2 DEF Handling, PeersInv, EntriesOK
<1>6. OneEntryPerNode' /\ RightHandshake'
  BY <1>1, <1>2 DEF Connected, Handling, PeersInv, OneEntryPerNode, RightHandshake, Pending
<1>. QED
  BY <1>4, <1>5, <1>6, HandlingKeepsConns DEF PeersInv

\* Entries that are taken away break nothing.
LEMMA FewerEntries ==
  ASSUME PeersInv, NEW kept, kept \subseteq DOMAIN connectedPeers,
         connectedPeers' = Restrict(connectedPeers, kept),
         UNCHANGED conns, mixed => mixed'
  PROVE  /\ EntriesOK' /\ OneEntryPerNode' /\ RightHandshake'
         /\ \A a \in DOMAIN connectedPeers' : /\ connectedPeers'[a] \in Entry
                                              /\ conns[connectedPeers'[a].conn].address = a
BY DEF PeersInv, TypeOK, EntriesOK, OneEntryPerNode, RightHandshake, Pending, Restrict

LEMMA DisconnectedInv ==
  ASSUME PeersInv, NEW a, Disconnected(a), ConnsOK', InboxOK',
         UNCHANGED <<peersPersistence, learned, dialing, conns, greeted, live, toClose, mixed>>,
         failed' \subseteq failed
  PROVE  PeersInv'
<1>1. /\ EntriesOK' /\ OneEntryPerNode' /\ RightHandshake'
      /\ \A b \in DOMAIN connectedPeers' : /\ connectedPeers'[b] \in Entry
                                           /\ conns[connectedPeers'[b].conn].address = b
  BY FewerEntries DEF Disconnected, Without
<1>2. TypeOK'
  BY <1>1 DEF Disconnected, Resolved, PeersInv, TypeOK, Known
<1>. QED
  BY <1>1, <1>2 DEF PeersInv

\* The entry a handshake goes to belongs to its node, if no other was awaited.
LEMMA HandshakedEntry ==
  ASSUME PeersInv, NEW c \in DOMAIN conns, NEW b \in ToUpdate(conns[c].address, conns[c].node),
         \A d \in DOMAIN connectedPeers : d # conns[c].address => ~Pending(d), ~mixed
  PROVE  conns[connectedPeers[b].conn].node = conns[c].node
<1>. DEFINE a == conns[c].address
<1>1. CASE b = a
  <2>1. connectedPeers[b].conn \in DOMAIN conns /\ conns[connectedPeers[b].conn].address = a
    BY <1>1 DEF ToUpdate, PeersInv, EntriesOK, TypeOK
  <2>. QED
    BY <2>1, AddressOfOneNode DEF PeersInv
<1>2. CASE b # a
  BY <1>2 DEF ToUpdate, PeersInv, RightHandshake
<1>. QED
  BY <1>1, <1>2

LEMMA HandshakedInv ==
  ASSUME PeersInv, NEW c, Handling(c), Handshaked(c, conns[c].address, conns[c].node)
  PROVE  PeersInv'
<1>. DEFINE a == conns[c].address
            n == conns[c].node
            toUpdate == ToUpdate(a, n)
            others == DOMAIN connectedPeers \ toUpdate
<1>1. /\ Known' = Known /\ UNCHANGED <<connectingPeer, conns>> /\ (mixed => mixed')
      /\ peersPersistence' \in [Known -> {"good", "blacklisted", "over"}]
  BY DEF Handshaked, Handling, AfterAsking, Known, PeersInv, TypeOK
<1>2. c \in DOMAIN conns /\ n \in Node
  BY DEF Handling, PeersInv, ConnsOK
<1>3. CASE IsBlacklisted(a) \/ toUpdate = {}
  <2>1. UNCHANGED <<connectedPeers, learned, toClose>>
    BY <1>3 DEF Handshaked, NewPeers
  <2>2. TypeOK'
    BY <1>1, <2>1 DEF Handling, PeersInv, TypeOK
  <2>. QED
    BY <1>1, <2>1, <2>2, HandlingKeepsConns
       DEF PeersInv, EntriesOK, OneEntryPerNode, RightHandshake, Pending
<1>4. ASSUME ~IsBlacklisted(a), toUpdate # {}
      PROVE  PeersInv'
  <2>1. PICK newCp \in NewPeers(toUpdate, n) :
          IF OwnNonce(n)
            THEN /\ toClose' = toClose \cup ({connectedPeers[newCp].conn} \cap live)
                 /\ connectedPeers' = Restrict(connectedPeers, others)
                 /\ UNCHANGED learned
            ELSE /\ connectedPeers' = With(Restrict(connectedPeers, others), newCp,
                                           [conn |-> connectedPeers[newCp].conn, node |-> n])
                 /\ learned' = learned \cup ({Declared[n]} \ {None})
                 /\ UNCHANGED toClose
    BY <1>4 DEF Handshaked
  <2>2. newCp \in toUpdate /\ newCp \in DOMAIN connectedPeers
    BY <2>1 DEF NewPeers, ToUpdate
  <2>3. CASE OwnNonce(n)
    <3>1. /\ EntriesOK' /\ OneEntryPerNode' /\ RightHandshake'
          /\ \A b \in DOMAIN connectedPeers' :
               /\ connectedPeers'[b] \in Entry
               /\ conns[connectedPeers'[b].conn].address = b
      BY <1>1, <2>1, <2>3, FewerEntries
    <3>2. TypeOK'
      BY <1>1, <2>1, <2>3, <3>1 DEF Handling, PeersInv, TypeOK
    <3>. QED
      BY <3>1, <3>2, HandlingKeepsConns DEF PeersInv
  <2>4. CASE ~OwnNonce(n)
    <3>. DEFINE entry == [conn |-> connectedPeers[newCp].conn, node |-> n]
    <3>1. /\ DOMAIN connectedPeers' = others \cup {newCp} /\ newCp \notin others
          /\ connectedPeers'[newCp] = entry
          /\ \A b \in others : connectedPeers'[b] = connectedPeers[b]
      BY <2>1, <2>2, <2>4 DEF With, Restrict
    <3>2. entry \in Entry /\ entry.node = n /\ entry.conn = connectedPeers[newCp].conn
      BY <1>2, <2>2, <2>4 DEF Entry, OwnNonce, PeersInv, TypeOK
    <3>3. \A b \in others : b \in DOMAIN connectedPeers /\ connectedPeers[b].node \notin {None, n}
      BY DEF ToUpdate, Pending
    <3>4. n # None
      BY <1>2, PeersAssumption
    <3>. HIDE DEF entry, others
    <3>5. EntriesOK' /\ OneEntryPerNode'
      BY <1>1, <2>2, <3>1, <3>2, <3>3, <3>4 DEF PeersInv, EntriesOK, OneEntryPerNode, Pending
    <3>6. TypeOK'
      <4>1. \A b \in DOMAIN connectedPeers' :
              connectedPeers'[b] \in Entry /\ conns[connectedPeers'[b].conn].address = b
        BY <2>2, <3>1, <3>2, <3>3 DEF PeersInv, TypeOK
      <4>2. learned' \subseteq Listening
        BY <1>2, <2>1, <2>4, PeersAssumption DEF PeersInv, TypeOK, Listening
      <4>. QED
        BY <1>1, <2>1, <2>4, <4>1, <4>2 DEF Handling, PeersInv, TypeOK
    <3>7. RightHandshake'
      <4>. SUFFICES ASSUME ~mixed'
                    PROVE  \A b \in DOMAIN connectedPeers' :
                             conns[connectedPeers'[b].conn].node = connectedPeers'[b].node
        BY <1>1 DEF RightHandshake, Pending
      <4>1. ~mixed /\ \A b \in DOMAIN connectedPeers : b # a => ~Pending(b)
        BY DEF Handshaked
      <4>2. conns[connectedPeers[newCp].conn].node = n
        BY <1>2, <2>2, <4>1, HandshakedEntry
      <4>3. \A b \in others : conns[connectedPeers[b].conn].node = connectedPeers[b].node
        BY <3>3, <4>1 DEF PeersInv, RightHandshake, Pending
      <4>. QED
        BY <3>1, <3>2, <4>2, <4>3
    <3>. QED
      BY <3>5, <3>6, <3>7, HandlingKeepsConns DEF PeersInv
  <2>. QED
    BY <2>3, <2>4
<1>. QED
  BY <1>3, <1>4

LEMMA AddToBlacklistInv ==
  ASSUME PeersInv, NEW c, Handling(c), AddToBlacklist(conns[c].address)
  PROVE  PeersInv'
<1>1. TypeOK'
  BY DEF AddToBlacklist, Blacklisted, Handling, PeersInv, TypeOK, Known
<1>. QED
  BY <1>1, HandlingKeepsConns
     DEF AddToBlacklist, Handling, PeersInv, EntriesOK, OneEntryPerNode, RightHandshake, Pending

LEMMA ReceiveInv ==
  ASSUME PeersInv, NEW c \in Conn, Receive(c)
  PROVE  PeersInv'
<1>1. Handling(c)
  BY DEF Receive, Handling, PeersInv, InboxOK
<1>2. CASE Connected(c, conns[c].address)
  BY <1>1, <1>2, ConnectedInv
<1>3. CASE Handshaked(c, conns[c].address, conns[c].node)
  BY <1>1, <1>3, HandshakedInv
<1>4. CASE AddToBlacklist(conns[c].address)
  BY <1>1, <1>4, AddToBlacklistInv
<1>5. CASE /\ Disconnected(conns[c].address)
           /\ UNCHANGED <<peersPersistence, learned, toClose, mixed>>
  BY <1>1, <1>5, HandlingKeepsConns, DisconnectedInv DEF Handling
<1>. QED
  BY <1>2, <1>3, <1>4, <1>5 DEF Receive
-----------------------------------------------------------------------------
\* A step of a handler tells the PeerManager of a connection there is.
LEMMA TellsKeepsConns ==
  ASSUME PeersInv, NEW c \in DOMAIN conns, NEW message, Tells(c, message), UNCHANGED conns
  PROVE  ConnsOK' /\ InboxOK'
BY DEF PeersInv, ConnsOK, InboxOK, Tells

LEMMA HandlerInv ==
  ASSUME PeersInv, NEW c \in Conn, HandshakeArrives(c) \/ Blacklist(c) \/ Ends(c)
  PROVE  PeersInv'
<1>1. c \in DOMAIN conns
  BY DEF HandshakeArrives, Blacklist, Ends, PeersInv, TypeOK
<1>2. ConnsOK' /\ InboxOK'
  BY <1>1, TellsKeepsConns DEF HandshakeArrives, Blacklist, Ends
<1>3. UNCHANGED <<peersPersistence, connectedPeers, connectingPeer, learned, dialing, failed,
                  conns, mixed>>
  BY DEF HandshakeArrives, Blacklist, Ends, managerVars, ghosts
<1>4. toClose' \subseteq live' /\ live' \cup greeted' \subseteq DOMAIN conns
  BY <1>1 DEF HandshakeArrives, Blacklist, Ends, PeersInv, TypeOK
<1>5. TypeOK'
  BY <1>3, <1>4 DEF PeersInv, TypeOK, Known
<1>. QED
  BY <1>2, <1>3, <1>5 DEF PeersInv, EntriesOK, OneEntryPerNode, RightHandshake, Pending

\* What remains changes neither connections nor entries.
LEMMA OtherInv ==
  ASSUME PeersInv, UNCHANGED <<connectedPeers, conns, greeted, live, toClose, inbox, mixed>>,
         /\ peersPersistence' \in [Known' -> {"good", "blacklisted", "over"}]
         /\ Known' \subseteq Listening
         /\ connectingPeer' \in Listening \cup {None} /\ learned' \subseteq Listening
         /\ dialing' \cup failed' \subseteq Listening
  PROVE  PeersInv'
<1>1. TypeOK'
  BY DEF PeersInv, TypeOK, Known
<1>. QED
  BY <1>1 DEF PeersInv, ConnsOK, InboxOK, EntriesOK, OneEntryPerNode, RightHandshake, Pending

LEMMA AddedTypes ==
  ASSUME PeersInv, NEW a \in Listening, peersPersistence' = AddedOrUpdated(a)
  PROVE  /\ peersPersistence' \in [Known' -> {"good", "blacklisted", "over"}]
         /\ Known' \subseteq Listening
BY DEF PeersInv, TypeOK, AddedOrUpdated, With, Known

LEMMA NextInv ==
  ASSUME PeersInv, [Next]_vars
  PROVE  PeersInv'
<1>. USE DEF managerVars, netVars, ghosts
<1>1. ASSUME NEW c \in Conn, HandshakeArrives(c) \/ Blacklist(c) \/ Ends(c)
      PROVE  PeersInv'
  BY <1>1, HandlerInv
<1>2. ASSUME NEW c \in Conn, Receive(c) PROVE PeersInv'
  BY <1>2, ReceiveInv
<1>3. ASSUME NEW c \in Conn, NEW n \in Node, Incoming(c, n) PROVE PeersInv'
  BY <1>3, OpenedInv DEF Incoming
<1>4. ASSUME NEW c \in Conn, NEW n \in Node, DialSucceeds(c, n) PROVE PeersInv'
  <2>1. Listen[n] \in Listening
    BY <1>4 DEF DialSucceeds, PeersInv, TypeOK
  <2>. QED
    BY <1>4, <2>1, OpenedInv DEF DialSucceeds
<1>5. ASSUME NEW a \in Listening, DialFails(a) PROVE PeersInv'
  BY <1>5, OtherInv DEF DialFails, PeersInv, TypeOK, Known
<1>6. ASSUME NEW a \in Listening, ConnectTo(a) PROVE PeersInv'
  BY <1>6, OtherInv DEF ConnectTo, PeersInv, TypeOK, Known
<1>7. ASSUME NEW a \in Listening, Learn(a) PROVE PeersInv'
  BY <1>7, AddedTypes, OtherInv DEF Learn, PeersInv, TypeOK
<1>8. ASSUME NEW a \in Listening, TimePasses(a) PROVE PeersInv'
  BY <1>8, OtherInv DEF TimePasses, IsBlacklisted, PeersInv, TypeOK, Known
<1>9. ASSUME NEW a \in Listening, DialFailed(a) PROVE PeersInv'
  <2>1. ConnsOK' /\ InboxOK'
    BY <1>9 DEF DialFailed, PeersInv, ConnsOK, InboxOK
  <2>. QED
    BY <1>9, <2>1, DisconnectedInv DEF DialFailed
<1>10. ASSUME NEW a \in Listening, AddOrUpdatePeer(a) PROVE PeersInv'
  BY <1>10, AddedTypes, OtherInv DEF AddOrUpdatePeer, PeersInv, TypeOK
<1>11. CASE CheckPeers
  <2>1. KnownPeers \subseteq Listening
    BY DEF KnownPeers, PeersInv, TypeOK
  <2>. QED
    BY <1>11, <2>1, OtherInv DEF CheckPeers, PeersInv, TypeOK, Known
<1>12. CASE UNCHANGED vars
  BY <1>12, OtherInv DEF vars, PeersInv, TypeOK, Known
<1>. QED
  BY <1>1, <1>2, <1>3, <1>4, <1>5, <1>6, <1>7, <1>8, <1>9, <1>10, <1>11, <1>12 DEF Next
-----------------------------------------------------------------------------
\* Types; entries are of connections from their address, and never of the node
\* itself (PeerManager.scala:108).
THEOREM TypesHold == Spec => []TypeOK
<1>1. PeersInv => TypeOK
  BY DEF PeersInv
<1>. QED
  BY InitInv, NextInv, <1>1, PTL DEF Spec

\* A node is listed once, however many connections to it there are
\* (PeerManager.scala:93-112).
THEOREM NodeListedOnce == Spec => []OneEntryPerNode
<1>1. PeersInv => OneEntryPerNode
  BY DEF PeersInv
<1>. QED
  BY InitInv, NextInv, <1>1, PTL DEF Spec

\* A handshake is kept with a connection of its node, as long as none came while
\* another connection awaited its own (PeerManager.scala:93-112).
THEOREM HandshakesKept == Spec => []RightHandshake
<1>1. PeersInv => RightHandshake
  BY DEF PeersInv
<1>. QED
  BY InitInv, NextInv, <1>1, PTL DEF Spec

\* Only the end of its time takes an address off the blacklist, whatever peers
\* tell and the PeerManager asks (PeerDatabaseImpl.scala:23-44, 56-68).
THEOREM BlacklistIsKept == Spec => BlacklistHolds
<1>. DEFINE Held ==
       \A a \in Known : IsBlacklisted(a) => peersPersistence'[a] \in {"blacklisted", "over"}
<1>1. ASSUME [Next]_vars PROVE [Held]_vars
  <2>. SUFFICES ASSUME Next, NEW a \in Known, IsBlacklisted(a)
                PROVE  peersPersistence'[a] \in {"blacklisted", "over"}
    BY <1>1
  <2>. USE DEF Known, IsBlacklisted, managerVars, netVars, ghosts
  <2>1. ASSUME NEW c \in Conn, Receive(c) PROVE peersPersistence'[a] = "blacklisted"
    BY <2>1 DEF Receive, Connected, Handshaked, AddToBlacklist, AfterAsking, Blacklisted
  <2>2. ASSUME NEW b, Learn(b) \/ AddOrUpdatePeer(b) PROVE peersPersistence'[a] = "blacklisted"
    BY <2>2 DEF Learn, AddOrUpdatePeer, AddedOrUpdated, With
  <2>3. ASSUME NEW b, TimePasses(b) PROVE peersPersistence'[a] \in {"blacklisted", "over"}
    BY <2>3 DEF TimePasses
  <2>4. ASSUME UNCHANGED peersPersistence PROVE peersPersistence'[a] = "blacklisted"
    BY <2>4
  <2>. QED
    BY <2>1, <2>2, <2>3, <2>4 DEF Next, HandshakeArrives, Blacklist, Ends, Incoming,
       DialSucceeds, Opened, DialFails, ConnectTo, DialFailed, CheckPeers
<1>2. BlacklistHolds <=> [][Held]_vars
  BY PTL DEF BlacklistHolds
<1>. QED
  BY <1>1, <1>2, PTL DEF Spec
=============================================================================
