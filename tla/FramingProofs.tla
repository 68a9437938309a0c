---------------------------- MODULE FramingProofs ----------------------------
(* The inductive invariant of Framing.tla, its properties for every set of   *)
(* packets, read size and base of the length, and the pipe that it implements.*)
EXTENDS PacketProofs

(* s is a and b together. *)
Together(T, s, a, b) == a \in Seq(T) /\ b \in Seq(T) /\ s = a \o b

(* The two parts are found again, at their lengths.                          *)
LEMMA CutOf ==
    ASSUME NEW T, NEW a, NEW b, NEW s, Together(T, s, a, b)
    PROVE  /\ s \in Seq(T) /\ Len(s) = Len(a) + Len(b) /\ Len(a) \in Nat /\ Len(b) \in Nat
           /\ SubSeq(s, 1, Len(a)) = a /\ SubSeq(s, Len(a) + 1, Len(s)) = b
PROOF
<1>1. a \in Seq(T) /\ b \in Seq(T) /\ s = a \o b
  BY DEF Together
<1>2. Len(a) \in Nat /\ Len(b) \in Nat
  BY <1>1
<1>3. /\ a \o b \in Seq(T) /\ Len(a \o b) = Len(a) + Len(b)
      /\ SubSeq(a \o b, 1, Len(a)) = a /\ SubSeq(a \o b, Len(a) + 1, Len(a \o b)) = b
  BY <1>1, Cut
<1> QED BY <1>1, <1>2, <1>3

(* What the longer front has more than the shorter one.                      *)
Between(a, c) == SubSeq(c, Len(a) + 1, Len(c))

(* One string in two ways: the longer front holds the shorter one, and the   *)
(* shorter end is the end of the longer one.                                 *)
LEMMA Split ==
    ASSUME NEW T, NEW a, NEW b, NEW c, NEW d, NEW s,
           Together(T, s, a, b), Together(T, s, c, d), Len(a) <= Len(c)
    PROVE  Together(T, c, a, Between(a, c)) /\ Together(T, b, Between(a, c), d)
PROOF
<1> DEFINE n == Len(a)
           m == Len(c)
           t == SubSeq(c, n + 1, m)
<1>1. s \in Seq(T) /\ SubSeq(s, 1, n) = a /\ SubSeq(s, n + 1, Len(s)) = b
      /\ Len(s) = n + Len(b) /\ n \in Nat /\ Len(b) \in Nat
  BY CutOf
<1>2. SubSeq(s, 1, m) = c /\ SubSeq(s, m + 1, Len(s)) = d /\ Len(s) = m + Len(d)
      /\ m \in Nat /\ Len(d) \in Nat
  BY CutOf
<1> DEFINE k == Len(s)
<1>3. n <= m /\ m <= k /\ k \in Nat
  <2>1. n <= m
    OBVIOUS
  <2> HIDE DEF n, m
  <2> QED BY <1>1, <1>2, <2>1
<1>4. t \in Seq(T)
  <2>1. \A i \in n + 1 .. m : c[i] \in T
    <3>1. c \in [1 .. m -> T]
      <4>1. c \in Seq(T)
        BY DEF Together
      <4> QED BY <4>1
    <3> HIDE DEF n, m
    <3> QED BY <1>1, <1>2, <3>1
  <2> HIDE DEF n, m
  <2> QED BY <1>1, <1>2, <2>1, SubSeqProperties
<1> HIDE DEF n, m, k
<1>5. SubSeq(s, n + 1, m) = t
  <2> DEFINE u == SubSeq(s, n + 1, m)
             l == m - n
  <2>1. l \in Nat /\ n + 1 \in Int /\ m \in Int
    BY <1>1, <1>2, <1>3
  <2>2. \A i \in n + 1 .. m : s[i] \in T /\ s[i] = c[i] /\ c[i] \in T
    <3>1. \A i \in n + 1 .. m : i \in 1 .. k /\ i \in 1 .. m
      BY <1>1, <1>2, <1>3
    <3>2. \A i \in 1 .. k : s[i] \in T
      BY <1>1 DEF k
    <3>3. \A i \in 1 .. m : s[i] = c[i]
      <4>1. c = SubSeq(s, 1, m)
        BY <1>2
      <4>2. \A i \in 1 .. m - 1 + 1 : SubSeq(s, 1, m)[i] = s[1 + i - 1]
        <5>1. \A i \in 1 .. m : s[i] \in T
          BY <1>2, <1>3, <3>2
        <5> QED BY <1>2, <5>1, SubSeqProperties
      <4>3. \A i \in 1 .. m : i \in 1 .. m - 1 + 1 /\ 1 + i - 1 = i
        BY <1>2
      <4> QED BY <4>1, <4>2, <4>3
    <3>4. \A i \in 1 .. m : c[i] \in T
      BY <3>2, <3>3, <1>2, <1>3
    <3> QED BY <3>1, <3>2, <3>3, <3>4
  <2> HIDE DEF l
  <2>3. /\ u \in Seq(T) /\ Len(u) = (IF n + 1 <= m THEN m - (n + 1) + 1 ELSE 0)
        /\ \A i \in 1 .. m - (n + 1) + 1 : u[i] = s[n + 1 + i - 1]
    BY <2>1, <2>2, SubSeqProperties
  <2>4. /\ t \in Seq(T) /\ Len(t) = (IF n + 1 <= m THEN m - (n + 1) + 1 ELSE 0)
        /\ \A i \in 1 .. m - (n + 1) + 1 : t[i] = c[n + 1 + i - 1]
    BY <2>1, <2>2, SubSeqProperties
  <2>5. Len(u) = l /\ Len(t) = l
    BY <1>1, <1>2, <1>3, <2>3, <2>4 DEF l
  <2> HIDE DEF u, t
  <2>6. \A i \in 1 .. Len(u) : u[i] = t[i]
    <3>1. \A i \in 1 .. Len(u) : i \in 1 .. m - (n + 1) + 1 /\ n + 1 + i - 1 \in n + 1 .. m
      BY <1>1, <1>2, <1>3, <2>5 DEF l
    <3> QED BY <2>2, <2>3, <2>4, <3>1
  <2>7. u = t
    BY <2>3, <2>4, <2>5, <2>6, SeqEqual
  <2> QED BY <2>7 DEF u
<1>6. SubSeq(s, 1, n) \o SubSeq(s, n + 1, m) = SubSeq(s, 1, m)
  <2>1. 1 \in 1 .. Len(s) + 1 /\ n \in 1 - 1 .. Len(s) /\ m \in n .. Len(s)
    BY <1>1, <1>2, <1>3 DEF k
  <2> QED BY <1>1, <2>1, ConcatAdjacentSubSeq
<1>7. SubSeq(s, n + 1, m) \o SubSeq(s, m + 1, k) = SubSeq(s, n + 1, k)
  <2>1. n + 1 \in 1 .. Len(s) + 1 /\ m \in (n + 1) - 1 .. Len(s) /\ Len(s) \in m .. Len(s)
    BY <1>1, <1>2, <1>3 DEF k
  <2> QED BY <1>1, <2>1, ConcatAdjacentSubSeq DEF k
<1>8. c = a \o t /\ b = t \o d
  BY <1>1, <1>2, <1>5, <1>6, <1>7 DEF k
<1>9. t = Between(a, c)
  BY DEF Between, n, m
<1>10. a \in Seq(T) /\ d \in Seq(T)
  BY DEF Together
<1> HIDE DEF t
<1> QED BY <1>4, <1>8, <1>9, <1>10 DEF Together

(* The front of a sequence has its elements.                                 *)
LEMMA FrontOf ==
    ASSUME NEW T, NEW a \in Seq(T), NEW b \in Seq(T)
    PROVE  \A i \in 1 .. Len(a) : (a \o b)[i] = a[i]
PROOF OBVIOUS

(* The packet at the front, and the bytes after it.                          *)
Found(p, rest) == {[packet |-> {p}, rest |-> rest]}

(* A whole packet is found, whatever follows it.                             *)
LEMMA ExtractWhole ==
    ASSUME NEW p, StandardPacket(p), NEW more \in Seq(Byte)
    PROVE  /\ Len(StandardBytes(p)) >= 2
           /\ extract_packet(StandardBytes(p) \o more) = Found(p, more)
PROOF
<1> DEFINE src == StandardBytes(p)
           body == StandardBody(p)
           l == Len(body)
           n == Len(src)
           all == src \o more
<1>1. /\ src \in Seq(Byte) /\ body \in Seq(Byte) /\ l \in Nat
      /\ Digits(l) \in 1 .. MaxLengthBytes /\ n = 1 + Digits(l) + l
  BY BytesFacts
<1>2. PICK h : /\ IsHeader(h, p.type, StandardFlags(p), l, body \o more)
               /\ decode_fixed_header(all) = {h}
  <2>1. decode_fixed_header(all) = HeaderOf(p.type, StandardFlags(p), l, body \o more)
    BY HeaderOfBytes
  <2> HIDE DEF all, body, l
  <2> QED BY <2>1, HeaderIs
<1>3. decode(src) = {p}
  BY PacketDecodes
<1> HIDE DEF src, body
<1>4. Len(body \o more) = l + Len(more) /\ Len(more) \in Nat
  BY <1>1, Cut
<1>5. /\ all \in Seq(Byte) /\ Len(all) = n + Len(more)
      /\ SubSeq(all, 1, n) = src /\ SubSeq(all, n + 1, Len(all)) = more
  <2>1. Together(Byte, all, src, more)
    BY <1>1 DEF Together
  <2> QED BY <2>1, CutOf
<1> HIDE DEF l, n, all
<1>6. n >= 2 /\ n \in Nat
  BY <1>1, CodecAssumption
<1>7. total_len(all, h) = n
  <2>1. h.rest = body \o more /\ h.remaining_length = l
    BY <1>2 DEF IsHeader
  <2>2. total_len(all, h) = Len(all) - Len(body \o more) + l
    BY <2>1 DEF total_len
  <2> QED BY <1>1, <1>4, <1>5, <1>6, <2>2
<1>8. Complete(all, total_len(all, h)) /\ ~(Len(all) < 2)
  BY <1>4, <1>5, <1>6, <1>7 DEF Complete
<1> DEFINE split == split_to(all, n)
           r == [packet |-> decode(split.taken), rest |-> split.rest]
<1>9. split.taken = src /\ split.rest = more
  BY <1>5 DEF split_to
<1>10. extract_packet(all) = {r}
  <2> DEFINE whole == {x \in decode_fixed_header(all) : Complete(all, total_len(all, x))}
             splits == {split_to(all, total_len(all, x)) : x \in whole}
  <2>1. whole = {h}
    BY <1>2, <1>8
  <2>2. splits = {split}
    <3> HIDE DEF whole, split
    <3>1. split_to(all, total_len(all, h)) = split
      BY <1>7 DEF split
    <3> QED BY <2>1, <3>1
  <2>3. extract_packet(all) = {[packet |-> decode(x.taken), rest |-> x.rest] : x \in splits}
    <3>1. decode_fixed_header(all) # {}
      BY <1>2
    <3> QED BY <1>8, <3>1 DEF extract_packet
  <2> HIDE DEF splits, split
  <2> QED BY <2>2, <2>3
<1>11. r = [packet |-> {p}, rest |-> more]
  BY <1>3, <1>9
<1> HIDE DEF r
<1>12. extract_packet(all) = Found(p, more)
  BY <1>10, <1>11 DEF Found
<1> QED BY <1>6, <1>12 DEF all, n, src

(* The bytes end inside a remaining length.                                  *)
InLength(bytes) ==
    Len(bytes) \in 2 .. MaxLengthBytes /\ \A i \in 2 .. Len(bytes) : bytes[i] >= LengthBase

(* In less than a packet none is found yet, or the bytes end in the length.  *)
LEMMA ExtractPart ==
    ASSUME NEW p, StandardPacket(p), NEW a, NEW b,
           Together(Byte, StandardBytes(p), a, b), Len(a) < Len(StandardBytes(p))
    PROVE  \/ extract_packet(a) = {}
           \/ extract_packet(a) = {[packet |-> {}, rest |-> a]} /\ InLength(a)
PROOF
<1> DEFINE src == StandardBytes(p)
           body == StandardBody(p)
           flags == StandardFlags(p)
           l == Len(body)
           head == HeaderBytes(p.type, flags, l)
           digits == StandardLength(l)
           x == 16 * TypeCode(p.type) + flags
           n == Len(a)
<1>1. /\ src \in Seq(Byte) /\ body \in Seq(Byte) /\ l \in Nat
      /\ p.type \in Types /\ flags \in 0 .. 15
      /\ Digits(l) \in 1 .. MaxLengthBytes /\ Len(src) = 1 + Digits(l) + l
      /\ head \in Seq(Byte) /\ src = head \o body
  BY BytesFacts
<1>2. Len(head) = 1 + Digits(l)
  BY <1>1, HeaderFacts
<1>3. Together(Byte, src, a, b)
  OBVIOUS
<1>4. a \in Seq(Byte) /\ b \in Seq(Byte)
  BY DEF Together
<1>5. Together(Byte, src, head, body)
  BY <1>1 DEF Together
<1>6. n \in Nat /\ n < 1 + Digits(l) + l
  <2>1. n \in Nat
    BY <1>4
  <2>2. n < Len(src)
    OBVIOUS
  <2> HIDE DEF n, src, l
  <2> QED BY <1>1, <2>1, <2>2
<1>7. CASE n < 2
  BY <1>7 DEF extract_packet
<1>8. CASE n >= 2 /\ n >= 1 + Digits(l)
  <2>1. Len(head) <= Len(a)
    <3> HIDE DEF head, body, src
    <3> QED BY <1>1, <1>2, <1>6, <1>8
  <2> DEFINE t == Between(head, a)
  <2>2. a = head \o t /\ t \in Seq(Byte)
    <3>1. Together(Byte, a, head, t)
      <4> HIDE DEF head, body, src, n
      <4> QED BY <1>3, <1>5, <2>1, Split
    <3> QED BY <3>1 DEF Together
  <2> HIDE DEF t
  <2>3. PICK h : /\ IsHeader(h, p.type, flags, l, t)
                 /\ decode_fixed_header(head \o t) = {h}
    <3> DEFINE type == p.type
    <3>1. type \in Types /\ flags \in 0 .. 15 /\ l \in Nat /\ t \in Seq(Byte)
      BY <1>1, <2>2
    <3>2. Digits(l) <= MaxLengthBytes
      BY <1>1, CodecAssumption
    <3> HIDE DEF type, flags, l, head, body, src
    <3>3. decode_fixed_header(HeaderBytes(type, flags, l) \o t) = HeaderOf(type, flags, l, t)
      BY <3>1, <3>2, HeaderIsRead
    <3>4. decode_fixed_header(head \o t) = HeaderOf(type, flags, l, t)
      BY <3>3 DEF head, type
    <3> QED BY <3>4, HeaderIs DEF type
  <2>4. total_len(a, h) = 1 + Digits(l) + l
    <3>1. h.rest = t /\ h.remaining_length = l
      BY <2>3 DEF IsHeader
    <3>2. Len(head \o t) = Len(head) + Len(t)
      <4>1. head \in Seq(Byte)
        BY <1>1
      <4> HIDE DEF head
      <4> QED BY <2>2, <4>1, Cut
    <3> HIDE DEF head
    <3>3. Len(a) = 1 + Digits(l) + Len(t) /\ Len(t) \in Nat
      <4>1. Len(t) \in Nat
        BY <2>2
      <4> QED BY <1>2, <2>2, <3>2, <4>1
    <3> HIDE DEF l
    <3>4. total_len(a, h) = Len(a) - Len(t) + l
      BY <3>1 DEF total_len
    <3>5. Digits(l) \in Nat /\ l \in Nat
      BY <1>1, CodecAssumption
    <3> QED BY <3>3, <3>4, <3>5
  <2>5. ~Complete(a, total_len(a, h))
    <3>1. Digits(l) \in Nat /\ l \in Nat
      BY <1>1, CodecAssumption
    <3> HIDE DEF l
    <3> QED BY <1>6, <2>4, <3>1 DEF Complete
  <2>6. decode_fixed_header(a) = {h}
    BY <2>2, <2>3
  <2>7. {y \in decode_fixed_header(a) : Complete(a, total_len(a, y))} = {}
    BY <2>5, <2>6
  <2>8. extract_packet(a) = {}
    <3>1. ~(Len(a) < 2) /\ decode_fixed_header(a) # {}
      BY <1>6, <1>8, <2>6
    <3> QED BY <2>7, <3>1 DEF extract_packet
  <2> QED BY <2>8
<1>9. CASE n >= 2 /\ n < 1 + Digits(l)
  <2> DEFINE t == Between(a, head)
  <2>1. head = a \o t /\ t \in Seq(Byte)
    <3>1. Len(a) <= Len(head)
      <4>1. Digits(l) \in Nat
        BY <1>1, CodecAssumption
      <4> HIDE DEF head, body, src, l
      <4> QED BY <1>1, <1>2, <1>6, <1>9, <4>1
    <3>2. Together(Byte, head, a, t)
      <4> HIDE DEF head, body, src, n
      <4> QED BY <1>3, <1>5, <3>1, Split
    <3> QED BY <3>2 DEF Together
  <2> HIDE DEF t
  <2>2. /\ x \in Byte /\ x \div 16 \in DOMAIN PacketType
    BY <1>1, FirstByte, TypeFacts
  <2>3. /\ digits \in Seq(Byte) /\ Len(digits) = Digits(l)
        /\ \A i \in 1 .. Digits(l) : digits[i] >= LengthBase <=> i < Digits(l)
    BY <1>1, LengthBytes
  <2>4. head = <<x>> \o digits
    BY DEF HeaderBytes
  <2> HIDE DEF x, digits, head
  <2>5. head[1] = x /\ \A i \in 1 .. Len(digits) : head[i + 1] = digits[i]
    <3>1. digits \in Seq(Byte)
      BY <2>3
    <3> DEFINE c == <<x>>
    <3>2. c \in Seq(Byte) /\ Len(c) = 1 /\ c[1] = x
      BY <2>2
    <3> HIDE DEF c
    <3>3. \A i \in 1 .. Len(c) + Len(digits) :
              (c \o digits)[i] = IF i <= Len(c) THEN c[i] ELSE digits[i - Len(c)]
      BY <3>1, <3>2, ConcatProperties
    <3>4. head = c \o digits /\ Len(digits) \in Nat
      BY <2>4, <3>1 DEF c
    <3>5. 1 \in 1 .. Len(c) + Len(digits) /\ 1 <= Len(c)
      BY <3>2, <3>4
    <3>6. \A i \in 1 .. Len(digits) : i + 1 \in 1 .. Len(c) + Len(digits) /\ ~(i + 1 <= Len(c))
                                     /\ (i + 1) - Len(c) = i
      BY <3>2, <3>4
    <3>7. head[1] = x
      BY <3>2, <3>3, <3>4, <3>5
    <3>8. ASSUME NEW i \in 1 .. Len(digits)
          PROVE  head[i + 1] = digits[i]
      BY <3>3, <3>4, <3>6
    <3> QED BY <3>7, <3>8
  <2>6. \A i \in 1 .. n : head[i] = a[i]
    BY <1>4, <2>1, FrontOf
  <2>7. a[1] = x /\ \A i \in 2 .. n : a[i] >= LengthBase
    <3>1. a[1] = x
      BY <1>6, <1>9, <2>5, <2>6
    <3>2. ASSUME NEW i \in 2 .. n
          PROVE  a[i] >= LengthBase
      <4> DEFINE k == i - 1
      <4>1. k \in 1 .. Digits(l) /\ k < Digits(l) /\ i = k + 1 /\ i \in 1 .. n
        BY <1>1, <1>6, <1>9, CodecAssumption
      <4>2. head[k + 1] = digits[k] /\ digits[k] >= LengthBase
        BY <2>3, <2>5, <4>1
      <4> QED BY <2>6, <4>1, <4>2
    <3> QED BY <3>1, <3>2
  <2>8. decode_remaining_length(Tail(a)) = {}
    <3>1. a # <<>>
      BY <1>6, <1>9
    <3> DEFINE t2 == Tail(a)
    <3>2. t2 \in Seq(Byte) /\ Len(t2) = n - 1 /\ \A i \in 1 .. Len(t2) : t2[i] = a[i + 1]
      BY <1>4, <3>1, HeadTailProperties
    <3> HIDE DEF t2
    <3>3. \A i \in 1 .. Len(t2) : t2[i] >= LengthBase
      <4>1. \A i \in 1 .. Len(t2) : i + 1 \in 2 .. n
        BY <1>6, <3>2
      <4> HIDE DEF n
      <4> QED BY <2>7, <3>2, <4>1
    <3> QED BY <3>2, <3>3, LengthIsCutOff DEF t2
  <2>9. decode_fixed_header(a) = {}
    BY <2>8 DEF decode_fixed_header
  <2>10. extract_packet(a) = {[packet |-> {}, rest |-> a]}
    <3>1. ~(Len(a) < 2)
      BY <1>6, <1>9
    <3> QED BY <2>9, <3>1 DEF extract_packet
  <2>11. InLength(a)
    <3>1. n \in 2 .. MaxLengthBytes
      BY <1>1, <1>6, <1>9, CodecAssumption
    <3> QED BY <2>7, <3>1 DEF InLength
  <2> QED BY <2>10, <2>11
<1>10. n < 2 \/ (n >= 2 /\ n >= 1 + Digits(l)) \/ (n >= 2 /\ n < 1 + Digits(l))
  <2>1. Digits(l) \in Nat
    BY <1>1, CodecAssumption
  <2> QED BY <1>6, <2>1
<1> QED BY <1>7, <1>8, <1>9, <1>10

------------------------------------------------------------------------------
(* The packets of a sequence as bytes.                                       *)
StringsOf(packets) == [i \in 1 .. Len(packets) |-> StandardBytes(packets[i])]

(* One string for each packet, which are packets of the standard.            *)
LEMMA StringsFacts ==
    ASSUME NEW s \in Seq(ClientPackets)
    PROVE  /\ StringsOf(s) \in Seq(Seq(Byte)) /\ Len(StringsOf(s)) = Len(s) /\ Len(s) \in Nat
           /\ \A i \in 1 .. Len(s) :
                  /\ s[i] \in ClientPackets /\ StandardPacket(s[i])
                  /\ StringsOf(s)[i] = StandardBytes(s[i])
                  /\ StandardBytes(s[i]) \in Seq(Byte)
PROOF
<1> DEFINE n == Len(s)
           t == StringsOf(s)
<1>1. n \in Nat /\ \A i \in 1 .. n : s[i] \in ClientPackets
  OBVIOUS
<1>2. \A i \in 1 .. n : StandardPacket(s[i])
  BY <1>1, ClientAssumption
<1>3. \A i \in 1 .. n : StandardBytes(s[i]) \in Seq(Byte)
  BY <1>2, BytesFacts
<1> HIDE DEF n
<1>4. t \in [1 .. n -> Seq(Byte)] /\ \A i \in 1 .. n : t[i] = StandardBytes(s[i])
  BY <1>3 DEF StringsOf, n
<1> HIDE DEF t
<1>5. t \in Seq(Seq(Byte)) /\ Len(t) = n
  BY <1>1, <1>4
<1> QED BY <1>1, <1>2, <1>3, <1>4, <1>5 DEF n, t

(* One packet more.                                                          *)
LEMMA StringsAppend ==
    ASSUME NEW s \in Seq(ClientPackets), NEW p \in ClientPackets
    PROVE  StringsOf(Append(s, p)) = Append(StringsOf(s), StandardBytes(p))
PROOF
<1> DEFINE n == Len(s)
           s2 == Append(s, p)
           x == StandardBytes(p)
           t == StringsOf(s)
           a == StringsOf(s2)
           b == Append(t, x)
<1>1. /\ s2 \in Seq(ClientPackets) /\ Len(s2) = n + 1 /\ s2[n + 1] = p /\ n \in Nat
      /\ \A i \in 1 .. n : s2[i] = s[i]
  OBVIOUS
<1>2. t \in Seq(Seq(Byte)) /\ Len(t) = n /\ \A i \in 1 .. n : t[i] = StandardBytes(s[i])
  BY StringsFacts
<1> HIDE DEF s2
<1>3. a \in Seq(Seq(Byte)) /\ Len(a) = n + 1 /\ \A i \in 1 .. n + 1 : a[i] = StandardBytes(s2[i])
  BY <1>1, StringsFacts
<1>4. x \in Seq(Byte)
  <2>1. StandardPacket(p)
    BY ClientAssumption
  <2> QED BY <2>1, BytesFacts
<1> HIDE DEF x, t, a
<1>5. b \in Seq(Seq(Byte)) /\ Len(b) = n + 1 /\ b[n + 1] = x /\ \A i \in 1 .. n : b[i] = t[i]
  <2>1. t \in Seq(Seq(Byte)) /\ Len(t) = n
    BY <1>2
  <2> HIDE DEF n
  <2> QED BY <1>4, <2>1
<1> HIDE DEF b, n
<1>6. ASSUME NEW i \in 1 .. n + 1
      PROVE  a[i] = b[i]
  <2>1. i \in 1 .. n \/ i = n + 1
    BY <1>1
  <2>2. a[i] = StandardBytes(s2[i])
    BY <1>3
  <2>3. CASE i \in 1 .. n
    BY <1>1, <1>2, <1>5, <2>2, <2>3
  <2>4. CASE i = n + 1
    BY <1>1, <1>5, <2>2, <2>4 DEF x
  <2> QED BY <2>1, <2>3, <2>4
<1>7. a = b
  BY <1>3, <1>5, <1>6, SeqEqual
<1> QED BY <1>7 DEF a, b, s2, t, x

(* What is left of a sequence with an element more.                          *)
LEMMA FromAppend ==
    ASSUME NEW T, NEW s \in Seq(T), NEW x \in T, NEW j \in 0 .. Len(s)
    PROVE  From(Append(s, x), j) = Append(From(s, j), x)
PROOF
<1> DEFINE n == Len(s)
           s2 == Append(s, x)
           t == From(s, j)
           a == From(s2, j)
           b == Append(t, x)
<1>1. /\ s2 \in Seq(T) /\ Len(s2) = n + 1 /\ s2[n + 1] = x /\ n \in Nat
      /\ \A i \in 1 .. n : s2[i] = s[i]
  OBVIOUS
<1>2. j \in Nat /\ j <= n
  BY <1>1
<1> HIDE DEF n
<1>3. t \in Seq(T) /\ Len(t) = n - j /\ \A i \in 1 .. n - j : t[i] = s[j + i]
  <2>1. t \in Seq(T) /\ Len(t) = n - j
    BY FromFacts DEF n
  <2>2. \A i \in 1 .. n - j : t[i] = s[j + i]
    BY DEF From, n
  <2> QED BY <2>1, <2>2
<1> HIDE DEF s2
<1>4. a \in Seq(T) /\ Len(a) = n + 1 - j /\ \A i \in 1 .. n + 1 - j : a[i] = s2[j + i]
  <2>1. j \in 0 .. Len(s2)
    BY <1>1, <1>2
  <2>2. a \in Seq(T) /\ Len(a) = n + 1 - j
    BY <1>1, <2>1, FromFacts
  <2>3. \A i \in 1 .. n + 1 - j : a[i] = s2[j + i]
    BY <1>1 DEF From
  <2> QED BY <2>2, <2>3
<1> DEFINE m == n - j
<1>5. m \in Nat
  BY <1>1, <1>2
<1>6. n + 1 - j = m + 1 /\ j + (m + 1) = n + 1
  BY <1>1, <1>2
<1> HIDE DEF t, a, m
<1>7. b \in Seq(T) /\ Len(b) = m + 1 /\ b[m + 1] = x /\ \A i \in 1 .. m : b[i] = t[i]
  <2>1. t \in Seq(T) /\ Len(t) = m
    BY <1>3 DEF m
  <2> QED BY <2>1
<1> HIDE DEF b
<1>8. \A i \in 1 .. m + 1 : a[i] = b[i]
  <2>1. a[m + 1] = b[m + 1]
    <3>1. m + 1 \in 1 .. n + 1 - j
      BY <1>5, <1>6
    <3> QED BY <1>1, <1>4, <1>6, <1>7, <3>1
  <2>2. ASSUME NEW i \in 1 .. m
        PROVE  a[i] = b[i]
    <3>1. i \in 1 .. n + 1 - j /\ i \in 1 .. n - j /\ j + i \in 1 .. n
      BY <1>1, <1>2, <1>5, <1>6 DEF m
    <3> QED BY <1>1, <1>3, <1>4, <1>7, <3>1
  <2> QED BY <1>5, <2>1, <2>2
<1>9. a = b
  BY <1>4, <1>6, <1>7, <1>8, SeqEqual
<1> QED BY <1>9 DEF a, b, s2, t

------------------------------------------------------------------------------
(* What is left to be handled, as strings and as one string.                 *)
Left == From(StringsOf(sent), Len(handled))

(* Where the bytes of a connection are.                                      *)
Conserved ==
    IF transport = "tcp" THEN Together(Byte, FlattenSeq(Left), buf, wire)
                         ELSE wire = Left /\ buf = <<>>

(* The packets are handled in turn.                                          *)
InTurn ==
    /\ sent \in Seq(ClientPackets) /\ Len(sent) <= MaxSent
    /\ handled \in Seq(ClientPackets) /\ Len(handled) <= Len(sent)
    /\ \A i \in 1 .. Len(handled) : handled[i] = sent[i]

(* Less than the next packet is in the buffer.                               *)
Lacks == IF Len(handled) + 1 \in 1 .. Len(sent)
         THEN Len(buf) < Len(StandardBytes(sent[Len(handled) + 1]))
         ELSE buf = <<>>

(* The inductive invariant: the bytes are conserved, and while the loop waits*)
(* for the socket it has less than the next packet.                          *)
FramingInv ==
    /\ transport \in Transports /\ finished \in BOOLEAN
    /\ pc \in {"select", "extract", "failed", "ended", "reset"}
    /\ (pc = "extract" => transport = "tcp")
    /\ InTurn
    /\ Conserved
    /\ (transport = "tcp" /\ pc = "select" => Lacks)
    /\ (pc = "failed" => transport = "tcp" /\ InLength(buf))

(* It holds at first.                                                        *)
LEMMA InitInv == Init => FramingInv
PROOF
<1> SUFFICES ASSUME Init
             PROVE  FramingInv
  OBVIOUS
<1>1. /\ sent = <<>> /\ wire = <<>> /\ buf = <<>> /\ handled = <<>> /\ Len(<<>>) = 0
      /\ transport \in Transports /\ finished = FALSE /\ pc = "select"
  BY DEF Init
<1>2. InTurn
  BY <1>1, FramingAssumption DEF InTurn
<1>3. <<>> \in Seq(Byte) /\ <<>> \o <<>> = <<>>
  OBVIOUS
<1>4. Left = <<>>
  BY <1>1 DEF Left, From, StringsOf
<1>5. FlattenSeq(<<>>) = <<>>
  <2> DEFINE none == <<>>
  <2>1. none \in Seq(Seq(Byte))
    OBVIOUS
  <2> HIDE DEF none
  <2>2. none = <<>> => FlattenSeq(none) = <<>>
    BY <2>1, FlattenFacts
  <2> QED BY <2>2 DEF none
<1>6. Conserved
  BY <1>1, <1>3, <1>4, <1>5 DEF Conserved, Together
<1>7. Lacks
  BY <1>1 DEF Lacks
<1> QED BY <1>1, <1>2, <1>6, <1>7 DEF FramingInv

(* The sequences of InTurn, and what is left.                                *)
LEMMA LeftFacts ==
    ASSUME InTurn
    PROVE  /\ Len(sent) \in Nat /\ Len(handled) \in Nat /\ Len(handled) \in 0 .. Len(sent)
           /\ StringsOf(sent) \in Seq(Seq(Byte)) /\ Len(StringsOf(sent)) = Len(sent)
           /\ Left \in Seq(Seq(Byte)) /\ Len(Left) = Len(sent) - Len(handled)
           /\ FlattenSeq(Left) \in Seq(Byte)
PROOF
<1> USE DEF InTurn
<1>1. Len(sent) \in Nat /\ Len(handled) \in Nat
  OBVIOUS
<1>2. Len(handled) \in 0 .. Len(sent)
  BY <1>1
<1>3. StringsOf(sent) \in Seq(Seq(Byte)) /\ Len(StringsOf(sent)) = Len(sent)
  BY StringsFacts
<1>4. Left \in Seq(Seq(Byte)) /\ Len(Left) = Len(sent) - Len(handled)
  BY <1>2, <1>3, FromFacts DEF Left
<1>5. FlattenSeq(Left) \in Seq(Byte)
  BY <1>4, FlattenFacts
<1> QED BY <1>1, <1>2, <1>3, <1>4, <1>5

(* The next packet, if there is one.                                         *)
LEMMA NextFacts ==
    ASSUME InTurn, Len(handled) < Len(sent)
    PROVE  LET p == sent[Len(handled) + 1]
               more == From(StringsOf(sent), Len(handled) + 1)
           IN /\ Len(handled) + 1 \in 1 .. Len(sent)
              /\ p \in ClientPackets /\ StandardPacket(p) /\ StandardBytes(p) \in Seq(Byte)
              /\ more \in Seq(Seq(Byte)) /\ FlattenSeq(more) \in Seq(Byte)
              /\ Left = <<StandardBytes(p)>> \o more
              /\ FlattenSeq(Left) = StandardBytes(p) \o FlattenSeq(more)
PROOF
<1> DEFINE h == Len(handled)
           j == h + 1
           s == StringsOf(sent)
           p == sent[j]
<1>1. h \in Nat /\ Len(sent) \in Nat /\ j \in 1 .. Len(sent) /\ j - 1 = h
  BY LeftFacts
<1>2. sent \in Seq(ClientPackets)
  BY DEF InTurn
<1> HIDE DEF j
<1>3. /\ p \in ClientPackets /\ StandardPacket(p) /\ StandardBytes(p) \in Seq(Byte)
      /\ s[j] = StandardBytes(p) /\ s \in Seq(Seq(Byte)) /\ Len(s) = Len(sent)
  BY <1>1, <1>2, StringsFacts
<1> HIDE DEF s, p
<1>4. /\ From(s, j) \in Seq(Seq(Byte)) /\ From(s, h) = <<s[j]>> \o From(s, j)
  <2>1. j \in 0 .. Len(s) /\ j \in 1 .. Len(s)
    BY <1>1, <1>3
  <2>2. From(s, j - 1) = <<s[j]>> \o From(s, j) /\ From(s, j) \in Seq(Seq(Byte))
    BY <1>3, <2>1, FromFacts
  <2> QED BY <1>1, <2>2
<1>5. /\ FlattenSeq(From(s, j)) \in Seq(Byte)
      /\ FlattenSeq(From(s, h)) = s[j] \o FlattenSeq(From(s, j))
  <2>1. j \in 1 .. Len(s)
    BY <1>1, <1>3
  <2>2. /\ FlattenSeq(From(s, j)) \in Seq(Byte)
        /\ FlattenSeq(From(s, j - 1)) = s[j] \o FlattenSeq(From(s, j))
    BY <1>3, <2>1, FlattenFrom
  <2> QED BY <1>1, <2>2
<1> QED BY <1>1, <1>3, <1>4, <1>5 DEF Left, j, s, p

------------------------------------------------------------------------------
(* What is left when the client has sent a packet more.                      *)
LEMMA LeftGrows ==
    ASSUME InTurn, NEW p \in ClientPackets
    PROVE  LET x == StandardBytes(p)
               left == From(StringsOf(Append(sent, p)), Len(handled))
           IN /\ StandardPacket(p) /\ x \in Seq(Byte)
              /\ left = Append(Left, x)
              /\ FlattenSeq(left) = FlattenSeq(Left) \o x
PROOF
<1> DEFINE x == StandardBytes(p)
           s == StringsOf(sent)
           h == Len(handled)
<1>1. StandardPacket(p)
  BY ClientAssumption
<1>2. x \in Seq(Byte)
  BY <1>1, BytesFacts
<1>3. /\ s \in Seq(Seq(Byte)) /\ Len(s) = Len(sent) /\ h \in 0 .. Len(sent)
      /\ Left \in Seq(Seq(Byte)) /\ From(s, h) = Left
  BY LeftFacts DEF Left
<1>4. StringsOf(Append(sent, p)) = Append(s, x)
  BY StringsAppend DEF InTurn
<1> HIDE DEF s, h, x
<1>5. From(Append(s, x), h) = Append(From(s, h), x)
  <2>1. h \in 0 .. Len(s)
    BY <1>3
  <2> QED BY <1>2, <1>3, <2>1, FromAppend
<1>6. FlattenSeq(Append(Left, x)) = FlattenSeq(Left) \o x
  BY <1>2, <1>3, FlattenAppend
<1> QED BY <1>1, <1>2, <1>3, <1>4, <1>5, <1>6 DEF x, h

(* Bytes that follow.                                                        *)
LEMMA TogetherMore ==
    ASSUME NEW T, NEW s, NEW a, NEW b, Together(T, s, a, b), NEW x \in Seq(T)
    PROVE  Together(T, s \o x, a, b \o x)
PROOF
<1>1. a \in Seq(T) /\ b \in Seq(T) /\ s = a \o b
  BY DEF Together
<1>2. (a \o b) \o x = a \o (b \o x)
  BY <1>1, ConcatAssociative
<1>3. b \o x \in Seq(T)
  BY <1>1
<1> QED BY <1>1, <1>2, <1>3 DEF Together

(* The front of the second part goes over to the first.                      *)
LEMMA TogetherMoves ==
    ASSUME NEW T, NEW s, NEW a, NEW b, Together(T, s, a, b), NEW n \in 0 .. Len(b)
    PROVE  Together(T, s, a \o SubSeq(b, 1, n), SubSeq(b, n + 1, Len(b)))
PROOF
<1> DEFINE c == SubSeq(b, 1, n)
           d == SubSeq(b, n + 1, Len(b))
<1>1. a \in Seq(T) /\ b \in Seq(T) /\ s = a \o b /\ Len(b) \in Nat
  BY DEF Together
<1>2. c \o d = b
  <2>1. 1 \in 1 .. Len(b) + 1 /\ n \in 1 - 1 .. Len(b) /\ Len(b) \in n .. Len(b)
    BY <1>1
  <2>2. c \o d = SubSeq(b, 1, Len(b))
    BY <1>1, <2>1, ConcatAdjacentSubSeq
  <2>3. SubSeq(b, 1, Len(b)) = b
    BY <1>1
  <2> QED BY <2>2, <2>3
<1>3. c \in Seq(T) /\ d \in Seq(T)
  <2>1. n \in Int /\ n + 1 \in Int /\ 1 \in Int /\ Len(b) \in Int
    BY <1>1
  <2>2. \A i \in 1 .. Len(b) : b[i] \in T
    BY <1>1
  <2>3. (\A i \in 1 .. n : b[i] \in T) /\ (\A i \in n + 1 .. Len(b) : b[i] \in T)
    BY <1>1, <2>2
  <2> QED BY <2>1, <2>3, SubSeqProperties
<1> HIDE DEF c, d
<1>4. (a \o c) \o d = a \o (c \o d) /\ a \o c \in Seq(T)
  BY <1>1, <1>3, ConcatAssociative
<1> QED BY <1>1, <1>2, <1>3, <1>4 DEF Together, c, d

(* The step of the client: what it sends comes after all that is left.       *)
LEMMA SendInv ==
    ASSUME FramingInv, NEW p \in ClientPackets, Send(p)
    PROVE  FramingInv'
PROOF
<1> DEFINE x == StandardBytes(p)
<1>1. /\ InTurn /\ Conserved /\ (transport = "tcp" /\ pc = "select" => Lacks)
      /\ transport \in Transports /\ finished \in BOOLEAN
      /\ pc \in {"select", "extract", "failed", "ended", "reset"}
      /\ (pc = "extract" => transport = "tcp")
      /\ (pc = "failed" => transport = "tcp" /\ InLength(buf))
  BY DEF FramingInv
<1>2. /\ Len(sent) < MaxSent /\ sent' = Append(sent, p)
      /\ transport = "tcp" => wire' = wire \o x
      /\ transport # "tcp" => wire' = Append(wire, x)
      /\ transport' = transport /\ finished' = finished /\ buf' = buf
      /\ pc' = pc /\ handled' = handled
  BY DEF Send
<1>3. /\ Len(sent) \in Nat /\ Len(handled) \in Nat /\ Len(handled) <= Len(sent)
  BY <1>1, LeftFacts
<1>4. /\ Append(sent, p) \in Seq(ClientPackets) /\ Len(Append(sent, p)) = Len(sent) + 1
      /\ Append(sent, p)[Len(sent) + 1] = p
      /\ \A i \in 1 .. Len(sent) : Append(sent, p)[i] = sent[i]
  BY <1>1 DEF InTurn
<1>5. InTurn'
  <2>1. /\ sent' \in Seq(ClientPackets) /\ Len(sent') = Len(sent) + 1
        /\ \A i \in 1 .. Len(sent) : sent'[i] = sent[i]
    BY <1>2, <1>4
  <2>2. Len(sent') <= MaxSent
    <3>1. MaxSent \in Nat
      BY FramingAssumption
    <3> QED BY <1>2, <1>3, <2>1, <3>1
  <2>3. /\ handled' \in Seq(ClientPackets) /\ Len(handled') <= Len(sent')
    BY <1>1, <1>2, <1>3, <2>1 DEF InTurn
  <2>4. \A i \in 1 .. Len(handled') : handled'[i] = sent'[i]
    <3>1. \A i \in 1 .. Len(handled) : i \in 1 .. Len(sent)
      BY <1>3
    <3> QED BY <1>1, <1>2, <2>1, <3>1 DEF InTurn
  <2> QED BY <2>1, <2>2, <2>3, <2>4 DEF InTurn
<1>6. /\ StandardPacket(p) /\ x \in Seq(Byte)
      /\ Left' = Append(Left, x) /\ FlattenSeq(Left') = FlattenSeq(Left) \o x
  <2>1. Left' = From(StringsOf(Append(sent, p)), Len(handled))
    BY <1>2 DEF Left
  <2> QED BY <1>1, <2>1, LeftGrows
<1> HIDE DEF x
<1>7. Conserved'
  <2>1. transport = "tcp" => Together(Byte, FlattenSeq(Left'), buf', wire')
    <3> SUFFICES ASSUME transport = "tcp"
                 PROVE  Together(Byte, FlattenSeq(Left'), buf', wire')
      OBVIOUS
    <3>1. Together(Byte, FlattenSeq(Left), buf, wire)
      BY <1>1 DEF Conserved
    <3>2. Together(Byte, FlattenSeq(Left) \o x, buf, wire \o x)
      BY <1>6, <3>1, TogetherMore
    <3> QED BY <1>2, <1>6, <3>2
  <2>2. transport # "tcp" => wire' = Left' /\ buf' = <<>>
    BY <1>1, <1>2, <1>6 DEF Conserved
  <2> QED BY <1>2, <2>1, <2>2 DEF Conserved
<1>8. Lacks => Lacks'
  <2> SUFFICES ASSUME Lacks
               PROVE  Lacks'
    OBVIOUS
  <2> DEFINE h == Len(handled)
             k == Len(sent)
  <2>1. Len(handled') + 1 = h + 1 /\ Len(sent') = k + 1 /\ h + 1 \in 1 .. k + 1
    BY <1>2, <1>3, <1>4
  <2>2. CASE h < k
    <3>1. h + 1 \in 1 .. k
      BY <1>3, <2>2
    <3>2. sent'[h + 1] = sent[h + 1]
      BY <1>2, <1>4, <3>1
    <3>3. Len(buf) < Len(StandardBytes(sent[h + 1]))
      BY <3>1 DEF Lacks
    <3> HIDE DEF h, k
    <3> QED BY <1>2, <2>1, <3>2, <3>3 DEF Lacks, h
  <2>3. CASE h = k
    <3>1. h + 1 \notin 1 .. k
      BY <1>3, <2>3
    <3>2. buf = <<>> /\ Len(<<>>) = 0
      BY <3>1 DEF Lacks
    <3>3. sent'[h + 1] = p
      BY <1>2, <1>4, <2>3
    <3>4. Len(StandardBytes(p)) >= 2
      <4> DEFINE none == <<>>
      <4>1. none \in Seq(Byte)
        OBVIOUS
      <4> HIDE DEF none
      <4> QED BY <1>6, <4>1, ExtractWhole
    <3>5. Len(StandardBytes(p)) \in Nat
      BY <1>6 DEF x
    <3>6. 0 < Len(StandardBytes(p))
      BY <3>4, <3>5
    <3>7. Len(buf') < Len(StandardBytes(sent'[h + 1]))
      BY <1>2, <3>2, <3>3, <3>6
    <3> HIDE DEF h, k
    <3> QED BY <2>1, <3>7 DEF Lacks, h
  <2> QED BY <1>3, <2>2, <2>3
<1> QED BY <1>1, <1>2, <1>5, <1>7, <1>8 DEF FramingInv

(* The step of a read.                                                       *)
LEMMA ReadInv ==
    ASSUME FramingInv, NEW n \in 1 .. ReadSize, Read(n)
    PROVE  FramingInv'
PROOF
<1>1. /\ InTurn /\ Conserved /\ transport \in Transports /\ finished \in BOOLEAN
  BY DEF FramingInv
<1>2. /\ transport = "tcp" /\ n <= Len(wire)
      /\ buf' = buf \o SubSeq(wire, 1, n) /\ wire' = SubSeq(wire, n + 1, Len(wire))
      /\ pc' = "extract"
      /\ transport' = transport /\ sent' = sent /\ finished' = finished /\ handled' = handled
  BY DEF Read
<1>3. InTurn'
  BY <1>1, <1>2 DEF InTurn
<1>4. Conserved'
  <2>1. Together(Byte, FlattenSeq(Left), buf, wire)
    BY <1>1, <1>2 DEF Conserved
  <2>2. n \in 0 .. Len(wire)
    <3>1. Len(wire) \in Nat
      BY <2>1, CutOf
    <3>2. n \in Nat
      <4>1. ReadSize \in Nat
        BY FramingAssumption
      <4> QED BY <4>1
    <3> QED BY <1>2, <3>1, <3>2
  <2>3. Together(Byte, FlattenSeq(Left), buf \o SubSeq(wire, 1, n), SubSeq(wire, n + 1, Len(wire)))
    BY <2>1, <2>2, TogetherMoves
  <2>4. Left' = Left
    BY <1>2 DEF Left
  <2> QED BY <1>2, <2>3, <2>4 DEF Conserved
<1> QED BY <1>1, <1>2, <1>3, <1>4 DEF FramingInv

(* The client closes, the stream ends or fails: the bytes stay where they are. *)
LEMMA StillInv ==
    ASSUME FramingInv, Finish \/ Eof \/ Reset \/ UNCHANGED vars
    PROVE  FramingInv'
PROOF
<1>1. /\ transport' = transport /\ sent' = sent /\ wire' = wire /\ buf' = buf
      /\ handled' = handled
      /\ finished' \in BOOLEAN
      /\ pc' = pc \/ pc' \in {"ended", "reset"}
  BY DEF FramingInv, Finish, Eof, Reset, vars
<1>2. InTurn => InTurn'
  BY <1>1 DEF InTurn
<1>3. Left' = Left
  BY <1>1 DEF Left
<1>4. Conserved => Conserved'
  BY <1>1, <1>3 DEF Conserved
<1>5. Lacks => Lacks'
  BY <1>1 DEF Lacks
<1> QED BY <1>1, <1>2, <1>4, <1>5 DEF FramingInv

(* The packets of a sequence, one of them handled.                           *)
LEMMA HandlesNext ==
    ASSUME InTurn, Len(handled) < Len(sent), sent' = sent,
           handled' = Append(handled, sent[Len(handled) + 1])
    PROVE  /\ InTurn' /\ Len(handled') = Len(handled) + 1
           /\ Left' = From(StringsOf(sent), Len(handled) + 1)
PROOF
<1> DEFINE h == Len(handled)
           p == sent[h + 1]
<1>1. h \in Nat /\ Len(sent) \in Nat /\ p \in ClientPackets /\ h < Len(sent)
  BY LeftFacts, NextFacts
<1>2. handled \in Seq(ClientPackets) /\ handled' = Append(handled, p)
  BY DEF InTurn
<1> HIDE DEF p
<1>3. /\ handled' \in Seq(ClientPackets) /\ Len(handled') = h + 1
      /\ handled'[h + 1] = p /\ \A i \in 1 .. h : handled'[i] = handled[i]
  BY <1>1, <1>2
<1>4. \A i \in 1 .. Len(handled') : handled'[i] = sent'[i]
  <2>1. \A i \in 1 .. h : handled[i] = sent[i]
    BY DEF InTurn
  <2> HIDE DEF h
  <2>2. \A i \in 1 .. h + 1 : i \in 1 .. h \/ i = h + 1
    BY <1>1
  <2>3. sent' = sent
    OBVIOUS
  <2> QED BY <1>3, <2>1, <2>2, <2>3 DEF p
<1>5. Len(handled') <= Len(sent')
  <2>1. sent' = sent
    OBVIOUS
  <2> HIDE DEF h
  <2> QED BY <1>1, <1>3, <2>1
<1>6. InTurn'
  BY <1>3, <1>4, <1>5 DEF InTurn
<1>7. Left' = From(StringsOf(sent), h + 1)
  <2> HIDE DEF h
  <2> QED BY <1>3 DEF Left
<1> QED BY <1>3, <1>6, <1>7

(* What extract_packet finds in the buffer: nothing yet, the next packet, or *)
(* a remaining length that is cut off.                                       *)
FindsNone == extract_packet(buf) = {} /\ Lacks

(* r is the next packet, and what is left after it follows.                  *)
IsNext(r) ==
    /\ extract_packet(buf) = {r} /\ r.packet = {sent[Len(handled) + 1]}
    /\ Together(Byte, FlattenSeq(From(StringsOf(sent), Len(handled) + 1)), r.rest, wire)

(* The next packet is found.                                                 *)
FindsNext == Len(handled) < Len(sent) /\ \E r : IsNext(r)

(* A remaining length that is cut off is found.                              *)
FindsPart == extract_packet(buf) = {[packet |-> {}, rest |-> buf]} /\ InLength(buf)

(* One of the three is the case.                                             *)
LEMMA ExtractFinds ==
    ASSUME InTurn, Conserved, transport = "tcp"
    PROVE  FindsNone \/ FindsNext \/ FindsPart
PROOF
<1> DEFINE h == Len(handled)
           k == Len(sent)
           all == FlattenSeq(Left)
<1>1. h \in Nat /\ k \in Nat /\ h <= k
  BY LeftFacts
<1>2. Together(Byte, all, buf, wire)
  BY DEF Conserved
<1>3. buf \in Seq(Byte) /\ wire \in Seq(Byte) /\ Len(buf) \in Nat
  BY <1>2 DEF Together
<1>4. ASSUME h = k
      PROVE  FindsNone
  <2>1. all = <<>>
    <3>1. Left \in Seq(Seq(Byte)) /\ Len(Left) = k - h
      BY LeftFacts
    <3> HIDE DEF h, k
    <3>2. Left = <<>>
      BY <1>1, <1>4, <3>1
    <3> QED BY <3>1, <3>2, FlattenFacts
  <2>2. Len(all) = 0
    BY <2>1
  <2> HIDE DEF all, h, k
  <2>3. Len(all) = Len(buf) + Len(wire) /\ Len(wire) \in Nat
    BY <1>2, CutOf
  <2>4. Len(buf) = 0
    <3>1. Len(buf) \in Nat
      BY <1>3
    <3> QED BY <2>2, <2>3, <3>1
  <2>5. buf = <<>>
    BY <1>3, <2>4
  <2>6. extract_packet(buf) = {}
    BY <2>4 DEF extract_packet
  <2>7. h + 1 \notin 1 .. k
    BY <1>1, <1>4
  <2> QED BY <2>5, <2>6, <2>7 DEF FindsNone, Lacks, h, k
<1>5. ASSUME h < k
      PROVE  FindsNone \/ FindsNext \/ FindsPart
  <2> DEFINE p == sent[h + 1]
             first == StandardBytes(p)
             more == FlattenSeq(From(StringsOf(sent), h + 1))
  <2>1. /\ h + 1 \in 1 .. k /\ StandardPacket(p) /\ first \in Seq(Byte)
        /\ more \in Seq(Byte) /\ all = first \o more
    BY <1>5, NextFacts
  <2> HIDE DEF p, first, more, all
  <2>2. Together(Byte, all, first, more)
    BY <2>1 DEF Together
  <2>3. Len(first) \in Nat
    BY <2>1
  <2>4. ASSUME Len(first) <= Len(buf)
        PROVE  FindsNext
    <3> DEFINE x == Between(first, buf)
    <3>1. Together(Byte, buf, first, x) /\ Together(Byte, more, x, wire)
      BY <1>2, <2>2, <2>4, Split
    <3> HIDE DEF x
    <3>2. buf = first \o x /\ x \in Seq(Byte)
      BY <3>1 DEF Together
    <3>3. extract_packet(buf) = Found(p, x)
      BY <2>1, <3>2, ExtractWhole DEF first
    <3> DEFINE r == [packet |-> {p}, rest |-> x]
    <3>4. extract_packet(buf) = {r} /\ r.packet = {p} /\ r.rest = x
      BY <3>3 DEF Found
    <3> HIDE DEF r
    <3>5. IsNext(r)
      BY <3>1, <3>4 DEF IsNext, p, more
    <3> QED BY <1>5, <3>5 DEF FindsNext
  <2>5. ASSUME Len(buf) < Len(first)
        PROVE  FindsNone \/ FindsPart
    <3> DEFINE y == Between(buf, first)
    <3>1. Len(buf) <= Len(first)
      BY <1>3, <2>3, <2>5
    <3>2. Together(Byte, first, buf, y)
      BY <1>2, <2>2, <3>1, Split
    <3> HIDE DEF y
    <3>3. Together(Byte, StandardBytes(p), buf, y) /\ Len(buf) < Len(StandardBytes(p))
      BY <2>5, <3>2 DEF first
    <3>4. \/ extract_packet(buf) = {}
          \/ extract_packet(buf) = {[packet |-> {}, rest |-> buf]} /\ InLength(buf)
      BY <2>1, <3>3, ExtractPart
    <3>5. Lacks
      BY <2>1, <3>3 DEF Lacks, p
    <3> QED BY <3>4, <3>5 DEF FindsNone, FindsPart
  <2> QED BY <1>3, <2>3, <2>4, <2>5
<1> QED BY <1>1, <1>4, <1>5

(* What the step of Extract does.                                            *)
Waits == pc' = "select" /\ Lacks /\ UNCHANGED <<buf, handled>>

(* The next packet is handled.                                               *)
HandlesOne ==
    /\ Len(handled) < Len(sent) /\ handled' = Append(handled, sent[Len(handled) + 1])
    /\ pc' = pc

(* The connection ends, inside a remaining length.                           *)
Fails == pc' = "failed" /\ InLength(buf) /\ UNCHANGED <<buf, handled>>

(* Extract does one of these, and conserves what is left after the packet.   *)
LEMMA ExtractDoes ==
    ASSUME FramingInv, Extract
    PROVE  /\ pc = "extract" /\ transport = "tcp"
           /\ UNCHANGED <<transport, sent, wire, finished>>
           /\ \/ Waits
              \/ HandlesOne /\ Together(Byte, FlattenSeq(From(StringsOf(sent), Len(handled) + 1)),
                                        buf', wire)
              \/ Fails
PROOF
<1>1. pc = "extract" /\ transport = "tcp" /\ InTurn /\ Conserved
  BY DEF FramingInv, Extract
<1>2. UNCHANGED <<transport, sent, wire, finished>>
  BY DEF Extract
<1>3. FindsNone \/ FindsNext \/ FindsPart
  BY <1>1, ExtractFinds
<1>4. FindsNone => Waits
  BY DEF FindsNone, Waits, Extract
<1>5. ASSUME FindsNext
      PROVE  HandlesOne /\ Together(Byte, FlattenSeq(From(StringsOf(sent), Len(handled) + 1)),
                                   buf', wire)
  <2>1. PICK r : IsNext(r)
    BY <1>5 DEF FindsNext
  <2> DEFINE p == sent[Len(handled) + 1]
  <2>2. extract_packet(buf) = {r} /\ r.packet = {p}
    BY <2>1 DEF IsNext
  <2> HIDE DEF p
  <2>3. buf' = r.rest /\ handled' = Append(handled, p) /\ pc' = pc
    BY <2>2 DEF Extract
  <2>4. Together(Byte, FlattenSeq(From(StringsOf(sent), Len(handled) + 1)), buf', wire)
    BY <2>1, <2>3 DEF IsNext
  <2> QED BY <1>5, <2>3, <2>4 DEF HandlesOne, FindsNext, p
<1>6. ASSUME FindsPart
      PROVE  Fails
  <2> DEFINE r == [packet |-> {}, rest |-> buf]
  <2>1. extract_packet(buf) = {r} /\ InLength(buf)
    BY <1>6 DEF FindsPart
  <2>2. r.packet = {} /\ r.rest = buf
    OBVIOUS
  <2> HIDE DEF r
  <2>3. buf' = buf /\ pc' = "failed" /\ handled' = handled
    BY <2>1, <2>2 DEF Extract
  <2> QED BY <2>1, <2>3 DEF Fails
<1> QED BY <1>1, <1>2, <1>3, <1>4, <1>5, <1>6

(* The step of Extract keeps the invariant.                                  *)
LEMMA ExtractInv ==
    ASSUME FramingInv, Extract
    PROVE  FramingInv'
PROOF
<1>1. /\ pc = "extract" /\ transport = "tcp"
      /\ UNCHANGED <<transport, sent, wire, finished>>
  BY ExtractDoes
<1>2. InTurn /\ Conserved /\ transport \in Transports /\ finished \in BOOLEAN
  BY DEF FramingInv
<1>3. ASSUME UNCHANGED <<buf, handled>>
      PROVE  InTurn' /\ Conserved' /\ (Lacks => Lacks')
  <2>1. Left' = Left
    BY <1>1, <1>3 DEF Left
  <2>2. Conserved'
    BY <1>1, <1>2, <1>3, <2>1 DEF Conserved
  <2> QED BY <1>1, <1>2, <1>3, <2>2 DEF InTurn, Lacks
<1>4. Waits => FramingInv'
  BY <1>1, <1>2, <1>3 DEF Waits, FramingInv
<1>5. Fails => FramingInv'
  BY <1>1, <1>2, <1>3 DEF Fails, FramingInv
<1>6. ASSUME HandlesOne,
             Together(Byte, FlattenSeq(From(StringsOf(sent), Len(handled) + 1)), buf', wire)
      PROVE  FramingInv'
  <2>1. InTurn' /\ Left' = From(StringsOf(sent), Len(handled) + 1)
    BY <1>1, <1>2, <1>6, HandlesNext DEF HandlesOne
  <2>2. Together(Byte, FlattenSeq(Left'), buf', wire')
    BY <1>1, <1>6, <2>1
  <2>3. Conserved'
    BY <1>1, <2>2 DEF Conserved
  <2>4. pc' = "extract"
    BY <1>1, <1>6 DEF HandlesOne
  <2> QED BY <1>1, <1>2, <2>1, <2>3, <2>4 DEF FramingInv
<1>7. \/ Waits \/ Fails
      \/ HandlesOne /\ Together(Byte, FlattenSeq(From(StringsOf(sent), Len(handled) + 1)),
                                buf', wire)
  BY ExtractDoes
<1> QED BY <1>4, <1>5, <1>6, <1>7

(* A frame is the next packet.                                               *)
LEMMA FrameDoes ==
    ASSUME FramingInv, Frame
    PROVE  /\ transport = "ws" /\ pc = "select" /\ wire = Left
           /\ UNCHANGED <<transport, sent, finished, buf>>
           /\ HandlesOne /\ wire' = From(StringsOf(sent), Len(handled) + 1)
PROOF
<1> DEFINE h == Len(handled)
           p == sent[h + 1]
           x == StandardBytes(p)
           more == From(StringsOf(sent), h + 1)
<1>1. /\ transport = "ws" /\ pc = "select" /\ wire # <<>> /\ wire' = Tail(wire)
      /\ UNCHANGED <<transport, sent, finished, buf>>
  BY DEF Frame
<1>2. InTurn /\ wire = Left
  BY <1>1 DEF FramingInv, Conserved
<1>3. h < Len(sent)
  <2>1. /\ Left \in Seq(Seq(Byte)) /\ Len(Left) = Len(sent) - h
        /\ h \in Nat /\ Len(sent) \in Nat /\ h <= Len(sent)
    BY <1>2, LeftFacts
  <2> HIDE DEF h
  <2>2. Len(Left) # 0
    BY <1>1, <1>2, <2>1
  <2> QED BY <2>1, <2>2
<1>4. /\ StandardPacket(p) /\ x \in Seq(Byte) /\ more \in Seq(Seq(Byte))
      /\ Left = <<x>> \o more
  BY <1>2, <1>3, NextFacts
<1> HIDE DEF x, more
<1>5. Head(wire) = x /\ Tail(wire) = more
  BY <1>2, <1>4
<1>6. decode(Head(wire)) = {p}
  BY <1>4, <1>5, PacketDecodes DEF x
<1> HIDE DEF p
<1>7. handled' = Append(handled, p) /\ pc' = pc
  BY <1>6 DEF Frame
<1> QED BY <1>1, <1>2, <1>3, <1>5, <1>7 DEF HandlesOne, p, more

(* The step of Frame keeps the invariant.                                    *)
LEMMA FrameInv ==
    ASSUME FramingInv, Frame
    PROVE  FramingInv'
PROOF
<1>1. /\ transport = "ws" /\ pc = "select"
      /\ UNCHANGED <<transport, sent, finished, buf>>
      /\ HandlesOne /\ wire' = From(StringsOf(sent), Len(handled) + 1)
  BY FrameDoes
<1>2. InTurn /\ transport \in Transports /\ finished \in BOOLEAN /\ buf = <<>>
  BY <1>1 DEF FramingInv, Conserved
<1>3. InTurn' /\ Left' = wire'
  BY <1>1, <1>2, HandlesNext DEF HandlesOne
<1>4. Conserved'
  BY <1>1, <1>2, <1>3 DEF Conserved
<1>5. pc' = "select"
  BY <1>1 DEF HandlesOne
<1> QED BY <1>1, <1>2, <1>3, <1>4, <1>5 DEF FramingInv

(* The inductive invariant.                                                  *)
THEOREM FramingInvariant == Spec => []FramingInv
PROOF
<1>1. FramingInv /\ [Next]_vars => FramingInv'
  <2> SUFFICES ASSUME FramingInv, [Next]_vars
               PROVE  FramingInv'
    OBVIOUS
  <2>1. ASSUME NEW p \in ClientPackets, Send(p)
        PROVE  FramingInv'
    BY <2>1, SendInv
  <2>2. ASSUME NEW n \in 1 .. ReadSize, Read(n)
        PROVE  FramingInv'
    BY <2>2, ReadInv
  <2>3. CASE Extract
    BY <2>3, ExtractInv
  <2>4. CASE Frame
    BY <2>4, FrameInv
  <2>5. CASE Finish \/ Eof \/ Reset \/ UNCHANGED vars
    BY <2>5, StillInv
  <2> QED BY <2>1, <2>2, <2>3, <2>4, <2>5 DEF Next
<1> QED BY <1>1, InitInv, PTL DEF Spec

------------------------------------------------------------------------------

(* Every variable of both loops keeps its type, for every set of packets of  *)
(* the standard, read size and base of the length.                           *)
THEOREM FramingTypes == Spec => []FramingTypeOK
PROOF
<1>1. FramingInv => FramingTypeOK
  <2> SUFFICES ASSUME FramingInv
               PROVE  FramingTypeOK
    OBVIOUS
  <2>1. /\ transport \in Transports /\ finished \in BOOLEAN /\ InTurn /\ Conserved
        /\ pc \in {"select", "extract", "failed", "ended", "reset"}
    BY DEF FramingInv
  <2>2. /\ sent \in Seq(ClientPackets) /\ Len(sent) <= MaxSent /\ Len(handled) <= Len(sent)
    BY <2>1 DEF InTurn
  <2>3. transport = "tcp" => buf \in Seq(Byte) /\ wire \in Seq(Byte)
    BY <2>1 DEF Conserved, Together
  <2>4. transport # "tcp" => buf = <<>> /\ wire \in Seq(Seq(Byte))
    BY <2>1, LeftFacts DEF Conserved
  <2>5. <<>> \in Seq(Byte)
    OBVIOUS
  <2> QED BY <2>1, <2>2, <2>3, <2>4, <2>5 DEF FramingTypeOK
<1> QED BY <1>1, FramingInvariant, PTL

(* However the bytes are cut by the reads, what the client sent and the loop *)
(* has not handled is, byte for byte, in buf and on the wire; and the packets*)
(* handled are the first ones sent.                                          *)
THEOREM ConservesBytes == Spec => []BytesAreConserved
PROOF
<1>1. FramingInv => BytesAreConserved
  <2> SUFFICES ASSUME FramingInv
               PROVE  BytesAreConserved
    OBVIOUS
  <2> DEFINE h == Len(handled)
             k == Len(sent)
             left == [i \in 1 .. k - h |-> StandardBytes(sent[h + i])]
  <2>1. InTurn /\ Conserved
    BY DEF FramingInv
  <2>2. h \in Nat /\ k \in Nat /\ h <= k
    BY <2>1, LeftFacts
  <2>3. left = Left
    <3> DEFINE s == StringsOf(sent)
    <3>1. Len(s) = k /\ \A i \in 1 .. k : s[i] = StandardBytes(sent[i])
      BY <2>1, StringsFacts DEF InTurn
    <3> HIDE DEF s
    <3>2. \A i \in 1 .. k - h : h + i \in 1 .. k
      BY <2>2
    <3>3. \A i \in 1 .. k - h : s[h + i] = StandardBytes(sent[h + i])
      BY <3>1, <3>2
    <3>4. Left = [i \in 1 .. k - h |-> s[h + i]]
      BY <3>1 DEF Left, From, s
    <3> QED BY <3>3, <3>4
  <2>4. handled = SubSeq(sent, 1, h)
    <3>1. /\ sent \in Seq(ClientPackets) /\ handled \in Seq(ClientPackets)
          /\ \A i \in 1 .. h : handled[i] = sent[i]
      BY <2>1 DEF InTurn
    <3> HIDE DEF h
    <3>2. Len(handled) = h
      BY DEF h
    <3>3. /\ SubSeq(sent, 1, h) \in Seq(ClientPackets) /\ Len(SubSeq(sent, 1, h)) = h
          /\ \A i \in 1 .. h : SubSeq(sent, 1, h)[i] = sent[i]
      BY <2>2, <3>1
    <3> QED BY <3>1, <3>2, <3>3, SeqEqual
  <2>5. transport = "tcp" => buf \o wire = FlattenSeq(left)
    BY <2>1, <2>3 DEF Conserved, Together
  <2>6. transport # "tcp" => wire = left
    BY <2>1, <2>3 DEF Conserved
  <2> HIDE DEF h, k
  <2> QED BY <2>4, <2>5, <2>6 DEF BytesAreConserved, h, k
<1> QED BY <1>1, FramingInvariant, PTL

(* handle_connection extracts all that has arrived before it reads again:    *)
(* less than one packet is in buf while it waits.                            *)
THEOREM NoneWaits == Spec => []NothingCompleteWaits
PROOF
<1>1. FramingInv => NothingCompleteWaits
  <2> SUFFICES ASSUME FramingInv, transport = "tcp", pc = "select"
               PROVE  NothingCompleteWaits
    BY DEF NothingCompleteWaits
  <2>1. Lacks /\ sent \in Seq(ClientPackets)
    BY DEF FramingInv, InTurn
  <2>2. DOMAIN sent = 1 .. Len(sent)
    BY <2>1
  <2> QED BY <2>1, <2>2 DEF Lacks, NothingCompleteWaits
<1> QED BY <1>1, FramingInvariant, PTL

(* No packet of the standard is refused by decode: an error ends a TCP       *)
(* connection only if a read ended inside a remaining length, and a WebSocket*)
(* connection never.                                                         *)
THEOREM FailsInLength == Spec => []FailsOnlyInLength
PROOF
<1>1. FramingInv => FailsOnlyInLength
  BY DEF FramingInv, FailsOnlyInLength, InLength
<1> QED BY <1>1, FramingInvariant, PTL

(* What the broker sends because of a packet is encoded, as the standard says,*)
(* within a remaining length of MaxLengthBytes.                              *)
THEOREM SendsStandard == Spec => []OutboundIsStandard
PROOF
<1>1. FramingInv => OutboundIsStandard
  <2> SUFFICES ASSUME FramingInv, NEW i \in DOMAIN handled,
                      NEW q \in HandlerReplies(handled[i]) \cup Forwarded(handled[i])
               PROVE  /\ encode(q) = {StandardBytes(q)}
                      /\ Digits(Len(StandardBody(q))) <= MaxLengthBytes
    BY DEF OutboundIsStandard
  <2>1. handled \in Seq(ClientPackets)
    BY DEF FramingInv, InTurn
  <2>2. handled[i] \in ClientPackets
    BY <2>1
  <2>3. StandardPacket(handled[i])
    BY <2>2, ClientAssumption
  <2>4. CASE q \in HandlerReplies(handled[i])
    BY <2>3, <2>4, RepliesFit
  <2>5. CASE q \in Forwarded(handled[i])
    BY <2>3, <2>5, ForwardedFits
  <2> QED BY <2>4, <2>5
<1> QED BY <1>1, FramingInvariant, PTL

------------------------------------------------------------------------------

(* What PacketPipe.tla calls waiting and open.                               *)
Waiting == SubSeq(sent, Len(handled) + 1, Len(sent))

(* The connection has not ended.                                             *)
Open == pc \in {"select", "extract"}

(* The end of a sequence.                                                    *)
LEMMA EndOf ==
    ASSUME NEW T, NEW s \in Seq(T), NEW h \in 0 .. Len(s)
    PROVE  SubSeq(s, h + 1, Len(s)) = From(s, h)
PROOF
<1> DEFINE k == Len(s)
           a == SubSeq(s, h + 1, k)
           b == From(s, h)
<1>1. h \in Nat /\ k \in Nat /\ h <= k /\ \A i \in 1 .. k : s[i] \in T
  OBVIOUS
<1>2. b \in Seq(T) /\ Len(b) = k - h /\ \A i \in 1 .. k - h : b[i] = s[h + i]
  <2>1. b \in Seq(T) /\ Len(b) = k - h
    BY FromFacts
  <2>2. \A i \in 1 .. k - h : b[i] = s[h + i]
    BY DEF From
  <2> QED BY <2>1, <2>2
<1> HIDE DEF k
<1>3. a \in Seq(T) /\ Len(a) = k - h /\ \A i \in 1 .. k - h : a[i] = s[h + i]
  <2>1. h + 1 \in Int /\ k \in Int /\ \A i \in h + 1 .. k : s[i] \in T
    BY <1>1
  <2>2. /\ a \in Seq(T)
        /\ Len(a) = (IF h + 1 <= k THEN k - (h + 1) + 1 ELSE 0)
        /\ \A i \in 1 .. k - (h + 1) + 1 : a[i] = s[h + 1 + i - 1]
    BY <2>1, SubSeqProperties
  <2>3. k - (h + 1) + 1 = k - h /\ \A i \in 1 .. k - h : h + 1 + i - 1 = h + i
    BY <1>1
  <2>4. \A i \in 1 .. k - h : a[i] = s[h + i]
    BY <2>2, <2>3
  <2> QED BY <1>1, <2>2, <2>3, <2>4
<1> HIDE DEF a, b
<1>4. a = b
  BY <1>2, <1>3, SeqEqual
<1> QED BY <1>4 DEF a, b, k

(* What waits, before a step and after it.                                   *)
LEMMA WaitingIs ==
    /\ InTurn => Waiting = From(sent, Len(handled))
    /\ InTurn' => Waiting' = From(sent', Len(handled'))
PROOF
<1>1. \A s \in Seq(ClientPackets) : \A h \in 0 .. Len(s) :
          SubSeq(s, h + 1, Len(s)) = From(s, h)
  BY EndOf
<1>2. ASSUME NEW s \in Seq(ClientPackets), NEW h \in Seq(ClientPackets), Len(h) <= Len(s)
      PROVE  Len(h) \in 0 .. Len(s)
  BY <1>2
<1> QED BY <1>1, <1>2 DEF InTurn, Waiting

(* A packet handled is the first of those that wait.                         *)
LEMMA HandlesHead ==
    ASSUME InTurn, HandlesOne, sent' = sent
    PROVE  Waiting # <<>> /\ handled' = Append(handled, Head(Waiting)) /\ Waiting' = Tail(Waiting)
PROOF
<1> DEFINE h == Len(handled)
           k == Len(sent)
           p == sent[h + 1]
           more == From(sent, h + 1)
<1>1. h < k /\ handled' = Append(handled, p)
  BY DEF HandlesOne
<1>2. h \in Nat /\ k \in Nat /\ h + 1 \in 1 .. k /\ p \in ClientPackets
  BY <1>1, LeftFacts, NextFacts
<1>3. Waiting = From(sent, h) /\ sent \in Seq(ClientPackets)
  BY WaitingIs DEF InTurn
<1>4. InTurn' /\ Len(handled') = h + 1
  BY <1>1, HandlesNext
<1>5. Waiting' = more
  <2>1. Waiting' = From(sent', Len(handled'))
    BY <1>4, WaitingIs
  <2>2. sent' = sent
    OBVIOUS
  <2> QED BY <1>4, <2>1, <2>2
<1>6. From(sent, h) = <<p>> \o more /\ more \in Seq(ClientPackets)
  <2> HIDE DEF h, k
  <2> DEFINE j == h + 1
  <2>1. j \in 0 .. Len(sent) /\ j \in 1 .. Len(sent) /\ j - 1 = h
    BY <1>2 DEF k
  <2> HIDE DEF j
  <2>2. From(sent, j - 1) = <<sent[j]>> \o From(sent, j) /\ From(sent, j) \in Seq(ClientPackets)
    BY <1>3, <2>1, FromFacts
  <2> QED BY <2>1, <2>2 DEF j
<1> HIDE DEF p, more, h
<1>7. <<p>> \o more # <<>> /\ Head(<<p>> \o more) = p /\ Tail(<<p>> \o more) = more
  BY <1>2, <1>6
<1> QED BY <1>1, <1>3, <1>5, <1>6, <1>7

(* Both loops pass the packets of a client to handle_packet as PacketPipe.tla*)
(* promises: each once, in order, with every field as sent.                  *)
THEOREM PipeIsImplemented == Spec => ImplementsPipe
PROOF
<1>1. Init => Pipe!PipeInit
  <2> SUFFICES ASSUME Init
               PROVE  Pipe!PipeInit
    OBVIOUS
  <2>1. sent = <<>> /\ handled = <<>> /\ pc = "select"
    BY DEF Init
  <2>2. SubSeq(<<>>, Len(<<>>) + 1, Len(<<>>)) = <<>>
    OBVIOUS
  <2> QED BY <2>1, <2>2 DEF Pipe!PipeInit
<1>2. FramingInv /\ [Next]_vars => [Pipe!PipeNext]_(Pipe!pipeVars)
  <2> SUFFICES ASSUME FramingInv, [Next]_vars
               PROVE  Pipe!PipeNext \/ UNCHANGED <<Waiting, handled, Open>>
    BY DEF Pipe!pipeVars, Waiting, Open
  <2>1. InTurn
    BY DEF FramingInv
  <2>2. ASSUME NEW p \in ClientPackets, Send(p)
        PROVE  Pipe!PipeNext
    <3>1. sent' = Append(sent, p) /\ handled' = handled /\ pc' = pc
      BY <2>2 DEF Send
    <3>2. Waiting' = Append(Waiting, p)
      <4>1. InTurn'
        BY <2>2, SendInv DEF FramingInv
      <4>2. Waiting' = From(Append(sent, p), Len(handled))
        <5>1. Waiting' = From(sent', Len(handled'))
          BY <4>1, WaitingIs
        <5> QED BY <3>1, <5>1
      <4>3. Len(handled) \in 0 .. Len(sent) /\ sent \in Seq(ClientPackets)
        BY <2>1, LeftFacts DEF InTurn
      <4>4. From(Append(sent, p), Len(handled)) = Append(From(sent, Len(handled)), p)
        BY <4>3, FromAppend
      <4>5. Waiting = From(sent, Len(handled))
        BY <2>1, WaitingIs
      <4> QED BY <4>2, <4>4, <4>5
    <3>3. Open' = Open
      BY <3>1 DEF Open
    <3> QED BY <3>1, <3>2, <3>3 DEF Pipe!PipeNext, Pipe!PipeSend, Waiting, Open
  <2>3. ASSUME HandlesOne, sent' = sent, Open, Open'
        PROVE  Pipe!PipeNext
    <3>1. Waiting # <<>> /\ handled' = Append(handled, Head(Waiting)) /\ Waiting' = Tail(Waiting)
      BY <2>1, <2>3, HandlesHead
    <3> QED BY <2>3, <3>1 DEF Pipe!PipeNext, Pipe!PipeHandle, Waiting, Open
  <2>4. ASSUME sent' = sent, handled' = handled
        PROVE  Waiting' = Waiting
    BY <2>4 DEF Waiting
  <2>5. ASSUME sent' = sent, handled' = handled, Open, ~Open'
        PROVE  Pipe!PipeNext
    BY <2>5 DEF Pipe!PipeNext, Pipe!PipeClose, Waiting, Open
  <2>6. CASE Extract
    <3>1. /\ pc = "extract" /\ sent' = sent
          /\ Waits \/ HandlesOne \/ Fails
      BY <2>6, ExtractDoes
    <3>2. CASE Waits
      BY <2>4, <3>1, <3>2 DEF Waits, Open
    <3>3. CASE HandlesOne
      BY <2>3, <3>1, <3>3 DEF HandlesOne, Open
    <3>4. CASE Fails
      BY <2>5, <3>1, <3>4 DEF Fails, Open
    <3> QED BY <3>1, <3>2, <3>3, <3>4
  <2>7. CASE Frame
    <3>1. pc = "select" /\ sent' = sent /\ HandlesOne
      BY <2>7, FrameDoes
    <3> QED BY <2>3, <3>1 DEF HandlesOne, Open
  <2>8. ASSUME NEW n \in 1 .. ReadSize, Read(n)
        PROVE  UNCHANGED <<Waiting, handled, Open>>
    BY <2>4, <2>8 DEF Read, Open
  <2>9. CASE Eof \/ Reset
    BY <2>5, <2>9 DEF Eof, Reset, Open
  <2>10. CASE Finish \/ UNCHANGED vars
    BY <2>4, <2>10 DEF Finish, vars, Open
  <2> QED BY <2>2, <2>6, <2>7, <2>8, <2>9, <2>10 DEF Next
<1> QED BY <1>1, <1>2, FramingInvariant, PTL DEF Spec, ImplementsPipe, Pipe!PipeSpec
==============================================================================
