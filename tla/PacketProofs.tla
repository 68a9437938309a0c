---------------------------- MODULE PacketProofs -----------------------------
(* The packets of the standard and the codec: what a client writes is decoded*)
(* to what it wrote, and what the broker sends for it is encoded as the standard*)
(* says, in no more bytes than came in.                                      *)
EXTENDS CodecProofs

(* The fields of p that have been read.                                      *)
Part(p, D) == [field \in D |-> p[field]]

(* The names of the fields, with one more.                                   *)
And(D, name) == D \cup {name}

(* A field more is a larger part of the packet.                              *)
LEMMA PartGrows ==
    ASSUME NEW p, NEW D, NEW name
    PROVE  Also(name, p[name], Part(p, D)) = Part(p, And(D, name))
PROOF BY DEF Part, Also, And

(* A field is read from its bytes.                                           *)
LEMMA FieldIsRead ==
    ASSUME NEW p, NEW D, NEW name, NEW kind, NEW bytes, NEW more,
           ReadField(kind, bytes) = Ok(p[name], more)
    PROVE  Field(Ok(Part(p, D), bytes), name, kind)
             = Ok(Part(p, And(D, name)), more)
PROOF
<1>1. PICK a : a.value = Part(p, D) /\ a.rest = bytes /\ Ok(Part(p, D), bytes) = {a}
  BY OkIs
<1>2. PICK r : r.value = p[name] /\ r.rest = more /\ Ok(p[name], more) = {r}
  BY OkIs
<1>3. ReadField(kind, a.rest) = {r}
  BY <1>1, <1>2
<1>4. Field({a}, name, kind) = Ok(Also(name, r.value, a.value), r.rest)
  BY <1>3 DEF Field
<1> QED BY <1>1, <1>2, <1>4, PartGrows

(* At first no field has been read.                                          *)
LEMMA NoPart ==
    ASSUME NEW p, NEW src
    PROVE  NoField(src) = Ok(Part(p, {}), src)
PROOF BY DEF NoField, Part

(* A number of two bytes, with a bound.                                      *)
LEMMA U16Is ==
    ASSUME NEW n
    PROVE  n \in U16 <=> n \in Nat /\ n <= 65535
PROOF
<1> DEFINE top == 65535
<1>1. top \in Int
  OBVIOUS
<1>2. U16 = 0 .. top
  BY DEF U16
<1> HIDE DEF top
<1>3. n \in 0 .. top <=> n \in Nat /\ n <= top
  BY <1>1
<1>4. n \in U16 <=> n \in Nat /\ n <= top
  BY <1>2, <1>3
<1> QED BY <1>4 DEF top

(* A field of each kind is read from its bytes in the standard: text,        *)
LEMMA StringField ==
    ASSUME NEW p, NEW D, NEW name, p[name] \in Text, NEW more \in Seq(Byte)
    PROVE  Field(Ok(Part(p, D), Prefixed(p[name]) \o more), name, "string")
             = Ok(Part(p, And(D, name)), more)
PROOF
<1> DEFINE src == Prefixed(p[name]) \o more
<1>1. read_utf8_string(src) = Ok(p[name], more)
  BY ReadText
<1> HIDE DEF src
<1>2. ReadField("string", src) = Ok(p[name], more)
  BY <1>1 DEF ReadField
<1>3. Field(Ok(Part(p, D), src), name, "string")
        = Ok(Part(p, And(D, name)), more)
  BY <1>2, FieldIsRead
<1> QED BY <1>3 DEF src

(* binary data,                                                              *)
LEMMA BinaryField ==
    ASSUME NEW p, NEW D, NEW name, p[name] \in Binary, NEW more \in Seq(Byte)
    PROVE  Field(Ok(Part(p, D), Prefixed(p[name]) \o more), name, "binary")
             = Ok(Part(p, And(D, name)), more)
PROOF
<1> DEFINE src == Prefixed(p[name]) \o more
<1>1. read_binary(src) = Ok(p[name], more)
  BY ReadBinary
<1> HIDE DEF src
<1>2. ReadField("binary", src) = Ok(p[name], more)
  BY <1>1 DEF ReadField
<1>3. Field(Ok(Part(p, D), src), name, "binary")
        = Ok(Part(p, And(D, name)), more)
  BY <1>2, FieldIsRead
<1> QED BY <1>3 DEF src

(* a byte,                                                                   *)
LEMMA ByteField ==
    ASSUME NEW p, NEW D, NEW name, p[name] \in Byte, NEW more \in Seq(Byte)
    PROVE  Field(Ok(Part(p, D), <<p[name]>> \o more), name, "u8")
             = Ok(Part(p, And(D, name)), more)
PROOF
<1> DEFINE src == <<p[name]>> \o more
<1>1. inner_read_u8(src) = Ok(p[name], more)
  BY ReadU8
<1> HIDE DEF src
<1>2. ReadField("u8", src) = Ok(p[name], more)
  BY <1>1 DEF ReadField
<1>3. Field(Ok(Part(p, D), src), name, "u8")
        = Ok(Part(p, And(D, name)), more)
  BY <1>2, FieldIsRead
<1> QED BY <1>3 DEF src

(* and a number of two bytes.                                                *)
LEMMA NumberField ==
    ASSUME NEW p, NEW D, NEW name, p[name] \in U16, NEW more \in Seq(Byte)
    PROVE  Field(Ok(Part(p, D), TwoBytes(p[name]) \o more), name, "u16")
             = Ok(Part(p, And(D, name)), more)
PROOF
<1> DEFINE src == TwoBytes(p[name]) \o more
<1>1. inner_read_u16(src) = Ok(p[name], more)
  <2>1. p[name] \in Nat /\ p[name] <= 65535
    BY U16Is
  <2> QED BY <2>1, ReadU16
<1> HIDE DEF src
<1>2. ReadField("u16", src) = Ok(p[name], more)
  BY <1>1 DEF ReadField
<1>3. Field(Ok(Part(p, D), src), name, "u16")
        = Ok(Part(p, And(D, name)), more)
  BY <1>2, FieldIsRead
<1> QED BY <1>3 DEF src

(* A field that is there only if the flags say so.                           *)
AndIf(present, D, name) == IF present THEN And(D, name) ELSE D

(* Its bytes.                                                                *)
PrefixedIf(present, bytes) == IF present THEN Prefixed(bytes) ELSE <<>>

(* They are a string, if only one of length 0.                               *)
LEMMA PrefixedIfFacts ==
    ASSUME NEW present \in BOOLEAN, NEW x, present => x \in Binary
    PROVE  PrefixedIf(present, x) \in Seq(Byte)
PROOF
<1>1. CASE present
  BY <1>1, PrefixedFacts DEF PrefixedIf
<1>2. CASE ~present
  BY <1>2 DEF PrefixedIf
<1> QED BY <1>1, <1>2

(* Optional text is read if it is there.                                     *)
LEMMA OptionalString ==
    ASSUME NEW p, NEW D, NEW name, NEW present \in BOOLEAN,
           present => p[name] \in Text, NEW more \in Seq(Byte)
    PROVE  FieldIf(present, Ok(Part(p, D), PrefixedIf(present, p[name]) \o more), name, "string")
             = Ok(Part(p, AndIf(present, D, name)), more)
PROOF
<1>1. CASE present
  BY <1>1, StringField DEF FieldIf, AndIf, PrefixedIf
<1>2. CASE ~present
  <2>1. <<>> \o more = more
    OBVIOUS
  <2> QED BY <1>2, <2>1 DEF FieldIf, AndIf, PrefixedIf
<1> QED BY <1>1, <1>2

(* Optional data is read if it is there.                                     *)
LEMMA OptionalBinary ==
    ASSUME NEW p, NEW D, NEW name, NEW present \in BOOLEAN,
           present => p[name] \in Binary, NEW more \in Seq(Byte)
    PROVE  FieldIf(present, Ok(Part(p, D), PrefixedIf(present, p[name]) \o more), name, "binary")
             = Ok(Part(p, AndIf(present, D, name)), more)
PROOF
<1>1. CASE present
  BY <1>1, BinaryField DEF FieldIf, AndIf, PrefixedIf
<1>2. CASE ~present
  <2>1. <<>> \o more = more
    OBVIOUS
  <2> QED BY <1>2, <2>1 DEF FieldIf, AndIf, PrefixedIf
<1> QED BY <1>1, <1>2

(* Eight strings.                                                            *)
Strings(a, b, c, d, e, f, g, h) ==
    /\ a \in Seq(Byte) /\ b \in Seq(Byte) /\ c \in Seq(Byte) /\ d \in Seq(Byte)
    /\ e \in Seq(Byte) /\ f \in Seq(Byte) /\ g \in Seq(Byte) /\ h \in Seq(Byte)

(* Eight strings in a row, grouped from the left and from the right.         *)
Joined(a, b, c, d, e, f, g, h) == a \o b \o c \o d \o e \o f \o g \o h

(* The same, grouped from the right.                                         *)
Nested(a, b, c, d, e, f, g, h) == a \o (b \o (c \o (d \o (e \o (f \o (g \o h))))))

(* The two are the same.                                                     *)
LEMMA Regroup ==
    ASSUME NEW a, NEW b, NEW c, NEW d, NEW e, NEW f, NEW g, NEW h, Strings(a, b, c, d, e, f, g, h)
    PROVE  Joined(a, b, c, d, e, f, g, h) = Nested(a, b, c, d, e, f, g, h)
PROOF
<1>1. /\ a \in Seq(Byte) /\ b \in Seq(Byte) /\ c \in Seq(Byte) /\ d \in Seq(Byte)
      /\ e \in Seq(Byte) /\ f \in Seq(Byte) /\ g \in Seq(Byte) /\ h \in Seq(Byte)
  BY DEF Strings
<1> DEFINE t6 == g \o h
           t5 == f \o t6
           t4 == e \o t5
           t3 == d \o t4
           t2 == c \o t3
           t1 == b \o t2
           s2 == a \o b
           s3 == s2 \o c
           s4 == s3 \o d
           s5 == s4 \o e
           s6 == s5 \o f
<1>2. /\ t6 \in Seq(Byte) /\ t5 \in Seq(Byte) /\ t4 \in Seq(Byte) /\ t3 \in Seq(Byte) /\ t2 \in Seq(Byte)
      /\ s2 \in Seq(Byte) /\ s3 \in Seq(Byte) /\ s4 \in Seq(Byte) /\ s5 \in Seq(Byte) /\ s6 \in Seq(Byte)
  BY <1>1
<1>3. (s6 \o g) \o h = s6 \o t6
  <2>1. s6 \in Seq(Byte) /\ g \in Seq(Byte) /\ h \in Seq(Byte)
    BY <1>1, <1>2
  <2> HIDE DEF s6
  <2> QED BY <2>1, ConcatAssociative
<1>4. (s5 \o f) \o t6 = s5 \o t5
  <2>1. s5 \in Seq(Byte) /\ f \in Seq(Byte) /\ t6 \in Seq(Byte)
    BY <1>1, <1>2
  <2> HIDE DEF s5, t6
  <2> QED BY <2>1, ConcatAssociative
<1>5. (s4 \o e) \o t5 = s4 \o t4
  <2>1. s4 \in Seq(Byte) /\ e \in Seq(Byte) /\ t5 \in Seq(Byte)
    BY <1>1, <1>2
  <2> HIDE DEF s4, t5
  <2> QED BY <2>1, ConcatAssociative
<1>6. (s3 \o d) \o t4 = s3 \o t3
  <2>1. s3 \in Seq(Byte) /\ d \in Seq(Byte) /\ t4 \in Seq(Byte)
    BY <1>1, <1>2
  <2> HIDE DEF s3, t4
  <2> QED BY <2>1, ConcatAssociative
<1>7. (s2 \o c) \o t3 = s2 \o t2
  <2>1. s2 \in Seq(Byte) /\ c \in Seq(Byte) /\ t3 \in Seq(Byte)
    BY <1>1, <1>2
  <2> HIDE DEF s2, t3
  <2> QED BY <2>1, ConcatAssociative
<1>8. (a \o b) \o t2 = a \o t1
  <2>1. a \in Seq(Byte) /\ b \in Seq(Byte) /\ t2 \in Seq(Byte)
    BY <1>1, <1>2
  <2> HIDE DEF t2
  <2> QED BY <2>1, ConcatAssociative
<1> QED BY <1>3, <1>4, <1>5, <1>6, <1>7, <1>8 DEF Joined, Nested

------------------------------------------------------------------------------
(* A CONNECT is decoded to the fields it was written from.                   *)
LEMMA ConnectFacts ==
    ASSUME NEW p, StandardConnect(p)
    PROVE  /\ p = Part(p, ConnectFields(p.flags))
           /\ p.type = "CONNECT" /\ ~BadConnectFlags(p.flags)
           /\ p["protocol_name"] \in Text /\ p["protocol_level"] \in Byte /\ p["flags"] \in Byte
           /\ p["keep_alive"] \in U16 /\ p["client_id"] \in Text
           /\ Bit(p.flags, 4) => p["will_topic"] \in Text /\ p["will_message"] \in Binary
           /\ Bit(p.flags, 128) => p["username"] \in Text
           /\ Bit(p.flags, 64) => p["password"] \in Binary
           /\ "will_topic" \in DOMAIN p <=> Bit(p.flags, 4)
           /\ "will_message" \in DOMAIN p <=> Bit(p.flags, 4)
           /\ "username" \in DOMAIN p <=> Bit(p.flags, 128)
           /\ "password" \in DOMAIN p <=> Bit(p.flags, 64)
PROOF
<1>1. p = Part(p, ConnectFields(p.flags))
  BY DEF StandardConnect, Part
<1>2. DOMAIN p = ConnectFields(p.flags)
  BY <1>1 DEF Part
<1>3. /\ "will_topic" \in DOMAIN p <=> Bit(p.flags, 4)
      /\ "will_message" \in DOMAIN p <=> Bit(p.flags, 4)
      /\ "username" \in DOMAIN p <=> Bit(p.flags, 128)
      /\ "password" \in DOMAIN p <=> Bit(p.flags, 64)
      /\ "protocol_name" \in DOMAIN p /\ "client_id" \in DOMAIN p
  BY <1>2 DEF ConnectFields
<1> QED BY <1>1, <1>3 DEF StandardConnect

(* Two bytes are one and then the other.                                     *)
LEMMA TwoInOne ==
    ASSUME NEW x \in Byte, NEW y \in Byte, NEW s \in Seq(Byte)
    PROVE  /\ <<x, y>> \in Seq(Byte) /\ <<y>> \o s \in Seq(Byte)
           /\ <<x, y>> \o s = <<x>> \o (<<y>> \o s)
PROOF
<1>1. <<x>> \in Seq(Byte) /\ <<y>> \in Seq(Byte) /\ <<x, y>> \in Seq(Byte)
  OBVIOUS
<1>2. <<x, y>> = <<x>> \o <<y>>
  <2> DEFINE v == <<x, y>>
             w == <<x>> \o <<y>>
  <2>1. v \in Seq(Byte) /\ Len(v) = 2 /\ v[1] = x /\ v[2] = y
    OBVIOUS
  <2>2. w \in Seq(Byte) /\ Len(w) = 2 /\ w[1] = x /\ w[2] = y
    OBVIOUS
  <2> HIDE DEF v, w
  <2>3. \A i \in 1 .. Len(v) : v[i] = w[i]
    BY <2>1, <2>2
  <2>4. v = w
    BY <2>1, <2>2, <2>3, SeqEqual
  <2> QED BY <2>4 DEF v, w
<1> DEFINE a == <<x>>
           b == <<y>>
<1>3. (a \o b) \o s = a \o (b \o s)
  <2>1. a \in Seq(Byte) /\ b \in Seq(Byte)
    BY <1>1
  <2> HIDE DEF a, b
  <2> QED BY <2>1, ConcatAssociative
<1>4. b \o s \in Seq(Byte)
  OBVIOUS
<1> QED BY <1>1, <1>3, <1>4, <1>2

(* What is written for a CONNECT is read as it.                              *)
LEMMA ConnectDecodes ==
    ASSUME NEW p, StandardConnect(p)
    PROVE  /\ StandardBody(p) \in Seq(Byte) /\ Len(StandardBody(p)) >= 2
           /\ \E D : /\ decode_connect(StandardBody(p)) = {Part(p, D)}
                     /\ D \cup {"type"} = ConnectFields(p.flags)
PROOF
<1> DEFINE will == Bit(p.flags, 4)
           named == Bit(p.flags, 128)
           secret == Bit(p.flags, 64)
           a == Prefixed(p["protocol_name"])
           b == <<p["protocol_level"], p["flags"]>>
           c == TwoBytes(p["keep_alive"])
           d == Prefixed(p["client_id"])
           e == PrefixedIf(will, p["will_topic"])
           f == PrefixedIf(will, p["will_message"])
           g == PrefixedIf(named, p["username"])
           h == PrefixedIf(secret, p["password"])
           t6 == g \o h
           t5 == f \o t6
           t4 == e \o t5
           t3 == d \o t4
           t2 == c \o t3
           t1 == <<p["flags"]>> \o t2
           t0 == <<p["protocol_level"]>> \o t1
<1>1. will \in BOOLEAN /\ named \in BOOLEAN /\ secret \in BOOLEAN
  BY DEF Bit
<1>2. \A x \in Text : x \in Binary
  BY DEF Text
<1>3. /\ a \in Seq(Byte) /\ Len(a) >= 2 /\ d \in Seq(Byte)
  BY <1>2, ConnectFacts, PrefixedFacts
<1>4. c \in Seq(Byte)
  BY ConnectFacts, U16Is, TwoBytesFacts
<1>5. e \in Seq(Byte) /\ f \in Seq(Byte) /\ g \in Seq(Byte) /\ h \in Seq(Byte)
  BY <1>1, <1>2, ConnectFacts, PrefixedIfFacts
<1>6. /\ t6 \in Seq(Byte) /\ t5 \in Seq(Byte) /\ t4 \in Seq(Byte) /\ t3 \in Seq(Byte)
      /\ t2 \in Seq(Byte)
  <2> HIDE DEF a, b, c, d, e, f, g, h
  <2> QED BY <1>3, <1>4, <1>5
<1>7. b \in Seq(Byte) /\ t1 \in Seq(Byte) /\ b \o t2 = t0 /\ t0 \in Seq(Byte)
  <2> DEFINE x == p["protocol_level"]
             y == p["flags"]
  <2>1. x \in Byte /\ y \in Byte /\ t2 \in Seq(Byte)
    BY <1>6, ConnectFacts
  <2> HIDE DEF t2, x, y
  <2>2. /\ <<x, y>> \in Seq(Byte) /\ <<y>> \o t2 \in Seq(Byte)
        /\ <<x, y>> \o t2 = <<x>> \o (<<y>> \o t2)
    BY <2>1, TwoInOne
  <2>3. t0 \in Seq(Byte)
    <3>1. t1 \in Seq(Byte)
      BY <2>2 DEF y
    <3> HIDE DEF t1
    <3> QED BY <2>1, <3>1, Prepended DEF x
  <2> QED BY <2>2, <2>3 DEF x, y
<1>8. StandardBody(p) = Joined(a, b, c, d, e, f, g, h)
  BY ConnectFacts DEF StandardBody, PrefixedIf, Joined
<1>9. Joined(a, b, c, d, e, f, g, h) = Nested(a, b, c, d, e, f, g, h)
  <2> HIDE DEF a, b, c, d, e, f, g, h
  <2>1. Strings(a, b, c, d, e, f, g, h)
    BY <1>3, <1>4, <1>5, <1>7 DEF Strings
  <2> QED BY <2>1, Regroup
<1>10. StandardBody(p) = a \o t0
  BY <1>7, <1>8, <1>9 DEF Nested
<1>11. StandardBody(p) \in Seq(Byte) /\ Len(StandardBody(p)) >= 2
  <2>1. a \in Seq(Byte) /\ t0 \in Seq(Byte) /\ Len(a) >= 2
    BY <1>3, <1>7
  <2> HIDE DEF a, t0
  <2>2. a \o t0 \in Seq(Byte) /\ Len(a \o t0) >= 2
    BY <2>1
  <2> QED BY <1>10, <2>2
<1> DEFINE D1 == And({}, "protocol_name")
           D2 == And(D1, "protocol_level")
           D3 == And(D2, "flags")
           D4 == And(D3, "keep_alive")
           D5 == And(D4, "client_id")
           D6 == AndIf(will, D5, "will_topic")
           D7 == AndIf(will, D6, "will_message")
           D8 == AndIf(named, D7, "username")
           D9 == AndIf(secret, D8, "password")
<1>12. ConnectHead(StandardBody(p)) = Ok(Part(p, D3), t2)
  <2>1. NoField(a \o t0) = Ok(Part(p, {}), a \o t0)
    BY NoPart
  <2>2. Field(Ok(Part(p, {}), a \o t0), "protocol_name", "string") = Ok(Part(p, D1), t0)
    <3>1. t0 \in Seq(Byte)
      BY <1>7
    <3> HIDE DEF t0
    <3> QED BY <3>1, ConnectFacts, StringField
  <2>3. Field(Ok(Part(p, D1), t0), "protocol_level", "u8") = Ok(Part(p, D2), t1)
    <3>1. t1 \in Seq(Byte)
      BY <1>7
    <3> HIDE DEF t1, D1
    <3> QED BY <3>1, ConnectFacts, ByteField
  <2>4. Field(Ok(Part(p, D2), t1), "flags", "u8") = Ok(Part(p, D3), t2)
    <3>1. t2 \in Seq(Byte)
      BY <1>6
    <3> HIDE DEF t2, D2
    <3> QED BY <3>1, ConnectFacts, ByteField
  <2> HIDE DEF a, t0, t1, t2, D1, D2, D3
  <2> QED BY <1>10, <2>1, <2>2, <2>3, <2>4 DEF ConnectHead
<1>13. PICK head : head.value = Part(p, D3) /\ head.rest = t2 /\ Ok(Part(p, D3), t2) = {head}
  <2> HIDE DEF D3, t2
  <2> QED BY OkIs
<1>14. head.value.flags = p.flags
  BY <1>13 DEF Part, And
<1>15. ConnectRest(head) = Ok(Part(p, D9), <<>>)
  <2>1. Field({head}, "keep_alive", "u16") = Ok(Part(p, D4), t3)
    <3>1. t3 \in Seq(Byte)
      BY <1>6
    <3> HIDE DEF t3, D3
    <3>2. Field(Ok(Part(p, D3), t2), "keep_alive", "u16") = Ok(Part(p, D4), t3)
      BY <3>1, ConnectFacts, NumberField
    <3> QED BY <1>13, <3>2
  <2>2. Field(Ok(Part(p, D4), t3), "client_id", "string") = Ok(Part(p, D5), t4)
    <3>1. t4 \in Seq(Byte)
      BY <1>6
    <3> HIDE DEF t4, D4
    <3> QED BY <3>1, ConnectFacts, StringField
  <2>3. FieldIf(will, Ok(Part(p, D5), t4), "will_topic", "string") = Ok(Part(p, D6), t5)
    <3>1. t5 \in Seq(Byte) /\ (will => p["will_topic"] \in Text)
      BY <1>6, ConnectFacts
    <3> HIDE DEF t5, D5, will
    <3> QED BY <1>1, <3>1, OptionalString
  <2>4. FieldIf(will, Ok(Part(p, D6), t5), "will_message", "binary") = Ok(Part(p, D7), t6)
    <3>1. t6 \in Seq(Byte) /\ (will => p["will_message"] \in Binary)
      BY <1>6, ConnectFacts
    <3> HIDE DEF t6, D6, will
    <3> QED BY <1>1, <3>1, OptionalBinary
  <2>5. FieldIf(named, Ok(Part(p, D7), t6), "username", "string") = Ok(Part(p, D8), h)
    <3>1. h \in Seq(Byte) /\ (named => p["username"] \in Text)
      BY <1>5, ConnectFacts
    <3> HIDE DEF h, D7, named
    <3> QED BY <1>1, <3>1, OptionalString
  <2>6. FieldIf(secret, Ok(Part(p, D8), h), "password", "binary") = Ok(Part(p, D9), <<>>)
    <3>1. <<>> \in Seq(Byte) /\ h = h \o <<>> /\ (secret => p["password"] \in Binary)
      <4>1. h \in Seq(Byte)
        BY <1>5
      <4>2. secret => p["password"] \in Binary
        BY ConnectFacts
      <4> HIDE DEF h, secret
      <4> QED BY <4>1, <4>2
    <3> DEFINE more == <<>>
    <3>2. more \in Seq(Byte) /\ h = PrefixedIf(secret, p["password"]) \o more
      BY <3>1
    <3> HIDE DEF h, D8, secret, more
    <3>3. FieldIf(secret, Ok(Part(p, D8), PrefixedIf(secret, p["password"]) \o more),
                  "password", "binary") = Ok(Part(p, D9), more)
      BY <1>1, <3>1, <3>2, OptionalBinary
    <3>4. FieldIf(secret, Ok(Part(p, D8), h), "password", "binary") = Ok(Part(p, D9), more)
      BY <3>2, <3>3
    <3> QED BY <3>4 DEF more
  <2> HIDE DEF t3, t4, t5, t6, h, D4, D5, D6, D7, D8, D9
  <2>7. ConnectRest(head) =
          FieldIf(secret, FieldIf(named, FieldIf(will, FieldIf(will,
              Field(Field({head}, "keep_alive", "u16"), "client_id", "string"),
              "will_topic", "string"), "will_message", "binary"), "username", "string"),
              "password", "binary")
    BY <1>14 DEF ConnectRest
  <2> HIDE DEF will, named, secret
  <2> QED BY <2>1, <2>2, <2>3, <2>4, <2>5, <2>6, <2>7
<1>16. decode_connect(StandardBody(p)) = {Part(p, D9)}
  <2>1. ConnectHead(StandardBody(p)) = {head}
    BY <1>12, <1>13
  <2>2. {x \in {head} : ~BadConnectFlags(x.value.flags)} = {head}
    BY <1>14, ConnectFacts
  <2> HIDE DEF D9, D3
  <2>3. PICK r : r.value = Part(p, D9) /\ ConnectRest(head) = {r}
    BY <1>15, OkIs
  <2>4. {x.value : x \in ConnectRest(head)} = {Part(p, D9)}
    BY <2>3
  <2> QED BY <2>1, <2>2, <2>4 DEF decode_connect
<1>17. D9 \cup {"type"} = ConnectFields(p.flags)
  <2> HIDE DEF will, named, secret
  <2>1. ConnectFields(p.flags) =
          {"type", "protocol_name", "protocol_level", "flags", "keep_alive", "client_id"}
            \cup (IF will THEN {"will_topic", "will_message"} ELSE {})
            \cup (IF named THEN {"username"} ELSE {})
            \cup (IF secret THEN {"password"} ELSE {})
    BY DEF ConnectFields, will, named, secret
  <2>2. D5 = {"protocol_name", "protocol_level", "flags", "keep_alive", "client_id"}
    BY DEF And
  <2> HIDE DEF D5
  <2>3. D7 = D5 \cup (IF will THEN {"will_topic", "will_message"} ELSE {})
    BY DEF And, AndIf
  <2> HIDE DEF D7
  <2>4. D9 = D7 \cup (IF named THEN {"username"} ELSE {}) \cup (IF secret THEN {"password"} ELSE {})
    BY DEF And, AndIf
  <2> HIDE DEF D9
  <2> QED BY <2>1, <2>2, <2>3, <2>4
<1> QED BY <1>11, <1>16, <1>17

------------------------------------------------------------------------------
(* A PUBLISH.                                                                *)
PublishNames(qos) ==
    {"type", "dup", "qos", "retain", "topic_name", "payload"}
      \cup (IF qos > 0 THEN {"packet_id"} ELSE {})

(* The fields of a PUBLISH.                                                  *)
LEMMA PublishFacts ==
    ASSUME NEW p \in StandardPublish
    PROVE  /\ p = Part(p, PublishNames(p.qos))
           /\ p.type = "PUBLISH"
           /\ p.dup \in BOOLEAN /\ p.qos \in QoS /\ p.retain \in BOOLEAN
           /\ p["topic_name"] \in Text /\ p["payload"] \in Seq(Byte)
           /\ "packet_id" \in DOMAIN p <=> p.qos > 0
           /\ p.qos > 0 => p["packet_id"] \in U16
PROOF
<1>1. CASE p \in [type : {"PUBLISH"}, dup : BOOLEAN, qos : {0}, retain : BOOLEAN,
                  topic_name : Text, payload : Seq(Byte)]
  <2>1. /\ p.type = "PUBLISH" /\ p.dup \in BOOLEAN /\ p.qos = 0 /\ p.retain \in BOOLEAN
        /\ p["topic_name"] \in Text /\ p["payload"] \in Seq(Byte)
    BY <1>1
  <2>2. DOMAIN p = {"type", "dup", "qos", "retain", "topic_name", "payload"}
    BY <1>1
  <2>3. p = [field \in DOMAIN p |-> p[field]]
    BY <1>1
  <2>4. PublishNames(p.qos) = DOMAIN p
    BY <2>1, <2>2 DEF PublishNames
  <2>5. p = Part(p, PublishNames(p.qos))
    BY <2>3, <2>4 DEF Part
  <2> QED BY <2>1, <2>2, <2>5 DEF QoS
<1>2. CASE p \in [type : {"PUBLISH"}, dup : BOOLEAN, qos : {1, 2}, retain : BOOLEAN,
                  topic_name : Text, packet_id : U16, payload : Seq(Byte)]
  <2>1. /\ p.type = "PUBLISH" /\ p.dup \in BOOLEAN /\ p.qos \in {1, 2} /\ p.retain \in BOOLEAN
        /\ p["topic_name"] \in Text /\ p["payload"] \in Seq(Byte) /\ p["packet_id"] \in U16
    BY <1>2
  <2>2. DOMAIN p = {"type", "dup", "qos", "retain", "topic_name", "packet_id", "payload"}
    BY <1>2
  <2>3. p = [field \in DOMAIN p |-> p[field]]
    BY <1>2
  <2>4. PublishNames(p.qos) = DOMAIN p
    BY <2>1, <2>2 DEF PublishNames
  <2>5. p = Part(p, PublishNames(p.qos))
    BY <2>3, <2>4 DEF Part
  <2> QED BY <2>1, <2>2, <2>5 DEF QoS
<1> QED BY <1>1, <1>2 DEF StandardPublish

(* The last field is all that is left.                                       *)
LEMMA RestField ==
    ASSUME NEW p, NEW D, NEW name, p[name] \in Seq(Byte)
    PROVE  Field(Ok(Part(p, D), p[name]), name, "rest") = Ok(Part(p, And(D, name)), <<>>)
PROOF
<1> DEFINE src == p[name]
           none == <<>>
<1>1. inner_read_exact(src, Len(src)) = Ok(src, none)
  BY ReadAll
<1> HIDE DEF src, none
<1>2. ReadField("rest", src) = Ok(src, none)
  BY <1>1 DEF ReadField
<1>3. Field(Ok(Part(p, D), src), name, "rest") = Ok(Part(p, And(D, name)), none)
  BY <1>2, FieldIsRead DEF src
<1> QED BY <1>3 DEF src, none

(* An optional number of two bytes.                                          *)
NumberIf(present, n) == IF present THEN TwoBytes(n) ELSE <<>>

(* Its bytes are a string, if only one of length 0.                          *)
LEMMA NumberIfFacts ==
    ASSUME NEW present \in BOOLEAN, NEW n, present => n \in U16
    PROVE  /\ NumberIf(present, n) \in Seq(Byte)
           /\ Len(NumberIf(present, n)) = IF present THEN 2 ELSE 0
PROOF
<1>1. CASE present
  BY <1>1, U16Is, TwoBytesFacts DEF NumberIf
<1>2. CASE ~present
  BY <1>2 DEF NumberIf
<1> QED BY <1>1, <1>2

(* It is read if it is there.                                                *)
LEMMA OptionalNumber ==
    ASSUME NEW p, NEW D, NEW name, NEW present \in BOOLEAN,
           present => p[name] \in U16, NEW more \in Seq(Byte)
    PROVE  FieldIf(present, Ok(Part(p, D), NumberIf(present, p[name]) \o more), name, "u16")
             = Ok(Part(p, AndIf(present, D, name)), more)
PROOF
<1>1. CASE present
  BY <1>1, NumberField DEF FieldIf, AndIf, NumberIf
<1>2. CASE ~present
  <2>1. <<>> \o more = more
    OBVIOUS
  <2> QED BY <1>2, <2>1 DEF FieldIf, AndIf, NumberIf
<1> QED BY <1>1, <1>2

(* The bytes of a PUBLISH after its header, and how many they are.           *)
LEMMA PublishBody ==
    ASSUME NEW p \in StandardPublish
    PROVE  /\ StandardBody(p) = Prefixed(p["topic_name"])
                                  \o (NumberIf(p.qos > 0, p["packet_id"]) \o p["payload"])
           /\ StandardBody(p) \in Seq(Byte)
           /\ Len(StandardBody(p)) = 2 + Len(p.topic_name) + (IF p.qos > 0 THEN 2 ELSE 0)
                                       + Len(p.payload)
PROOF
<1> DEFINE present == p.qos > 0
           a == Prefixed(p["topic_name"])
           b == NumberIf(present, p["packet_id"])
           c == p["payload"]
<1>1. p["topic_name"] \in Binary /\ present \in BOOLEAN
  BY PublishFacts DEF Text
<1>2. a \in Seq(Byte) /\ Len(a) = 2 + Len(p.topic_name) /\ Len(p.topic_name) \in Nat
  BY <1>1, PrefixedFacts
<1>3. b \in Seq(Byte) /\ Len(b) = IF present THEN 2 ELSE 0
  <2>1. present => p["packet_id"] \in U16
    BY PublishFacts
  <2> HIDE DEF present
  <2> QED BY <1>1, <2>1, NumberIfFacts
<1>4. c \in Seq(Byte) /\ Len(c) = Len(p.payload)
  BY PublishFacts
<1>5. StandardBody(p) = (a \o b) \o c
  BY PublishFacts DEF StandardBody, NumberIf
<1>6. (a \o b) \o c = a \o (b \o c)
  <2>1. a \in Seq(Byte) /\ b \in Seq(Byte) /\ c \in Seq(Byte)
    BY <1>2, <1>3, <1>4
  <2> HIDE DEF a, b, c
  <2> QED BY <2>1, ConcatAssociative
<1>7. a \o (b \o c) \in Seq(Byte) /\ Len(a \o (b \o c)) = Len(a) + Len(b) + Len(c)
  <2>1. a \in Seq(Byte) /\ b \in Seq(Byte) /\ c \in Seq(Byte)
    BY <1>2, <1>3, <1>4
  <2> HIDE DEF a, b, c
  <2> QED BY <2>1
<1> HIDE DEF a, b, c, present
<1>8. Len(StandardBody(p)) = 2 + Len(p.topic_name) + (IF present THEN 2 ELSE 0) + Len(p.payload)
  BY <1>2, <1>3, <1>4, <1>5, <1>6, <1>7
<1>9. StandardBody(p) = a \o (b \o c) /\ StandardBody(p) \in Seq(Byte)
  BY <1>5, <1>6, <1>7
<1> QED BY <1>8, <1>9 DEF a, b, c, present

(* Its flags hold what they are written from.                                *)
LEMMA PublishFlags ==
    ASSUME NEW p \in StandardPublish
    PROVE  /\ StandardFlags(p) \in 0 .. 15 /\ StandardFlags(p) = publish_flags(p)
           /\ (StandardFlags(p) \div 2) % 4 = p.qos
           /\ Bit(StandardFlags(p), 8) = p.dup
           /\ Bit(StandardFlags(p), 1) = p.retain
PROOF
<1>1. StandardFlags(p) = (IF p.dup THEN 8 ELSE 0) + 2 * p.qos + (IF p.retain THEN 1 ELSE 0)
  BY PublishFacts DEF StandardFlags
<1>2. p.qos = 0 \/ p.qos = 1 \/ p.qos = 2
  BY PublishFacts DEF QoS
<1>3. p.dup \in BOOLEAN /\ p.retain \in BOOLEAN
  BY PublishFacts
<1> DEFINE n == StandardFlags(p)
           q == p.qos
<1>4. publish_flags(p) = n
  BY <1>1 DEF publish_flags
<1>5. q = 0 \/ q = 1 \/ q = 2
  BY <1>2
<1>6. CASE p.dup /\ p.retain
  <2>1. n = 9 + 2 * q
    BY <1>1, <1>2, <1>6
  <2> HIDE DEF n, q
  <2>2. n \in 0 .. 15 /\ (n \div 2) % 4 = q /\ (n \div 8) % 2 = 1 /\ (n \div 1) % 2 = 1
    BY <1>5, <2>1
  <2>3. Bit(n, 8) = TRUE /\ Bit(n, 1) = TRUE
    BY <2>2 DEF Bit
  <2> QED BY <1>3, <1>4, <1>6, <2>2, <2>3 DEF n, q
<1>7. CASE p.dup /\ ~p.retain
  <2>1. n = 8 + 2 * q
    BY <1>1, <1>2, <1>7
  <2> HIDE DEF n, q
  <2>2. n \in 0 .. 15 /\ (n \div 2) % 4 = q /\ (n \div 8) % 2 = 1 /\ (n \div 1) % 2 = 0
    BY <1>5, <2>1
  <2>3. Bit(n, 8) = TRUE /\ Bit(n, 1) = FALSE
    BY <2>2 DEF Bit
  <2> QED BY <1>3, <1>4, <1>7, <2>2, <2>3 DEF n, q
<1>8. CASE ~p.dup /\ p.retain
  <2>1. n = 1 + 2 * q
    BY <1>1, <1>2, <1>8
  <2> HIDE DEF n, q
  <2>2. n \in 0 .. 15 /\ (n \div 2) % 4 = q /\ (n \div 8) % 2 = 0 /\ (n \div 1) % 2 = 1
    BY <1>5, <2>1
  <2>3. Bit(n, 8) = FALSE /\ Bit(n, 1) = TRUE
    BY <2>2 DEF Bit
  <2> QED BY <1>3, <1>4, <1>8, <2>2, <2>3 DEF n, q
<1>9. CASE ~p.dup /\ ~p.retain
  <2>1. n = 2 * q
    BY <1>1, <1>2, <1>9
  <2> HIDE DEF n, q
  <2>2. n \in 0 .. 15 /\ (n \div 2) % 4 = q /\ (n \div 8) % 2 = 0 /\ (n \div 1) % 2 = 0
    BY <1>5, <2>1
  <2>3. Bit(n, 8) = FALSE /\ Bit(n, 1) = FALSE
    BY <2>2 DEF Bit
  <2> QED BY <1>3, <1>4, <1>9, <2>2, <2>3 DEF n, q
<1> QED BY <1>3, <1>6, <1>7, <1>8, <1>9

(* What is written for a PUBLISH is read as it.                              *)
LEMMA PublishDecodes ==
    ASSUME NEW p \in StandardPublish
    PROVE  \E D : /\ decode_publish(StandardFlags(p), StandardBody(p)) = {Part(p, D)}
                  /\ D \cup {"type"} = PublishNames(p.qos)
PROOF
<1> DEFINE flags == StandardFlags(p)
           qos == p.qos
           present == qos > 0
           a == Prefixed(p["topic_name"])
           c == p["payload"]
           t1 == NumberIf(present, p["packet_id"]) \o c
           D1 == And({}, "topic_name")
           D2 == AndIf(present, D1, "packet_id")
           D3 == And(D2, "payload")
           D6 == And(And(And(D3, "retain"), "qos"), "dup")
<1>1. present \in BOOLEAN /\ (present => p["packet_id"] \in U16) /\ c \in Seq(Byte) /\ p["topic_name"] \in Text
  BY PublishFacts
<1>2. t1 \in Seq(Byte)
  <2>1. NumberIf(present, p["packet_id"]) \in Seq(Byte)
    <3> HIDE DEF present
    <3> QED BY <1>1, NumberIfFacts
  <2> QED BY <1>1, <2>1, Cut
<1>3. PublishFields(qos, StandardBody(p)) = Ok(Part(p, D3), <<>>)
  <2>1. NoField(a \o t1) = Ok(Part(p, {}), a \o t1)
    BY NoPart
  <2>2. Field(Ok(Part(p, {}), a \o t1), "topic_name", "string") = Ok(Part(p, D1), t1)
    <3> HIDE DEF t1
    <3> QED BY <1>1, <1>2, StringField
  <2>3. FieldIf(present, Ok(Part(p, D1), t1), "packet_id", "u16") = Ok(Part(p, D2), c)
    <3> HIDE DEF c, D1, present
    <3> QED BY <1>1, OptionalNumber
  <2>4. Field(Ok(Part(p, D2), c), "payload", "rest") = Ok(Part(p, D3), <<>>)
    <3> HIDE DEF D2
    <3> QED BY <1>1, RestField
  <2>5. StandardBody(p) = a \o t1
    BY PublishBody
  <2> HIDE DEF a, t1, c, D1, D2, D3
  <2> QED BY <2>1, <2>2, <2>3, <2>4, <2>5 DEF PublishFields
<1>4. PublishRecord(Bit(flags, 8), qos, Bit(flags, 1), Part(p, D3)) = Part(p, D6)
  <2>1. Bit(flags, 8) = p["dup"] /\ Bit(flags, 1) = p["retain"] /\ qos = p["qos"]
    BY PublishFlags
  <2> HIDE DEF D3
  <2>2. PublishRecord(p["dup"], p["qos"], p["retain"], Part(p, D3)) = Part(p, D6)
    BY PartGrows DEF PublishRecord
  <2> DEFINE x == Bit(flags, 8)
             y == Bit(flags, 1)
  <2> HIDE DEF x, y, qos, D6
  <2>3. x = p["dup"] /\ y = p["retain"] /\ qos = p["qos"]
    BY <2>1 DEF x, y
  <2>4. PublishRecord(x, qos, y, Part(p, D3)) = Part(p, D6)
    BY <2>2, <2>3
  <2> QED BY <2>4 DEF x, y
<1>5. decode_publish(flags, StandardBody(p)) = {Part(p, D6)}
  <2>1. (flags \div 2) % 4 = qos /\ qos \in QoS
    BY PublishFacts, PublishFlags
  <2> HIDE DEF flags, qos, D3, D6
  <2>2. PICK r : r.value = Part(p, D3) /\ PublishFields(qos, StandardBody(p)) = {r}
    BY <1>3, OkIs
  <2>3. decode_publish(flags, StandardBody(p)) =
          {PublishRecord(Bit(flags, 8), qos, Bit(flags, 1), x.value) :
              x \in PublishFields(qos, StandardBody(p))}
    BY <2>1 DEF decode_publish
  <2> QED BY <1>4, <2>2, <2>3
<1>6. D6 \cup {"type"} = PublishNames(qos)
  <2> HIDE DEF qos, present
  <2>1. PublishNames(qos) = {"type", "dup", "qos", "retain", "topic_name", "payload"}
          \cup (IF present THEN {"packet_id"} ELSE {})
    BY DEF PublishNames, present
  <2>2. D2 = {"topic_name"} \cup (IF present THEN {"packet_id"} ELSE {})
    BY DEF And, AndIf
  <2> HIDE DEF D2
  <2>3. D6 = D2 \cup {"payload", "retain", "qos", "dup"}
    BY DEF And
  <2> HIDE DEF D6
  <2> QED BY <2>1, <2>2, <2>3
<1> QED BY <1>5, <1>6

------------------------------------------------------------------------------
(* The packets with no more than an id.                                      *)
Acks == {"PUBACK", "PUBREC", "PUBREL", "PUBCOMP"}

(* They are read as they are written.                                        *)
LEMMA AckDecodes ==
    ASSUME NEW p, p.type \in Acks, p \in [type : {p.type}, packet_id : U16]
    PROVE  /\ StandardBody(p) \in Seq(Byte) /\ Len(StandardBody(p)) = 2
           /\ decode_ack(StandardBody(p)) = {Part(p, {"packet_id"})}
           /\ DOMAIN p = {"type", "packet_id"}
PROOF
<1> DEFINE body == StandardBody(p)
           n == p["packet_id"]
<1>1. n \in U16 /\ "packet_id" \in DOMAIN p /\ DOMAIN p = {"type", "packet_id"}
  OBVIOUS
<1>2. body = TwoBytes(n)
  BY <1>1 DEF StandardBody, Acks
<1>3. n \in Nat /\ n <= 65535
  BY <1>1, U16Is
<1> HIDE DEF body
<1>4. TwoBytes(n) \in Seq(Byte) /\ Len(TwoBytes(n)) = 2
  <2> HIDE DEF n
  <2> QED BY <1>3, TwoBytesFacts
<1>5. TwoBytes(n) \o <<>> = TwoBytes(n) /\ <<>> \in Seq(Byte)
  <2> DEFINE two == TwoBytes(n)
  <2>1. two \in Seq(Byte)
    BY <1>4
  <2> HIDE DEF two
  <2>2. two \o <<>> = two /\ <<>> \in Seq(Byte)
    BY <2>1
  <2> QED BY <2>2 DEF two
<1>6. Field(Ok(Part(p, {}), TwoBytes(n) \o <<>>), "packet_id", "u16")
        = Ok(Part(p, And({}, "packet_id")), <<>>)
  <2> DEFINE none == <<>>
  <2>1. p["packet_id"] \in U16 /\ none \in Seq(Byte)
    BY <1>1, <1>5
  <2> HIDE DEF none
  <2>2. Field(Ok(Part(p, {}), TwoBytes(p["packet_id"]) \o none), "packet_id", "u16")
          = Ok(Part(p, And({}, "packet_id")), none)
    BY <2>1, NumberField
  <2> QED BY <2>2 DEF n, none
<1> DEFINE r == [value |-> Part(p, And({}, "packet_id")), rest |-> <<>>]
<1>7. /\ r.value = Part(p, And({}, "packet_id"))
      /\ Ok(Part(p, And({}, "packet_id")), <<>>) = {r}
  BY DEF Ok
<1> HIDE DEF r
<1>8. NoField(body) = Ok(Part(p, {}), TwoBytes(n) \o <<>>)
  BY <1>2, <1>5, NoPart
<1>9. decode_ack(body) = {Part(p, And({}, "packet_id"))}
  <2>1. Field(NoField(body), "packet_id", "u16") = {r}
    <3> HIDE DEF n
    <3> QED BY <1>6, <1>7, <1>8
  <2>2. decode_ack(body) = {x.value : x \in Field(NoField(body), "packet_id", "u16")}
    BY DEF decode_ack
  <2> QED BY <1>7, <2>1, <2>2
<1>10. And({}, "packet_id") = {"packet_id"}
  BY DEF And
<1> QED BY <1>1, <1>2, <1>4, <1>9, <1>10 DEF body

------------------------------------------------------------------------------
(* The lists of filters.                                                     *)
Entry(leveled) == IF leveled THEN [filter : Text, qos : QoS] ELSE [filter : Text]

(* The level of an entry is read.                                            *)
LEMMA QosIsRead ==
    ASSUME NEW q \in QoS, NEW more \in Seq(Byte)
    PROVE  q \in Byte /\ read_qos(<<q>> \o more) = Ok(q, more)
PROOF
<1>1. q \in Nat /\ q <= 255 /\ q % 4 = q
  BY DEF QoS
<1>2. q \in Byte
  BY <1>1, ByteIs
<1> DEFINE src == <<q>> \o more
<1>3. inner_read_u8(src) = Ok(q, more)
  BY <1>2, ReadU8
<1> HIDE DEF src
<1>4. PICK b : b.value = q /\ b.rest = more /\ Ok(q, more) = {b}
  BY OkIs
<1>5. UNION {Ok(x.value % 4, x.rest) : x \in inner_read_u8(src)} = {b}
  BY <1>1, <1>3, <1>4
<1>6. read_qos(src) = {b}
  BY <1>4, <1>5 DEF read_qos
<1> QED BY <1>2, <1>4, <1>6 DEF src

(* An entry is read from its bytes, of which there are at least two.         *)
LEMMA EntryIsRead ==
    ASSUME NEW leveled \in BOOLEAN, NEW e \in Entry(leveled), NEW more \in Seq(Byte)
    PROVE  /\ StandardEntry(e) \in Seq(Byte) /\ Len(StandardEntry(e)) >= 2
           /\ ReadEntry(leveled, StandardEntry(e) \o more) = Ok(e, more)
PROOF
<1> DEFINE a == Prefixed(e["filter"])
<1>1. e["filter"] \in Text /\ e["filter"] \in Binary
  BY DEF Entry, Text
<1>2. a \in Seq(Byte) /\ Len(a) >= 2
  BY <1>1, PrefixedFacts
<1>3. CASE leveled
  <2> DEFINE q == e["qos"]
             b == <<q>>
             t == b \o more
  <2>1. q \in QoS /\ DOMAIN e = {"filter", "qos"}
    BY <1>3 DEF Entry
  <2>2. q \in Byte /\ read_qos(t) = Ok(q, more)
    <3> HIDE DEF q
    <3> QED BY <2>1, QosIsRead
  <2>3. b \in Seq(Byte) /\ t \in Seq(Byte) /\ Len(b) = 1
    <3> HIDE DEF q
    <3> QED BY <2>2
  <2>4. StandardEntry(e) = a \o b
    BY <2>1 DEF StandardEntry
  <2> HIDE DEF a, b, t, q
  <2>5. a \o b \in Seq(Byte) /\ Len(a \o b) >= 2
    BY <1>2, <2>3
  <2>6. (a \o b) \o more = a \o t
    <3>1. a \in Seq(Byte) /\ b \in Seq(Byte)
      BY <1>2, <2>3
    <3> QED BY <3>1, ConcatAssociative DEF t
  <2>7. Field(NoField(a \o t), "filter", "string") = Ok(Part(e, And({}, "filter")), t)
    <3>1. NoField(a \o t) = Ok(Part(e, {}), a \o t)
      BY NoPart
    <3>2. Field(Ok(Part(e, {}), a \o t), "filter", "string") = Ok(Part(e, And({}, "filter")), t)
      BY <1>1, <2>3, StringField DEF a
    <3> QED BY <3>1, <3>2
  <2>8. Field(Ok(Part(e, And({}, "filter")), t), "qos", "qos")
          = Ok(Part(e, And(And({}, "filter"), "qos")), more)
    <3>1. ReadField("qos", t) = Ok(e["qos"], more)
      BY <2>2 DEF ReadField, q
    <3> QED BY <3>1, FieldIsRead
  <2>9. Part(e, And(And({}, "filter"), "qos")) = e
    <3>1. And(And({}, "filter"), "qos") = DOMAIN e
      BY <2>1 DEF And
    <3>2. e = [field \in DOMAIN e |-> e[field]]
      BY <1>3 DEF Entry
    <3> QED BY <3>1, <3>2 DEF Part
  <2>10. ReadEntry(leveled, a \o t) = Ok(e, more)
    BY <1>3, <2>7, <2>8, <2>9 DEF ReadEntry, FieldIf
  <2> QED BY <2>4, <2>5, <2>6, <2>10
<1>4. CASE ~leveled
  <2>1. DOMAIN e = {"filter"} /\ e = [field \in DOMAIN e |-> e[field]]
    BY <1>4 DEF Entry
  <2>2. StandardEntry(e) = a \o <<>>
    BY <2>1 DEF StandardEntry
  <2> HIDE DEF a
  <2>3. a \o <<>> = a
    BY <1>2
  <2>4. NoField(a \o more) = Ok(Part(e, {}), a \o more)
    BY NoPart
  <2>5. Field(Ok(Part(e, {}), a \o more), "filter", "string") = Ok(Part(e, And({}, "filter")), more)
    BY <1>1, StringField DEF a
  <2>6. Part(e, And({}, "filter")) = e
    <3>1. And({}, "filter") = DOMAIN e
      BY <2>1 DEF And
    <3> QED BY <2>1, <3>1 DEF Part
  <2>7. ReadEntry(leveled, a \o more) = Ok(e, more)
    BY <1>4, <2>4, <2>5, <2>6 DEF ReadEntry, FieldIf
  <2> QED BY <1>2, <2>2, <2>3, <2>7
<1> QED BY <1>3, <1>4

------------------------------------------------------------------------------
(* A turn of the loop over the entries.                                      *)
Turn(leveled, S) ==
    UNION {IF a.rest = <<>> THEN {a}
           ELSE UNION {Ok(Append(a.value, entry.value), entry.rest) :
                          entry \in ReadEntry(leveled, a.rest)} : a \in S}

(* One that reads an entry, and one that finds no bytes.                     *)
LEMMA TurnReads ==
    ASSUME NEW leveled \in BOOLEAN, NEW e \in Entry(leveled), NEW more \in Seq(Byte), NEW v
    PROVE  Turn(leveled, Ok(v, StandardEntry(e) \o more)) = Ok(Append(v, e), more)
PROOF
<1> DEFINE src == StandardEntry(e) \o more
<1>1. ReadEntry(leveled, src) = Ok(e, more)
  BY EntryIsRead
<1>2. src # <<>>
  <2> DEFINE b == StandardEntry(e)
  <2>1. b \in Seq(Byte) /\ Len(b) >= 2
    BY EntryIsRead
  <2> HIDE DEF b
  <2>2. Len(b \o more) = Len(b) + Len(more) /\ Len(b) \in Nat /\ Len(more) \in Nat
    BY <2>1, Cut
  <2>3. b \o more # <<>>
    <3>1. Len(b \o more) # 0
      BY <2>1, <2>2
    <3>2. Len(<<>>) = 0
      OBVIOUS
    <3> QED BY <3>1, <3>2
  <2> QED BY <2>3 DEF b
<1> HIDE DEF src
<1>3. PICK a : a.value = v /\ a.rest = src /\ Ok(v, src) = {a}
  BY OkIs
<1>4. PICK r : r.value = e /\ r.rest = more /\ Ok(e, more) = {r}
  BY OkIs
<1>5. UNION {Ok(Append(a.value, entry.value), entry.rest) : entry \in ReadEntry(leveled, a.rest)}
        = Ok(Append(v, e), more)
  BY <1>1, <1>3, <1>4
<1>6. Turn(leveled, {a}) = Ok(Append(v, e), more)
  BY <1>2, <1>3, <1>5 DEF Turn
<1> QED BY <1>3, <1>6 DEF src

(* One that finds no bytes changes nothing.                                  *)
LEMMA TurnRests ==
    ASSUME NEW leveled, NEW v
    PROVE  Turn(leveled, Ok(v, <<>>)) = Ok(v, <<>>)
PROOF
<1>1. PICK a : a.value = v /\ a.rest = <<>> /\ Ok(v, <<>>) = {a}
  BY OkIs
<1>2. Turn(leveled, {a}) = {a}
  BY <1>1 DEF Turn
<1> QED BY <1>1, <1>2

(* The bytes of the entries of a list.                                       *)
ListBytes(list) == FlattenSeq([i \in DOMAIN list |-> StandardEntry(list[i])])

(* The bytes of each entry.                                                  *)
LEMMA ListFacts ==
    ASSUME NEW leveled \in BOOLEAN, NEW list \in Seq(Entry(leveled))
    PROVE  LET s == [i \in DOMAIN list |-> StandardEntry(list[i])]
           IN /\ s \in Seq(Seq(Byte)) /\ Len(s) = Len(list)
              /\ \A i \in 1 .. Len(list) : s[i] = StandardEntry(list[i]) /\ Len(s[i]) >= 2
PROOF
<1> DEFINE s == [i \in DOMAIN list |-> StandardEntry(list[i])]
           n == Len(list)
<1>1. n \in Nat /\ DOMAIN list = 1 .. n /\ \A i \in 1 .. n : list[i] \in Entry(leveled)
  OBVIOUS
<1> HIDE DEF n
<1>2. \A i \in 1 .. n : StandardEntry(list[i]) \in Seq(Byte) /\ Len(StandardEntry(list[i])) >= 2
  <2>1. <<>> \in Seq(Byte)
    OBVIOUS
  <2> QED BY <1>1, <2>1, EntryIsRead
<1>3. s \in [1 .. n -> Seq(Byte)] /\ \A i \in 1 .. n : s[i] = StandardEntry(list[i])
  BY <1>1, <1>2
<1>4. s \in Seq(Seq(Byte)) /\ Len(s) = n
  <2> HIDE DEF s
  <2> QED BY <1>1, <1>3
<1> QED BY <1>2, <1>3, <1>4 DEF n

(* The loop reads the list, within as many turns as there are bytes.         *)
LEMMA ListIsRead ==
    ASSUME NEW leveled \in BOOLEAN, NEW list \in Seq(Entry(leveled))
    PROVE  /\ ListBytes(list) \in Seq(Byte)
           /\ Len(list) <= Len(ListBytes(list))
           /\ EntriesAfter(leveled, ListBytes(list))[Len(ListBytes(list))] = Ok(list, <<>>)
PROOF
<1> DEFINE s == [i \in DOMAIN list |-> StandardEntry(list[i])]
           n == Len(list)
           src == ListBytes(list)
           m == Len(src)
           rest(j) == FlattenSeq(From(s, j))
           Solves(f) == f = [k \in 0 .. m |-> IF k = 0 THEN Ok(<<>>, src)
                                              ELSE Turn(leveled, f[k - 1])]
           after == CHOOSE f : Solves(f)
           g == [k \in 0 .. m |-> IF k <= n THEN Ok(SubSeq(list, 1, k), rest(k)) ELSE Ok(list, <<>>)]
<1>1. /\ s \in Seq(Seq(Byte)) /\ Len(s) = n
      /\ \A i \in 1 .. n : s[i] = StandardEntry(list[i]) /\ Len(s[i]) >= 2
  BY ListFacts
<1>2. n \in Nat /\ \A i \in 1 .. n : list[i] \in Entry(leveled)
  OBVIOUS
<1>3. rest(0) = src /\ rest(n) = <<>>
  <2>1. FlattenSeq(s) = src
    BY DEF ListBytes
  <2> HIDE DEF s, src
  <2>2. From(s, 0) = s /\ From(s, n) = <<>>
    BY <1>1, FromFacts
  <2>3. FlattenSeq(<<>>) = <<>>
    <3> DEFINE none == <<>>
    <3>1. none \in Seq(Seq(Byte))
      OBVIOUS
    <3> HIDE DEF none
    <3>2. none = <<>> => FlattenSeq(none) = <<>>
      BY <3>1, FlattenFacts
    <3> QED BY <3>2 DEF none
  <2> QED BY <2>1, <2>2, <2>3
<1>4. \A j \in 1 .. n : rest(j) \in Seq(Byte) /\ rest(j - 1) = s[j] \o rest(j)
  <2> HIDE DEF s
  <2> QED BY <1>1, FlattenFrom
<1>5. \A j \in 0 .. n : rest(j) \in Seq(Byte)
  <2>1. FlattenSeq(From(s, 0)) \in Seq(Byte)
    <3>1. From(s, 0) = s
      BY <1>1, FromFacts
    <3> HIDE DEF s
    <3> QED BY <1>1, <3>1, FlattenFacts
  <2> HIDE DEF rest
  <2>2. rest(0) \in Seq(Byte)
    BY <2>1 DEF rest
  <2> HIDE DEF n, s
  <2>3. \A j \in 0 .. n : j = 0 \/ j \in 1 .. n
    BY <1>2
  <2> QED BY <1>4, <2>2, <2>3
<1>6. src \in Seq(Byte) /\ m \in Nat
  <2>1. src \in Seq(Byte)
    <3> HIDE DEF rest, src
    <3> QED BY <1>2, <1>3, <1>5
  <2> HIDE DEF src
  <2> QED BY <2>1
<1> HIDE DEF s, n, src, rest
<1>7. \A j \in Nat : j <= n => Len(rest(j)) + j <= m
  <2> DEFINE S == {j \in Nat : j <= n => Len(rest(j)) + j <= m}
  <2>1. 0 \in S
    BY <1>3, <1>6
  <2>2. ASSUME NEW j \in Nat, j \in S
        PROVE  j + 1 \in S
    <3>1. CASE j + 1 <= n
      <4> DEFINE a == s[j + 1]
                 b == rest(j + 1)
      <4>1. j + 1 \in 1 .. n /\ (j + 1) - 1 = j
        BY <1>2, <3>1
      <4>2. b \in Seq(Byte) /\ rest(j) = a \o b /\ Len(a) >= 2
        BY <1>1, <1>4, <4>1
      <4>3. a \in Seq(Byte)
        BY <1>1, <4>1
      <4>4. Len(a \o b) = Len(a) + Len(b) /\ Len(a) \in Nat /\ Len(b) \in Nat
        <5>1. b \in Seq(Byte)
          BY <4>2
        <5> HIDE DEF a, b
        <5> QED BY <4>3, <5>1, Cut
      <4>5. Len(rest(j)) + j <= m /\ m \in Nat
        BY <1>6, <2>2, <3>1, <1>2
      <4> HIDE DEF m
      <4>6. Len(b) + (j + 1) <= m
        <5>1. Len(a \o b) + j <= m
          BY <4>2, <4>5
        <5>2. Len(a) >= 2
          BY <4>2
        <5> HIDE DEF a, b
        <5> QED BY <4>4, <4>5, <5>1, <5>2
      <4> QED BY <4>6
    <3>2. CASE ~(j + 1 <= n)
      BY <3>2
    <3> QED BY <3>1, <3>2
  <2> HIDE DEF S
  <2>3. \A j \in Nat : j \in S
    BY <2>1, <2>2, Induction
  <2> QED BY <2>3 DEF S
<1>8. n <= m
  <2>1. Len(<<>>) = 0
    OBVIOUS
  <2>2. Len(rest(n)) + n <= m
    BY <1>2, <1>7
  <2> QED BY <1>2, <1>3, <2>1, <2>2
<1>9. g[0] = Ok(<<>>, src)
  <2>1. SubSeq(list, 1, 0) = <<>>
    BY SubSeqEmpty
  <2>2. 0 \in 0 .. m /\ 0 <= n
    BY <1>2, <1>6
  <2> QED BY <1>3, <2>1, <2>2
<1>10. ASSUME NEW k \in 1 .. m
       PROVE  g[k] = Turn(leveled, g[k - 1])
  <2>1. k - 1 \in 0 .. m /\ k \in 0 .. m /\ k \in Nat
    BY <1>6
  <2>2. CASE k <= n
    <3> DEFINE v == SubSeq(list, 1, k - 1)
               e == list[k]
               more == rest(k)
    <3>1. k \in 1 .. n /\ k - 1 <= n
      BY <1>2, <2>1, <2>2
    <3>2. g[k - 1] = Ok(v, rest(k - 1)) /\ g[k] = Ok(SubSeq(list, 1, k), more)
      BY <2>1, <2>2, <3>1
    <3>3. rest(k - 1) = StandardEntry(e) \o more /\ e \in Entry(leveled) /\ more \in Seq(Byte)
      BY <1>1, <1>2, <1>4, <3>1
    <3>4. SubSeq(list, 1, k) = Append(v, e)
      <4>1. k \in 1 .. Len(list) /\ 1 \in 1 .. Len(list) /\ k \in 1 .. k
        BY <1>2, <3>1 DEF n
      <4>2. SubSeq(list, 1, k) = SubSeq(list, 1, k - 1) \o <<list[k]>>
        BY <4>1, SubSeqRecursiveSecond
      <4>3. v \in Seq(Entry(leveled)) /\ e \in Entry(leveled)
        <5>1. \A i \in 1 .. k - 1 : list[i] \in Entry(leveled)
          BY <1>2, <3>1
        <5> QED BY <2>1, <3>3, <5>1, SubSeqProperties
      <4>4. Append(v, e) = v \o <<e>>
        <5> HIDE DEF v, e
        <5> QED BY <4>3
      <4> QED BY <4>2, <4>4
    <3> HIDE DEF v, e, more
    <3>5. Turn(leveled, Ok(v, StandardEntry(e) \o more)) = Ok(Append(v, e), more)
      BY <3>3, TurnReads
    <3> HIDE DEF g
    <3> QED BY <3>2, <3>3, <3>4, <3>5
  <2>3. CASE ~(k <= n)
    <3>1. g[k - 1] = Ok(list, <<>>) /\ g[k] = Ok(list, <<>>)
      <4>1. CASE k - 1 = n
        <5>1. SubSeq(list, 1, n) = list
          BY SubSeqFull DEF n
        <5>2. g[k - 1] = Ok(SubSeq(list, 1, n), rest(n))
          BY <1>2, <2>1, <4>1
        <5>3. g[k] = Ok(list, <<>>)
          BY <2>1, <2>3
        <5> HIDE DEF g
        <5> QED BY <1>3, <5>1, <5>2, <5>3
      <4>2. CASE k - 1 # n
        <5>1. ~(k - 1 <= n)
          BY <1>2, <2>1, <2>3, <4>2
        <5> QED BY <2>1, <2>3, <5>1
      <4> QED BY <4>1, <4>2
    <3> HIDE DEF g
    <3> QED BY <3>1, TurnRests
  <2> QED BY <2>2, <2>3
<1> HIDE DEF m
<1>11. Solves(g)
  <2>1. \A k \in 0 .. m : g[k] = IF k = 0 THEN Ok(<<>>, src) ELSE Turn(leveled, g[k - 1])
    <3>1. \A k \in 0 .. m : k = 0 \/ k \in 1 .. m
      BY <1>6
    <3> HIDE DEF g
    <3> QED BY <1>9, <1>10, <3>1
  <2>2. g = [k \in 0 .. m |-> g[k]]
    OBVIOUS
  <2> HIDE DEF g
  <2> QED BY <2>1, <2>2
<1>12. Solves(after)
  <2> HIDE DEF Solves, g
  <2> QED BY <1>11
<1> HIDE DEF g, after
<1>13. StartAndGoOnAlike(m, after, g)
  <2>1. 0 \in 0 .. m
    BY <1>6
  <2>2. after[0] = g[0]
    BY <1>9, <1>12, <2>1
  <2>3. ASSUME NEW k \in 1 .. m, after[k - 1] = g[k - 1]
        PROVE  after[k] = g[k]
    <3>1. k \in 0 .. m /\ k # 0
      BY <1>6
    <3>2. after[k] = Turn(leveled, after[k - 1])
      BY <1>12, <3>1
    <3> QED BY <1>10, <2>3, <3>2
  <2> QED BY <2>2, <2>3 DEF StartAndGoOnAlike
<1>14. after[m] = g[m]
  <2>1. m \in 0 .. m
    BY <1>6
  <2> QED BY <1>6, <1>13, <2>1, Alike
<1>15. g[m] = Ok(list, <<>>)
  <2>1. m \in 0 .. m
    BY <1>6
  <2>2. CASE m = n
    <3>1. SubSeq(list, 1, n) = list
      BY SubSeqFull DEF n
    <3>2. g[m] = Ok(SubSeq(list, 1, n), rest(n))
      BY <1>2, <2>1, <2>2 DEF g
    <3> QED BY <1>3, <3>1, <3>2
  <2>3. CASE m # n
    <3>1. ~(m <= n)
      BY <1>2, <1>6, <1>8, <2>3
    <3> QED BY <2>1, <3>1 DEF g
  <2> QED BY <2>2, <2>3
<1>16. EntriesAfter(leveled, src) = after
  BY DEF EntriesAfter, Turn, after, m
<1> QED BY <1>6, <1>8, <1>14, <1>15, <1>16 DEF src, m, n

(* What is written for an id and a list is read as them.                     *)
LEMMA ListDecodes ==
    ASSUME NEW leveled \in BOOLEAN, NEW list \in Seq(Entry(leveled)), list # <<>>, NEW id \in U16
    PROVE  /\ TwoBytes(id) \o ListBytes(list) \in Seq(Byte)
           /\ Len(TwoBytes(id) \o ListBytes(list)) >= 2
           /\ decode_list(leveled, TwoBytes(id) \o ListBytes(list))
                = {[packet_id |-> id, list |-> list]}
PROOF
<1> DEFINE two == TwoBytes(id)
           src == ListBytes(list)
<1>1. id \in Nat /\ id <= 65535
  BY U16Is
<1>2. two \in Seq(Byte) /\ Len(two) = 2
  BY <1>1, TwoBytesFacts
<1>3. src \in Seq(Byte) /\ EntriesAfter(leveled, src)[Len(src)] = Ok(list, <<>>)
  BY ListIsRead
<1> HIDE DEF src
<1>4. inner_read_u16(two \o src) = Ok(id, src)
  BY <1>1, <1>3, ReadU16
<1> HIDE DEF two
<1>5. two \o src \in Seq(Byte) /\ Len(two \o src) >= 2
  <2>1. two \in Seq(Byte) /\ src \in Seq(Byte)
    BY <1>2, <1>3
  <2>2. two \o src \in Seq(Byte) /\ Len(two \o src) = Len(two) + Len(src) /\ Len(src) \in Nat
    BY <2>1, Cut
  <2> QED BY <1>2, <2>2
<1>6. PICK r : r.value = id /\ r.rest = src /\ Ok(id, src) = {r}
  BY OkIs
<1>7. PICK e : e.value = list /\ e.rest = <<>> /\ Ok(list, <<>>) = {e}
  BY OkIs
<1>8. {x \in EntriesAfter(leveled, r.rest)[Len(r.rest)] : x.value # <<>>} = {e}
  BY <1>3, <1>6, <1>7
<1>9. decode_list(leveled, two \o src) = {[packet_id |-> id, list |-> list]}
  BY <1>4, <1>6, <1>7, <1>8 DEF decode_list
<1> QED BY <1>5, <1>9 DEF two, src

------------------------------------------------------------------------------

(* The names of the packet types.                                            *)
Types == {PacketType[n] : n \in DOMAIN PacketType}

(* A type has one code.                                                      *)
LEMMA TypeFacts ==
    ASSUME NEW type \in Types
    PROVE  /\ TypeCode(type) \in DOMAIN PacketType /\ PacketType[TypeCode(type)] = type
           /\ TypeCode(type) \in 1 .. 14
PROOF
<1>1. \E n \in DOMAIN PacketType : PacketType[n] = type
  BY DEF Types
<1>2. TypeCode(type) \in DOMAIN PacketType /\ PacketType[TypeCode(type)] = type
  BY <1>1 DEF TypeCode
<1>3. DOMAIN PacketType = 1 .. 14
  BY DEF PacketType
<1> QED BY <1>2, <1>3

(* Each of the names is one of them.                                         *)
LEMMA TypesAre ==
    /\ "CONNECT" \in Types /\ "CONNACK" \in Types /\ "PUBLISH" \in Types
    /\ "PUBACK" \in Types /\ "PUBREC" \in Types /\ "PUBREL" \in Types /\ "PUBCOMP" \in Types
    /\ "SUBSCRIBE" \in Types /\ "SUBACK" \in Types /\ "UNSUBSCRIBE" \in Types
    /\ "UNSUBACK" \in Types /\ "PINGREQ" \in Types /\ "PINGRESP" \in Types
    /\ "DISCONNECT" \in Types
PROOF
<1>1. /\ PacketType[1] = "CONNECT" /\ PacketType[2] = "CONNACK" /\ PacketType[3] = "PUBLISH"
      /\ PacketType[4] = "PUBACK" /\ PacketType[5] = "PUBREC" /\ PacketType[6] = "PUBREL"
      /\ PacketType[7] = "PUBCOMP" /\ PacketType[8] = "SUBSCRIBE" /\ PacketType[9] = "SUBACK"
      /\ PacketType[10] = "UNSUBSCRIBE" /\ PacketType[11] = "UNSUBACK"
      /\ PacketType[12] = "PINGREQ" /\ PacketType[13] = "PINGRESP"
      /\ PacketType[14] = "DISCONNECT"
  BY DEF PacketType
<1>2. /\ 1 \in DOMAIN PacketType /\ 2 \in DOMAIN PacketType /\ 3 \in DOMAIN PacketType
      /\ 4 \in DOMAIN PacketType /\ 5 \in DOMAIN PacketType /\ 6 \in DOMAIN PacketType
      /\ 7 \in DOMAIN PacketType /\ 8 \in DOMAIN PacketType /\ 9 \in DOMAIN PacketType
      /\ 10 \in DOMAIN PacketType /\ 11 \in DOMAIN PacketType /\ 12 \in DOMAIN PacketType
      /\ 13 \in DOMAIN PacketType /\ 14 \in DOMAIN PacketType
  BY DEF PacketType
<1> QED BY <1>1, <1>2 DEF Types

(* The first byte holds the type and the flags.                              *)
LEMMA FirstByte ==
    ASSUME NEW type \in Types, NEW flags \in 0 .. 15
    PROVE  /\ 16 * TypeCode(type) + flags \in Byte
           /\ (16 * TypeCode(type) + flags) \div 16 = TypeCode(type)
           /\ (16 * TypeCode(type) + flags) % 16 = flags
PROOF
<1> DEFINE n == TypeCode(type)
<1>1. n \in 1 .. 14
  BY TypeFacts
<1> HIDE DEF n
<1>2. 16 * n + flags \in Nat /\ 16 * n + flags <= 255
  BY <1>1
<1>3. (16 * n + flags) \div 16 = n /\ (16 * n + flags) % 16 = flags
  BY <1>1
<1> QED BY <1>2, <1>3, ByteIs DEF n

(* The header that the standard writes, before more bytes.                   *)
HeaderBytes(type, flags, l) == <<16 * TypeCode(type) + flags>> \o StandardLength(l)

(* It is a string, and its parts are found again.                            *)
LEMMA HeaderFacts ==
    ASSUME NEW type \in Types, NEW flags \in 0 .. 15, NEW l \in Nat, NEW more \in Seq(Byte)
    PROVE  /\ HeaderBytes(type, flags, l) \in Seq(Byte)
           /\ Len(HeaderBytes(type, flags, l)) = 1 + Digits(l)
           /\ HeaderBytes(type, flags, l) \o more # <<>>
           /\ (HeaderBytes(type, flags, l) \o more)[1] = 16 * TypeCode(type) + flags
           /\ Tail(HeaderBytes(type, flags, l) \o more) = StandardLength(l) \o more
PROOF
<1> DEFINE x == 16 * TypeCode(type) + flags
           s == StandardLength(l)
           c == <<x>>
<1>1. x \in Byte
  BY FirstByte
<1>2. s \in Seq(Byte) /\ Len(s) = Digits(l)
  BY LengthBytes
<1> HIDE DEF x, s
<1>3. c \o s \in Seq(Byte) /\ Len(c \o s) = 1 + Digits(l) /\ c \in Seq(Byte)
  <2>1. s \in Seq(Byte)
    BY <1>2
  <2> QED BY <1>1, <1>2, <2>1, Prepended
<1>4. (c \o s) \o more = c \o (s \o more)
  <2>1. s \in Seq(Byte) /\ c \in Seq(Byte)
    BY <1>2, <1>3
  <2> HIDE DEF c
  <2> QED BY <2>1, ConcatAssociative
<1>5. s \o more \in Seq(Byte)
  <2>1. s \in Seq(Byte)
    BY <1>2
  <2> QED BY <2>1, Cut
<1> DEFINE t == s \o more
<1>6. t \in Seq(Byte)
  BY <1>5
<1> HIDE DEF t
<1>7. c \o t # <<>> /\ (c \o t)[1] = x /\ Tail(c \o t) = t
  BY <1>1, <1>6, Prepended
<1>8. HeaderBytes(type, flags, l) = c \o s
  BY DEF HeaderBytes, x, s
<1> HIDE DEF c
<1>9. (c \o s) \o more # <<>> /\ ((c \o s) \o more)[1] = x /\ Tail((c \o s) \o more) = s \o more
  BY <1>4, <1>7 DEF t
<1> QED BY <1>3, <1>8, <1>9 DEF x, s

(* h is the header of these fields.                                          *)
IsHeader(h, type, flags, l, rest) ==
    h.packet_type = type /\ h.flags = flags /\ h.remaining_length = l /\ h.rest = rest

(* The header of these fields, as the decoder returns it.                    *)
HeaderOf(type, flags, l, rest) ==
    {[packet_type |-> type, flags |-> flags, remaining_length |-> l, rest |-> rest]}

(* It is one header.                                                         *)
LEMMA HeaderIs ==
    ASSUME NEW type, NEW flags, NEW l, NEW rest, NEW S, S = HeaderOf(type, flags, l, rest)
    PROVE  \E h : IsHeader(h, type, flags, l, rest) /\ S = {h}
PROOF
<1> DEFINE h == [packet_type |-> type, flags |-> flags, remaining_length |-> l, rest |-> rest]
<1>1. IsHeader(h, type, flags, l, rest)
  BY DEF IsHeader
<1>2. S = {h}
  BY DEF HeaderOf
<1> HIDE DEF h
<1> QED BY <1>1, <1>2

(* It is read as it is written, whatever follows.                            *)
LEMMA HeaderIsRead ==
    ASSUME NEW type \in Types, NEW flags \in 0 .. 15,
           NEW l \in Nat, Digits(l) <= MaxLengthBytes, NEW more \in Seq(Byte)
    PROVE  decode_fixed_header(HeaderBytes(type, flags, l) \o more)
             = HeaderOf(type, flags, l, more)
PROOF
<1> DEFINE src == HeaderBytes(type, flags, l) \o more
           x == 16 * TypeCode(type) + flags
           t == StandardLength(l) \o more
<1>1. src # <<>> /\ src[1] = x /\ Tail(src) = t
  BY HeaderFacts
<1>2. /\ x \div 16 = TypeCode(type) /\ x % 16 = flags
      /\ TypeCode(type) \in DOMAIN PacketType /\ PacketType[TypeCode(type)] = type
  BY FirstByte, TypeFacts
<1>3. decode_remaining_length(t) = Ok(l, more)
  BY LengthIsDecoded
<1> HIDE DEF src, x, t
<1> DEFINE r == [value |-> l, rest |-> more]
<1>4. r.value = l /\ r.rest = more /\ Ok(l, more) = {r}
  BY DEF Ok
<1> HIDE DEF r
<1> DEFINE h == [packet_type |-> type, flags |-> flags, remaining_length |-> l, rest |-> more]
<1>5. decode_fixed_header(src) = {h}
  <2> DEFINE H(length) == [packet_type |-> PacketType[src[1] \div 16], flags |-> src[1] % 16,
                           remaining_length |-> length.value, rest |-> length.rest]
  <2>1. ~(src = <<>> \/ src[1] \div 16 \notin DOMAIN PacketType)
    BY <1>1, <1>2
  <2>2. decode_fixed_header(src) = {H(length) : length \in decode_remaining_length(Tail(src))}
    BY <2>1 DEF decode_fixed_header
  <2>3. decode_remaining_length(Tail(src)) = {r}
    BY <1>1, <1>3, <1>4
  <2>4. H(r) = h
    BY <1>1, <1>2, <1>4
  <2> HIDE DEF H, h
  <2> QED BY <2>2, <2>3, <2>4
<1> QED BY <1>5 DEF src, HeaderOf

------------------------------------------------------------------------------
(* What follows a header is read as the fields of p.                         *)
ReadAs(h, p) == {Also("type", h.packet_type, fields) : fields \in Body(h)} = {p}

(* It is, after the header of p.                                             *)
Reads(p) ==
    \A h : IsHeader(h, p.type, StandardFlags(p), Len(StandardBody(p)), StandardBody(p))
             => ReadAs(h, p)

(* p has a header, and what follows it is read as the fields of p.           *)
Readable(p) ==
    /\ p.type \in Types /\ StandardFlags(p) \in 0 .. 15
    /\ StandardBody(p) \in Seq(Byte) /\ Reads(p)

(* The type of the header completes the fields.                              *)
LEMMA WithType ==
    ASSUME NEW p, NEW D, p = Part(p, D \cup {"type"}), NEW S, S = {Part(p, D)}
    PROVE  {Also("type", p.type, fields) : fields \in S} = {p}
PROOF
<1>1. Also("type", p["type"], Part(p, D)) = Part(p, And(D, "type"))
  BY PartGrows
<1>2. And(D, "type") = D \cup {"type"}
  BY DEF And
<1>3. Also("type", p.type, Part(p, D)) = p
  BY <1>1, <1>2
<1> HIDE DEF Part
<1>4. {Also("type", p.type, fields) : fields \in {Part(p, D)}} = {Also("type", p.type, Part(p, D))}
  OBVIOUS
<1> QED BY <1>3, <1>4

(* Every packet of a client is readable: a CONNECT,                          *)
LEMMA ConnectReadable ==
    ASSUME NEW p, p.type = "CONNECT", StandardPacket(p)
    PROVE  Readable(p)
PROOF
<1>1. StandardConnect(p)
  BY DEF StandardPacket
<1>2. p = Part(p, ConnectFields(p.flags))
  BY <1>1, ConnectFacts
<1>3. StandardBody(p) \in Seq(Byte)
  BY <1>1, ConnectDecodes
<1>4. PICK D : /\ decode_connect(StandardBody(p)) = {Part(p, D)}
               /\ D \cup {"type"} = ConnectFields(p.flags)
  BY <1>1, ConnectDecodes
<1>5. {Also("type", p.type, fields) : fields \in decode_connect(StandardBody(p))} = {p}
  BY <1>2, <1>4, WithType
<1>6. Reads(p)
  BY <1>5 DEF Reads, ReadAs, IsHeader, Body
<1>7. StandardFlags(p) = 0
  BY DEF StandardFlags
<1> QED BY <1>3, <1>6, <1>7, TypesAre DEF Readable

(* a PUBLISH,                                                                *)
LEMMA PublishReadable ==
    ASSUME NEW p, p.type = "PUBLISH", StandardPacket(p)
    PROVE  Readable(p)
PROOF
<1>1. p \in StandardPublish
  BY DEF StandardPacket
<1>2. p = Part(p, PublishNames(p.qos))
  BY <1>1, PublishFacts
<1>3. StandardBody(p) \in Seq(Byte)
  BY <1>1, PublishBody
<1>4. PICK D : /\ decode_publish(StandardFlags(p), StandardBody(p)) = {Part(p, D)}
               /\ D \cup {"type"} = PublishNames(p.qos)
  BY <1>1, PublishDecodes
<1>5. {Also("type", p.type, fields) : fields \in decode_publish(StandardFlags(p), StandardBody(p))} = {p}
  BY <1>2, <1>4, WithType
<1>6. Reads(p)
  BY <1>5 DEF Reads, ReadAs, IsHeader, Body
<1>7. StandardFlags(p) \in 0 .. 15
  BY <1>1, PublishFlags
<1> QED BY <1>3, <1>6, <1>7, TypesAre DEF Readable

(* a packet with an id only,                                                 *)
LEMMA AckReadable ==
    ASSUME NEW p, p.type \in Acks, StandardPacket(p)
    PROVE  Readable(p)
PROOF
<1>1. p \in [type : {p.type}, packet_id : U16]
  BY DEF StandardPacket, Acks
<1>2. /\ StandardBody(p) \in Seq(Byte)
      /\ decode_ack(StandardBody(p)) = {Part(p, {"packet_id"})}
      /\ DOMAIN p = {"type", "packet_id"}
  BY <1>1, AckDecodes
<1>3. p = Part(p, {"packet_id"} \cup {"type"})
  <2>1. p = [field \in DOMAIN p |-> p[field]]
    BY <1>1
  <2>2. DOMAIN p = {"packet_id"} \cup {"type"}
    BY <1>2
  <2> QED BY <2>1, <2>2 DEF Part
<1>4. {Also("type", p.type, fields) : fields \in decode_ack(StandardBody(p))} = {p}
  BY <1>2, <1>3, WithType
<1>5. Reads(p)
  <2>1. ASSUME NEW h, h.packet_type = p.type, h.rest = StandardBody(p)
        PROVE  Body(h) = decode_ack(StandardBody(p))
    BY <2>1 DEF Body, Acks
  <2> QED BY <1>4, <2>1 DEF Reads, ReadAs, IsHeader
<1>6. StandardFlags(p) = 0 \/ StandardFlags(p) = 2
  BY DEF StandardFlags, Acks
<1>7. StandardFlags(p) \in 0 .. 15
  BY <1>6
<1>8. p.type \in Types
  BY TypesAre DEF Acks
<1> QED BY <1>2, <1>5, <1>7, <1>8 DEF Readable

(* one with a list of filters,                                               *)
LEMMA ListReadable ==
    ASSUME NEW p, p.type \in {"SUBSCRIBE", "UNSUBSCRIBE"}, StandardPacket(p)
    PROVE  Readable(p)
PROOF
<1> DEFINE leveled == p.type = "SUBSCRIBE"
<1>1. /\ p \in [type : {p.type}, packet_id : U16, list : Seq(Entry(leveled))]
      /\ p.list # <<>> /\ leveled \in BOOLEAN
  BY DEF StandardPacket, Entry
<1>2. /\ p.list \in Seq(Entry(leveled)) /\ p.packet_id \in U16
      /\ p = [type |-> p.type, packet_id |-> p.packet_id, list |-> p.list]
  BY <1>1
<1>3. StandardBody(p) = TwoBytes(p.packet_id) \o ListBytes(p.list)
  <2>1. "packet_id" \in DOMAIN p
    BY <1>2
  <2> QED BY <2>1 DEF StandardBody, ListBytes
<1> HIDE DEF leveled
<1>4. /\ StandardBody(p) \in Seq(Byte)
      /\ decode_list(leveled, StandardBody(p)) = {[packet_id |-> p.packet_id, list |-> p.list]}
  BY <1>1, <1>2, <1>3, ListDecodes
<1>5. {Also("type", p.type, fields) : fields \in decode_list(leveled, StandardBody(p))} = {p}
  <2> DEFINE r == [packet_id |-> p.packet_id, list |-> p.list]
  <2>1. Also("type", p.type, r) = p
    <3> DEFINE t == p.type
               i == p.packet_id
               l == p.list
    <3>1. p = [type |-> t, packet_id |-> i, list |-> l]
      BY <1>2
    <3> HIDE DEF t, i, l
    <3>2. Also("type", t, [packet_id |-> i, list |-> l]) = [type |-> t, packet_id |-> i, list |-> l]
      BY DEF Also
    <3> QED BY <3>1, <3>2 DEF t, i, l
  <2> HIDE DEF r
  <2>2. decode_list(leveled, StandardBody(p)) = {r}
    BY <1>4 DEF r
  <2> QED BY <2>1, <2>2
<1>6. Reads(p)
  <2>1. ASSUME NEW h, h.packet_type = p.type, h.rest = StandardBody(p)
        PROVE  Body(h) = decode_list(leveled, StandardBody(p))
    BY <2>1 DEF Body, leveled
  <2> QED BY <1>5, <2>1 DEF Reads, ReadAs, IsHeader
<1>7. StandardFlags(p) = 2
  BY DEF StandardFlags
<1> QED BY <1>4, <1>6, <1>7, TypesAre DEF Readable

(* and one without fields.                                                   *)
LEMMA BareReadable ==
    ASSUME NEW p, p.type \in {"PINGREQ", "DISCONNECT"}, StandardPacket(p)
    PROVE  Readable(p)
PROOF
<1>1. p \in [type : {"PINGREQ", "DISCONNECT"}]
  BY DEF StandardPacket
<1>2. DOMAIN p = {"type"} /\ p = [field \in DOMAIN p |-> p[field]]
  BY <1>1
<1>3. StandardBody(p) = <<>>
  <2>1. "packet_id" \notin DOMAIN p
    BY <1>2
  <2> QED BY <2>1 DEF StandardBody
<1>4. p = Part(p, {} \cup {"type"})
  BY <1>2 DEF Part
<1>5. Part(p, {}) = <<>>
  BY DEF Part
<1>6. {Also("type", p.type, fields) : fields \in {<<>>}} = {p}
  BY <1>4, <1>5, WithType
<1>7. Reads(p)
  <2>1. ASSUME NEW h, h.packet_type = p.type
        PROVE  Body(h) = {<<>>}
    BY <2>1 DEF Body
  <2> QED BY <1>6, <2>1 DEF Reads, ReadAs, IsHeader
<1>8. StandardFlags(p) = 0 /\ <<>> \in Seq(Byte)
  BY DEF StandardFlags
<1> QED BY <1>3, <1>7, <1>8, TypesAre DEF Readable

(* All of them together.                                                     *)
LEMMA EveryReadable ==
    ASSUME NEW p, StandardPacket(p)
    PROVE  Readable(p) /\ Digits(Len(StandardBody(p))) <= MaxLengthBytes
PROOF
<1>1. Digits(Len(StandardBody(p))) <= MaxLengthBytes
  BY DEF StandardPacket
<1>2. p.type = "CONNECT" => Readable(p)
  BY ConnectReadable
<1>3. p.type = "PUBLISH" => Readable(p)
  BY PublishReadable
<1>4. p.type \in {"SUBSCRIBE", "UNSUBSCRIBE"} => Readable(p)
  BY ListReadable
<1>5. p.type \in Acks => Readable(p)
  BY AckReadable
<1>6. CASE p.type \notin {"CONNECT", "PUBLISH", "SUBSCRIBE", "UNSUBSCRIBE"} \cup Acks
  <2>1. p \in [type : {"PINGREQ", "DISCONNECT"}]
    BY <1>6 DEF StandardPacket, Acks
  <2>2. p.type \in {"PINGREQ", "DISCONNECT"}
    BY <2>1
  <2>3. Readable(p)
    BY <2>2, BareReadable
  <2> QED BY <1>1, <2>3
<1> QED BY <1>2, <1>3, <1>4, <1>5, <1>6, <1>1

------------------------------------------------------------------------------
(* The bytes of a packet, and their header.                                  *)
LEMMA BytesFacts ==
    ASSUME NEW p, StandardPacket(p)
    PROVE  /\ p.type \in Types /\ StandardFlags(p) \in 0 .. 15
           /\ StandardBody(p) \in Seq(Byte) /\ Len(StandardBody(p)) \in Nat
           /\ Digits(Len(StandardBody(p))) \in 1 .. MaxLengthBytes
           /\ HeaderBytes(p.type, StandardFlags(p), Len(StandardBody(p))) \in Seq(Byte)
           /\ StandardBytes(p) = HeaderBytes(p.type, StandardFlags(p), Len(StandardBody(p)))
                                   \o StandardBody(p)
           /\ StandardBytes(p) \in Seq(Byte)
           /\ Len(StandardBytes(p)) = 1 + Digits(Len(StandardBody(p))) + Len(StandardBody(p))
PROOF
<1> DEFINE flags == StandardFlags(p)
           body == StandardBody(p)
           l == Len(body)
           head == HeaderBytes(p.type, flags, l)
<1>1. p.type \in Types /\ flags \in 0 .. 15 /\ body \in Seq(Byte)
  BY EveryReadable DEF Readable
<1> HIDE DEF body
<1>2. l \in Nat
  BY <1>1
<1>3. Digits(l) \in Nat \ {0} /\ Digits(l) <= MaxLengthBytes
  BY <1>2, EveryReadable, DigitsPositive DEF body
<1> HIDE DEF l, flags
<1>4. head \in Seq(Byte) /\ Len(head) = 1 + Digits(l)
  BY <1>1, <1>2, HeaderFacts
<1>5. StandardBytes(p) = head \o body
  BY DEF StandardBytes, HeaderBytes, body, l, flags
<1> HIDE DEF head
<1>6. head \o body \in Seq(Byte) /\ Len(head \o body) = Len(head) + Len(body)
  <2>1. head \in Seq(Byte)
    BY <1>4
  <2> QED BY <1>1, <2>1, Cut
<1>7. Digits(l) \in 1 .. MaxLengthBytes
  BY <1>3, CodecAssumption
<1>8. Len(StandardBytes(p)) = 1 + Digits(l) + l
  BY <1>4, <1>5, <1>6 DEF l
<1>9. head \in Seq(Byte) /\ StandardBytes(p) \in Seq(Byte)
  BY <1>4, <1>5, <1>6
<1> QED BY <1>1, <1>2, <1>5, <1>7, <1>8, <1>9 DEF body, l, flags, head

(* The header of the bytes of a packet, whatever follows them.               *)
LEMMA HeaderOfBytes ==
    ASSUME NEW p, StandardPacket(p), NEW more \in Seq(Byte)
    PROVE  decode_fixed_header(StandardBytes(p) \o more)
             = HeaderOf(p.type, StandardFlags(p), Len(StandardBody(p)), StandardBody(p) \o more)
PROOF
<1> DEFINE flags == StandardFlags(p)
           body == StandardBody(p)
           l == Len(body)
           head == HeaderBytes(p.type, flags, l)
<1>1. /\ p.type \in Types /\ flags \in 0 .. 15 /\ body \in Seq(Byte) /\ l \in Nat
      /\ Digits(l) \in 1 .. MaxLengthBytes /\ head \in Seq(Byte)
      /\ StandardBytes(p) = head \o body
  BY BytesFacts
<1>2. (head \o body) \o more = head \o (body \o more)
  <2>1. head \in Seq(Byte) /\ body \in Seq(Byte)
    BY <1>1
  <2> HIDE DEF head, body
  <2> QED BY <2>1, ConcatAssociative
<1> HIDE DEF body, flags, l
<1> DEFINE rest == body \o more
<1>3. rest \in Seq(Byte)
  <2>1. body \in Seq(Byte)
    BY <1>1
  <2> QED BY <2>1, Cut
<1>4. Digits(l) <= MaxLengthBytes
  BY <1>1, CodecAssumption
<1> HIDE DEF rest
<1>5. decode_fixed_header(head \o rest) = HeaderOf(p.type, flags, l, rest)
  <2> DEFINE type == p.type
  <2>1. type \in Types /\ flags \in 0 .. 15 /\ l \in Nat
    BY <1>1
  <2> HIDE DEF type
  <2>2. decode_fixed_header(HeaderBytes(type, flags, l) \o rest)
          = HeaderOf(type, flags, l, rest)
    BY <2>1, <1>3, <1>4, HeaderIsRead
  <2> QED BY <2>2 DEF type
<1>6. StandardBytes(p) \o more = head \o rest
  BY <1>1, <1>2 DEF rest
<1> QED BY <1>5, <1>6 DEF rest, body, flags, l

(* What a client writes is decoded to what it wrote.                         *)
THEOREM PacketDecodes ==
    ASSUME NEW p, StandardPacket(p)
    PROVE  decode(StandardBytes(p)) = {p}
PROOF
<1> DEFINE src == StandardBytes(p)
           body == StandardBody(p)
<1>1. body \in Seq(Byte) /\ src \in Seq(Byte)
  BY BytesFacts
<1>2. PICK h : /\ IsHeader(h, p.type, StandardFlags(p), Len(body), body)
               /\ decode_fixed_header(src) = {h}
  <2> DEFINE none == <<>>
  <2>1. none \in Seq(Byte)
    OBVIOUS
  <2>2. body \o none = body /\ src \o none = src
    <3> HIDE DEF body, src
    <3> QED BY <1>1
  <2> HIDE DEF none
  <2>3. decode_fixed_header(src \o none)
          = HeaderOf(p.type, StandardFlags(p), Len(body), body \o none)
    BY <2>1, HeaderOfBytes
  <2>4. decode_fixed_header(src) = HeaderOf(p.type, StandardFlags(p), Len(body), body)
    BY <2>2, <2>3
  <2> HIDE DEF body, src
  <2> QED BY <2>4, HeaderIs
<1>3. {Also("type", h.packet_type, fields) : fields \in Body(h)} = {p}
  <2>1. Reads(p)
    BY EveryReadable DEF Readable
  <2>2. ReadAs(h, p)
    BY <1>2, <2>1 DEF Reads
  <2> QED BY <2>2 DEF ReadAs
<1> HIDE DEF src, body
<1>4. Len(h.rest) >= h.remaining_length
  BY <1>1, <1>2 DEF IsHeader
<1>5. {x \in decode_fixed_header(src) : Len(x.rest) >= x.remaining_length} = {h}
  BY <1>2, <1>4
<1>6. decode(src) = {p}
  BY <1>3, <1>5 DEF decode
<1> QED BY <1>6 DEF src

------------------------------------------------------------------------------
(* What the encoder writes at the front of a packet, and for an id.          *)
LEMMA HeaderIsWritten ==
    ASSUME NEW type, NEW flags, NEW l \in Nat
    PROVE  write_fixed_header(type, flags, l) = HeaderBytes(type, flags, l)
PROOF BY LengthIsWritten DEF write_fixed_header, HeaderBytes

(* The header is a string.                                                   *)
LEMMA HeaderIsBytes ==
    ASSUME NEW type \in Types, NEW flags \in 0 .. 15, NEW l \in Nat
    PROVE  HeaderBytes(type, flags, l) \in Seq(Byte)
PROOF
<1> DEFINE none == <<>>
<1>1. none \in Seq(Byte)
  OBVIOUS
<1> HIDE DEF none
<1> QED BY <1>1, HeaderFacts

(* The encoder writes an id as the standard does.                            *)
LEMMA IdIsWritten ==
    ASSUME NEW n \in Nat, n <= 65535
    PROVE  put_u16(n) = TwoBytes(n)
PROOF
<1>1. (n \div 256) % 256 = n \div 256
  OBVIOUS
<1> QED BY <1>1 DEF put_u16, TwoBytes

(* q is written as the standard says, with this length.                      *)
WrittenWith(q, l) == encode(q) = {StandardBytes(q)} /\ Len(StandardBody(q)) = l

(* The packets that the broker sends are: those with an id only,             *)
LEMMA SimpleIsWritten ==
    ASSUME NEW type \in Acks \cup {"UNSUBACK"}, NEW id \in U16
    PROVE  WrittenWith([type |-> type, packet_id |-> id], 2)
PROOF
<1> DEFINE q == [type |-> type, packet_id |-> id]
           flags == StandardFlags(q)
<1>1. id \in Nat /\ id <= 65535
  BY U16Is
<1>2. q.type = type /\ q.packet_id = id /\ "packet_id" \in DOMAIN q
  OBVIOUS
<1>3. flags = IF type = "PUBREL" THEN 2 ELSE 0
  BY <1>2 DEF StandardFlags, Acks
<1> HIDE DEF q
<1>4. StandardBody(q) = TwoBytes(id)
  BY <1>2 DEF StandardBody, Acks
<1>5. Len(TwoBytes(id)) = 2
  BY <1>1, TwoBytesFacts
<1>6. encode(q) = {simple_packet_with_flags(type, flags, id)}
  BY <1>2, <1>3 DEF encode, Acks
<1>7. simple_packet_with_flags(type, flags, id) = HeaderBytes(type, flags, 2) \o TwoBytes(id)
  BY <1>1, HeaderIsWritten, IdIsWritten DEF simple_packet_with_flags
<1>8. StandardBytes(q) = HeaderBytes(type, flags, 2) \o TwoBytes(id)
  BY <1>2, <1>4, <1>5 DEF StandardBytes, HeaderBytes
<1>9. encode(q) = {StandardBytes(q)} /\ Len(StandardBody(q)) = 2
  BY <1>4, <1>5, <1>6, <1>7, <1>8
<1> QED BY <1>9 DEF WrittenWith, q

(* the CONNACK,                                                              *)
LEMMA ConnackIsWritten ==
    ASSUME NEW present \in BOOLEAN, NEW code
    PROVE  WrittenWith([type |-> "CONNACK", session_present |-> present, return_code |-> code], 2)
PROOF
<1> DEFINE q == [type |-> "CONNACK", session_present |-> present, return_code |-> code]
           body == <<IF present THEN 1 ELSE 0, code>>
<1>1. q.type = "CONNACK" /\ q.session_present = present /\ q.return_code = code
  OBVIOUS
<1> HIDE DEF q
<1>2. StandardBody(q) = body /\ StandardFlags(q) = 0
  BY <1>1 DEF StandardBody, StandardFlags
<1>3. Len(body) = 2
  OBVIOUS
<1>4. encode(q) = {HeaderBytes("CONNACK", 0, 2) \o body}
  BY <1>1, HeaderIsWritten DEF encode, connack
<1>5. StandardBytes(q) = HeaderBytes("CONNACK", 0, 2) \o body
  <2> HIDE DEF body
  <2> QED BY <1>1, <1>2, <1>3 DEF StandardBytes, HeaderBytes
<1>6. encode(q) = {StandardBytes(q)} /\ Len(StandardBody(q)) = 2
  BY <1>2, <1>3, <1>4, <1>5
<1> QED BY <1>6 DEF WrittenWith, q

(* the PINGRESP,                                                             *)
LEMMA PingrespIsWritten == WrittenWith([type |-> "PINGRESP"], 0)
PROOF
<1> DEFINE q == [type |-> "PINGRESP"]
           head == HeaderBytes("PINGRESP", 0, 0)
<1>1. q.type = "PINGRESP" /\ "packet_id" \notin DOMAIN q
  OBVIOUS
<1> HIDE DEF q
<1>2. StandardBody(q) = <<>> /\ StandardFlags(q) = 0 /\ Len(<<>>) = 0
  BY <1>1 DEF StandardBody, StandardFlags
<1>3. encode(q) = {head}
  BY <1>1, HeaderIsWritten DEF encode
<1>4. head \in Seq(Byte)
  <2> DEFINE none == 0
             flags == 0
  <2>1. none \in Nat /\ flags \in 0 .. 15 /\ "PINGRESP" \in Types
    BY TypesAre
  <2> HIDE DEF none, flags
  <2>2. HeaderBytes("PINGRESP", flags, none) \in Seq(Byte)
    BY <2>1, HeaderIsBytes
  <2> QED BY <2>2 DEF none, flags
<1>5. StandardBytes(q) = head \o <<>>
  BY <1>1, <1>2 DEF StandardBytes, HeaderBytes
<1>6. head \o <<>> = head
  <2> HIDE DEF head
  <2> QED BY <1>4
<1>7. encode(q) = {StandardBytes(q)} /\ Len(StandardBody(q)) = 0
  BY <1>2, <1>3, <1>5, <1>6
<1> QED BY <1>7 DEF WrittenWith, q

(* the SUBACK,                                                               *)
LEMMA SubackIsWritten ==
    ASSUME NEW id \in U16, NEW codes \in Seq(Byte)
    PROVE  WrittenWith([type |-> "SUBACK", packet_id |-> id, return_codes |-> codes], 2 + Len(codes))
PROOF
<1> DEFINE q == [type |-> "SUBACK", packet_id |-> id, return_codes |-> codes]
           two == TwoBytes(id)
           l == 2 + Len(codes)
           head == HeaderBytes("SUBACK", 0, l)
<1>1. /\ q.type = "SUBACK" /\ q.packet_id = id /\ q.return_codes = codes
      /\ "packet_id" \in DOMAIN q
  OBVIOUS
<1> HIDE DEF q
<1>2. id \in Nat /\ id <= 65535 /\ l \in Nat
  BY U16Is
<1>3. two \in Seq(Byte) /\ Len(two) = 2
  BY <1>2, TwoBytesFacts
<1>4. StandardBody(q) = two \o codes /\ StandardFlags(q) = 0
  BY <1>1 DEF StandardBody, StandardFlags
<1>5. put_u16(id) = two
  BY <1>2, IdIsWritten
<1> HIDE DEF two
<1>6. Len(two \o codes) = l
  <2>1. two \in Seq(Byte)
    BY <1>3
  <2>2. Len(two \o codes) = Len(two) + Len(codes)
    BY <2>1, Cut
  <2> QED BY <1>3, <2>2
<1> HIDE DEF l
<1>7. head \in Seq(Byte)
  <2> DEFINE flags == 0
             type == "SUBACK"
  <2>1. flags \in 0 .. 15 /\ type \in Types /\ l \in Nat
    BY <1>2, TypesAre
  <2> HIDE DEF flags, type
  <2>2. HeaderBytes(type, flags, l) \in Seq(Byte)
    BY <2>1, HeaderIsBytes
  <2> QED BY <2>2 DEF flags, type
<1>8. encode(q) = {(head \o two) \o codes}
  <2>1. write_fixed_header("SUBACK", 0, l) = head
    BY <1>2, HeaderIsWritten
  <2> HIDE DEF head
  <2>2. suback(q) = (head \o two) \o codes
    BY <1>1, <1>5, <2>1 DEF suback, l
  <2> QED BY <1>1, <2>2 DEF encode
<1>9. StandardBytes(q) = head \o (two \o codes)
  BY <1>1, <1>4, <1>6 DEF StandardBytes, HeaderBytes
<1>10. (head \o two) \o codes = head \o (two \o codes)
  <2>1. head \in Seq(Byte) /\ two \in Seq(Byte)
    BY <1>3, <1>7
  <2> HIDE DEF head
  <2> QED BY <2>1, ConcatAssociative
<1>11. encode(q) = {StandardBytes(q)} /\ Len(StandardBody(q)) = l
  <2> HIDE DEF head
  <2> QED BY <1>4, <1>6, <1>8, <1>9, <1>10
<1> QED BY <1>11 DEF WrittenWith, q, l

(* and the PUBLISH.                                                          *)
LEMMA PublishIsWritten ==
    ASSUME NEW p \in StandardPublish
    PROVE  encode(p) = {StandardBytes(p)}
PROOF
<1> DEFINE present == p.qos > 0
           flags == StandardFlags(p)
           a == Prefixed(p.topic_name)
           b == NumberIf(present, p["packet_id"])
           c == p.payload
           l == Len(StandardBody(p))
           head == HeaderBytes("PUBLISH", flags, l)
<1>1. /\ p.type = "PUBLISH" /\ p["topic_name"] \in Text /\ c \in Seq(Byte)
      /\ present \in BOOLEAN
      /\ present => p["packet_id"] \in U16
      /\ "packet_id" \in DOMAIN p <=> present
  BY PublishFacts
<1>2. /\ StandardBody(p) = a \o (b \o c) /\ StandardBody(p) \in Seq(Byte)
      /\ l = 2 + Len(p.topic_name) + (IF present THEN 2 ELSE 0) + Len(c)
  BY PublishBody
<1>3. p.topic_name \in Binary
  BY <1>1 DEF Text
<1>4. a \in Seq(Byte) /\ Len(p.topic_name) \in Nat /\ Len(p.topic_name) <= 65535
  BY <1>3, PrefixedFacts
<1>5. b \in Seq(Byte)
  <2> HIDE DEF present
  <2> QED BY <1>1, NumberIfFacts
<1>6. l \in Nat
  <2> DEFINE s == StandardBody(p)
  <2>1. s \in Seq(Byte)
    BY <1>2
  <2> HIDE DEF s
  <2>2. Len(s) \in Nat
    BY <2>1
  <2> QED BY <2>2 DEF s
<1>7. remaining_length_for_packet(p) = l
  BY <1>2 DEF remaining_length_for_packet
<1>8. publish_flags(p) = flags /\ flags \in 0 .. 15
  BY PublishFlags
<1>9. write_utf8_string(p.topic_name) = a
  <2> DEFINE n == Len(p.topic_name)
  <2>1. n \in Nat /\ n <= 65535
    BY <1>4
  <2> HIDE DEF n
  <2>2. put_u16(n) = TwoBytes(n)
    BY <2>1, IdIsWritten
  <2> QED BY <2>2 DEF write_utf8_string, Prefixed, n
<1>10. (IF p.qos > 0 THEN put_u16(p.packet_id) ELSE <<>>) = b
  <2>1. CASE present
    <3>1. p["packet_id"] \in Nat /\ p["packet_id"] <= 65535
      BY <1>1, <2>1, U16Is
    <3>2. put_u16(p["packet_id"]) = TwoBytes(p["packet_id"])
      BY <3>1, IdIsWritten
    <3> QED BY <2>1, <3>2 DEF NumberIf
  <2>2. CASE ~present
    BY <2>2 DEF NumberIf
  <2> QED BY <2>1, <2>2
<1>11. head \in Seq(Byte)
  <2> HIDE DEF l, flags
  <2>1. "PUBLISH" \in Types /\ flags \in 0 .. 15
    BY <1>8, TypesAre
  <2> QED BY <1>6, <2>1, HeaderIsBytes
<1>12. encode(p) = {((head \o a) \o b) \o c}
  <2>1. write_fixed_header("PUBLISH", flags, l) = head
    <3> HIDE DEF l, flags
    <3> QED BY <1>6, HeaderIsWritten
  <2>2. publish(p) = {((head \o a) \o b) \o c}
    <3> HIDE DEF head, a, b, l, flags
    <3> QED BY <1>1, <1>7, <1>8, <1>9, <1>10, <2>1 DEF publish
  <2> QED BY <1>1, <2>2 DEF encode
<1>13. StandardBytes(p) = head \o (a \o (b \o c))
  <2>1. StandardBytes(p) = head \o StandardBody(p)
    BY <1>1 DEF StandardBytes, HeaderBytes
  <2> HIDE DEF head, a, b, c
  <2> QED BY <1>2, <2>1
<1>14. ((head \o a) \o b) \o c = head \o (a \o (b \o c))
  <2>1. head \in Seq(Byte) /\ a \in Seq(Byte) /\ b \in Seq(Byte) /\ c \in Seq(Byte)
    BY <1>1, <1>4, <1>5, <1>11
  <2> HIDE DEF head, a, b, c
  <2>2. head \o a \in Seq(Byte) /\ b \o c \in Seq(Byte)
    BY <2>1
  <2>3. ((head \o a) \o b) \o c = (head \o a) \o (b \o c)
    BY <2>1, <2>2, ConcatAssociative
  <2>4. (head \o a) \o (b \o c) = head \o (a \o (b \o c))
    BY <2>1, <2>2, ConcatAssociative
  <2> QED BY <2>3, <2>4
<1> HIDE DEF head, a, b, c
<1> QED BY <1>12, <1>13, <1>14

------------------------------------------------------------------------------

(* A packet that is not longer than one that fits does fit.                  *)
LEMMA FitsIfShorter ==
    ASSUME NEW p, StandardPacket(p), NEW q, NEW l \in Nat,
           WrittenWith(q, l), l <= Len(StandardBody(p))
    PROVE  encode(q) = {StandardBytes(q)} /\ Digits(Len(StandardBody(q))) <= MaxLengthBytes
PROOF
<1> DEFINE m == Len(StandardBody(p))
<1>1. m \in Nat /\ Digits(m) \in 1 .. MaxLengthBytes
  BY BytesFacts
<1>2. Digits(l) <= Digits(m)
  <2> HIDE DEF m
  <2>1. l <= m
    BY DEF m
  <2> QED BY <1>1, <2>1, DigitsGrow
<1>3. Digits(l) \in Nat /\ MaxLengthBytes \in Nat
  BY DigitsPositive, CodecAssumption
<1>4. Digits(l) <= MaxLengthBytes
  <2> HIDE DEF m
  <2> QED BY <1>1, <1>2, <1>3
<1> QED BY <1>4 DEF WrittenWith

(* The body of the packets that are answered is not shorter than the answer. *)
LEMMA BodyIsLong ==
    ASSUME NEW p, StandardPacket(p)
    PROVE  /\ Len(StandardBody(p)) \in Nat
           /\ p.type \notin {"PINGREQ", "DISCONNECT"} => Len(StandardBody(p)) >= 2
           /\ p.type = "SUBSCRIBE" => Len(StandardBody(p)) >= 2 + Len(p.list)
PROOF
<1>1. Len(StandardBody(p)) \in Nat
  BY BytesFacts
<1>2. p.type = "CONNECT" => Len(StandardBody(p)) >= 2
  BY ConnectDecodes DEF StandardPacket
<1>3. p.type = "PUBLISH" => Len(StandardBody(p)) >= 2
  <2> SUFFICES ASSUME p.type = "PUBLISH"
               PROVE  Len(StandardBody(p)) >= 2
    OBVIOUS
  <2>1. p \in StandardPublish
    BY DEF StandardPacket
  <2>2. Len(StandardBody(p)) = 2 + Len(p.topic_name) + (IF p.qos > 0 THEN 2 ELSE 0) + Len(p.payload)
    BY <2>1, PublishBody
  <2>3. Len(p.topic_name) \in Nat /\ Len(p.payload) \in Nat
    BY <2>1, PublishFacts DEF Text, Binary
  <2> DEFINE l == Len(StandardBody(p))
             m == Len(p.topic_name)
             n == Len(p.payload)
  <2>4. l = 2 + m + (IF p.qos > 0 THEN 2 ELSE 0) + n /\ m \in Nat /\ n \in Nat
    BY <2>2, <2>3
  <2> HIDE DEF l, m, n
  <2>5. l >= 2
    BY <2>4
  <2> QED BY <2>5 DEF l
<1>4. p.type \in Acks => Len(StandardBody(p)) >= 2
  <2> SUFFICES ASSUME p.type \in Acks
               PROVE  Len(StandardBody(p)) >= 2
    OBVIOUS
  <2>1. p \in [type : {p.type}, packet_id : U16]
    BY DEF StandardPacket, Acks
  <2>2. Len(StandardBody(p)) = 2
    BY <2>1, AckDecodes
  <2> QED BY <2>2
<1>5. p.type \in {"SUBSCRIBE", "UNSUBSCRIBE"} => Len(StandardBody(p)) >= 2 + Len(p.list) /\ Len(p.list) \in Nat
  <2> SUFFICES ASSUME p.type \in {"SUBSCRIBE", "UNSUBSCRIBE"}
               PROVE  Len(StandardBody(p)) >= 2 + Len(p.list) /\ Len(p.list) \in Nat
    OBVIOUS
  <2> DEFINE leveled == p.type = "SUBSCRIBE"
             two == TwoBytes(p.packet_id)
             list == ListBytes(p.list)
  <2>1. /\ p \in [type : {p.type}, packet_id : U16, list : Seq(Entry(leveled))]
        /\ leveled \in BOOLEAN
    BY DEF StandardPacket, Entry
  <2>2. p.list \in Seq(Entry(leveled)) /\ p.packet_id \in U16 /\ "packet_id" \in DOMAIN p
    BY <2>1
  <2>3. StandardBody(p) = two \o list
    BY <2>2 DEF StandardBody, ListBytes
  <2>4. two \in Seq(Byte) /\ Len(two) = 2
    BY <2>2, U16Is, TwoBytesFacts
  <2> HIDE DEF leveled
  <2>5. list \in Seq(Byte) /\ Len(p.list) <= Len(list)
    BY <2>1, <2>2, ListIsRead
  <2>6. Len(p.list) \in Nat
    <3> DEFINE l == p.list
    <3>1. l \in Seq(Entry(leveled))
      BY <2>2
    <3> HIDE DEF l
    <3>2. Len(l) \in Nat
      BY <3>1
    <3> QED BY <3>2 DEF l
  <2> HIDE DEF two, list
  <2>7. Len(two \o list) = Len(two) + Len(list) /\ Len(list) \in Nat
    <3>1. two \in Seq(Byte) /\ list \in Seq(Byte)
      BY <2>4, <2>5
    <3> QED BY <3>1, Cut
  <2> QED BY <2>3, <2>4, <2>5, <2>6, <2>7
<1>6. p.type \notin {"CONNECT", "PUBLISH", "SUBSCRIBE", "UNSUBSCRIBE"} \cup Acks
        => p.type \in {"PINGREQ", "DISCONNECT"}
  <2>1. p.type \notin {"CONNECT", "PUBLISH", "SUBSCRIBE", "UNSUBSCRIBE"} \cup Acks
          => p \in [type : {"PINGREQ", "DISCONNECT"}]
    BY DEF StandardPacket, Acks
  <2> QED BY <2>1
<1> HIDE DEF StandardBody
<1>7. p.type \in {"SUBSCRIBE", "UNSUBSCRIBE"} => Len(StandardBody(p)) >= 2
  BY <1>1, <1>5
<1> QED BY <1>1, <1>2, <1>3, <1>4, <1>5, <1>6, <1>7

(* What goes on to a subscriber is as long as what came in, or shorter.      *)
LEMMA ForwardedFits ==
    ASSUME NEW p, StandardPacket(p), NEW q \in Forwarded(p)
    PROVE  encode(q) = {StandardBytes(q)} /\ Digits(Len(StandardBody(q))) <= MaxLengthBytes
PROOF
<1>1. p.type = "PUBLISH"
  BY DEF Forwarded
<1>2. p \in StandardPublish
  BY <1>1 DEF StandardPacket
<1>3. CASE p.qos = 0
  <2>1. q = p
    BY <1>1, <1>3 DEF Forwarded
  <2>2. Digits(Len(StandardBody(q))) <= MaxLengthBytes
    BY <2>1 DEF StandardPacket
  <2> QED BY <1>2, <2>1, <2>2, PublishIsWritten
<1>4. CASE p.qos # 0
  <2>1. q = [p EXCEPT !.qos = 1, !.packet_id = NextId]
    BY <1>1, <1>4 DEF Forwarded
  <2>2. p \in [type : {"PUBLISH"}, dup : BOOLEAN, qos : {1, 2}, retain : BOOLEAN,
               topic_name : Text, packet_id : U16, payload : Seq(Byte)]
    BY <1>2, <1>4 DEF StandardPublish
  <2>3. NextId \in U16
    BY FramingAssumption
  <2> DEFINE n == NextId
  <2> HIDE DEF n
  <2>4. /\ q \in [type : {"PUBLISH"}, dup : BOOLEAN, qos : {1, 2}, retain : BOOLEAN,
                  topic_name : Text, packet_id : U16, payload : Seq(Byte)]
        /\ q.qos = 1 /\ q.topic_name = p.topic_name /\ q.payload = p.payload
        /\ p.qos > 0
    <3>1. /\ q.type = p.type /\ q.dup = p.dup /\ q.qos = 1 /\ q.retain = p.retain
          /\ q.topic_name = p.topic_name /\ q.packet_id = n /\ q.payload = p.payload
          /\ DOMAIN q = DOMAIN p /\ q = [field \in DOMAIN p |-> q[field]]
      BY <2>1, <2>2 DEF n
    <3>2. /\ p.type = "PUBLISH" /\ p.dup \in BOOLEAN /\ p.qos \in {1, 2} /\ p.retain \in BOOLEAN
          /\ p.topic_name \in Text /\ p.payload \in Seq(Byte)
          /\ DOMAIN p = {"type", "dup", "qos", "retain", "topic_name", "packet_id", "payload"}
      BY <2>2
    <3>3. q = [type |-> "PUBLISH", dup |-> p.dup, qos |-> 1, retain |-> p.retain,
               topic_name |-> p.topic_name, packet_id |-> n, payload |-> p.payload]
      BY <3>1, <3>2
    <3>4. n \in U16
      BY <2>3 DEF n
    <3>5. p.qos > 0
      BY <3>2
    <3> DEFINE a == p.dup
               b == p.retain
               c == p.topic_name
               d == p.payload
    <3>6. a \in BOOLEAN /\ b \in BOOLEAN /\ c \in Text /\ d \in Seq(Byte)
      BY <3>2
    <3> HIDE DEF a, b, c, d
    <3>7. [type |-> "PUBLISH", dup |-> a, qos |-> 1, retain |-> b,
           topic_name |-> c, packet_id |-> n, payload |-> d]
            \in [type : {"PUBLISH"}, dup : BOOLEAN, qos : {1, 2}, retain : BOOLEAN,
                 topic_name : Text, packet_id : U16, payload : Seq(Byte)]
      BY <3>4, <3>6
    <3> QED BY <3>1, <3>3, <3>5, <3>7 DEF a, b, c, d
  <2>5. q \in StandardPublish
    BY <2>4 DEF StandardPublish
  <2>6. Len(StandardBody(q)) = Len(StandardBody(p))
    <3>1. Len(StandardBody(q)) = 2 + Len(q.topic_name) + (IF q.qos > 0 THEN 2 ELSE 0) + Len(q.payload)
      BY <2>5, PublishBody
    <3>2. Len(StandardBody(p)) = 2 + Len(p.topic_name) + (IF p.qos > 0 THEN 2 ELSE 0) + Len(p.payload)
      BY <1>2, PublishBody
    <3>3. q.qos > 0
      BY <2>4
    <3> DEFINE m == Len(p.topic_name)
               k == Len(p.payload)
               x == Len(StandardBody(q))
               y == Len(StandardBody(p))
    <3>4. x = 2 + m + 2 + k /\ y = 2 + m + 2 + k
      BY <2>4, <3>1, <3>2, <3>3
    <3> HIDE DEF m, k, x, y
    <3>5. x = y
      BY <3>4
    <3> QED BY <3>5 DEF x, y
  <2>7. Digits(Len(StandardBody(p))) <= MaxLengthBytes
    BY DEF StandardPacket
  <2> QED BY <2>5, <2>6, <2>7, PublishIsWritten
<1> QED BY <1>3, <1>4

(* What the broker answers is as long as what it answers, or shorter.        *)
LEMMA RepliesFit ==
    ASSUME NEW p, StandardPacket(p), NEW q \in HandlerReplies(p)
    PROVE  encode(q) = {StandardBytes(q)} /\ Digits(Len(StandardBody(q))) <= MaxLengthBytes
PROOF
<1> DEFINE Simple(type, id) == [type |-> type, packet_id |-> id]
<1>1. p.type = "CONNECT" => WrittenWith(q, 2)
  <2> SUFFICES ASSUME p.type = "CONNECT"
               PROVE  WrittenWith(q, 2)
    OBVIOUS
  <2> DEFINE present == ~Bit(p.flags, 2)
  <2>1. q = [type |-> "CONNACK", session_present |-> present, return_code |-> Accepted]
    BY DEF HandlerReplies
  <2>2. present \in BOOLEAN
    OBVIOUS
  <2> HIDE DEF present
  <2> QED BY <2>1, <2>2, ConnackIsWritten
<1>2. p.type = "PUBLISH" => WrittenWith(q, 2)
  <2> SUFFICES ASSUME p.type = "PUBLISH"
               PROVE  WrittenWith(q, 2)
    OBVIOUS
  <2>1. p.qos \in {1, 2} /\ \E type \in Acks : q = [type |-> type, packet_id |-> p.packet_id]
    BY DEF HandlerReplies, Acks
  <2>2. p \in StandardPublish
    BY DEF StandardPacket
  <2>3. p.packet_id \in U16
    <3>1. p.qos > 0
      BY <2>1
    <3> QED BY <2>2, <3>1, PublishFacts
  <2> QED BY <2>1, <2>3, SimpleIsWritten
<1>3. p.type \in Acks => WrittenWith(q, 2)
  <2> SUFFICES ASSUME p.type \in Acks
               PROVE  WrittenWith(q, 2)
    OBVIOUS
  <2>1. \E type \in Acks : q = [type |-> type, packet_id |-> p.packet_id]
    BY DEF HandlerReplies, Acks
  <2>2. p \in [type : {p.type}, packet_id : U16]
    BY DEF StandardPacket, Acks
  <2>3. p.packet_id \in U16
    BY <2>2
  <2> QED BY <2>1, <2>3, SimpleIsWritten
<1>4. p.type = "UNSUBSCRIBE" => WrittenWith(q, 2)
  <2> SUFFICES ASSUME p.type = "UNSUBSCRIBE"
               PROVE  WrittenWith(q, 2)
    OBVIOUS
  <2>1. q = [type |-> "UNSUBACK", packet_id |-> p.packet_id]
    BY DEF HandlerReplies
  <2>2. p.packet_id \in U16
    BY DEF StandardPacket
  <2> QED BY <2>1, <2>2, SimpleIsWritten
<1>5. p.type = "SUBSCRIBE" => Len(p.list) \in Nat /\ WrittenWith(q, 2 + Len(p.list))
  <2> SUFFICES ASSUME p.type = "SUBSCRIBE"
               PROVE  Len(p.list) \in Nat /\ WrittenWith(q, 2 + Len(p.list))
    OBVIOUS
  <2> DEFINE l == p.list
             n == Len(l)
  <2>1. p.packet_id \in U16 /\ l \in Seq([filter : Text, qos : QoS])
    BY DEF StandardPacket
  <2>2. n \in Nat /\ DOMAIN l = 1 .. n
    <3> HIDE DEF l
    <3> QED BY <2>1
  <2>3. PICK codes \in [DOMAIN l -> {SuccessQoS1, Failure}] :
            q = [type |-> "SUBACK", packet_id |-> p.packet_id, return_codes |-> codes]
    BY DEF HandlerReplies
  <2> HIDE DEF n, l
  <2>4. SuccessQoS1 \in Byte /\ Failure \in Byte
    BY DEF SuccessQoS1, Failure, Byte
  <2>5. codes \in [1 .. n -> Byte]
    BY <2>2, <2>3, <2>4
  <2>6. codes \in Seq(Byte) /\ Len(codes) = n
    BY <2>2, <2>5
  <2>7. WrittenWith(q, 2 + Len(codes))
    BY <2>1, <2>3, <2>6, SubackIsWritten
  <2> QED BY <2>2, <2>6, <2>7 DEF n, l
<1>6. p.type = "PINGREQ" => WrittenWith(q, 0)
  BY PingrespIsWritten DEF HandlerReplies
<1>7. p.type # "DISCONNECT"
  BY DEF HandlerReplies
<1>8. /\ Len(StandardBody(p)) \in Nat
      /\ p.type \notin {"PINGREQ", "DISCONNECT"} => Len(StandardBody(p)) >= 2
      /\ p.type = "SUBSCRIBE" => Len(StandardBody(p)) >= 2 + Len(p.list)
  BY BodyIsLong
<1>9. p.type \in {"CONNECT", "PUBLISH", "SUBSCRIBE", "UNSUBSCRIBE", "PINGREQ"} \cup Acks
  BY <1>7 DEF HandlerReplies, Acks
<1>10. \E l \in Nat : WrittenWith(q, l) /\ l <= Len(StandardBody(p))
  <2>1. CASE p.type = "SUBSCRIBE"
    <3>1. 2 + Len(p.list) \in Nat
      BY <1>5, <2>1
    <3> QED BY <1>5, <1>8, <2>1, <3>1
  <2>2. CASE p.type = "PINGREQ"
    <3>1. 0 \in Nat /\ 0 <= Len(StandardBody(p))
      BY <1>8
    <3> QED BY <1>6, <2>2, <3>1
  <2>3. CASE p.type \in {"CONNECT", "PUBLISH", "UNSUBSCRIBE"} \cup Acks
    <3>1. WrittenWith(q, 2)
      BY <1>1, <1>2, <1>3, <1>4, <2>3
    <3>2. 2 \in Nat /\ 2 <= Len(StandardBody(p))
      BY <1>8, <2>3 DEF Acks
    <3> QED BY <3>1, <3>2
  <2> QED BY <1>9, <2>1, <2>2, <2>3
<1> QED BY <1>10, FitsIfShorter
==============================================================================
