-------------------------- MODULE PacketHeaderProofs ---------------------------
(***************************************************************************)
(* What Frame::write puts into a header, Frame::read finds in it again,    *)
(* for every frame: every flag word, every identifier and every value that *)
(* fits the 32 bits of its field.                                          *)
(***************************************************************************)
EXTENDS PacketHeader, SequenceTheorems, TLAPS

\* The quotient and the rest of a division by 256.
LEMMA Division ==
    ASSUME NEW m \in Nat
    PROVE  /\ m \div 256 \in Nat /\ U8(m) \in Octet
           /\ m = 256 * (m \div 256) + U8(m)
<1>1. m \div 256 \in Nat /\ m % 256 \in 0..255
  BY SMT
<1>2. m = 256 * (m \div 256) + (m % 256)
  BY SMT
<1> QED
  BY <1>1, <1>2 DEF U8, Octet

\* `as u8` keeps an octet.
LEMMA OctetKept ==
    ASSUME NEW m \in Nat, m < 256
    PROVE  m \in Octet /\ U8(m) = m
  BY SMT DEF U8, Octet

\* Two octets in network order are the 16 bits they were made of.
LEMMA U16RoundTrip ==
    ASSUME NEW n \in Nat, n < 65536
    PROVE  \E high, low \in Octet :
              WriteU16(n) = <<high, low>> /\ ReadU16(high, low) = n
<1>1. n \div 256 \in Nat /\ n \div 256 < 256
  BY SMT
<1> DEFINE high == n \div 256  low == U8(n)
<1>2. high \in Octet /\ U8(high) = high
  BY <1>1, OctetKept
<1>3. low \in Octet /\ n = 256 * high + low
  BY Division
<1>4. WriteU16(n) = <<high, low>>
  BY <1>2 DEF WriteU16
<1> HIDE DEF high, low
<1>5. ReadU16(high, low) = n
  BY <1>3 DEF ReadU16
<1> QED
  BY <1>2, <1>3, <1>4, <1>5

\* Four octets in network order are the 32 bits they were made of.
LEMMA U32RoundTrip ==
    ASSUME NEW n \in Word
    PROVE  \E a, b, c, d \in Octet :
              WriteU32(n) = <<a, b, c, d>> /\ ReadU32(a, b, c, d) = n
<1>1. n \in Nat /\ n \div 16777216 < 256
  BY DEF Word
<1>2. /\ n \div 16777216 \in Nat /\ n \div 16777216 < 256
      /\ n \div 65536 \in Nat /\ n \div 256 \in Nat
  BY <1>1, SMT
<1>3. /\ (n \div 256) \div 256 = n \div 65536
      /\ (n \div 65536) \div 256 = n \div 16777216
  BY <1>1, SMT
<1> DEFINE a == n \div 16777216  b == n \div 65536  c == n \div 256
           x == U8(b)  y == U8(c)  z == U8(n)
<1>4. a \in Octet /\ U8(a) = a
  BY <1>2, OctetKept
<1>5. /\ b = 256 * a + x /\ x \in Octet
      /\ c = 256 * b + y /\ y \in Octet
      /\ n = 256 * c + z /\ z \in Octet
  BY <1>1, <1>2, <1>3, Division
<1>6. WriteU32(n) = <<a, x, y, z>>
  BY <1>4 DEF WriteU32
<1>7. b \in Nat /\ c \in Nat
  BY <1>2
<1> HIDE DEF a, b, c, x, y, z
<1>8. ReadU32(a, x, y, z) = n
  <2>1. 16777216 * a + 65536 * x + 256 * y + z = n
    BY <1>1, <1>4, <1>5, <1>7, SMT DEF Octet
  <2> QED
    BY <2>1 DEF ReadU32
<1> QED
  BY <1>4, <1>5, <1>6, <1>8

\* A flag word keeps each of the four flags apart, whatever set of them it
\* carries.
LEMMA FlagsRoundTrip ==
    ASSUME NEW flags \in SUBSET Flag
    PROVE  Bits(flags) \in 0..15 /\ FromBits(Bits(flags)) = flags
<1> DEFINE s == BitIf("SYN", flags, 1)  k == BitIf("ACK", flags, 2)
           f == BitIf("FIN", flags, 4)  r == BitIf("RST", flags, 8)
<1>1. /\ s \in {0, 1} /\ k \in {0, 2} /\ f \in {0, 4} /\ r \in {0, 8}
      /\ (s = 1 <=> "SYN" \in flags) /\ (k = 2 <=> "ACK" \in flags)
      /\ (f = 4 <=> "FIN" \in flags) /\ (r = 8 <=> "RST" \in flags)
  BY DEF BitIf
<1>2. Bits(flags) = s + k + f + r
  BY DEF Bits
<1> HIDE DEF s, k, f, r
<1>3. Bits(flags) \in 0..15
  BY <1>1, <1>2
<1>4. /\ (Bits(flags) \div 1) % 2 = 1 <=> s = 1
      /\ (Bits(flags) \div 2) % 2 = 1 <=> k = 2
      /\ (Bits(flags) \div 4) % 2 = 1 <=> f = 4
      /\ (Bits(flags) \div 8) % 2 = 1 <=> r = 8
  BY <1>1, <1>2
<1>5. \A flag \in Flag :
         (Bits(flags) \div Bit[flag]) % 2 = 1 <=> flag \in flags
  BY <1>1, <1>4 DEF Flag, Bit
<1> QED
  BY <1>3, <1>5 DEF FromBits

\* What is known of u, the join of s and t, of m and n octets.
Joins(s, t, u, m, n) ==
    /\ u \in Seq(Octet) /\ Len(u) = m + n
    /\ \A i \in 1..m : u[i] = s[i]
    /\ \A i \in 1..n : u[m + i] = t[i]

\* The octets of two fields, one after the other.
LEMMA Joined ==
    ASSUME NEW s \in Seq(Octet), NEW t \in Seq(Octet), NEW m \in Nat,
           NEW n \in Nat, Len(s) = m, Len(t) = n
    PROVE  Joins(s, t, s \o t, m, n)
<1> DEFINE u == s \o t
<1>1. /\ u \in Seq(Octet) /\ Len(u) = Len(s) + Len(t)
      /\ \A i \in 1..Len(s) + Len(t) :
            u[i] = IF i <= Len(s) THEN s[i] ELSE t[i - Len(s)]
  BY ConcatProperties, Zenon
<1> HIDE DEF u
<1>2. Len(u) = m + n
  BY <1>1
<1>3. \A i \in 1..m : u[i] = s[i]
  BY <1>1
<1>4. ASSUME NEW i \in 1..n PROVE u[m + i] = t[i]
  <2>1. m + i \in 1..Len(s) + Len(t) /\ ~(m + i <= Len(s)) /\ (m + i) - Len(s) = i
    OBVIOUS
  <2> QED
    BY <1>1, <2>1
<1>5. Joins(s, t, u, m, n)
  BY <1>1, <1>2, <1>3, <1>4 DEF Joins
<1> QED
  BY <1>5 DEF u

\* What a header may hold.
HeaderValue ==
    [version : Octet, type : Octet, flags : SUBSET Flag, stream_id : Word,
     length : Word]

\* Header::read of what Header::write has written is the header, and it took
\* twelve octets.
THEOREM HeaderRoundTrip ==
    ASSUME NEW header \in HeaderValue
    PROVE  /\ WriteHeader(header) \in [1..12 -> Octet]
           /\ ReadHeader(WriteHeader(header)) = header
<1>1. /\ header.version \in Octet /\ header.type \in Octet
      /\ header.flags \in SUBSET Flag
      /\ header.stream_id \in Word /\ header.length \in Word
  BY DEF HeaderValue
<1>2. U8(header.version) = header.version /\ U8(header.type) = header.type
  <2>1. \A m \in Octet : m \in Nat /\ m < 256
    BY DEF Octet
  <2> QED
    BY <1>1, <2>1, OctetKept
<1>3. PICK c, d \in Octet : /\ WriteU16(Bits(header.flags)) = <<c, d>>
                           /\ ReadU16(c, d) = Bits(header.flags)
  <2>1. Bits(header.flags) \in Nat /\ Bits(header.flags) < 65536
    BY <1>1, FlagsRoundTrip
  <2> QED
    BY <2>1, U16RoundTrip
<1>4. PICK e, f, g, h \in Octet : /\ WriteU32(header.stream_id) = <<e, f, g, h>>
                                 /\ ReadU32(e, f, g, h) = header.stream_id
  BY <1>1, U32RoundTrip
<1>5. PICK i, j, k, l \in Octet : /\ WriteU32(header.length) = <<i, j, k, l>>
                                 /\ ReadU32(i, j, k, l) = header.length
  BY <1>1, U32RoundTrip
<1> DEFINE o == <<header.version, header.type, c, d, e, f, g, h, i, j, k, l>>
<1>6. WriteHeader(header) = o
  <2> DEFINE s == <<header.version, header.type>>  t == <<c, d>>
             u == <<e, f, g, h>>  v == <<i, j, k, l>>
  <2>1. WriteHeader(header) = ((s \o t) \o u) \o v
    BY <1>2, <1>3, <1>4, <1>5 DEF WriteHeader
  <2>2. /\ s \in Seq(Octet) /\ Len(s) = 2 /\ t \in Seq(Octet) /\ Len(t) = 2
        /\ u \in Seq(Octet) /\ Len(u) = 4 /\ v \in Seq(Octet) /\ Len(v) = 4
    BY <1>1
  <2>3. /\ s[1] = header.version /\ s[2] = header.type
        /\ t[1] = c /\ t[2] = d
        /\ u[1] = e /\ u[2] = f /\ u[3] = g /\ u[4] = h
        /\ v[1] = i /\ v[2] = j /\ v[3] = k /\ v[4] = l
    OBVIOUS
  <2> HIDE DEF s, t, u, v
  <2> DEFINE st == s \o t  stu == st \o u  stuv == stu \o v
  <2>4. Joins(s, t, st, 2, 2)
    BY <2>2, Joined
  <2>5. st \in Seq(Octet) /\ Len(st) = 4
    BY <2>4 DEF Joins
  <2> HIDE DEF st
  <2>6. Joins(st, u, stu, 4, 4)
    BY <2>2, <2>5, Joined
  <2>7. stu \in Seq(Octet) /\ Len(stu) = 8
    BY <2>6 DEF Joins
  <2> HIDE DEF stu
  <2>8. Joins(stu, v, stuv, 8, 4)
    BY <2>2, <2>7, Joined
  <2> HIDE DEF stuv
  <2>9. st[1] = s[1] /\ st[2] = s[2] /\ st[3] = t[1] /\ st[4] = t[2]
    BY <2>4 DEF Joins
  <2>10. /\ stu[1] = st[1] /\ stu[2] = st[2] /\ stu[3] = st[3] /\ stu[4] = st[4]
         /\ stu[5] = u[1] /\ stu[6] = u[2] /\ stu[7] = u[3] /\ stu[8] = u[4]
    BY <2>6 DEF Joins
  <2>11. /\ stuv \in Seq(Octet) /\ Len(stuv) = 12
         /\ stuv[1] = stu[1] /\ stuv[2] = stu[2] /\ stuv[3] = stu[3]
         /\ stuv[4] = stu[4] /\ stuv[5] = stu[5] /\ stuv[6] = stu[6]
         /\ stuv[7] = stu[7] /\ stuv[8] = stu[8] /\ stuv[9] = v[1]
         /\ stuv[10] = v[2] /\ stuv[11] = v[3] /\ stuv[12] = v[4]
    BY <2>8 DEF Joins
  <2>12. stuv = o
    BY <2>3, <2>9, <2>10, <2>11
  <2> QED
    BY <2>1, <2>12 DEF stuv, stu, st
<1>7. o \in [1..12 -> Octet]
  BY <1>1
<1>8. ReadHeader(o) = [version |-> header.version, type |-> header.type,
                       flags |-> FromBits(ReadU16(c, d)),
                       stream_id |-> ReadU32(e, f, g, h),
                       length |-> ReadU32(i, j, k, l)]
  BY DEF ReadHeader
<1>9. FromBits(ReadU16(c, d)) = header.flags
  BY <1>1, <1>3, FlagsRoundTrip
<1>10. ReadHeader(o) = header
  BY <1>4, <1>5, <1>8, <1>9 DEF HeaderValue
<1> QED
  BY <1>6, <1>7, <1>10

\* What Frame::write makes of a frame fits a header.
LEMMA HeaderFits ==
    ASSUME NEW frame \in HeaderFrame \cup UnknownFrame
    PROVE  /\ ToHeader(frame) \in HeaderValue
           /\ Known(ToHeader(frame).type) <=> frame.event.kind # "Unknown"
           /\ frame \in HeaderFrame => FromHeader(ToHeader(frame)) = frame
<1> DEFINE header == ToHeader(frame)
<1>1. 0 \in Word /\ {} \in SUBSET Flag
  BY DEF Word
<1>2. ASSUME NEW kind \in {"Data", "WindowUpdate", "Ping", "GoAway", "Unknown"},
             NEW id \in Word, NEW flags \in SUBSET Flag, NEW value \in Word,
             frame.event.kind = kind, frame.event.flags = flags,
             frame.stream = id, Value(frame.event) = value
      PROVE  /\ header \in HeaderValue
             /\ header = [version |-> 0, type |-> TypeByte[kind], flags |-> flags,
                          stream_id |-> id, length |-> value]
             /\ Known(header.type) <=> kind # "Unknown"
  <2>1. header = [version |-> 0, type |-> TypeByte[kind], flags |-> flags,
                  stream_id |-> id, length |-> value]
    BY <1>2 DEF ToHeader, NewHeader
  <2>2. TypeByte[kind] \in Octet /\ (TypeByte[kind] \in 0..3 <=> kind # "Unknown")
    BY DEF TypeByte, Octet
  <2>3. 0 \in Octet
    BY DEF Octet
  <2> HIDE DEF header
  <2> QED BY <2>1, <2>2, <2>3 DEF HeaderValue, Known
<1>3. CASE \E id \in Word, flags \in SUBSET Flag, size \in Word :
              frame = Frame(id, Data(flags, size))
  <2>1. PICK id \in Word, flags \in SUBSET Flag, size \in Word :
           frame = Frame(id, Data(flags, size))
    BY <1>3
  <2>2. /\ frame.event.kind = "Data" /\ frame.event.flags = flags
        /\ frame.stream = id /\ Value(frame.event) = size
    BY <2>1 DEF Frame, Data, Value
  <2>3. TypeByte["Data"] = 0
    BY DEF TypeByte
  <2> QED BY <1>2, <2>1, <2>2, <2>3 DEF FromHeader
<1>4. CASE \E id \in Word, flags \in SUBSET Flag, delta \in Word :
              frame = Frame(id, WindowUpdate(flags, delta))
  <2>1. PICK id \in Word, flags \in SUBSET Flag, delta \in Word :
           frame = Frame(id, WindowUpdate(flags, delta))
    BY <1>4
  <2>2. /\ frame.event.kind = "WindowUpdate" /\ frame.event.flags = flags
        /\ frame.stream = id /\ Value(frame.event) = delta
    BY <2>1 DEF Frame, WindowUpdate, Value
  <2>3. TypeByte["WindowUpdate"] = 1
    BY DEF TypeByte
  <2> QED BY <1>2, <2>1, <2>2, <2>3 DEF FromHeader
<1>5. CASE \E flags \in SUBSET Flag, code \in Word : frame = Ping(flags, code)
  <2>1. PICK flags \in SUBSET Flag, code \in Word : frame = Ping(flags, code)
    BY <1>5
  <2>2. /\ frame.event.kind = "Ping" /\ frame.event.flags = flags
        /\ frame.stream = 0 /\ Value(frame.event) = code
    BY <2>1 DEF Ping, Frame, Value
  <2>3. TypeByte["Ping"] = 2
    BY DEF TypeByte
  <2> QED BY <1>1, <1>2, <2>1, <2>2, <2>3 DEF FromHeader
<1>6. CASE \E code \in Word : frame = GoAway(code)
  <2>1. PICK code \in Word : frame = GoAway(code)
    BY <1>6
  <2>2. /\ frame.event.kind = "GoAway" /\ frame.event.flags = {}
        /\ frame.stream = 0 /\ Value(frame.event) = code
    BY <2>1 DEF GoAway, Frame, Value
  <2>3. TypeByte["GoAway"] = 3
    BY DEF TypeByte
  <2>4. /\ header \in HeaderValue
        /\ header = [version |-> 0, type |-> TypeByte["GoAway"], flags |-> {},
                     stream_id |-> 0, length |-> code]
        /\ Known(header.type)
    <3> HIDE DEF header
    <3>1. {} \in SUBSET Flag /\ 0 \in Word
      BY <1>1
    <3> QED BY <1>2, <2>2, <3>1
  <2>5. header.type = 3 /\ header.length = code
    BY <2>3, <2>4
  <2>6. FromHeader(header) = frame
    BY <2>1, <2>5 DEF FromHeader
  <2>7. frame.event.kind # "Unknown"
    BY <2>2
  <2> QED BY <2>4, <2>6, <2>7
<1>7. CASE frame \in UnknownFrame
  <2>1. /\ frame.event.kind = "Unknown" /\ frame.event.flags \in SUBSET Flag
        /\ frame.stream \in Word /\ frame.event.code \in Word
    BY <1>7 DEF UnknownFrame
  <2>2. Value(frame.event) = frame.event.code /\ frame \notin HeaderFrame
    BY <2>1 DEF Value, HeaderFrame
  <2> QED BY <1>2, <2>1, <2>2
<1>8. ASSUME frame \in HeaderFrame
      PROVE  \/ \E id \in Word, flags \in SUBSET Flag, size \in Word :
                   frame = Frame(id, Data(flags, size))
             \/ \E id \in Word, flags \in SUBSET Flag, delta \in Word :
                   frame = Frame(id, WindowUpdate(flags, delta))
             \/ \E flags \in SUBSET Flag, code \in Word : frame = Ping(flags, code)
             \/ \E code \in Word : frame = GoAway(code)
  <2>1. CASE frame \in [stream : Word,
                       event : [kind : {"Data"}, flags : SUBSET Flag, size : Word]]
    <3>1. /\ frame.stream \in Word /\ frame.event.flags \in SUBSET Flag
          /\ frame.event.size \in Word
          /\ frame = Frame(frame.stream, Data(frame.event.flags, frame.event.size))
      BY <2>1 DEF Frame, Data
    <3> QED BY <3>1
  <2>2. CASE frame \in [stream : Word,
                       event : [kind : {"WindowUpdate"}, flags : SUBSET Flag,
                                delta : Word]]
    <3>1. /\ frame.stream \in Word /\ frame.event.flags \in SUBSET Flag
          /\ frame.event.delta \in Word
          /\ frame = Frame(frame.stream,
                           WindowUpdate(frame.event.flags, frame.event.delta))
      BY <2>2 DEF Frame, WindowUpdate
    <3> QED BY <3>1
  <2>3. CASE frame \in [stream : {0},
                       event : [kind : {"Ping"}, flags : SUBSET Flag, code : Word]]
    <3>1. /\ frame.event.flags \in SUBSET Flag /\ frame.event.code \in Word
          /\ frame = Ping(frame.event.flags, frame.event.code)
      BY <2>3 DEF Ping, Frame
    <3> QED BY <3>1
  <2>4. CASE frame \in [stream : {0},
                       event : [kind : {"GoAway"}, flags : {{}}, code : Word]]
    <3>1. frame.event.code \in Word /\ frame = GoAway(frame.event.code)
      BY <2>4 DEF GoAway, Frame
    <3> QED BY <3>1
  <2> QED BY <1>8, <2>1, <2>2, <2>3, <2>4 DEF HeaderFrame
<1> QED BY <1>3, <1>4, <1>5, <1>6, <1>7, <1>8

\* Whatever Frame::write puts on the wire, Frame::read turns into the same frame
\* again: kind, stream, flags and value, none of which a header distorts.  A type
\* of a later protocol is not taken for one of this.
THEOREM FrameRoundTrip ==
    ASSUME NEW frame \in HeaderFrame \cup UnknownFrame
    PROVE  LET header == ReadHeader(WriteHeader(ToHeader(frame)))
           IN  /\ frame \in HeaderFrame =>
                     Known(header.type) /\ FromHeader(header) = frame
               /\ frame \in UnknownFrame => ~Known(header.type)
<1>1. ReadHeader(WriteHeader(ToHeader(frame))) = ToHeader(frame)
  BY HeaderFits, HeaderRoundTrip
<1>2. /\ frame \in HeaderFrame => frame.event.kind # "Unknown"
      /\ frame \in UnknownFrame => frame.event.kind = "Unknown"
  BY DEF HeaderFrame, UnknownFrame
<1> QED BY <1>1, <1>2, HeaderFits
================================================================================
