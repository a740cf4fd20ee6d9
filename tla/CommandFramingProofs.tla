------------------------- MODULE CommandFramingProofs -------------------------
(***************************************************************************)
(* A list of commands arrives as it was sent: for any commands the pack    *)
(* functions take, any block size that holds the longest of them, any loss *)
(* of blocks and any bytes from elsewhere in between.                      *)
(***************************************************************************)
EXTENDS CommandFraming, DataLemmas, TLAPS

-----------------------------------------------------------------------------
(* One command *)

\* the commands packCmdMsg takes
Commands == {c \in CmdMsg : c.values \in Values(c.id) /\ Supported(c.id)}

\* The data of a command is as long as unpackFns reads.
LEMMA PackedDataType ==
  ASSUME NEW id, NEW v, v \in Values(id)
  PROVE  /\ v[1] \in Uint32
         /\ PackedData(id, v) \in Seq(Bytes8)
         /\ Len(PackedData(id, v)) = DataLen(id) /\ DataLen(id) \in 0..7
<1>1. CASE id = CmdRtcSync
  <2>1. v[1] \in Uint32 /\ v[2] \in Nat
    BY <1>1, Uints, SMT DEF Values
  <2>. QED BY <1>1, <2>1, PackUintType DEF PackedData, DataLen
<1>2. CASE id # CmdRtcSync /\ id \in OneByteCommands
  <2>1. v[1] \in Uint32 /\ v[2] \in Nat
    BY <1>2, Uints, SMT DEF Values
  <2>. QED BY <1>2, <2>1, PackUintType DEF PackedData, DataLen
<1>3. CASE id # CmdRtcSync /\ id \notin OneByteCommands /\ id = CmdDownloadData
  <2>1. v[1] \in Uint32 /\ v[2] \in Uint8 /\ v[3] \in Uint16 /\ v[4] \in Uint32
    BY <1>3, SMT DEF Values
  <2>. DEFINE a == PackUint8(v[2])    b == PackUint16(v[3])    c == PackUint32(v[4])
  <2>2. PackedData(id, v) = Joined3(a, b, c)
    BY <1>3 DEF PackedData, Joined3
  <2>3. /\ a \in Seq(Bytes8) /\ b \in Seq(Bytes8) /\ c \in Seq(Bytes8)
        /\ Len(a) = 1 /\ Len(b) = 2 /\ Len(c) = 4
    BY <2>1, Uints, PackUintType
  <2>. HIDE DEF a, b, c
  <2>4. Holds3(Joined3(a, b, c), a, b, c, Bytes8)
    BY <2>3, ThreeParts, Zenon
  <2>5. DataLen(id) = 7
    BY <1>3 DEF DataLen
  <2>6. PackedData(id, v) \in Seq(Bytes8) /\ Len(PackedData(id, v)) = Len(a) + Len(b) + Len(c)
    BY <2>2, <2>4, Zenon DEF Holds3
  <2>. QED BY <2>1, <2>3, <2>5, <2>6
<1>4. CASE id # CmdRtcSync /\ id \notin OneByteCommands /\ id # CmdDownloadData
  <2>1. v[1] \in Uint32
    BY <1>4, SMT DEF Values
  <2>. QED BY <1>4, <2>1 DEF PackedData, DataLen
<1>. QED BY <1>1, <1>2, <1>3, <1>4

Header(c) == IF c.tagged THEN c.id + TagBit ELSE c.id

\* The first byte of a command is never zero, the byte that ends a block.
LEMMA HeaderType ==
  ASSUME NEW c \in Commands
  PROVE  /\ c.id \in 1..MaxCmdId /\ c.tagged \in BOOLEAN
         /\ Header(c) \in Bytes8 /\ Header(c) # CmdEndOfFrame
         /\ Header(c) % TagBit = c.id /\ (Header(c) >= TagBit <=> c.tagged)
<1>1. c.id \in 0..127 /\ c.id # 0 /\ c.id <= 12
  BY DEF Commands, CmdMsg, Supported, CmdEndOfFrame, MaxCmdId
<1>2. c.tagged \in BOOLEAN
  BY DEF Commands, CmdMsg
<1>3. CASE c.tagged
  <2>1. Header(c) = c.id + 128
    BY <1>3, Zenon DEF Header, TagBit
  <2>. QED BY <1>1, <1>2, <1>3, <2>1 DEF TagBit, Bytes8, CmdEndOfFrame, MaxCmdId
<1>4. CASE ~c.tagged
  <2>1. Header(c) = c.id
    BY <1>4, Zenon DEF Header
  <2>. QED BY <1>1, <1>2, <1>4, <2>1 DEF TagBit, Bytes8, CmdEndOfFrame, MaxCmdId
<1>. QED BY <1>2, <1>3, <1>4

\* A command is five to twelve bytes: its header, the timestamp, its data.
LEMMA PackedType ==
  ASSUME NEW c \in Commands
  PROVE  /\ Packed(c) \in Seq(Bytes8)
         /\ Len(Packed(c)) = 5 + DataLen(c.id) /\ Len(Packed(c)) \in 5..12
         /\ Packed(c)[1] = Header(c)
         /\ \A j \in 1..4 : Packed(c)[1 + j] = PackUint32(c.values[1])[j]
         /\ \A j \in 1..DataLen(c.id) : Packed(c)[5 + j] = PackedData(c.id, c.values)[j]
<1>. DEFINE h == Header(c)    t == PackUint32(c.values[1])
            d == PackedData(c.id, c.values)    n == DataLen(c.id)
<1>1. h \in Bytes8
  BY HeaderType
<1>2. c.values \in Values(c.id)
  BY DEF Commands
<1>3. c.values[1] \in Uint32 /\ d \in Seq(Bytes8) /\ Len(d) = n /\ n \in 0..7
  BY <1>2, PackedDataType, Zenon
<1>4. t \in Seq(Bytes8) /\ Len(t) = 4
  BY <1>3, PackUintType, SMT DEF Uint32
<1>5. Packed(c) = <<h>> \o t \o d
  BY DEF Packed, Header
<1>. HIDE DEF h, t, d, n
<1>. DEFINE a == <<h>>
<1>6. a \in Seq(Bytes8) /\ Len(a) = 1 /\ a[1] = h /\ Packed(c) = Joined3(a, t, d)
  BY <1>1, <1>5 DEF Joined3
<1>. HIDE DEF a
<1>. DEFINE w == Joined3(a, t, d)
<1>7. /\ w \in Seq(Bytes8) /\ Len(w) = Len(a) + Len(t) + Len(d)
      /\ \A j \in 1..Len(a) : w[j] = a[j]
      /\ \A j \in 1..Len(t) : w[Len(a) + j] = t[j]
      /\ \A j \in 1..Len(d) : w[Len(a) + Len(t) + j] = d[j]
  <2>1. Holds3(w, a, t, d, Bytes8)
    BY <1>3, <1>4, <1>6, ThreeParts, Zenon
  <2>. QED BY <2>1, Zenon DEF Holds3
<1>8. w = Packed(c)
  BY <1>6
<1>. HIDE DEF w
<1>9. /\ Len(w) = 5 + n /\ Len(w) \in 5..12 /\ w[1] = h
      /\ \A j \in 1..4 : w[1 + j] = t[j]
      /\ \A j \in 1..n : w[5 + j] = d[j]
  <2>1. Len(w) = 5 + n /\ Len(w) \in 5..12
    BY <1>3, <1>4, <1>6, <1>7
  <2>2. w[1] = h
    BY <1>6, <1>7
  <2>3. \A j \in 1..4 : w[1 + j] = t[j]
    BY <1>4, <1>6, <1>7
  <2>4. \A j \in 1..n : w[5 + j] = d[j]
    BY <1>3, <1>4, <1>6, <1>7
  <2>. QED BY <2>1, <2>2, <2>3, <2>4
<1>. QED BY <1>7, <1>8, <1>9 DEF h, t, d, n

\* bytes holds command c behind the first n
Holds(bytes, n, c) ==
  /\ n + Len(Packed(c)) <= Len(bytes)
  /\ \A j \in 1..Len(Packed(c)) : bytes[n + j] = Packed(c)[j]

\* The data unpackFns reads is the data packFns wrote.
LEMMA DataRoundTrip ==
  ASSUME NEW id, NEW v, v \in Values(id),
         \A j \in 1..DataLen(id) : Buffer[5 + j] = PackedData(id, v)[j]
  PROVE  v = <<v[1]>> \o UnpackedData(id)
<1>. DEFINE b == Buffer
<1>. HIDE DEF b
<1>1. CASE id = CmdRtcSync
  <2>1. v[2] \in Uint32 /\ v = <<v[1], v[2]>>
    BY <1>1, SMT DEF Values
  <2>2. \A j \in 1..4 : b[5 + j] = PackUint32(v[2])[j]
    BY <1>1 DEF DataLen, PackedData, b
  <2>3. UnpackUint32(b, 5) = v[2]
    BY <2>1, <2>2, Uint32RoundTrip
  <2>4. UnpackedData(id) = <<v[2]>>
    BY <1>1, <2>3 DEF UnpackedData, b
  <2>. QED BY <2>1, <2>4
<1>2. CASE id # CmdRtcSync /\ id \in OneByteCommands
  <2>1. v[2] \in Uint8 /\ v = <<v[1], v[2]>>
    BY <1>2, SMT DEF Values
  <2>2. \A j \in 1..1 : b[5 + j] = PackUint8(v[2])[j]
    BY <1>2 DEF DataLen, PackedData, b
  <2>3. UnpackUint8(b, 5) = v[2]
    BY <2>1, <2>2, Uint8RoundTrip
  <2>4. UnpackedData(id) = <<v[2]>>
    BY <1>2, <2>3 DEF UnpackedData, b
  <2>. QED BY <2>1, <2>4
<1>3. CASE id # CmdRtcSync /\ id \notin OneByteCommands /\ id = CmdDownloadData
  <2>1. /\ v[2] \in Uint8 /\ v[3] \in Uint16 /\ v[4] \in Uint32
        /\ v = <<v[1], v[2], v[3], v[4]>>
    BY <1>3, SMT DEF Values
  <2>. DEFINE x == PackUint8(v[2])    y == PackUint16(v[3])    z == PackUint32(v[4])
  <2>. DEFINE w == Joined3(x, y, z)
  <2>2. \A j \in 1..7 : b[5 + j] = w[j]
    BY <1>3 DEF DataLen, PackedData, Joined3, b
  <2>3. /\ x \in Seq(Bytes8) /\ y \in Seq(Bytes8) /\ z \in Seq(Bytes8)
        /\ Len(x) = 1 /\ Len(y) = 2 /\ Len(z) = 4
    BY <2>1, Uints, PackUintType
  <2>. HIDE DEF x, y, z
  <2>4. /\ \A j \in 1..Len(x) : w[j] = x[j]
        /\ \A j \in 1..Len(y) : w[Len(x) + j] = y[j]
        /\ \A j \in 1..Len(z) : w[Len(x) + Len(y) + j] = z[j]
    <3>1. Holds3(w, x, y, z, Bytes8)
      BY <2>3, ThreeParts, Zenon
    <3>. QED BY <3>1, Zenon DEF Holds3
  <2>. HIDE DEF w
  <2>a. \A j \in 1..1 : b[5 + j] = x[j]
    BY <2>2, <2>3, <2>4
  <2>b. \A j \in 1..2 : b[6 + j] = y[j]
    BY <2>2, <2>3, <2>4, SMTT(30)
  <2>c. \A j \in 1..4 : b[8 + j] = z[j]
    BY <2>2, <2>3, <2>4, SMTT(30)
  <2>5. UnpackUint8(b, 5) = v[2] /\ UnpackUint16(b, 6) = v[3] /\ UnpackUint32(b, 8) = v[4]
    BY <2>1, <2>a, <2>b, <2>c, Uint8RoundTrip, Uint16RoundTrip, Uint32RoundTrip DEF x, y, z
  <2>6. UnpackedData(id) = <<v[2], v[3], v[4]>>
    BY <1>3, <2>5 DEF UnpackedData, b
  <2>. QED BY <2>1, <2>6
<1>4. CASE id # CmdRtcSync /\ id \notin OneByteCommands /\ id # CmdDownloadData
  <2>1. v = <<v[1]>>
    BY <1>4, SMT DEF Values
  <2>2. UnpackedData(id) = <<>>
    BY <1>4 DEF UnpackedData
  <2>. QED BY <2>1, <2>2
<1>. QED BY <1>1, <1>2, <1>3, <1>4

\* What unpackCmdMsg reads at a command's place in the block is that command.
LEMMA CommandRoundTrip ==
  ASSUME NEW c \in Commands, rx \in Seq(Bytes8), total \in Nat, Holds(rx, total, c)
  PROVE  /\ total < Len(rx) /\ rx[total + 1] = Header(c)
         /\ Unpacked = c
         /\ 5 + DataLen(Unpacked.id) = Len(Packed(c))
<1>. DEFINE n == Len(Packed(c))    v == c.values
<1>1. /\ Packed(c) \in Seq(Bytes8) /\ n = 5 + DataLen(c.id) /\ n \in 5..12
      /\ Packed(c)[1] = Header(c)
      /\ \A j \in 1..4 : Packed(c)[1 + j] = PackUint32(v[1])[j]
      /\ \A j \in 1..DataLen(c.id) : Packed(c)[5 + j] = PackedData(c.id, v)[j]
  BY PackedType
<1>2. v \in Values(c.id)
  BY DEF Commands
<1>3. v[1] \in Uint32 /\ DataLen(c.id) \in 0..7
  BY <1>2, PackedDataType, Zenon
<1>13. /\ n \in 5..12 /\ n = 5 + DataLen(c.id) /\ MaxCmdMsgSize \in Nat /\ MaxCmdMsgSize >= 12
      /\ total \in Nat /\ Len(rx) \in Nat
  <2>1. Len(rx) \in Nat
    OBVIOUS
  <2>. QED BY <1>1, <2>1, FramingAssumption, Zenon
<1>. HIDE DEF n, v
<1>4. total + n <= Len(rx) /\ \A j \in 1..n : rx[total + j] = Packed(c)[j]
  BY DEF Holds, n
<1>5. \A j \in 1..n : Buffer[j] = Packed(c)[j]
  <2>1. \A j \in 1..n : j \in 1..MaxCmdMsgSize /\ total + 1 + j - 1 <= Len(rx)
                        /\ total + 1 + j - 1 = total + j
    <3>1. total + n <= Len(rx)
      BY <1>4, Zenon
    <3>. QED BY <1>13, <3>1
  <2>. QED BY <2>1, <1>4 DEF Buffer, Window
<1>6. /\ Buffer[1] = Header(c)
      /\ \A j \in 1..4 : Buffer[1 + j] = PackUint32(v[1])[j]
      /\ \A j \in 1..DataLen(c.id) : Buffer[5 + j] = PackedData(c.id, v)[j]
  <2>1. \A j \in 1..4 : 1 + j \in 1..n
    BY <1>13
  <2>2. \A j \in 1..DataLen(c.id) : 5 + j \in 1..n
    BY <1>3, <1>13
  <2>3. 1 \in 1..n
    BY <1>13
  <2>. QED BY <1>1, <1>5, <2>1, <2>2, <2>3
<1>7. UnpackUint8(Buffer, 0) = Header(c) /\ UnpackUint32(Buffer, 1) = v[1]
  BY <1>3, <1>6, Uint32RoundTrip DEF UnpackUint8
<1>8. v = <<v[1]>> \o UnpackedData(c.id)
  BY <1>2, <1>6, DataRoundTrip
<1>9. Unpacked = [id |-> c.id, tagged |-> c.tagged, values |-> v]
  <2>1. Header(c) % TagBit = c.id /\ (Header(c) >= TagBit) = c.tagged
    BY HeaderType
  <2>. QED BY <2>1, <1>7, <1>8 DEF Unpacked
<1>10. c = [id |-> c.id, tagged |-> c.tagged, values |-> v]
  BY DEF Commands, CmdMsg, v
<1>11. Unpacked.id = c.id
  BY <1>9
<1>12. total < Len(rx) /\ rx[total + 1] = Header(c)
  <2>1. total + n <= Len(rx) /\ 1 \in 1..n
    <3>1. 1 \in 1..n
      BY <1>13
    <3>. QED BY <1>4, <3>1, Zenon
  <2>2. total < Len(rx)
    BY <1>13, <2>1
  <2>3. rx[total + 1] = Header(c)
    BY <1>1, <1>4, <2>1, Zenon
  <2>. QED BY <2>2, <2>3
<1>. QED BY <1>1, <1>9, <1>10, <1>11, <1>12 DEF n
\* What unpackCmdMsg makes of any bytes is a command of the type.
LEMMA UnpackedType ==
  ASSUME rx \in Seq(Bytes8), total \in Nat
  PROVE  Unpacked \in CmdMsg /\ DataLen(Unpacked.id) \in Nat
<1>. DEFINE b == Buffer    v == UnpackedData(UnpackUint8(Buffer, 0) % TagBit)
<1>1. \A i \in 1..12 : b[i] \in Bytes8
  <2>1. ASSUME NEW i \in 1..MaxCmdMsgSize PROVE b[i] \in Bytes8
    <3>1. b[i] = IF total + 1 + i - 1 <= Len(rx) THEN rx[total + 1 + i - 1] ELSE 0
      BY DEF Buffer, Window
    <3>2. total + 1 + i - 1 <= Len(rx) => total + 1 + i - 1 \in 1..Len(rx)
      BY FramingAssumption
    <3>3. \A j \in 1..Len(rx) : rx[j] \in Bytes8
      OBVIOUS
    <3>4. 0 \in Bytes8
      BY DEF Bytes8
    <3>. QED BY <3>1, <3>2, <3>3, <3>4, Zenon
  <2>. HIDE DEF b
  <2>. QED BY <2>1, FramingAssumption
<1>. HIDE DEF b
<1>2. /\ UnpackUint8(b, 0) \in Bytes8 /\ UnpackUint8(b, 5) \in Nat
      /\ UnpackUint16(b, 6) \in Nat /\ UnpackUint32(b, 1) \in Nat
      /\ UnpackUint32(b, 5) \in Nat /\ UnpackUint32(b, 8) \in Nat
  <2>1. \A n \in 0..8 : \A j \in 1..4 : b[n + j] \in Bytes8
    BY <1>1
  <2>2. \A n \in 0..8 : UnpackUint8(b, n) \in Bytes8
    BY <1>1 DEF UnpackUint8
  <2>3. \A n \in 0..8 : n \in Nat
    OBVIOUS
  <2>4. \A n \in 0..8 : /\ UnpackUint8(b, n) \in Nat /\ UnpackUint16(b, n) \in Nat
                         /\ UnpackUint32(b, n) \in Nat
    BY <2>1, <2>3, UnpackUintType, Zenon
  <2>5. 0 \in 0..8 /\ 1 \in 0..8 /\ 5 \in 0..8 /\ 6 \in 0..8 /\ 8 \in 0..8
    OBVIOUS
  <2>. QED BY <2>2, <2>4, <2>5, Zenon
<1>3. v \in Seq(Nat)
  BY <1>2 DEF UnpackedData, b
<1>. HIDE DEF v
<1>. DEFINE n == UnpackUint32(b, 1)    h == UnpackUint8(b, 0)
<1>4. Unpacked = [id |-> h % TagBit, tagged |-> h >= TagBit, values |-> <<n>> \o v]
  BY DEF Unpacked, b, v
<1>5. n \in Nat /\ h \in Bytes8
  BY <1>2
<1>. HIDE DEF n, h
<1>6. <<n>> \o v \in Seq(Nat)
  BY <1>3, <1>5
<1>7. h % TagBit \in 0..127 /\ (h >= TagBit) \in BOOLEAN
  BY <1>5 DEF TagBit, Bytes8
<1>. QED BY <1>4, <1>6, <1>7 DEF CmdMsg, DataLen

-----------------------------------------------------------------------------
(* A block *)

\* the commands of list lie in bytes from at[1] = 0, at[2] and so on
Layout(bytes, list, at) ==
  /\ at \in [1..(Len(list) + 1) -> 0..Len(bytes)] /\ at[1] = 0
  /\ \A k \in 1..Len(list) :
       at[k + 1] = at[k] + Len(Packed(list[k])) /\ Holds(bytes, at[k], list[k])

\* they are all of bytes
Fills(bytes, list) ==
  \E at \in [1..(Len(list) + 1) -> 0..Len(bytes)] :
    Layout(bytes, list, at) /\ at[Len(list) + 1] = Len(bytes)

\* after them comes the zero byte; the first of them are got, and end at n
Reading(bytes, list, n, got) ==
  \E at \in [1..(Len(list) + 1) -> 0..Len(bytes)] :
    /\ Layout(bytes, list, at)
    /\ at[Len(list) + 1] < Len(bytes) /\ bytes[at[Len(list) + 1] + 1] = CmdEndOfFrame
    /\ Len(got) \in 0..Len(list) /\ got = SubSeq(list, 1, Len(got))
    /\ n = at[Len(got) + 1]

\* Bytes put behind the others leave a command where it is.
LEMMA HoldsLonger ==
  ASSUME NEW bytes \in Seq(Bytes8), NEW more \in Seq(Bytes8), NEW n \in Nat,
         NEW c \in Commands, Holds(bytes, n, c), Len(bytes) <= Len(more),
         \A i \in 1..Len(bytes) : more[i] = bytes[i]
  PROVE  Holds(more, n, c)
<1>. DEFINE m == Len(Packed(c))
<1>1. m \in Nat
  BY PackedType
<1>2. n + m <= Len(bytes) /\ \A j \in 1..m : bytes[n + j] = Packed(c)[j]
  BY DEF Holds
<1>. HIDE DEF m
<1>3. n + m <= Len(more) /\ \A j \in 1..m : n + j \in 1..Len(bytes)
  BY <1>1, <1>2
<1>4. \A j \in 1..m : more[n + j] = bytes[n + j]
  BY <1>3
<1>. QED BY <1>2, <1>3, <1>4 DEF Holds, m

\* A command behind a filled block fills the longer one.
LEMMA FillsLonger ==
  ASSUME NEW bytes \in Seq(Bytes8), NEW list \in Seq(Commands), NEW c \in Commands,
         Fills(bytes, list)
  PROVE  Fills(bytes \o Packed(c), Append(list, c))
<1>. DEFINE p == Packed(c)    w == bytes \o p    more == Append(list, c)
            n == Len(list)
<1>1. PICK at \in [1..(n + 1) -> 0..Len(bytes)] :
        Layout(bytes, list, at) /\ at[n + 1] = Len(bytes)
  BY DEF Fills
<1>2. p \in Seq(Bytes8) /\ Len(p) \in Nat
  BY PackedType
<1>. HIDE DEF p
<1>3. /\ w \in Seq(Bytes8) /\ Len(w) = Len(bytes) + Len(p)
      /\ \A i \in 1..Len(bytes) : w[i] = bytes[i]
      /\ \A j \in 1..Len(p) : w[Len(bytes) + j] = p[j]
  BY <1>2
<1>4. /\ n \in Nat /\ Len(more) = n + 1 /\ more[n + 1] = c
      /\ \A k \in 1..n : more[k] = list[k] /\ list[k] \in Commands
  OBVIOUS
<1>. HIDE DEF w, more, n
<1>. DEFINE new == [k \in 1..(n + 2) |-> IF k <= n + 1 THEN at[k] ELSE Len(w)]
<1>5. /\ new \in [1..(n + 2) -> 0..Len(w)] /\ new[n + 2] = Len(w)
      /\ \A k \in 1..(n + 1) : new[k] = at[k] /\ new[k] \in Nat
  BY <1>1, <1>2, <1>3, <1>4
<1>. HIDE DEF new
<1>6. \A k \in 1..n : /\ at[k + 1] = at[k] + Len(Packed(list[k]))
                      /\ Holds(bytes, at[k], list[k])
  BY <1>1 DEF Layout, n
<1>7. ASSUME NEW k \in 1..(n + 1)
      PROVE  new[k + 1] = new[k] + Len(Packed(more[k])) /\ Holds(w, new[k], more[k])
  <2>1. CASE k = n + 1
    <3>1. new[k] = Len(bytes) /\ new[k + 1] = Len(w) /\ more[k] = c
      BY <1>1, <1>4, <1>5, <2>1
    <3>. QED BY <1>2, <1>3, <3>1, SMTT(30) DEF Holds, p
  <2>2. CASE k \in 1..n
    <3>1. more[k] = list[k] /\ new[k] = at[k] /\ new[k + 1] = at[k + 1] /\ at[k] \in Nat
      BY <1>4, <1>5, <2>2
    <3>2. Holds(w, at[k], list[k])
      <4>1. Holds(bytes, at[k], list[k]) /\ list[k] \in Commands
        BY <1>4, <1>6, <2>2
      <4>2. Len(bytes) <= Len(w)
        BY <1>2, <1>3
      <4>. QED BY <1>3, <3>1, <4>1, <4>2, HoldsLonger
    <3>3. at[k + 1] = at[k] + Len(Packed(list[k]))
      BY <1>6, <2>2
    <3>. QED BY <3>1, <3>2, <3>3
  <2>. QED BY <1>4, <2>1, <2>2
<1>8. new[1] = 0
  BY <1>1, <1>4, <1>5 DEF Layout
<1>9. Len(more) + 1 = n + 2
  BY <1>4
<1>10. Layout(w, more, new)
  BY <1>4, <1>5, <1>7, <1>8, <1>9 DEF Layout
<1>11. Fills(w, more)
  BY <1>5, <1>9, <1>10 DEF Fills
<1>. QED BY <1>11 DEF w, more, p

\* One command fills its own bytes.
LEMMA FillsOne ==
  ASSUME NEW c \in Commands
  PROVE  Fills(Packed(c), <<c>>)
<1>. DEFINE at == [k \in 1..1 |-> 0]
<1>1. Layout(<<>>, <<>>, at) /\ at \in [1..1 -> 0..0] /\ at[1] = 0
  BY DEF Layout
<1>2. Fills(<<>>, <<>>)
  BY <1>1 DEF Fills
<1>3. Fills(<<>> \o Packed(c), Append(<<>>, c))
  <2>1. <<>> \in Seq(Bytes8) /\ <<>> \in Seq(Commands)
    OBVIOUS
  <2>. QED BY <1>2, <2>1, FillsLonger, Zenon
<1>4. Packed(c) \in Seq(Bytes8)
  BY PackedType
<1>5. <<>> \o Packed(c) = Packed(c) /\ Append(<<>>, c) = <<c>>
  BY <1>4
<1>. QED BY <1>3, <1>5

\* A closed block is as long as the encoder takes, and ready to be read.
LEMMA ClosedBlock ==
  ASSUME NEW bytes \in Seq(Bytes8), NEW list \in Seq(Commands),
         Len(bytes) < RsDecodedDataSize, Fills(bytes, list)
  PROVE  /\ Block(bytes) \in Seq(Bytes8) /\ Len(Block(bytes)) = RsDecodedDataSize
         /\ Reading(Block(bytes), list, 0, <<>>)
<1>. DEFINE w == Block(bytes)    n == Len(list)
            zeros == [i \in 1..(RsDecodedDataSize - Len(bytes)) |-> 0]
<1>1. PICK at \in [1..(n + 1) -> 0..Len(bytes)] :
        Layout(bytes, list, at) /\ at[n + 1] = Len(bytes)
  BY DEF Fills
<1>2. RsDecodedDataSize - Len(bytes) \in Nat \ {0} /\ RsDecodedDataSize \in Nat
  BY FramingAssumption
<1>3. /\ zeros \in Seq(Bytes8) /\ Len(zeros) = RsDecodedDataSize - Len(bytes)
      /\ zeros[1] = 0
  BY <1>2 DEF Bytes8
<1>4. w = bytes \o zeros
  BY DEF Block
<1>. HIDE DEF zeros, w
<1>5. /\ w \in Seq(Bytes8) /\ Len(w) = RsDecodedDataSize
      /\ \A i \in 1..Len(bytes) : w[i] = bytes[i]
      /\ w[Len(bytes) + 1] = 0
  BY <1>2, <1>3, <1>4
<1>6. n \in Nat /\ \A k \in 1..n : list[k] \in Commands
  OBVIOUS
<1>. HIDE DEF n
<1>7. /\ at[1] = 0
      /\ \A k \in 1..n : /\ at[k + 1] = at[k] + Len(Packed(list[k]))
                         /\ Holds(bytes, at[k], list[k])
  BY <1>1 DEF Layout, n
<1>8. ASSUME NEW k \in 1..n
      PROVE  Holds(w, at[k], list[k])
  <2>1. at[k] \in Nat /\ Holds(bytes, at[k], list[k]) /\ list[k] \in Commands
    BY <1>1, <1>6, <1>7
  <2>2. Len(bytes) <= Len(w)
    BY <1>2, <1>5
  <2>. QED BY <1>5, <2>1, <2>2, HoldsLonger
<1>9. at \in [1..(n + 1) -> 0..Len(w)]
  BY <1>1, <1>2, <1>5
<1>10. Layout(w, list, at)
  BY <1>7, <1>8, <1>9 DEF Layout, n
<1>11. at[n + 1] < Len(w) /\ w[at[n + 1] + 1] = CmdEndOfFrame
  BY <1>1, <1>2, <1>5 DEF CmdEndOfFrame
<1>12. Len(<<>>) \in 0..n /\ <<>> = SubSeq(list, 1, Len(<<>>)) /\ Len(<<>>) + 1 = 1
  BY <1>6
<1>13. Reading(w, list, 0, <<>>)
  BY <1>7, <1>9, <1>10, <1>11, <1>12 DEF Reading, n
<1>. QED BY <1>5, <1>13 DEF w
\* Where unpack_command stands in a block: before a command it has not got yet,
\* or at the zero byte with all of them.
LEMMA ReadingStands ==
  ASSUME NEW list \in Seq(Commands), NEW got, NEW n, rx \in Seq(Bytes8),
         Reading(rx, list, n, got)
  PROVE  /\ n \in 0..(Len(rx) - 1) /\ Len(got) \in 0..Len(list)
         /\ got = SubSeq(list, 1, Len(got))
         /\ \/ Len(got) < Len(list) /\ Holds(rx, n, list[Len(got) + 1])
            \/ got = list /\ rx[n + 1] = CmdEndOfFrame
<1>. DEFINE k == Len(list)    g == Len(got)
<1>1. PICK at \in [1..(k + 1) -> 0..Len(rx)] :
        /\ Layout(rx, list, at)
        /\ at[k + 1] < Len(rx) /\ rx[at[k + 1] + 1] = CmdEndOfFrame
        /\ g \in 0..k /\ got = SubSeq(list, 1, g)
        /\ n = at[g + 1]
  BY DEF Reading
<1>2. k \in Nat /\ Len(rx) \in Nat
  OBVIOUS
<1>3. g \in Nat
  BY <1>1, <1>2
<1>4. \A i \in 1..k : Holds(rx, at[i], list[i])
  BY <1>1 DEF Layout
<1>5. \A i \in 1..k : Len(Packed(list[i])) \in 5..12
  BY PackedType, SMTT(30)
<1>. HIDE DEF k, g
<1>6. CASE g < k
  <2>1. g + 1 \in 1..k
    BY <1>2, <1>3, <1>6
  <2>2. Holds(rx, n, list[g + 1])
    BY <1>1, <1>4, <2>1
  <2>3. n \in Nat
    BY <1>1, <1>2, <1>3, <1>6
  <2>. DEFINE m == Len(Packed(list[g + 1]))
  <2>4. n + m <= Len(rx) /\ m \in 5..12
    BY <1>5, <2>1, <2>2 DEF Holds
  <2>. HIDE DEF m
  <2>5. n \in 0..(Len(rx) - 1)
    BY <1>2, <2>3, <2>4
  <2>. QED BY <1>1, <1>3, <1>6, <2>2, <2>5 DEF g, k
<1>7. CASE g = k
  <2>1. got = list
    BY <1>1, <1>7 DEF k
  <2>. QED BY <1>1, <1>2, <1>3, <1>7, <2>1, SMTT(30) DEF g, k
<1>. QED BY <1>1, <1>2, <1>3, <1>6, <1>7, SMTT(30)

\* When it has got them all it stands at the zero byte; it has a command left
\* to read exactly when it does not.
LEMMA ReadingDecides ==
  ASSUME NEW list \in Seq(Commands), NEW got, rx \in Seq(Bytes8),
         Reading(rx, list, total, got)
  PROVE  /\ total < Len(rx)
         /\ rx[total + 1] = CmdEndOfFrame => got = list
         /\ rx[total + 1] # CmdEndOfFrame =>
              Len(got) < Len(list) /\ Supported(rx[total + 1] % TagBit)
<1>1. total \in 0..(Len(rx) - 1) /\ Len(got) \in 0..Len(list)
  BY ReadingStands
<1>2. total < Len(rx) /\ total \in Nat
  BY <1>1
<1>3. CASE Len(got) < Len(list) /\ Holds(rx, total, list[Len(got) + 1])
  <2>1. list[Len(got) + 1] \in Commands
    BY <1>1, <1>3
  <2>. DEFINE c == list[Len(got) + 1]
  <2>. HIDE DEF c
  <2>2. c \in Commands /\ Holds(rx, total, c)
    BY <1>3, <2>1 DEF c
  <2>3. rx[total + 1] = Header(c)
    BY <1>2, <2>2, CommandRoundTrip
  <2>4. Header(c) # CmdEndOfFrame /\ Header(c) % TagBit = c.id
    BY <2>2, HeaderType
  <2>5. Supported(c.id)
    BY <2>2 DEF Commands
  <2>. QED BY <1>2, <1>3, <2>3, <2>4, <2>5
<1>4. CASE got = list /\ rx[total + 1] = CmdEndOfFrame
  BY <1>2, <1>4
<1>. QED BY <1>3, <1>4, ReadingStands

\* Unpacking the next command gives that command and stands behind it.
LEMMA ReadingOn ==
  ASSUME NEW list \in Seq(Commands), NEW got \in Seq(CmdMsg), rx \in Seq(Bytes8),
         Reading(rx, list, total, got), rx[total + 1] # CmdEndOfFrame
  PROVE  Reading(rx, list, total + 5 + DataLen(Unpacked.id), Append(got, Unpacked))
<1>. DEFINE k == Len(list)    g == Len(got)    c == list[g + 1]    u == Unpacked
            step == 5 + DataLen(u.id)
<1>1. g < k /\ g \in Nat /\ total \in Nat /\ k \in Nat
  BY ReadingDecides, ReadingStands
<1>2. c \in Commands
  BY <1>1
<1>3. PICK at \in [1..(k + 1) -> 0..Len(rx)] :
        /\ Layout(rx, list, at)
        /\ at[k + 1] < Len(rx) /\ rx[at[k + 1] + 1] = CmdEndOfFrame
        /\ g \in 0..k /\ got = SubSeq(list, 1, g)
        /\ total = at[g + 1]
  BY DEF Reading
<1>4. Holds(rx, total, c)
  <2>1. \A i \in 1..k : Holds(rx, at[i], list[i])
    BY <1>3 DEF Layout
  <2>2. g + 1 \in 1..k
    BY <1>1
  <2>. QED BY <1>3, <2>1, <2>2, Zenon
<1>. HIDE DEF c
<1>5. u = c /\ step = Len(Packed(c))
  BY <1>1, <1>2, <1>4, CommandRoundTrip
<1>. HIDE DEF u, step
<1>6. at[g + 2] = total + step
  <2>1. g + 1 \in 1..k /\ g + 1 + 1 = g + 2
    BY <1>1
  <2>2. at[g + 1 + 1] = at[g + 1] + Len(Packed(list[g + 1]))
    BY <1>3, <2>1 DEF Layout
  <2>. QED BY <1>3, <1>5, <2>1, <2>2 DEF c
<1>. DEFINE more == Append(got, u)
<1>7. Len(more) = g + 1 /\ more = SubSeq(list, 1, g + 1)
  <2>1. SubSeq(list, 1, g + 1) = Append(SubSeq(list, 1, g), c)
    BY <1>1 DEF c
  <2>. QED BY <1>3, <1>5, <2>1
<1>. HIDE DEF more, g, k
<1>8. Len(more) \in 0..k /\ Len(more) + 1 = g + 2
  BY <1>1, <1>7
<1>9. Reading(rx, list, total + step, more)
  BY <1>3, <1>6, <1>7, <1>8 DEF Reading, k
<1>10. \A x \in Nat : total + 5 + x = total + (5 + x)
  BY <1>1
<1>11. DataLen(u.id) \in Nat
  BY <1>1, UnpackedType DEF u
<1>. QED BY <1>9, <1>10, <1>11 DEF more, step, u
-----------------------------------------------------------------------------
(* The inductive invariant *)

\* the blocks command_multi_pack has closed, and the one it is filling
SenderOK ==
  /\ commands \in CommandLists /\ next \in 1..(Len(commands) + 1)
  /\ packer \in {"packing", "returned", "raised"}
  /\ packer = "returned" => next = Len(commands) + 1
  /\ data \in Seq(Bytes8) /\ Len(data) < RsDecodedDataSize
  /\ blocks \in Seq(Seq(Bytes8)) /\ batches \in Seq(Seq(Commands))

BlocksOK ==
  /\ \A b \in 1..Len(blocks) : Len(blocks[b]) = RsDecodedDataSize
  /\ Len(blocks) <= Len(batches)
  /\ \A b \in 1..Len(blocks) : Reading(blocks[b], batches[b], 0, <<>>)

OpenBlock ==
  IF packer = "returned" \/ data = <<>>
  THEN Len(batches) = Len(blocks)
  ELSE Len(batches) = Len(blocks) + 1 /\ Fills(data, batches[Len(batches)])

\* the batches, end to end, are the commands packed so far
BatchesCover ==
  \E cut \in [0..Len(batches) -> 0..(next - 1)] :
    /\ cut[0] = 0 /\ cut[Len(batches)] = next - 1
    /\ \A b \in 1..Len(batches) : SubSeq(commands, cut[b - 1] + 1, cut[b]) = batches[b]

\* unpack_command in one of those blocks
ReceiverOK ==
  /\ sent \in 0..Len(blocks) /\ (sent > 0 => packer = "returned")
  /\ of \in 0..sent /\ rx \in Seq(Bytes8) /\ total \in Nat /\ msgs \in Seq(CmdMsg)
  /\ of # OtherBlock =>
       of = sent /\ rx = blocks[of] /\ Reading(rx, batches[of], total, msgs)

Outcomes == {"returned", "raised"}

\* what its calls have given: the blocks they had come in the order sent
ResultsOK ==
  /\ results \in Seq([block : Nat, outcome : Outcomes, list : Seq(CmdMsg)])
  /\ \A r \in 1..Len(results) :
       /\ results[r].block <= sent
       /\ of # OtherBlock => results[r].block < of
       /\ Own(r) => /\ results[r].outcome = "returned"
                    /\ results[r].list = batches[results[r].block]
  /\ \A r, s \in 1..Len(results) :
       r < s /\ Own(r) /\ Own(s) => results[r].block < results[s].block

\* every command packed so far could be
PackedSupported == \A k \in 1..(next - 1) : Supported(commands[k].id)

IInv ==
  /\ SenderOK /\ PackedSupported /\ BlocksOK /\ OpenBlock /\ BatchesCover
  /\ ReceiverOK /\ ResultsOK

-----------------------------------------------------------------------------
(* command_multi_pack keeps it *)

\* The first block of a session is open and empty.
LEMMA InitInvariant == Init => IInv
<1>. SUFFICES ASSUME Init PROVE IInv
  OBVIOUS
<1>1. /\ commands \in CommandLists /\ next = 1 /\ data = <<>> /\ blocks = <<>>
      /\ packer = "packing" /\ sent = 0 /\ rx = <<>> /\ of = OtherBlock /\ total = 0
      /\ msgs = <<>> /\ results = <<>> /\ batches = <<>>
  BY DEF Init
<1>2. commands \in Seq(CmdMsg) /\ RsDecodedDataSize > 0 /\ RsDecodedDataSize \in Nat
  BY <1>1, FramingAssumption
<1>3. SenderOK
  BY <1>1, <1>2 DEF SenderOK
<1>4. BlocksOK /\ OpenBlock
  BY <1>1 DEF BlocksOK, OpenBlock
<1>5. BatchesCover
  <2>. DEFINE cut == [b \in 0..0 |-> 0]
  <2>1. cut \in [0..0 -> 0..0] /\ cut[0] = 0
    OBVIOUS
  <2>. HIDE DEF cut
  <2>2. Len(batches) = 0 /\ next - 1 = 0 /\ 1..0 = {}
    BY <1>1
  <2>. QED BY <2>1, <2>2 DEF BatchesCover
<1>6. ReceiverOK /\ ResultsOK
  BY <1>1 DEF ReceiverOK, ResultsOK, OtherBlock
<1>7. PackedSupported
  BY <1>1 DEF PackedSupported
<1>. QED BY <1>3, <1>4, <1>5, <1>6, <1>7 DEF IInv

\* The last element of a part of a sequence.
LEMMA SubSeqLast ==
  ASSUME NEW S, NEW s \in Seq(S), NEW j \in 1..Len(s), NEW i \in 1..j
  PROVE  /\ SubSeq(s, i, j) = Append(SubSeq(s, i, j - 1), s[j])
         /\ SubSeq(s, j, j) = <<s[j]>>
<1>1. SubSeq(s, i, j) = Append(SubSeq(s, i, j - 1), s[j])
  OBVIOUS
<1>2. SubSeq(s, j, j) = <<s[j]>>
  <2>1. SubSeq(s, j, j - 1) = <<>> /\ SubSeq(s, j, j) = Append(SubSeq(s, j, j - 1), s[j])
    OBVIOUS
  <2>2. \A x \in S : Append(<<>>, x) = <<x>>
    OBVIOUS
  <2>3. s[j] \in S
    OBVIOUS
  <2>. QED BY <2>1, <2>2, <2>3, Zenon
<1>. QED BY <1>1, <1>2

\* The next command opens a batch of its own.
LEMMA CoverNewBatch ==
  ASSUME commands \in Seq(CmdMsg), next \in 1..Len(commands), batches \in Seq(Seq(Commands)),
         BatchesCover, commands' = commands, next' = next + 1,
         batches' = Append(batches, <<commands[next]>>)
  PROVE  BatchesCover'
<1>. DEFINE n == Len(batches)    one == <<commands[next]>>
<1>1. PICK cut \in [0..n -> 0..(next - 1)] :
        /\ cut[0] = 0 /\ cut[n] = next - 1
        /\ \A b \in 1..n : SubSeq(commands, cut[b - 1] + 1, cut[b]) = batches[b]
  BY DEF BatchesCover
<1>2. n \in Nat /\ next \in Nat
  OBVIOUS
<1>3. /\ Len(batches') = n + 1 /\ batches'[n + 1] = one
      /\ \A b \in 1..n : batches'[b] = batches[b]
  OBVIOUS
<1>4. SubSeq(commands, next, next) = one
  <2>1. next \in 1..next
    OBVIOUS
  <2>. QED BY <2>1, SubSeqLast
<1>. HIDE DEF n, one
<1>. DEFINE more == [b \in 0..(n + 1) |-> IF b <= n THEN cut[b] ELSE next]
<1>5. /\ more \in [0..(n + 1) -> 0..next] /\ more[n + 1] = next
      /\ \A b \in 0..n : more[b] = cut[b]
  BY <1>1, <1>2
<1>. HIDE DEF more
<1>6. ASSUME NEW b \in 1..(n + 1)
      PROVE  SubSeq(commands, more[b - 1] + 1, more[b]) = batches'[b]
  <2>1. CASE b = n + 1
    <3>1. b - 1 = n /\ n \in 0..n /\ next - 1 + 1 = next
      BY <1>2, <2>1
    <3>2. more[b - 1] + 1 = next /\ more[b] = next
      BY <1>1, <1>5, <2>1, <3>1
    <3>. QED BY <1>3, <1>4, <2>1, <3>2
  <2>2. CASE b \in 1..n
    <3>1. b - 1 \in 0..n /\ b \in 0..n
      BY <1>2, <2>2
    <3>2. more[b - 1] = cut[b - 1] /\ more[b] = cut[b]
      BY <1>5, <3>1
    <3>. QED BY <1>1, <1>3, <2>2, <3>2
  <2>3. b = n + 1 \/ b \in 1..n
    BY <1>2
  <2>. QED BY <2>1, <2>2, <2>3, Zenon
<1>7. next' - 1 = next /\ more[0] = 0
  BY <1>1, <1>2, <1>5
<1>8. /\ more \in [0..Len(batches') -> 0..(next' - 1)]
      /\ more[Len(batches')] = next' - 1
      /\ \A b \in 1..Len(batches') :
           SubSeq(commands', more[b - 1] + 1, more[b]) = batches'[b]
  BY <1>3, <1>5, <1>6, <1>7
<1>. QED BY <1>7, <1>8 DEF BatchesCover

\* The next command joins the last batch.
LEMMA CoverSameBatch ==
  ASSUME commands \in Seq(CmdMsg), next \in 1..Len(commands), batches \in Seq(Seq(Commands)),
         BatchesCover, Len(batches) > 0, commands' = commands, next' = next + 1,
         batches' = [batches EXCEPT ![Len(batches)] = Append(@, commands[next])]
  PROVE  BatchesCover'
<1>. DEFINE n == Len(batches)    c == commands[next]    last == batches[Len(batches)]
<1>1. PICK cut \in [0..n -> 0..(next - 1)] :
        /\ cut[0] = 0 /\ cut[n] = next - 1
        /\ \A b \in 1..n : SubSeq(commands, cut[b - 1] + 1, cut[b]) = batches[b]
  BY DEF BatchesCover
<1>2. n \in Nat /\ next \in Nat /\ n > 0
  OBVIOUS
<1>3. /\ Len(batches') = n /\ batches'[n] = Append(last, c)
      /\ \A b \in 1..(n - 1) : batches'[b] = batches[b]
  OBVIOUS
<1>. DEFINE from == cut[n - 1] + 1
<1>. HIDE DEF n
<1>4. n - 1 \in 0..n /\ n \in 1..n
  BY <1>2
<1>5. SubSeq(commands, from, next - 1) = last
  <2>1. SubSeq(commands, cut[n - 1] + 1, cut[n]) = batches[n]
    BY <1>1, <1>4
  <2>. QED BY <1>1, <2>1 DEF n
<1>6. SubSeq(commands, from, next) = Append(last, c)
  <2>1. from \in 1..next
    <3>1. cut[n - 1] \in 0..(next - 1)
      BY <1>1, <1>4
    <3>. QED BY <1>2, <3>1, SMTT(30)
  <2>. HIDE DEF from
  <2>2. SubSeq(commands, from, next) = Append(SubSeq(commands, from, next - 1), c)
    BY <2>1, SubSeqLast
  <2>. QED BY <1>5, <2>2
<1>. HIDE DEF c, last, from
<1>. DEFINE more == [b \in 0..n |-> IF b < n THEN cut[b] ELSE next]
<1>7. /\ more \in [0..n -> 0..next] /\ more[n] = next
      /\ \A b \in 0..(n - 1) : more[b] = cut[b]
  <2>1. \A b \in 0..n : cut[b] \in 0..next
    <3>1. \A b \in 0..n : cut[b] \in 0..(next - 1)
      OBVIOUS
    <3>2. \A x \in 0..(next - 1) : x \in 0..next
      BY <1>2
    <3>. QED BY <3>1, <3>2, Zenon
  <2>2. next \in 0..next /\ n \in 0..n /\ \A b \in 0..(n - 1) : b \in 0..n /\ b < n
    BY <1>2
  <2>. QED BY <2>1, <2>2, SMTT(30)
<1>. HIDE DEF more
<1>8. ASSUME NEW b \in 1..n
      PROVE  SubSeq(commands, more[b - 1] + 1, more[b]) = batches'[b]
  <2>1. CASE b = n
    <3>1. more[b - 1] + 1 = from /\ more[b] = next
      <4>1. n - 1 \in 0..(n - 1)
        BY <1>2
      <4>. QED BY <1>7, <2>1, <4>1 DEF from
    <3>. QED BY <1>3, <1>6, <2>1, <3>1
  <2>2. CASE b \in 1..(n - 1)
    <3>1. b - 1 \in 0..(n - 1) /\ b \in 0..(n - 1)
      BY <1>2, <2>2
    <3>2. more[b - 1] = cut[b - 1] /\ more[b] = cut[b]
      BY <1>7, <3>1
    <3>. QED BY <1>1, <1>3, <2>2, <3>2
  <2>3. b = n \/ b \in 1..(n - 1)
    BY <1>2
  <2>. QED BY <2>1, <2>2, <2>3, Zenon
<1>9. next' - 1 = next /\ more[0] = 0
  <2>1. 0 \in 0..(n - 1)
    BY <1>2
  <2>. QED BY <1>1, <1>2, <1>7, <2>1
<1>10. /\ more \in [0..Len(batches') -> 0..(next' - 1)]
       /\ more[Len(batches')] = next' - 1
       /\ \A b \in 1..Len(batches') :
            SubSeq(commands', more[b - 1] + 1, more[b]) = batches'[b]
  BY <1>3, <1>7, <1>8, <1>9
<1>. QED BY <1>9, <1>10 DEF BatchesCover
\* What SenderOK says of the command the packer turns to.
LEMMA NextCommand ==
  ASSUME SenderOK, next <= Len(commands), Supported(commands[next].id)
  PROVE  /\ commands \in Seq(CmdMsg) /\ next \in 1..Len(commands)
         /\ commands[next] \in Commands
<1>1. commands \in Seq(CmdMsg) /\ commands \in CommandLists
  BY FramingAssumption DEF SenderOK
<1>2. next \in 1..Len(commands)
  BY <1>1 DEF SenderOK
<1>3. next \in DOMAIN commands
  BY <1>1, <1>2
<1>4. commands[next].values \in Values(commands[next].id)
  BY <1>1, <1>3, FramingAssumption, Zenon
<1>5. commands[next] \in CmdMsg
  BY <1>1, <1>2
<1>. QED BY <1>1, <1>2, <1>4, <1>5, Zenon DEF Commands

\* A command that is packed had a pack function.
LEMMA SupportedSoFar ==
  ASSUME IInv, PackCommand
  PROVE  PackedSupported'
<1>1. next \in Nat /\ commands' = commands /\ next' = next + 1 /\ Supported(commands[next].id)
  BY FramingAssumption DEF IInv, SenderOK, PackCommand
<1>2. \A k \in 1..(next - 1) : Supported(commands[k].id)
  BY DEF IInv, PackedSupported
<1>3. \A k \in 1..(next' - 1) : k = next \/ k \in 1..(next - 1)
  BY <1>1
<1>. QED BY <1>1, <1>2, <1>3 DEF PackedSupported

\* While the list is being packed nothing has been sent, and no call of
\* unpack_command has had a block of it.
LEMMA NothingSent ==
  ASSUME ReceiverOK, ResultsOK, packer # "returned"
  PROVE  sent = 0 /\ of = OtherBlock /\ \A r \in 1..Len(results) : ~Own(r)
<1>1. sent = 0 /\ of = OtherBlock
  BY DEF ReceiverOK, OtherBlock
<1>2. ASSUME NEW r \in 1..Len(results)
      PROVE  ~Own(r)
  <2>1. results[r].block <= 0
    BY <1>1 DEF ResultsOK
  <2>. DEFINE Answer == [block : Nat, outcome : Outcomes, list : Seq(CmdMsg)]
  <2>2. results \in Seq(Answer)
    BY Zenon DEF ResultsOK
  <2>3. results[r].block \in Nat
    <3>1. \A x \in Answer : x.block \in Nat
      OBVIOUS
    <3>. HIDE DEF Answer
    <3>2. results[r] \in Answer
      BY <2>2
    <3>. QED BY <3>1, <3>2, Zenon
  <2>4. results[r].block = 0
    BY <2>1, <2>3
  <2>. QED BY <2>4 DEF Own, OtherBlock
<1>. QED BY <1>1, <1>2

\* A step of the packer leaves the receiving end alone.
LEMMA ReceiverUnmoved ==
  ASSUME ReceiverOK, ResultsOK, packer = "packing",
         UNCHANGED <<sent, receiver>>, Len(blocks') \in Nat
  PROVE  ReceiverOK' /\ ResultsOK'
<1>1. sent = 0 /\ of = OtherBlock /\ \A r \in 1..Len(results) : ~Own(r)
  BY NothingSent
<1>2. /\ rx' = rx /\ of' = of /\ total' = total /\ msgs' = msgs /\ results' = results
      /\ sent' = sent
  BY DEF receiver
<1>3. ReceiverOK'
  BY <1>1, <1>2 DEF ReceiverOK, OtherBlock
<1>4. \A r \in 1..Len(results) : ~Own(r)'
  BY <1>1, <1>2 DEF Own
<1>5. ResultsOK'
  BY <1>1, <1>2, <1>4 DEF ResultsOK
<1>. QED BY <1>3, <1>5

\* A command that fits goes behind the others of its block.
LEMMA PackFits ==
  ASSUME IInv, PackCommand, FitsInBlock(Packed(commands[next]))
  PROVE  IInv'
<1>. DEFINE c == commands[next]    p == Packed(c)
<1>1. /\ commands \in Seq(CmdMsg) /\ next \in 1..Len(commands) /\ c \in Commands
      /\ packer = "packing"
  BY NextCommand DEF IInv, PackCommand
<1>2. p \in Seq(Bytes8) /\ Len(p) \in 5..12
  BY <1>1, PackedType
<1>3. /\ next' = next + 1 /\ commands' = commands /\ packer' = packer /\ sent' = sent
      /\ data' = data \o p /\ blocks' = blocks
      /\ batches' = IF data = <<>> THEN Append(batches, <<c>>)
                    ELSE [batches EXCEPT ![Len(batches)] = Append(@, c)]
      /\ UNCHANGED receiver
  BY DEF PackCommand
<1>4. Len(data) + Len(p) <= RsDecodedDataSize - 1
  BY DEF FitsInBlock
<1>. HIDE DEF p, c
<1>5. /\ data \in Seq(Bytes8) /\ blocks \in Seq(Seq(Bytes8)) /\ batches \in Seq(Seq(Commands))
      /\ commands \in CommandLists /\ RsDecodedDataSize \in Nat
  BY FramingAssumption DEF IInv, SenderOK
<1>6. data' \in Seq(Bytes8) /\ Len(data') < RsDecodedDataSize /\ data' # <<>>
  <2>. DEFINE w == data \o p
  <2>1. w \in Seq(Bytes8) /\ Len(w) = Len(data) + Len(p)
    BY <1>2, <1>5
  <2>. HIDE DEF w
  <2>2. Len(data) \in Nat /\ Len(<<>>) = 0
    BY <1>5
  <2>. DEFINE n == Len(p)    m == Len(data)    k == Len(w)    r == RsDecodedDataSize
  <2>4. n \in 5..12 /\ m \in Nat /\ k = m + n /\ r \in Nat /\ m + n <= r - 1
    BY <1>2, <1>4, <1>5, <2>1, <2>2, Zenon
  <2>. HIDE DEF n, m, k, r
  <2>3. k < r /\ k # 0
    BY <2>4
  <2>. QED BY <1>3, <2>1, <2>2, <2>3 DEF w, k, r
<1>7. ReceiverOK' /\ ResultsOK'
  BY <1>1, <1>3, <1>5, ReceiverUnmoved DEF IInv
<1>8. /\ batches' \in Seq(Seq(Commands)) /\ Len(batches') = Len(blocks) + 1
      /\ \A b \in 1..Len(blocks) : batches'[b] = batches[b]
      /\ Fills(data', batches'[Len(batches')]) /\ BatchesCover'
  <2>1. CASE data = <<>>
    <3>1. Len(batches) = Len(blocks)
      BY <1>1, <2>1 DEF IInv, OpenBlock
    <3>2. /\ batches' \in Seq(Seq(Commands)) /\ Len(batches') = Len(batches) + 1
          /\ batches'[Len(batches) + 1] = <<c>>
          /\ \A b \in 1..Len(batches) : batches'[b] = batches[b]
      <4>1. batches' = Append(batches, <<c>>) /\ <<c>> \in Seq(Commands)
        BY <1>1, <1>3, <2>1 DEF c
      <4>. QED BY <1>5, <4>1
    <3>3. data' = p
      BY <1>2, <1>3, <2>1
    <3>4. Fills(data', <<c>>)
      BY <1>1, <3>3, FillsOne DEF p, c
    <3>5. BatchesCover'
      BY <1>1, <1>3, <1>5, <2>1, CoverNewBatch DEF IInv, c
    <3>. QED BY <3>1, <3>2, <3>4, <3>5
  <2>2. CASE data # <<>>
    <3>. DEFINE last == batches[Len(batches)]
    <3>1. Len(batches) = Len(blocks) + 1 /\ Fills(data, last)
      BY <1>1, <2>2 DEF IInv, OpenBlock
    <3>2. last \in Seq(Commands) /\ Append(last, c) \in Seq(Commands)
      BY <1>1, <1>5, <3>1 DEF c
    <3>3. batches' = [batches EXCEPT ![Len(batches)] = Append(last, c)]
      BY <1>3, <2>2
    <3>. HIDE DEF last
    <3>4. /\ batches' \in Seq(Seq(Commands)) /\ Len(batches') = Len(batches)
          /\ batches'[Len(batches)] = Append(last, c)
          /\ \A b \in 1..Len(blocks) : batches'[b] = batches[b]
      BY <1>5, <3>1, <3>2, <3>3
    <3>5. Fills(data', Append(last, c))
      BY <1>1, <1>3, <1>5, <3>1, <3>2, FillsLonger DEF p, c
    <3>6. BatchesCover'
      <4>1. batches' = [batches EXCEPT ![Len(batches)] = Append(@, commands[next])]
        BY <3>3 DEF c, last
      <4>2. Len(batches) > 0
        BY <1>5, <3>1
      <4>. QED BY <1>1, <1>3, <1>5, <4>1, <4>2, CoverSameBatch DEF IInv
    <3>. QED BY <1>5, <3>1, <3>4, <3>5, <3>6
  <2>. QED BY <2>1, <2>2
<1>9. SenderOK'
  BY <1>1, <1>3, <1>5, <1>6, <1>8 DEF SenderOK
<1>10. BlocksOK'
  <2>1. /\ \A b \in 1..Len(blocks) : Len(blocks[b]) = RsDecodedDataSize
        /\ \A b \in 1..Len(blocks) : Reading(blocks[b], batches'[b], 0, <<>>)
    BY <1>8 DEF IInv, BlocksOK
  <2>. QED BY <1>3, <1>5, <1>8, <2>1 DEF BlocksOK
<1>11. OpenBlock'
  BY <1>1, <1>3, <1>6, <1>8 DEF OpenBlock
<1>12. PackedSupported'
  BY SupportedSoFar
<1>. QED BY <1>7, <1>8, <1>9, <1>10, <1>11, <1>12 DEF IInv

\* A command that does not fit closes the block, which then holds at least one,
\* and fills the next one alone.
LEMMA PackCloses ==
  ASSUME IInv, PackCommand, ~FitsInBlock(Packed(commands[next]))
  PROVE  IInv'
<1>. DEFINE c == commands[next]    p == Packed(c)    last == batches[Len(batches)]
<1>1. /\ commands \in Seq(CmdMsg) /\ next \in 1..Len(commands) /\ c \in Commands
      /\ packer = "packing"
  BY NextCommand DEF IInv, PackCommand
<1>2. p \in Seq(Bytes8) /\ Len(p) \in 5..12
  BY <1>1, PackedType
<1>3. /\ next' = next + 1 /\ commands' = commands /\ packer' = packer /\ sent' = sent
      /\ data' = p /\ blocks' = Append(blocks, Block(data))
      /\ batches' = Append(batches, <<c>>) /\ UNCHANGED receiver
  BY DEF PackCommand
<1>4. ~ (Len(data) + Len(p) <= RsDecodedDataSize - 1)
  BY DEF FitsInBlock
<1>. HIDE DEF p, c
<1>5. /\ data \in Seq(Bytes8) /\ blocks \in Seq(Seq(Bytes8)) /\ batches \in Seq(Seq(Commands))
      /\ commands \in CommandLists /\ RsDecodedDataSize \in Nat /\ RsDecodedDataSize > 12
      /\ Len(data) < RsDecodedDataSize
  BY FramingAssumption DEF IInv, SenderOK
<1>6. data # <<>>
  <2>. DEFINE n == Len(p)    m == Len(data)    r == RsDecodedDataSize
  <2>3. n \in 5..12 /\ r \in Nat /\ r > 12 /\ ~ (m + n <= r - 1)
    BY <1>2, <1>4, <1>5, Zenon
  <2>. HIDE DEF n, m, r
  <2>1. m # 0
    BY <2>3
  <2>2. Len(<<>>) = 0
    OBVIOUS
  <2>. QED BY <2>1, <2>2, Zenon DEF m
<1>7. Len(batches) = Len(blocks) + 1 /\ Fills(data, last)
  BY <1>1, <1>6 DEF IInv, OpenBlock
<1>8. last \in Seq(Commands)
  BY <1>5, <1>7
<1>. HIDE DEF last
<1>. DEFINE full == Block(data)
<1>9. full \in Seq(Bytes8) /\ Len(full) = RsDecodedDataSize /\ Reading(full, last, 0, <<>>)
  BY <1>5, <1>7, <1>8, ClosedBlock
<1>. HIDE DEF full
<1>10. /\ blocks' \in Seq(Seq(Bytes8)) /\ Len(blocks') = Len(blocks) + 1
       /\ blocks'[Len(blocks) + 1] = full
       /\ \A b \in 1..Len(blocks) : blocks'[b] = blocks[b]
  BY <1>3, <1>5, <1>9 DEF full
<1>11. <<c>> \in Seq(Commands)
  BY <1>1 DEF c
<1>12. /\ batches' \in Seq(Seq(Commands)) /\ Len(batches') = Len(batches) + 1
       /\ batches'[Len(batches) + 1] = <<c>>
       /\ \A b \in 1..Len(batches) : batches'[b] = batches[b]
  BY <1>3, <1>5, <1>11
<1>13. ReceiverOK' /\ ResultsOK'
  BY <1>1, <1>3, <1>5, <1>10, ReceiverUnmoved DEF IInv
<1>14. BatchesCover'
  BY <1>1, <1>3, <1>5, CoverNewBatch DEF IInv, c
<1>15. Len(p) < RsDecodedDataSize /\ p # <<>>
  <2>. DEFINE n == Len(p)    r == RsDecodedDataSize
  <2>3. n \in 5..12 /\ r \in Nat /\ r > 12
    BY <1>2, <1>5, Zenon
  <2>. HIDE DEF n, r
  <2>1. n # 0 /\ n < r
    BY <2>3
  <2>2. Len(<<>>) = 0
    OBVIOUS
  <2>. QED BY <2>1, <2>2, Zenon DEF n, r
<1>16. SenderOK'
  BY <1>1, <1>2, <1>3, <1>5, <1>10, <1>12, <1>15 DEF SenderOK
<1>17. BlocksOK'
  <2>1. ASSUME NEW b \in 1..Len(blocks')
        PROVE  /\ Len(blocks'[b]) = RsDecodedDataSize
               /\ Reading(blocks'[b], batches'[b], 0, <<>>)
    <3>1. CASE b = Len(blocks) + 1
      <4>1. blocks'[b] = full /\ batches'[b] = last
        BY <1>5, <1>7, <1>10, <1>12, <3>1 DEF last
      <4>. QED BY <1>9, <4>1
    <3>2. CASE b \in 1..Len(blocks)
      <4>1. blocks'[b] = blocks[b] /\ batches'[b] = batches[b]
        BY <1>5, <1>7, <1>10, <1>12, <3>2
      <4>2. Len(blocks[b]) = RsDecodedDataSize /\ Reading(blocks[b], batches[b], 0, <<>>)
        BY <3>2 DEF IInv, BlocksOK
      <4>. QED BY <4>1, <4>2
    <3>3. b = Len(blocks) + 1 \/ b \in 1..Len(blocks)
      BY <1>5, <1>10
    <3>. QED BY <3>1, <3>2, <3>3, Zenon
  <2>2. Len(blocks') <= Len(batches')
    BY <1>5, <1>7, <1>10, <1>12
  <2>. QED BY <2>1, <2>2 DEF BlocksOK
<1>18. Fills(p, <<c>>)
  BY <1>1, FillsOne DEF p, c
<1>19. OpenBlock'
  <2>1. packer' # "returned" /\ data' # <<>>
    BY <1>1, <1>3, <1>15
  <2>2. Len(batches') = Len(blocks') + 1 /\ batches'[Len(batches')] = <<c>>
    BY <1>5, <1>7, <1>10, <1>12
  <2>. QED BY <1>3, <1>18, <2>1, <2>2 DEF OpenBlock
<1>20. PackedSupported'
  BY SupportedSoFar
<1>. QED BY <1>13, <1>14, <1>16, <1>17, <1>19, <1>20 DEF IInv
\* Raising leaves the blocks as they are.
LEMMA PackRaises ==
  ASSUME IInv, PackUnsupported
  PROVE  IInv'
<1>1. /\ packer = "packing" /\ packer' = "raised" /\ commands' = commands /\ next' = next
      /\ data' = data /\ blocks' = blocks /\ batches' = batches /\ sent' = sent
      /\ UNCHANGED receiver
  BY DEF PackUnsupported
<1>2. Len(blocks') \in Nat
  BY <1>1 DEF IInv, SenderOK
<1>3. ReceiverOK' /\ ResultsOK'
  BY <1>1, <1>2, ReceiverUnmoved DEF IInv
<1>4. SenderOK' /\ PackedSupported' /\ BlocksOK' /\ OpenBlock' /\ BatchesCover'
  BY <1>1 DEF IInv, SenderOK, PackedSupported, BlocksOK, OpenBlock, BatchesCover
<1>. QED BY <1>3, <1>4 DEF IInv

\* When the list is at its end the open block is closed.
LEMMA PackReturns ==
  ASSUME IInv, ReturnBlocks
  PROVE  IInv'
<1>1. /\ packer = "packing" /\ packer' = "returned" /\ commands' = commands /\ next' = next
      /\ next > Len(commands)
      /\ data' = data /\ batches' = batches /\ sent' = sent /\ UNCHANGED receiver
      /\ blocks' = IF data = <<>> THEN blocks ELSE Append(blocks, Block(data))
  BY DEF ReturnBlocks
<1>2. /\ data \in Seq(Bytes8) /\ blocks \in Seq(Seq(Bytes8)) /\ batches \in Seq(Seq(Commands))
      /\ Len(data) < RsDecodedDataSize
  BY DEF IInv, SenderOK
<1>3. commands \in Seq(CmdMsg) /\ next \in 1..(Len(commands) + 1)
  BY FramingAssumption DEF IInv, SenderOK
<1>4. /\ blocks' \in Seq(Seq(Bytes8)) /\ Len(blocks') = Len(batches)
      /\ \A b \in 1..Len(blocks') : /\ Len(blocks'[b]) = RsDecodedDataSize
                                    /\ Reading(blocks'[b], batches[b], 0, <<>>)
  <2>1. CASE data = <<>>
    <3>1. blocks' = blocks
      BY <1>1, <2>1
    <3>2. Len(batches) = Len(blocks)
      BY <2>1 DEF IInv, OpenBlock
    <3>. QED BY <1>2, <3>1, <3>2 DEF IInv, BlocksOK
  <2>2. CASE data # <<>>
    <3>. DEFINE full == Block(data)    last == batches[Len(batches)]
    <3>1. Len(batches) = Len(blocks) + 1 /\ Fills(data, last)
      BY <1>1, <2>2 DEF IInv, OpenBlock
    <3>2. last \in Seq(Commands)
      BY <1>2, <3>1
    <3>. HIDE DEF last
    <3>3. full \in Seq(Bytes8) /\ Len(full) = RsDecodedDataSize /\ Reading(full, last, 0, <<>>)
      BY <1>2, <3>1, <3>2, ClosedBlock
    <3>4. blocks' = Append(blocks, full)
      BY <1>1, <2>2
    <3>. HIDE DEF full
    <3>5. /\ blocks' \in Seq(Seq(Bytes8)) /\ Len(blocks') = Len(blocks) + 1
          /\ blocks'[Len(blocks) + 1] = full
          /\ \A b \in 1..Len(blocks) : blocks'[b] = blocks[b]
      BY <1>2, <3>3, <3>4
    <3>6. ASSUME NEW b \in 1..Len(blocks')
          PROVE  /\ Len(blocks'[b]) = RsDecodedDataSize
                 /\ Reading(blocks'[b], batches[b], 0, <<>>)
      <4>1. CASE b = Len(blocks) + 1
        <5>1. blocks'[b] = full /\ batches[b] = last
          BY <3>1, <3>5, <4>1 DEF last
        <5>. QED BY <3>3, <5>1
      <4>2. CASE b \in 1..Len(blocks)
        <5>1. blocks'[b] = blocks[b]
          BY <3>5, <4>2
        <5>2. Len(blocks[b]) = RsDecodedDataSize /\ Reading(blocks[b], batches[b], 0, <<>>)
          BY <4>2 DEF IInv, BlocksOK
        <5>. QED BY <5>1, <5>2
      <4>3. b = Len(blocks) + 1 \/ b \in 1..Len(blocks)
        BY <1>2, <3>5
      <4>. QED BY <4>1, <4>2, <4>3, Zenon
    <3>. QED BY <3>1, <3>5, <3>6
  <2>. QED BY <2>1, <2>2
<1>5. ReceiverOK' /\ ResultsOK'
  BY <1>1, <1>4, ReceiverUnmoved DEF IInv
<1>6. next' = Len(commands') + 1
  BY <1>1, <1>3
<1>7. SenderOK'
  BY <1>1, <1>2, <1>4, <1>6 DEF IInv, SenderOK
<1>8. BlocksOK' /\ OpenBlock' /\ BatchesCover'
  <2>1. Len(blocks') <= Len(batches')
    BY <1>1, <1>2, <1>4
  <2>. QED BY <1>1, <1>4, <2>1 DEF IInv, BlocksOK, OpenBlock, BatchesCover
<1>9. PackedSupported'
  BY <1>1 DEF IInv, PackedSupported
<1>. QED BY <1>5, <1>7, <1>8, <1>9 DEF IInv

-----------------------------------------------------------------------------
(* The air and unpack_command keep it *)

\* What these steps do not touch.
LEMMA SenderUnmoved ==
  ASSUME IInv, UNCHANGED sender
  PROVE  SenderOK' /\ PackedSupported' /\ BlocksOK' /\ OpenBlock' /\ BatchesCover'
<1>1. /\ commands' = commands /\ next' = next /\ data' = data /\ blocks' = blocks
      /\ packer' = packer /\ batches' = batches
  BY DEF sender
<1>. QED BY <1>1 DEF IInv, SenderOK, PackedSupported, BlocksOK, OpenBlock, BatchesCover

\* A block that arrives, or is lost: the call before it has ended.
LEMMA BlockGoes ==
  ASSUME IInv, SendBlock \/ LoseBlock
  PROVE  IInv'
<1>1. /\ packer = "returned" /\ sent < Len(blocks) /\ rx = <<>> /\ sent' = sent + 1
      /\ results' = results /\ UNCHANGED sender
  BY DEF SendBlock, LoseBlock, StartUnpacking, receiver
<1>2. SenderOK' /\ PackedSupported' /\ BlocksOK' /\ OpenBlock' /\ BatchesCover'
  BY <1>1, SenderUnmoved
<1>3. /\ blocks \in Seq(Seq(Bytes8)) /\ packer' = packer /\ blocks' = blocks
      /\ batches' = batches /\ RsDecodedDataSize \in Nat /\ RsDecodedDataSize > 12
  BY <1>1, FramingAssumption DEF IInv, SenderOK, sender
<1>4. /\ sent \in 0..Len(blocks) /\ sent + 1 \in 1..Len(blocks) /\ sent' > 0
      /\ sent' \in 0..Len(blocks)
  BY <1>1, <1>3 DEF IInv, ReceiverOK
<1>5. of = OtherBlock
  <2>1. of # OtherBlock => of \in 1..Len(blocks) /\ rx = blocks[of]
    BY <1>3, <1>4 DEF IInv, ReceiverOK, OtherBlock
  <2>2. of # OtherBlock => Len(rx) = RsDecodedDataSize
    BY <2>1 DEF IInv, BlocksOK
  <2>3. Len(<<>>) = 0
    OBVIOUS
  <2>4. Len(rx) # RsDecodedDataSize
    BY <1>1, <1>3, <2>3
  <2>. QED BY <2>2, <2>4
<1>6. ReceiverOK'
  <2>1. CASE SendBlock
    <3>1. rx' = blocks[sent + 1] /\ of' = sent + 1 /\ total' = 0 /\ msgs' = <<>>
      BY <2>1 DEF SendBlock, StartUnpacking
    <3>2. Reading(blocks[sent + 1], batches[sent + 1], 0, <<>>)
      BY <1>4 DEF IInv, BlocksOK
    <3>3. blocks[sent + 1] \in Seq(Bytes8)
      BY <1>3, <1>4
    <3>4. of' \in 0..sent' /\ of' = sent'
      BY <1>1, <1>4, <3>1
    <3>. QED BY <1>1, <1>3, <1>4, <3>1, <3>2, <3>3, <3>4 DEF ReceiverOK
  <2>2. CASE LoseBlock
    <3>1. rx' = rx /\ of' = of /\ total' = total /\ msgs' = msgs
      BY <2>2 DEF LoseBlock, receiver
    <3>2. of' \in 0..sent' /\ of' = OtherBlock
      BY <1>1, <1>4, <1>5, <3>1 DEF OtherBlock
    <3>. QED BY <1>1, <1>3, <1>4, <3>1, <3>2 DEF IInv, ReceiverOK
  <2>. QED BY <2>1, <2>2
<1>7. of' # OtherBlock => of' = sent'
  BY <1>6 DEF ReceiverOK
<1>8. \A r \in 1..Len(results) : results[r].block <= sent' /\ results[r].block < sent'
  <2>. DEFINE Answer == [block : Nat, outcome : Outcomes, list : Seq(CmdMsg)]
  <2>1. results \in Seq(Answer) /\ \A x \in Answer : x.block \in Nat
    BY DEF IInv, ResultsOK
  <2>. HIDE DEF Answer
  <2>2. \A r \in 1..Len(results) : results[r].block \in Nat
    BY <2>1
  <2>3. \A r \in 1..Len(results) : results[r].block <= sent
    BY DEF IInv, ResultsOK
  <2>. QED BY <1>1, <1>4, <2>2, <2>3
<1>9. ResultsOK'
  BY <1>1, <1>3, <1>7, <1>8 DEF IInv, ResultsOK, Own
<1>. QED BY <1>2, <1>6, <1>9 DEF IInv
\* Bytes from elsewhere.
LEMMA OtherArrives ==
  ASSUME IInv, ReceiveOther
  PROVE  IInv'
<1>1. PICK bytes \in OtherBlocks : StartUnpacking(bytes, OtherBlock)
  BY DEF ReceiveOther
<1>2. /\ rx' = bytes /\ of' = OtherBlock /\ total' = 0 /\ msgs' = <<>> /\ results' = results
      /\ sent' = sent /\ UNCHANGED sender
  BY <1>1 DEF ReceiveOther, StartUnpacking
<1>3. packer' = packer /\ blocks' = blocks /\ batches' = batches
  BY <1>2 DEF sender
<1>4. bytes \in Seq(Bytes8)
  BY FramingAssumption DEF Bytes8
<1>5. SenderOK' /\ PackedSupported' /\ BlocksOK' /\ OpenBlock' /\ BatchesCover'
  BY <1>2, SenderUnmoved
<1>6. ReceiverOK'
  BY <1>2, <1>3, <1>4 DEF IInv, ReceiverOK, OtherBlock
<1>7. ResultsOK'
  BY <1>2, <1>3 DEF IInv, ResultsOK, Own
<1>. QED BY <1>5, <1>6, <1>7 DEF IInv

\* One command unpacked.
LEMMA CommandUnpacked ==
  ASSUME IInv, UnpackCommand
  PROVE  IInv'
<1>1. /\ rx[total + 1] # CmdEndOfFrame
      /\ msgs' = Append(msgs, Unpacked) /\ total' = total + 5 + DataLen(Unpacked.id)
      /\ rx' = rx /\ of' = of /\ results' = results /\ sent' = sent /\ UNCHANGED sender
  BY DEF UnpackCommand
<1>2. packer' = packer /\ blocks' = blocks /\ batches' = batches
  BY <1>1 DEF sender
<1>3. /\ sent \in 0..Len(blocks) /\ of \in 0..sent /\ rx \in Seq(Bytes8) /\ total \in Nat
      /\ msgs \in Seq(CmdMsg)
  BY DEF IInv, ReceiverOK
<1>4. Unpacked \in CmdMsg /\ DataLen(Unpacked.id) \in Nat
  BY <1>3, UnpackedType
<1>5. msgs' \in Seq(CmdMsg) /\ total' \in Nat
  <2>. DEFINE u == Unpacked    n == DataLen(Unpacked.id)
  <2>1. u \in CmdMsg /\ n \in Nat /\ msgs' = Append(msgs, u) /\ total' = total + 5 + n
    BY <1>1, <1>4
  <2>. HIDE DEF u, n
  <2>2. msgs' \in Seq(CmdMsg)
    BY <1>3, <2>1
  <2>3. total' \in Nat
    BY <1>3, <2>1
  <2>. QED BY <2>2, <2>3
<1>6. of # OtherBlock =>
        of = sent /\ rx = blocks[of] /\ Reading(rx, batches[of], total', msgs')
  <2>. SUFFICES ASSUME of # OtherBlock
                PROVE  of = sent /\ rx = blocks[of] /\ Reading(rx, batches[of], total', msgs')
    OBVIOUS
  <2>1. of = sent /\ rx = blocks[of] /\ Reading(rx, batches[of], total, msgs)
    BY DEF IInv, ReceiverOK
  <2>2. batches[of] \in Seq(Commands)
    <3>1. of \in 1..Len(batches)
      BY <1>3 DEF IInv, BlocksOK, SenderOK, OtherBlock
    <3>. QED BY <3>1 DEF IInv, SenderOK
  <2>3. Reading(rx, batches[of], total + 5 + DataLen(Unpacked.id), Append(msgs, Unpacked))
    BY <1>1, <1>3, <2>1, <2>2, ReadingOn
  <2>. QED BY <1>1, <2>1, <2>3, Zenon
<1>7. SenderOK' /\ PackedSupported' /\ BlocksOK' /\ OpenBlock' /\ BatchesCover'
  BY <1>1, SenderUnmoved
<1>8. ReceiverOK'
  BY <1>1, <1>2, <1>5, <1>6 DEF IInv, ReceiverOK
<1>9. ResultsOK'
  BY <1>1, <1>2 DEF IInv, ResultsOK, Own
<1>. QED BY <1>7, <1>8, <1>9 DEF IInv

\* A call that ends: with one of the list's blocks it can only have returned,
\* with all of that block's commands.
LEMMA CallEnds ==
  ASSUME IInv, EndOfFrame \/ UnpackRaises
  PROVE  IInv'
<1>1. PICK outcome \in Outcomes :
        /\ Finish(outcome)
        /\ of # OtherBlock /\ ~TooLong /\ total < Len(rx) =>
             IF outcome = "returned" THEN rx[total + 1] = CmdEndOfFrame
             ELSE rx[total + 1] # CmdEndOfFrame /\ ~Supported(rx[total + 1] % TagBit)
  BY DEF EndOfFrame, UnpackRaises, Outcomes
<1>. DEFINE new == [block |-> of, outcome |-> outcome, list |-> msgs]
            Answer == [block : Nat, outcome : Outcomes, list : Seq(CmdMsg)]
<1>2. /\ results' = Append(results, new) /\ rx' = <<>> /\ of' = OtherBlock /\ total' = 0
      /\ msgs' = <<>> /\ sent' = sent /\ UNCHANGED sender
  BY <1>1 DEF Finish
<1>3. packer' = packer /\ blocks' = blocks /\ batches' = batches
  BY <1>2 DEF sender
<1>4. /\ sent \in 0..Len(blocks) /\ of \in 0..sent /\ rx \in Seq(Bytes8) /\ total \in Nat
      /\ msgs \in Seq(CmdMsg) /\ Len(blocks) \in Nat
  BY DEF IInv, ReceiverOK, SenderOK
<1>5. of # OtherBlock => outcome = "returned" /\ msgs = batches[of]
  <2>. SUFFICES ASSUME of # OtherBlock PROVE outcome = "returned" /\ msgs = batches[of]
    OBVIOUS
  <2>1. Reading(rx, batches[of], total, msgs)
    BY DEF IInv, ReceiverOK
  <2>2. batches[of] \in Seq(Commands)
    <3>1. of \in 1..Len(batches)
      BY <1>4 DEF IInv, BlocksOK, SenderOK, OtherBlock
    <3>. QED BY <3>1 DEF IInv, SenderOK
  <2>3. /\ total < Len(rx)
        /\ rx[total + 1] = CmdEndOfFrame => msgs = batches[of]
        /\ rx[total + 1] # CmdEndOfFrame => Supported(rx[total + 1] % TagBit)
    BY <1>4, <2>1, <2>2, ReadingDecides
  <2>4. ~TooLong
    <3>1. of \in 1..Len(blocks) /\ rx = blocks[of]
      BY <1>4 DEF IInv, ReceiverOK, OtherBlock
    <3>2. Len(rx) = RsDecodedDataSize /\ RsDecodedDataSize \in Nat
      BY <3>1, FramingAssumption DEF IInv, BlocksOK
    <3>. QED BY <3>2 DEF TooLong
  <2>. QED BY <1>1, <2>3, <2>4, Zenon
<1>6. /\ new \in Answer /\ new.block = of /\ new.outcome = outcome /\ new.list = msgs
      /\ results \in Seq(Answer) /\ \A x \in Answer : x.block \in Nat
  <2>1. of \in Nat
    BY <1>4
  <2>2. new \in Answer
    BY <1>4, <2>1
  <2>3. results \in Seq(Answer)
    BY Zenon DEF IInv, ResultsOK
  <2>4. \A x \in Answer : x.block \in Nat
    OBVIOUS
  <2>5. new.block = of /\ new.outcome = outcome /\ new.list = msgs
    OBVIOUS
  <2>. QED BY <2>2, <2>3, <2>4, <2>5, Zenon
<1>. HIDE DEF new, Answer
<1>7. /\ results' \in Seq(Answer) /\ Len(results') = Len(results) + 1
      /\ results'[Len(results) + 1] = new
      /\ \A r \in 1..Len(results) : results'[r] = results[r] /\ results[r] \in Answer
      /\ Len(results) \in Nat
  BY <1>2, <1>6
<1>8. \A r \in 1..Len(results') : r = Len(results) + 1 \/ r \in 1..Len(results)
  BY <1>7
<1>9. ASSUME NEW r \in 1..Len(results')
      PROVE  /\ results'[r].block <= sent
             /\ results'[r].block # OtherBlock =>
                  /\ results'[r].outcome = "returned"
                  /\ results'[r].list = batches[results'[r].block]
  <2>1. CASE r = Len(results) + 1
    <3>1. results'[r].block = of /\ results'[r].outcome = outcome /\ results'[r].list = msgs
      BY <1>6, <1>7, <2>1
    <3>2. of <= sent
      BY <1>4
    <3>. QED BY <1>5, <3>1, <3>2, Zenon
  <2>2. CASE r \in 1..Len(results)
    <3>1. results'[r] = results[r]
      BY <1>7, <2>2
    <3>2. results[r].block <= sent
      BY <2>2 DEF IInv, ResultsOK
    <3>3. results[r].block # OtherBlock =>
            results[r].outcome = "returned" /\ results[r].list = batches[results[r].block]
      BY <2>2 DEF IInv, ResultsOK, Own
    <3>. QED BY <3>1, <3>2, <3>3, Zenon
  <2>. QED BY <1>8, <2>1, <2>2, Zenon
<1>10. ASSUME NEW r \in 1..Len(results'), NEW s \in 1..Len(results'), r < s,
              results'[r].block # OtherBlock, results'[s].block # OtherBlock
       PROVE  results'[r].block < results'[s].block
  <2>1. r \in 1..Len(results)
    BY <1>7, <1>10
  <2>2. results'[r] = results[r]
    BY <1>7, <2>1
  <2>3. CASE s = Len(results) + 1
    <3>1. results'[s].block = of
      BY <1>6, <1>7, <2>3
    <3>2. of # OtherBlock
      BY <1>10, <3>1
    <3>3. results[r].block < of
      BY <2>1, <3>2 DEF IInv, ResultsOK
    <3>. QED BY <2>2, <3>1, <3>3, Zenon
  <2>4. CASE s \in 1..Len(results)
    <3>1. results'[s] = results[s]
      BY <1>7, <2>4
    <3>2. results[r].block < results[s].block
      BY <1>10, <2>1, <2>2, <2>4, <3>1 DEF IInv, ResultsOK, Own
    <3>. QED BY <2>2, <3>1, <3>2, Zenon
  <2>. QED BY <1>8, <2>3, <2>4, Zenon
<1>11. SenderOK' /\ PackedSupported' /\ BlocksOK' /\ OpenBlock' /\ BatchesCover'
  BY <1>2, SenderUnmoved
<1>12. ReceiverOK'
  BY <1>2, <1>3, <1>4 DEF IInv, ReceiverOK, OtherBlock
<1>13. ResultsOK'
  BY <1>2, <1>3, <1>7, <1>9, <1>10 DEF ResultsOK, Own, Answer
<1>. QED BY <1>11, <1>12, <1>13 DEF IInv

\* Every step keeps it.
LEMMA NextInvariant == IInv /\ [Next]_vars => IInv'
<1>. SUFFICES ASSUME IInv, [Next]_vars PROVE IInv'
  OBVIOUS
<1>1. CASE PackCommand
  BY <1>1, PackFits, PackCloses
<1>2. CASE PackUnsupported
  BY <1>2, PackRaises
<1>3. CASE ReturnBlocks
  BY <1>3, PackReturns
<1>4. CASE SendBlock \/ LoseBlock
  BY <1>4, BlockGoes
<1>5. CASE ReceiveOther
  BY <1>5, OtherArrives
<1>6. CASE UnpackCommand
  BY <1>6, CommandUnpacked
<1>7. CASE EndOfFrame \/ UnpackRaises
  BY <1>7, CallEnds
<1>8. CASE UNCHANGED vars
  <2>1. UNCHANGED sender /\ UNCHANGED sent /\ UNCHANGED receiver
    BY <1>8 DEF vars
  <2>2. SenderOK' /\ PackedSupported' /\ BlocksOK' /\ OpenBlock' /\ BatchesCover'
    BY <2>1, SenderUnmoved
  <2>. QED BY <2>1, <2>2 DEF IInv, ReceiverOK, ResultsOK, Own, sender, receiver
<1>. QED BY <1>1, <1>2, <1>3, <1>4, <1>5, <1>6, <1>7, <1>8 DEF Next
-----------------------------------------------------------------------------
(* The theorems *)

\* The blocks, the calls and what they gave are as IInv says, in every
\* reachable state.
THEOREM Invariance == Spec => []IInv
BY InitInvariant, NextInvariant, PTL DEF Spec

\* Every block is what the Reed-Solomon encoder takes, and the offset stays
\* in it.
THEOREM TypesCorrect == Spec => []TypeOK
<1>1. ASSUME IInv PROVE TypeOK
  <2>1. /\ blocks \in Seq(Seq(Bytes8)) /\ commands \in CommandLists
        /\ next \in 1..(Len(commands) + 1) /\ packer \in {"packing", "returned", "raised"}
    BY <1>1 DEF IInv, SenderOK
  <2>2. sent \in 0..Len(blocks) /\ of \in 0..sent /\ rx \in Seq(Bytes8)
    BY <1>1 DEF IInv, ReceiverOK
  <2>3. ASSUME NEW b \in DOMAIN blocks
        PROVE  /\ Len(blocks[b]) = RsDecodedDataSize
               /\ \A i \in DOMAIN blocks[b] : blocks[b][i] \in 0..255
    <3>1. b \in 1..Len(blocks)
      BY <2>1, <2>3
    <3>2. blocks[b] \in Seq(Bytes8)
      BY <2>1, <3>1
    <3>3. Len(blocks[b]) = RsDecodedDataSize
      BY <1>1, <3>1 DEF IInv, BlocksOK
    <3>4. \A i \in DOMAIN blocks[b] : blocks[b][i] \in Bytes8
      BY <3>2
    <3>. QED BY <3>3, <3>4 DEF Bytes8
  <2>4. ASSUME of # OtherBlock
        PROVE  rx = blocks[of] /\ total \in 0..Len(rx)
    <3>1. rx = blocks[of] /\ Reading(rx, batches[of], total, msgs)
      BY <1>1, <2>4 DEF IInv, ReceiverOK
    <3>2. batches[of] \in Seq(Commands)
      <4>1. of \in 1..Len(batches) /\ batches \in Seq(Seq(Commands))
        BY <1>1, <2>1, <2>2, <2>4 DEF IInv, BlocksOK, SenderOK, OtherBlock
      <4>. QED BY <4>1
    <3>3. total \in 0..(Len(rx) - 1)
      BY <2>2, <3>1, <3>2, ReadingStands
    <3>4. total \in 0..Len(rx)
      BY <2>2, <3>3
    <3>. QED BY <3>1, <3>4
  <2>. QED BY <2>1, <2>2, <2>3, <2>4 DEF TypeOK
<1>. QED BY <1>1, Invariance, PTL

\* No call of unpack_command fails on a block of command_multi_pack.
THEOREM BlocksAreReadable == Spec => []BlocksReadable
<1>1. ASSUME IInv PROVE BlocksReadable
  <2>1. ASSUME NEW r \in DOMAIN results, Own(r) PROVE results[r].outcome = "returned"
    <3>1. r \in 1..Len(results)
      BY <1>1 DEF IInv, ResultsOK
    <3>. QED BY <1>1, <2>1, <3>1 DEF IInv, ResultsOK
  <2>. QED BY <2>1 DEF BlocksReadable
<1>. QED BY <1>1, Invariance, PTL

\* Each call gives the commands packed into its block, all of them and no other.
THEOREM BatchesArriveWhole == Spec => []BatchesWhole
<1>1. ASSUME IInv PROVE BatchesWhole
  <2>1. ASSUME NEW r \in DOMAIN results, Own(r)
        PROVE  results[r].list = batches[results[r].block]
    <3>1. r \in 1..Len(results)
      BY <1>1 DEF IInv, ResultsOK
    <3>. QED BY <1>1, <2>1, <3>1 DEF IInv, ResultsOK
  <2>. QED BY <2>1 DEF BatchesWhole
<1>. QED BY <1>1, Invariance, PTL

\* A list with a command that cannot be packed is not sent; of any other, with no
\* block lost, the calls together give the list the operator sent.
THEOREM ListWholeOrNothing == Spec => []WholeListOrNothing
<1>1. ASSUME IInv PROVE NoneOfRefusedList
  <2>. SUFFICES ASSUME NEW k \in DOMAIN commands, ~Supported(commands[k].id)
                PROVE  sent = 0 /\ \A r \in DOMAIN results : ~Own(r)
    BY DEF NoneOfRefusedList
  <2>1. commands \in Seq(CmdMsg)
    BY <1>1, FramingAssumption DEF IInv, SenderOK
  <2>2. packer # "returned"
    <3>1. SUFFICES ASSUME packer = "returned" PROVE FALSE
      OBVIOUS
    <3>2. next - 1 = Len(commands)
      BY <1>1, <2>1, <3>1 DEF IInv, SenderOK
    <3>3. k \in 1..(next - 1)
      BY <2>1, <3>2
    <3>. QED BY <1>1, <3>3 DEF IInv, PackedSupported
  <2>3. sent = 0 /\ \A r \in 1..Len(results) : ~Own(r)
    BY <1>1, <2>2, NothingSent DEF IInv
  <2>4. DOMAIN results = 1..Len(results)
    BY <1>1 DEF IInv, ResultsOK
  <2>. QED BY <2>3, <2>4
<1>2. ASSUME IInv PROVE AllOfSentList
  <2>. SUFFICES ASSUME packer = "returned",
                       \A b \in DOMAIN blocks : \E r \in DOMAIN results : results[r].block = b
                PROVE  /\ \A b, d \in DOMAIN blocks : b < d => Result(b) < Result(d)
                       /\ Concatenates([b \in DOMAIN blocks |-> results[Result(b)].list],
                                       commands)
    BY DEF AllOfSentList
  <2>1. /\ batches \in Seq(Seq(Commands)) /\ Len(batches) = Len(blocks)
        /\ DOMAIN blocks = 1..Len(blocks) /\ next = Len(commands) + 1
        /\ commands \in Seq(CmdMsg)
    BY <1>2, FramingAssumption DEF IInv, SenderOK, OpenBlock
  <2>2. DOMAIN results = 1..Len(results) /\ Len(results) \in Nat
    BY <1>2 DEF IInv, ResultsOK
  <2>3. ASSUME NEW b \in DOMAIN blocks
        PROVE  /\ Result(b) \in 1..Len(results) /\ results[Result(b)].block = b
               /\ Own(Result(b)) /\ results[Result(b)].list = batches[b]
    <3>1. Result(b) \in 1..Len(results) /\ results[Result(b)].block = b
      BY <2>2, Zenon DEF Result
    <3>2. b # OtherBlock
      BY <2>1 DEF OtherBlock
    <3>3. Own(Result(b))
      BY <3>1, <3>2, Zenon DEF Own
    <3>4. results[Result(b)].list = batches[results[Result(b)].block]
      BY <1>2, <3>1, <3>3, Zenon DEF IInv, ResultsOK
    <3>. QED BY <3>1, <3>3, <3>4, Zenon
  <2>4. ASSUME NEW b \in DOMAIN blocks, NEW d \in DOMAIN blocks, b < d
        PROVE  Result(b) < Result(d)
    <3>. DEFINE r == Result(b)    s == Result(d)
    <3>1. /\ r \in 1..Len(results) /\ s \in 1..Len(results) /\ Own(r) /\ Own(s)
          /\ results[r].block = b /\ results[s].block = d
      BY <2>3
    <3>. HIDE DEF r, s
    <3>2. s < r => d < b
      BY <1>2, <3>1, Zenon DEF IInv, ResultsOK
    <3>3. b \in Nat /\ d \in Nat
      BY <2>1
    <3>4. r # s
      BY <2>4, <3>1, <3>3
    <3>5. ~ (s < r)
      BY <2>4, <3>2, <3>3
    <3>6. r < s
      BY <2>2, <3>1, <3>4, <3>5
    <3>. QED BY <3>6 DEF r, s
  <2>. DEFINE pieces == [b \in DOMAIN blocks |-> results[Result(b)].list]
  <2>5. pieces = batches
    <3>1. \A b \in 1..Len(batches) : results[Result(b)].list = batches[b]
      BY <2>1, <2>3
    <3>2. batches = [b \in 1..Len(batches) |-> batches[b]]
      BY <2>1
    <3>. QED BY <2>1, <3>1, <3>2, Zenon
  <2>. HIDE DEF pieces
  <2>6. PICK cut \in [0..Len(batches) -> 0..(next - 1)] :
          /\ cut[0] = 0 /\ cut[Len(batches)] = next - 1
          /\ \A b \in 1..Len(batches) :
               SubSeq(commands, cut[b - 1] + 1, cut[b]) = batches[b]
    BY <1>2 DEF IInv, BatchesCover
  <2>7. Concatenates(batches, commands)
    <3>1. next - 1 = Len(commands) /\ DOMAIN batches = 1..Len(batches)
      BY <2>1
    <3>. QED BY <2>6, <3>1, Zenon DEF Concatenates
  <2>. QED BY <2>4, <2>5, <2>7 DEF pieces
<1>3. IInv => WholeListOrNothing
  BY <1>1, <1>2 DEF WholeListOrNothing
<1>. QED BY <1>3, Invariance, PTL
===============================================================================
