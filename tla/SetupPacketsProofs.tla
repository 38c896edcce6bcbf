-------------------------- MODULE SetupPacketsProofs --------------------------
(***************************************************************************)
(* What reaches the chip is what the host asked for, for bytes of any      *)
(* number of values, any block counts and any dummy clocks a V3 host may   *)
(* name.                                                                   *)
(***************************************************************************)
EXTENDS SetupPackets, SequenceTheorems, TLAPS

(* The operation is the request, but for a V3 read whose clocks saturate:  *)
(* that one has more bytes than the command buffer, asked for and made.    *)
Busy == pc \in {"setup", "reading", "writing"}

ReadMatches ==
  /\ op.kind = "read"
  /\ asked.command.lanes = 1
  /\ asked.command.cycles \in Nat /\ op.dummyBytes \in Nat
  /\ op.dummyBytes = asked.command.cycles \div 8
     \/ (op.dummyBytes >= CommandBuffer /\ asked.command.cycles \div 8 >= CommandBuffer)

WriteMatches ==
  /\ op.kind = "write"
  /\ op.dummyBytes = 0
  /\ InsideChip(asked.command, asked.address, asked.blocks)

OpMatches ==
  /\ asked.command.addrLen \in {3, 4} /\ op.addrLen = asked.command.addrLen
  /\ asked.command.opcode \in Nat /\ op.opcode = asked.command.opcode
  /\ asked.address \in Address /\ op.address = asked.address
  /\ asked.blocks \in Nat /\ op.blocks = asked.blocks
  /\ ReadMatches \/ WriteMatches

(* The read that is under way has had its command.                         *)
ReadUnderWay ==
  /\ ReadMatches
  /\ frame = CommandBytes(op, asked.address)
  /\ Len(frame) <= CommandBuffer

(* The page that comes next is in its place, unless the last is written    *)
(* and its address may have wrapped, and the last frame was the command    *)
(* for the page before it.                                                 *)
PagesUnderWay ==
  /\ WriteMatches
  /\ page \in Address /\ pages \in 0 .. asked.blocks
  /\ pages < asked.blocks => Place(page) = Place(asked.address) + Base * pages
  /\ pages > 0 => \E last \in Address :
                    /\ frame = CommandBytes(op, last)
                    /\ Place(last) = Place(asked.address) + Base * (pages - 1)

(* A read that ran past the command buffer had more in it than the buffer. *)
OnlyLongReadsPanic ==
  pc = "panic" =>
    1 + asked.command.addrLen + (asked.command.cycles \div 8) > CommandBuffer

IInv ==
  /\ pc \in {"idle", "setup", "reading", "writing", "panic"}
  /\ ioMode = 1
  /\ Busy => OpMatches
  /\ pc = "reading" => ReadUnderWay
  /\ pc = "writing" => PagesUnderWay
  /\ pc \in {"idle", "setup"} => pages = 0
  /\ OnlyLongReadsPanic

-----------------------------------------------------------------------------
(* The packet.                                                             *)
LEMMA ByteSplit ==
  ASSUME NEW n \in Nat
  PROVE  (n % Base) + Base * (n \div Base) = n
BY BaseAssumption

LEMMA AddressIsTuple ==
  ASSUME NEW a \in Address
  PROVE  /\ a = <<a[1], a[2], a[3], a[4]>>
         /\ a[1] \in Byte /\ a[2] \in Byte /\ a[3] \in Byte /\ a[4] \in Byte
BY DEF Address

(* Both parsers find the fields of a packet again.                         *)
LEMMA FieldsOfPacket ==
  ASSUME NEW n \in BlockCounts, NEW f, NEW a \in Address
  PROVE  LET data == Packet(n, f, a)
         IN  /\ BlockCount(data) = n /\ n \in Nat /\ StartAddress(data) = a
             /\ data[3] = f[1] /\ data[4] = f[2] /\ ~IsExplicit(data)
<1> DEFINE data == Packet(n, f, a)
<1>1. n \in Nat
  BY CountAssumption, BaseAssumption
<1>2. /\ data[0] = n % Base /\ data[1] = n \div Base /\ data[3] = f[1] /\ data[4] = f[2]
      /\ data[6] = a[1] /\ data[7] = a[2] /\ data[8] = a[3] /\ data[9] = a[4]
      /\ 11 \notin DOMAIN data
  BY DEF Packet
<1> HIDE DEF data
<1>3. BlockCount(data) = n
  BY <1>1, <1>2, ByteSplit DEF BlockCount
<1>4. StartAddress(data) = a
  BY <1>2, AddressIsTuple DEF StartAddress
<1>5. ~IsExplicit(data)
  BY <1>2 DEF IsExplicit
<1> QED BY <1>1, <1>2, <1>3, <1>4, <1>5 DEF data

LEMMA FieldsOfPacketV3 ==
  ASSUME NEW n \in BlockCounts, NEW c, NEW a \in Address
  PROVE  LET data == PacketV3(n, c, a)
         IN  /\ BlockCount(data) = n /\ n \in Nat /\ StartAddress(data) = a
             /\ data[4] = c.opcode /\ data[10] = c.addrLen
             /\ data[11] = c.cycles \div 2 /\ IsExplicit(data)
<1> DEFINE data == PacketV3(n, c, a)
           v2 == Packet(n, <<9, c.opcode>>, a)
<1>1. /\ data[0] = v2[0] /\ data[1] = v2[1] /\ data[3] = v2[3] /\ data[4] = v2[4]
      /\ data[6] = v2[6] /\ data[7] = v2[7] /\ data[8] = v2[8] /\ data[9] = v2[9]
      /\ data[10] = c.addrLen /\ data[11] = c.cycles \div 2 /\ 11 \in DOMAIN data
  BY DEF PacketV3
<1>2. /\ BlockCount(v2) = n /\ n \in Nat /\ StartAddress(v2) = a
      /\ v2[3] = 9 /\ v2[4] = c.opcode
  BY FieldsOfPacket
<1> HIDE DEF data, v2
<1>3. BlockCount(data) = n /\ StartAddress(data) = a
  BY <1>1, <1>2 DEF BlockCount, StartAddress
<1>4. IsExplicit(data)
  BY <1>1, <1>2 DEF IsExplicit, Configurable
<1> QED BY <1>1, <1>2, <1>3, <1>4 DEF data

-----------------------------------------------------------------------------
(* The operation.  A V2 read: what the host puts into mode and opcode for  *)
(* a command of the chip on one lane, the tables turn into that command.   *)
LEMMA TablesInvertFields ==
  ASSUME NEW c \in ChipReads, c.lanes = 1, NEW f \in ReadFields(c),
         NEW data, data[3] = f[1], data[4] = f[2], ~IsExplicit(data)
  PROVE  /\ c.opcode \in Nat /\ c.addrLen \in {3, 4} /\ c.cycles \in Nat
         /\ ReadOpcode(data) = c.opcode /\ ReadAddrLen(data) = c.addrLen
         /\ BytesOf(DummyCycles(data)) = c.cycles \div 8
<1>1. c \in {Cmd(\h03, 3, 0, 1), Cmd(\h13, 4, 0, 1), Cmd(\h0b, 3, 8, 1), Cmd(\h0c, 4, 8, 1),
             Cmd(\h0b, 4, 8, 1), Cmd(VendorFast, 3, 8, 1)}
  BY DEF ChipReads, Cmd
<1>2. CASE c = Cmd(\h03, 3, 0, 1)
  <2>1. c.opcode = 3 /\ c.addrLen = 3 /\ c.cycles = 0
    BY <1>2 DEF Cmd
  <2>2. data[3] = 1 /\ data[4] \in {0, 3}
    BY <2>1, VendorAssumption DEF ReadFields, TableOpcodes
  <2> QED BY <2>1, <2>2 DEF ReadOpcode, ReadAddrLen, DummyCycles, TableCycles, BytesOf,
             FourByteReads, FourByteReadModes
<1>3. CASE c = Cmd(\h13, 4, 0, 1)
  <2>1. c.opcode = 19 /\ c.addrLen = 4 /\ c.cycles = 0
    BY <1>3 DEF Cmd
  <2>2. data[3] = 1 /\ data[4] = 19
    BY <2>1, VendorAssumption DEF ReadFields, TableOpcodes
  <2> QED BY <2>1, <2>2 DEF ReadOpcode, ReadAddrLen, DummyCycles, TableCycles, BytesOf,
             FourByteReads, FourByteReadModes
<1>4. CASE c = Cmd(\h0b, 3, 8, 1) \/ c = Cmd(\h0b, 4, 8, 1)
  <2>1. c.opcode = 11 /\ c.addrLen \in {3, 4} /\ c.cycles = 8
    BY <1>4 DEF Cmd
  <2>2. data[3] = (IF c.addrLen = 4 THEN 4 ELSE 2) /\ data[4] = 11
    BY <2>1 DEF ReadFields
  <2> QED BY <2>1, <2>2 DEF ReadOpcode, ReadAddrLen, DummyCycles, TableCycles, BytesOf,
             FourByteReads, FourByteReadModes
<1>5. CASE c = Cmd(\h0c, 4, 8, 1)
  <2>1. c.opcode = 12 /\ c.addrLen = 4 /\ c.cycles = 8
    BY <1>5 DEF Cmd
  <2>2. data[3] \in {1, 5} /\ data[4] = 12
    BY <2>1 DEF ReadFields
  <2> QED BY <2>1, <2>2 DEF ReadOpcode, ReadAddrLen, DummyCycles, TableCycles, BytesOf,
             FourByteReads, FourByteReadModes
<1>6. CASE c = Cmd(VendorFast, 3, 8, 1)
  <2>1. c.opcode = VendorFast /\ c.addrLen = 3 /\ c.cycles = 8
    BY <1>6 DEF Cmd
  <2>2. VendorFast \in Nat /\ VendorFast # 0 /\ VendorFast \notin TableOpcodes
    BY VendorAssumption
  <2>3. data[3] \in {2, 3} /\ data[4] = VendorFast
    BY <2>1, <2>2 DEF ReadFields, TableOpcodes
  <2> QED BY <2>1, <2>2, <2>3 DEF ReadOpcode, ReadAddrLen, DummyCycles, TableCycles, BytesOf,
             FourByteReads, FourByteReadModes, DummyBytes, TableOpcodes
<1> QED BY <1>1, <1>2, <1>3, <1>4, <1>5, <1>6

(* A V3 read: byte 11 gives the clocks back, or saturates.                 *)
LEMMA ExplicitFields ==
  ASSUME NEW o \in {\h03, \h0b, VendorFast}, NEW len \in {3, 4},
         NEW cycles \in ExplicitCycles, NEW data,
         data[4] = o, data[10] = len, data[11] = cycles \div 2, IsExplicit(data)
  PROVE  /\ o \in Nat /\ cycles \in Nat
         /\ ReadOpcode(data) = o /\ ReadAddrLen(data) = len
         /\ BytesOf(DummyCycles(data)) \in Nat
         /\ BytesOf(DummyCycles(data)) = cycles \div 8
            \/ (BytesOf(DummyCycles(data)) >= CommandBuffer /\ cycles \div 8 >= CommandBuffer)
<1>1. cycles \in 0 .. 510 /\ cycles % 8 = 0
  BY CyclesAssumption
<1>2. o \in Nat /\ o # 0
  BY VendorAssumption
<1>3. ReadOpcode(data) = o /\ ReadAddrLen(data) = len
  BY <1>2 DEF ReadOpcode, ReadAddrLen
<1>4. DummyCycles(data) = IF cycles > 255 THEN 255 ELSE cycles
  <2>1. 2 * (cycles \div 2) = cycles
    BY <1>1
  <2> QED BY <2>1 DEF DummyCycles
<1>5. (cycles + 7) \div 8 = cycles \div 8 /\ cycles \div 8 \in Nat
  BY <1>1
<1>6. CASE cycles > 255
  <2>1. DummyCycles(data) = 255
    BY <1>4, <1>6
  <2>2. BytesOf(DummyCycles(data)) = 32
    BY <2>1 DEF BytesOf
  <2>3. cycles \div 8 >= 10
    BY <1>1, <1>6
  <2> QED BY <1>1, <1>2, <1>3, <2>2, <2>3 DEF CommandBuffer
<1>7. CASE ~(cycles > 255)
  <2>1. DummyCycles(data) = cycles
    BY <1>4, <1>7
  <2>2. BytesOf(DummyCycles(data)) = cycles \div 8
    BY <1>5, <2>1 DEF BytesOf
  <2> QED BY <1>1, <1>2, <1>3, <1>5, <2>2
<1> QED BY <1>1, <1>6, <1>7

(* A write.                                                                *)
LEMMA WriteFieldsKeep ==
  ASSUME NEW c \in ChipWrites, NEW f \in WriteFields(c),
         NEW data, data[3] = f[1], data[4] = f[2]
  PROVE  /\ c.opcode \in Nat /\ c.addrLen \in {3, 4}
         /\ (IF data[4] # 0 THEN data[4] ELSE \h02) = c.opcode
         /\ WriteAddrLen(data) = c.addrLen
<1>1. CASE c = Cmd(\h02, 3, 0, 1)
  <2>1. c.opcode = 2 /\ c.addrLen = 3
    BY <1>1 DEF Cmd
  <2> QED BY <2>1 DEF WriteFields, WriteAddrLen, FourByteWriteModes
<1>2. CASE c = Cmd(\h02, 4, 0, 1) \/ c = Cmd(\h12, 4, 0, 1)
  <2>1. c.opcode \in {2, 18} /\ c.addrLen = 4
    BY <1>2 DEF Cmd
  <2> QED BY <2>1 DEF WriteFields, WriteAddrLen, FourByteWriteModes
<1> QED BY <1>1, <1>2 DEF ChipWrites

-----------------------------------------------------------------------------
LEMMA ConcatOf ==
  ASSUME NEW s \in Seq(Nat), NEW t \in Seq(Nat)
  PROVE  /\ s \o t \in Seq(Nat) /\ Len(s \o t) = Len(s) + Len(t)
         /\ \A i \in 1 .. Len(s) + Len(t) :
              (s \o t)[i] = IF i <= Len(s) THEN s[i] ELSE t[i - Len(s)]
BY ConcatProperties

(* The command bytes: one opcode, the address from its highest byte on,    *)
(* the dummy bytes.                                                        *)
LEMMA CommandShape ==
  ASSUME NEW o, o.opcode \in Nat, o.addrLen \in {3, 4}, o.dummyBytes \in Nat,
         NEW a \in Address
  PROVE  LET w == CommandBytes(o, a)
         IN  /\ Len(w) = 1 + o.addrLen + o.dummyBytes
             /\ w[1] = o.opcode
             /\ \A i \in 1 .. o.addrLen : w[1 + i] = a[o.addrLen + 1 - i]
<1> DEFINE h == <<o.opcode>>
           b == AddressBytes(a, o.addrLen)
           d == [i \in 1 .. o.dummyBytes |-> 0]
           hb == h \o b
           w == hb \o d
<1>0. a[1] \in Nat /\ a[2] \in Nat /\ a[3] \in Nat /\ a[4] \in Nat
  BY AddressIsTuple, BaseAssumption DEF Byte
<1>1. h \in Seq(Nat) /\ Len(h) = 1 /\ h[1] = o.opcode
  OBVIOUS
<1>2. /\ b \in Seq(Nat) /\ Len(b) = o.addrLen
      /\ \A i \in 1 .. o.addrLen : b[i] = a[o.addrLen + 1 - i]
  <2>1. CASE o.addrLen = 4
    <3>1. b = <<a[4], a[3], a[2], a[1]>>
      BY <2>1 DEF AddressBytes
    <3> HIDE DEF b
    <3>2. b \in Seq(Nat)
      BY <1>0, <3>1
    <3>3. Len(b) = 4
      BY <3>1
    <3>4. b[1] = a[4] /\ b[2] = a[3] /\ b[3] = a[2] /\ b[4] = a[1]
      BY <3>1
    <3> QED BY <2>1, <3>2, <3>3, <3>4
  <2>2. CASE o.addrLen = 3
    <3>1. b = <<a[3], a[2], a[1]>>
      BY <2>2 DEF AddressBytes
    <3> HIDE DEF b
    <3>2. b \in Seq(Nat)
      BY <1>0, <3>1
    <3>3. Len(b) = 3
      BY <3>1
    <3>4. b[1] = a[3] /\ b[2] = a[2] /\ b[3] = a[1]
      BY <3>1
    <3> QED BY <2>2, <3>2, <3>3, <3>4
  <2> QED BY <2>1, <2>2
<1>3. d \in Seq(Nat) /\ Len(d) = o.dummyBytes
  OBVIOUS
<1>4. CommandBytes(o, a) = w
  BY DEF CommandBytes
<1> HIDE DEF h, b, d
<1>5. /\ hb \in Seq(Nat) /\ Len(hb) = Len(h) + Len(b)
      /\ \A i \in 1 .. Len(h) + Len(b) : hb[i] = IF i <= Len(h) THEN h[i] ELSE b[i - Len(h)]
  BY <1>1, <1>2, ConcatOf
<1> HIDE DEF hb
<1>6. /\ w \in Seq(Nat) /\ Len(w) = Len(hb) + Len(d)
      /\ \A i \in 1 .. Len(hb) + Len(d) : w[i] = IF i <= Len(hb) THEN hb[i] ELSE d[i - Len(hb)]
  BY <1>3, <1>5, ConcatOf
<1> HIDE DEF w
<1>7. Len(hb) = 1 + o.addrLen
  BY <1>1, <1>2, <1>5
<1>8. Len(w) = 1 + o.addrLen + o.dummyBytes
  BY <1>3, <1>6, <1>7
<1>9. \A i \in 1 .. 1 + o.addrLen : w[i] = hb[i]
  <2> TAKE i \in 1 .. 1 + o.addrLen
  <2>1. i \in 1 .. Len(hb) + Len(d) /\ i <= Len(hb)
    BY <1>3, <1>7
  <2> QED BY <1>6, <2>1
<1>10. w[1] = o.opcode
  <2>1. 1 \in 1 .. Len(h) + Len(b) /\ 1 <= Len(h) /\ 1 \in 1 .. 1 + o.addrLen
    BY <1>1, <1>2
  <2> QED BY <1>1, <1>5, <1>9, <2>1
<1>11. \A i \in 1 .. o.addrLen : w[1 + i] = a[o.addrLen + 1 - i]
  <2> TAKE i \in 1 .. o.addrLen
  <2>1. /\ 1 + i \in 1 .. 1 + o.addrLen /\ 1 + i \in 1 .. Len(h) + Len(b)
        /\ ~(1 + i <= Len(h)) /\ 1 + i - Len(h) = i
    BY <1>1, <1>2
  <2>2. w[1 + i] = hb[1 + i]
    BY <1>9, <2>1
  <2>3. hb[1 + i] = b[i]
    BY <1>5, <2>1
  <2>4. b[i] = a[o.addrLen + 1 - i]
    BY <1>2
  <2> QED BY <2>2, <2>3, <2>4
<1> QED BY <1>4, <1>8, <1>10, <1>11

-----------------------------------------------------------------------------
(* The addresses of the pages.                                             *)
ChipSize == Base * Base * Base * Base
SmallChipSize == Base * Base * Base

LEMMA PlaceIsNat == ASSUME NEW a \in Address PROVE Place(a) \in Nat
<1>1. a[1] \in Nat /\ a[2] \in Nat /\ a[3] \in Nat /\ a[4] \in Nat /\ Base \in Nat
  BY AddressIsTuple, BaseAssumption DEF Byte
<1> DEFINE p3 == a[3] + Base * a[4]
           p2 == a[2] + Base * p3
<1>2. p3 \in Nat
  BY <1>1
<1> HIDE DEF p3
<1>3. p2 \in Nat
  BY <1>1, <1>2
<1> HIDE DEF p2
<1>4. a[1] + Base * p2 \in Nat
  BY <1>1, <1>3
<1> QED BY <1>4 DEF Place, p2, p3

LEMMA NextPageIsAddress == ASSUME NEW a \in Address PROVE NextPage(a) \in Address
<1>1. a[1] \in Byte /\ a[2] \in Byte /\ a[3] \in Byte /\ a[4] \in Byte
  BY AddressIsTuple
<1>2. 0 \in Byte /\ (a[4] + 1) % Base \in Byte
  BY <1>1, BaseAssumption DEF Byte
<1>3. CASE a[2] < Base - 1
  <2>1. a[2] + 1 \in Byte
    BY <1>1, <1>3, BaseAssumption DEF Byte
  <2>2. NextPage(a) = [a EXCEPT ![2] = a[2] + 1]
    BY <1>3 DEF NextPage
  <2> QED BY <2>1, <2>2 DEF Address
<1>4. CASE ~(a[2] < Base - 1) /\ a[3] < Base - 1
  <2>1. a[3] + 1 \in Byte
    BY <1>1, <1>4, BaseAssumption DEF Byte
  <2>2. NextPage(a) = [a EXCEPT ![2] = 0, ![3] = a[3] + 1]
    BY <1>4 DEF NextPage, Address
  <2> QED BY <1>2, <2>1, <2>2 DEF Address
<1>5. CASE ~(a[2] < Base - 1) /\ ~(a[3] < Base - 1)
  <2>1. NextPage(a) = [a EXCEPT ![2] = 0, ![3] = 0, ![4] = (a[4] + 1) % Base]
    BY <1>5 DEF NextPage, Address
  <2> QED BY <1>2, <2>1 DEF Address
<1> QED BY <1>3, <1>4, <1>5

(* The carry goes as far as it must, below the end of the largest chip.    *)
LEMMA NextPageIsBehind ==
  ASSUME NEW a \in Address, Place(a) + Base < ChipSize
  PROVE  Place(NextPage(a)) = Place(a) + Base
<1> DEFINE b == Base  x == a[1]  y == a[2]  z == a[3]  t == a[4]
<1>1. /\ b \in Nat /\ b > 1
      /\ x \in 0 .. b - 1 /\ y \in 0 .. b - 1 /\ z \in 0 .. b - 1 /\ t \in 0 .. b - 1
  BY AddressIsTuple, BaseAssumption DEF Byte
<1>2. Place(a) = x + b * (y + b * (z + b * t))
  BY DEF Place
<1>3. CASE y < b - 1
  <2>1. /\ NextPage(a)[1] = x /\ NextPage(a)[2] = y + 1
        /\ NextPage(a)[3] = z /\ NextPage(a)[4] = t
    BY <1>3 DEF NextPage, Address
  <2>2. Place(NextPage(a)) = x + b * (y + 1 + b * (z + b * t))
    BY <2>1 DEF Place
  <2> HIDE DEF b, x, y, z, t
  <2>3. x + b * (y + 1 + b * (z + b * t)) = x + b * (y + b * (z + b * t)) + b
    BY <1>1
  <2> QED BY <1>2, <2>2, <2>3 DEF b
<1>4. CASE y = b - 1 /\ z < b - 1
  <2>1. /\ NextPage(a)[1] = x /\ NextPage(a)[2] = 0
        /\ NextPage(a)[3] = z + 1 /\ NextPage(a)[4] = t
    BY <1>1, <1>4 DEF NextPage, Address
  <2>2. Place(NextPage(a)) = x + b * (0 + b * (z + 1 + b * t))
    BY <2>1 DEF Place
  <2> HIDE DEF b, x, y, z, t
  <2>3. x + b * (0 + b * (z + 1 + b * t)) = x + b * (y + b * (z + b * t)) + b
    BY <1>1, <1>4
  <2> QED BY <1>2, <2>2, <2>3 DEF b
<1>5. CASE y = b - 1 /\ z = b - 1 /\ t < b - 1
  <2>1. (t + 1) % b = t + 1
    BY <1>1, <1>5
  <2>2. /\ NextPage(a)[1] = x /\ NextPage(a)[2] = 0
        /\ NextPage(a)[3] = 0 /\ NextPage(a)[4] = t + 1
    BY <1>1, <1>5, <2>1 DEF NextPage, Address
  <2>3. Place(NextPage(a)) = x + b * (0 + b * (0 + b * (t + 1)))
    BY <2>2 DEF Place
  <2> HIDE DEF b, x, y, z, t
  <2>4. x + b * (0 + b * (0 + b * (t + 1))) = x + b * (y + b * (z + b * t)) + b
    BY <1>1, <1>5
  <2> QED BY <1>2, <2>3, <2>4 DEF b
<1>6. ASSUME y = b - 1, z = b - 1, t = b - 1 PROVE FALSE
  <2>1. x + b * (y + b * (z + b * t)) + b < b * b * b * b
    BY <1>2 DEF ChipSize
  <2> HIDE DEF b, x, y, z, t
  <2>2. x + b * (y + b * (z + b * t)) + b = x + b * b * b * b
    BY <1>1, <1>6
  <2>3. b * b * b * b \in Int
    BY <1>1
  <2> QED BY <1>1, <2>1, <2>2, <2>3
<1>7. (y = b - 1 \/ y < b - 1) /\ (z = b - 1 \/ z < b - 1) /\ (t = b - 1 \/ t < b - 1)
  <2> HIDE DEF b, x, y, z, t
  <2> QED BY <1>1
<1> QED BY <1>3, <1>4, <1>5, <1>6, <1>7

(* Three bytes name a place in a small chip.                               *)
LEMMA HighByteIsZero ==
  ASSUME NEW a \in Address, Place(a) < SmallChipSize
  PROVE  a[4] = 0
<1> DEFINE b == Base  x == a[1]  y == a[2]  z == a[3]  t == a[4]
<1>1. b \in Nat /\ b > 1 /\ x \in Nat /\ y \in Nat /\ z \in Nat /\ t \in Nat
  BY AddressIsTuple, BaseAssumption DEF Byte
<1>2. x + b * (y + b * (z + b * t)) < b * b * b
  BY DEF Place, SmallChipSize
<1> HIDE DEF b, x, y, z, t
<1>3. x + b * (y + b * (z + b * t)) = x + b * y + b * b * z + b * b * b * t
  BY <1>1
<1>4. b * y \in Nat /\ b * b \in Nat /\ b * b * b \in Nat
  BY <1>1
<1>5. b * b * z \in Nat
  BY <1>1, <1>4
<1> DEFINE n == b * b * b
<1>6. n * t < n /\ n \in Nat
  BY <1>1, <1>2, <1>3, <1>4, <1>5
<1> HIDE DEF n
<1>7. t = 0
  BY <1>1, <1>6
<1> QED BY <1>7 DEF t

-----------------------------------------------------------------------------
(* One action each.                                                        *)
LEMMA InitIsInv == Init => IInv
BY DEF Init, IInv, OnlyLongReadsPanic, Busy

LEMMA IoModeKeepsInv ==
  ASSUME IInv, NEW value \in 0 .. 2, IoMode(value)
  PROVE  IInv'
BY DEF IInv, OnlyLongReadsPanic, Busy, IoMode, AcceptsMode, Lanes

(* A request the operation matches.                                        *)
LEMMA SetupKeepsInv ==
  ASSUME IInv, pc = "idle", NEW c, NEW a, NEW n, NEW o, Setup(c, a, n, o), OpMatches'
  PROVE  IInv'
BY DEF IInv, OnlyLongReadsPanic, Busy, Setup

LEMMA ReadV2KeepsInv == ASSUME IInv, ReadV2 PROVE IInv'
<1>1. PICK c \in ChipReads, a \in Address, n \in BlockCounts :
        \E f \in ReadFields(c) : Setup(c, a, n, ReadOperation(Packet(n, f, a)))
  BY DEF ReadV2
<1>2. PICK f \in ReadFields(c) : Setup(c, a, n, ReadOperation(Packet(n, f, a)))
  BY <1>1
<1> DEFINE data == Packet(n, f, a)
           o == ReadOperation(data)
<1>3. c.lanes = 1
  <2>1. c.lanes \in {1, 2, 4}
    BY DEF ChipReads, Cmd
  <2>2. c.lanes <= 1
    BY <1>2 DEF Setup, IInv
  <2> QED BY <2>1, <2>2
<1>4. /\ BlockCount(data) = n /\ n \in Nat /\ StartAddress(data) = a
      /\ data[3] = f[1] /\ data[4] = f[2] /\ ~IsExplicit(data)
  BY FieldsOfPacket
<1>5. asked' = [command |-> c, address |-> a, blocks |-> n] /\ op' = o
  BY <1>2 DEF Setup
<1> HIDE DEF data
<1>6. /\ c.opcode \in Nat /\ c.addrLen \in {3, 4} /\ c.cycles \in Nat
      /\ ReadOpcode(data) = c.opcode /\ ReadAddrLen(data) = c.addrLen
      /\ BytesOf(DummyCycles(data)) = c.cycles \div 8
  BY <1>3, <1>4, TablesInvertFields
<1>7. /\ op'.kind = "read" /\ op'.address = a /\ op'.blocks = n
      /\ op'.opcode = c.opcode /\ op'.addrLen = c.addrLen
      /\ op'.dummyBytes = c.cycles \div 8
  BY <1>4, <1>5, <1>6 DEF ReadOperation
<1>8. asked'.command = c /\ asked'.address = a /\ asked'.blocks = n
  BY <1>5
<1>9. c.cycles \div 8 \in Nat
  BY <1>6
<1>10. OpMatches'
  BY <1>3, <1>4, <1>6, <1>7, <1>8, <1>9 DEF OpMatches, ReadMatches
<1> QED BY <1>2, <1>10, SetupKeepsInv DEF ReadV2

LEMMA ReadV3KeepsInv == ASSUME IInv, ReadV3 PROVE IInv'
<1>1. PICK opcode \in {\h03, \h0b, VendorFast}, len \in {3, 4}, cycles \in ExplicitCycles,
           a \in Address, n \in BlockCounts :
        Setup(Cmd(opcode, len, cycles, 1), a, n,
              ReadOperation(PacketV3(n, Cmd(opcode, len, cycles, 1), a)))
  BY DEF ReadV3
<1> DEFINE c == Cmd(opcode, len, cycles, 1)
           data == PacketV3(n, c, a)
           o == ReadOperation(data)
<1>2. c.opcode = opcode /\ c.addrLen = len /\ c.cycles = cycles /\ c.lanes = 1
  BY DEF Cmd
<1>3. /\ BlockCount(data) = n /\ n \in Nat /\ StartAddress(data) = a
      /\ data[4] = c.opcode /\ data[10] = c.addrLen
      /\ data[11] = c.cycles \div 2 /\ IsExplicit(data)
  BY FieldsOfPacketV3
<1>4. /\ pc = "idle" /\ Setup(c, a, n, o)
      /\ asked' = [command |-> c, address |-> a, blocks |-> n] /\ op' = o
  BY <1>1 DEF Setup, ReadV3
<1> HIDE DEF c, data
<1>5. /\ opcode \in Nat /\ cycles \in Nat
      /\ ReadOpcode(data) = opcode /\ ReadAddrLen(data) = len
      /\ BytesOf(DummyCycles(data)) \in Nat
      /\ BytesOf(DummyCycles(data)) = cycles \div 8
         \/ (BytesOf(DummyCycles(data)) >= CommandBuffer /\ cycles \div 8 >= CommandBuffer)
  BY <1>2, <1>3, ExplicitFields
<1>6. /\ op'.kind = "read" /\ op'.address = a /\ op'.blocks = n
      /\ op'.opcode = opcode /\ op'.addrLen = len
      /\ op'.dummyBytes = BytesOf(DummyCycles(data))
  BY <1>3, <1>4, <1>5 DEF ReadOperation
<1>7. asked'.command = c /\ asked'.address = a /\ asked'.blocks = n
  BY <1>4
<1>8. OpMatches'
  BY <1>2, <1>3, <1>5, <1>6, <1>7 DEF OpMatches, ReadMatches
<1> QED BY <1>4, <1>8, SetupKeepsInv

LEMMA WriteKeepsInv == ASSUME IInv, Write PROVE IInv'
<1>1. PICK c \in ChipWrites, a \in Address, n \in BlockCounts :
        \E f \in WriteFields(c) :
          InsideChip(c, a, n) /\ Setup(c, a, n, WriteOperation(Packet(n, f, a)))
  BY DEF Write
<1>2. PICK f \in WriteFields(c) :
        InsideChip(c, a, n) /\ Setup(c, a, n, WriteOperation(Packet(n, f, a)))
  BY <1>1
<1> DEFINE data == Packet(n, f, a)
           o == WriteOperation(data)
<1>3. /\ BlockCount(data) = n /\ n \in Nat /\ StartAddress(data) = a
      /\ data[3] = f[1] /\ data[4] = f[2]
  BY FieldsOfPacket
<1>4. /\ pc = "idle" /\ Setup(c, a, n, o)
      /\ asked' = [command |-> c, address |-> a, blocks |-> n] /\ op' = o
  BY <1>2 DEF Setup, Write
<1> HIDE DEF data
<1>5. /\ c.opcode \in Nat /\ c.addrLen \in {3, 4}
      /\ (IF data[4] # 0 THEN data[4] ELSE \h02) = c.opcode
      /\ WriteAddrLen(data) = c.addrLen
  BY <1>3, WriteFieldsKeep
<1>6. /\ op'.kind = "write" /\ op'.address = a /\ op'.blocks = n
      /\ op'.opcode = c.opcode /\ op'.addrLen = c.addrLen /\ op'.dummyBytes = 0
  BY <1>3, <1>4, <1>5 DEF WriteOperation
<1>7. asked'.command = c /\ asked'.address = a /\ asked'.blocks = n
  BY <1>4
<1>8. WriteMatches'
  BY <1>2, <1>6, <1>7 DEF WriteMatches
<1>9. OpMatches'
  BY <1>3, <1>5, <1>6, <1>7, <1>8 DEF OpMatches
<1> QED BY <1>4, <1>9, SetupKeepsInv

LEMMA StartReadKeepsInv == ASSUME IInv, StartRead PROVE IInv'
<1>1. OpMatches /\ ReadMatches /\ pc = "setup"
  BY DEF StartRead, IInv, Busy, OpMatches, WriteMatches
<1>2. UNCHANGED <<ioMode, asked, op, pages>> /\ pc' \in {"reading", "panic"}
  BY DEF StartRead
<1>3. OpMatches'
  BY <1>1, <1>2 DEF OpMatches, ReadMatches, WriteMatches
<1>4. pc' = "reading" => ReadUnderWay'
  BY <1>1, <1>2 DEF StartRead, OpMatches, ReadUnderWay, ReadMatches
<1>5. Len(CommandBytes(op, op.address)) = 1 + op.addrLen + op.dummyBytes
  BY <1>1, CommandShape DEF OpMatches, ReadMatches
<1>6. OnlyLongReadsPanic'
  <2>1. CASE pc' = "reading"
    BY <2>1 DEF OnlyLongReadsPanic
  <2>2. CASE pc' = "panic"
    <3>1. ~(Len(CommandBytes(op, op.address)) <= CommandBuffer)
      BY <2>2 DEF StartRead
    <3>2. 1 + asked.command.addrLen + (asked.command.cycles \div 8) > CommandBuffer
      BY <1>1, <1>5, <3>1 DEF OpMatches, ReadMatches, CommandBuffer
    <3> QED BY <1>2, <3>2 DEF OnlyLongReadsPanic
  <2> QED BY <1>2, <2>1, <2>2
<1> QED BY <1>2, <1>3, <1>4, <1>6 DEF IInv

LEMMA StartWriteKeepsInv == ASSUME IInv, StartWrite PROVE IInv'
<1>1. OpMatches /\ WriteMatches /\ pages = 0
  BY DEF StartWrite, IInv, Busy, OpMatches, ReadMatches
<1>2. /\ pc' = "writing" /\ page' = asked.address /\ pages' = 0
      /\ UNCHANGED <<ioMode, asked, op>>
  BY <1>1 DEF StartWrite, OpMatches
<1>3. OpMatches' /\ WriteMatches'
  BY <1>1, <1>2 DEF OpMatches, ReadMatches, WriteMatches
<1>4. Place(page') = Place(asked'.address) + Base * pages'
  <2>1. Place(asked.address) \in Nat /\ Base \in Nat
    BY <1>1, PlaceIsNat, BaseAssumption DEF OpMatches
  <2> QED BY <1>2, <2>1
<1>5. PagesUnderWay'
  BY <1>1, <1>2, <1>3, <1>4 DEF PagesUnderWay, OpMatches
<1> QED BY <1>2, <1>3, <1>5 DEF IInv, OnlyLongReadsPanic

LEMMA WritePageKeepsInv == ASSUME IInv, WritePage PROVE IInv'
<1> DEFINE start == Place(asked.address)
           n == asked.blocks
<1>1. OpMatches /\ PagesUnderWay /\ WriteMatches
  BY DEF WritePage, IInv, Busy, PagesUnderWay
<1>2. /\ pc = "writing" /\ pages < n /\ UNCHANGED <<pc, ioMode, asked, op>>
      /\ frame' = CommandBytes(op, page) /\ pages' = pages + 1 /\ page' = NextPage(page)
  BY <1>1 DEF WritePage, OpMatches
<1>3. /\ page \in Address /\ pages \in Nat /\ n \in Nat /\ Base \in Nat /\ Base > 1
      /\ start \in Nat /\ Place(page) = start + Base * pages
  BY <1>1, <1>2, PlaceIsNat, BaseAssumption DEF PagesUnderWay, OpMatches
<1>4. OpMatches' /\ WriteMatches'
  BY <1>1, <1>2 DEF OpMatches, ReadMatches, WriteMatches
<1>5. page' \in Address /\ pages' \in 0 .. n
  BY <1>2, <1>3, NextPageIsAddress
<1>6. ASSUME pages' < n
      PROVE  Place(page') = start + Base * pages'
  <2>1. start + Base * n <= ChipSize
    <3>1. start + Base * n <= SmallChipSize \/ start + Base * n <= ChipSize
      BY <1>1 DEF WriteMatches, InsideChip, ChipSize, SmallChipSize
    <3>2. SmallChipSize \in Nat /\ ChipSize = SmallChipSize * Base
      BY <1>3 DEF SmallChipSize, ChipSize
    <3>3. SmallChipSize <= SmallChipSize * Base
      BY <1>3, <3>2
    <3>4. ChipSize \in Nat /\ start + Base * n \in Nat
      BY <1>3, <3>2
    <3> QED BY <3>1, <3>2, <3>3, <3>4
  <2> HIDE DEF start, n
  <2>2. \E k \in Nat : n = pages + 2 + k
    <3>1. n - pages - 2 \in Nat /\ n = pages + 2 + (n - pages - 2)
      BY <1>2, <1>3, <1>6
    <3> QED BY <3>1
  <2>3. PICK k \in Nat : n = pages + 2 + k
    BY <2>2
  <2>4. Base * n = Base * pages + Base + Base + Base * k
    BY <1>3, <2>3
  <2>5. Base * pages \in Nat /\ Base * k \in Nat
    BY <1>3, <2>3
  <2>6. ChipSize \in Int
    BY <1>3 DEF ChipSize
  <2>7. Place(page) + Base < ChipSize
    BY <1>3, <2>1, <2>4, <2>5, <2>6
  <2>8. Place(page') = start + Base * pages + Base
    BY <1>2, <1>3, <2>7, NextPageIsBehind
  <2>9. Base * (pages + 1) = Base * pages + Base
    BY <1>3
  <2> QED BY <1>2, <1>3, <2>5, <2>8, <2>9
<1>7. frame' = CommandBytes(op, page) /\ Place(page) = start + Base * (pages' - 1)
  BY <1>2, <1>3
<1>8. PagesUnderWay'
  BY <1>2, <1>3, <1>4, <1>5, <1>6, <1>7 DEF PagesUnderWay
<1> QED BY <1>2, <1>4, <1>8 DEF IInv, OnlyLongReadsPanic

LEMMA EndKeepsInv == ASSUME IInv, End PROVE IInv'
BY DEF IInv, OnlyLongReadsPanic, Busy, End

LEMMA StutterKeepsInv == ASSUME IInv, UNCHANGED vars PROVE IInv'
BY DEF IInv, OnlyLongReadsPanic, Busy, vars, OpMatches, ReadMatches, WriteMatches, ReadUnderWay,
       PagesUnderWay

(* The operation and its frames follow the request in every execution.     *)
THEOREM SetupInvariant == Spec => []IInv
<1>1. IInv /\ [Next]_vars => IInv'
  BY IoModeKeepsInv, ReadV2KeepsInv, ReadV3KeepsInv, WriteKeepsInv, StartReadKeepsInv,
     StartWriteKeepsInv, WritePageKeepsInv, EndKeepsInv, StutterKeepsInv DEF Next
<1> QED BY InitIsInv, <1>1, PTL DEF Spec

(* Every read gets to the chip as the host asked for it: opcode, address,  *)
(* dummy clocks and lanes, through the tables of parse_read_setup or the   *)
(* bytes of a V3 packet, whatever the clocks that saturate do.             *)
THEOREM ReadsAreAsAsked == Spec => []ReadsAsAsked
<1>1. IInv => ReadsAsAsked
  <2> SUFFICES ASSUME IInv, pc = "reading"
               PROVE  /\ Commands(frame, asked.command, asked.address)
                      /\ op.blocks = asked.blocks /\ asked.command.lanes = 1
    BY DEF ReadsAsAsked
  <2> DEFINE c == asked.command
  <2>1. OpMatches /\ ReadMatches /\ frame = CommandBytes(op, asked.address)
        /\ Len(frame) <= CommandBuffer
    BY DEF IInv, Busy, ReadUnderWay
  <2>2. /\ op.opcode \in Nat /\ op.addrLen \in {3, 4} /\ op.dummyBytes \in Nat
        /\ asked.address \in Address
    BY <2>1 DEF OpMatches, ReadMatches
  <2>3. /\ Len(frame) = 1 + op.addrLen + op.dummyBytes /\ frame[1] = op.opcode
        /\ \A i \in 1 .. op.addrLen : frame[1 + i] = asked.address[op.addrLen + 1 - i]
    BY <2>1, <2>2, CommandShape
  <2>4. op.dummyBytes = c.cycles \div 8
    <3>1. ~(op.dummyBytes >= CommandBuffer)
      BY <2>1, <2>2, <2>3 DEF CommandBuffer
    <3> QED BY <2>1, <3>1 DEF ReadMatches
  <2>5. c.addrLen = op.addrLen /\ c.opcode = op.opcode /\ op.blocks = asked.blocks /\ c.lanes = 1
    BY <2>1 DEF OpMatches, ReadMatches
  <2> QED BY <2>3, <2>4, <2>5 DEF Commands
<1> QED BY SetupInvariant, <1>1, PTL

(* The index of start_read runs past its command buffer for no command     *)
(* that fits it: every read of the tables and every V3 read of up to five  *)
(* dummy bytes, which is where the comment at spi_flash.rs:179 ends.       *)
THEOREM ShortReadsFit == Spec => []OnlyLongReadsPanic
<1>1. IInv => OnlyLongReadsPanic
  BY DEF IInv
<1> QED BY SetupInvariant, <1>1, PTL

(* Every page gets to its own place: page k of a write k pages behind its  *)
(* start, with three address bytes and with four, whatever carries that    *)
(* takes, for every write that stays inside the chip.                      *)
THEOREM PagesAreAsAsked == Spec => []PagesAsAsked
<1>1. IInv => PagesAsAsked
  <2> SUFFICES ASSUME IInv, pc = "writing", pages > 0 PROVE PagesAsAsked
    BY DEF PagesAsAsked
  <2> DEFINE c == asked.command
             start == Place(asked.address)
             sent == [i \in 1 .. 4 |-> IF i <= c.addrLen THEN frame[c.addrLen + 2 - i] ELSE 0]
  <2>1. OpMatches /\ PagesUnderWay /\ WriteMatches
    BY DEF IInv, Busy, PagesUnderWay
  <2>2. PICK last \in Address : /\ frame = CommandBytes(op, last)
                                /\ Place(last) = start + Base * (pages - 1)
    BY <2>1 DEF PagesUnderWay
  <2>3. /\ op.opcode \in Nat /\ op.addrLen \in {3, 4} /\ op.dummyBytes = 0
        /\ c.addrLen = op.addrLen /\ c.opcode = op.opcode
        /\ pages \in Nat /\ asked.blocks \in Nat /\ pages <= asked.blocks
        /\ start \in Nat /\ Base \in Nat /\ Base > 1
    BY <2>1, PlaceIsNat, BaseAssumption DEF OpMatches, WriteMatches, PagesUnderWay
  <2>4. /\ Len(frame) = 1 + c.addrLen + 0 /\ frame[1] = c.opcode
        /\ \A i \in 1 .. c.addrLen : frame[1 + i] = last[c.addrLen + 1 - i]
    <3>1. /\ Len(frame) = 1 + op.addrLen + op.dummyBytes /\ frame[1] = op.opcode
          /\ \A i \in 1 .. op.addrLen : frame[1 + i] = last[op.addrLen + 1 - i]
      <4>1. op.dummyBytes \in Nat
        BY <2>3
      <4> QED BY <2>2, <2>3, <4>1, CommandShape
    <3> QED BY <2>3, <3>1
  <2>5. \A i \in 1 .. c.addrLen : sent[i] = last[i]
    <3> TAKE i \in 1 .. c.addrLen
    <3>1. /\ c.addrLen + 1 - i \in 1 .. c.addrLen /\ 1 + (c.addrLen + 1 - i) = c.addrLen + 2 - i
          /\ c.addrLen + 1 - (c.addrLen + 1 - i) = i /\ i \in 1 .. 4 /\ i <= c.addrLen
      BY <2>3
    <3>2. frame[1 + (c.addrLen + 1 - i)] = last[c.addrLen + 1 - (c.addrLen + 1 - i)]
      BY <2>4, <3>1
    <3> QED BY <3>1, <3>2
  <2>6. sent[1] = last[1] /\ sent[2] = last[2] /\ sent[3] = last[3] /\ sent[4] = last[4]
    <3>1. sent[1] = last[1] /\ sent[2] = last[2] /\ sent[3] = last[3]
      <4>1. 1 \in 1 .. c.addrLen /\ 2 \in 1 .. c.addrLen /\ 3 \in 1 .. c.addrLen
        BY <2>3
      <4> HIDE DEF sent
      <4> QED BY <2>5, <4>1
    <3>2. CASE c.addrLen = 4
      BY <2>5, <3>1, <3>2
    <3>3. CASE c.addrLen = 3
      <4>1. start + Base * asked.blocks <= SmallChipSize
        BY <2>1, <3>3 DEF WriteMatches, InsideChip, SmallChipSize
      <4>2. \E k \in Nat : asked.blocks = pages - 1 + 1 + k
        <5>1. asked.blocks - pages \in Nat /\ asked.blocks = pages - 1 + 1 + (asked.blocks - pages)
          BY <2>3
        <5> QED BY <5>1
      <4>3. PICK k \in Nat : asked.blocks = pages - 1 + 1 + k
        BY <4>2
      <4>4. Base * asked.blocks = Base * (pages - 1) + Base + Base * k
        BY <2>3, <4>3
      <4>5. Base * (pages - 1) \in Nat /\ Base * k \in Nat /\ SmallChipSize \in Int
        BY <2>3, <4>3 DEF SmallChipSize
      <4> HIDE DEF start
      <4>6. Place(last) < SmallChipSize
        BY <2>2, <2>3, <4>1, <4>4, <4>5
      <4>7. last[4] = 0
        BY <4>6, HighByteIsZero
      <4>8. sent[4] = 0
        BY <3>3
      <4> QED BY <3>1, <4>7, <4>8
    <3> QED BY <2>3, <3>2, <3>3
  <2>7. Place(sent) = start + Base * (pages - 1)
    <3> HIDE DEF sent
    <3> QED BY <2>2, <2>6 DEF Place
  <2>8. Len(frame) = 1 + c.addrLen
    BY <2>3, <2>4
  <2> QED BY <2>3, <2>4, <2>7, <2>8 DEF PagesAsAsked
<1> QED BY SetupInvariant, <1>1, PTL
=============================================================================
