--------------------------- MODULE SetupPackets ----------------------------
(***************************************************************************)
(* A bulk operation from the setup packet of the host to the command bytes *)
(* on the SPI bus: the parsers of protocol.rs, the setup handlers of       *)
(* usb_handler.rs and the command buffers of start_read and write_page     *)
(* (spi_flash.rs).  When and by whom the bus is used is in FlashSession.   *)
(*                                                                         *)
(* A u32 is the tuple of its four bytes, least significant first, and the  *)
(* packet is indexed from 0 as in the code.  The bytes of addresses and    *)
(* counts have Base values; opcodes and modes are those of the protocol.   *)
(***************************************************************************)
EXTENDS Integers, Sequences

CONSTANTS
  Base,             \* the values of a byte: 256
  BlockCounts,      \* the block counts the host asks for
  ExplicitCycles,   \* the dummy clocks a V3 host asks for, on one lane
  VendorFast        \* the opcode of a fast read that is in no table

Byte == 0 .. Base - 1
Address == Byte \X Byte \X Byte \X Byte

(* On one lane dummy clocks come in bytes.                                 *)
ASSUME BaseAssumption == Base \in Nat \ {0, 1}
ASSUME CountAssumption == BlockCounts \subseteq 0 .. Base * Base - 1
ASSUME CyclesAssumption == ExplicitCycles \subseteq {c \in 0 .. 510 : c % 8 = 0}

(* The opcodes of which parse_read_setup knows the dummy clocks.           *)
TableOpcodes ==
  {\h03, \h13, \h0b, \h0c, \h3b, \h3c, \hbb, \hbc, \h6b, \h6c, \heb, \hec}

ASSUME VendorAssumption == VendorFast \in (1 .. 255) \ TableOpcodes

-----------------------------------------------------------------------------
(* The chip and the host (external).  What the chip wants after an opcode: *)
(* address bytes and dummy clocks, and the lanes of its data.              *)
Cmd(opcode, addrLen, cycles, lanes) ==
  [opcode |-> opcode, addrLen |-> addrLen, cycles |-> cycles, lanes |-> lanes]

ChipReads ==
  {Cmd(\h03, 3, 0, 1), Cmd(\h13, 4, 0, 1), Cmd(\h0b, 3, 8, 1), Cmd(\h0c, 4, 8, 1),
   Cmd(\h0b, 4, 8, 1), Cmd(VendorFast, 3, 8, 1),
   Cmd(\h3b, 3, 8, 2), Cmd(\h3c, 4, 8, 2), Cmd(\hbb, 3, 4, 2), Cmd(\hbc, 4, 4, 2),
   Cmd(\h6b, 3, 8, 4), Cmd(\h6c, 4, 8, 4), Cmd(\heb, 3, 6, 4), Cmd(\hec, 4, 6, 4)}

ChipWrites == {Cmd(\h02, 3, 0, 1), Cmd(\h02, 4, 0, 1), Cmd(\h12, 4, 0, 1)}

(* How a V2 host asks for a read: the mode byte tells a chip in 4-byte     *)
(* mode and the fast reads of vendors, the opcode byte the rest; an opcode *)
(* of 0 is the default of mode 1.                                          *)
ReadFields(c) ==
  IF c.opcode = \h0b THEN {<<IF c.addrLen = 4 THEN 4 ELSE 2, \h0b>>}
  ELSE IF c.opcode = \h0c THEN {<<5, \h0c>>, <<1, \h0c>>}
  ELSE IF c.opcode = VendorFast THEN {<<2, VendorFast>>, <<3, VendorFast>>}
  ELSE IF c.opcode = \h03 THEN {<<1, 0>>, <<1, \h03>>}
  ELSE {<<1, c.opcode>>}

WriteFields(c) ==
  IF c.addrLen = 4 THEN {<<9, c.opcode>>, <<11, c.opcode>>}
  ELSE {<<1, 0>>, <<1, c.opcode>>}

(* The packet.  V3 reads name address length and half the dummy clocks.    *)
Packet(blocks, field, a) ==
  [i \in 0 .. 9 |->
     IF i = 0 THEN blocks % Base ELSE IF i = 1 THEN blocks \div Base
     ELSE IF i = 3 THEN field[1] ELSE IF i = 4 THEN field[2]
     ELSE IF i >= 6 THEN a[i - 5] ELSE 0]

PacketV3(blocks, c, a) ==
  [i \in 0 .. 11 |->
     IF i = 10 THEN c.addrLen ELSE IF i = 11 THEN c.cycles \div 2
     ELSE Packet(blocks, <<9, c.opcode>>, a)[i]]

-----------------------------------------------------------------------------
(* protocol.rs.                                                            *)

FourByteReadModes == {4, 5}
FourByteWriteModes == {9, 11}
Configurable == 9

DummyBytes(mode) == IF mode \in {2, 3, 4, 5} THEN 1 ELSE 0

BlockCount(data) == data[0] + Base * data[1]

StartAddress(data) == <<data[6], data[7], data[8], data[9]>>

FourByteReads == {\h13, \h0c, \h3c, \hbc, \h6c, \hec}

ReadOpcode(data) == IF data[4] # 0 THEN data[4] ELSE \h03

IsExplicit(data) == data[3] = Configurable /\ 11 \in DOMAIN data

ReadAddrLen(data) ==
  IF IsExplicit(data) THEN IF data[10] = 4 THEN 4 ELSE 3
  ELSE IF data[3] \in FourByteReadModes \/ ReadOpcode(data) \in FourByteReads THEN 4 ELSE 3

TableCycles(opcode, mode) ==
  IF opcode \in {\h03, \h13} THEN 0
  ELSE IF opcode \in {\h0b, \h0c, \h3b, \h3c, \h6b, \h6c} THEN 8
  ELSE IF opcode \in {\hbb, \hbc} THEN 4
  ELSE IF opcode \in {\heb, \hec} THEN 6
  ELSE 8 * DummyBytes(mode)

(* Mutant: byte 11 is taken for the clocks themselves.                     *)
HalfCycles(data) == IF IsExplicit(data) THEN data[11]
                    ELSE TableCycles(ReadOpcode(data), data[3])

(* saturating_mul(2) of a u8.                                              *)
DummyCycles(data) ==
  IF IsExplicit(data) THEN IF 2 * data[11] > 255 THEN 255 ELSE 2 * data[11]
  ELSE TableCycles(ReadOpcode(data), data[3])

-----------------------------------------------------------------------------
(* The setup handlers: what goes to BULK_OP.                               *)

BytesOf(cycles) == (cycles + 7) \div 8

ReadOperation(data) ==
  [kind |-> "read", address |-> StartAddress(data), blocks |-> BlockCount(data),
   opcode |-> ReadOpcode(data), addrLen |-> ReadAddrLen(data),
   dummyBytes |-> BytesOf(DummyCycles(data))]

WriteAddrLen(data) == IF data[3] \in FourByteWriteModes THEN 4 ELSE 3

WriteOperation(data) ==
  [kind |-> "write", address |-> StartAddress(data), blocks |-> BlockCount(data),
   opcode |-> IF data[4] # 0 THEN data[4] ELSE \h02, addrLen |-> WriteAddrLen(data),
   dummyBytes |-> 0]

-----------------------------------------------------------------------------
(* The driver: opcode, address from its most significant byte on, dummies. *)

AddressBytes(a, addrLen) ==
  IF addrLen = 4 THEN <<a[4], a[3], a[2], a[1]>> ELSE <<a[3], a[2], a[1]>>

CommandBytes(o, a) ==
  <<o.opcode>> \o AddressBytes(a, o.addrLen) \o [i \in 1 .. o.dummyBytes |-> 0]

(* cmd: [u8; 10] of start_read; an index past it panics.  The five bytes   *)
(* of write_page hold every page command.                                  *)
CommandBuffer == 10

(* Mutant: the carry stops at the third byte.                              *)
NextPageNoCarry(a) ==
  IF a[2] < Base - 1 THEN [a EXCEPT ![2] = @ + 1]
  ELSE [a EXCEPT ![2] = 0, ![3] = (@ + 1) % Base]

(* wrapping_add(PAGE_SIZE): a page is as long as its last byte counts.     *)
NextPage(a) ==
  IF a[2] < Base - 1 THEN [a EXCEPT ![2] = @ + 1]
  ELSE IF a[3] < Base - 1 THEN [a EXCEPT ![2] = 0, ![3] = @ + 1]
  ELSE [a EXCEPT ![2] = 0, ![3] = 0, ![4] = (@ + 1) % Base]

-----------------------------------------------------------------------------
VARIABLES
  pc,       \* "idle", "setup" (BULK_OP is set), "reading", "writing", "panic"
  ioMode,   \* the lanes the host believes the device can do
  asked,    \* what the host asks the chip for: a command, an address, blocks
  op,       \* the operation the firmware makes of it
  page,     \* the address of the next page
  pages,    \* the pages programmed
  frame     \* the last command bytes on the bus

vars == <<pc, ioMode, asked, op, page, pages, frame>>

NoOp == [kind |-> "none"]
NoRequest == [command |-> "none"]

Init ==
  /\ pc = "idle" /\ ioMode = 1
  /\ asked = NoRequest /\ op = NoOp
  /\ page = <<0, 0, 0, 0>> /\ pages = 0 /\ frame = <<>>

(* cmd_io_mode: value 0 is one lane. *)
AcceptsMode(value) == value = 0

Lanes(value) == IF value = 0 THEN 1 ELSE IF value = 1 THEN 2 ELSE 4

IoMode(value) ==
  /\ pc = "idle"
  /\ ioMode' = IF AcceptsMode(value) THEN Lanes(value) ELSE ioMode
  /\ UNCHANGED <<pc, asked, op, page, pages, frame>>

(* The host asks for an operation and waits for its end before the next    *)
(* one; it uses no more lanes than the device has accepted.  A packet of   *)
(* less than ten bytes is rejected and changes nothing: it is left out.    *)
Setup(command, a, blocks, operation) ==
  /\ command.lanes <= ioMode
  /\ pc' = "setup"
  /\ asked' = [command |-> command, address |-> a, blocks |-> blocks]
  /\ op' = operation
  /\ UNCHANGED <<ioMode, page, pages, frame>>

(* CMD_READ from a V2 host, and from a V3 host.                            *)
ReadV2 ==
  /\ pc = "idle"
  /\ \E c \in ChipReads, a \in Address, n \in BlockCounts : \E f \in ReadFields(c) :
       Setup(c, a, n, ReadOperation(Packet(n, f, a)))

ReadV3 ==
  /\ pc = "idle"
  /\ \E o \in {\h03, \h0b, VendorFast}, len \in {3, 4}, cycles \in ExplicitCycles,
        a \in Address, n \in BlockCounts :
       LET c == Cmd(o, len, cycles, 1)
       IN  Setup(c, a, n, ReadOperation(PacketV3(n, c, a)))

(* The place of an address in a chip, in bytes.                            *)
Place(a) == a[1] + Base * (a[2] + Base * (a[3] + Base * a[4]))

(* A write stays inside a chip that addrLen bytes can address.             *)
InsideChip(c, a, blocks) ==
  Place(a) + Base * blocks <=
    IF c.addrLen = 4 THEN Base * Base * Base * Base ELSE Base * Base * Base

Write ==
  /\ pc = "idle"
  /\ \E c \in ChipWrites, a \in Address, n \in BlockCounts : \E f \in WriteFields(c) :
       /\ InsideChip(c, a, n)
       /\ Setup(c, a, n, WriteOperation(Packet(n, f, a)))

(* start_read. *)
StartRead ==
  /\ pc = "setup" /\ op.kind = "read"
  /\ IF Len(CommandBytes(op, op.address)) <= CommandBuffer
     THEN pc' = "reading" /\ frame' = CommandBytes(op, op.address)
     ELSE pc' = "panic" /\ UNCHANGED frame
  /\ UNCHANGED <<ioMode, asked, op, page, pages>>

StartWrite ==
  /\ pc = "setup" /\ op.kind = "write"
  /\ pc' = "writing" /\ page' = op.address
  /\ UNCHANGED <<ioMode, asked, op, pages, frame>>

(* write_page, and the address of the next one. *)
WritePage ==
  /\ pc = "writing" /\ pages < op.blocks
  /\ frame' = CommandBytes(op, page)
  /\ pages' = pages + 1 /\ page' = NextPage(page)
  /\ UNCHANGED <<pc, ioMode, asked, op>>

End ==
  /\ pc = "reading" \/ (pc = "writing" /\ pages = op.blocks)
  /\ pc' = "idle"
  /\ asked' = NoRequest /\ op' = NoOp
  /\ page' = <<0, 0, 0, 0>> /\ pages' = 0 /\ frame' = <<>>
  /\ UNCHANGED ioMode

Next ==
  \/ \E value \in 0 .. 2 : IoMode(value)
  \/ ReadV2 \/ ReadV3 \/ Write
  \/ StartRead \/ StartWrite \/ WritePage \/ End

Spec == Init /\ [][Next]_vars

-----------------------------------------------------------------------------
(* The bytes of a frame are what the chip wants for command c at a.        *)
Commands(bytes, c, a) ==
  /\ Len(bytes) = 1 + c.addrLen + (c.cycles \div 8)
  /\ bytes[1] = c.opcode
  /\ \A i \in 1 .. c.addrLen : bytes[1 + i] = a[c.addrLen + 1 - i]

(* The chip gets the read the host asked for: opcode, address and as many  *)
(* dummy clocks as the chip takes before its data, whether the packet      *)
(* names them (V3) or the tables of parse_read_setup know them (V2), and   *)
(* on the lanes it wants: the device has one ("Reject dual/quad so the     *)
(* host fails fast", usb_handler.rs:180).                                  *)
ReadsAsAsked ==
  pc = "reading" =>
    /\ Commands(frame, asked.command, asked.address)
    /\ op.blocks = asked.blocks /\ asked.command.lanes = 1

(* The chip gets page k of a write at the place k pages behind the start   *)
(* address, whatever carries the address takes and however many bytes of   *)
(* it are sent.                                                            *)
PagesAsAsked ==
  pc = "writing" /\ pages > 0 =>
    LET c == asked.command
        at == Place([i \in 1 .. 4 |-> IF i <= c.addrLen THEN frame[c.addrLen + 2 - i] ELSE 0])
    IN  /\ Len(frame) = 1 + c.addrLen /\ frame[1] = c.opcode
        /\ at = Place(asked.address) + Base * (pages - 1)
        /\ pages <= asked.blocks

(* spi_flash.rs:179: "1 opcode + 4 addr + 5 dummy max": the index of the   *)
(* command buffer never runs over.  parse_read_setup accepts packets that  *)
(* ask for more than five dummy bytes, up to 32.                           *)
CommandFits == pc # "panic"
=============================================================================
