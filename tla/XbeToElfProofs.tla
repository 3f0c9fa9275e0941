---------------------------- MODULE XbeToElfProofs ----------------------------
(***************************************************************************)
(* Theorems about XbeToElf, for any XBE and any sizes.                     *)
(***************************************************************************)
EXTENDS XbeToElf, TLAPS

(* Address arithmetic.                                                     *)
LEMMA ModRange ==
  ASSUME NEW a \in Int, NEW m \in Nat \ {0}
  PROVE  a % m \in 0 .. m - 1
OBVIOUS

LEMMA ModDown ==
  ASSUME NEW a \in Nat, NEW m \in Nat \ {0}
  PROVE  a - (a % m) \in Nat
OBVIOUS

(* Taking the base off and putting it back is the identity, with the wrap. *)
LEMMA ModBack ==
  ASSUME NEW m \in Nat \ {0}, NEW a \in 0 .. m - 1, NEW b \in 0 .. m - 1
  PROVE  (((a - b) % m) + b) % m = a
<1>1. CASE a >= b
  <2>1. (a - b) % m = a - b
        BY <1>1
  <2>2. a % m = a
        OBVIOUS
  <2> QED
      BY <2>1, <2>2
<1>2. CASE a < b
  <2>1. (a - b) % m = a - b + m
        BY <1>2
  <2>2. (a + m) % m = a
        OBVIOUS
  <2>3. a - b + m + b = a + m
        OBVIOUS
  <2> QED
      BY <2>1, <2>2, <2>3
<1> QED
    BY <1>1, <1>2

LEMMA SizeTypes ==
  /\ EhdrSize \in Nat /\ PhdrSize \in Nat /\ ShdrSize \in Nat
  /\ page_size \in Nat \ {0} /\ Modulus \in Nat \ {0}
  /\ buffer_size \in Nat \ {0}
  /\ FalseOffset \in Nat /\ OwnNameSize \in Nat
BY SizesAssumption

LEMMA Times == \A a, b \in Nat : a * b \in Nat
OBVIOUS

LEMMA OffsetTypes ==
  ASSUME NEW m \in Nat, NEW n \in Nat
  PROVE  /\ SegNumToOffset(m) \in Nat
         /\ SegNumAndSecNumToOffset(m, n) \in Nat
BY SizeTypes, Times DEF SegNumToOffset, SegNumAndSecNumToOffset

(* A segment is never moved below the beginning of the file.               *)
LEMMA PhdrOffsetType ==
  ASSUME NEW h \in Header
  PROVE  PhdrOffset(h) \in Nat
<1>1. h.file_offset \in Nat /\ h.virt_mem_addr \in Nat
      BY DEF Header
<1>2. h.file_offset - (h.file_offset % page_size) \in Nat
      BY <1>1, SizeTypes, ModDown
<1>3. h.virt_mem_addr % page_size \in Nat
      BY <1>1, SizeTypes, ModRange
<1> QED
    BY <1>2, <1>3, SizeTypes DEF PhdrOffset

LEMMA StructureType ==
  ASSUME NEW part, NEW number, NEW size \in Nat
  PROVE  Len(Structure(part, number, size)) = size
BY DEF Structure

(* What a write does to the types.                                         *)
LEMMA AmountType ==
  ASSUME NEW units, Len(units) \in Nat, NEW amount \in Amounts(units)
  PROVE  amount \in Nat
BY DEF Amounts

LEMMA PutType ==
  ASSUME ElfTypeOK,
         NEW offset \in Nat, NEW units, Len(units) \in Nat,
         NEW amount \in Amounts(units),
         Put(offset, units, amount), elf_offset' \in Nat
  PROVE  ElfTypeOK'
<1>1. DOMAIN elf' = DOMAIN elf \cup offset .. offset + amount - 1
      BY DEF Put
<1>2. shortened' \in BOOLEAN
      BY DEF Put
<1>3. DOMAIN elf' \subseteq Nat
      BY <1>1, AmountType DEF ElfTypeOK
<1> QED
    BY <1>2, <1>3 DEF ElfTypeOK

(* What is known of the file that is converted.                            *)
LEMMA XbeTypes ==
  ASSUME xbe \in Xbes
  PROVE  /\ xbe.section_header_num \in Nat
         /\ xbe.table \in Seq(Header)
         /\ Len(xbe.table) = xbe.section_header_num + 1
         /\ xbe.base_mem_addr \in 0 .. Modulus - 1
         /\ xbe.size \in Nat
         /\ DOMAIN xbe.name_size \subseteq 0 .. Modulus - 1
         /\ \A o \in DOMAIN xbe.name_size : xbe.name_size[o] \in Nat
BY XbesAssumption

LEMMA LayoutTypes ==
  ASSUME xbe \in Xbes
  PROVE  /\ section_header_num \in Nat
         /\ shdr_offset \in Nat
         /\ str_table_offset \in Nat
<1>1. section_header_num \in Nat
      BY XbeTypes DEF section_header_num
<1>2. section_header_num + 1 \in Nat
      BY <1>1
<1>3. shdr_offset \in Nat
      BY <1>1, <1>2, OffsetTypes DEF shdr_offset
<1> QED
    BY <1>1, <1>3, SizeTypes DEF str_table_offset

(* The offset of a name is in the range of 32-bit numbers, and leads back  *)
(* to its address.                                                         *)
LEMMA NameOffsetType ==
  ASSUME xbe \in Xbes, NEW h \in Header
  PROVE  /\ NameOffset(h) \in 0 .. Modulus - 1
         /\ MemAddr(NameOffset(h)) = h.sect_name_mem_addr
<1>1. /\ h.sect_name_mem_addr \in 0 .. Modulus - 1
      /\ xbe.base_mem_addr \in 0 .. Modulus - 1
      BY XbeTypes DEF Header
<1>2. NameOffset(h) \in 0 .. Modulus - 1
  <2>1. h.sect_name_mem_addr - xbe.base_mem_addr \in Int
        BY <1>1, SizeTypes
  <2> QED
      BY <2>1, ModRange, SizeTypes DEF NameOffset
<1>3. MemAddr(NameOffset(h)) = h.sect_name_mem_addr
      BY <1>1, ModBack, SizeTypes DEF NameOffset, MemAddr
<1> QED
    BY <1>2, <1>3

LEMMA NameSizeType ==
  ASSUME xbe \in Xbes, NEW o \in Nat
  PROVE  NameSize(o) \in Nat
BY XbeTypes DEF NameSize

LEMMA MemAddrType ==
  ASSUME xbe \in Xbes, NEW o \in 0 .. Modulus - 1
  PROVE  MemAddr(o) \in 0 .. Modulus - 1
<1>1. o + xbe.base_mem_addr \in Int
      BY XbeTypes, SizeTypes
<1> QED
    BY <1>1, ModRange, SizeTypes DEF MemAddr
-----------------------------------------------------------------------------
LEMMA InitInv == Init => IInv
<1> SUFFICES ASSUME Init
             PROVE  IInv
    OBVIOUS
<1>1. TypeOK
  <2>1. /\ DOMAIN shdr_str_table = {}
        /\ DOMAIN mem_addr_to_index = {}
        /\ DOMAIN elf = {}
        BY DEF Init
  <2>2. section_headers \in Seq(Header)
        BY DEF Init
  <2>3. /\ phase = "headers" /\ xbe \in Xbes /\ next = 1
        /\ str_table_size = 0 /\ segment_number = 0 /\ amount_written = 0
        /\ elf_offset = 0
        BY DEF Init
  <2>4. shortened \in BOOLEAN
        BY DEF Init
  <2>5. /\ next \in Nat \ {0}
        /\ str_table_size \in Nat /\ segment_number \in Nat
        /\ amount_written \in Nat /\ elf_offset \in Nat
        BY <2>3
  <2> QED
      BY <2>1, <2>2, <2>3, <2>4, <2>5 DEF TypeOK, NamesTypeOK, ElfTypeOK
<1>2. HeadersInv /\ NamesInv /\ IndexInv /\ SegmentInv /\ ThrowHasCause
      BY DEF Init, HeadersInv, NamesInv, IndexInv, SegmentInv, ThrowHasCause
<1> QED
    BY <1>1, <1>2 DEF IInv

LEMMA HeaderAt ==
  ASSUME TypeOK, NEW i \in 1 .. Len(section_headers)
  PROVE  section_headers[i] \in Header
BY DEF TypeOK

(* The phases in which nothing but the ELF file is at stake.               *)
LEMMA Frame ==
  ASSUME IInv, UNCHANGED <<xbe, section_headers, nameVars>>
  PROVE  /\ NamesTypeOK'
         /\ \A last : NamesRead(last) => NamesRead(last)'
         /\ (Unindexed = {}) => (Unindexed = {})'
BY DEF IInv, TypeOK, NamesTypeOK, nameVars, NamesRead, NameOffset, Unindexed, MemAddr

LEMMA ReadHeadersInv == IInv /\ ReadHeaders => IInv'
<1> SUFFICES ASSUME IInv, ReadHeaders
             PROVE  IInv'
    OBVIOUS
<1> USE DEF ReadHeaders
<1>1. section_headers' = <<ImageHeader>> \o xbe.table
  <2>1. SubSeq(xbe.table, 1, section_header_num) = xbe.table
        BY XbeTypes DEF IInv, TypeOK, section_header_num
  <2> QED
      BY <2>1
<1>2. /\ section_headers' \in Seq(Header)
      /\ Len(section_headers') = Len(xbe.table) + 1
      /\ Len(xbe.table) \in Nat \ {0}
  <2>1. xbe.table \in Seq(Header) /\ Len(xbe.table) \in Nat \ {0}
        BY XbeTypes DEF IInv, TypeOK
  <2>2. <<ImageHeader>> \in Seq(Header) /\ Len(<<ImageHeader>>) = 1
        BY SizesAssumption
  <2>3. \A s \in Seq(Header) :
          /\ <<ImageHeader>> \o s \in Seq(Header)
          /\ Len(<<ImageHeader>> \o s) = Len(s) + 1
        BY <2>2
  <2> QED
      BY <1>1, <2>1, <2>3
<1>3. TypeOK'
  <2>1. NamesTypeOK'
        BY DEF IInv, TypeOK, NamesTypeOK, nameVars
  <2>2. ElfTypeOK'
        BY DEF IInv, TypeOK, ElfTypeOK, elfVars
  <2> QED
      BY <1>2, <2>1, <2>2 DEF IInv, TypeOK, segmentVars
<1>4. HeadersInv'
      BY <1>1 DEF HeadersInv
<1>5. NamesInv'
      BY <1>2 DEF NamesInv, NamesRead
<1>6. IndexInv' /\ SegmentInv' /\ ThrowHasCause'
      BY DEF IndexInv, SegmentInv, ThrowHasCause
<1> QED
    BY <1>3, <1>4, <1>5, <1>6 DEF IInv

LEMMA ReadNameInv == IInv /\ ReadName => IInv'
<1> SUFFICES ASSUME IInv, ReadName
             PROVE  IInv'
    OBVIOUS
<1> USE DEF ReadName
<1> DEFINE o == NameOffset(section_headers[next])
<1>1. /\ next \in 2 .. Len(section_headers)
      /\ section_headers[next] \in Header
      /\ xbe \in Xbes
  <2>1. next \in 2 .. Len(section_headers)
        BY DEF IInv, NamesInv, TypeOK
  <2> QED
      BY <2>1, HeaderAt DEF IInv, TypeOK
<1>2. o \in 0 .. Modulus - 1 /\ NameSize(o) \in Nat
  <2>1. o \in 0 .. Modulus - 1
        BY <1>1, NameOffsetType
  <2>2. o \in Nat
        BY <2>1, SizeTypes
  <2> QED
      BY <1>1, <2>1, <2>2, NameSizeType
<1>3. /\ DOMAIN shdr_str_table' = DOMAIN shdr_str_table \cup {o}
      /\ shdr_str_table'[o] = NameSize(o)
      /\ \A z \in DOMAIN shdr_str_table :
           z # o => shdr_str_table'[z] = shdr_str_table[z]
  <2>1. shdr_str_table' = With(shdr_str_table, o, NameSize(o))
        OBVIOUS
  <2> HIDE DEF o
  <2> QED
      BY <2>1 DEF With
<1>4. TypeOK'
  <2>1. NamesTypeOK'
        BY <1>2, <1>3 DEF IInv, TypeOK, NamesTypeOK
  <2>2. ElfTypeOK'
        BY DEF IInv, TypeOK, ElfTypeOK, elfVars
  <2> QED
      BY <1>1, <2>1, <2>2 DEF IInv, TypeOK, segmentVars
<1>5. HeadersInv'
      BY DEF IInv, HeadersInv
<1>6. NamesInv'
  <2>1. NamesRead(next - 1)
        BY DEF IInv, NamesInv
  <2>2. ASSUME NEW i \in 2 .. next
        PROVE  NameOffset(section_headers[i]) \in DOMAIN shdr_str_table'
    <3>1. CASE i = next
          BY <1>3, <3>1
    <3>2. CASE i \in 2 .. next - 1
          BY <1>3, <2>1, <3>2 DEF NamesRead
    <3> QED
        BY <1>1, <3>1, <3>2
  <2>3. next' - 1 = next /\ next' \in 2 .. Len(section_headers) + 1
        BY <1>1
  <2> QED
      BY <2>2, <2>3 DEF NamesInv, NamesRead, NameOffset
<1>7. IndexInv' /\ SegmentInv' /\ ThrowHasCause'
      BY DEF IndexInv, SegmentInv, ThrowHasCause
<1> QED
    BY <1>4, <1>5, <1>6, <1>7 DEF IInv

LEMMA NamesEndInv == IInv /\ NamesEnd => IInv'
<1> SUFFICES ASSUME IInv, NamesEnd
             PROVE  IInv'
    OBVIOUS
<1> USE DEF NamesEnd
<1>1. /\ DOMAIN shdr_str_table' = DOMAIN shdr_str_table \cup {OwnNameKey}
      /\ shdr_str_table'[OwnNameKey] = OwnNameSize
      /\ \A z \in DOMAIN shdr_str_table :
           z # OwnNameKey => shdr_str_table'[z] = shdr_str_table[z]
      BY DEF With
<1>2. OwnNameKey \in 0 .. Modulus - 1
      BY SizeTypes DEF OwnNameKey
<1>3. TypeOK'
  <2>1. NamesTypeOK'
        BY <1>1, <1>2, SizeTypes DEF IInv, TypeOK, NamesTypeOK
  <2>2. elf_offset' \in Nat
        BY LayoutTypes DEF IInv, TypeOK
  <2>3. ElfTypeOK'
        BY <2>2 DEF IInv, TypeOK, ElfTypeOK
  <2> QED
      BY <2>1, <2>3 DEF IInv, TypeOK, segmentVars
<1>4. HeadersInv'
      BY DEF IInv, HeadersInv
<1>5. NamesInv'
  <2>1. NamesRead(Len(section_headers))
        BY DEF IInv, NamesInv, TypeOK
  <2> QED
      BY <1>1, <2>1 DEF NamesInv, NamesRead, NameOffset
<1>6. IndexInv' /\ SegmentInv' /\ ThrowHasCause'
      BY DEF IndexInv, SegmentInv, ThrowHasCause
<1> QED
    BY <1>3, <1>4, <1>5, <1>6 DEF IInv

LEMMA NamePartType ==
  ASSUME TypeOK, next \in 1 .. 3, NEW o \in DOMAIN shdr_str_table
  PROVE  Len(NamePart(o)) \in Nat
<1>1. shdr_str_table[o] \in Nat
      BY DEF TypeOK, NamesTypeOK
<1>2. Len(Structure("name", o, shdr_str_table[o])) \in Nat
      BY <1>1, StructureType
<1>3. Len(<<NullChar>>) = 1
      OBVIOUS
<1> QED
    BY <1>2, <1>3 DEF NamePart

LEMMA WriteNameInv == IInv /\ WriteName => IInv'
<1> SUFFICES ASSUME IInv, WriteName
             PROVE  IInv'
    OBVIOUS
<1>1. PICK o \in Unindexed :
        /\ \E amount \in Amounts(NamePart(o)) :
             /\ Put(elf_offset, NamePart(o), amount)
             /\ elf_offset' = elf_offset + amount
        /\ IF next < 3
           THEN next' = next + 1 /\ UNCHANGED <<mem_addr_to_index, str_table_size>>
           ELSE /\ next' = 1
                /\ mem_addr_to_index' = With(mem_addr_to_index, MemAddr(o), Index)
                /\ str_table_size' = str_table_size + shdr_str_table[o] + 2
      BY DEF WriteName
<1>2. /\ phase = "strtab"
      /\ UNCHANGED <<phase, xbe, section_headers, shdr_str_table, segmentVars>>
      BY DEF WriteName
<1>3. /\ next \in 1 .. 3
      /\ o \in DOMAIN shdr_str_table /\ o \in 0 .. Modulus - 1
      /\ shdr_str_table[o] \in Nat
      BY <1>1, <1>2 DEF IInv, NamesInv, Unindexed, TypeOK, NamesTypeOK
<1>4. next' \in 1 .. 3
      BY <1>1, <1>3
<1>5. ElfTypeOK'
  <2> PICK amount \in Amounts(NamePart(o)) :
             /\ Put(elf_offset, NamePart(o), amount)
             /\ elf_offset' = elf_offset + amount
      BY <1>1
  <2>1. Len(NamePart(o)) \in Nat
        BY <1>3, NamePartType DEF IInv
  <2>2. elf_offset \in Nat /\ amount \in Nat
        BY <2>1, AmountType DEF IInv, TypeOK, ElfTypeOK
  <2>3. elf_offset' \in Nat
        BY <2>2
  <2> QED
      BY <2>1, <2>2, <2>3, PutType DEF IInv, TypeOK
<1>6. NamesTypeOK'
  <2>1. CASE next < 3
        BY <1>1, <1>2, <2>1 DEF IInv, TypeOK, NamesTypeOK
  <2>2. CASE ~ (next < 3)
    <3>1. MemAddr(o) \in 0 .. Modulus - 1
          BY <1>3, MemAddrType DEF IInv, TypeOK
    <3>2. str_table_size \in Nat /\ Index \in Nat \ {0}
          BY DEF IInv, TypeOK, NamesTypeOK, Index
    <3>3. str_table_size' \in Nat
          BY <1>1, <1>3, <2>2, <3>2
    <3>4. /\ DOMAIN mem_addr_to_index' = DOMAIN mem_addr_to_index \cup {MemAddr(o)}
          /\ mem_addr_to_index'[MemAddr(o)] = Index
          /\ \A a \in DOMAIN mem_addr_to_index :
               a # MemAddr(o) => mem_addr_to_index'[a] = mem_addr_to_index[a]
          BY <1>1, <2>2 DEF With
    <3> QED
        BY <1>2, <3>1, <3>2, <3>3, <3>4 DEF IInv, TypeOK, NamesTypeOK
  <2> QED
      BY <2>1, <2>2
<1>7. TypeOK'
      BY <1>2, <1>4, <1>5, <1>6 DEF IInv, TypeOK, segmentVars
<1>8. HeadersInv' /\ NamesInv'
      BY <1>2, <1>4 DEF IInv, HeadersInv, NamesInv, NamesRead, NameOffset
<1>9. IndexInv' /\ SegmentInv' /\ ThrowHasCause'
      BY <1>2 DEF IndexInv, SegmentInv, ThrowHasCause
<1> QED
    BY <1>7, <1>8, <1>9 DEF IInv

(* The headers of ELF are written whole or in part at an offset.           *)
LEMMA StructureAmount ==
  ASSUME ElfTypeOK, NEW offset \in Nat, NEW part, NEW number, NEW size \in Nat,
         NEW amount \in Amounts(Structure(part, number, size)),
         Put(offset, Structure(part, number, size), amount)
  PROVE  /\ amount \in Nat
         /\ elf_offset' \in Nat => ElfTypeOK'
<1>1. Len(Structure(part, number, size)) \in Nat
      BY StructureType
<1> QED
    BY <1>1, AmountType, PutType

LEMMA WriteStrTableHeaderInv == IInv /\ WriteStrTableHeader => IInv'
<1> SUFFICES ASSUME IInv, WriteStrTableHeader
             PROVE  IInv'
    OBVIOUS
<1> USE DEF WriteStrTableHeader
<1>1. NamesTypeOK' /\ (Unindexed = {})'
      BY Frame
<1>2. ElfTypeOK'
  <2>1. ElfTypeOK /\ shdr_offset \in Nat /\ ShdrSize \in Nat
        BY LayoutTypes, SizeTypes DEF IInv, TypeOK
  <2>2. elf_offset' \in Nat
        BY <2>1 DEF ElfTypeOK
  <2> QED
      BY <2>1, <2>2, StructureAmount DEF StrTableSectionHeader
<1>3. TypeOK'
      BY <1>1, <1>2 DEF IInv, TypeOK, segmentVars
<1>4. HeadersInv' /\ NamesInv'
      BY Frame DEF IInv, HeadersInv, NamesInv
<1>5. IndexInv' /\ SegmentInv' /\ ThrowHasCause'
      BY <1>1 DEF IndexInv, SegmentInv, ThrowHasCause
<1> QED
    BY <1>3, <1>4, <1>5 DEF IInv

LEMMA WriteElfHeaderInv == IInv /\ WriteElfHeader => IInv'
<1> SUFFICES ASSUME IInv, WriteElfHeader
             PROVE  IInv'
    OBVIOUS
<1> USE DEF WriteElfHeader
<1>1. NamesTypeOK' /\ (Unindexed = {})'
      BY Frame DEF IInv, IndexInv
<1>2. ElfTypeOK'
  <2>1. ElfTypeOK /\ 0 \in Nat /\ EhdrSize \in Nat
        BY SizeTypes DEF IInv, TypeOK
  <2>2. elf_offset' \in Nat
        BY <2>1 DEF ElfTypeOK
  <2> QED
      BY <2>1, <2>2, StructureAmount DEF ElfHeader
<1>3. TypeOK'
      BY <1>1, <1>2 DEF IInv, TypeOK, segmentVars
<1>4. HeadersInv' /\ NamesInv'
      BY Frame DEF IInv, HeadersInv, NamesInv
<1>5. IndexInv' /\ SegmentInv' /\ ThrowHasCause'
      BY <1>1 DEF IndexInv, SegmentInv, ThrowHasCause
<1> QED
    BY <1>3, <1>4, <1>5 DEF IInv

(* The header of the segment that is copied.                               *)
LEMMA SegmentType ==
  ASSUME TypeOK, segment_number < Len(section_headers)
  PROVE  Segment \in Header /\ Segment.file_size \in Nat
<1>1. segment_number + 1 \in 1 .. Len(section_headers)
      BY DEF TypeOK
<1>2. Segment \in Header
      BY <1>1, HeaderAt DEF Segment
<1> QED
    BY <1>2 DEF Header

LEMMA WriteProgramHeaderInv == IInv /\ WriteProgramHeader => IInv'
<1> SUFFICES ASSUME IInv, WriteProgramHeader
             PROVE  IInv'
    OBVIOUS
<1> USE DEF WriteProgramHeader, InSegments
<1>1. NamesTypeOK' /\ (Unindexed = {})'
      BY Frame DEF IInv, IndexInv
<1>2. Segment \in Header /\ Segment.file_size \in Nat
      BY SegmentType DEF IInv
<1>3. ElfTypeOK'
  <2>1. /\ ElfTypeOK /\ SegNumToOffset(segment_number) \in Nat
        /\ PhdrSize \in Nat
        BY OffsetTypes, SizeTypes DEF IInv, TypeOK
  <2>2. elf_offset' \in Nat
        BY <1>2, PhdrOffsetType
  <2> QED
      BY <2>1, <2>2, StructureAmount DEF ProgramHeader
<1>4. TypeOK'
      BY <1>1, <1>3 DEF IInv, TypeOK
<1>5. HeadersInv' /\ NamesInv'
      BY Frame DEF IInv, HeadersInv, NamesInv
<1>6. SegmentInv'
      BY <1>2 DEF SegmentInv, Segment
<1>7. IndexInv' /\ ThrowHasCause'
      BY <1>1 DEF IndexInv, ThrowHasCause
<1> QED
    BY <1>4, <1>5, <1>6, <1>7 DEF IInv

LEMMA CopyBufferInv == IInv /\ CopyBuffer => IInv'
<1> SUFFICES ASSUME IInv, CopyBuffer
             PROVE  IInv'
    OBVIOUS
<1> USE DEF CopyBuffer
<1>1. NamesTypeOK' /\ (Unindexed = {})'
      BY Frame DEF IInv, IndexInv
<1>2. /\ segment_number < Len(section_headers)
      /\ segment_number \in Nat /\ amount_written \in Nat
      /\ Segment \in Header /\ Segment.file_size \in Nat
      /\ amount_written <= Segment.file_size
      BY SegmentType DEF IInv, SegmentInv, TypeOK
<1>3. Len(Buffer) \in Nat
      BY <1>2, SizeTypes DEF Buffer
<1>4. ElfTypeOK'
  <2> PICK amount \in Amounts(Buffer) :
             /\ Put(elf_offset, Buffer, amount)
             /\ elf_offset' = elf_offset + amount
      OBVIOUS
  <2>1. ElfTypeOK /\ elf_offset \in Nat /\ amount \in Nat
        BY <1>3, AmountType DEF IInv, TypeOK, ElfTypeOK
  <2>2. elf_offset' \in Nat
        BY <2>1
  <2> QED
      BY <1>3, <2>1, <2>2, PutType
<1>5. /\ segment_number' \in Nat /\ amount_written' \in Nat
      /\ phase' \in {"copy", "segments"}
      BY <1>2, SizeTypes DEF segmentVars
<1>6. TypeOK'
      BY <1>1, <1>4, <1>5 DEF IInv, TypeOK
<1>7. HeadersInv' /\ NamesInv'
      BY <1>5, Frame DEF IInv, HeadersInv, NamesInv
<1>8. SegmentInv'
  <2>1. CASE MoreBuffers
        BY <1>2, <2>1, SizeTypes DEF SegmentInv, Segment, MoreBuffers
  <2>2. CASE ~ MoreBuffers
        BY <2>2 DEF SegmentInv
  <2> QED
      BY <2>1, <2>2
<1>9. IndexInv' /\ ThrowHasCause'
      BY <1>1, <1>5 DEF IndexInv, ThrowHasCause
<1> QED
    BY <1>6, <1>7, <1>8, <1>9 DEF IInv

LEMMA WriteNullSectionHeaderInv == IInv /\ WriteNullSectionHeader => IInv'
<1> SUFFICES ASSUME IInv, WriteNullSectionHeader
             PROVE  IInv'
    OBVIOUS
<1> USE DEF WriteNullSectionHeader
<1>1. NamesTypeOK' /\ (Unindexed = {})'
      BY Frame DEF IInv, IndexInv
<1>2. ElfTypeOK'
  <2> DEFINE offset == SegNumToOffset(segment_number)
  <2>1. ElfTypeOK /\ offset \in Nat /\ ShdrSize \in Nat
        BY OffsetTypes, SizeTypes DEF IInv, TypeOK
  <2> PICK amount \in Amounts(NullSectionHeader) :
             /\ Put(offset, NullSectionHeader, amount)
             /\ elf_offset' = offset + amount
      OBVIOUS
  <2> HIDE DEF offset
  <2>2. amount \in Nat /\ (elf_offset' \in Nat => ElfTypeOK')
        BY <2>1, StructureAmount DEF NullSectionHeader
  <2> QED
      BY <2>1, <2>2
<1>3. TypeOK'
      BY <1>1, <1>2 DEF IInv, TypeOK, segmentVars
<1>4. HeadersInv' /\ NamesInv'
      BY Frame DEF IInv, HeadersInv, NamesInv
<1>5. IndexInv' /\ SegmentInv' /\ ThrowHasCause'
      BY <1>1 DEF IndexInv, SegmentInv, ThrowHasCause
<1> QED
    BY <1>3, <1>4, <1>5 DEF IInv

(* Every name that was read has an index under its address.                *)
LEMMA ReadNameHasIndex ==
  ASSUME IInv, phase = "shdrs", NEW i \in 2 .. Len(section_headers)
  PROVE  HasIndex(section_headers[i])
<1>1. section_headers[i] \in Header /\ xbe \in Xbes
      BY HeaderAt DEF IInv, TypeOK
<1>2. NameOffset(section_headers[i]) \in DOMAIN shdr_str_table
      BY DEF IInv, NamesInv, NamesRead
<1>3. MemAddr(NameOffset(section_headers[i])) \in DOMAIN mem_addr_to_index
      BY <1>2 DEF IInv, IndexInv, Unindexed
<1> QED
    BY <1>1, <1>3, NameOffsetType DEF HasIndex

LEMMA WriteSectionHeaderInv == IInv /\ WriteSectionHeader => IInv'
<1> SUFFICES ASSUME IInv, WriteSectionHeader
             PROVE  IInv'
    OBVIOUS
<1> USE DEF WriteSectionHeader
<1>1. NamesTypeOK' /\ (Unindexed = {})'
      BY Frame DEF IInv, IndexInv
<1>2. /\ TypeOK /\ ElfTypeOK
      /\ next \in 1 .. Len(section_headers)
      /\ section_headers = <<ImageHeader>> \o xbe.table
      /\ xbe.table \in Seq(Header)
      BY XbeTypes DEF IInv, TypeOK, HeadersInv
<1>3. /\ section_headers[1] = ImageHeader
      /\ Len(section_headers) = Len(xbe.table) + 1
      /\ \A i \in DOMAIN xbe.table : section_headers[i + 1] = xbe.table[i]
      BY <1>2
<1>4. CASE HasIndex(section_headers[next])
  <2>1. ElfTypeOK'
    <3> PICK amount \in Amounts(SectionHeader(next)) :
               /\ Put(elf_offset, SectionHeader(next), amount)
               /\ elf_offset' = elf_offset + amount
        BY <1>4
    <3>1. amount \in Nat /\ (elf_offset' \in Nat => ElfTypeOK')
          BY <1>2, SizeTypes, StructureAmount DEF SectionHeader, ElfTypeOK
    <3> QED
        BY <1>2, <3>1 DEF ElfTypeOK
  <2>2. TypeOK'
        BY <1>1, <1>2, <1>4, <2>1 DEF TypeOK, segmentVars
  <2>3. HeadersInv' /\ NamesInv'
        BY <1>4, Frame DEF IInv, HeadersInv, NamesInv
  <2>4. IndexInv' /\ SegmentInv' /\ ThrowHasCause'
        BY <1>1, <1>4 DEF IndexInv, SegmentInv, ThrowHasCause
  <2> QED
      BY <2>2, <2>3, <2>4 DEF IInv
<1>5. CASE ~ HasIndex(section_headers[next])
  <2>1. next = 1
        BY <1>2, <1>5, ReadNameHasIndex
  <2>2. ASSUME NEW i \in DOMAIN xbe.table,
               xbe.table[i].sect_name_mem_addr = ImageHeader.sect_name_mem_addr
        PROVE  FALSE
    <3>1. i + 1 \in 2 .. Len(section_headers)
          BY <1>2, <1>3
    <3>2. HasIndex(xbe.table[i])
          BY <1>3, <3>1, ReadNameHasIndex
    <3> QED
        BY <1>3, <1>5, <2>1, <2>2, <3>2 DEF HasIndex
  <2>3. ElfTypeOK'
        BY <1>2, <1>5 DEF ElfTypeOK, elfVars
  <2>4. TypeOK'
        BY <1>1, <1>2, <1>5, <2>3 DEF TypeOK, segmentVars, Ended
  <2>5. HeadersInv' /\ NamesInv'
        BY <1>5, Frame DEF IInv, HeadersInv, NamesInv
  <2>6. IndexInv' /\ SegmentInv'
        BY <1>1, <1>5 DEF IndexInv, SegmentInv
  <2>7. ThrowHasCause'
        BY <1>5, <2>1, <2>2 DEF ThrowHasCause
  <2> QED
      BY <2>4, <2>5, <2>6, <2>7 DEF IInv
<1> QED
    BY <1>4, <1>5

(* Steps that change nothing but the phase.                                *)
LEMMA PhaseInv ==
  IInv /\ (SectionHeadersEnd \/ ReadNameHangs \/ HostFails) => IInv'
<1> SUFFICES ASSUME IInv, SectionHeadersEnd \/ ReadNameHangs \/ HostFails
             PROVE  IInv'
    OBVIOUS
<1> USE DEF SectionHeadersEnd, ReadNameHangs, HostFails
<1>1. /\ UNCHANGED <<xbe, section_headers, next, nameVars, segmentVars, elfVars>>
      /\ phase' \in {"done", "hangs", "failed"}
      /\ phase' # "failed" => phase \in {"shdrs", "names"}
      OBVIOUS
<1>2. NamesTypeOK' /\ ElfTypeOK'
      BY <1>1, Frame DEF IInv, TypeOK, ElfTypeOK, elfVars
<1>3. TypeOK'
      BY <1>1, <1>2 DEF IInv, TypeOK, segmentVars, Ended
<1>4. HeadersInv'
      BY <1>1 DEF IInv, HeadersInv
<1>5. NamesInv' /\ IndexInv' /\ SegmentInv' /\ ThrowHasCause'
      BY <1>1 DEF NamesInv, IndexInv, SegmentInv, ThrowHasCause
<1> QED
    BY <1>3, <1>4, <1>5 DEF IInv

LEMMA NextInv == IInv /\ [Next]_vars => IInv'
<1> SUFFICES ASSUME IInv, [Next]_vars
             PROVE  IInv'
    OBVIOUS
<1>1. CASE Next
      BY <1>1, ReadHeadersInv, ReadNameInv, NamesEndInv, WriteNameInv,
         WriteStrTableHeaderInv, WriteElfHeaderInv, WriteProgramHeaderInv,
         CopyBufferInv, WriteNullSectionHeaderInv, WriteSectionHeaderInv,
         PhaseInv DEF Next, Step
<1>2. CASE UNCHANGED vars
  <2>1. UNCHANGED <<phase, xbe, section_headers, next, nameVars, segmentVars,
                    elfVars>>
        BY <1>2 DEF vars
  <2>2. NamesTypeOK' /\ ElfTypeOK'
        BY <2>1, Frame DEF IInv, TypeOK, ElfTypeOK, elfVars
  <2>3. TypeOK'
        BY <2>1, <2>2 DEF IInv, TypeOK, segmentVars
  <2>4. HeadersInv' /\ NamesInv' /\ IndexInv'
        BY <2>1, Frame DEF IInv, HeadersInv, NamesInv, IndexInv
  <2>5. SegmentInv' /\ ThrowHasCause'
        BY <2>1 DEF IInv, SegmentInv, ThrowHasCause, Segment, segmentVars
  <2> QED
      BY <2>3, <2>4, <2>5 DEF IInv
<1> QED
    BY <1>1, <1>2

-----------------------------------------------------------------------------
(* What is written where.                                                  *)

(* A write that is not cut short puts its units in place, and leaves all   *)
(* others as they are.                                                     *)
LEMMA PutFacts ==
  ASSUME NEW offset \in Nat, NEW units, Len(units) \in Nat,
         NEW amount \in Amounts(units), Put(offset, units, amount), ~ shortened'
  PROVE  /\ ~ shortened /\ amount = Len(units)
         /\ \A k \in 1 .. Len(units) :
              /\ offset + k - 1 \in DOMAIN elf'
              /\ elf'[offset + k - 1] = units[k]
         /\ \A a \in DOMAIN elf : a < offset \/ a >= offset + Len(units) =>
              a \in DOMAIN elf' /\ elf'[a] = elf[a]
<1>1. ~ shortened /\ ~ (amount < Len(units))
      BY DEF Put
<1>2. amount = Len(units)
      BY <1>1 DEF Amounts
<1>3. /\ DOMAIN elf' = DOMAIN elf \cup offset .. offset + Len(units) - 1
      /\ \A a \in DOMAIN elf' :
           elf'[a] = IF a \in offset .. offset + Len(units) - 1
                     THEN units[a - offset + 1] ELSE elf[a]
      BY <1>2 DEF Put
<1>4. ASSUME NEW k \in 1 .. Len(units)
      PROVE  /\ offset + k - 1 \in DOMAIN elf'
             /\ elf'[offset + k - 1] = units[k]
  <2>1. /\ offset + k - 1 \in offset .. offset + Len(units) - 1
        /\ (offset + k - 1) - offset + 1 = k
        OBVIOUS
  <2> QED
      BY <1>3, <2>1
<1>5. \A a \in DOMAIN elf : a < offset \/ a >= offset + Len(units) =>
        a \in DOMAIN elf' /\ elf'[a] = elf[a]
      BY <1>3
<1> QED
    BY <1>1, <1>2, <1>4, <1>5

(* What stands elsewhere stays.                                            *)
LEMMA HoldsKept ==
  ASSUME NEW offset \in Nat, NEW units, Len(units) \in Nat,
         NEW amount \in Amounts(units), Put(offset, units, amount), ~ shortened',
         NEW a \in Nat, NEW kept, Holds(a, kept),
         \A k \in DOMAIN kept : a + k - 1 < offset \/ a + k - 1 >= offset + Len(units)
  PROVE  \A k \in DOMAIN kept :
           a + k - 1 \in DOMAIN elf' /\ elf'[a + k - 1] = kept[k]
<1> SUFFICES ASSUME NEW k \in DOMAIN kept
             PROVE  a + k - 1 \in DOMAIN elf' /\ elf'[a + k - 1] = kept[k]
    OBVIOUS
<1>1. a + k - 1 \in DOMAIN elf /\ elf[a + k - 1] = kept[k]
      BY DEF Holds
<1>2. \A b \in DOMAIN elf : b < offset \/ b >= offset + Len(units) =>
        b \in DOMAIN elf' /\ elf'[b] = elf[b]
      BY PutFacts
<1> QED
    BY <1>1, <1>2

LEMMA StructureFacts ==
  ASSUME NEW part, NEW number, NEW size \in Nat
  PROVE  /\ Structure(part, number, size) \in Seq({Unit(part, number, k) : k \in 1 .. size})
         /\ DOMAIN Structure(part, number, size) = 1 .. size
         /\ Len(Structure(part, number, size)) = size
BY DEF Structure

(* Products.                                                               *)
LEMMA TimesNext == \A a, b \in Nat : a * (b + 1) = a * b + a
OBVIOUS

LEMMA TimesMonotone == \A a, b, c \in Nat : b <= c => a * b <= a * c
OBVIOUS

(* The order of the tables in the file.                                    *)
LEMMA Layout ==
  ASSUME IInv, section_headers = <<ImageHeader>> \o xbe.table
  PROVE  LET n == Len(section_headers) IN
         /\ n \in Nat /\ section_header_num = n - 1 /\ n >= 2
         /\ \A i \in 0 .. n :
              /\ SegNumToOffset(i) \in Nat /\ EhdrSize <= SegNumToOffset(i)
              /\ \A j \in 0 .. i - 1 : SegNumToOffset(j) + PhdrSize <= SegNumToOffset(i)
         /\ SegNumToOffset(n) <= shdr_offset + PhdrSize
         /\ SegNumToOffset(n) <= str_table_offset
         /\ \A i \in 0 .. n :
              /\ ShdrSize * i \in Nat /\ ShdrSize * (i + 1) = ShdrSize * i + ShdrSize
              /\ SegNumToOffset(n) + ShdrSize * i + ShdrSize
                   <= str_table_offset + PhdrSize
         /\ shdr_offset \in Nat /\ str_table_offset \in Nat
         /\ str_table_offset = shdr_offset + ShdrSize
<1> DEFINE n == Len(section_headers)
           m == section_header_num
<1>1. xbe.section_header_num \in Nat /\ xbe.table \in Seq(Header)
      /\ Len(xbe.table) = xbe.section_header_num + 1
      BY XbeTypes DEF IInv, TypeOK
<1>2. n \in Nat /\ m = n - 1 /\ n >= 2 /\ m \in Nat
  <2>1. n = 1 + Len(xbe.table)
        BY <1>1
  <2> QED
      BY <1>1, <2>1 DEF section_header_num
<1> HIDE DEF n, m
<1>3. \A i \in Nat : SegNumToOffset(i) = EhdrSize + PhdrSize * i
      BY DEF SegNumToOffset
<1>4. \A i \in 0 .. n : SegNumToOffset(i) \in Nat /\ EhdrSize <= SegNumToOffset(i)
      BY <1>2, <1>3, SizeTypes, Times
<1>5. ASSUME NEW i \in 0 .. n, NEW j \in 0 .. i - 1
      PROVE  SegNumToOffset(j) + PhdrSize <= SegNumToOffset(i)
  <2>1. PhdrSize * (j + 1) <= PhdrSize * i
        BY <1>2, <1>5, SizeTypes, TimesMonotone
  <2>2. PhdrSize * (j + 1) = PhdrSize * j + PhdrSize
        BY <1>2, <1>5, SizeTypes, TimesNext
  <2>3. /\ SegNumToOffset(i) = EhdrSize + PhdrSize * i
        /\ SegNumToOffset(j) = EhdrSize + PhdrSize * j
        BY <1>2, <1>3, <1>5
  <2>4. PhdrSize * j \in Nat /\ PhdrSize * i \in Nat /\ EhdrSize \in Nat
        BY <1>2, <1>5, SizeTypes, Times
  <2> QED
      BY ONLY <2>1, <2>2, <2>3, <2>4, SizeTypes
<1>6. SegNumToOffset(n) = SegNumToOffset(m) + PhdrSize /\ SegNumToOffset(m) \in Nat
  <2>1. PhdrSize * (m + 1) = PhdrSize * m + PhdrSize /\ PhdrSize * m \in Nat
        BY <1>2, SizeTypes, TimesNext, Times
  <2>2. n = m + 1
        BY <1>2
  <2> QED
      BY <1>2, <1>3, <2>1, <2>2, SizeTypes
<1>7. /\ shdr_offset = SegNumToOffset(m) + ShdrSize * n
      /\ ShdrSize * n \in Nat
      /\ str_table_offset = shdr_offset + ShdrSize
      BY <1>2, SizeTypes, Times
      DEF shdr_offset, str_table_offset, SegNumAndSecNumToOffset, m
<1>8. ASSUME NEW i \in 0 .. n
      PROVE  /\ ShdrSize * i \in Nat /\ ShdrSize * (i + 1) = ShdrSize * i + ShdrSize
             /\ ShdrSize * i <= ShdrSize * n
      BY <1>2, SizeTypes, Times, TimesNext, TimesMonotone
<1>9. \A i \in 0 .. n :
        SegNumToOffset(n) + ShdrSize * i + ShdrSize <= str_table_offset + PhdrSize
      BY <1>6, <1>7, <1>8, SizeTypes
<1>10. /\ SegNumToOffset(n) <= shdr_offset + PhdrSize
       /\ shdr_offset \in Nat /\ str_table_offset \in Nat
      BY <1>6, <1>7, SizeTypes
<1>11. SegNumToOffset(n) <= str_table_offset
      BY <1>6, <1>7, SizeTypes, LayoutAssumption
<1> QED
    BY <1>2, <1>4, <1>5, <1>7, <1>8, <1>9, <1>10, <1>11 DEF n, m
-----------------------------------------------------------------------------
(* The string table.                                                       *)

(* Two names do not share an address.                                      *)
LEMMA MemAddrInjective ==
  ASSUME xbe \in Xbes, NEW o \in 0 .. Modulus - 1, NEW p \in 0 .. Modulus - 1,
         MemAddr(o) = MemAddr(p)
  PROVE  o = p
<1> DEFINE b == xbe.base_mem_addr
<1>1. b \in 0 .. Modulus - 1 /\ Modulus \in Nat \ {0}
      BY XbeTypes, SizeTypes
<1>2. (o + b) % Modulus = (p + b) % Modulus
      BY DEF MemAddr
<1> HIDE DEF b
<1>3. \A x \in 0 .. Modulus - 1 :
        (x + b) % Modulus = IF x + b < Modulus THEN x + b ELSE x + b - Modulus
  <2> SUFFICES ASSUME NEW x \in 0 .. Modulus - 1
               PROVE  (x + b) % Modulus = IF x + b < Modulus THEN x + b
                                                             ELSE x + b - Modulus
      OBVIOUS
  <2>1. CASE x + b < Modulus
        BY <1>1, <2>1
  <2>2. CASE x + b >= Modulus
    <3>1. x + b - Modulus \in 0 .. Modulus - 1
          BY <1>1, <2>2
    <3>2. (x + b - Modulus) % Modulus = x + b - Modulus
          BY <1>1, <3>1
    <3>3. (x + b - Modulus) % Modulus = (x + b) % Modulus
          BY <1>1, <3>1
    <3> QED
        BY <1>1, <2>2, <3>2, <3>3
  <2> QED
      BY <1>1, <2>1, <2>2
<1> QED
    BY <1>1, <1>2, <1>3

LEMMA SameLayout ==
  ASSUME UNCHANGED <<xbe, section_headers, nameVars>>
  PROVE  /\ Separate' <=> Separate
         /\ str_table_offset' = str_table_offset
         /\ UNCHANGED <<shdr_str_table, mem_addr_to_index, str_table_size>>
         /\ \A o : MemAddr(o)' = MemAddr(o)
         /\ Unindexed' = Unindexed
BY DEF Separate, str_table_offset, shdr_offset, section_header_num, nameVars, MemAddr,
   Unindexed

LEMMA CountStep ==
  ASSUME IInv, CountInv, [Next]_vars
  PROVE  CountInv'
<1>1. CASE ReadHeaders \/ ReadName
      BY <1>1 DEF ReadHeaders, ReadName, CountInv, nameVars, segmentVars
<1>2. CASE NamesEnd \/ WriteName \/ WriteStrTableHeader
      BY <1>2 DEF NamesEnd, WriteName, WriteStrTableHeader, CountInv, segmentVars
<1>3. CASE WriteElfHeader
  <2>1. Len(section_headers) \in Nat
        BY DEF IInv, TypeOK
  <2> QED
      BY <1>3, <2>1 DEF WriteElfHeader, CountInv, segmentVars
<1>4. CASE WriteProgramHeader
      BY <1>4 DEF WriteProgramHeader, InSegments, CountInv
<1>5. CASE CopyBuffer
  <2>1. segment_number \in Nat /\ Len(section_headers) \in Nat
        /\ segment_number < Len(section_headers)
        BY <1>5 DEF IInv, TypeOK, SegmentInv, CopyBuffer
  <2> QED
      BY <1>5, <2>1 DEF CopyBuffer, CountInv, segmentVars
<1>6. CASE WriteNullSectionHeader \/ WriteSectionHeader \/ SectionHeadersEnd
      BY <1>6 DEF WriteNullSectionHeader, WriteSectionHeader, SectionHeadersEnd,
         CountInv, segmentVars
<1>7. CASE ReadNameHangs \/ HostFails
      BY <1>7 DEF ReadNameHangs, HostFails, CountInv
<1>8. CASE UNCHANGED vars
      BY <1>8 DEF vars, CountInv, nameVars, segmentVars
<1> QED
    BY <1>1, <1>2, <1>3, <1>4, <1>5, <1>6, <1>7, <1>8 DEF Next, Step

LEMMA NameUnits ==
  ASSUME NEW o, NEW size \in Nat
  PROVE  LET text == Structure("name", o, size)
             name == Append(text, NullChar)
         IN /\ DOMAIN name = 1 .. size + 1 /\ DOMAIN text = 1 .. size
            /\ \A k \in 1 .. size : name[k] = text[k]
            /\ name[size + 1] = NullChar
<1> DEFINE text == Structure("name", o, size)
<1>1. text \in Seq({Unit("name", o, k) : k \in 1 .. size}) /\ Len(text) = size
      /\ DOMAIN text = 1 .. size
      BY StructureFacts
<1> HIDE DEF text
<1>2. /\ DOMAIN Append(text, NullChar) = 1 .. size + 1
      /\ \A k \in 1 .. size : Append(text, NullChar)[k] = text[k]
      /\ Append(text, NullChar)[size + 1] = NullChar
      BY <1>1
<1> QED
    BY <1>1, <1>2 DEF text

(* The names that are written stay, as long as writes are in front of the  *)
(* table or behind them.                                                   *)
LEMMA NamesStay ==
  ASSUME IInv, NamesWritten, phase \in {"strtab", "ehdr", "segments", "copy"},
         phase = "strtab" \/ Separate,
         NEW offset \in Nat, NEW units, Len(units) \in Nat,
         NEW amount \in Amounts(units), Put(offset, units, amount), ~ shortened',
         \/ offset + Len(units) <= str_table_offset + 1
         \/ offset >= str_table_offset + str_table_size,
         NEW o \in DOMAIN shdr_str_table, MemAddr(o) \in DOMAIN mem_addr_to_index
  PROVE  LET x == mem_addr_to_index[MemAddr(o)]
             name == Append(Structure("name", o, shdr_str_table[o]), NullChar)
         IN /\ x + shdr_str_table[o] < str_table_size
            /\ \A k \in DOMAIN name :
                 /\ str_table_offset + x + k - 1 \in DOMAIN elf'
                 /\ elf'[str_table_offset + x + k - 1] = name[k]
<1> DEFINE x == mem_addr_to_index[MemAddr(o)]
           size == shdr_str_table[o]
           name == Append(Structure("name", o, size), NullChar)
<1>1. ~ shortened
      BY PutFacts
<1>2. x + size < str_table_size /\ Holds(str_table_offset + x, name)
      BY <1>1 DEF NamesWritten
<1>3. /\ x \in Nat \ {0} /\ size \in Nat /\ str_table_size \in Nat
      /\ str_table_offset \in Nat
      BY LayoutTypes DEF IInv, TypeOK, NamesTypeOK
<1>4. DOMAIN name = 1 .. size + 1
      BY <1>3, NameUnits
<1> HIDE DEF name, x, size
<1>5. \A k \in DOMAIN name :
        LET a == (str_table_offset + x) + k - 1
        IN  a < offset \/ a >= offset + Len(units)
      BY <1>2, <1>3, <1>4
<1>6. str_table_offset + x \in Nat
      BY <1>3
<1>7. \A k \in DOMAIN name :
        /\ str_table_offset + x + k - 1 \in DOMAIN elf'
        /\ elf'[str_table_offset + x + k - 1] = name[k]
      BY <1>2, <1>5, <1>6, HoldsKept
<1> QED
    BY <1>2, <1>7 DEF name, x, size

LEMMA NamesKept ==
  ASSUME IInv, NamesWritten, phase \in {"strtab", "ehdr", "segments", "copy"},
         phase = "strtab" \/ Separate',
         UNCHANGED <<xbe, section_headers, nameVars>>,
         NEW offset \in Nat, NEW units, Len(units) \in Nat,
         NEW amount \in Amounts(units), Put(offset, units, amount),
         \/ offset + Len(units) <= str_table_offset + 1
         \/ offset >= str_table_offset + str_table_size
  PROVE  NamesWritten'
<1> SUFFICES ASSUME ~ shortened', NEW o \in DOMAIN shdr_str_table,
                    MemAddr(o) \in DOMAIN mem_addr_to_index
             PROVE  LET x == mem_addr_to_index[MemAddr(o)]
                        name == Append(Structure("name", o, shdr_str_table[o]), NullChar)
                    IN /\ x + shdr_str_table[o] < str_table_size
                       /\ \A k \in DOMAIN name :
                            /\ str_table_offset + x + k - 1 \in DOMAIN elf'
                            /\ elf'[str_table_offset + x + k - 1] = name[k]
    BY SameLayout DEF NamesWritten, Holds
<1> QED
    BY SameLayout, NamesStay
(* What a step of WriteName does.                                          *)
LEMMA WriteNameFacts ==
  ASSUME IInv, NameInv, WriteName, ~ shortened'
  PROVE  /\ UNCHANGED <<phase, xbe, section_headers, shdr_str_table>>
         /\ phase = "strtab" /\ ~ shortened
         /\ elf_offset \in Nat
         /\ \E o \in Unindexed : \E amount \in Amounts(NamePart(o)) :
              /\ IsNext(o) /\ o \in DOMAIN shdr_str_table /\ o \in 0 .. Modulus - 1
              /\ shdr_str_table[o] \in Nat
              /\ Len(NamePart(o)) \in Nat
              /\ amount \in Nat /\ amount = Len(NamePart(o))
              /\ Put(elf_offset, NamePart(o), amount)
              /\ elf_offset' = elf_offset + Len(NamePart(o))
              /\ next \in 1 .. 3
              /\ next < 3 => next' = next + 1 /\ UNCHANGED <<mem_addr_to_index, str_table_size>>
              /\ next = 3 =>
                   /\ next' = 1
                   /\ mem_addr_to_index' = With(mem_addr_to_index, MemAddr(o), Index)
                   /\ str_table_size' = str_table_size + shdr_str_table[o] + 2
<1>1. /\ UNCHANGED <<phase, xbe, section_headers, shdr_str_table>>
      /\ phase = "strtab"
      BY DEF WriteName
<1>2. PICK o \in Unindexed :
        /\ IsNext(o)
        /\ \E amount \in Amounts(NamePart(o)) :
             /\ Put(elf_offset, NamePart(o), amount)
             /\ elf_offset' = elf_offset + amount
        /\ IF next < 3
           THEN next' = next + 1 /\ UNCHANGED <<mem_addr_to_index, str_table_size>>
           ELSE /\ next' = 1
                /\ mem_addr_to_index' = With(mem_addr_to_index, MemAddr(o), Index)
                /\ str_table_size' = str_table_size + shdr_str_table[o] + 2
      BY DEF WriteName
<1>3. PICK amount \in Amounts(NamePart(o)) :
        /\ Put(elf_offset, NamePart(o), amount)
        /\ elf_offset' = elf_offset + amount
      BY <1>2
<1>4. /\ next \in 1 .. 3 /\ elf_offset \in Nat
      /\ o \in DOMAIN shdr_str_table /\ o \in 0 .. Modulus - 1
      /\ shdr_str_table[o] \in Nat
      BY <1>1, <1>2 DEF IInv, NamesInv, Unindexed, TypeOK, NamesTypeOK, ElfTypeOK
<1>5. Len(NamePart(o)) \in Nat
      BY <1>4, NamePartType DEF IInv
<1>6. ~ shortened /\ amount = Len(NamePart(o))
      BY <1>3, <1>4, <1>5, PutFacts
<1>7. /\ next < 3 => next' = next + 1 /\ UNCHANGED <<mem_addr_to_index, str_table_size>>
      /\ next = 3 =>
           /\ next' = 1
           /\ mem_addr_to_index' = With(mem_addr_to_index, MemAddr(o), Index)
           /\ str_table_size' = str_table_size + shdr_str_table[o] + 2
      BY <1>2
<1> QED
    BY <1>1, <1>2, <1>3, <1>4, <1>5, <1>6, <1>7

LEMMA NextIsOne ==
  ASSUME IInv, NEW o \in Unindexed, NEW p \in Unindexed, IsNext(o), IsNext(p)
  PROVE  o = p
<1>1. o \in Nat /\ p \in Nat
      BY DEF Unindexed, IInv, TypeOK, NamesTypeOK
<1> QED
    BY <1>1 DEF IsNext

(* The parts of a name follow each other.                                  *)
LEMMA NameStep ==
  ASSUME IInv, CountInv, NameInv, [Next]_vars
  PROVE  NameInv'
<1>1. CASE ~ (phase' = "strtab" /\ ~ shortened')
      BY <1>1 DEF NameInv
<1>2. CASE NamesEnd
      BY <1>2, LayoutTypes DEF NamesEnd, NameInv, CountInv, str_table_offset, shdr_offset,
         section_header_num, IInv, TypeOK
<1>3. CASE WriteName /\ ~ shortened'
  <2>1. /\ UNCHANGED <<phase, xbe, section_headers, shdr_str_table>>
        /\ phase = "strtab" /\ ~ shortened /\ elf_offset \in Nat
        BY <1>3, WriteNameFacts
  <2>2. PICK o \in Unindexed, amount \in Nat :
              /\ amount \in Amounts(NamePart(o))
              /\ IsNext(o) /\ o \in DOMAIN shdr_str_table
              /\ shdr_str_table[o] \in Nat
              /\ Len(NamePart(o)) \in Nat
              /\ Put(elf_offset, NamePart(o), amount)
              /\ elf_offset' = elf_offset + Len(NamePart(o))
              /\ next \in 1 .. 3
              /\ next < 3 => next' = next + 1 /\ UNCHANGED <<mem_addr_to_index, str_table_size>>
              /\ next = 3 =>
                   /\ next' = 1
                   /\ str_table_size' = str_table_size + shdr_str_table[o] + 2
        BY <1>3, WriteNameFacts
  <2>3. str_table_offset' = str_table_offset /\ str_table_offset \in Nat
        /\ str_table_size \in Nat
        BY <2>1, LayoutTypes DEF str_table_offset, shdr_offset, section_header_num,
           IInv, TypeOK, NamesTypeOK
  <2>4. Len(<<NullChar>>) = 1
        OBVIOUS
  <2>5. CASE next = 1
    <3>1. next' = 2 /\ str_table_size' = str_table_size /\ elf_offset' = elf_offset + 1
          BY <2>2, <2>4, <2>5 DEF NamePart
    <3> QED
        BY <2>1, <2>3, <2>5, <3>1 DEF NameInv
  <2>6. CASE next = 2
    <3> DEFINE name == Structure("name", o, shdr_str_table[o])
    <3>1. next' = 3 /\ UNCHANGED <<mem_addr_to_index, str_table_size>>
          BY <2>2, <2>6
    <3>2. NamePart(o) = name /\ Len(name) = shdr_str_table[o]
          /\ DOMAIN name = 1 .. shdr_str_table[o]
      <4>1. NamePart(o) = name
            BY <2>6 DEF NamePart
      <4>2. Len(name) = shdr_str_table[o] /\ DOMAIN name = 1 .. shdr_str_table[o]
            BY <2>2, StructureFacts
      <4> QED
          BY <4>1, <4>2
    <3>3. elf_offset = str_table_offset + str_table_size + 1
          BY <2>1, <2>6 DEF NameInv
    <3> HIDE DEF name
    <3>4. \A k \in 1 .. Len(name) :
            /\ elf_offset + k - 1 \in DOMAIN elf'
            /\ elf'[elf_offset + k - 1] = name[k]
          BY <1>3, <2>1, <2>2, <3>2, PutFacts
    <3>5. Unindexed' = Unindexed
          BY <2>1, <3>1 DEF Unindexed, MemAddr
    <3>6. \A p \in Unindexed' : IsNext(p)' => p = o
      <4>1. \A p : IsNext(p)' <=> IsNext(p)
            BY <3>5 DEF IsNext
      <4> QED
          BY <2>2, <3>5, <4>1, NextIsOne
    <3>7. elf_offset' = str_table_offset + str_table_size + 1 + shdr_str_table[o]
          BY <2>2, <3>2, <3>3
    <3>8. Holds(str_table_offset + str_table_size + 1, name)'
      <4>1. name' = name
            BY <2>1 DEF name
      <4> QED
          BY <2>3, <3>1, <3>2, <3>3, <3>4, <4>1 DEF Holds
    <3> QED
        BY <2>1, <2>3, <3>1, <3>6, <3>7, <3>8 DEF NameInv, name
  <2>7. CASE next = 3
    <3>1. /\ next' = 1 /\ str_table_size' = str_table_size + shdr_str_table[o] + 2
          /\ elf_offset' = elf_offset + 1
          BY <2>2, <2>4, <2>7 DEF NamePart
    <3>2. elf_offset = str_table_offset + str_table_size + 1 + shdr_str_table[o]
          BY <2>1, <2>2, <2>7 DEF NameInv
    <3> QED
        BY <2>2, <2>3, <3>1, <3>2 DEF NameInv
  <2> QED
      BY <2>2, <2>5, <2>6, <2>7
<1>4. CASE UNCHANGED vars
  <2>1. /\ UNCHANGED <<xbe, section_headers, nameVars>>
        /\ UNCHANGED <<phase, next, elf, elf_offset, shortened>>
        BY <1>4 DEF vars, elfVars
  <2>2. \A o : IsNext(o)' <=> IsNext(o)
        BY <2>1, SameLayout DEF IsNext
  <2> QED
      BY <2>1, <2>2, SameLayout DEF NameInv, Holds
<1>5. Next /\ ~ NamesEnd /\ ~ WriteName => phase' # "strtab"
      BY DEF Next, Step, ReadHeaders, ReadName, WriteStrTableHeader, WriteElfHeader,
         WriteProgramHeader, CopyBuffer, WriteNullSectionHeader, WriteSectionHeader,
         SectionHeadersEnd, ReadNameHangs, HostFails
<1> QED
    BY <1>1, <1>2, <1>3, <1>4, <1>5
(* A name that is written is added to those that stay.                     *)
LEMMA NameAdded ==
  ASSUME IInv, NamesWritten, NameInv, WriteName
  PROVE  NamesWritten'
<1> SUFFICES ASSUME ~ shortened' PROVE NamesWritten'
    BY DEF NamesWritten
<1>1. /\ UNCHANGED <<phase, xbe, section_headers, shdr_str_table>>
      /\ phase = "strtab" /\ ~ shortened /\ elf_offset \in Nat
      BY WriteNameFacts
<1>2. PICK o \in Unindexed, amount \in Nat :
        /\ amount \in Amounts(NamePart(o))
        /\ IsNext(o) /\ o \in DOMAIN shdr_str_table /\ o \in 0 .. Modulus - 1
        /\ shdr_str_table[o] \in Nat
        /\ Len(NamePart(o)) \in Nat
        /\ Put(elf_offset, NamePart(o), amount)
        /\ next \in 1 .. 3
        /\ next < 3 => UNCHANGED <<mem_addr_to_index, str_table_size>>
        /\ next = 3 =>
             /\ mem_addr_to_index' = With(mem_addr_to_index, MemAddr(o), Index)
             /\ str_table_size' = str_table_size + shdr_str_table[o] + 2
      BY WriteNameFacts
<1>3. /\ str_table_offset' = str_table_offset /\ str_table_offset \in Nat
      /\ str_table_size \in Nat /\ xbe \in Xbes
      /\ DOMAIN shdr_str_table \subseteq 0 .. Modulus - 1
      /\ \A p \in DOMAIN shdr_str_table : shdr_str_table[p] \in Nat
      BY <1>1, LayoutTypes DEF str_table_offset, shdr_offset, section_header_num,
         IInv, TypeOK, NamesTypeOK
<1>4. elf_offset >= str_table_offset + str_table_size
  <2>1. CASE next = 3
        BY <1>1, <1>2, <1>3, <2>1 DEF NameInv
  <2> QED
      BY <1>1, <1>2, <1>3, <2>1 DEF NameInv
<1>5. \A p : MemAddr(p)' = MemAddr(p)
      BY <1>1 DEF MemAddr
<1>6. CASE next < 3
  <2>1. UNCHANGED <<xbe, section_headers, nameVars>>
        BY <1>1, <1>2, <1>6 DEF nameVars
  <2> QED
      BY <1>1, <1>2, <1>4, <2>1, NamesKept
<1>7. CASE next = 3
  <2>1. /\ mem_addr_to_index' = With(mem_addr_to_index, MemAddr(o), Index)
        /\ str_table_size' = str_table_size + shdr_str_table[o] + 2
        BY <1>2, <1>7
  <2>2. /\ mem_addr_to_index'[MemAddr(o)] = str_table_size + 1
        /\ DOMAIN mem_addr_to_index' = DOMAIN mem_addr_to_index \cup {MemAddr(o)}
        /\ \A a \in DOMAIN mem_addr_to_index :
             a # MemAddr(o) => mem_addr_to_index'[a] = mem_addr_to_index[a]
        BY <2>1 DEF With, Index
  <2> SUFFICES ASSUME NEW p \in DOMAIN shdr_str_table,
                      MemAddr(p) \in DOMAIN mem_addr_to_index'
               PROVE  LET x == mem_addr_to_index'[MemAddr(p)]
                          name == Append(Structure("name", p, shdr_str_table[p]), NullChar)
                      IN /\ x + shdr_str_table[p] < str_table_size'
                         /\ \A k \in DOMAIN name :
                              /\ str_table_offset + x + k - 1 \in DOMAIN elf'
                              /\ elf'[str_table_offset + x + k - 1] = name[k]
      BY <1>1, <1>3, <1>5 DEF NamesWritten, Holds
  <2>3. CASE p = o
    <3> DEFINE text == Structure("name", o, shdr_str_table[o])
               name == Append(text, NullChar)
               size == shdr_str_table[o]
               start == str_table_offset + str_table_size + 1
    <3>1. /\ DOMAIN name = 1 .. size + 1 /\ DOMAIN text = 1 .. size
          /\ \A k \in 1 .. size : name[k] = text[k]
          /\ name[size + 1] = NullChar
          BY <1>2, NameUnits
    <3>2. elf_offset = start + size /\ Holds(start, text) /\ start \in Nat /\ size \in Nat
          BY <1>1, <1>2, <1>3, <1>7 DEF NameInv
    <3>3. NamePart(o) = <<NullChar>>
          BY <1>7 DEF NamePart
    <3> HIDE DEF name, text, size, start
    <3>4. elf_offset + 1 - 1 \in DOMAIN elf' /\ elf'[elf_offset + 1 - 1] = NullChar
      <4>1. Len(<<NullChar>>) = 1 /\ <<NullChar>>[1] = NullChar
            OBVIOUS
      <4>2. \A k \in 1 .. Len(NamePart(o)) :
              /\ elf_offset + k - 1 \in DOMAIN elf'
              /\ elf'[elf_offset + k - 1] = NamePart(o)[k]
            BY <1>1, <1>2, PutFacts
      <4>3. 1 \in 1 .. Len(NamePart(o)) /\ NamePart(o)[1] = NullChar
            BY <3>3, <4>1
      <4> QED
          BY <4>2, <4>3
    <3>5. \A k \in DOMAIN text :
            start + k - 1 < elf_offset \/ start + k - 1 >= elf_offset + Len(NamePart(o))
          BY <3>1, <3>2
    <3>6. \A k \in DOMAIN text : start + k - 1 \in DOMAIN elf' /\ elf'[start + k - 1] = text[k]
          BY <1>1, <1>2, <3>2, <3>5, HoldsKept
    <3>7. \A k \in DOMAIN name : start + k - 1 \in DOMAIN elf' /\ elf'[start + k - 1] = name[k]
      <4> SUFFICES ASSUME NEW k \in 1 .. size + 1
                   PROVE  start + k - 1 \in DOMAIN elf' /\ elf'[start + k - 1] = name[k]
          BY <3>1
      <4>1. CASE k \in 1 .. size
            BY <3>1, <3>6, <4>1
      <4>2. CASE k = size + 1
        <5>1. start + k - 1 = elf_offset + 1 - 1
              BY <1>1, <3>2, <4>2
        <5> QED
            BY <3>1, <3>4, <4>2, <5>1
      <4> QED
          BY <3>2, <4>1, <4>2
    <3>8. (str_table_size + 1) + size < str_table_size'
          BY <1>3, <2>1, <3>2 DEF size
    <3>9. \A k \in Int : str_table_offset + (str_table_size + 1) + k - 1 = start + k - 1
          BY <1>3 DEF start
    <3>10. \A k \in DOMAIN name : k \in Int
          BY <3>1, <3>2
    <3> QED
        BY <2>2, <2>3, <3>7, <3>8, <3>9, <3>10 DEF name, size, text
  <2>4. CASE p # o
    <3>1. MemAddr(p) # MemAddr(o)
          BY <1>2, <1>3, <2>4, MemAddrInjective
    <3>2. MemAddr(p) \in DOMAIN mem_addr_to_index
          /\ mem_addr_to_index'[MemAddr(p)] = mem_addr_to_index[MemAddr(p)]
          BY <2>2, <3>1
    <3> DEFINE x == mem_addr_to_index[MemAddr(p)]
               name == Append(Structure("name", p, shdr_str_table[p]), NullChar)
    <3>3. /\ x + shdr_str_table[p] < str_table_size
          /\ \A k \in DOMAIN name :
               /\ str_table_offset + x + k - 1 \in DOMAIN elf'
               /\ elf'[str_table_offset + x + k - 1] = name[k]
          BY <1>1, <1>2, <1>4, <3>2, NamesStay
    <3>4. x \in Nat
          BY <3>2 DEF IInv, TypeOK, NamesTypeOK
    <3>5. x + shdr_str_table[p] < str_table_size'
      <4>1. shdr_str_table[p] \in Nat /\ shdr_str_table[o] \in Nat
            BY <1>2, <1>3
      <4> QED
          BY <1>3, <2>1, <3>3, <3>4, <4>1
    <3> QED
        BY <3>2, <3>3, <3>5
  <2> QED
      BY <2>3, <2>4
<1> QED
    BY <1>2, <1>6, <1>7

(* A round of the copy loop stays within its segment.                      *)
LEMMA BufferFacts ==
  ASSUME IInv, phase = "copy"
  PROVE  /\ Segment \in Header /\ segment_number + 1 \in DOMAIN section_headers
         /\ Segment = section_headers[segment_number + 1]
         /\ segment_number \in 0 .. Len(section_headers) - 1
         /\ Segment.file_size \in Nat /\ Segment.file_offset \in Nat
         /\ PhdrOffset(Segment) \in Nat /\ amount_written \in Nat
         /\ Len(Buffer) \in Nat
         /\ amount_written + Len(Buffer) <= Segment.file_size
         /\ MoreBuffers => Len(Buffer) = buffer_size
         /\ ~ MoreBuffers => amount_written + Len(Buffer) = Segment.file_size
         /\ \A k \in 1 .. Len(Buffer) :
              Segment.file_offset + amount_written + k - 1 < xbe.size =>
                Buffer[k] = XbeUnit(Segment.file_offset + amount_written + k - 1)
<1>1. /\ segment_number < Len(section_headers)
      /\ segment_number \in Nat /\ amount_written \in Nat
      /\ Segment \in Header /\ Segment.file_size \in Nat
      /\ amount_written <= Segment.file_size
      /\ section_headers \in Seq(Header)
      BY SegmentType DEF IInv, SegmentInv, TypeOK
<1>2. Segment.file_offset \in Nat /\ PhdrOffset(Segment) \in Nat
      BY <1>1, PhdrOffsetType DEF Header
<1>3. /\ Len(Buffer) = IF MoreBuffers THEN buffer_size
                                      ELSE Segment.file_size - amount_written
      /\ \A k \in 1 .. Len(Buffer) :
           Buffer[k] = IF Segment.file_offset + amount_written + k - 1 < xbe.size
                       THEN XbeUnit(Segment.file_offset + amount_written + k - 1)
                       ELSE Unread
  <2> DEFINE size == IF MoreBuffers THEN buffer_size
                                    ELSE Segment.file_size - amount_written
             unit(k) == IF Segment.file_offset + amount_written + k - 1 < xbe.size
                        THEN XbeUnit(Segment.file_offset + amount_written + k - 1)
                        ELSE Unread
  <2>1. Buffer = [k \in 1 .. size |-> unit(k)]
        BY DEF Buffer
  <2>2. size \in Nat
        BY <1>1, SizeTypes
  <2> HIDE DEF size, unit
  <2>3. Len(Buffer) = size /\ \A k \in 1 .. Len(Buffer) : Buffer[k] = unit(k)
        BY <2>1, <2>2
  <2> QED
      BY <2>3 DEF size, unit
<1>4. /\ Len(Buffer) \in Nat
      /\ amount_written + Len(Buffer) <= Segment.file_size
      /\ ~ MoreBuffers => amount_written + Len(Buffer) = Segment.file_size
  <2>1. CASE MoreBuffers
    <3>1. Len(Buffer) = buffer_size /\ amount_written + buffer_size < Segment.file_size
          BY <1>3, <2>1 DEF MoreBuffers
    <3> QED
        BY <1>1, <2>1, <3>1, SizeTypes
  <2>2. CASE ~ MoreBuffers
    <3>1. Len(Buffer) = Segment.file_size - amount_written
          BY <1>3, <2>2
    <3> QED
        BY <1>1, <2>2, <3>1
  <2> QED
      BY <2>1, <2>2
<1>5. segment_number + 1 \in DOMAIN section_headers
      /\ segment_number \in 0 .. Len(section_headers) - 1
      BY <1>1
<1> QED
    BY <1>1, <1>2, <1>3, <1>4, <1>5 DEF Segment

(* Behind the tables are the segments, apart from each other.              *)
LEMMA SegmentPlace ==
  ASSUME IInv, Separate, NEW i \in DOMAIN section_headers
  PROVE  LET h == section_headers[i] IN
         /\ h \in Header /\ h.file_size \in Nat /\ h.file_offset \in Nat
         /\ PhdrOffset(h) \in Nat
         /\ PhdrOffset(h) >= str_table_offset + PhdrSize + str_table_size
         /\ \A j \in DOMAIN section_headers \ {i} :
              Extent(h) \cap Extent(section_headers[j]) = {}
<1>1. section_headers[i] \in Header
      BY DEF IInv, TypeOK
<1> QED
    BY <1>1, PhdrOffsetType DEF Separate, Header

(* No header is written over the names, and no segment.                    *)
LEMMA NamesStep ==
  ASSUME IInv, CountInv, NamesWritten, NameInv, ElfWritten, [Next]_vars
  PROVE  NamesWritten'
<1> DEFINE n == Len(section_headers)
<1>1. CASE phase' \notin {"strtab", "ehdr", "segments", "copy"}
      BY <1>1 DEF NamesWritten
<1>2. CASE NamesEnd
      BY <1>2 DEF NamesEnd, NamesWritten, CountInv
<1>3. CASE WriteName
      BY <1>3, NameAdded
<1>4. ASSUME phase \in {"strtab", "ehdr", "segments", "copy"},
             UNCHANGED <<xbe, section_headers>>
      PROVE  /\ n \in Nat /\ str_table_offset \in Nat /\ shdr_offset \in Nat
             /\ str_table_offset = shdr_offset + ShdrSize
             /\ \A i \in 0 .. n :
                  /\ SegNumToOffset(i) \in Nat /\ EhdrSize <= SegNumToOffset(i)
                  /\ \A j \in 0 .. i - 1 : SegNumToOffset(j) + PhdrSize <= SegNumToOffset(i)
             /\ SegNumToOffset(n) <= str_table_offset
  <2>1. section_headers = <<ImageHeader>> \o xbe.table
        BY <1>4 DEF IInv, HeadersInv
  <2> QED
      BY <2>1, Layout
<1>5. CASE WriteStrTableHeader
  <2>1. PICK amount \in Amounts(StrTableSectionHeader) :
          Put(shdr_offset, StrTableSectionHeader, amount)
        BY <1>5 DEF WriteStrTableHeader
  <2>2. Len(StrTableSectionHeader) = ShdrSize
        BY SizeTypes, StructureType DEF StrTableSectionHeader
  <2>3. phase = "strtab" /\ UNCHANGED <<xbe, section_headers, nameVars>>
        BY <1>5 DEF WriteStrTableHeader
  <2>4. /\ shdr_offset \in Nat /\ str_table_offset \in Nat
        /\ str_table_offset = shdr_offset + ShdrSize
        BY <1>4, <2>3
  <2> QED
      BY <2>1, <2>2, <2>3, <2>4, SizeTypes, NamesKept
<1>6. CASE WriteElfHeader
  <2>1. PICK amount \in Amounts(ElfHeader) : Put(0, ElfHeader, amount)
        BY <1>6 DEF WriteElfHeader
  <2>2. Len(ElfHeader) = EhdrSize
        BY SizeTypes, StructureType DEF ElfHeader
  <2>3. phase = "ehdr" /\ phase' = "segments" /\ UNCHANGED <<xbe, section_headers, nameVars>>
        BY <1>6 DEF WriteElfHeader
  <2>4. EhdrSize <= str_table_offset /\ str_table_offset \in Nat
    <3>1. n \in Nat /\ n \in 0 .. n
          BY <1>4, <2>3
    <3> QED
        BY <1>4, <2>3, <3>1, SizeTypes
  <2>5. Separate' => NamesWritten'
        BY <2>1, <2>2, <2>3, <2>4, SizeTypes, NamesKept
  <2> QED
      BY <2>3, <2>5 DEF NamesWritten
<1>7. CASE WriteProgramHeader
  <2>1. PICK amount \in Amounts(ProgramHeader(segment_number)) :
          Put(SegNumToOffset(segment_number), ProgramHeader(segment_number), amount)
        BY <1>7 DEF WriteProgramHeader
  <2>2. Len(ProgramHeader(segment_number)) = PhdrSize
        BY SizeTypes, StructureType DEF ProgramHeader
  <2>3. phase = "segments" /\ phase' = "copy" /\ UNCHANGED <<xbe, section_headers, nameVars>>
        BY <1>7 DEF WriteProgramHeader, InSegments
  <2>4. segment_number \in 0 .. n - 1 /\ n \in Nat /\ n \in 0 .. n
        BY <1>4, <1>7, <2>3 DEF WriteProgramHeader, InSegments, IInv, TypeOK
  <2>5. /\ SegNumToOffset(segment_number) + PhdrSize <= str_table_offset
        /\ SegNumToOffset(segment_number) \in Nat /\ str_table_offset \in Nat
    <3>1. SegNumToOffset(segment_number) + PhdrSize <= SegNumToOffset(n)
          BY <1>4, <2>3, <2>4
    <3>2. SegNumToOffset(n) <= str_table_offset /\ str_table_offset \in Nat
          /\ SegNumToOffset(n) \in Nat
          BY <1>4, <2>3, <2>4
    <3>3. SegNumToOffset(segment_number) \in Nat
          BY <1>4, <2>3, <2>4
    <3> QED
        BY <3>1, <3>2, <3>3, SizeTypes
  <2>6. Separate' => NamesWritten'
        BY <2>1, <2>2, <2>3, <2>5, SizeTypes, NamesKept
  <2> QED
      BY <2>3, <2>6 DEF NamesWritten
<1>8. CASE CopyBuffer
  <2>1. PICK amount \in Amounts(Buffer) : Put(elf_offset, Buffer, amount)
        BY <1>8 DEF CopyBuffer
  <2>2. /\ phase = "copy" /\ phase' \in {"copy", "segments"}
        /\ UNCHANGED <<xbe, section_headers, nameVars>>
        BY <1>8 DEF CopyBuffer
  <2>3. /\ Len(Buffer) \in Nat /\ Segment = section_headers[segment_number + 1]
        /\ segment_number + 1 \in DOMAIN section_headers
        /\ amount_written \in Nat /\ elf_offset \in Nat
        BY <2>2, BufferFacts DEF IInv, TypeOK, ElfTypeOK
  <2> SUFFICES ASSUME ~ shortened', Separate PROVE NamesWritten'
      BY <2>2, SameLayout DEF NamesWritten
  <2>4. ~ shortened
        BY <2>1, <2>3, PutFacts
  <2>5. elf_offset = PhdrOffset(Segment) + amount_written
        BY <2>2, <2>4 DEF ElfWritten
  <2>6. elf_offset >= str_table_offset + str_table_size
    <3>1. /\ PhdrOffset(Segment) \in Nat
          /\ PhdrOffset(Segment) >= str_table_offset + PhdrSize + str_table_size
          BY <2>3, SegmentPlace
    <3>2. str_table_offset \in Nat /\ str_table_size \in Nat
          BY LayoutTypes DEF IInv, TypeOK, NamesTypeOK
    <3> QED
        BY <2>3, <2>5, <3>1, <3>2, SizeTypes
  <2> QED
      BY <2>1, <2>2, <2>3, <2>6, SameLayout, NamesKept
<1>9. CASE UNCHANGED vars
  <2>1. UNCHANGED <<xbe, section_headers, nameVars, phase, elf, shortened>>
        BY <1>9 DEF vars, elfVars
  <2> QED
      BY <2>1, SameLayout DEF NamesWritten, Holds
<1>10. Next /\ ~ (\/ NamesEnd \/ WriteName \/ WriteStrTableHeader \/ WriteElfHeader
                 \/ WriteProgramHeader \/ CopyBuffer)
        => phase' \notin {"strtab", "ehdr", "segments", "copy"}
      BY DEF Next, Step, ReadHeaders, ReadName, WriteNullSectionHeader, WriteSectionHeader,
         SectionHeadersEnd, ReadNameHangs, HostFails
<1> QED
    BY <1>1, <1>2, <1>3, <1>5, <1>6, <1>7, <1>8, <1>9, <1>10
-----------------------------------------------------------------------------
(* Headers and segments.                                                   *)

(* The ELF header and a program header stay when a write is behind them.   *)
LEMMA HeaderStays ==
  ASSUME NEW offset \in Nat, NEW units, Len(units) \in Nat,
         NEW amount \in Amounts(units), Put(offset, units, amount), ~ shortened'
  PROVE  /\ offset >= EhdrSize /\ Holds(0, ElfHeader) => Holds(0, ElfHeader)'
         /\ \A i \in Nat :
              offset >= SegNumToOffset(i) + PhdrSize
                /\ Holds(SegNumToOffset(i), ProgramHeader(i)) =>
              Holds(SegNumToOffset(i), ProgramHeader(i))'
<1>1. ASSUME offset >= EhdrSize, Holds(0, ElfHeader)
      PROVE  Holds(0, ElfHeader)'
  <2>1. DOMAIN ElfHeader = 1 .. EhdrSize
        BY SizeTypes, StructureFacts DEF ElfHeader
  <2>2. \A k \in DOMAIN ElfHeader : 0 + k - 1 < offset
        BY <1>1, <2>1, SizeTypes
  <2>3. \A k \in DOMAIN ElfHeader :
          0 + k - 1 \in DOMAIN elf' /\ elf'[0 + k - 1] = ElfHeader[k]
        BY <1>1, <2>2, HoldsKept
  <2> QED
      BY <2>3 DEF Holds
<1>2. ASSUME NEW i \in Nat, offset >= SegNumToOffset(i) + PhdrSize,
             Holds(SegNumToOffset(i), ProgramHeader(i))
      PROVE  Holds(SegNumToOffset(i), ProgramHeader(i))'
  <2> DEFINE a == SegNumToOffset(i)
             h == ProgramHeader(i)
  <2>1. DOMAIN h = 1 .. PhdrSize /\ a \in Nat
        BY SizeTypes, StructureFacts, OffsetTypes DEF ProgramHeader
  <2> HIDE DEF a, h
  <2>2. \A k \in DOMAIN h : a + k - 1 < offset
        BY <1>2, <2>1, SizeTypes DEF a
  <2>3. Holds(a, h)
        BY <1>2 DEF a, h
  <2>4. \A k \in DOMAIN h : a + k - 1 \in DOMAIN elf' /\ elf'[a + k - 1] = h[k]
        BY <2>1, <2>2, <2>3, HoldsKept
  <2> QED
      BY <2>4 DEF Holds, a, h
<1> QED
    BY <1>1, <1>2

(* So does what was copied of a segment, when a write is elsewhere.        *)
LEMMA CopiedStays ==
  ASSUME NEW offset \in Nat, NEW units, Len(units) \in Nat,
         NEW amount \in Amounts(units), Put(offset, units, amount), ~ shortened',
         UNCHANGED <<xbe, section_headers>>,
         NEW i, NEW size \in Nat, Copied(i, size),
         PhdrOffset(section_headers[i + 1]) \in Nat,
         \A k \in 0 .. size - 1 :
           LET a == PhdrOffset(section_headers[i + 1]) + k
           IN  a < offset \/ a >= offset + Len(units)
  PROVE  Copied(i, size)'
<1> DEFINE h == section_headers[i + 1]
<1>1. ASSUME NEW k \in 0 .. size - 1, h.file_offset + k < xbe.size
      PROVE  Holds(PhdrOffset(h) + k, <<XbeUnit(h.file_offset + k)>>)'
  <2> DEFINE a == PhdrOffset(h) + k
             unit == <<XbeUnit(h.file_offset + k)>>
  <2>1. Holds(a, unit) /\ a \in Nat
        BY <1>1 DEF Copied
  <2>2. DOMAIN unit = {1}
        OBVIOUS
  <2>3. a < offset \/ a >= offset + Len(units)
        BY <1>1
  <2>4. a' = a /\ unit' = unit
        OBVIOUS
  <2> HIDE DEF a, unit
  <2>5. \A j \in DOMAIN unit : a + j - 1 < offset \/ a + j - 1 >= offset + Len(units)
        BY <2>1, <2>2, <2>3
  <2>6. \A j \in DOMAIN unit : a + j - 1 \in DOMAIN elf' /\ elf'[a + j - 1] = unit[j]
        BY <2>1, <2>5, HoldsKept
  <2>7. Holds(a, unit)'
        BY <2>4, <2>6 DEF Holds
  <2> QED
      BY <2>7 DEF a, unit
<1> QED
    BY <1>1 DEF Copied

(* What is known of the order of tables and segments in these phases.      *)
LEMMA Places ==
  ASSUME IInv, Separate, phase \in {"ehdr", "segments", "copy", "shdrs"}
  PROVE  LET n == Len(section_headers) IN
         /\ n \in Nat /\ n \in 0 .. n
         /\ \A i \in 0 .. n :
              /\ SegNumToOffset(i) \in Nat /\ EhdrSize <= SegNumToOffset(i)
              /\ \A j \in 0 .. i - 1 : SegNumToOffset(j) + PhdrSize <= SegNumToOffset(i)
         /\ \A i \in 0 .. n :
              /\ ShdrSize * i \in Nat /\ ShdrSize * (i + 1) = ShdrSize * i + ShdrSize
              /\ \A j \in 0 .. n - 1 :
                   SegNumToOffset(n) + ShdrSize * i + ShdrSize
                     <= PhdrOffset(section_headers[j + 1])
         /\ \A j \in 0 .. n - 1 :
              /\ j + 1 \in DOMAIN section_headers
              /\ PhdrOffset(section_headers[j + 1]) \in Nat
              /\ section_headers[j + 1].file_size \in Nat
              /\ SegNumToOffset(n) <= PhdrOffset(section_headers[j + 1])
              /\ \A i \in (0 .. n - 1) \ {j} :
                   Extent(section_headers[j + 1]) \cap Extent(section_headers[i + 1]) = {}
<1> DEFINE n == Len(section_headers)
<1>1. section_headers = <<ImageHeader>> \o xbe.table
      BY DEF IInv, HeadersInv
<1>2. /\ n \in Nat /\ n >= 2
      /\ \A i \in 0 .. n :
           /\ SegNumToOffset(i) \in Nat /\ EhdrSize <= SegNumToOffset(i)
           /\ \A j \in 0 .. i - 1 : SegNumToOffset(j) + PhdrSize <= SegNumToOffset(i)
      /\ SegNumToOffset(n) <= str_table_offset
      /\ \A i \in 0 .. n :
           /\ ShdrSize * i \in Nat /\ ShdrSize * (i + 1) = ShdrSize * i + ShdrSize
           /\ SegNumToOffset(n) + ShdrSize * i + ShdrSize <= str_table_offset + PhdrSize
      /\ str_table_offset \in Nat
      BY <1>1, Layout
<1>3. DOMAIN section_headers = 1 .. n /\ str_table_size \in Nat
      BY DEF IInv, TypeOK, NamesTypeOK
<1>4. \A j \in 0 .. n - 1 : j + 1 \in DOMAIN section_headers
      BY <1>2, <1>3
<1> HIDE DEF n
<1>5. ASSUME NEW j \in 0 .. n - 1
      PROVE  /\ PhdrOffset(section_headers[j + 1]) \in Nat
             /\ section_headers[j + 1].file_size \in Nat
             /\ PhdrOffset(section_headers[j + 1]) >= str_table_offset + PhdrSize
             /\ \A i \in (0 .. n - 1) \ {j} :
                  Extent(section_headers[j + 1]) \cap Extent(section_headers[i + 1]) = {}
  <2>1. j + 1 \in DOMAIN section_headers
        BY <1>4
  <2>2. LET h == section_headers[j + 1] IN
        /\ h.file_size \in Nat
        /\ PhdrOffset(h) \in Nat
        /\ PhdrOffset(h) >= str_table_offset + PhdrSize + str_table_size
        /\ \A i \in DOMAIN section_headers \ {j + 1} :
             Extent(h) \cap Extent(section_headers[i]) = {}
        BY <2>1, SegmentPlace
  <2>3. \A i \in (0 .. n - 1) \ {j} : i + 1 \in DOMAIN section_headers \ {j + 1}
        BY <1>2, <1>4
  <2>4. PhdrOffset(section_headers[j + 1]) >= str_table_offset + PhdrSize
        BY <1>2, <1>3, <2>2, SizeTypes
  <2> QED
      BY <2>2, <2>3, <2>4
<1>6. n \in 0 .. n
      BY <1>2
<1>7. \A i \in 0 .. n : \A j \in 0 .. n - 1 :
        SegNumToOffset(n) + ShdrSize * i + ShdrSize <= PhdrOffset(section_headers[j + 1])
  <2> SUFFICES ASSUME NEW i \in 0 .. n, NEW j \in 0 .. n - 1
               PROVE  SegNumToOffset(n) + ShdrSize * i + ShdrSize
                        <= PhdrOffset(section_headers[j + 1])
      OBVIOUS
  <2>1. /\ SegNumToOffset(n) \in Nat /\ ShdrSize * i \in Nat
        /\ SegNumToOffset(n) + ShdrSize * i + ShdrSize <= str_table_offset + PhdrSize
        BY <1>2, <1>6
  <2>2. /\ PhdrOffset(section_headers[j + 1]) \in Nat
        /\ PhdrOffset(section_headers[j + 1]) >= str_table_offset + PhdrSize
        BY <1>5
  <2> HIDE DEF n
  <2>3. \A a, b, c, d \in Nat : a + b + ShdrSize <= c + PhdrSize /\ d >= c + PhdrSize
          => a + b + ShdrSize <= d
        BY SizeTypes
  <2> QED
      BY <1>2, <2>1, <2>2, <2>3
<1>8. \A j \in 0 .. n - 1 : SegNumToOffset(n) <= PhdrOffset(section_headers[j + 1])
  <2> SUFFICES ASSUME NEW j \in 0 .. n - 1
               PROVE  SegNumToOffset(n) <= PhdrOffset(section_headers[j + 1])
      OBVIOUS
  <2>1. SegNumToOffset(n) \in Nat /\ SegNumToOffset(n) <= str_table_offset
        BY <1>2, <1>6
  <2>2. /\ PhdrOffset(section_headers[j + 1]) \in Nat
        /\ PhdrOffset(section_headers[j + 1]) >= str_table_offset + PhdrSize
        BY <1>5
  <2> QED
      BY <1>2, <2>1, <2>2, SizeTypes
<1> QED
    BY <1>2, <1>4, <1>5, <1>6, <1>7, <1>8 DEF n

(* What was written of headers and segments stays where a write is not.    *)
LEMMA PartsStay ==
  ASSUME IInv, ElfWritten, Separate, UNCHANGED <<xbe, section_headers>>,
         phase \in {"segments", "copy", "shdrs"}, NEW s \in Nat, segment_number = s,
         s <= Len(section_headers),
         NEW offset \in Nat, NEW units, Len(units) \in Nat,
         NEW amount \in Amounts(units), Put(offset, units, amount), ~ shortened'
  PROVE  /\ ~ shortened
         /\ offset >= EhdrSize => Holds(0, ElfHeader)'
         /\ \A i \in 0 .. s :
              /\ i < s \/ phase = "copy"
              /\ offset >= SegNumToOffset(i) + PhdrSize
              => Holds(SegNumToOffset(i), ProgramHeader(i))'
         /\ \A i \in 0 .. s - 1 :
              (\A x \in Extent(section_headers[i + 1]) :
                 x < offset \/ x >= offset + Len(units)) =>
              Copied(i, section_headers[i + 1].file_size)'
<1>1. ~ shortened
      BY PutFacts
<1>2. /\ Holds(0, ElfHeader)
      /\ \A i \in 0 .. s :
           i < s \/ phase = "copy" => Holds(SegNumToOffset(i), ProgramHeader(i))
      /\ \A i \in 0 .. s - 1 : Copied(i, section_headers[i + 1].file_size)
      BY <1>1 DEF ElfWritten
<1>3. offset >= EhdrSize => Holds(0, ElfHeader)'
      BY <1>2, HeaderStays
<1>4. ASSUME NEW i \in 0 .. s, i < s \/ phase = "copy",
             offset >= SegNumToOffset(i) + PhdrSize
      PROVE  Holds(SegNumToOffset(i), ProgramHeader(i))'
  <2>1. i \in Nat
        OBVIOUS
  <2>2. Holds(SegNumToOffset(i), ProgramHeader(i))
        BY <1>2, <1>4
  <2> QED
      BY <1>4, <2>1, <2>2, HeaderStays
<1>5. ASSUME NEW i \in 0 .. s - 1,
             \A x \in Extent(section_headers[i + 1]) :
               x < offset \/ x >= offset + Len(units)
      PROVE  Copied(i, section_headers[i + 1].file_size)'
  <2>1. Copied(i, section_headers[i + 1].file_size)
        BY <1>2
  <2>2. /\ PhdrOffset(section_headers[i + 1]) \in Nat
        /\ section_headers[i + 1].file_size \in Nat
    <3>1. i \in 0 .. Len(section_headers) - 1
          BY DEF IInv, TypeOK
    <3> QED
        BY <3>1, Places
  <2> DEFINE size == section_headers[i + 1].file_size
             begin == PhdrOffset(section_headers[i + 1])
  <2>3. \A k \in 0 .. size - 1 : begin + k < offset \/ begin + k >= offset + Len(units)
    <3>1. Extent(section_headers[i + 1]) = begin .. begin + size - 1
          BY DEF Extent
    <3>2. \A k \in 0 .. size - 1 : begin + k \in begin .. begin + size - 1
          BY <2>2
    <3> QED
        BY <1>5, <3>1, <3>2
  <2>4. size' = size
        OBVIOUS
  <2>5. PICK amnt \in Nat : amnt = size
        BY <2>2
  <2>6. Copied(i, amnt)'
        BY <2>1, <2>2, <2>3, <2>5, CopiedStays
  <2> QED
      BY <2>4, <2>5, <2>6 DEF Copied
<1> QED
    BY <1>1, <1>3, <1>4, <1>5

(* What is written is there.                                               *)
LEMMA PutHolds ==
  ASSUME NEW offset \in Nat, NEW part, NEW number, NEW size \in Nat,
         NEW units, units = Structure(part, number, size),
         NEW amount \in Amounts(units), Put(offset, units, amount), ~ shortened'
  PROVE  /\ Len(units) = size /\ amount = size
         /\ \A k \in DOMAIN units :
              offset + k - 1 \in DOMAIN elf' /\ elf'[offset + k - 1] = units[k]
<1>1. Len(units) = size /\ DOMAIN units = 1 .. size
      BY StructureFacts
<1>2. Len(units) \in Nat
      BY <1>1
<1> QED
    BY <1>1, <1>2, PutFacts

LEMMA ElfHeaderWritten ==
  ASSUME IInv, CountInv, WriteElfHeader
  PROVE  ElfWritten'
<1> SUFFICES ASSUME ~ shortened' PROVE ElfWritten'
    BY DEF ElfWritten
<1>1. PICK amount \in Amounts(ElfHeader) : Put(0, ElfHeader, amount)
      BY DEF WriteElfHeader
<1>2. Holds(0, ElfHeader)'
  <2>1. DOMAIN ElfHeader = 1 .. Len(ElfHeader) /\ Len(ElfHeader) \in Nat
        BY SizeTypes, StructureFacts DEF ElfHeader
  <2>2. PICK offset \in Nat : offset = 0
        OBVIOUS
  <2>3. Put(offset, ElfHeader, amount)
        BY <1>1, <2>2
  <2>4. \A k \in 1 .. Len(ElfHeader) :
          offset + k - 1 \in DOMAIN elf' /\ elf'[offset + k - 1] = ElfHeader[k]
        BY <2>1, <2>3, PutFacts
  <2> QED
      BY <2>1, <2>2, <2>4 DEF Holds
<1>3. phase' = "segments" /\ segment_number' = 0
      BY DEF WriteElfHeader, CountInv, segmentVars
<1> QED
    BY <1>2, <1>3 DEF ElfWritten

LEMMA ProgramHeaderWritten ==
  ASSUME IInv, ElfWritten, WriteProgramHeader
  PROVE  ElfWritten'
<1>1. /\ phase = "segments" /\ phase' = "copy"
      /\ segment_number < Len(section_headers)
      /\ UNCHANGED <<xbe, section_headers, nameVars, segment_number>>
      /\ amount_written' = 0 /\ elf_offset' = PhdrOffset(Segment)
      BY DEF WriteProgramHeader, InSegments
<1> SUFFICES ASSUME ~ shortened', Separate PROVE ElfWritten'
    BY <1>1, SameLayout DEF ElfWritten
<1>2. PICK s \in Nat : s = segment_number
      BY DEF IInv, TypeOK
<1> DEFINE n == Len(section_headers)
           offset == SegNumToOffset(s)
           units == ProgramHeader(s)
<1>3. PICK amount \in Amounts(units) : Put(offset, units, amount)
      BY <1>2 DEF WriteProgramHeader
<1>4. s \in 0 .. n - 1 /\ n \in Nat /\ s \in 0 .. n /\ n \in 0 .. n
      BY <1>1, <1>2 DEF IInv, TypeOK
<1>5. units = Structure("phdr", s, PhdrSize) /\ PhdrSize \in Nat
      BY SizeTypes DEF ProgramHeader
<1>6. /\ offset \in Nat /\ offset >= EhdrSize
      /\ \A i \in 0 .. s - 1 : offset >= SegNumToOffset(i) + PhdrSize
      /\ \A i \in 0 .. s - 1 : \A x \in Extent(section_headers[i + 1]) :
           x >= offset + PhdrSize
  <2>1. /\ offset \in Nat /\ EhdrSize <= offset
        /\ \A i \in 0 .. s - 1 : SegNumToOffset(i) + PhdrSize <= offset
        /\ offset + PhdrSize <= SegNumToOffset(n)
        /\ SegNumToOffset(n) \in Nat
        BY <1>1, <1>4, Places
  <2>2. \A i \in 0 .. s - 1 : SegNumToOffset(i) \in Nat
    <3>1. \A i \in 0 .. s - 1 : i \in 0 .. n
          BY <1>4
    <3> QED
        BY <1>1, <3>1, Places
  <2>3. ASSUME NEW i \in 0 .. s - 1, NEW x \in Extent(section_headers[i + 1])
        PROVE  x >= offset + PhdrSize
    <3>1. i \in 0 .. n - 1
          BY <1>4
    <3>2. /\ PhdrOffset(section_headers[i + 1]) \in Nat
          /\ section_headers[i + 1].file_size \in Nat
          /\ SegNumToOffset(n) <= PhdrOffset(section_headers[i + 1])
          BY <1>1, <3>1, Places
    <3>3. x >= PhdrOffset(section_headers[i + 1]) /\ x \in Int
          BY <3>2 DEF Extent
    <3> HIDE DEF offset, n
    <3> QED
        BY <2>1, <3>2, <3>3, SizeTypes
  <2> HIDE DEF offset, n
  <2> QED
      BY <2>1, <2>2, <2>3, SizeTypes
<1> HIDE DEF offset, units, n
<1>7. /\ Len(units) = PhdrSize
      /\ \A k \in DOMAIN units :
           offset + k - 1 \in DOMAIN elf' /\ elf'[offset + k - 1] = units[k]
      BY <1>3, <1>5, <1>6, PutHolds
<1>8. s <= Len(section_headers)
      BY <1>1, <1>2
<1>9. /\ Holds(0, ElfHeader)'
      /\ \A i \in 0 .. s : i < s => Holds(SegNumToOffset(i), ProgramHeader(i))'
      /\ \A i \in 0 .. s - 1 : Copied(i, section_headers[i + 1].file_size)'
  <2>1. Len(units) \in Nat
        BY <1>5, <1>7
  <2>2. /\ offset >= EhdrSize => Holds(0, ElfHeader)'
        /\ \A i \in 0 .. s :
              /\ i < s \/ phase = "copy"
              /\ offset >= SegNumToOffset(i) + PhdrSize
              => Holds(SegNumToOffset(i), ProgramHeader(i))'
        /\ \A i \in 0 .. s - 1 :
              (\A x \in Extent(section_headers[i + 1]) :
                 x < offset \/ x >= offset + Len(units)) =>
              Copied(i, section_headers[i + 1].file_size)'
        BY <1>1, <1>2, <1>3, <1>6, <1>8, <2>1, PartsStay
  <2>3. \A i \in 0 .. s : i < s => i \in 0 .. s - 1
        OBVIOUS
  <2> QED
      BY <1>6, <1>7, <2>2, <2>3
<1>10. Holds(SegNumToOffset(s), ProgramHeader(s))'
  <2>1. (\A k \in DOMAIN ProgramHeader(s) :
           /\ SegNumToOffset(s) + k - 1 \in DOMAIN elf'
           /\ elf'[SegNumToOffset(s) + k - 1] = ProgramHeader(s)[k])
        BY <1>7 DEF offset, units
  <2> QED
      BY <2>1 DEF Holds
<1>11. \A i \in 0 .. s : Holds(SegNumToOffset(i), ProgramHeader(i))'
  <2>1. \A i \in 0 .. s : i < s \/ i = s
        OBVIOUS
  <2> QED
      BY <1>9, <1>10, <2>1
<1>12. Copied(s, 0)'
      BY DEF Copied
<1>13. segment_number' = s /\ amount_written' = 0 /\ phase' = "copy"
       BY <1>1, <1>2
<1>14. elf_offset' = PhdrOffset(Segment)' + amount_written'
  <2>1. PhdrOffset(Segment) \in Nat
        BY <1>1, <1>2, <1>4, Places DEF Segment, n
  <2>2. PhdrOffset(Segment)' = PhdrOffset(Segment)
        BY <1>1 DEF Segment, PhdrOffset
  <2> QED
      BY <1>1, <2>1, <2>2
<1> QED
    BY <1>9, <1>11, <1>12, <1>13, <1>14 DEF ElfWritten

(* The next buffer goes on where the last one ended.                       *)
LEMMA BufferCopied ==
  ASSUME IInv, phase = "copy", UNCHANGED <<xbe, section_headers>>,
         NEW s \in Nat, s = segment_number, NEW w \in Nat, w = amount_written,
         Copied(s, w), elf_offset = PhdrOffset(Segment) + w,
         NEW size \in Nat, size = w + Len(Buffer),
         NEW amount \in Amounts(Buffer), Put(elf_offset, Buffer, amount), ~ shortened'
  PROVE  Copied(s, size)'
<1> DEFINE h == section_headers[s + 1]
           begin == PhdrOffset(h)
<1>1. /\ Segment = h /\ h.file_size \in Nat /\ h.file_offset \in Nat
      /\ begin \in Nat /\ Len(Buffer) \in Nat
      /\ \A k \in 1 .. Len(Buffer) :
           h.file_offset + w + k - 1 < xbe.size =>
             Buffer[k] = XbeUnit(h.file_offset + w + k - 1)
      BY BufferFacts
<1>2. elf_offset = begin + w /\ elf_offset \in Nat
      BY <1>1
<1>3. \A k \in 1 .. Len(Buffer) :
        elf_offset + k - 1 \in DOMAIN elf' /\ elf'[elf_offset + k - 1] = Buffer[k]
      BY <1>1, <1>2, PutFacts
<1>4. Copied(s, w)'
  <2>1. \A k \in 0 .. w - 1 :
          begin + k < elf_offset \/ begin + k >= elf_offset + Len(Buffer)
        BY <1>1, <1>2
  <2> QED
      BY <1>1, <1>2, <2>1, CopiedStays
<1>5. h' = h /\ begin' = begin
      BY DEF PhdrOffset
<1>6. \A k \in 0 .. w - 1 : h.file_offset + k < xbe.size =>
        Holds(begin + k, <<XbeUnit(h.file_offset + k)>>)'
      BY <1>4 DEF Copied
<1>7. ASSUME NEW k \in w .. size - 1, h.file_offset + k < xbe.size
      PROVE  Holds(begin + k, <<XbeUnit(h.file_offset + k)>>)'
  <2> DEFINE j == k - w + 1
             a == begin + k
             unit == <<XbeUnit(h.file_offset + k)>>
  <2>1. /\ j \in 1 .. Len(Buffer) /\ elf_offset + j - 1 = a
        /\ h.file_offset + w + j - 1 = h.file_offset + k
        BY <1>1, <1>2
  <2>2. a \in DOMAIN elf' /\ elf'[a] = XbeUnit(h.file_offset + k)
        BY <1>1, <1>3, <1>7, <2>1
  <2>3. \A i \in DOMAIN unit : i = 1 /\ unit[i] = XbeUnit(h.file_offset + k)
        OBVIOUS
  <2>4. a + 1 - 1 = a
        BY <1>1
  <2>5. a' = a /\ unit' = unit
        BY <1>5
  <2> HIDE DEF a, unit, j
  <2>6. \A i \in DOMAIN unit : a + i - 1 \in DOMAIN elf' /\ elf'[a + i - 1] = unit[i]
        BY <2>2, <2>3, <2>4
  <2>7. Holds(a, unit)'
        BY <2>5, <2>6 DEF Holds
  <2> QED
      BY <2>7 DEF a, unit
<1>8. \A k \in 0 .. size - 1 : k \in 0 .. w - 1 \/ k \in w .. size - 1
      OBVIOUS
<1> HIDE DEF begin
<1>9. \A k \in 0 .. size - 1 : h.file_offset + k < xbe.size =>
        Holds(begin + k, <<XbeUnit(h.file_offset + k)>>)'
      BY <1>6, <1>7, <1>8
<1> QED
    BY <1>9 DEF Copied, begin

LEMMA BufferWritten ==
  ASSUME IInv, CountInv, ElfWritten, CopyBuffer
  PROVE  ElfWritten'
<1>1. /\ phase = "copy" /\ phase' \in {"copy", "segments"}
      /\ UNCHANGED <<xbe, section_headers, nameVars>>
      BY DEF CopyBuffer
<1> SUFFICES ASSUME ~ shortened', Separate PROVE ElfWritten'
    BY <1>1, SameLayout DEF ElfWritten
<1>2. PICK s \in Nat : s = segment_number
      BY DEF IInv, TypeOK
<1>3. PICK w \in Nat : w = amount_written
      BY DEF IInv, TypeOK
<1> DEFINE n == Len(section_headers)
<1>4. PICK amount \in Amounts(Buffer) :
        Put(elf_offset, Buffer, amount) /\ elf_offset' = elf_offset + amount
      BY DEF CopyBuffer
<1>5. /\ Segment = section_headers[s + 1] /\ s \in 0 .. n - 1
      /\ Segment.file_size \in Nat /\ Segment.file_offset \in Nat
      /\ PhdrOffset(Segment) \in Nat
      /\ Len(Buffer) \in Nat /\ w + Len(Buffer) <= Segment.file_size
      /\ MoreBuffers => Len(Buffer) = buffer_size
      /\ ~ MoreBuffers => w + Len(Buffer) = Segment.file_size
      BY <1>1, <1>2, <1>3, BufferFacts
<1>6. elf_offset \in Nat /\ n \in Nat
      BY DEF IInv, TypeOK, ElfTypeOK
<1>7. ~ shortened /\ amount = Len(Buffer)
      BY <1>4, <1>5, <1>6, PutFacts
<1>8. elf_offset = PhdrOffset(Segment) + w /\ Copied(s, w)
      /\ Holds(SegNumToOffset(s), ProgramHeader(s))
  <2>1. s \in 0 .. segment_number /\ phase = "copy"
        BY <1>1, <1>2
  <2> QED
      BY <1>1, <1>2, <1>3, <1>7, <2>1 DEF ElfWritten
<1>9. PICK size \in Nat : size = w + Len(Buffer)
      BY <1>5
<1>10. Copied(s, size)'
       BY <1>1, <1>2, <1>3, <1>4, <1>8, <1>9, BufferCopied
<1>11. /\ elf_offset >= EhdrSize
       /\ \A i \in 0 .. s : elf_offset >= SegNumToOffset(i) + PhdrSize
       /\ \A i \in 0 .. s - 1 : \A x \in Extent(section_headers[i + 1]) :
            x < elf_offset \/ x >= elf_offset + Len(Buffer)
  <2>1. /\ n \in 0 .. n /\ SegNumToOffset(n) \in Nat /\ EhdrSize <= SegNumToOffset(n)
        /\ \A i \in 0 .. n - 1 : SegNumToOffset(i) + PhdrSize <= SegNumToOffset(n)
        /\ \A i \in 0 .. n - 1 : SegNumToOffset(i) \in Nat
        /\ SegNumToOffset(n) <= PhdrOffset(Segment)
        /\ \A i \in (0 .. n - 1) \ {s} :
             Extent(Segment) \cap Extent(section_headers[i + 1]) = {}
    <3>1. \A i \in 0 .. n - 1 : i \in 0 .. n
          BY <1>6
    <3> QED
        BY <1>1, <1>5, <3>1, Places
  <2>2. ASSUME NEW i \in 0 .. s - 1, NEW x \in Extent(section_headers[i + 1])
        PROVE  x < elf_offset \/ x >= elf_offset + Len(Buffer)
    <3>1. i \in (0 .. n - 1) \ {s} /\ i \in 0 .. n - 1
          BY <1>5
    <3>2. x \notin Extent(Segment)
          BY <2>1, <3>1
    <3>3. PhdrOffset(section_headers[i + 1]) \in Nat
          /\ section_headers[i + 1].file_size \in Nat
          BY <1>1, <3>1, Places
    <3>4. x \in Int
          BY <3>3 DEF Extent
    <3>5. Extent(Segment) = PhdrOffset(Segment) .. PhdrOffset(Segment) + Segment.file_size - 1
          BY DEF Extent
    <3> HIDE DEF n
    <3> QED
        BY <1>5, <1>8, <3>2, <3>4, <3>5
  <2>3. elf_offset >= SegNumToOffset(n)
        BY <1>5, <1>8, <2>1
  <2>4. \A i \in 0 .. s : i \in 0 .. n - 1
        BY <1>5
  <2> HIDE DEF n
  <2>5. \A i \in 0 .. s : elf_offset >= SegNumToOffset(i) + PhdrSize
        BY <1>6, <2>1, <2>3, <2>4, SizeTypes
  <2>6. elf_offset >= EhdrSize
        BY <1>6, <2>1, <2>3, SizeTypes
  <2> QED
      BY <2>2, <2>5, <2>6
<1>12. s <= Len(section_headers)
       BY <1>5
<1>13. /\ Holds(0, ElfHeader)'
       /\ \A i \in 0 .. s : Holds(SegNumToOffset(i), ProgramHeader(i))'
       /\ \A i \in 0 .. s - 1 : Copied(i, section_headers[i + 1].file_size)'
  <2> HIDE DEF n
  <2> QED
      BY <1>1, <1>2, <1>4, <1>5, <1>6, <1>11, <1>12, PartsStay
<1>14. CASE MoreBuffers
  <2>1. /\ phase' = "copy" /\ segment_number' = s /\ amount_written' = size
        BY <1>2, <1>3, <1>5, <1>9, <1>14 DEF CopyBuffer
  <2>2. PhdrOffset(Segment)' = PhdrOffset(Segment)
        BY <1>1, <1>2, <2>1 DEF Segment, PhdrOffset
  <2>3. elf_offset' = PhdrOffset(Segment)' + amount_written'
    <3>1. elf_offset' = (PhdrOffset(Segment) + w) + Len(Buffer)
          BY <1>4, <1>7, <1>8
    <3>2. PhdrOffset(Segment)' = PhdrOffset(Segment) /\ amount_written' = w + Len(Buffer)
          BY <1>9, <2>1, <2>2
    <3>3. \A a \in Nat : (a + w) + Len(Buffer) = a + (w + Len(Buffer))
          BY <1>5
    <3> QED
        BY <1>5, <3>1, <3>2, <3>3
  <2> QED
      BY <1>10, <1>13, <2>1, <2>3 DEF ElfWritten
<1>15. CASE ~ MoreBuffers
  <2>1. /\ phase' = "segments" /\ segment_number' = s + 1
        BY <1>2, <1>15 DEF CopyBuffer
  <2>2. Copied(s, section_headers[s + 1].file_size)'
    <3>1. size = section_headers[s + 1].file_size
          BY <1>5, <1>9, <1>15
    <3>2. size = section_headers'[s + 1].file_size
          BY <1>1, <3>1
    <3> QED
        BY <1>10, <3>2 DEF Copied
  <2>3. /\ \A i \in 0 .. s + 1 : i < s + 1 => i \in 0 .. s
        /\ \A i \in 0 .. (s + 1) - 1 : i \in 0 .. s - 1 \/ i = s
        OBVIOUS
  <2>4. \A i \in 0 .. (s + 1) - 1 : Copied(i, section_headers[i + 1].file_size)'
        BY <1>13, <2>2, <2>3
  <2> QED
      BY <1>13, <2>1, <2>3, <2>4 DEF ElfWritten
<1> QED
    BY <1>14, <1>15

(* The section headers go in front of the first segment.                   *)
LEMMA SectionHeadersWritten ==
  ASSUME IInv, CountInv, ElfWritten, WriteNullSectionHeader \/ WriteSectionHeader
  PROVE  ElfWritten'
<1> DEFINE n == Len(section_headers)
<1>1. /\ phase \in {"segments", "shdrs"} /\ phase' \in {"shdrs", "thrown"}
      /\ segment_number = n
      /\ UNCHANGED <<xbe, section_headers, nameVars, segmentVars>>
      BY DEF WriteNullSectionHeader, WriteSectionHeader, CountInv
<1>2. n \in Nat /\ n \in 0 .. n /\ next \in Nat \ {0} /\ elf_offset \in Nat
      BY DEF IInv, TypeOK, ElfTypeOK
<1> SUFFICES ASSUME ~ shortened', Separate PROVE ElfWritten'
    BY <1>1, SameLayout DEF ElfWritten
<1>3. /\ \A i \in 0 .. n :
           /\ SegNumToOffset(i) \in Nat /\ EhdrSize <= SegNumToOffset(i)
           /\ \A j \in 0 .. i - 1 : SegNumToOffset(j) + PhdrSize <= SegNumToOffset(i)
      /\ \A i \in 0 .. n :
           /\ ShdrSize * i \in Nat /\ ShdrSize * (i + 1) = ShdrSize * i + ShdrSize
           /\ \A j \in 0 .. n - 1 :
                SegNumToOffset(n) + ShdrSize * i + ShdrSize
                  <= PhdrOffset(section_headers[j + 1])
      /\ \A j \in 0 .. n - 1 :
           PhdrOffset(section_headers[j + 1]) \in Nat
             /\ section_headers[j + 1].file_size \in Nat
      BY <1>1, Places
<1>4. ASSUME NEW r \in 0 .. n, NEW part, NEW number,
             NEW amount \in Amounts(Structure(part, number, ShdrSize)),
             Put(SegNumToOffset(n) + ShdrSize * r, Structure(part, number, ShdrSize), amount),
             elf_offset' = SegNumToOffset(n) + ShdrSize * r + amount,
             phase' = "shdrs", next' = r + 1
      PROVE  ElfWritten'
  <2> DEFINE offset == SegNumToOffset(n) + ShdrSize * r
             units == Structure(part, number, ShdrSize)
  <2>1. offset \in Nat /\ SegNumToOffset(n) \in Nat /\ ShdrSize * r \in Nat
        BY <1>2, <1>3
  <2>2. Len(units) = ShdrSize /\ amount = ShdrSize /\ Len(units) \in Nat
        BY <1>4, <2>1, SizeTypes, PutHolds
  <2>3. offset >= EhdrSize /\ \A i \in 0 .. n - 1 : offset >= SegNumToOffset(i) + PhdrSize
    <3>1. /\ EhdrSize <= SegNumToOffset(n)
          /\ \A i \in 0 .. n - 1 : SegNumToOffset(i) + PhdrSize <= SegNumToOffset(n)
          /\ \A i \in 0 .. n - 1 : SegNumToOffset(i) \in Nat
      <4>1. \A i \in 0 .. n - 1 : i \in 0 .. n
            BY <1>2
      <4> QED
          BY <1>2, <1>3, <4>1
    <3>2. offset >= SegNumToOffset(n)
          BY <2>1
    <3> HIDE DEF offset, n
    <3> QED
        BY <2>1, <3>1, <3>2, SizeTypes
  <2>4. ASSUME NEW i \in 0 .. n - 1, NEW x \in Extent(section_headers[i + 1])
        PROVE  x >= offset + ShdrSize
    <3>1. /\ offset + ShdrSize <= PhdrOffset(section_headers[i + 1])
          /\ PhdrOffset(section_headers[i + 1]) \in Nat
          /\ section_headers[i + 1].file_size \in Nat
          BY <1>3, <1>4
    <3>2. x >= PhdrOffset(section_headers[i + 1]) /\ x \in Int
          BY <3>1 DEF Extent
    <3> HIDE DEF offset, n
    <3> QED
        BY <2>1, <3>1, <3>2, SizeTypes
  <2>5. Put(offset, units, amount) /\ amount \in Amounts(units)
        BY <1>4
  <2>6. PICK s \in Nat : s = segment_number
        BY <1>1, <1>2
  <2>7. s = n /\ s <= Len(section_headers)
        BY <1>1, <1>2, <2>6
  <2> HIDE DEF offset, units, n
  <2>8. /\ Holds(0, ElfHeader)'
        /\ \A i \in 0 .. s :
              /\ i < s \/ phase = "copy"
              /\ offset >= SegNumToOffset(i) + PhdrSize
              => Holds(SegNumToOffset(i), ProgramHeader(i))'
        /\ \A i \in 0 .. s - 1 :
              (\A x \in Extent(section_headers[i + 1]) :
                 x < offset \/ x >= offset + Len(units)) =>
              Copied(i, section_headers[i + 1].file_size)'
        BY <1>1, <2>1, <2>2, <2>3, <2>5, <2>6, <2>7, PartsStay
  <2>9. \A i \in 0 .. s : i < s => i \in 0 .. n - 1
        BY <2>7
  <2>10. /\ \A i \in 0 .. s : i < s => Holds(SegNumToOffset(i), ProgramHeader(i))'
         /\ \A i \in 0 .. s - 1 : Copied(i, section_headers[i + 1].file_size)'
         BY <2>2, <2>3, <2>4, <2>7, <2>8, <2>9
  <2>11. segment_number' = s /\ phase' = "shdrs"
         BY <1>1, <1>4, <2>6 DEF segmentVars
  <2>12. (elf_offset = SegNumToOffset(Len(section_headers)) + ShdrSize * next)'
    <3>1. ShdrSize * (r + 1) = ShdrSize * r + ShdrSize
          BY <1>3
    <3>2. SegNumToOffset(Len(section_headers))' = SegNumToOffset(n)
          BY <1>1 DEF SegNumToOffset, n
    <3>3. elf_offset' = SegNumToOffset(n) + ShdrSize * r + ShdrSize
          BY <1>4, <2>2
    <3>4. \A a, b \in Nat : a + b + ShdrSize = a + (b + ShdrSize)
          BY SizeTypes
    <3> QED
        BY <1>4, <2>1, <3>1, <3>2, <3>3, <3>4
  <2> QED
      BY <2>8, <2>10, <2>11, <2>12 DEF ElfWritten
<1>5. CASE WriteNullSectionHeader
  <2>1. PICK amount \in Amounts(NullSectionHeader) :
          /\ Put(SegNumToOffset(n), NullSectionHeader, amount)
          /\ elf_offset' = SegNumToOffset(n) + amount
        BY <1>1, <1>5 DEF WriteNullSectionHeader
  <2>2. NullSectionHeader = Structure("null", 0, ShdrSize)
        BY DEF NullSectionHeader
  <2>3. SegNumToOffset(n) + ShdrSize * 0 = SegNumToOffset(n) /\ 0 \in 0 .. n
        BY <1>2, <1>3, SizeTypes
  <2>4. phase' = "shdrs" /\ next' = 0 + 1
        BY <1>5 DEF WriteNullSectionHeader
  <2> HIDE DEF n
  <2> QED
      BY <1>4, <2>1, <2>2, <2>3, <2>4
<1>6. CASE WriteSectionHeader /\ HasIndex(section_headers[next])
  <2>1. /\ phase = "shdrs" /\ phase' = "shdrs" /\ next <= n /\ next' = next + 1
        BY <1>6 DEF WriteSectionHeader
  <2>2. PICK amount \in Amounts(SectionHeader(next)) :
          /\ Put(elf_offset, SectionHeader(next), amount)
          /\ elf_offset' = elf_offset + amount
        BY <1>6 DEF WriteSectionHeader
  <2>3. SectionHeader(next) = Structure("shdr", next, ShdrSize)
        BY DEF SectionHeader
  <2>4. ~ shortened
    <3>1. Len(SectionHeader(next)) \in Nat
          BY <2>3, SizeTypes, StructureFacts
    <3> QED
        BY <1>2, <2>2, <3>1, PutFacts
  <2>5. elf_offset = SegNumToOffset(n) + ShdrSize * next
        BY <2>1, <2>4 DEF ElfWritten
  <2>6. PICK r \in 0 .. n : r = next
        BY <1>2, <2>1
  <2> HIDE DEF n
  <2> QED
      BY <1>4, <2>1, <2>2, <2>3, <2>5, <2>6
<1>7. CASE WriteSectionHeader /\ ~ HasIndex(section_headers[next])
  <2>1. /\ phase = "shdrs" /\ phase' = "thrown"
        /\ UNCHANGED <<elf, shortened, segment_number>>
        BY <1>7 DEF WriteSectionHeader, elfVars, segmentVars
  <2>2. /\ Holds(0, ElfHeader)
        /\ \A i \in 0 .. segment_number :
             i < segment_number => Holds(SegNumToOffset(i), ProgramHeader(i))
        /\ \A i \in 0 .. segment_number - 1 :
             Copied(i, section_headers[i + 1].file_size)
        BY <2>1 DEF ElfWritten
  <2> QED
      BY <1>1, <2>1, <2>2 DEF ElfWritten, Holds, Copied
<1> QED
    BY <1>5, <1>6, <1>7

LEMMA ElfStep ==
  ASSUME IInv, CountInv, ElfWritten, [Next]_vars
  PROVE  ElfWritten'
<1>1. CASE WriteElfHeader
      BY <1>1, ElfHeaderWritten
<1>2. CASE WriteProgramHeader
      BY <1>2, ProgramHeaderWritten
<1>3. CASE CopyBuffer
      BY <1>3, BufferWritten
<1>4. CASE WriteNullSectionHeader \/ WriteSectionHeader
      BY <1>4, SectionHeadersWritten
<1>5. ASSUME UNCHANGED <<xbe, section_headers, nameVars, segmentVars, elfVars>>,
             \/ phase = "shdrs" /\ phase' = "done"
             \/ UNCHANGED <<phase, next>>
      PROVE  ElfWritten'
  <2> SUFFICES ASSUME ~ shortened', Separate,
                      phase \in {"segments", "copy", "shdrs", "done", "thrown"}
               PROVE  ElfWritten'
      BY <1>5, SameLayout DEF ElfWritten
  <2>1. UNCHANGED <<elf, elf_offset, shortened, segment_number, amount_written>>
        BY <1>5 DEF elfVars, segmentVars
  <2>2. /\ Holds(0, ElfHeader)
        /\ \A i \in 0 .. segment_number :
             i < segment_number \/ phase = "copy" =>
               Holds(SegNumToOffset(i), ProgramHeader(i))
        /\ \A i \in 0 .. segment_number - 1 :
             Copied(i, section_headers[i + 1].file_size)
        /\ phase = "copy" =>
             /\ elf_offset = PhdrOffset(Segment) + amount_written
             /\ Copied(segment_number, amount_written)
        /\ phase = "shdrs" =>
             elf_offset = SegNumToOffset(Len(section_headers)) + ShdrSize * next
        BY <2>1 DEF ElfWritten
  <2> QED
      BY <1>5, <2>1, <2>2 DEF ElfWritten, Holds, Copied, Segment
<1>6. CASE SectionHeadersEnd
      BY <1>5, <1>6 DEF SectionHeadersEnd
<1>7. CASE UNCHANGED vars
      BY <1>5, <1>7 DEF vars
<1>8. Next /\ ~ (\/ WriteElfHeader \/ WriteProgramHeader \/ CopyBuffer
                 \/ WriteNullSectionHeader \/ WriteSectionHeader \/ SectionHeadersEnd)
        => phase' \notin {"segments", "copy", "shdrs", "done", "thrown"}
      BY DEF Next, Step, ReadHeaders, ReadName, NamesEnd, WriteName, WriteStrTableHeader,
         ReadNameHangs, HostFails
<1>9. CASE phase' \notin {"segments", "copy", "shdrs", "done", "thrown"}
      BY <1>9 DEF ElfWritten
<1> QED
    BY <1>1, <1>2, <1>3, <1>4, <1>6, <1>7, <1>8, <1>9

LEMMA InitWInv == Init => WInv
<1> SUFFICES ASSUME Init PROVE WInv
    OBVIOUS
<1>1. /\ phase = "headers" /\ str_table_size = 0 /\ segment_number = 0
      /\ DOMAIN mem_addr_to_index = {}
      BY DEF Init
<1> QED
    BY <1>1, InitInv DEF WInv, CountInv, NamesWritten, NameInv, ElfWritten

LEMMA NextWInv == WInv /\ [Next]_vars => WInv'
BY NextInv, CountStep, NamesStep, NameStep, ElfStep DEF WInv
(* A number that fits is not changed by the conversion to uint16_t.        *)
LEMMA ModSmall ==
  ASSUME NEW a \in Nat, NEW n \in Nat \ {0}, a < n
  PROVE  a % n = a
OBVIOUS

(* Where the kernel looks for a header is where it was written.            *)
LEMMA LoadableFollows == WInv => Loadable
<1> SUFFICES ASSUME WInv, phase \in {"shdrs", "done", "thrown"}, ~ shortened, Separate
             PROVE  /\ Holds(0, ElfHeader)
                    /\ \A i \in 0 .. xbe.section_header_num :
                         LET h == IF i = 0 THEN ImageHeader ELSE xbe.table[i] IN
                         /\ Countable => i < Ehdr.e_phnum
                         /\ Holds(Ehdr.e_phoff + PhdrSize * i, ProgramHeader(i))
                         /\ \A k \in 0 .. h.file_size - 1 :
                              h.file_offset + k < xbe.size =>
                                Holds(PhdrOffset(h) + k, <<XbeUnit(h.file_offset + k)>>)
    BY DEF Loadable
<1>1. /\ section_headers = <<ImageHeader>> \o xbe.table
      /\ segment_number = Len(section_headers)
      BY DEF WInv, IInv, HeadersInv, CountInv
<1>2. /\ xbe.section_header_num \in Nat /\ xbe.table \in Seq(Header)
      /\ Len(xbe.table) = xbe.section_header_num + 1
      BY XbeTypes DEF WInv, IInv, TypeOK
<1>3. segment_number = xbe.section_header_num + 2
      BY <1>1, <1>2
<1>4. /\ Holds(0, ElfHeader)
      /\ \A i \in 0 .. segment_number :
           i < segment_number => Holds(SegNumToOffset(i), ProgramHeader(i))
      /\ \A i \in 0 .. segment_number - 1 :
           Copied(i, section_headers[i + 1].file_size)
      BY DEF WInv, ElfWritten
<1>5. ASSUME NEW i \in 0 .. xbe.section_header_num,
             NEW h, h = IF i = 0 THEN ImageHeader ELSE xbe.table[i]
      PROVE  /\ Countable => i < Ehdr.e_phnum
             /\ Holds(Ehdr.e_phoff + PhdrSize * i, ProgramHeader(i))
             /\ \A k \in 0 .. h.file_size - 1 :
                  h.file_offset + k < xbe.size =>
                    Holds(PhdrOffset(h) + k, <<XbeUnit(h.file_offset + k)>>)
  <2>1. /\ Countable => i < Ehdr.e_phnum
        /\ Ehdr.e_phoff = EhdrSize
    <3>1. section_header_num \in Nat /\ i < section_header_num
      BY <1>2 DEF section_header_num
    <3>2. Countable => section_header_num % HalfModulus = section_header_num
      BY <3>1, ModSmall, SizesAssumption DEF Countable
    <3> QED
      BY <3>1, <3>2 DEF Ehdr
  <2>2. i \in 0 .. segment_number /\ i < segment_number /\ i \in 0 .. segment_number - 1
        BY <1>2, <1>3
  <2>3. section_headers[i + 1] = h
    <3>1. CASE i = 0
          BY <1>1, <1>2, <1>5, <3>1
    <3>2. CASE i # 0
      <4>1. i \in 1 .. Len(xbe.table)
            BY <1>2, <3>2
      <4> QED
          BY <1>1, <1>2, <1>5, <3>2, <4>1
    <3> QED
        BY <3>1, <3>2
  <2>4. Holds(Ehdr.e_phoff + PhdrSize * i, ProgramHeader(i))
        BY <1>4, <2>1, <2>2 DEF SegNumToOffset
  <2>5. Copied(i, h.file_size)
        BY <1>4, <2>2, <2>3
  <2> QED
      BY <2>1, <2>3, <2>4, <2>5 DEF Copied
<1> QED
    BY <1>4, <1>5

LEMMA NamesIndexedFollows == WInv => NamesIndexed
<1> SUFFICES ASSUME WInv, phase \in {"ehdr", "segments", "copy"}, ~ shortened, Separate,
                    NEW i \in 2 .. Len(section_headers)
             PROVE  LET a == section_headers[i].sect_name_mem_addr
                        o == NameOffset(section_headers[i])
                    IN /\ HasIndex(section_headers[i])
                       /\ Holds(str_table_offset + mem_addr_to_index[a],
                                Append(Structure("name", o, shdr_str_table[o]), NullChar))
    BY DEF NamesIndexed
<1> DEFINE h == section_headers[i]
           o == NameOffset(h)
<1>1. xbe \in Xbes /\ h \in Header
      BY HeaderAt DEF WInv, IInv, TypeOK
<1>2. MemAddr(o) = h.sect_name_mem_addr
      BY <1>1, NameOffsetType
<1>3. o \in DOMAIN shdr_str_table
      BY DEF WInv, IInv, NamesInv, NamesRead
<1>4. MemAddr(o) \in DOMAIN mem_addr_to_index
      BY <1>3 DEF WInv, IInv, IndexInv, Unindexed
<1> HIDE DEF o, h
<1>5. Holds(str_table_offset + mem_addr_to_index[MemAddr(o)],
            Append(Structure("name", o, shdr_str_table[o]), NullChar))
      BY <1>3, <1>4 DEF WInv, NamesWritten
<1> QED
    BY <1>2, <1>4, <1>5 DEF HasIndex, o, h
-----------------------------------------------------------------------------
(* Types, headers, names, indices and what is written always fit together, *)
(* for any XBE (elf.cc:279-351).                                           *)
THEOREM InductiveInvariant == Spec => []WInv
<1> QED
    BY InitWInv, NextWInv, PTL DEF Spec

(* The variables of XbeToElf keep their types: no write is ever placed     *)
(* before the file's beginning (elf.cc:79, :95-102).                       *)
THEOREM TypeCorrect == Spec => []TypeOK
<1>1. WInv => TypeOK
      BY DEF WInv, IInv
<1> QED
    BY <1>1, InductiveInvariant, PTL

(* The exception of at() is thrown only for the header put in front, in an *)
(* XBE without a section named where it says (elf.cc:162).                 *)
THEOREM ThrowsOnlyForInserted == Spec => []ThrowHasCause
<1>1. WInv => ThrowHasCause
      BY DEF WInv, IInv
<1> QED
    BY <1>1, InductiveInvariant, PTL

(* The headers for the XBE's own headers and for each section are at the   *)
(* offsets the ELF header says, and what the XBE has of their segments at  *)
(* the offsets these headers say, however the segments are cut into        *)
(* buffers: the tables and the segments are never written over each other  *)
(* (elf.cc:286-349, :104-129).  They are counted as long as a uint16_t     *)
(* holds their number (elf.cc:32), up to 65534 sections; beyond that       *)
(* nothing is said of the count.                                           *)
THEOREM KernelFindsAll == Spec => []Loadable
<1> QED
    BY InductiveInvariant, LoadableFollows, PTL

(* The index of a section's name is where the name begins and ends in the  *)
(* string table, for names in any order, that wrap and that are shared     *)
(* (elf.cc:235-271), and nothing is written over it until the section      *)
(* headers are.                                                            *)
THEOREM NamesAreFound == Spec => []NamesIndexed
<1> QED
    BY InductiveInvariant, NamesIndexedFollows, PTL

-----------------------------------------------------------------------------
(* How the conversion comes to an end.                                     *)

(* A name that gets an index has none before.                              *)
LEMMA WriteNameAdvances == IInv /\ WriteName => NextName
<1> SUFFICES ASSUME IInv, WriteName PROVE NextName
  OBVIOUS
<1>1. PICK o \in Unindexed :
        IF next < 3
        THEN next' = next + 1 /\ UNCHANGED <<mem_addr_to_index, str_table_size>>
        ELSE /\ next' = 1
             /\ mem_addr_to_index' = With(mem_addr_to_index, MemAddr(o), Index)
  BY DEF WriteName
<1>2. /\ phase = "strtab" /\ next \in 1 .. 3
      /\ shdr_str_table' = shdr_str_table /\ xbe' = xbe
  BY DEF WriteName, IInv, NamesInv
<1>3. CASE next < 3
  <2>1. Unindexed' = Unindexed
    BY <1>1, <1>2, <1>3 DEF Unindexed, MemAddr
  <2> QED
    BY <1>1, <1>2, <1>3, <2>1 DEF NextName, NextPart
<1>4. CASE ~ next < 3
  <2>1. DOMAIN mem_addr_to_index' = DOMAIN mem_addr_to_index \cup {MemAddr(o)}
    BY <1>1, <1>4 DEF With
  <2>2. Unindexed' = {p \in Unindexed : MemAddr(p) # MemAddr(o)}
    BY <1>2, <2>1 DEF Unindexed, MemAddr
  <2>3. FewerNames
    BY <2>2 DEF FewerNames
  <2> QED
    BY <1>2, <2>3 DEF NextName
<1> QED
  BY <1>3, <1>4

(* Another buffer of the segment, or the next segment.                     *)
LEMMA CopyBufferAdvances == IInv /\ CopyBuffer => NextBuffer \/ NextSegment
<1> SUFFICES ASSUME IInv, CopyBuffer PROVE NextBuffer \/ NextSegment
  OBVIOUS
<1>1. /\ phase = "copy" /\ segment_number < Len(section_headers)
      /\ segment_number \in Nat /\ amount_written \in Nat
      /\ section_headers \in Seq(Header)
  BY DEF CopyBuffer, IInv, SegmentInv, TypeOK
<1>2. CASE MoreBuffers
  <2>1. /\ phase' = "copy" /\ segment_number' = segment_number
        /\ amount_written' = amount_written + buffer_size
    BY <1>1, <1>2 DEF CopyBuffer
  <2>2. Segment.file_size \in Nat /\ buffer_size \in Nat \ {0}
    BY <1>1, SegmentType, SizesAssumption DEF IInv
  <2>3. amount_written + buffer_size < Segment.file_size
    BY <1>2 DEF MoreBuffers
  <2> QED
    BY <1>1, <2>1, <2>2, <2>3 DEF NextBuffer
<1>3. CASE ~ MoreBuffers
  <2>1. phase' = "segments" /\ segment_number' = segment_number + 1
    BY <1>3 DEF CopyBuffer
  <2> QED
    BY <1>1, <2>1 DEF NextSegment
<1> QED
  BY <1>2, <1>3

(* The rounds of the other loops, and the steps between the loops.         *)
LEMMA StepAdvances ==
  IInv /\ [Next]_vars =>
    [\/ PhaseNumber[phase] < PhaseNumber[phase']
     \/ /\ PhaseNumber[phase] = PhaseNumber[phase']
        /\ section_headers' = section_headers
        /\ NextHeader \/ NextName \/ BeginsSegment \/ NextBuffer \/ NextSegment
     \/ StaysInName]_vars
<1> DEFINE Later == PhaseNumber[phase] < PhaseNumber[phase']
           Here == /\ PhaseNumber[phase] = PhaseNumber[phase']
                   /\ section_headers' = section_headers
<1> SUFFICES ASSUME IInv, Next
             PROVE  \/ Later
                    \/ /\ Here
                       /\ \/ NextHeader \/ NextName \/ BeginsSegment
                          \/ NextBuffer \/ NextSegment
                    \/ StaysInName
  OBVIOUS
<1>1. /\ section_headers \in Seq(Header) /\ next \in Nat
      /\ phase \in {"headers", "names", "hangs", "strtab", "ehdr", "segments",
                    "copy", "shdrs"} \cup Ended
  BY DEF IInv, TypeOK
<1>2. CASE ReadHeaders \/ NamesEnd \/ WriteStrTableHeader \/ WriteElfHeader
             \/ WriteNullSectionHeader \/ SectionHeadersEnd
  BY <1>2 DEF ReadHeaders, NamesEnd, WriteStrTableHeader, WriteElfHeader,
              WriteNullSectionHeader, SectionHeadersEnd, PhaseNumber
<1>3. CASE ReadName
  BY <1>1, <1>3 DEF ReadName, NextHeader, PhaseNumber
<1>4. CASE WriteName
  <2>1. Here
    BY <1>4 DEF WriteName
  <2> QED
    BY <1>4, <2>1, WriteNameAdvances
<1>5. CASE WriteProgramHeader
  BY <1>5 DEF WriteProgramHeader, InSegments, BeginsSegment, PhaseNumber
<1>6. CASE CopyBuffer
  <2>1. Here
    BY <1>6, CopyBufferAdvances DEF CopyBuffer, NextBuffer, NextSegment, PhaseNumber
  <2> QED
    BY <1>6, <2>1, CopyBufferAdvances
<1>7. CASE WriteSectionHeader
  <2>1. CASE phase' = "thrown"
    BY <1>7, <2>1 DEF WriteSectionHeader, PhaseNumber
  <2>2. CASE phase' = phase /\ next' = next + 1
    BY <1>1, <1>7, <2>2 DEF WriteSectionHeader, NextHeader
  <2> QED
    BY <1>7, <2>1, <2>2 DEF WriteSectionHeader
<1>8. CASE ReadNameHangs
  BY <1>8 DEF ReadNameHangs, StaysInName
<1>9. CASE HostFails
  BY <1>1, <1>9 DEF HostFails, PhaseNumber, Ended
<1> QED
  BY <1>2, <1>3, <1>4, <1>5, <1>6, <1>7, <1>8, <1>9 DEF Next, Step

(* MakeElfFromXbe does not go round for ever in its own loops, whatever    *)
(* the headers say; only a name without an end can keep it (see            *)
(* ReadNameHangs).                                                         *)
THEOREM AlwaysAdvances == Spec => ConvertAdvances
<1>1. WInv => IInv
  BY DEF WInv
<1>2. QED
  BY <1>1, InductiveInvariant, StepAdvances, PTL DEF Spec, ConvertAdvances
===============================================================================
