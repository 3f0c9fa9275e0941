------------------------------- MODULE XbeToElf -------------------------------
(***************************************************************************)
(* elf.cc: MakeElfFromXbe writes an XBE again as an ELF file.  The file    *)
(* gets the ELF header, the program headers, the section headers and the   *)
(* table of section names, at offsets computed from the number of          *)
(* sections, and the segments, at offsets computed from where they are in  *)
(* the XBE and in memory.                                                  *)
(*                                                                         *)
(* A unit of a file is a triple: what it is part of, the number of that    *)
(* part, and its place in it.  Names of sections are told by their offset  *)
(* in the XBE; address arithmetic on them wraps at Modulus.                *)
(***************************************************************************)
EXTENDS Integers, Sequences

CONSTANTS
  Xbes,          \* The files that may be converted (see XbesAssumption).
  ImageHeader,   \* The header made for the XBE's own headers.
  EhdrSize, PhdrSize, ShdrSize,  \* sizeof of the ELF structures.
  page_size,
  FalseOffset,   \* 0x3000000 in the code.
  Modulus,       \* 2^32 in the code.
  HalfModulus,   \* 2^16 in the code: what a uint16_t holds.
  OwnNameSize,   \* The length of ".shstrtab".
  buffer_size    \* 2048 in the code.

Header ==
  [virt_mem_addr : Nat, file_offset : Nat, file_size : Nat,
   sect_name_mem_addr : 0 .. Modulus - 1,
   shared_pages : BOOLEAN]  \* One of the page reference counts is not zero.

ASSUME SizesAssumption ==
  /\ {EhdrSize, PhdrSize, ShdrSize, page_size, Modulus, HalfModulus, buffer_size}
       \subseteq Nat \ {0}
  /\ {FalseOffset, OwnNameSize} \subseteq Nat
  /\ ImageHeader \in Header

(* sizeof(Elf32_Phdr) is 32, sizeof(Elf32_Shdr) is 40.                     *)
ASSUME LayoutAssumption == PhdrSize <= ShdrSize

(* The table has the sections and what is read as one more header; it is   *)
(* zero where the file ends.  name_size[o] is the length of the string at  *)
(* the offset o; there is none if no zero byte follows.                    *)
ASSUME XbesAssumption ==
  \A x \in Xbes :
    /\ x.section_header_num \in Nat
    /\ x.table \in Seq(Header)
    /\ Len(x.table) = x.section_header_num + 1
    /\ x.base_mem_addr \in 0 .. Modulus - 1
    /\ x.size \in Nat
    /\ DOMAIN x.name_size \subseteq 0 .. Modulus - 1
    /\ \A o \in DOMAIN x.name_size : x.name_size[o] \in Nat

VARIABLES
  phase,             \* What MakeElfFromXbe is doing.
  xbe,               \* The file that is converted; it does not change.
  section_headers,
  next,              \* Position in section_headers, or in the parts of a name.
  shdr_str_table,    \* For each offset the length of the name found there.
  mem_addr_to_index,
  str_table_size,
  segment_number,
  amount_written,    \* In the segment that is being copied.
  elf,               \* The ELF file: a unit for each offset written so far.
  elf_offset,        \* The host's offset in it.
  shortened          \* History: the host cut a write short.

nameVars == <<shdr_str_table, mem_addr_to_index, str_table_size>>
segmentVars == <<segment_number, amount_written>>
elfVars == <<elf, elf_offset, shortened>>
vars == <<phase, xbe, section_headers, next, nameVars, segmentVars, elfVars>>
-----------------------------------------------------------------------------
(* The layout.                                                             *)

(* Mutant: the number is not increased.                                    *)
section_header_num_plain == xbe.section_header_num

(* image_header.section_header_num, after the increment.                   *)
section_header_num == xbe.section_header_num + 1

SegNumToOffset(segment) == EhdrSize + PhdrSize * segment

SegNumAndSecNumToOffset(segment, section) ==
  SegNumToOffset(segment) + ShdrSize * section

shdr_offset ==
  SegNumAndSecNumToOffset(section_header_num, section_header_num + 1)

str_table_offset == shdr_offset + ShdrSize

(* MakeElfHeader takes the number as a uint16_t.                           *)
Ehdr ==
  [e_phoff |-> EhdrSize, e_phnum |-> section_header_num % HalfModulus]

(* p_offset.                                                               *)
PhdrOffset(h) ==
  IF h.shared_pages
  THEN h.file_offset - (h.file_offset % page_size)
         + (h.virt_mem_addr % page_size)
  ELSE FalseOffset + (h.virt_mem_addr % page_size)
-----------------------------------------------------------------------------
(* Units of files, and writing them.                                       *)

Unit(part, number, place) == <<part, number, place>>
Structure(part, number, size) ==
  [k \in 1 .. size |-> Unit(part, number, k)]

ElfHeader == Structure("ehdr", 0, EhdrSize)
ProgramHeader(segment) == Structure("phdr", segment, PhdrSize)
NullSectionHeader == Structure("null", 0, ShdrSize)
SectionHeader(i) == Structure("shdr", i, ShdrSize)
StrTableSectionHeader == Structure("strtab", 0, ShdrSize)

NullChar == Unit("nul", 0, 0)
XbeUnit(o) == Unit("xbe", o, 0)

(* What a buffer holds where the read ended before it.                     *)
Unread == Unit("unread", 0, 0)

(* Seek to offset and Write of units, of which the host takes the first    *)
(* amount.  How many it took is not looked at.                             *)
Put(offset, units, amount) ==
  /\ elf' = [o \in DOMAIN elf \cup offset .. offset + amount - 1 |->
               IF o \in offset .. offset + amount - 1
               THEN units[o - offset + 1] ELSE elf[o]]
  /\ shortened' = (shortened \/ amount < Len(units))

(* At most one write of a conversion is cut short.                         *)
Amounts(units) == IF shortened THEN {Len(units)} ELSE 0 .. Len(units)
-----------------------------------------------------------------------------
Init ==
  /\ phase = "headers"
  /\ xbe \in Xbes
  /\ section_headers = <<>>
  /\ next = 1
  /\ shdr_str_table = [o \in {} |-> 0]
  /\ mem_addr_to_index = [a \in {} |-> 0]
  /\ str_table_size = 0
  /\ segment_number = 0
  /\ amount_written = 0
  /\ elf = [o \in {} |-> Unread]
  /\ elf_offset = 0
  /\ shortened = FALSE

(* The headers are read, one more than there are, and one is put in front. *)
ReadHeaders ==
  /\ phase = "headers"
  /\ phase' = "names"
  /\ section_headers' =
       <<ImageHeader>> \o SubSeq(xbe.table, 1, section_header_num)
  /\ next' = 2
  /\ UNCHANGED <<xbe, nameVars, segmentVars, elfVars>>

NameOffset(h) == (h.sect_name_mem_addr - xbe.base_mem_addr) % Modulus

(* Where there is no zero byte, current_char is not set behind the end of  *)
(* the file: it may happen to be zero, and the name ends.                  *)
NameSize(o) ==
  IF o \in DOMAIN xbe.name_size THEN xbe.name_size[o]
  ELSE IF o < xbe.size THEN xbe.size - o ELSE 0

With(f, x, y) ==
  [z \in DOMAIN f \cup {x} |-> IF z = x THEN y ELSE f[z]]

(* One round of the outer loop of ReadShdrStrTable.                        *)
ReadName ==
  /\ phase = "names"
  /\ next <= Len(section_headers)
  /\ LET o == NameOffset(section_headers[next]) IN
     shdr_str_table' = With(shdr_str_table, o, NameSize(o))
  /\ next' = next + 1
  /\ UNCHANGED <<phase, xbe, section_headers, mem_addr_to_index,
                 str_table_size, segmentVars, elfVars>>

(* ... or it happens to be another character, and the loop goes on until   *)
(* there is no memory left for the name.                                   *)
ReadNameHangs ==
  /\ phase = "names"
  /\ next <= Len(section_headers)
  /\ NameOffset(section_headers[next]) \notin DOMAIN xbe.name_size
  /\ phase' = "hangs"
  /\ UNCHANGED <<xbe, section_headers, next, nameVars, segmentVars, elfVars>>

OwnNameKey == Modulus - 1

(* Mutant: the last header's name is not read.                             *)
NamesEndEarly ==
  /\ phase = "names"
  /\ next >= Len(section_headers)
  /\ phase' = "strtab"
  /\ shdr_str_table' = With(shdr_str_table, OwnNameKey, OwnNameSize)
  /\ next' = 1
  /\ elf_offset' = str_table_offset
  /\ UNCHANGED <<xbe, section_headers, mem_addr_to_index, str_table_size,
                 segmentVars, elf, shortened>>

(* CopyShdrStrTableFromXbeToElf adds a name and seeks to the table.        *)
NamesEnd ==
  /\ phase = "names"
  /\ next > Len(section_headers)
  /\ phase' = "strtab"
  /\ shdr_str_table' = With(shdr_str_table, OwnNameKey, OwnNameSize)
  /\ next' = 1
  /\ elf_offset' = str_table_offset
  /\ UNCHANGED <<xbe, section_headers, mem_addr_to_index, str_table_size,
                 segmentVars, elf, shortened>>

(* Mutant: the offset stays one.                                           *)
MemAddrOfOffset(o) == o

(* The key of mem_addr_to_index for a key of shdr_str_table.               *)
MemAddr(o) == (o + xbe.base_mem_addr) % Modulus

(* The names are written in the order of their keys.                       *)
Unindexed ==
  {o \in DOMAIN shdr_str_table : MemAddr(o) \notin DOMAIN mem_addr_to_index}
IsNext(o) == o \in Unindexed /\ \A p \in Unindexed : o <= p

(* Mutant: the zero byte in front of the name is not counted.              *)
IndexAtNull == str_table_size

Index == str_table_size + 1

(* The three writes for a name.                                            *)
NamePart(o) ==
  CASE next = 1 -> <<NullChar>>
    [] next = 2 -> Structure("name", o, shdr_str_table[o])
    [] next = 3 -> <<NullChar>>

WriteName ==
  /\ phase = "strtab"
  /\ \E o \in Unindexed :
       /\ IsNext(o)
       /\ \E amount \in Amounts(NamePart(o)) :
            /\ Put(elf_offset, NamePart(o), amount)
            /\ elf_offset' = elf_offset + amount
       /\ IF next < 3
          THEN next' = next + 1 /\ UNCHANGED <<mem_addr_to_index, str_table_size>>
          ELSE /\ next' = 1
               /\ mem_addr_to_index' = With(mem_addr_to_index, MemAddr(o), Index)
               /\ str_table_size' = str_table_size + shdr_str_table[o] + 2
  /\ UNCHANGED <<phase, xbe, section_headers, shdr_str_table, segmentVars>>

WriteStrTableHeader ==
  /\ phase = "strtab"
  /\ Unindexed = {}
  /\ \E amount \in Amounts(StrTableSectionHeader) :
       Put(shdr_offset, StrTableSectionHeader, amount)
  /\ phase' = "ehdr"
  /\ UNCHANGED <<xbe, section_headers, next, nameVars, segmentVars, elf_offset>>

WriteElfHeader ==
  /\ phase = "ehdr"
  /\ \E amount \in Amounts(ElfHeader) : Put(0, ElfHeader, amount)
  /\ phase' = "segments"
  /\ UNCHANGED <<xbe, section_headers, next, nameVars, segmentVars, elf_offset>>

InSegments == phase = "segments" /\ segment_number < Len(section_headers)
Segment == section_headers[segment_number + 1]

(* CopySegmentFromXbeToElf: the program header, and the seeks.             *)
WriteProgramHeader ==
  /\ InSegments
  /\ LET phdr == ProgramHeader(segment_number) IN
     \E amount \in Amounts(phdr) :
       Put(SegNumToOffset(segment_number), phdr, amount)
  /\ elf_offset' = PhdrOffset(Segment)
  /\ amount_written' = 0
  /\ phase' = "copy"
  /\ UNCHANGED <<xbe, section_headers, next, nameVars, segment_number>>

MoreBuffers == amount_written + buffer_size < Segment.file_size

(* What is written of the segment, whether or not it was read.             *)
Buffer ==
  LET start == Segment.file_offset + amount_written IN
  [k \in 1 .. IF MoreBuffers THEN buffer_size
                             ELSE Segment.file_size - amount_written |->
     IF start + k - 1 < xbe.size THEN XbeUnit(start + k - 1) ELSE Unread]

(* Mutant: the loop does not count.                                        *)
CopyBufferUncounted ==
  /\ phase = "copy"
  /\ \E amount \in Amounts(Buffer) :
       /\ Put(elf_offset, Buffer, amount)
       /\ elf_offset' = elf_offset
  /\ IF MoreBuffers
     THEN UNCHANGED <<phase, segmentVars>>
     ELSE /\ phase' = "segments"
          /\ segment_number' = segment_number + 1
          /\ UNCHANGED amount_written
  /\ UNCHANGED <<xbe, section_headers, next, nameVars>>

(* One round of the copy loop, or the remainder behind it.                 *)
CopyBuffer ==
  /\ phase = "copy"
  /\ \E amount \in Amounts(Buffer) :
       /\ Put(elf_offset, Buffer, amount)
       /\ elf_offset' = elf_offset + amount
  /\ IF MoreBuffers
     THEN /\ amount_written' = amount_written + buffer_size
          /\ UNCHANGED <<phase, segment_number>>
     ELSE /\ phase' = "segments"
          /\ segment_number' = segment_number + 1
          /\ UNCHANGED amount_written
  /\ UNCHANGED <<xbe, section_headers, next, nameVars>>

WriteNullSectionHeader ==
  /\ phase = "segments"
  /\ segment_number = Len(section_headers)
  /\ LET offset == SegNumToOffset(segment_number) IN
     \E amount \in Amounts(NullSectionHeader) :
       /\ Put(offset, NullSectionHeader, amount)
       /\ elf_offset' = offset + amount
  /\ phase' = "shdrs"
  /\ next' = 1
  /\ UNCHANGED <<xbe, section_headers, nameVars, segmentVars>>

(* MakeElfSectionHeader returns: at() finds the name.                      *)
HasIndex(h) == h.sect_name_mem_addr \in DOMAIN mem_addr_to_index

(* One round of the last loop; the exception passes through it.            *)
WriteSectionHeader ==
  /\ phase = "shdrs"
  /\ next <= Len(section_headers)
  /\ IF HasIndex(section_headers[next])
     THEN /\ \E amount \in Amounts(SectionHeader(next)) :
               /\ Put(elf_offset, SectionHeader(next), amount)
               /\ elf_offset' = elf_offset + amount
          /\ next' = next + 1
          /\ UNCHANGED phase
     ELSE phase' = "thrown" /\ UNCHANGED <<next, elfVars>>
  /\ UNCHANGED <<xbe, section_headers, nameVars, segmentVars>>

SectionHeadersEnd ==
  /\ phase = "shdrs"
  /\ next > Len(section_headers)
  /\ phase' = "done"
  /\ UNCHANGED <<xbe, section_headers, next, nameVars, segmentVars, elfVars>>

Ended == {"done", "thrown", "failed"}

(* A host call returns an error; MakeElfFromXbe passes it on.              *)
HostFails ==
  /\ phase \notin Ended
  /\ phase' = "failed"
  /\ UNCHANGED <<xbe, section_headers, next, nameVars, segmentVars, elfVars>>

Step ==
  \/ ReadHeaders \/ ReadName \/ NamesEnd \/ WriteName
  \/ WriteStrTableHeader \/ WriteElfHeader
  \/ WriteProgramHeader \/ CopyBuffer \/ WriteNullSectionHeader
  \/ WriteSectionHeader \/ SectionHeadersEnd

Next == Step \/ ReadNameHangs \/ HostFails

(* One thread, which waits for nothing; the host need not fail.            *)
Spec == Init /\ [][Next]_vars
FairSpec == Spec /\ WF_vars(Step)
-----------------------------------------------------------------------------
NamesTypeOK ==
  /\ DOMAIN shdr_str_table \subseteq 0 .. Modulus - 1
  /\ \A o \in DOMAIN shdr_str_table : shdr_str_table[o] \in Nat
  /\ DOMAIN mem_addr_to_index \subseteq 0 .. Modulus - 1
  /\ \A a \in DOMAIN mem_addr_to_index : mem_addr_to_index[a] \in Nat \ {0}
  /\ str_table_size \in Nat

ElfTypeOK ==
  /\ DOMAIN elf \subseteq Nat
  /\ elf_offset \in Nat
  /\ shortened \in BOOLEAN

(* The variables have their types; nothing is written before the file's    *)
(* beginning.                                                              *)
TypeOK ==
  /\ phase \in {"headers", "names", "hangs", "strtab", "ehdr", "segments",
                "copy", "shdrs"} \cup Ended
  /\ xbe \in Xbes
  /\ section_headers \in Seq(Header)
  /\ next \in Nat \ {0}
  /\ segment_number \in Nat
  /\ amount_written \in Nat
  /\ NamesTypeOK
  /\ ElfTypeOK

Extent(h) == PhdrOffset(h) .. PhdrOffset(h) + h.file_size - 1

(* What an XBE should be like: its segments do not overlap in the ELF, and *)
(* are behind the tables.                                                  *)
Separate ==
  LET tables == str_table_offset + PhdrSize + str_table_size IN
  \A i \in DOMAIN section_headers :
    /\ PhdrOffset(section_headers[i]) >= tables
    /\ \A j \in DOMAIN section_headers :
         i # j => Extent(section_headers[i]) \cap Extent(section_headers[j]) = {}

Holds(offset, units) ==
  \A k \in DOMAIN units :
    /\ offset + k - 1 \in DOMAIN elf
    /\ elf[offset + k - 1] = units[k]

(* The number of program headers is one that the ELF header can hold.      *)
Countable == section_header_num < HalfModulus

(* The kernel finds what it needs to run the file, although one header too *)
(* many is read and another is put in front (elf.cc:286-349): the ELF      *)
(* header, a program header for the XBE's own headers and for every        *)
(* section, and at its offset what the XBE has of the section.  The        *)
(* section headers, and at() that throws, do no harm to them.  Each of     *)
(* these program headers is counted if there are so few that a uint16_t    *)
(* holds their number (elf.cc:32); from 65535 sections on the number       *)
(* wraps, the headers are in place, and the kernel does not look for all.  *)
Loadable ==
  /\ phase \in {"shdrs", "done", "thrown"}
  /\ ~ shortened
  /\ Separate
  => /\ Holds(0, ElfHeader)
     /\ \A i \in 0 .. xbe.section_header_num :
          LET h == IF i = 0 THEN ImageHeader ELSE xbe.table[i] IN
          /\ Countable => i < Ehdr.e_phnum
          /\ Holds(Ehdr.e_phoff + PhdrSize * i, ProgramHeader(i))
          /\ \A k \in 0 .. h.file_size - 1 :
               h.file_offset + k < xbe.size =>
                 Holds(PhdrOffset(h) + k, <<XbeUnit(h.file_offset + k)>>)

(* Until the section headers are written, the index kept for the name of a *)
(* section is where that name begins in the string table, and a zero byte  *)
(* ends it there (elf.cc:250-265), for names that several sections share   *)
(* and for addresses below the image's base too.                           *)
NamesIndexed ==
  /\ phase \in {"ehdr", "segments", "copy"}
  /\ ~ shortened
  /\ Separate
  => \A i \in 2 .. Len(section_headers) :
       LET a == section_headers[i].sect_name_mem_addr
           o == NameOffset(section_headers[i])
       IN /\ HasIndex(section_headers[i])
          /\ Holds(str_table_offset + mem_addr_to_index[a],
                   Append(Structure("name", o, shdr_str_table[o]), NullChar))

(* The exception leaves MakeElfFromXbe (elf.cc:162) only for the header    *)
(* that was put in front, in an XBE that has no section named where that   *)
(* header says: all other names have been read.                            *)
ThrowHasCause ==
  phase = "thrown" =>
    /\ next = 1
    /\ \A i \in DOMAIN xbe.table :
         xbe.table[i].sect_name_mem_addr # ImageHeader.sect_name_mem_addr

(* The headers are the ones read, behind the one put in front.             *)
HeadersInv ==
  phase \notin {"headers", "failed"} =>
    section_headers = <<ImageHeader>> \o xbe.table

(* The names of the headers before next, then of all that were read.       *)
NamesRead(last) ==
  \A i \in 2 .. last : NameOffset(section_headers[i]) \in DOMAIN shdr_str_table

NamesInv ==
  /\ phase = "names" =>
       next \in 2 .. Len(section_headers) + 1 /\ NamesRead(next - 1)
  /\ phase \in {"strtab", "ehdr", "segments", "copy", "shdrs", "thrown"} =>
       NamesRead(Len(section_headers))
  /\ phase = "strtab" => next \in 1 .. 3

(* After the string table every name has an index.                         *)
IndexInv ==
  phase \in {"ehdr", "segments", "copy", "shdrs", "thrown"} => Unindexed = {}

SegmentInv ==
  phase = "copy" =>
    /\ segment_number < Len(section_headers)
    /\ amount_written <= Segment.file_size

(* The inductive invariant: why at() finds every name but the first        *)
(* (elf.cc:299-306, :253-254 and :346).                                    *)
IInv ==
  /\ TypeOK
  /\ HeadersInv
  /\ NamesInv
  /\ IndexInv
  /\ SegmentInv
  /\ ThrowHasCause

(* The conversion ends if every name does.                                 *)
ConvertEnds ==
  <>(\/ phase \in Ended
     \/ \E i \in 1 .. Len(xbe.table) :
          NameOffset(xbe.table[i]) \notin DOMAIN xbe.name_size)
-----------------------------------------------------------------------------
(* The inductive strengthening of Loadable and NamesIndexed.               *)

(* Nothing is counted before its phase.                                    *)
CountInv ==
  /\ phase \in {"headers", "names"} =>
       str_table_size = 0 /\ DOMAIN mem_addr_to_index = {}
  /\ phase \in {"headers", "names", "strtab", "ehdr"} => segment_number = 0
  /\ phase \in {"segments", "copy"} => segment_number <= Len(section_headers)
  /\ phase \in {"shdrs", "done", "thrown"} => segment_number = Len(section_headers)

(* The names with an index stand in the string table, in front of the      *)
(* others.                                                                 *)
NamesWritten ==
  /\ phase \in {"strtab", "ehdr", "segments", "copy"}
  /\ ~ shortened
  /\ phase = "strtab" \/ Separate
  => \A o \in DOMAIN shdr_str_table :
       MemAddr(o) \in DOMAIN mem_addr_to_index =>
         LET x == mem_addr_to_index[MemAddr(o)] IN
         /\ x + shdr_str_table[o] < str_table_size
         /\ Holds(str_table_offset + x,
                  Append(Structure("name", o, shdr_str_table[o]), NullChar))

(* How far the writing of a name has come.                                 *)
NameInv ==
  phase = "strtab" /\ ~ shortened =>
    /\ next = 1 => elf_offset = str_table_offset + str_table_size
    /\ next = 2 => elf_offset = str_table_offset + str_table_size + 1
    /\ next = 3 =>
         \A o \in Unindexed : IsNext(o) =>
           /\ elf_offset = str_table_offset + str_table_size + 1 + shdr_str_table[o]
           /\ Holds(str_table_offset + str_table_size + 1,
                    Structure("name", o, shdr_str_table[o]))

(* The first units of the i-th segment are where its header says.          *)
Copied(i, amount) ==
  LET h == section_headers[i + 1] IN
  \A k \in 0 .. amount - 1 :
    h.file_offset + k < xbe.size =>
      Holds(PhdrOffset(h) + k, <<XbeUnit(h.file_offset + k)>>)

(* What was written of headers and segments is there.                      *)
ElfWritten ==
  /\ phase \in {"segments", "copy", "shdrs", "done", "thrown"}
  /\ ~ shortened
  /\ Separate
  => /\ Holds(0, ElfHeader)
     /\ \A i \in 0 .. segment_number :
          i < segment_number \/ phase = "copy" =>
            Holds(SegNumToOffset(i), ProgramHeader(i))
     /\ \A i \in 0 .. segment_number - 1 :
          Copied(i, section_headers[i + 1].file_size)
     /\ phase = "copy" =>
          /\ elf_offset = PhdrOffset(Segment) + amount_written
          /\ Copied(segment_number, amount_written)
     /\ phase = "shdrs" =>
          elf_offset = SegNumToOffset(Len(section_headers)) + ShdrSize * next

WInv == IInv /\ CountInv /\ NamesWritten /\ NameInv /\ ElfWritten
-----------------------------------------------------------------------------
(* How the conversion comes to an end.                                     *)

PhaseNumber ==
  [headers |-> 1, names |-> 2, hangs |-> 2, strtab |-> 3, ehdr |-> 4,
   segments |-> 5, copy |-> 5, shdrs |-> 6, done |-> 7, thrown |-> 7, failed |-> 7]

(* The rounds of the loops over the headers.                               *)
NextHeader ==
  /\ phase \in {"names", "shdrs"}
  /\ next < next' /\ next' <= Len(section_headers) + 1

(* The writes of the string table: of parts of a name, of names.           *)
NextPart == next < next' /\ next' <= 3 /\ Unindexed' = Unindexed
FewerNames == Unindexed' \subseteq Unindexed /\ Unindexed' # Unindexed
NextName == phase = "strtab" /\ (NextPart \/ FewerNames)

(* The segments, each of which is copied buffer by buffer.                 *)
BeginsSegment ==
  phase = "segments" /\ phase' = "copy" /\ segment_number' = segment_number
NextBuffer ==
  /\ phase = "copy" /\ phase' = "copy" /\ segment_number' = segment_number
  /\ amount_written < amount_written' /\ amount_written' <= Segment.file_size
NextSegment ==
  /\ phase = "copy" /\ phase' = "segments"
  /\ segment_number < segment_number' /\ segment_number' <= Len(section_headers)

(* The exception: a name that no zero byte ends, which the loop over the   *)
(* characters of a name (elf.cc:216-223) may never come to the end of.     *)
StaysInName ==
  /\ phase = "names" /\ phase' = "hangs"
  /\ next <= Len(section_headers)
  /\ NameOffset(section_headers[next]) \notin DOMAIN xbe.name_size

(* Every step of the conversion gets on, to a later phase or in its loop:  *)
(* over headers (elf.cc:213-225, :345-349), over names (:253-265), over    *)
(* segments (:334-339) and over their buffers (:119-124).  None goes back, *)
(* so that only a name without an end can keep the conversion for ever,    *)
(* whatever else the headers of an XBE say.                                *)
ConvertAdvances ==
  [][\/ PhaseNumber[phase] < PhaseNumber[phase']
     \/ /\ PhaseNumber[phase] = PhaseNumber[phase']
        /\ section_headers' = section_headers
        /\ NextHeader \/ NextName \/ BeginsSegment \/ NextBuffer \/ NextSegment
     \/ StaysInName]_vars
=============================================================================
