------------------------------ MODULE MCXbeToElf ------------------------------
(* Small XBEs.  A page has 8 units; the tables of the largest ELF end      *)
(* before offset 40.                                                       *)
EXTENDS XbeToElf, TLC

Section(virt, offset, size, name, shared) ==
  [virt_mem_addr |-> virt, file_offset |-> offset, file_size |-> size,
   sect_name_mem_addr |-> name, shared_pages |-> shared]

SmallImageHeader == Section(16, 0, 3, 20, FALSE)
ZeroHeader == Section(0, 0, 0, 0, FALSE)

Names == 12 :> 1 @@ 14 :> 2 @@ 63 :> 1

Xbe(sections, behind, size) ==
  [section_header_num |-> Len(sections),
   table |-> Append(sections, behind),
   base_mem_addr |-> 8, size |-> size, name_size |-> Names]

(* Two sections, one that begins inside a page, one that ends the file in  *)
(* the middle; zeros behind the headers, so that a name is read behind the *)
(* end of the file.                                                        *)
Usual ==
  Xbe(<<Section(17, 40, 5, 20, TRUE), Section(24, 48, 4, 22, TRUE)>>,
      ZeroHeader, 51)

(* Two sections of one name, none named where the image header says; what  *)
(* lies behind the headers is taken for a segment.                         *)
SharedName ==
  Xbe(<<Section(17, 40, 3, 22, TRUE), Section(26, 48, 2, 22, TRUE)>>,
      Section(0, 56, 3, 22, TRUE), 64)

(* No section at all.                                                      *)
Empty == Xbe(<<>>, Section(0, 0, 0, 20, FALSE), 40)

(* A name just below the image's base, and one without an end.             *)
OddNames ==
  Xbe(<<Section(17, 40, 1, 7, TRUE)>>, Section(0, 40, 0, 40, TRUE), 41)

(* The data of the first section runs into the page of the second; what    *)
(* lies behind the headers is taken for a segment among the tables.        *)
Overlapping ==
  Xbe(<<Section(17, 40, 8, 20, TRUE), Section(24, 48, 1, 22, TRUE)>>,
      Section(3, 0, 0, 20, TRUE), 60)

(* Three sections: the number of program headers, with the one for the     *)
(* XBE's own headers, wraps.                                               *)
Many ==
  Xbe(<<Section(17, 40, 1, 20, TRUE), Section(26, 48, 2, 20, TRUE),
        Section(32, 56, 3, 20, TRUE)>>,
      Section(0, 72, 0, 20, TRUE), 60)

SmallXbes == {Usual, SharedName, Empty, OddNames, Overlapping, Many}
=============================================================================
