------------------------------- MODULE MCDisc -------------------------------
(***************************************************************************)
(* A disc for TLC.  Sectors have 32 bytes.  Sector 1 is the root: "m" with *)
(* "sub" and "f" on its left, "t" and "M" (which differs from "m" in case  *)
(* only) on its right.  Sector 2 is "sub".  Sector 0 is blank: "t" is an   *)
(* empty directory without a sector of its own, so the entry read there is *)
(* nameless.                                                               *)
(***************************************************************************)
EXTENDS Integers, TLC

FileAt(name, left, right) ==
  [left_child_dwords |-> left, right_child_dwords |-> right,
   start_sector |-> 3, attributes |-> 128, name |-> name]
DirAt(name, left, right, sector) ==
  [left_child_dwords |-> left, right_child_dwords |-> right,
   start_sector |-> sector, attributes |-> 16, name |-> name]
Named(rank, text) == [fold |-> rank, spelling |-> text]

SmallDisc ==
     0 :> FileAt(Named(0, ""), 0, 0)
  @@ 32 :> FileAt(Named(5, "m"), 1, 2)
  @@ 36 :> FileAt(Named(2, "f"), 0, 3)
  @@ 40 :> DirAt(Named(8, "t"), 4, 0, 0)
  @@ 44 :> DirAt(Named(4, "sub"), 0, 0, 2)
  @@ 48 :> FileAt(Named(5, "M"), 0, 0)
  @@ 64 :> FileAt(Named(3, "k"), 0, 1)
  @@ 68 :> FileAt(Named(9, "x"), 2, 0)
  @@ 72 :> DirAt(Named(6, "p"), 0, 0, 0)
=============================================================================
