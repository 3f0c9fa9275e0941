------------------------------ MODULE MCSearch ------------------------------
(***************************************************************************)
(* Images for the programs that search a disc.  One image has "m" and the  *)
(* empty file "M" in the root, whose directories "sub" and "twin" are one  *)
(* table, with a file and the directory "deep" in it.  One has two files   *)
(* and no directory, one an empty directory in the blank sector 0.  Two    *)
(* are none.  With a buffer of two bytes, "m" fills it once, "k" once and  *)
(* then in part, "g" twice.                                                *)
(***************************************************************************)
EXTENDS MCDisc

SearchDisc ==
      0 :> FileAt(Named(0, ""), 0, 0)
  @@ 32 :> FileAt(Named(5, "m"), 1, 2)
  @@ 36 :> DirAt(Named(4, "sub"), 0, 0, 2)
  @@ 40 :> DirAt(Named(8, "twin"), 3, 0, 2)
  @@ 44 :> FileAt(Named(5, "M"), 0, 0)
  @@ 64 :> FileAt(Named(3, "k"), 1, 0)
  @@ 68 :> DirAt(Named(1, "deep"), 0, 0, 3)
  @@ 96 :> FileAt(Named(3, "k"), 0, 0)
  @@ 128 :> FileAt(Named(3, "k"), 0, 1)
  @@ 132 :> FileAt(Named(6, "g"), 0, 0)
  @@ 160 :> DirAt(Named(8, "t"), 1, 0, 0)
  @@ 164 :> FileAt(Named(5, "M"), 0, 0)

(* Every order for the tables of two entries; two for the root of the      *)
(* first image.                                                            *)
SearchListings ==
  0 :> {<<0>>} @@ 32 :> {<<32, 40, 44, 36>>, <<36, 44, 32, 40>>}
    @@ 64 :> {<<64, 68>>, <<68, 64>>} @@ 96 :> {<<96>>}
    @@ 128 :> {<<128, 132>>, <<132, 128>>} @@ 160 :> {<<160, 164>>, <<164, 160>>}

SearchSizes ==
  [o \in DOMAIN SearchDisc |->
     CASE o \in {64, 128} -> 3 [] o = 132 -> 4 [] o = 32 -> 2
       [] o \in {0, 96} -> 1 [] OTHER -> 0]

Blank == Named(0, "")

SearchVolumes ==
  {[magic |-> TRUE, root_directory_sector |-> s, magic_2 |-> TRUE] : s \in {1, 4, 5}}
    \cup {[magic |-> b, root_directory_sector |-> 1, magic_2 |-> ~ b] : b \in BOOLEAN}
=============================================================================
