------------------------------ MODULE XdfsDisc ------------------------------
(***************************************************************************)
(* The directories of a disc image, as ReadDirEntryAtOffset reads them     *)
(* (xdfs_common.cc) and as xdfs_dir.cc and xdfs.cc walk them.  A directory *)
(* is a table at the start of a sector: its entries are the nodes of a     *)
(* binary search tree, rooted at the entry at the table's start, and a     *)
(* child is named by its distance from there in double words; 0 is "no     *)
(* child".                                                                 *)
(*                                                                         *)
(* A name is a record: fold ranks the upper-cased name, as                 *)
(* CaseInsensitiveCompare orders it, spelling tells apart the names that   *)
(* differ only in case.                                                    *)
(***************************************************************************)
EXTENDS XdfsCommon

CONSTANTS
  Disc,          \* Disc[o]: the 14 bytes and the name stored at offset o.
  RootSectors,   \* What root_directory_sector may be.
  kDWordsBytes   \* 4 in the code.

Offsets == DOMAIN Disc
Name == [fold : Nat, spelling : STRING]

ASSUME RootAssumption == RootSectors \subseteq Nat /\ kDWordsBytes \in Nat
ASSUME DiscAssumption ==
  /\ Offsets \subseteq Nat
  /\ \A o \in Offsets :
       Disc[o] \in [left_child_dwords : Nat, right_child_dwords : Nat,
                    start_sector : Nat, attributes : Nat, name : Name]

(* ReadDirEntryAtOffset, when the host reads succeed (otherwise it aborts).*)
ReadDirEntry(offset) ==
  [left_child_dwords  |-> Disc[offset].left_child_dwords,
   right_child_dwords |-> Disc[offset].right_child_dwords,
   start_sector       |-> Disc[offset].start_sector,
   attributes         |-> Disc[offset].attributes,
   name               |-> Disc[offset].name,
   offset_bytes       |-> offset]

(* lexicographical_compare with CaseInsensitiveCompare.                    *)
NameLess(left, right) == left.fold < right.fold
-----------------------------------------------------------------------------
(* The tree of a table.                                                    *)

Child(base, dwords) == base + dwords * kDWordsBytes

(* The child pointers of the entry at o, in a table at base.               *)
LeftOf(base, o) ==
  {Child(base, d) : d \in {Disc[o].left_child_dwords} \ {0}}
RightOf(base, o) ==
  {Child(base, d) : d \in {Disc[o].right_child_dwords} \ {0}}

Closed(base, S) ==
  \A o \in S : LeftOf(base, o) \cup RightOf(base, o) \subseteq S

(* Where a directory's table may begin: a root's and those entries name.   *)
Bases ==
  {SectorToOffset(s) : s \in RootSectors} \cup
  {SectorToOffset(Disc[o].start_sector) : o \in Offsets}

(* The entries reached from o along child pointers: what every closed set  *)
(* with o in it contains.                                                  *)
Subtree ==
  [base \in Bases |-> [o \in Offsets |->
     {x \in Offsets :
        \A S \in SUBSET Offsets : o \in S /\ Closed(base, S) => x \in S}]]

Below(base, children) == UNION {Subtree[base][c] : c \in children}

Table(base) == Subtree[base][base]

(* The directories: a root, and the entries with the directory mask.       *)
DirBases ==
  {SectorToOffset(s) : s \in RootSectors} \cup
  {SectorToOffset(Disc[o].start_sector) : o \in {x \in Offsets : IsDir(Disc[x].attributes)}}
-----------------------------------------------------------------------------
(* Where names lead from a root directory at sector root.                  *)

(* The table a chain of entries ends in, the root's for the empty chain.   *)
EndOf(root, chain) ==
  SectorToOffset(IF chain = <<>> THEN root
                                 ELSE Disc[chain[Len(chain)]].start_sector)

(* The chains of entries that the names lead along: each is in the         *)
(* directory before it.  There is at most one.                             *)
Chains(root, names) ==
  {chain \in [1 .. Len(names) -> Offsets] :
     \A k \in 1 .. Len(names) :
       /\ Disc[chain[k]].name = names[k]
       /\ k > 1 => IsDir(Disc[chain[k - 1]].attributes)
       /\ chain[k] \in Table(EndOf(root, SubSeq(chain, 1, k - 1)))}

(* The table of the directory that the names lead to, if they do.          *)
DirsNamed(root, names) ==
  {EndOf(root, chain) : chain \in
     {c \in Chains(root, names) :
        c # <<>> => IsDir(Disc[c[Len(c)]].attributes)}}

(* The entry of the file that the names lead to, if they do.               *)
FilesNamed(root, names) ==
  {chain[Len(chain)] : chain \in
     {c \in Chains(root, names) :
        c # <<>> /\ ~ IsDir(Disc[c[Len(c)]].attributes)}}
-----------------------------------------------------------------------------
(* What the code takes for granted of a disc.  It checks none of this: a   *)
(* table with a cycle keeps ReadEntries busy for ever.                     *)

(* A directory has an entry at its start, and child pointers lead to       *)
(* entries.  The entry may be a blank one: see the README on empty         *)
(* directories.                                                            *)
ASSUME TableAssumption ==
  \A base \in DirBases : base \in Offsets /\ Closed(base, Table(base))

(* A table is a tree: nothing is reached along two ways.                   *)
ASSUME TreeAssumption ==
  \A base \in DirBases : \A o \in Table(base) :
    LET left  == Below(base, LeftOf(base, o))
        right == Below(base, RightOf(base, o))
    IN o \notin left \cup right /\ left \cap right = {}

(* No two entries of a table have one name.                                *)
ASSUME NamesAssumption ==
  \A base \in DirBases : \A x, y \in Table(base) :
    Disc[x].name = Disc[y].name => x = y

(* It is a search tree: smaller names, case ignored, are on the left.      *)
ASSUME SearchAssumption ==
  \A base \in DirBases : \A o \in Table(base) :
    /\ \A x \in Below(base, LeftOf(base, o)) :
         NameLess(Disc[x].name, Disc[o].name)
    /\ \A x \in Below(base, RightOf(base, o)) :
         ~ NameLess(Disc[x].name, Disc[o].name)
=============================================================================
