----------------------------- MODULE DirListing -----------------------------
(***************************************************************************)
(* What a user of xdfs_dir.h relies on: ReadEntries lists each entry of    *)
(* the directory once, in some order, and every later call on the same     *)
(* object gives the same answer.                                           *)
(***************************************************************************)
EXTENDS Integers, Sequences

CONSTANTS
  Dirs,       \* The open directories.
  Content     \* Content[d]: the set of entries of d, never empty.

VARIABLE
  answer      \* answer[d]: what ReadEntries answered, <<>> before that.

IsListing(list, S) ==
  /\ {list[i] : i \in 1 .. Len(list)} = S
  /\ \A i, j \in 1 .. Len(list) : i # j => list[i] # list[j]

Init == answer = [d \in Dirs |-> <<>>]

Give(d) ==
  /\ IsListing(answer'[d], Content[d])
  /\ answer[d] \in {<<>>, answer'[d]}
  /\ answer' = [answer EXCEPT ![d] = answer'[d]]

Next == \E d \in Dirs : Give(d)

Spec == Init /\ [][Next]_answer
=============================================================================
