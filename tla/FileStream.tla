----------------------------- MODULE FileStream -----------------------------
(***************************************************************************)
(* What a user of xdfs_file.h relies on: every open file is a stream of    *)
(* its own.  A Read either fails or hands over the next bytes of that file *)
(* and of no other, in order and without a gap, whatever is done with the  *)
(* other open files in between.  Only a handle that is released (it lost a *)
(* read in the middle of the file) is exempt from the promise.             *)
(***************************************************************************)
EXTENDS Integers, Sequences

CONSTANTS
  Files,      \* The open file handles.
  Content     \* Content[f][k] is the k-th byte of file f.

VARIABLES
  returned,   \* returned[f]: all that Read has handed to the caller of f.
  released    \* The handles exempt from the promise.

streamVars == <<returned, released>>

Prefix(s, t) ==
  /\ Len(s) <= Len(t)
  /\ \A k \in 1 .. Len(s) : s[k] = t[k]

Init ==
  /\ returned = [f \in Files |-> <<>>]
  /\ released \in SUBSET Files

(* A Read that succeeds: the stream of f grows along its content (by       *)
(* nothing at the end of the file); no other stream moves.                 *)
Deliver(f) ==
  /\ \A g \in Files \ {f} : returned'[g] = returned[g]
  /\ DOMAIN returned' = Files
  /\ f \notin released =>
       /\ Prefix(returned[f], returned'[f])
       /\ Prefix(returned'[f], Content[f])
  /\ released' = released

(* A Read that fails after it already copied some bytes.                   *)
Release(f) ==
  /\ released' = released \cup {f}
  /\ returned' = returned

Next == \E f \in Files : Deliver(f) \/ Release(f)

Spec == Init /\ [][Next]_streamVars
=============================================================================
