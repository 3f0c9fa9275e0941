----------------------------- MODULE MCXdfsFile -----------------------------
(***************************************************************************)
(* Instances of XdfsFile for TLC.  A sector has three bytes here.  Of the  *)
(* files, "long" spans three sectors, the last one partly; "last" ends     *)
(* with the image, which stops in the middle of its sector; "high" lies at *)
(* the offset where SectorToOffset wraps to zero.                          *)
(***************************************************************************)
EXTENDS XdfsFile

LongAndLast ==
  [f \in {"long", "last"} |->
     IF f = "long" THEN [start_sector |-> 1, size_bytes |-> 7]
                   ELSE [start_sector |-> 4, size_bytes |-> 2]]

WithHigh ==
  [f \in {"long", "last", "high"} |->
     IF f = "high" THEN [start_sector |-> 5, size_bytes |-> 1]
                   ELSE LongAndLast[f]]
=============================================================================
