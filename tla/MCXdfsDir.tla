----------------------------- MODULE MCXdfsDir ------------------------------
(***************************************************************************)
(* Instances of XdfsDir for TLC.  See MCDisc for the disc.                 *)
(***************************************************************************)
EXTENDS XdfsDir, MCDisc

(* Two objects on one directory, one each on the others.                   *)
OpenDirs ==
  [d \in {"root", "sub", "sub again", "empty"} |->
     CASE d = "root"  -> [start_sector |-> 1]
       [] d = "empty" -> [start_sector |-> 0]
       [] OTHER       -> [start_sector |-> 2]]
=============================================================================
