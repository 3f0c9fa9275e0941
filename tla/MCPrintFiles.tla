--------------------------- MODULE MCPrintFiles -----------------------------
(***************************************************************************)
(* PrintFiles over the images of MCSearch.                               *)
(***************************************************************************)
EXTENDS PrintFiles, MCSearch
=============================================================================
