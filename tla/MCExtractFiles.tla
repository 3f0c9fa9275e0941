--------------------------- MODULE MCExtractFiles ---------------------------
(***************************************************************************)
(* ExtractFiles over the images of MCSearch.                               *)
(***************************************************************************)
EXTENDS ExtractFiles, MCSearch
=============================================================================
