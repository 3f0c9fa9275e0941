------------------------------- MODULE MCXdfs -------------------------------
(***************************************************************************)
(* Paths for Xdfs over the disc of MCDisc: with and without a slash at the *)
(* end, slashes in a row, through a file, in the wrong case, of no entry,  *)
(* of the blank entry of an empty directory, and relative ones.            *)
(***************************************************************************)
EXTENDS Xdfs, MCDisc

CONSTANT sl

Nameless == Named(0, "")
SlashName == Named(1, "/")

SomePaths ==
  LET m == Named(5, "m")  sub == Named(4, "sub")  x == Named(9, "x")
      k == Named(3, "k")  t == Named(8, "t")      p == Named(6, "p")
  IN {<<>>, <<sub>>, <<sl>>, <<sl, sl>>, <<sl, m>>, <<sl, Named(5, "M")>>,
      <<sl, Named(4, "SUB")>>, <<sl, sub>>, <<sl, sub, sl>>,
      <<sl, sub, sl, x>>, <<sl, sub, sl, sl, x>>, <<sl, sl, sub>>,
      <<sl, sub, sl, k>>, <<sl, sub, sl, m>>, <<sl, m, sl, k>>,
      <<sl, sub, sl, p, sl, x>>, <<sl, t>>, <<sl, t, sl, sl>>,
      <<sl, Named(7, "q")>>}
=============================================================================
