----------------------------- MODULE XdfsCommon -----------------------------
(***************************************************************************)
(* xdfs_common.h: what the reader of files and the reader of directories   *)
(* share.                                                                  *)
(***************************************************************************)
EXTENDS Integers, Sequences

CONSTANTS
  kSectorSizeBytes,  \* 2048 in the code.
  OffsetModulus      \* 2^32: the width in which SectorToOffset multiplies.

ASSUME SectorAssumption == kSectorSizeBytes \in Nat \ {0}
ASSUME WidthAssumption  == OffsetModulus \in Nat \ {0}

(* SectorToOffset multiplies two uint32_t: the product wraps before it is  *)
(* widened to size_t.                                                      *)
SectorToOffset(sector) == (sector * kSectorSizeBytes) % OffsetModulus

kAttributeIsDirectoryMask == 16

IsDir(attributes) == (attributes \div kAttributeIsDirectoryMask) % 2 = 1
=============================================================================
