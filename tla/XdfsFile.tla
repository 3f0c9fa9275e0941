------------------------------ MODULE XdfsFile ------------------------------
(***************************************************************************)
(* XdfsFile (xdfs_file.cc) over XdfsBackend::ReadSector: files of a disc   *)
(* image read through a one-sector buffer per handle.  All handles share   *)
(* the backend's one host descriptor and therefore its offset (cursor).    *)
(* The program has a single thread: calls on different handles interleave, *)
(* one loop iteration of a call is one step, and a call that has begun     *)
(* runs to its end.                                                        *)
(*                                                                         *)
(* The byte stored at offset x of the image is modelled by x itself, so    *)
(* two bytes are equal only when they come from the same place.            *)
(***************************************************************************)
EXTENDS XdfsCommon

CONSTANTS
  Files,             \* The XdfsFile objects that OpenFile has returned.
  attributes_,       \* attributes_[f]: start_sector and size_bytes of f.
  ImageBytes,        \* Length of the image on the host.
  ReadSizes,         \* The max_to_read values callers use.
  SeekOffsets,       \* The offsets callers seek to.
  OtherOffsets,      \* Where other users of the backend leave the cursor.
  NoFile             \* No Read is in progress.

ASSUME ImageAssumption  == ImageBytes \in Nat
ASSUME AttributesAssumption ==
  attributes_ \in [Files -> [start_sector : Nat, size_bytes : Nat]]
ASSUME CallsAssumption ==
  /\ ReadSizes \subseteq Nat
  /\ SeekOffsets \subseteq Nat
  /\ OtherOffsets \subseteq Nat
  /\ NoFile \notin Files

VARIABLES
  cursor,            \* Offset of the host descriptor inside the backend.
  current_offset_,
  sector_offset_,    \* -1 until the first sector is loaded.
  current_sector_,
  reader,            \* The handle whose Read is in progress, or NoFile.
  max_to_read,       \* The argument of that Read.
  buffer,            \* What that Read has copied to its caller so far.
  aborted,           \* Why the process called abort(), or "no".
  returned,          \* History: all bytes Read returned, per handle.
  torn               \* History: handles whose Read failed between sectors.

handleVars == <<current_offset_, sector_offset_, current_sector_>>
callVars == <<reader, max_to_read, buffer>>
vars == <<cursor, handleVars, callVars, aborted, returned, torn>>

Junk == -1
Bytes == Nat \cup {Junk}
Size(f) == attributes_[f].size_bytes
-----------------------------------------------------------------------------
(* Mutant: ReadSector trusts the descriptor to be where it left it.        *)
SeekHostSkipped(offset) == cursor

(* Where the host descriptor stands after File::Seek(offset).              *)
SeekHost(offset) == offset

(* Mutant: the end of the image is not minded.                             *)
HostReadUnclamped(at) == [at |-> at, got |-> ImageBytes - at]

(* A host read of one sector at position at.  Past the end of the image    *)
(* the read is short and the rest of the Sector is uninitialized.          *)
HostRead(at) ==
  LET left == ImageBytes - at
  IN [at |-> at, got |-> IF left <= 0 THEN 0
                         ELSE IF left < kSectorSizeBytes THEN left
                         ELSE kSectorSizeBytes]

(* XdfsBackend::ReadSector: seek, then read; the byte count is ignored.    *)
ReadSector(offset) == HostRead(SeekHost(offset))

SectorByte(sector, k) == IF k < sector.got THEN sector.at + k ELSE Junk

(* Start of the sector that holds an offset of the file.                   *)
SectorStart(offset) == offset - (offset % kSectorSizeBytes)

(* Mutant: off by one at the end of the sector.                            *)
NeedsNextSectorLate(offset, start) == offset > start + kSectorSizeBytes

(* The condition under which Read leaves the buffered sector.              *)
NeedsNextSector(offset, start) == offset >= start + kSectorSizeBytes

(* CHECK(current_offset_ - sector_offset_ < kSectorSizeBytes) in size_t:   *)
(* a negative difference wraps to a huge number and fails too.             *)
CheckHolds(offset, start) ==
  /\ offset >= start
  /\ offset - start < kSectorSizeBytes

(* Mutant: std::min instead, which moves back inside the file.             *)
SeekTargetMin(f, offset) == IF offset <= Size(f) THEN offset ELSE Size(f)

(* XdfsFile::Seek: std::max of the offset and the size.                    *)
SeekTarget(f, offset) == IF offset >= Size(f) THEN offset ELSE Size(f)
-----------------------------------------------------------------------------
Init ==
  /\ cursor = 0
  /\ current_offset_ = [f \in Files |-> 0]
  /\ sector_offset_ = [f \in Files |-> -1]
  /\ current_sector_ = [f \in Files |-> [at |-> 0, got |-> 0]]
  /\ reader = NoFile
  /\ max_to_read = 0
  /\ buffer = <<>>
  /\ aborted = "no"
  /\ returned = [f \in Files |-> <<>>]
  /\ torn = {}

Running(f) == aborted = "no" /\ reader = f
Ready == aborted = "no" /\ reader = NoFile

(* The loop condition of Read.                                             *)
MoreToRead(f) ==
  /\ Len(buffer) < max_to_read
  /\ current_offset_[f] < Size(f)

Load(f, offset) ==
  /\ current_sector_' = [current_sector_ EXCEPT ![f] = ReadSector(offset)]
  /\ cursor' = ReadSector(offset).at + ReadSector(offset).got

(* buffer[i] = data[current_offset_ - sector_offset_] behind the CHECK.    *)
PutByte(f, start, sector) ==
  LET offset == current_offset_[f] IN
  IF CheckHolds(offset, start)
  THEN /\ buffer' = Append(buffer, SectorByte(sector, offset - start))
       /\ current_offset_' = [current_offset_ EXCEPT ![f] = offset + 1]
       /\ UNCHANGED aborted
  ELSE /\ aborted' = "check"
       /\ UNCHANGED <<buffer, current_offset_>>

(* The call ends.  After PASS_ERROR the caller learns no count.            *)
EndCall == reader' = NoFile /\ max_to_read' = 0 /\ buffer' = <<>>
-----------------------------------------------------------------------------
ReadCall(f, n) ==
  /\ Ready
  /\ reader' = f
  /\ max_to_read' = n
  /\ buffer' = <<>>
  /\ UNCHANGED <<cursor, handleVars, aborted, returned, torn>>

LoadFirstSector(f) ==
  /\ Running(f)
  /\ sector_offset_[f] < 0
  /\ Load(f, SectorToOffset(attributes_[f].start_sector))
  /\ sector_offset_' = [sector_offset_ EXCEPT ![f] = 0]
  /\ UNCHANGED <<current_offset_, callVars, aborted, returned, torn>>

(* The host Seek or Read failed: nothing of the handle has changed yet.    *)
LoadFirstSectorFails(f) ==
  /\ Running(f)
  /\ sector_offset_[f] < 0
  /\ cursor' \in {cursor, SeekHost(SectorToOffset(attributes_[f].start_sector))}
  /\ EndCall
  /\ UNCHANGED <<handleVars, aborted, returned, torn>>

CopyByte(f) ==
  /\ Running(f)
  /\ sector_offset_[f] >= 0
  /\ MoreToRead(f)
  /\ ~ NeedsNextSector(current_offset_[f], sector_offset_[f])
  /\ PutByte(f, sector_offset_[f], current_sector_[f])
  /\ UNCHANGED <<cursor, sector_offset_, current_sector_, reader, max_to_read,
                 returned, torn>>

CrossSector(f) ==
  LET start == SectorStart(current_offset_[f])
      at    == SectorToOffset(attributes_[f].start_sector) + start
  IN /\ Running(f)
     /\ sector_offset_[f] >= 0
     /\ MoreToRead(f)
     /\ NeedsNextSector(current_offset_[f], sector_offset_[f])
     /\ sector_offset_' = [sector_offset_ EXCEPT ![f] = start]
     /\ Load(f, at)
     /\ PutByte(f, start, ReadSector(at))
     /\ UNCHANGED <<reader, max_to_read, returned, torn>>

(* sector_offset_ is assigned before the ReadSector that fails;            *)
(* current_sector_ still holds the previous sector.                        *)
CrossSectorFails(f) ==
  LET start == SectorStart(current_offset_[f])
      at    == SectorToOffset(attributes_[f].start_sector) + start
  IN /\ Running(f)
     /\ sector_offset_[f] >= 0
     /\ MoreToRead(f)
     /\ NeedsNextSector(current_offset_[f], sector_offset_[f])
     /\ sector_offset_' = [sector_offset_ EXCEPT ![f] = start]
     /\ cursor' \in {cursor, SeekHost(at)}
     /\ EndCall
     /\ torn' = torn \cup {f}
     /\ UNCHANGED <<current_offset_, current_sector_, aborted, returned>>

(* Mutant: Read insists on a full buffer, at the end of the file too.      *)
ReadReturnWhenFull(f) ==
  /\ Running(f)
  /\ sector_offset_[f] >= 0
  /\ Len(buffer) = max_to_read
  /\ returned' = [returned EXCEPT ![f] = @ \o buffer]
  /\ EndCall
  /\ UNCHANGED <<cursor, handleVars, aborted, torn>>

ReadReturn(f) ==
  /\ Running(f)
  /\ sector_offset_[f] >= 0
  /\ ~ MoreToRead(f)
  /\ returned' = [returned EXCEPT ![f] = @ \o buffer]
  /\ EndCall
  /\ UNCHANGED <<cursor, handleVars, aborted, torn>>

Seek(f, offset) ==
  /\ Ready
  /\ current_offset_' = [current_offset_ EXCEPT ![f] = SeekTarget(f, offset)]
  /\ UNCHANGED <<cursor, sector_offset_, current_sector_, callVars,
                 aborted, returned, torn>>

(* XdfsFile::Write is FAIL: the file system is read-only.                  *)
Write(f) ==
  /\ Ready
  /\ aborted' = "write"
  /\ UNCHANGED <<cursor, handleVars, callVars, returned, torn>>

(* A directory listing or a path lookup through the same backend.          *)
OtherBackendUse ==
  /\ Ready
  /\ cursor' \in OtherOffsets
  /\ UNCHANGED <<handleVars, callVars, aborted, returned, torn>>

ReadStep(f) ==
  \/ LoadFirstSector(f)
  \/ LoadFirstSectorFails(f)
  \/ CopyByte(f)
  \/ CrossSector(f)
  \/ CrossSectorFails(f)
  \/ ReadReturn(f)

Next ==
  \/ \E f \in Files :
       \/ \E n \in ReadSizes : ReadCall(f, n)
       \/ \E offset \in SeekOffsets : Seek(f, offset)
       \/ ReadStep(f)
       \/ Write(f)
  \/ OtherBackendUse

(* The thread inside Read keeps running; the host need not fail, nobody is *)
(* obliged to call Read.                                                   *)
Fairness ==
  \A f \in Files :
    WF_vars(LoadFirstSector(f) \/ CopyByte(f) \/ CrossSector(f) \/ ReadReturn(f))

Spec == Init /\ [][Next]_vars
FairSpec == Spec /\ Fairness
-----------------------------------------------------------------------------
(* A byte of the image, or an uninitialized one past its end.              *)
HostByte(x) == IF x < ImageBytes THEN x ELSE Junk

(* Where Read looks for the first byte of f.                               *)
Base(f) == SectorToOffset(attributes_[f].start_sector)

(* Where the first byte of f is.                                           *)
TrueBase(f) == attributes_[f].start_sector * kSectorSizeBytes

(* The file lies inside the image and below 4 GiB, where SectorToOffset    *)
(* does not wrap.                                                          *)
Fits(f) ==
  /\ TrueBase(f) < OffsetModulus
  /\ TrueBase(f) + Size(f) <= ImageBytes

(* The bytes of each file, in order.                                       *)
FileBytes ==
  [f \in Files |-> [k \in 1 .. Size(f) |-> TrueBase(f) + k - 1]]

Misplaced == {f \in Files : ~ Fits(f)}

Stream == INSTANCE FileStream
            WITH Content <- FileBytes, released <- torn \cup Misplaced

(* The handle's variables and the call's have their types.                 *)
TypeOK ==
  /\ cursor \in Nat
  /\ current_offset_ \in [Files -> Nat]
  /\ sector_offset_ \in [Files -> Nat \cup {-1}]
  /\ current_sector_ \in [Files -> [at : Nat, got : 0 .. kSectorSizeBytes]]
  /\ reader \in Files \cup {NoFile}
  /\ max_to_read \in Nat
  /\ buffer \in Seq(Bytes)
  /\ aborted \in {"no", "check", "write"}
  /\ returned \in [Files -> Seq(Bytes)]
  /\ torn \in SUBSET Files

(* The CHECK inside the loop of Read (xdfs_file.cc:30) never fails, in     *)
(* whatever order reads, failed reads and seeks are mixed: the buffered    *)
(* sector is never ahead of the offset that is copied.  Read itself only   *)
(* looks forward (line 22); this holds because Seek never moves to an      *)
(* offset that is still to be copied.                                      *)
CheckNeverFails == aborted # "check"

(* Every handle is a stream of its own file: see FileStream.  A handle is  *)
(* released from it after a failed read between two sectors, or when its   *)
(* file does not fit.                                                      *)
IsStream == Stream!Spec

(* Once called, Read returns a count or an error, or the process ends.     *)
ReadEnds == \A f \in Files : (reader = f) ~> (reader = NoFile \/ aborted # "no")

(* xdfs_file.h:21 calls current_offset_ the "Current offset within file".  *)
OffsetWithinFile == \A f \in Files : current_offset_[f] <= Size(f)

(* xdfs_file.h:23-26: current_sector_ is "The most recent sector read" and *)
(* sector_offset_ the "Offset of sector start relative to start of file":  *)
(* together, between two calls, the buffered sector is the one that        *)
(* sector_offset_ tells.                                                   *)
BufferMatchesOffset ==
  \A f \in Files :
    sector_offset_[f] >= 0 =>
      current_sector_[f].at = Base(f) + sector_offset_[f]
-----------------------------------------------------------------------------
(* The inductive strengthening, in named parts.                            *)

(* The host bytes behind the buffer of a handle that is not torn.          *)
SectorInv ==
  \A f \in Files \ torn :
    sector_offset_[f] >= 0 =>
      current_sector_[f] = HostRead(Base(f) + sector_offset_[f])

(* While bytes remain, the offset is in the buffered sector or just        *)
(* behind it.                                                              *)
OffsetInv ==
  \A f \in Files :
    current_offset_[f] < Size(f) =>
      IF sector_offset_[f] < 0
      THEN current_offset_[f] = 0
      ELSE /\ sector_offset_[f] <= current_offset_[f]
           /\ current_offset_[f] <= sector_offset_[f] + kSectorSizeBytes

Copied(f) == IF reader = f THEN buffer ELSE <<>>

(* While bytes remain, the offset counts what the caller has got.          *)
CountInv ==
  \A f \in Files \ torn :
    /\ Len(returned[f]) + Len(Copied(f)) <= Size(f)
    /\ current_offset_[f] < Size(f) =>
         current_offset_[f] = Len(returned[f]) + Len(Copied(f))

(* What the caller has got is the file's prefix.                           *)
BytesInv ==
  \A f \in Files \ torn :
    /\ \A k \in 1 .. Len(returned[f]) : returned[f][k] = HostByte(Base(f) + k - 1)
    /\ \A k \in 1 .. Len(Copied(f)) :
         Copied(f)[k] = HostByte(Base(f) + Len(returned[f]) + k - 1)

CallInv == reader = NoFile => buffer = <<>>

IInv == /\ TypeOK /\ CallInv /\ SectorInv /\ OffsetInv /\ CountInv /\ BytesInv
        /\ CheckNeverFails
=============================================================================
