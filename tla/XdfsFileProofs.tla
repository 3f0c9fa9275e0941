--------------------------- MODULE XdfsFileProofs ---------------------------
(***************************************************************************)
(* Proofs about XdfsFile, for every set of files, every sector size and    *)
(* every image.                                                            *)
(***************************************************************************)
EXTENDS XdfsFile, TLAPS

(* The remainder the size_t arithmetic of Read and SectorToOffset uses.    *)
LEMMA ModFacts ==
  ASSUME NEW a \in Nat, NEW n \in Nat \ {0}
  PROVE  /\ a % n \in Nat
         /\ a % n < n
  OBVIOUS

(* Rounding down to a sector never goes below zero.                        *)
LEMMA ModLeq ==
  ASSUME NEW a \in Nat, NEW n \in Nat \ {0}
  PROVE  a % n <= a
  OBVIOUS

(* buffer[i] = byte extends the buffer by a byte.                          *)
LEMMA AppendType ==
  ASSUME NEW S, NEW s \in Seq(S), NEW e \in S
  PROVE  Append(s, e) \in Seq(S)
OBVIOUS

(* A host read fills between none and all of a Sector.                     *)
LEMMA HostReadType ==
  ASSUME NEW at \in Nat
  PROVE  HostRead(at) \in [at : Nat, got : 0 .. kSectorSizeBytes]
BY SectorAssumption, ImageAssumption DEF HostRead

(* Byte k of the sector read at some position is the image's byte there,   *)
(* or an uninitialized one beyond the end of the image.                    *)
LEMMA HostReadByte ==
  ASSUME NEW at \in Nat, NEW k \in Nat, k < kSectorSizeBytes
  PROVE  SectorByte(HostRead(at), k) = HostByte(at + k)
BY SectorAssumption, ImageAssumption DEF HostRead, SectorByte, HostByte

(* The sector Read crosses into holds the offset it is about to copy       *)
(* (xdfs_file.cc:24).                                                      *)
LEMMA SectorStartFacts ==
  ASSUME NEW offset \in Nat
  PROVE  /\ SectorStart(offset) \in Nat
         /\ SectorStart(offset) <= offset
         /\ offset - SectorStart(offset) < kSectorSizeBytes
BY ModFacts, ModLeq, SectorAssumption DEF SectorStart

(* What a DirEntry tells of a file, and the offset Read starts from.       *)
LEMMA FileTypes ==
  ASSUME NEW f \in Files
  PROVE  /\ attributes_[f].start_sector \in Nat
         /\ Size(f) \in Nat
         /\ Base(f) \in Nat
         /\ SectorToOffset(attributes_[f].start_sector) = Base(f)
<1>1. attributes_[f].start_sector \in Nat /\ Size(f) \in Nat
  BY AttributesAssumption DEF Size
<1>2. attributes_[f].start_sector * kSectorSizeBytes \in Nat
  BY <1>1, SectorAssumption
<1>3. QED
  BY <1>1, <1>2, ModFacts, WidthAssumption DEF Base, SectorToOffset

(***************************************************************************)
(* Types.                                                                  *)
(***************************************************************************)
(* XdfsBackend::ReadSector leaves a Sector and a host offset.              *)
LEMMA LoadType ==
  ASSUME NEW f \in Files, NEW offset \in Nat, TypeOK, Load(f, offset)
  PROVE  /\ current_sector_' \in [Files -> [at : Nat, got : 0 .. kSectorSizeBytes]]
         /\ cursor' \in Nat
<1>1. ReadSector(offset) \in [at : Nat, got : 0 .. kSectorSizeBytes]
  BY HostReadType DEF ReadSector, SeekHost
<1>2. QED
  BY <1>1, SectorAssumption DEF Load, TypeOK

(* The CHECK of xdfs_file.cc:30 makes the index of line 31 a valid one.    *)
LEMMA PutByteType ==
  ASSUME NEW f \in Files, NEW start \in Nat,
         NEW sector \in [at : Nat, got : 0 .. kSectorSizeBytes],
         TypeOK, PutByte(f, start, sector)
  PROVE  /\ buffer' \in Seq(Bytes)
         /\ current_offset_' \in [Files -> Nat]
         /\ aborted' \in {"no", "check", "write"}
<1>1. CASE CheckHolds(current_offset_[f], start)
  <2>1. SectorByte(sector, current_offset_[f] - start) \in Bytes
    BY <1>1, SectorAssumption DEF TypeOK, CheckHolds, SectorByte, Bytes
  <2>2. /\ buffer' = Append(buffer, SectorByte(sector, current_offset_[f] - start))
        /\ current_offset_' = [current_offset_ EXCEPT ![f] = current_offset_[f] + 1]
        /\ aborted' = aborted
    BY <1>1 DEF PutByte
  <2>3. buffer' \in Seq(Bytes)
    <3>1. buffer \in Seq(Bytes)
      BY DEF TypeOK
    <3>2. QED
      BY <2>1, <2>2, <3>1, AppendType
  <2>4. QED
    BY <2>2, <2>3 DEF TypeOK
<1>2. CASE ~ CheckHolds(current_offset_[f], start)
  BY <1>2 DEF PutByte, TypeOK
<1>3. QED
  BY <1>1, <1>2

(* The sector that CrossSector loads.                                      *)
LEMMA CrossingType ==
  ASSUME NEW f \in Files, TypeOK
  PROVE  /\ SectorStart(current_offset_[f]) \in Nat
         /\ Base(f) + SectorStart(current_offset_[f]) \in Nat
         /\ ReadSector(Base(f) + SectorStart(current_offset_[f]))
              \in [at : Nat, got : 0 .. kSectorSizeBytes]
<1>1. current_offset_[f] \in Nat
  BY DEF TypeOK
<1>2. SectorStart(current_offset_[f]) \in Nat
  BY <1>1, SectorStartFacts
<1>3. QED
  BY <1>2, FileTypes, HostReadType DEF ReadSector, SeekHost

(* Every step keeps the types: the CHECK of PutByte makes the index into   *)
(* the sector a valid one, and SectorStart rounds down within Nat.         *)
LEMMA TypeStep == TypeOK /\ [Next]_vars => TypeOK'
<1> SUFFICES ASSUME TypeOK, [Next]_vars PROVE TypeOK'
  OBVIOUS
<1>1. ASSUME NEW f \in Files, NEW n \in ReadSizes, ReadCall(f, n)
      PROVE  TypeOK'
  BY <1>1, CallsAssumption DEF ReadCall, TypeOK, handleVars
<1>2. ASSUME NEW f \in Files, LoadFirstSector(f)
      PROVE  TypeOK'
  BY <1>2, LoadType, FileTypes DEF LoadFirstSector, TypeOK, callVars
<1>3. ASSUME NEW f \in Files, LoadFirstSectorFails(f)
      PROVE  TypeOK'
  <2>1. cursor' \in Nat
    BY <1>3, FileTypes DEF LoadFirstSectorFails, TypeOK, SeekHost
  <2>2. QED
    BY <1>3, <2>1 DEF LoadFirstSectorFails, TypeOK, handleVars, EndCall
<1>4. ASSUME NEW f \in Files, CopyByte(f)
      PROVE  TypeOK'
  <2>1. /\ sector_offset_[f] \in Nat
        /\ current_sector_[f] \in [at : Nat, got : 0 .. kSectorSizeBytes]
    BY <1>4 DEF CopyByte, TypeOK
  <2>2. QED
    BY <1>4, <2>1, PutByteType DEF CopyByte, TypeOK
<1>5. ASSUME NEW f \in Files, CrossSector(f)
      PROVE  TypeOK'
  BY <1>5, CrossingType, LoadType, PutByteType, FileTypes
     DEF CrossSector, TypeOK
<1>6. ASSUME NEW f \in Files, CrossSectorFails(f)
      PROVE  TypeOK'
  <2>1. cursor' \in Nat
    BY <1>6, CrossingType, FileTypes DEF CrossSectorFails, TypeOK, SeekHost
  <2>2. sector_offset_' \in [Files -> Nat \cup {-1}]
    BY <1>6, CrossingType DEF CrossSectorFails, TypeOK
  <2>3. QED
    BY <1>6, <2>1, <2>2 DEF CrossSectorFails, TypeOK, EndCall
<1>7. ASSUME NEW f \in Files, ReadReturn(f)
      PROVE  TypeOK'
  BY <1>7 DEF ReadReturn, TypeOK, handleVars, EndCall
<1>8. ASSUME NEW f \in Files, NEW offset \in SeekOffsets, Seek(f, offset)
      PROVE  TypeOK'
  BY <1>8, FileTypes, CallsAssumption DEF Seek, SeekTarget, TypeOK, callVars
<1>9. ASSUME NEW f \in Files, Write(f)
      PROVE  TypeOK'
  BY <1>9 DEF Write, TypeOK, handleVars, callVars
<1>10. CASE OtherBackendUse
  BY <1>10, CallsAssumption DEF OtherBackendUse, TypeOK, handleVars, callVars
<1>11. CASE UNCHANGED vars
  BY <1>11 DEF vars, TypeOK, handleVars, callVars
<1>12. QED
  BY <1>1, <1>2, <1>3, <1>4, <1>5, <1>6, <1>7, <1>8, <1>9, <1>10, <1>11
     DEF Next, ReadStep

(* A fresh XdfsFile: no sector loaded, offset zero.                        *)
LEMMA TypeCorrectInit == Init => TypeOK
BY SectorAssumption DEF Init, TypeOK

(* Every variable of the reader keeps its type.                            *)
THEOREM TypeCorrect == Spec => []TypeOK
BY TypeCorrectInit, TypeStep, PTL DEF Spec
-----------------------------------------------------------------------------
(***************************************************************************)
(* The inductive invariant.                                                *)
(***************************************************************************)

(* Copying one byte out of the right sector: the byte is the file's next   *)
(* one, and the CHECK holds.                                               *)
LEMMA PutByteKeeps ==
  ASSUME IInv, NEW f \in Files, NEW start \in Nat,
         NEW sector \in [at : Nat, got : 0 .. kSectorSizeBytes],
         f \notin torn => sector = HostRead(Base(f) + start),
         reader = f, MoreToRead(f), aborted = "no",
         start <= current_offset_[f],
         current_offset_[f] < start + kSectorSizeBytes,
         PutByte(f, start, sector),
         sector_offset_' = [sector_offset_ EXCEPT ![f] = start],
         UNCHANGED <<reader, max_to_read, returned, torn>>
  PROVE  OffsetInv' /\ CountInv' /\ BytesInv' /\ CheckNeverFails'
<1> DEFINE cur == current_offset_[f]
           byte == SectorByte(sector, cur - start)
<1>1. /\ cur \in Nat /\ buffer \in Seq(Bytes)
      /\ current_offset_ \in [Files -> Nat]
      /\ sector_offset_ \in [Files -> Nat \cup {-1}]
      /\ returned \in [Files -> Seq(Bytes)]
      /\ kSectorSizeBytes \in Nat
      /\ Size(f) \in Nat /\ Base(f) \in Nat
  BY SectorAssumption, FileTypes DEF IInv, TypeOK
<1>2. CheckHolds(cur, start)
  BY <1>1 DEF CheckHolds
<1>3. /\ buffer' = Append(buffer, byte)
      /\ current_offset_' = [current_offset_ EXCEPT ![f] = cur + 1]
      /\ aborted' = aborted
  BY <1>2 DEF PutByte
<1>4. CheckNeverFails'
  BY <1>3 DEF CheckNeverFails
<1>5. OffsetInv'
  BY <1>1, <1>3, FileTypes DEF IInv, OffsetInv, Size
<1>6. cur < Size(f)
  BY DEF MoreToRead
<1>7. /\ Len(buffer') = Len(buffer) + 1
      /\ Len(buffer) \in Nat
      /\ \A k \in 1 .. Len(buffer) : buffer'[k] = buffer[k]
      /\ buffer'[Len(buffer) + 1] = byte
  BY <1>1, <1>3
<1>8. CountInv'
  <2> SUFFICES ASSUME NEW g \in Files \ torn
               PROVE  /\ Len(returned[g]) + Len(Copied(g)') <= Size(g)
                      /\ current_offset_'[g] < Size(g) =>
                           current_offset_'[g] = Len(returned[g]) + Len(Copied(g)')
    BY DEF CountInv, Size
  <2>1. CASE g = f
    <3>1. Copied(g) = buffer /\ Copied(g)' = buffer'
      BY <2>1 DEF Copied
    <3>2. cur = Len(returned[f]) + Len(buffer)
      BY <2>1, <3>1, <1>6 DEF IInv, CountInv
    <3>3. Len(returned[f]) \in Nat
      BY <1>1
    <3>4. QED
      BY <2>1, <3>1, <3>2, <3>3, <1>1, <1>3, <1>6, <1>7
  <2>2. CASE g # f
    <3>1. Copied(g) = <<>> /\ Copied(g)' = <<>>
      BY <2>2 DEF Copied
    <3>2. current_offset_'[g] = current_offset_[g]
      BY <2>2, <1>1, <1>3
    <3>3. QED
      BY <3>1, <3>2 DEF IInv, CountInv
  <2>3. QED
    BY <2>1, <2>2
<1>9. BytesInv'
  <2> SUFFICES ASSUME NEW g \in Files \ torn
               PROVE  \A k \in 1 .. Len(Copied(g)') :
                        Copied(g)'[k] = HostByte(Base(g) + Len(returned[g]) + k - 1)
    BY DEF IInv, BytesInv, Base, HostByte
  <2>1. CASE g = f
    <3>1. Copied(g) = buffer /\ Copied(g)' = buffer'
      BY <2>1 DEF Copied
    <3>2. cur = Len(returned[f]) + Len(buffer)
      BY <2>1, <3>1, <1>6 DEF IInv, CountInv
    <3>3. \A k \in 1 .. Len(buffer) :
            buffer[k] = HostByte(Base(f) + Len(returned[f]) + k - 1)
      BY <2>1, <3>1 DEF IInv, BytesInv
    <3>4. byte = HostByte(Base(f) + cur)
      <4>1. Base(f) + start \in Nat /\ cur - start \in Nat
            /\ cur - start < kSectorSizeBytes
        BY <1>1
      <4>2. byte = HostByte((Base(f) + start) + (cur - start))
        BY <2>1, <4>1, HostReadByte
      <4>3. (Base(f) + start) + (cur - start) = Base(f) + cur
        BY <1>1
      <4>4. QED
        BY <4>2, <4>3
    <3>5. Len(returned[f]) \in Nat
      BY <1>1
    <3>6. Base(f) + cur = Base(f) + Len(returned[f]) + (Len(buffer) + 1) - 1
      BY <1>1, <1>7, <3>2, <3>5
    <3>7. QED
      BY <2>1, <3>1, <3>3, <3>4, <3>6, <1>7
  <2>2. CASE g # f
    BY <2>2 DEF Copied
  <2>3. QED
    BY <2>1, <2>2
<1>10. QED
  BY <1>4, <1>5, <1>8, <1>9

(* Steps that leave every handle and all history alone and have no bytes   *)
(* in flight before or after.                                              *)
LEMMA QuietKeeps ==
  ASSUME IInv, UNCHANGED <<handleVars, returned, torn>>,
         buffer = <<>>, buffer' = <<>>, aborted' # "check"
  PROVE  /\ SectorInv' /\ OffsetInv' /\ CountInv' /\ BytesInv'
         /\ CheckNeverFails' /\ CallInv'
<1>1. \A f \in Files : Copied(f) = <<>> /\ Copied(f)' = <<>>
  BY DEF Copied
<1>2. SectorInv' /\ OffsetInv'
  BY DEF IInv, handleVars, SectorInv, OffsetInv, Base, Size, HostRead
<1>3. CountInv' /\ BytesInv'
  BY <1>1 DEF IInv, handleVars, CountInv, BytesInv, Base, Size, HostByte
<1>4. QED
  BY <1>2, <1>3 DEF CheckNeverFails, CallInv

(* A failed call: the bytes in flight are lost.  Unless the handle is torn *)
(* by it, nothing had been copied.                                         *)
LEMMA FailKeeps ==
  ASSUME IInv, NEW f \in Files, reader = f, EndCall, aborted' = aborted,
         UNCHANGED <<current_offset_, current_sector_, returned>>,
         \/ UNCHANGED <<sector_offset_, torn>> /\ sector_offset_[f] < 0
         \/ /\ torn' = torn \cup {f}
            /\ \A g \in Files \ {f} : sector_offset_'[g] = sector_offset_[g]
  PROVE  SectorInv' /\ CountInv' /\ BytesInv' /\ CheckNeverFails' /\ CallInv'
<1>1. \A g \in Files : Copied(g)' = <<>>
  BY DEF Copied, EndCall
<1>2. \A g \in Files \ {f} : Copied(g) = <<>>
  BY DEF Copied
<1>3. SectorInv'
  BY DEF IInv, SectorInv, Base, HostRead
<1>4. CountInv'
  <2> SUFFICES ASSUME NEW g \in Files \ torn'
               PROVE  /\ Len(returned[g]) <= Size(g)
                      /\ current_offset_[g] < Size(g) =>
                           current_offset_[g] = Len(returned[g])
    BY <1>1 DEF CountInv, Size, IInv, TypeOK
  <2>1. CASE g # f
    <3>1. Copied(g) = <<>> /\ g \notin torn
      BY <2>1, <1>2
    <3>2. Len(returned[g]) \in Nat
      BY DEF IInv, TypeOK
    <3>3. /\ Len(returned[g]) + Len(<<>>) <= Size(g)
          /\ current_offset_[g] < Size(g) =>
               current_offset_[g] = Len(returned[g]) + Len(<<>>)
      BY <3>1 DEF IInv, CountInv
    <3>4. QED
      BY <3>2, <3>3
  <2>2. CASE g = f
    <3>1. sector_offset_[f] < 0 /\ f \notin torn
      BY <2>2
    <3>2. /\ Len(returned[f]) \in Nat /\ Len(buffer) \in Nat
          /\ Size(f) \in Nat /\ current_offset_[f] \in Nat
          /\ Copied(f) = buffer
      BY FileTypes DEF IInv, TypeOK, Copied
    <3>3. current_offset_[f] < Size(f) => current_offset_[f] = 0
      BY <3>1 DEF IInv, OffsetInv
    <3>4. /\ Len(returned[f]) + Len(buffer) <= Size(f)
          /\ current_offset_[f] < Size(f) =>
               current_offset_[f] = Len(returned[f]) + Len(buffer)
      BY <3>1, <3>2 DEF IInv, CountInv
    <3>5. QED
      BY <2>2, <3>2, <3>3, <3>4
  <2>3. QED
    BY <2>1, <2>2
<1>5. BytesInv'
  BY <1>1 DEF IInv, BytesInv, Base, HostByte
<1>6. QED
  BY <1>3, <1>4, <1>5 DEF CheckNeverFails, CallInv, EndCall, IInv

(* Every step of the program keeps the invariant.                          *)
LEMMA IInvStep == IInv /\ [Next]_vars => IInv'
<1> SUFFICES ASSUME IInv, [Next]_vars PROVE IInv'
  OBVIOUS
<1>0. TypeOK /\ TypeOK'
  BY TypeStep DEF IInv
<1>1. ASSUME NEW f \in Files, NEW n \in ReadSizes, ReadCall(f, n)
      PROVE  IInv'
  <2>1. buffer = <<>> /\ buffer' = <<>>
    BY <1>1 DEF ReadCall, Ready, IInv, CallInv
  <2>2. QED
    BY <1>0, <1>1, <2>1, QuietKeeps DEF ReadCall, Ready, IInv
<1>2. ASSUME NEW f \in Files, LoadFirstSector(f)
      PROVE  IInv'
  <2>1. /\ current_sector_' = [current_sector_ EXCEPT ![f] = HostRead(Base(f))]
        /\ sector_offset_' = [sector_offset_ EXCEPT ![f] = 0]
        /\ sector_offset_[f] < 0
        /\ UNCHANGED <<current_offset_, callVars, aborted, returned, torn>>
    BY <1>2, FileTypes DEF LoadFirstSector, Load, ReadSector, SeekHost
  <2>2. SectorInv'
    BY <1>0, <2>1, FileTypes DEF IInv, SectorInv, TypeOK, Base, HostRead
  <2>3. OffsetInv'
    BY <1>0, <2>1, SectorAssumption DEF IInv, OffsetInv, TypeOK, Size
  <2>4. CountInv' /\ BytesInv'
    BY <2>1 DEF IInv, CountInv, BytesInv, Copied, callVars, Base, Size, HostByte
  <2>5. CallInv' /\ CheckNeverFails'
    BY <2>1 DEF IInv, CallInv, CheckNeverFails, callVars
  <2>6. QED
    BY <1>0, <2>2, <2>3, <2>4, <2>5 DEF IInv
<1>3. ASSUME NEW f \in Files, LoadFirstSectorFails(f)
      PROVE  IInv'
  <2>1. SectorInv' /\ CountInv' /\ BytesInv' /\ CheckNeverFails' /\ CallInv'
    BY <1>3, FailKeeps DEF LoadFirstSectorFails, Running, handleVars
  <2>2. OffsetInv'
    BY <1>3 DEF LoadFirstSectorFails, handleVars, IInv, OffsetInv, Size
  <2>3. QED
    BY <1>0, <2>1, <2>2 DEF IInv
<1>4. ASSUME NEW f \in Files, CopyByte(f)
      PROVE  IInv'
  <2> DEFINE start == sector_offset_[f]
  <2>1. /\ start \in Nat /\ current_offset_[f] \in Nat /\ kSectorSizeBytes \in Nat
        /\ reader = f /\ MoreToRead(f) /\ aborted = "no"
        /\ current_offset_[f] < start + kSectorSizeBytes
        /\ PutByte(f, start, current_sector_[f])
        /\ UNCHANGED <<sector_offset_, current_sector_, reader, max_to_read,
                       returned, torn>>
    BY <1>0, <1>4, SectorAssumption
       DEF CopyByte, Running, NeedsNextSector, TypeOK
  <2>2. start <= current_offset_[f]
    BY <2>1 DEF MoreToRead, IInv, OffsetInv
  <2>3. f \notin torn => current_sector_[f] = HostRead(Base(f) + start)
    BY <2>1 DEF IInv, SectorInv
  <2>4. /\ sector_offset_' = [sector_offset_ EXCEPT ![f] = start]
        /\ current_sector_[f] \in [at : Nat, got : 0 .. kSectorSizeBytes]
    BY <1>0, <2>1 DEF TypeOK
  <2>5. OffsetInv' /\ CountInv' /\ BytesInv' /\ CheckNeverFails'
    BY <2>1, <2>2, <2>3, <2>4, PutByteKeeps
  <2>6. SectorInv'
    BY <2>1 DEF IInv, SectorInv, Base, HostRead
  <2>7. CallInv'
    BY <2>1, CallsAssumption DEF CallInv
  <2>8. QED
    BY <1>0, <2>5, <2>6, <2>7 DEF IInv
<1>5. ASSUME NEW f \in Files, CrossSector(f)
      PROVE  IInv'
  <2> DEFINE start  == SectorStart(current_offset_[f])
             sector == HostRead(Base(f) + start)
  <2>1. /\ current_offset_[f] \in Nat /\ start \in Nat
        /\ start <= current_offset_[f]
        /\ current_offset_[f] < start + kSectorSizeBytes
        /\ sector \in [at : Nat, got : 0 .. kSectorSizeBytes]
    <3>1. current_offset_[f] \in Nat /\ Base(f) \in Nat /\ kSectorSizeBytes \in Nat
      BY <1>0, SectorAssumption, FileTypes DEF TypeOK
    <3>2. /\ start \in Nat /\ start <= current_offset_[f]
          /\ current_offset_[f] - start < kSectorSizeBytes
      BY <3>1, SectorStartFacts
    <3>3. QED
      BY <3>1, <3>2, HostReadType
  <2>2. /\ reader = f /\ MoreToRead(f) /\ aborted = "no"
        /\ sector_offset_' = [sector_offset_ EXCEPT ![f] = start]
        /\ current_sector_' = [current_sector_ EXCEPT ![f] = sector]
        /\ PutByte(f, start, sector)
        /\ UNCHANGED <<reader, max_to_read, returned, torn>>
    BY <1>5, FileTypes DEF CrossSector, Running, Load, ReadSector, SeekHost
  <2>3. OffsetInv' /\ CountInv' /\ BytesInv' /\ CheckNeverFails'
    BY <2>1, <2>2, PutByteKeeps
  <2>4. SectorInv'
    BY <1>0, <2>2 DEF IInv, SectorInv, TypeOK, Base, HostRead
  <2>5. CallInv'
    BY <2>2, CallsAssumption DEF CallInv
  <2>6. QED
    BY <1>0, <2>3, <2>4, <2>5 DEF IInv
<1>6. ASSUME NEW f \in Files, CrossSectorFails(f)
      PROVE  IInv'
  <2> DEFINE start == SectorStart(current_offset_[f])
  <2>1. /\ reader = f /\ EndCall /\ aborted' = aborted
        /\ UNCHANGED <<current_offset_, current_sector_, returned>>
        /\ torn' = torn \cup {f}
        /\ sector_offset_' = [sector_offset_ EXCEPT ![f] = start]
    BY <1>6 DEF CrossSectorFails, Running
  <2>2. \A g \in Files \ {f} : sector_offset_'[g] = sector_offset_[g]
    BY <1>0, <2>1 DEF TypeOK
  <2>3. SectorInv' /\ CountInv' /\ BytesInv' /\ CheckNeverFails' /\ CallInv'
    BY <2>1, <2>2, FailKeeps
  <2>4. /\ current_offset_[f] \in Nat /\ start \in Nat
        /\ start <= current_offset_[f]
        /\ current_offset_[f] < start + kSectorSizeBytes
    <3>1. current_offset_[f] \in Nat /\ kSectorSizeBytes \in Nat
      BY <1>0, SectorAssumption DEF TypeOK
    <3>2. /\ start \in Nat /\ start <= current_offset_[f]
          /\ current_offset_[f] - start < kSectorSizeBytes
      BY <3>1, SectorStartFacts
    <3>3. QED
      BY <3>1, <3>2
  <2>5. OffsetInv'
    BY <1>0, <2>1, <2>4, SectorAssumption DEF IInv, OffsetInv, TypeOK, Size
  <2>6. QED
    BY <1>0, <2>3, <2>5 DEF IInv
<1>7. ASSUME NEW f \in Files, ReadReturn(f)
      PROVE  IInv'
  <2>1. /\ reader = f /\ reader' = NoFile /\ buffer' = <<>>
        /\ returned' = [returned EXCEPT ![f] = @ \o buffer]
        /\ UNCHANGED <<handleVars, aborted, torn>>
    BY <1>7 DEF ReadReturn, Running, EndCall
  <2>2. /\ buffer \in Seq(Bytes) /\ returned[f] \in Seq(Bytes)
        /\ \A g \in Files : Copied(g)' = <<>>
        /\ \A g \in Files \ {f} : Copied(g) = <<>> /\ returned'[g] = returned[g]
        /\ Copied(f) = buffer
        /\ returned'[f] = returned[f] \o buffer
    BY <1>0, <2>1 DEF TypeOK, Copied
  <2>3. /\ Len(returned'[f]) = Len(returned[f]) + Len(buffer)
        /\ Len(returned[f]) \in Nat /\ Len(buffer) \in Nat
        /\ \A k \in 1 .. Len(returned[f]) : returned'[f][k] = returned[f][k]
        /\ \A k \in Len(returned[f]) + 1 .. Len(returned[f]) + Len(buffer) :
             returned'[f][k] = buffer[k - Len(returned[f])]
    BY <2>2
  <2>4. SectorInv' /\ OffsetInv' /\ CallInv' /\ CheckNeverFails'
    BY <2>1 DEF IInv, handleVars, SectorInv, OffsetInv, Base, Size, HostRead,
                CallInv, CheckNeverFails
  <2>5. CountInv'
    <3> SUFFICES ASSUME NEW g \in Files \ torn
                 PROVE  /\ Len(returned'[g]) <= Size(g)
                        /\ current_offset_[g] < Size(g) =>
                             current_offset_[g] = Len(returned'[g])
      <4>1. \A g \in Files : /\ Copied(g)' = <<>>
                             /\ returned'[g] \in Seq(Bytes)
                             /\ current_offset_'[g] = current_offset_[g]
        BY <1>0, <2>1, <2>2 DEF TypeOK, handleVars
      <4>2. \A g \in Files : Len(returned'[g]) + Len(Copied(g)') = Len(returned'[g])
        BY <4>1
      <4>3. QED
        BY <2>1, <4>1, <4>2 DEF CountInv, Size
    <3>1. CASE g = f
      BY <3>1, <2>2, <2>3 DEF IInv, CountInv
    <3>2. CASE g # f
      <4>1. Copied(g) = <<>> /\ returned'[g] = returned[g]
        BY <3>2, <2>2
      <4>2. Len(returned[g]) \in Nat
        BY <1>0 DEF TypeOK
      <4>3. QED
        BY <4>1, <4>2 DEF IInv, CountInv
    <3>3. QED
      BY <3>1, <3>2
  <2>6. BytesInv'
    <3> SUFFICES ASSUME NEW g \in Files \ torn, NEW k \in 1 .. Len(returned'[g])
                 PROVE  returned'[g][k] = HostByte(Base(g) + k - 1)
      BY <2>1, <2>2 DEF BytesInv, Base, HostByte
    <3>1. CASE g # f
      BY <3>1, <2>2 DEF IInv, BytesInv
    <3>2. CASE g = f /\ k <= Len(returned[f])
      BY <3>2, <2>3 DEF IInv, BytesInv
    <3>3. CASE g = f /\ k > Len(returned[f])
      <4> DEFINE j == k - Len(returned[f])
      <4>1. j \in 1 .. Len(buffer) /\ returned'[f][k] = buffer[j]
        BY <3>3, <2>3
      <4>2. buffer[j] = HostByte(Base(f) + Len(returned[f]) + j - 1)
        BY <3>3, <4>1, <2>2 DEF IInv, BytesInv
      <4>3. Base(f) + Len(returned[f]) + j - 1 = Base(f) + k - 1
        BY <2>3, <3>3, FileTypes
      <4>4. QED
        BY <3>3, <4>1, <4>2, <4>3
    <3>4. QED
      BY <3>1, <3>2, <3>3, <2>3
  <2>7. QED
    BY <1>0, <2>4, <2>5, <2>6 DEF IInv
<1>8. ASSUME NEW f \in Files, NEW offset \in SeekOffsets, Seek(f, offset)
      PROVE  IInv'
  <2>1. /\ current_offset_' = [current_offset_ EXCEPT ![f] = SeekTarget(f, offset)]
        /\ UNCHANGED <<sector_offset_, current_sector_, callVars, aborted,
                       returned, torn>>
    BY <1>8 DEF Seek
  <2>2. /\ SeekTarget(f, offset) \in Nat /\ ~ (SeekTarget(f, offset) < Size(f))
    BY FileTypes, CallsAssumption DEF SeekTarget
  <2>3. OffsetInv'
    BY <1>0, <2>1, <2>2 DEF IInv, OffsetInv, TypeOK, Size
  <2>4. SectorInv' /\ BytesInv' /\ CallInv' /\ CheckNeverFails'
    BY <2>1 DEF IInv, SectorInv, BytesInv, CallInv, CheckNeverFails, callVars,
                Copied, Base, HostByte, HostRead
  <2>5. CountInv'
    BY <1>0, <2>1, <2>2 DEF IInv, CountInv, TypeOK, Size, Copied, callVars
  <2>6. QED
    BY <1>0, <2>3, <2>4, <2>5 DEF IInv
<1>9. ASSUME NEW f \in Files, Write(f)
      PROVE  IInv'
  <2>1. buffer = <<>> /\ buffer' = <<>>
    BY <1>9 DEF Write, Ready, IInv, CallInv, callVars
  <2>2. QED
    BY <1>0, <1>9, <2>1, QuietKeeps DEF Write, IInv
<1>10. CASE OtherBackendUse
  <2>1. buffer = <<>> /\ buffer' = <<>>
    BY <1>10 DEF OtherBackendUse, Ready, IInv, CallInv, callVars
  <2>2. QED
    BY <1>0, <1>10, <2>1, QuietKeeps DEF OtherBackendUse, Ready, IInv
<1>11. CASE UNCHANGED vars
  BY <1>0, <1>11 DEF vars, handleVars, callVars, IInv, CallInv, SectorInv,
     OffsetInv, CountInv, BytesInv, Copied, CheckNeverFails, Base, Size,
     HostRead, HostByte
<1>12. QED
  BY <1>1, <1>2, <1>3, <1>4, <1>5, <1>6, <1>7, <1>8, <1>9, <1>10, <1>11
     DEF Next, ReadStep

(* IInv is an invariant: for every handle that has not lost a read between *)
(* two sectors, the buffered sector, the offset and the bytes handed over  *)
(* agree.                                                                  *)
THEOREM InductiveInvariant == Spec => []IInv
<1>1. Init => IInv
  BY TypeCorrectInit, FileTypes DEF Init, IInv, CallInv, SectorInv, OffsetInv,
     CountInv, BytesInv, Copied, CheckNeverFails
<1>2. QED
  BY <1>1, IInvStep, PTL DEF Spec

(* The CHECK in the loop of XdfsFile::Read (xdfs_file.cc:30) never fails.  *)
THEOREM CheckHoldsAlways == Spec => []CheckNeverFails
<1>1. IInv => CheckNeverFails
  BY DEF IInv
<1>2. QED
  BY <1>1, InductiveInvariant, PTL
-----------------------------------------------------------------------------
(***************************************************************************)
(* The refinement of FileStream.                                           *)
(***************************************************************************)

(* Below the modulus SectorToOffset does not wrap.                         *)
LEMMA ModSmall ==
  ASSUME NEW a \in Nat, NEW n \in Nat \ {0}, a < n
  PROVE  a % n = a
OBVIOUS

(* A file that fits is read from where it lies.                            *)
LEMMA FitsBase ==
  ASSUME NEW f \in Files, Fits(f)
  PROVE  /\ Base(f) = TrueBase(f)
         /\ TrueBase(f) \in Nat
<1>1. TrueBase(f) \in Nat
  BY AttributesAssumption, SectorAssumption DEF TrueBase
<1>2. QED
  BY <1>1, ModSmall, WidthAssumption DEF Fits, Base, TrueBase, SectorToOffset

(* All that the caller of a handle has got is a prefix of the file.        *)
PrefixInv ==
  \A f \in Files \ (torn \cup Misplaced) :
    Stream!Prefix(returned[f], FileBytes[f])

(* What the invariant says of the bytes Read returned.                     *)
LEMMA ReturnedIsPrefix == IInv => PrefixInv
<1> SUFFICES ASSUME IInv, NEW f \in Files \ (torn \cup Misplaced)
             PROVE  Stream!Prefix(returned[f], FileBytes[f])
  BY DEF PrefixInv
<1>1. /\ Fits(f) /\ Base(f) = TrueBase(f) /\ Base(f) \in Nat /\ Size(f) \in Nat
  BY FitsBase, FileTypes DEF Misplaced
<1>2. /\ returned[f] \in Seq(Bytes) /\ Len(Copied(f)) \in Nat
      /\ Len(returned[f]) + Len(Copied(f)) <= Size(f)
  BY DEF IInv, TypeOK, CountInv, Copied
<1>3. FileBytes[f] = [k \in 1 .. Size(f) |-> TrueBase(f) + k - 1]
  BY DEF FileBytes
<1>4. Len(FileBytes[f]) = Size(f)
  BY <1>1, <1>3
<1>5. ASSUME NEW k \in 1 .. Len(returned[f])
      PROVE  returned[f][k] = FileBytes[f][k]
  <2>1. k \in 1 .. Size(f)
    BY <1>1, <1>2
  <2>2. returned[f][k] = HostByte(Base(f) + k - 1)
    BY DEF IInv, BytesInv
  <2>3. HostByte(Base(f) + k - 1) = TrueBase(f) + k - 1
    BY <1>1, <2>1, ImageAssumption DEF HostByte, Fits
  <2>4. QED
    BY <1>3, <2>1, <2>2, <2>3
<1>6. QED
  BY <1>1, <1>2, <1>4, <1>5 DEF Stream!Prefix

(* A fresh XdfsFile has returned nothing.                                  *)
LEMMA StreamInit == Init => Stream!Init
BY DEF Init, Stream!Init, Misplaced

(* A Read that returns is a Deliver, one that fails between two sectors is *)
(* a Release, every other step leaves the streams alone.                   *)
LEMMA StreamStep ==
  IInv /\ IInv' /\ [Next]_vars => [Stream!Next]_(Stream!streamVars)
<1> SUFFICES ASSUME IInv, IInv', [Next]_vars
             PROVE  [Stream!Next]_(Stream!streamVars)
  OBVIOUS
<1>1. ASSUME UNCHANGED <<returned, torn>>
      PROVE  UNCHANGED Stream!streamVars
  BY <1>1 DEF Stream!streamVars, Misplaced, Fits, TrueBase, Size
<1>2. ASSUME NEW f \in Files, CrossSectorFails(f)
      PROVE  Stream!Next
  BY <1>2 DEF CrossSectorFails, Stream!Next, Stream!Release, Misplaced, Fits,
              TrueBase, Size
<1>3. ASSUME NEW f \in Files, ReadReturn(f)
      PROVE  Stream!Next
  <2>1. /\ returned' = [returned EXCEPT ![f] = @ \o buffer] /\ torn' = torn
        /\ returned \in [Files -> Seq(Bytes)] /\ buffer \in Seq(Bytes)
    BY <1>3 DEF ReadReturn, IInv, TypeOK
  <2>2. Stream!Prefix(returned[f], returned'[f])
    BY <2>1 DEF Stream!Prefix
  <2>3. f \notin torn \cup Misplaced => Stream!Prefix(returned'[f], FileBytes[f])
    <3>1. PrefixInv'
      BY ReturnedIsPrefix, PTL
    <3>2. QED
      BY <2>1, <3>1 DEF PrefixInv, Misplaced, Fits, TrueBase, Size, FileBytes, Stream!Prefix
  <2>4. (torn \cup Misplaced)' = torn \cup Misplaced
    BY <2>1 DEF Misplaced, Fits, TrueBase, Size
  <2>5. Stream!Deliver(f)
    BY <2>1, <2>2, <2>3, <2>4 DEF Stream!Deliver
  <2>6. QED
    BY <2>5 DEF Stream!Next
<1>4. CASE UNCHANGED vars
  BY <1>1, <1>4 DEF vars
<1>5. QED
  BY <1>1, <1>2, <1>3, <1>4 DEF Next, ReadStep, ReadCall, LoadFirstSector,
     LoadFirstSectorFails, CopyByte, CrossSector, Seek, Write, OtherBackendUse

(* Every handle is a stream of its own file: XdfsFile implements           *)
(* FileStream, whatever the other handles and the directory code do with   *)
(* the shared descriptor.                                                  *)
THEOREM ImplementsStream == Spec => IsStream
<1>1. Spec => []IInv
  BY InductiveInvariant
<1>2. QED
  BY <1>1, StreamInit, StreamStep, PTL DEF Spec, IsStream, Stream!Spec
=============================================================================
