------------------------------ MODULE XdfsDir -------------------------------
(***************************************************************************)
(* XdfsDir::ReadEntries (xdfs_dir.cc): the entries of a directory are      *)
(* collected by a walk of its table with an explicit stack, and kept in    *)
(* the object.  One round of the loop of ReadEntriesImpl is one step; a    *)
(* call that has begun runs to its end, calls on different objects         *)
(* interleave.                                                             *)
(***************************************************************************)
EXTENDS XdfsDisc

CONSTANTS
  Dirs,         \* The XdfsDir objects that OpenDir has returned.
  attributes_,  \* attributes_[d]: the directory entry of d.
  NoDir         \* No ReadEntries is in progress.

ASSUME DirsAssumption ==
  /\ NoDir \notin Dirs
  /\ \A d \in Dirs : SectorToOffset(attributes_[d].start_sector) \in DirBases

VARIABLES
  entries_read_,
  cached_entries_,
  reader,           \* The object whose ReadEntries is in progress, or NoDir.
  offsets_to_scan,
  results,
  aborted,          \* The process called abort().
  scanned,          \* History: the offsets behind results.
  answer            \* History: the last answer of each object.

cacheVars == <<entries_read_, cached_entries_>>
scanVars == <<reader, offsets_to_scan, results, scanned>>
vars == <<cacheVars, scanVars, aborted, answer>>

(* The table of d begins here.                                             *)
Base(d) == SectorToOffset(attributes_[d].start_sector)

XdfsDirEntry(o) ==
  [file_name |-> ReadDirEntry(o).name, attributes |-> ReadDirEntry(o).attributes]

ListedEntries == {XdfsDirEntry(o) : o \in Offsets}

Back(s) == s[Len(s)]
(* Mutant: the next offset is read at the back and dropped at the front.   *)
PopFront(s) == Tail(s)

PopBack(s) == SubSeq(s, 1, Len(s) - 1)

(* Mutant: the distance is taken for bytes.                                *)
PushedUnscaled(base, dwords) == IF dwords > 0 THEN <<base + dwords>> ELSE <<>>

(* A child is pushed when its distance is not zero.                        *)
Pushed(base, dwords) == IF dwords > 0 THEN <<Child(base, dwords)>> ELSE <<>>
-----------------------------------------------------------------------------
Init ==
  /\ entries_read_ = [d \in Dirs |-> FALSE]
  /\ cached_entries_ = [d \in Dirs |-> <<>>]
  /\ reader = NoDir
  /\ offsets_to_scan = <<>>
  /\ results = <<>>
  /\ aborted = FALSE
  /\ scanned = <<>>
  /\ answer = [d \in Dirs |-> <<>>]

Ready == ~ aborted /\ reader = NoDir
Running(d) == ~ aborted /\ reader = d

(* ReadEntries on an object that was not read before.                      *)
ReadEntries(d) ==
  /\ Ready
  /\ ~ entries_read_[d]
  /\ reader' = d
  /\ offsets_to_scan' = <<Base(d)>>
  /\ results' = <<>>
  /\ scanned' = <<>>
  /\ UNCHANGED <<cacheVars, aborted, answer>>

(* Mutant: "else if" on the right child.                                   *)
ScanEntryElseIf(d) ==
  /\ Running(d)
  /\ offsets_to_scan # <<>>
  /\ LET o     == Back(offsets_to_scan)
         entry == ReadDirEntry(o)
         child == IF entry.left_child_dwords > 0 THEN entry.left_child_dwords
                                                 ELSE entry.right_child_dwords
     IN /\ offsets_to_scan' = PopBack(offsets_to_scan) \o Pushed(Base(d), child)
        /\ results' = Append(results, XdfsDirEntry(o))
        /\ scanned' = Append(scanned, o)
  /\ UNCHANGED <<cacheVars, reader, aborted, answer>>

ScanEntry(d) ==
  /\ Running(d)
  /\ offsets_to_scan # <<>>
  /\ LET o     == Back(offsets_to_scan)
         entry == ReadDirEntry(o)
     IN /\ offsets_to_scan' = PopBack(offsets_to_scan)
                                \o Pushed(Base(d), entry.left_child_dwords)
                                \o Pushed(Base(d), entry.right_child_dwords)
        /\ results' = Append(results, XdfsDirEntry(o))
        /\ scanned' = Append(scanned, o)
  /\ UNCHANGED <<cacheVars, reader, aborted, answer>>

(* ReadDirEntryAtOffset checks its seek and its two reads with CHECK_ERROR.*)
ScanAborts(d) ==
  /\ Running(d)
  /\ offsets_to_scan # <<>>
  /\ aborted' = TRUE
  /\ UNCHANGED <<cacheVars, scanVars, answer>>

(* Mutant: a listing of one entry is not taken for an answer.              *)
ScanEndsWhenMany(d) ==
  /\ Running(d)
  /\ offsets_to_scan = <<>>
  /\ Len(results) > 1
  /\ cached_entries_' = [cached_entries_ EXCEPT ![d] = results]
  /\ entries_read_' = [entries_read_ EXCEPT ![d] = TRUE]
  /\ answer' = [answer EXCEPT ![d] = results]
  /\ reader' = NoDir
  /\ results' = <<>>
  /\ scanned' = <<>>
  /\ UNCHANGED <<offsets_to_scan, aborted>>

(* ReadEntriesImpl returns: its results become the cache and the answer.   *)
ScanEnds(d) ==
  /\ Running(d)
  /\ offsets_to_scan = <<>>
  /\ cached_entries_' = [cached_entries_ EXCEPT ![d] = results]
  /\ entries_read_' = [entries_read_ EXCEPT ![d] = TRUE]
  /\ answer' = [answer EXCEPT ![d] = results]
  /\ reader' = NoDir
  /\ results' = <<>>
  /\ scanned' = <<>>
  /\ UNCHANGED <<offsets_to_scan, aborted>>

ReadEntriesCached(d) ==
  /\ Ready
  /\ entries_read_[d]
  /\ answer' = [answer EXCEPT ![d] = cached_entries_[d]]
  /\ UNCHANGED <<cacheVars, scanVars, aborted>>

ScanStep(d) == ScanEntry(d) \/ ScanAborts(d) \/ ScanEnds(d)

Next ==
  \E d \in Dirs : ReadEntries(d) \/ ScanStep(d) \/ ReadEntriesCached(d)

(* A scan keeps running; the host need not fail, nobody is obliged to      *)
(* start one.                                                              *)
Fairness == \A d \in Dirs : WF_vars(ScanEntry(d) \/ ScanEnds(d))

Spec == Init /\ [][Next]_vars
FairSpec == Spec /\ Fairness
-----------------------------------------------------------------------------
DirContent == [d \in Dirs |-> {XdfsDirEntry(o) : o \in Table(Base(d))}]

Listing == INSTANCE DirListing WITH Content <- DirContent

(* The object's fields and the scan's locals have their types.             *)
TypeOK ==
  /\ entries_read_ \in [Dirs -> BOOLEAN]
  /\ cached_entries_ \in [Dirs -> Seq(ListedEntries)]
  /\ reader \in Dirs \cup {NoDir}
  /\ offsets_to_scan \in Seq(Offsets)
  /\ results \in Seq(ListedEntries)
  /\ aborted \in BOOLEAN
  /\ scanned \in Seq(Offsets)
  /\ answer \in [Dirs -> Seq(ListedEntries)]

(* ReadEntries lists each entry of the directory exactly once, and a       *)
(* cached answer is the same answer: see DirListing.                       *)
IsListing == Listing!Spec

(* Once called, ReadEntries returns, or the process ends.                  *)
ReadEntriesEnds == \A d \in Dirs : (reader = d) ~> (reader = NoDir \/ aborted)
-----------------------------------------------------------------------------
(* The inductive strengthening, in named parts.                            *)

(* The subtree that waits at position i of the stack.                      *)
Waiting(i) == Subtree[Base(reader)][offsets_to_scan[i]]

Depth == DOMAIN offsets_to_scan
Steps == DOMAIN scanned

(* Every entry of the table is read, or waits below an offset of the       *)
(* stack; nothing else is.                                                 *)
CoverInv ==
  reader # NoDir =>
    Table(Base(reader)) =
      {scanned[i] : i \in Steps} \cup UNION {Waiting(i) : i \in Depth}

(* No entry is read twice, waits twice, or waits when it is read.          *)
OnceInv ==
  reader # NoDir =>
    /\ \A i, j \in Steps : i # j => scanned[i] # scanned[j]
    /\ \A i, j \in Depth : i # j => Waiting(i) \cap Waiting(j) = {}
    /\ \A i \in Steps, j \in Depth : scanned[i] \notin Waiting(j)

(* results holds the entries at the offsets read.                          *)
ResultsInv ==
  /\ Len(results) = Len(scanned)
  /\ \A i \in Steps : results[i] = XdfsDirEntry(scanned[i])

(* The cache holds the listing once entries_read_ is set.                  *)
CacheInv ==
  \A d \in Dirs :
    IF entries_read_[d]
    THEN /\ Listing!IsListing(cached_entries_[d], DirContent[d])
         /\ answer[d] = cached_entries_[d]
    ELSE answer[d] = <<>>

(* No scan is in progress on a cached object; none leaves a stack behind.  *)
ReaderInv ==
  IF reader = NoDir THEN offsets_to_scan = <<>> ELSE ~ entries_read_[reader]

IInv == TypeOK /\ CoverInv /\ OnceInv /\ ResultsInv /\ CacheInv /\ ReaderInv
-----------------------------------------------------------------------------
(* The entries of the table that the scan has not read.                    *)
Unread == Table(Base(reader)) \ {scanned[i] : i \in Steps}

ScanGoesOn == reader # NoDir /\ reader' = reader /\ ~ aborted'

(* Each round of the loop of ReadEntriesImpl (xdfs_dir.cc:15-30) leaves    *)
(* less of the table to read: no offset it pushes leads back to an entry   *)
(* it has read, so that the scan of a finite table ends.                   *)
ScanShrinks ==
  [][ScanGoesOn => Unread' \subseteq Unread /\ Unread' # Unread]_vars
=============================================================================
