-------------------------------- MODULE Xdfs --------------------------------
(***************************************************************************)
(* Xdfs::OpenFile and Xdfs::OpenDir (xdfs.cc): the path is resolved        *)
(* component by component, each by a binary search in the table of the     *)
(* directory found so far.  Reading one directory entry is one step.       *)
(*                                                                         *)
(* A path is a sequence of tokens: a slash or a whole name.  SplitPath     *)
(* splits the path before the walk begins; the walk here takes the next    *)
(* component off the rest of the path as std::getline does, which is the   *)
(* same since nothing else reads the path.                                 *)
(***************************************************************************)
EXTENDS XdfsDisc

CONSTANTS
  RootSector, \* root_directory_sector of the volume descriptor.
  Paths,      \* The paths that callers pass.
  Slash,      \* The character '/'.
  EmptyName,  \* The empty string.
  RootName,   \* The string "/", the name that the root's entry is given.
  NoEntry,    \* No search of a table is in progress.
  kVolumeDescriptorOffsetBytes

DirEntry == [left_child_dwords : Nat, right_child_dwords : Nat,
             start_sector : Nat, attributes : Nat, name : Name,
             offset_bytes : Nat]

ASSUME PathAssumption ==
  /\ RootSector \in RootSectors
  /\ EmptyName \in Name /\ RootName \in Name /\ Slash \notin Name
  /\ Paths \subseteq Seq(Name \cup {Slash})
  /\ NoEntry \notin DirEntry
  /\ kVolumeDescriptorOffsetBytes \in Nat

(* Two names in a row would be one longer name.                            *)
Tokens(s) == \A i \in 1 .. Len(s) - 1 : Slash \in {s[i], s[i + 1]}

ASSUME TokenAssumption == \A path \in Paths : Tokens(path)

VARIABLES
  call,           \* What was asked: kind and path; or Idle.
  rest,           \* The part of the path that is not resolved yet.
  current_entry,  \* In DirEntryFromPath: the entry resolved so far.
  node,           \* current_entry in LookupDirEntryInTable, or NoEntry.
  aborted,        \* The process called abort().
  outcome,        \* The answer to the last call.
  walked,         \* History: the components resolved so far.
  trail           \* History: the entries they resolved to, from the root on.

walkVars == <<rest, current_entry, walked, trail>>
vars == <<call, walkVars, node, aborted, outcome>>

(* The root's own entry, made up by CreateXdfs.                            *)
root_entry_ ==
  [left_child_dwords |-> 0, right_child_dwords |-> 0,
   start_sector |-> RootSector, attributes |-> kAttributeIsDirectoryMask,
   name |-> RootName, offset_bytes |-> kVolumeDescriptorOffsetBytes]

Idle == [want |-> "nothing", path |-> <<>>]
Results == {"none", "no full path", "not found", "wrong kind", "opened"}

(* path[0] of the empty string is the terminating zero.                    *)
IsFullPath(path) == path # <<>> /\ path[1] = Slash

(* std::getline: the component up to the next slash, and what is behind.   *)
Component == IF Head(rest) = Slash THEN EmptyName ELSE Head(rest)

(* Mutant: the slash behind a name is left in the path.                    *)
BehindName == SubSeq(rest, 2, Len(rest))

BehindComponent ==
  SubSeq(rest, IF Head(rest) = Slash THEN 2 ELSE 3, Len(rest))

(* Where the table of a directory begins.                                  *)
TableOffset(entry) == SectorToOffset(entry.start_sector)

(* Mutant: equal names, case ignored, go left.                             *)
GoesLeftIfEqual(name, entry) == ~ NameLess(entry.name, name)

(* lexicographical_compare decides on the side.                            *)
GoesLeft(name, entry) == NameLess(name, entry.name)

ChildDwords(name, entry) ==
  IF GoesLeft(name, entry) THEN entry.left_child_dwords
                           ELSE entry.right_child_dwords
-----------------------------------------------------------------------------
Init ==
  /\ call = Idle
  /\ rest = <<>>
  /\ current_entry = root_entry_
  /\ node = NoEntry
  /\ aborted = FALSE
  /\ outcome = [want |-> "nothing", path |-> <<>>, result |-> "none",
                entry |-> root_entry_]
  /\ walked = <<>>
  /\ trail = <<root_entry_>>

Ready == ~ aborted /\ call = Idle
Walking == ~ aborted /\ call # Idle /\ node = NoEntry
Searching == ~ aborted /\ node # NoEntry

(* The call returns to its caller.                                         *)
Return(result, entry) ==
  /\ outcome' = [want |-> call.want, path |-> call.path,
                 result |-> result, entry |-> entry]
  /\ call' = Idle

(* OpenFile (want = "file") or OpenDir ("dir").                            *)
Open(want, path) ==
  /\ Ready
  /\ IsFullPath(path)
  /\ call' = [want |-> want, path |-> path]
  /\ rest' = Tail(path)
  /\ current_entry' = root_entry_
  /\ walked' = <<>>
  /\ trail' = <<root_entry_>>
  /\ UNCHANGED <<node, aborted, outcome>>

OpenRelative(want, path) ==
  /\ Ready
  /\ ~ IsFullPath(path)
  /\ outcome' = [want |-> want, path |-> path,
                 result |-> "no full path", entry |-> root_entry_]
  /\ UNCHANGED <<call, walkVars, node, aborted>>

(* More components, but what they are looked up in is no directory.        *)
ThroughFile ==
  /\ Walking
  /\ rest # <<>>
  /\ ~ IsDir(current_entry.attributes)
  /\ Return("not found", current_entry)
  /\ UNCHANGED <<walkVars, node, aborted>>

EnterTable ==
  /\ Walking
  /\ rest # <<>>
  /\ IsDir(current_entry.attributes)
  /\ node' = ReadDirEntry(TableOffset(current_entry))
  /\ UNCHANGED <<call, walkVars, aborted, outcome>>

(* Mutant: a distance of zero is followed.                                 *)
DescendAlways ==
  /\ Searching
  /\ node.name # Component
  /\ node' = ReadDirEntry(Child(TableOffset(current_entry),
                                ChildDwords(Component, node)))
  /\ UNCHANGED <<call, walkVars, aborted, outcome>>

(* The loop of LookupDirEntryInTable.  Its root was read at the table's    *)
(* offset, which is therefore dir_offset.                                  *)
Descend ==
  /\ Searching
  /\ node.name # Component
  /\ ChildDwords(Component, node) # 0
  /\ node' = ReadDirEntry(Child(TableOffset(current_entry),
                                ChildDwords(Component, node)))
  /\ UNCHANGED <<call, walkVars, aborted, outcome>>

(* Mutant: the entry is written when there is none, too.                   *)
NotFoundOverwrites ==
  /\ Searching
  /\ node.name # Component
  /\ ChildDwords(Component, node) = 0
  /\ node' = NoEntry
  /\ current_entry' = NoEntry
  /\ Return("not found", current_entry)
  /\ UNCHANGED <<rest, walked, trail, aborted>>

NotFound ==
  /\ Searching
  /\ node.name # Component
  /\ ChildDwords(Component, node) = 0
  /\ node' = NoEntry
  /\ Return("not found", current_entry)
  /\ UNCHANGED <<walkVars, aborted>>

(* Mutant: case is ignored in the comparison for equality as well.         *)
FoundAnyCase ==
  /\ Searching
  /\ node.name.fold = Component.fold
  /\ current_entry' = node
  /\ node' = NoEntry
  /\ rest' = BehindComponent
  /\ walked' = Append(walked, Component)
  /\ trail' = Append(trail, node)
  /\ UNCHANGED <<call, aborted, outcome>>

Found ==
  /\ Searching
  /\ node.name = Component
  /\ current_entry' = node
  /\ node' = NoEntry
  /\ rest' = BehindComponent
  /\ walked' = Append(walked, Component)
  /\ trail' = Append(trail, node)
  /\ UNCHANGED <<call, aborted, outcome>>

(* Any of the reads of a directory entry fails: CHECK_ERROR.               *)
ReadAborts ==
  /\ \/ Walking /\ rest # <<>> /\ IsDir(current_entry.attributes)
     \/ Searching /\ node.name # Component /\ ChildDwords(Component, node) # 0
  /\ aborted' = TRUE
  /\ UNCHANGED <<call, walkVars, node, outcome>>

(* The path is resolved; OpenFile wants no directory, OpenDir wants one.   *)
Resolved ==
  /\ Walking
  /\ rest = <<>>
  /\ Return(IF IsDir(current_entry.attributes) = (call.want = "dir")
            THEN "opened" ELSE "wrong kind", current_entry)
  /\ UNCHANGED <<walkVars, node, aborted>>

Progress ==
  \/ ThroughFile \/ EnterTable \/ Descend \/ NotFound \/ Found \/ Resolved

Step == Progress \/ ReadAborts

Next ==
  \/ \E want \in {"file", "dir"}, path \in Paths :
       Open(want, path) \/ OpenRelative(want, path)
  \/ Step

(* A call keeps running; the host need not fail, nobody is obliged to make *)
(* a call.                                                                 *)
Spec == Init /\ [][Next]_vars
FairSpec == Spec /\ WF_vars(Progress)
-----------------------------------------------------------------------------
(* The components of a path by the places of its slashes: every name is    *)
(* one, and every slash with no name before it ends an empty one.          *)
Ends(s) == {i \in DOMAIN s : s[i] # Slash \/ i = 1 \/ s[i - 1] = Slash}

(* The ends from left to right: there is one way to number them.           *)
Numberings(s) ==
  {ends \in UNION {[1 .. n -> Ends(s)] : n \in 0 .. Len(s)} :
     /\ \A i, j \in DOMAIN ends : i < j => ends[i] < ends[j]
     /\ Ends(s) = {ends[k] : k \in DOMAIN ends}}

ComponentAt(s, i) == IF s[i] = Slash THEN EmptyName ELSE s[i]

Components(s) ==
  LET ends == CHOOSE e \in Numberings(s) : TRUE
  IN [k \in DOMAIN ends |-> ComponentAt(s, ends[k])]

(* The variables of the walk have their types.                             *)
TypeOK ==
  /\ call \in {Idle} \cup [want : {"file", "dir"}, path : Paths]
  /\ rest \in Seq(Name \cup {Slash})
  /\ current_entry \in DirEntry
  /\ node \in DirEntry \cup {NoEntry}
  /\ aborted \in BOOLEAN
  /\ outcome \in [want : {"nothing", "file", "dir"}, path : Paths \cup {<<>>},
                  result : Results, entry : DirEntry]
  /\ walked \in Seq(Name)
  /\ trail \in Seq(DirEntry)

(* The entries of the directory that entry is.                             *)
EntriesOf(entry) == {ReadDirEntry(o) : o \in Table(TableOffset(entry))}

(* The walk goes down from the root: every entry resolved so far is in the *)
(* table of the directory before it and has the name of its component.     *)
FollowsTrail ==
  /\ Len(trail) = Len(walked) + 1
  /\ trail[1] = root_entry_
  /\ trail[Len(trail)] = current_entry
  /\ \A k \in 1 .. Len(walked) :
       /\ IsDir(trail[k].attributes)
       /\ trail[k + 1] \in EntriesOf(trail[k])
       /\ trail[k + 1].name = walked[k]

(* What OpenFile and OpenDir say of a path is what its components name on  *)
(* the disc (xdfs.cc:95-112): they come to the one directory or file that  *)
(* there is, and open it if it is of the kind they are for; never a        *)
(* namesake in another directory, never an entry on the way.               *)
OpensWhatPathNames ==
  (call = Idle /\ outcome.result \in {"opened", "wrong kind"}) =>
    LET names == Components(Tail(outcome.path))
        isdir == IsDir(outcome.entry.attributes)
    IN /\ DirsNamed(RootSector, names) =
            IF isdir THEN {TableOffset(outcome.entry)} ELSE {}
       /\ FilesNamed(RootSector, names) =
            IF isdir THEN {} ELSE {outcome.entry.offset_bytes}
       /\ (outcome.result = "opened") = (isdir = (outcome.want = "dir"))

(* "Could not find given file." is said only of a path that leads nowhere: *)
(* to no directory and to no file.                                         *)
NotFoundIsAbsent ==
  (call = Idle /\ outcome.result = "not found") =>
    LET names == Components(Tail(outcome.path))
    IN DirsNamed(RootSector, names) \cup FilesNamed(RootSector, names) = {}

(* What is walked, then what is left, are the components of the path.      *)
(* (xdfs.cc:60-72): slashes at the end or in a row lose no component and   *)
(* make none up but the empty ones between two slashes.                    *)
SplitsPath ==
  LET path == IF call = Idle THEN outcome.path ELSE call.path
  IN IsFullPath(path) =>
       Components(Tail(path)) = walked \o Components(rest)

(* Once called, OpenFile and OpenDir return, or the process ends.          *)
OpenEnds == (call # Idle) ~> (call = Idle \/ aborted)
-----------------------------------------------------------------------------
(* The inductive strengthening, in named parts.                            *)

(* During a search, an entry with the name that is looked for, if there is *)
(* one, is below the node reached.                                         *)
SearchInv ==
  node # NoEntry =>
    LET base == TableOffset(current_entry) IN
    /\ call # Idle /\ rest # <<>> /\ IsDir(current_entry.attributes)
    /\ \E o \in Table(base) :
         /\ node = ReadDirEntry(o)
         /\ \A x \in Table(base) :
              Disc[x].name = Component => x \in Subtree[base][o]

(* current_entry is the root's entry, or one read from the disc.           *)
EntryInv ==
  current_entry = root_entry_
    \/ \E o \in Offsets : current_entry = ReadDirEntry(o)

(* The entry of an answer is where the walk ended, with no path left.      *)
AnswerInv ==
  (call = Idle /\ outcome.result \in {"opened", "wrong kind"}) =>
    /\ rest = <<>>
    /\ outcome.entry = current_entry
    /\ (outcome.result = "opened")
         = (IsDir(current_entry.attributes) = (outcome.want = "dir"))

(* Where the walk stopped there is no directory, or none with an entry of  *)
(* the next name, on either side of any node the search passed.            *)
AbsenceInv ==
  (call = Idle /\ outcome.result = "not found") =>
    /\ rest # <<>>
    /\ IsDir(current_entry.attributes) =>
         \A entry \in EntriesOf(current_entry) : entry.name # Component

(* Only full paths are walked.                                             *)
SplitInv ==
  /\ SplitsPath
  /\ Tokens(rest)
  /\ call # Idle => IsFullPath(call.path)
  /\ outcome.result \in {"opened", "wrong kind", "not found"} =>
       IsFullPath(outcome.path)

IInv == /\ TypeOK /\ FollowsTrail /\ EntryInv /\ SearchInv
        /\ AnswerInv /\ AbsenceInv /\ SplitInv
-----------------------------------------------------------------------------
(* Where the search of a table can still get to.                           *)
Reach == Subtree[TableOffset(current_entry)][node.offset_bytes]

LookupGoesOn == call # Idle /\ call' # Idle /\ ~ aborted'

(* Each step of a lookup (xdfs.cc:114-170) takes a component off the path, *)
(* or begins the search for the next one, or leaves that search less of    *)
(* the table to get to: a lookup in finite tables ends.                    *)
LookupShrinks ==
  [][LookupGoesOn =>
       \/ Len(rest') < Len(rest)
       \/ /\ rest' = rest /\ current_entry' = current_entry
          /\ node' # NoEntry
          /\ node # NoEntry => Reach' \subseteq Reach /\ Reach' # Reach]_vars
=============================================================================
