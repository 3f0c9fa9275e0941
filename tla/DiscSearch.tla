----------------------------- MODULE DiscSearch -----------------------------
(***************************************************************************)
(* What extract_files.cc and print_files.cc have in common: CreateXdfs     *)
(* reads the two parts of the volume descriptor, then FindAllFilePaths     *)
(* searches the image for its directories and files.  What becomes of a    *)
(* path that is found is the program's own: see its module.                *)
(*                                                                         *)
(* The file system is used through what XdfsDir and Xdfs are shown to do:  *)
(* a directory is listed in some order, each entry once; a path opens the  *)
(* entry it names.  A path string is modelled by the components SplitPath  *)
(* makes of it and by whether a slash ends it.                             *)
(***************************************************************************)
EXTENDS XdfsDisc

CONSTANTS
  Volumes,      \* The volume descriptors that images have.
  Listings,     \* Listings[base]: the orders in which a table may be listed.
  EmptyName     \* The empty string.

(* magic and magic_2: the two parts say MICROSOFT*XBOX*MEDIA.              *)
ASSUME VolumeAssumption ==
  Volumes \subseteq [magic : BOOLEAN, root_directory_sector : RootSectors,
                     magic_2 : BOOLEAN]
ASSUME ListedAssumption ==
  \A base \in DirBases :
    /\ Listings[base] # {}
    /\ \A list \in Listings[base] :
         /\ list \in Seq(Offsets)
         /\ {list[i] : i \in DOMAIN list} = Table(base)
         /\ \A i, j \in DOMAIN list : i # j => list[i] # list[j]

(* An entry without a name is what a blank sector yields; its attributes   *)
(* are 0.                                                                  *)
ASSUME NamelessAssumption ==
  /\ EmptyName \in Name
  /\ \A o \in Offsets :
       Disc[o].name = EmptyName => ~ IsDir(Disc[o].attributes)

VARIABLES
  phase,             \* What the process is doing.
  volume,            \* The volume descriptor of the image.
  dirs_to_search,
  current_dir_path,
  entries,           \* The rest of its listing.
  hostFailed         \* History: a call to the host failed in this run.

searchVars == <<dirs_to_search, current_dir_path, entries>>
-----------------------------------------------------------------------------
(* Paths.                                                                  *)

Path == [names : Seq(Name), slash : BOOLEAN]
DirPath == [names : Seq(Name), slash : {TRUE}]

RootPath == [names |-> <<>>, slash |-> TRUE]

(* Mutant: the directory's path is not put in front.                       *)
PathOfName(dir, o) ==
  [names |-> <<Disc[o].name>>, slash |-> IsDir(Disc[o].attributes)]

(* Mutant: the slash is not put behind.                                    *)
PathToUnslashed(dir, o) ==
  [names |-> Append(dir.names, Disc[o].name), slash |-> FALSE]

(* new_path of the entry at o: current_dir_path, which ends with a slash,  *)
(* then the name, and a slash behind that of a directory.                  *)
PathTo(dir, o) ==
  IF Disc[o].name = EmptyName THEN dir
  ELSE [names |-> Append(dir.names, Disc[o].name),
        slash |-> IsDir(Disc[o].attributes)]

Front(s) == SubSeq(s, 1, Len(s) - 1)
InSeq(s) == {s[i] : i \in DOMAIN s}

(* The table with which OpenDir succeeds, if it does.                      *)
DirsAt(path) == DirsNamed(volume.root_directory_sector, path.names)

(* The entry with which OpenFile succeeds, if it does.                     *)
FilesAt(path) == FilesNamed(volume.root_directory_sector, path.names)
-----------------------------------------------------------------------------
SearchInit ==
  /\ phase = "start"
  /\ volume \in Volumes
  /\ dirs_to_search = <<>>
  /\ current_dir_path = RootPath
  /\ entries = <<>>
  /\ hostFailed = FALSE

(* ReadVolumeDescriptorAndVerify: an error here ends main's CHECK_ERROR.   *)
ReadDescriptor ==
  /\ phase = "start"
  /\ phase' = IF volume.magic THEN "part 2" ELSE "aborted"
  /\ UNCHANGED <<volume, searchVars, hostFailed>>

(* The second part; then FindAllFilePaths begins with "/".                 *)
ReadDescriptorPart2 ==
  /\ phase = "part 2"
  /\ IF volume.magic_2
     THEN phase' = "search" /\ dirs_to_search' = <<RootPath>>
     ELSE phase' = "aborted" /\ UNCHANGED dirs_to_search
  /\ UNCHANGED <<volume, current_dir_path, entries, hostFailed>>

AtDir == phase = "search" /\ entries = <<>> /\ dirs_to_search # <<>>

(* The loop takes the last directory: OpenDir, ReadEntries.                *)
ListDir ==
  /\ AtDir
  /\ LET dir == dirs_to_search[Len(dirs_to_search)] IN
     /\ current_dir_path' = dir
     /\ IF DirsAt(dir) # {}
        THEN /\ \E base \in DirsAt(dir) : entries' \in Listings[base]
             /\ UNCHANGED phase
        ELSE phase' = "aborted" /\ UNCHANGED entries
  /\ dirs_to_search' = Front(dirs_to_search)
  /\ UNCHANGED <<volume, hostFailed>>

entry == Head(entries)
new_path == PathTo(current_dir_path, entry)

(* The inner loop, as far as both programs agree.                          *)
TakeEntry ==
  /\ phase = "search"
  /\ entries # <<>>
  /\ entries' = Tail(entries)
  /\ dirs_to_search' = IF IsDir(Disc[entry].attributes)
                       THEN Append(dirs_to_search, new_path)
                       ELSE dirs_to_search
  /\ UNCHANGED <<phase, volume, current_dir_path, hostFailed>>

(* Mutant: the root is expected to be left on the stack.                   *)
SearchDoneAtRoot ==
  phase = "search" /\ entries = <<>> /\ dirs_to_search = <<RootPath>>

SearchDone == phase = "search" /\ entries = <<>> /\ dirs_to_search = <<>>

(* A call to the host fails, or reads less than it was asked for.          *)
SearchFails ==
  /\ phase \in {"start", "part 2"} \/ AtDir
  /\ phase' = "aborted"
  /\ hostFailed' = TRUE
  /\ UNCHANGED <<volume, searchVars>>

(* A directory's path ends with a slash: a name can be put behind it.      *)
SearchTypeOK ==
  /\ volume \in Volumes
  /\ dirs_to_search \in Seq(DirPath)
  /\ current_dir_path \in DirPath
  /\ entries \in Seq(Offsets)
  /\ hostFailed \in BOOLEAN

BadVolume == ~ volume.magic \/ ~ volume.magic_2

(* The files and directories of the directory that a path opens.           *)
EntriesAt(dir) == UNION {Table(base) : base \in DirsAt(dir)}
=============================================================================
