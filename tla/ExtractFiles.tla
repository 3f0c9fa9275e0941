---------------------------- MODULE ExtractFiles ----------------------------
(***************************************************************************)
(* extract_files.cc: a disc image is searched for its directories and      *)
(* files, then the directories are made on the host, then the files are    *)
(* copied, a buffer at a time.  Any call to the host may fail, which ends  *)
(* the process (main is CHECK_ERROR), and the program may be run again on  *)
(* what an earlier run left behind.  That a file is read as a stream is    *)
(* what XdfsFile is shown to do.                                           *)
(***************************************************************************)
EXTENDS DiscSearch

CONSTANTS
  SizeBytes,    \* SizeBytes[o]: the length of the file whose entry is at o.
  buffer_size,  \* 2048 in the code.
  MaxRuns       \* Bound on the number of times the program is run.

ASSUME CopyAssumption ==
  /\ SizeBytes \in [Offsets -> Nat]
  /\ buffer_size \in Nat \ {0}
  /\ MaxRuns \in Nat

VARIABLES
  dir_paths,
  file_paths,
  next,            \* Position of MakeDirs or CopyFiles in its vector.
  xdfs_file,       \* In CopyFileFromTo: the entry and the offset reached.
  local_dirs,      \* The directories under root_dir, and <<>> for itself.
  local_files,     \* local_files[name]: what the file under root_dir holds.
  runs,            \* How often the program was started.
  found,           \* History: directories there when this run began.
  shortened        \* History: files of this run with a short write.

searching == <<volume, searchVars>>
pathVars == <<dir_paths, file_paths>>
localVars == <<local_dirs, local_files>>
history == <<runs, found, shortened>>
vars == <<phase, searching, hostFailed, pathVars, next, xdfs_file, localVars,
          history>>
-----------------------------------------------------------------------------
(* The k-th byte of the file whose entry is at o.                          *)
FileBytes(o) == [k \in 1 .. SizeBytes[o] |-> <<o, k>>]

(* Mutant: mkdir is content with a directory that is there already.        *)
CanMakeAgain(path) == Front(path.names) \in local_dirs

(* mkdir: the parent is there, the name is not.                            *)
CanMake(path) ==
  /\ path.names # <<>>
  /\ Front(path.names) \in local_dirs
  /\ path.names \notin local_dirs \cup DOMAIN local_files

(* creat: the parent is there, the name is no directory.                   *)
CanCreate(path) ==
  /\ ~ path.slash
  /\ path.names # <<>>
  /\ Front(path.names) \in local_dirs
  /\ path.names \notin local_dirs

(* Mutant: creat does not truncate.                                        *)
CreatedUntruncated(name) ==
  [x \in DOMAIN local_files \cup {name} |->
     IF x \in DOMAIN local_files THEN local_files[x] ELSE <<>>]

(* The local files once creat has made or emptied one.                     *)
Created(name) ==
  [x \in DOMAIN local_files \cup {name} |->
     IF x = name THEN <<>> ELSE local_files[x]]

NoFile == [entry |-> 0, offset |-> -1]

Least(x, y) == IF x < y THEN x ELSE y
-----------------------------------------------------------------------------
(* root_dir may be missing; at first there is nothing in it.               *)
Init ==
  /\ SearchInit
  /\ dir_paths = <<>>
  /\ file_paths = <<>>
  /\ next = 1
  /\ xdfs_file = NoFile
  /\ local_dirs \in {{}, {<<>>}}
  /\ local_files = [name \in {} |-> <<>>]
  /\ runs = 1
  /\ found = {}
  /\ shortened = {}

FindDir ==
  /\ ReadDescriptor \/ ReadDescriptorPart2 \/ ListDir
  /\ UNCHANGED <<pathVars, next, xdfs_file, localVars, history>>

(* A path goes to one of the two vectors.                                  *)
AddEntry ==
  /\ TakeEntry
  /\ IF IsDir(Disc[entry].attributes)
     THEN dir_paths' = Append(dir_paths, new_path) /\ UNCHANGED file_paths
     ELSE file_paths' = Append(file_paths, new_path) /\ UNCHANGED dir_paths
  /\ UNCHANGED <<next, xdfs_file, localVars, history>>

SearchEnds ==
  /\ SearchDone
  /\ phase' = "mkdirs"
  /\ next' = 1
  /\ UNCHANGED <<searching, hostFailed, pathVars, xdfs_file, localVars, history>>

(* One round of the loop of MakeDirs; EEXIST is an error like any other.   *)
MakeDir ==
  /\ phase = "mkdirs"
  /\ next <= Len(dir_paths)
  /\ IF CanMake(dir_paths[next])
     THEN /\ local_dirs' = local_dirs \cup {dir_paths[next].names}
          /\ next' = next + 1
          /\ UNCHANGED phase
     ELSE phase' = "aborted" /\ UNCHANGED <<local_dirs, next>>
  /\ UNCHANGED <<searching, hostFailed, pathVars, xdfs_file, local_files, history>>

MakeDirsEnds ==
  /\ phase = "mkdirs"
  /\ next > Len(dir_paths)
  /\ phase' = "copy"
  /\ next' = 1
  /\ UNCHANGED <<searching, hostFailed, pathVars, xdfs_file, localVars, history>>

AtFile == phase = "copy" /\ next <= Len(file_paths)

(* CopyFiles: File::Create, which empties the file, then OpenFile.         *)
StartFile ==
  /\ AtFile
  /\ xdfs_file = NoFile
  /\ LET path == file_paths[next] IN
     IF CanCreate(path)
     THEN /\ local_files' = Created(path.names)
          /\ IF FilesAt(path) # {}
             THEN /\ \E o \in FilesAt(path) :
                       xdfs_file' = [entry |-> o, offset |-> 0]
                  /\ UNCHANGED phase
             ELSE phase' = "aborted" /\ UNCHANGED xdfs_file
     ELSE phase' = "aborted" /\ UNCHANGED <<local_files, xdfs_file>>
  /\ UNCHANGED <<searching, hostFailed, pathVars, next, local_dirs, history>>

(* What Read returns to the loop of CopyFileFromTo.                        *)
amount_read ==
  Least(buffer_size, SizeBytes[xdfs_file.entry] - xdfs_file.offset)

(* The bytes read, of which the host takes the first amount.               *)
Written(amount) ==
  SubSeq(FileBytes(xdfs_file.entry),
         xdfs_file.offset + 1, xdfs_file.offset + amount)

(* Mutant: amount_read keeps its first value.                              *)
FillsBufferAlways == TRUE

(* The condition of the loop: a read that did not fill the buffer is the   *)
(* last.                                                                   *)
FillsBuffer == amount_read = buffer_size

(* One round of the loop of CopyFileFromTo.  How much Write wrote is not   *)
(* looked at.                                                              *)
CopyBuffer ==
  /\ AtFile
  /\ xdfs_file # NoFile
  /\ LET name == file_paths[next].names IN
     \E amount_did_write \in 0 .. amount_read :
       /\ local_files' = [local_files EXCEPT ![name] =
                            @ \o Written(amount_did_write)]
       /\ shortened' = IF amount_did_write < amount_read
                       THEN shortened \cup {name} ELSE shortened
  /\ IF FillsBuffer
     THEN /\ xdfs_file' = [xdfs_file EXCEPT !.offset = @ + amount_read]
          /\ UNCHANGED next
     ELSE xdfs_file' = NoFile /\ next' = next + 1
  /\ UNCHANGED <<phase, searching, hostFailed, pathVars, local_dirs, runs, found>>

CopyFilesEnds ==
  /\ phase = "copy"
  /\ next > Len(file_paths)
  /\ phase' = "done"
  /\ UNCHANGED <<searching, hostFailed, pathVars, next, xdfs_file, localVars,
                 history>>

(* mkdir, creat, a read or a write fails; or a read of OpenFile, when the  *)
(* local file is made already.                                             *)
CopyFails ==
  /\ (phase = "mkdirs" /\ next <= Len(dir_paths)) \/ AtFile
  /\ phase' = "aborted"
  /\ hostFailed' = TRUE
  /\ \/ UNCHANGED local_files
     \/ /\ AtFile /\ xdfs_file = NoFile
        /\ CanCreate(file_paths[next])
        /\ local_files' = Created(file_paths[next].names)
  /\ UNCHANGED searching

HostFails ==
  /\ CopyFails \/ (SearchFails /\ UNCHANGED local_files)
  /\ UNCHANGED <<pathVars, next, xdfs_file, local_dirs, history>>

(* The program is run again, on the same image and the same root_dir.      *)
Rerun ==
  /\ phase \in {"done", "aborted"}
  /\ runs < MaxRuns
  /\ runs' = runs + 1
  /\ phase' = "start"
  /\ dirs_to_search' = <<>> /\ current_dir_path' = RootPath /\ entries' = <<>>
  /\ dir_paths' = <<>> /\ file_paths' = <<>>
  /\ next' = 1
  /\ xdfs_file' = NoFile
  /\ hostFailed' = FALSE
  /\ found' = local_dirs \ {<<>>}
  /\ shortened' = {}
  /\ UNCHANGED <<volume, localVars>>

Step ==
  \/ FindDir \/ AddEntry \/ SearchEnds \/ MakeDir \/ MakeDirsEnds
  \/ StartFile \/ CopyBuffer \/ CopyFilesEnds

Next == Step \/ HostFails \/ Rerun

(* The process runs until it ends; the host need not fail, and nobody is   *)
(* obliged to start the program again.                                     *)
Spec == Init /\ [][Next]_vars
FairSpec == Spec /\ WF_vars(Step)
-----------------------------------------------------------------------------
Byte == Offsets \X Nat

(* The program's variables and the host's have their types, and the loops  *)
(* stay within their vectors and files.                                    *)
TypeOK ==
  /\ phase \in {"start", "part 2", "search", "mkdirs", "copy", "done", "aborted"}
  /\ SearchTypeOK
  /\ dir_paths \in Seq(DirPath)
  /\ file_paths \in Seq(Path)
  /\ next \in Nat \ {0}
  /\ xdfs_file # NoFile =>
       /\ xdfs_file \in [entry : Offsets, offset : Nat]
       /\ xdfs_file.offset <= SizeBytes[xdfs_file.entry]
  /\ local_dirs \subseteq Seq(Name)
  /\ DOMAIN local_files \subseteq Seq(Name)
  /\ \A name \in DOMAIN local_files : local_files[name] \in Seq(Byte)
  /\ runs \in Nat
  /\ found \subseteq Seq(Name)
  /\ shortened \subseteq Seq(Name)

(* Extraction into an existing and empty root_dir ends early only when the *)
(* host fails, when the image is none, or at an entry without a name       *)
(* (extract_files.cc:28-90): every path that was listed opens, the parent  *)
(* of every directory and file is made before it, and no two paths get in  *)
(* each other's way.                                                       *)
AbortHasCause ==
  phase = "aborted" =>
    \/ hostFailed \/ BadVolume
    \/ found # {}
    \/ <<>> \notin local_dirs
    \/ next \in DOMAIN file_paths /\ file_paths[next].slash

(* "Extracting files complete." (extract_files.cc:101): below the root and *)
(* below every directory that was found, each directory of the disc is     *)
(* made and searched and each file is there with all its bytes and no      *)
(* others, whatever an earlier run left; except those whose writes the     *)
(* host cut short.                                                         *)
DoneIsComplete ==
  phase = "done" =>
    \A dir \in {RootPath} \cup InSeq(dir_paths) :
      /\ EntriesAt(dir) # {}
      /\ \A o \in EntriesAt(dir) :
           LET path == PathTo(dir, o) IN
           IF IsDir(Disc[o].attributes)
           THEN path \in InSeq(dir_paths) /\ path.names \in local_dirs
           ELSE /\ path.names \in DOMAIN local_files
                /\ path.names \notin shortened =>
                     local_files[path.names] = FileBytes(o)

(* A run that finds directories of an earlier one stops at the first mkdir *)
(* (extract_files.cc:56-61): it changes no file, so what an interrupted    *)
(* extraction left is neither completed nor damaged.                       *)
RerunTouchesNoFile == [][found # {} => UNCHANGED local_files]_vars

(* Every run ends.                                                         *)
ExtractEnds ==
  phase \notin {"done", "aborted"} ~> phase \in {"done", "aborted"}
-----------------------------------------------------------------------------
(* The inductive strengthening of AbortHasCause.                           *)

DirNames == {d.names : d \in InSeq(dir_paths)}
FileNames == {f.names : f \in {x \in InSeq(file_paths) : ~ x.slash}}

(* The paths found open what they were found as, and the listing is of the *)
(* directory that is searched.                                             *)
OpenInv ==
  /\ \A d \in InSeq(dirs_to_search) \cup InSeq(dir_paths) : DirsAt(d) # {}
  /\ \A f \in InSeq(file_paths) : f.slash \/ FilesAt(f) # {}
  /\ \E base \in DirsAt(current_dir_path) : InSeq(entries) \subseteq Table(base)
  /\ \A i, j \in DOMAIN entries : i # j => entries[i] # entries[j]

(* Each path's parent was found before it.                                 *)
ParentInv ==
  /\ \A i \in DOMAIN dir_paths :
       /\ dir_paths[i].names # <<>>
       /\ \/ Front(dir_paths[i].names) = <<>>
          \/ \E j \in 1 .. i - 1 :
               Front(dir_paths[i].names) = dir_paths[j].names
  /\ \A t \in FileNames : t # <<>> /\ Front(t) \in {<<>>} \cup DirNames
  /\ InSeq(dirs_to_search) \cup {current_dir_path}
       \subseteq {RootPath} \cup InSeq(dir_paths)

(* A directory waits once, nothing below it is found before it is searched *)
(* and no path is found twice.                                             *)
NewInv ==
  /\ \A i, j \in DOMAIN dirs_to_search :
       i # j => dirs_to_search[i] # dirs_to_search[j]
  /\ entries # <<>> => current_dir_path \notin InSeq(dirs_to_search)
  /\ \A t \in DirNames \cup FileNames :
       /\ \A s \in InSeq(dirs_to_search) : Front(t) # s.names
       /\ \A o \in InSeq(entries) :
            t # Append(current_dir_path.names, Disc[o].name)
  /\ \A i, j \in DOMAIN dir_paths :
       i # j => dir_paths[i].names # dir_paths[j].names
  /\ DirNames \cap FileNames = {}

RootFlat ==
  \A o \in Table(SectorToOffset(volume.root_directory_sector)) :
    ~ IsDir(Disc[o].attributes)

(* A run begins with nothing found, and no directory of the root is        *)
(* forgotten.                                                              *)
RootInv ==
  /\ phase \in {"start", "part 2"} =>
       /\ dirs_to_search = <<>> /\ current_dir_path = RootPath /\ entries = <<>>
       /\ dir_paths = <<>> /\ file_paths = <<>>
  /\ phase \in {"mkdirs", "copy"} => dirs_to_search = <<>> /\ entries = <<>>
  /\ phase \in {"search", "mkdirs", "copy"} /\ dir_paths = <<>> =>
       \/ RootPath \in InSeq(dirs_to_search)
       \/ \A o \in Table(SectorToOffset(volume.root_directory_sector)) :
            IsDir(Disc[o].attributes) => o \in InSeq(entries)

(* What is on the host: below root_dir what an earlier run left and what   *)
(* this one has made.                                                      *)
HostInv ==
  /\ phase \in {"start", "part 2", "search"} => local_dirs \ {<<>>} = found
  /\ phase = "mkdirs" =>
       local_dirs \ {<<>>} = found \cup
         {dir_paths[i].names : i \in {k \in DOMAIN dir_paths : k < next}}
  /\ phase = "copy" => local_dirs \ {<<>>} = found \cup DirNames
  /\ DOMAIN local_files # {} /\ local_dirs \subseteq {<<>>} => RootFlat
  /\ phase = "mkdirs" /\ found = {} /\ dir_paths # <<>> => DOMAIN local_files = {}

SearchInv == OpenInv /\ ParentInv /\ NewInv /\ RootInv

IInv == TypeOK /\ SearchInv /\ HostInv /\ AbortHasCause
-----------------------------------------------------------------------------
(* The inductive strengthening of DoneIsComplete and RerunTouchesNoFile.   *)

Listed(dir, o) ==
  PathTo(dir, o) \in
    InSeq(IF IsDir(Disc[o].attributes) THEN dir_paths ELSE file_paths)

(* A directory that is found waits, or all that it has is found, but for   *)
(* the rest of the listing.                                                *)
CompleteInv ==
  /\ phase \in {"search", "mkdirs", "copy", "done"} =>
       \A dir \in {RootPath} \cup InSeq(dir_paths) :
         \/ dir \in InSeq(dirs_to_search)
         \/ \A o \in EntriesAt(dir) :
              Listed(dir, o) \/ (dir = current_dir_path /\ o \in InSeq(entries))
  /\ phase = "done" => dirs_to_search = <<>> /\ entries = <<>>

RootDirNames ==
  {<<Disc[o].name>> : o \in {x \in EntriesAt(RootPath) : IsDir(Disc[x].attributes)}}

(* Directories below root_dir begin with one of the image's root; files    *)
(* are copied only by a run that found none.                               *)
MadeInv ==
  /\ local_dirs \subseteq {<<>>} \/ local_dirs \cap RootDirNames # {}
  /\ found = {} \/ found \cap RootDirNames # {}
  /\ phase = "mkdirs" =>
       \A i \in DOMAIN dir_paths : i < next => dir_paths[i].names \notin found
  /\ phase \in {"copy", "done"} => found = {} /\ DirNames \subseteq local_dirs

(* The i-th file is there, and is complete if no write was cut short and   *)
(* it is not being written again.                                          *)
IsCopied(i) ==
  LET path == file_paths[i] IN
  /\ ~ path.slash
  /\ path.names \in DOMAIN local_files
  /\ \/ path.names \in shortened
     \/ xdfs_file # NoFile /\ path.names = file_paths[next].names
     \/ \A o \in FilesAt(path) : local_files[path.names] = FileBytes(o)

(* The first bytes of the file at hand are written.                        *)
IsBegun ==
  LET path == file_paths[next] IN
  /\ ~ path.slash
  /\ path.names \in DOMAIN local_files
  /\ xdfs_file.entry \in FilesAt(path)
  /\ \/ path.names \in shortened
     \/ local_files[path.names] =
          SubSeq(FileBytes(xdfs_file.entry), 1, xdfs_file.offset)

CopiedInv ==
  /\ xdfs_file # NoFile => phase \in {"copy", "aborted"}
  /\ phase = "copy" /\ xdfs_file # NoFile =>
       next \in DOMAIN file_paths /\ IsBegun
  /\ phase \in {"copy", "done"} =>
       \A i \in DOMAIN file_paths : i < next => IsCopied(i)
  /\ phase = "done" => next > Len(file_paths)

CInv == IInv /\ CompleteInv /\ MadeInv /\ CopiedInv
=============================================================================
