----------------------------- MODULE PrintFiles -----------------------------
(***************************************************************************)
(* print_files.cc: the paths of all directories and files of an image, in  *)
(* the order they are found.  The vector is printed as it is.              *)
(***************************************************************************)
EXTENDS DiscSearch

VARIABLE all_file_paths

printVars == <<phase, volume, searchVars, hostFailed, all_file_paths>>

PrintInit == SearchInit /\ all_file_paths = <<>>

FindPrintDir ==
  /\ ReadDescriptor \/ ReadDescriptorPart2 \/ ListDir
  /\ UNCHANGED all_file_paths

(* Mutant: only files are put on the list.                                 *)
AddFile ==
  /\ TakeEntry
  /\ all_file_paths' = IF IsDir(Disc[entry].attributes) THEN all_file_paths
                       ELSE Append(all_file_paths, new_path)

AddPath ==
  /\ TakeEntry
  /\ all_file_paths' = Append(all_file_paths, new_path)

Output ==
  /\ SearchDone
  /\ phase' = "done"
  /\ UNCHANGED <<volume, searchVars, hostFailed, all_file_paths>>

PrintStep == FindPrintDir \/ AddPath \/ Output

PrintNext == PrintStep \/ (SearchFails /\ UNCHANGED all_file_paths)

PrintSpec == PrintInit /\ [][PrintNext]_printVars
PrintFairSpec == PrintSpec /\ WF_printVars(PrintStep)
-----------------------------------------------------------------------------
(* The variables have their types.                                         *)
PrintTypeOK ==
  /\ phase \in {"start", "part 2", "search", "done", "aborted"}
  /\ SearchTypeOK
  /\ all_file_paths \in Seq(Path)

(* The search stops early (print_files.cc:27,31,49) only when the host     *)
(* fails or the image is none: OpenDir opens every path that the search    *)
(* has put together.                                                       *)
PrintAbortHasCause == phase = "aborted" => hostFailed \/ BadVolume

(* Printed, on its own line, before the j-th line.                         *)
Before(j) == {all_file_paths[i] : i \in {k \in DOMAIN all_file_paths : k < j}}

DirsIn(paths) == {p \in paths : p.slash}

(* The directory has an entry without a name.                              *)
HasBlank(dir) == \E o \in EntriesAt(dir) : Disc[o].name = EmptyName

(* What is printed (print_files.cc:38,54) is the tree of the image: under  *)
(* the root and under every directory printed, all that the directory has; *)
(* no path that does not open; a directory before what is in it; and each  *)
(* path once, but for that of a directory with a blank entry, which stands *)
(* for the blank entry as well.                                            *)
PrintsTree ==
  phase = "done" =>
    /\ \A dir \in {RootPath} \cup DirsIn(InSeq(all_file_paths)) :
         /\ EntriesAt(dir) # {}
         /\ \A o \in EntriesAt(dir) : PathTo(dir, o) \in InSeq(all_file_paths)
    /\ \A j \in DOMAIN all_file_paths :
         LET path == all_file_paths[j] IN
         /\ path.slash \/ FilesAt(path) # {}
         /\ \/ Front(path.names) = <<>>
            \/ \E dir \in DirsIn(Before(j)) : dir.names = Front(path.names)
         /\ path \in Before(j) => path.slash /\ HasBlank(path)

(* The listing is printed, or the process ends.                            *)
PrintEnds == <>(phase \in {"done", "aborted"})
-----------------------------------------------------------------------------
(* The inductive strengthening of PrintsTree.                              *)

(* The paths open what they were found as, and the listing is of the       *)
(* directory that is searched.                                             *)
PrintOpenInv ==
  /\ \A d \in InSeq(dirs_to_search) \cup DirsIn(InSeq(all_file_paths)) :
       DirsAt(d) # {}
  /\ \A f \in InSeq(all_file_paths) : f.slash \/ FilesAt(f) # {}
  /\ \E base \in DirsAt(current_dir_path) : InSeq(entries) \subseteq Table(base)
  /\ \A i, j \in DOMAIN entries : i # j => entries[i] # entries[j]

(* Each path's directory was found before it.                              *)
PrintParentInv ==
  /\ \A j \in DOMAIN all_file_paths :
       LET names == all_file_paths[j].names IN
       \/ Front(names) = <<>>
       \/ \E dir \in DirsIn(Before(j)) : dir.names = Front(names)
  /\ InSeq(dirs_to_search) \cup {current_dir_path}
       \subseteq {RootPath} \cup DirsIn(InSeq(all_file_paths))

OnlyBlanksRepeat ==
  \A j \in DOMAIN all_file_paths :
    LET path == all_file_paths[j] IN
    path \in Before(j) => path.slash /\ HasBlank(path)

(* A directory waits once, nothing below it is found before it is searched *)
(* and no path is found twice, but for a blank entry.                      *)
PrintNewInv ==
  /\ \A i, j \in DOMAIN dirs_to_search :
       i # j => dirs_to_search[i] # dirs_to_search[j]
  /\ entries # <<>> => current_dir_path \notin InSeq(dirs_to_search)
  /\ \A path \in InSeq(all_file_paths) :
       /\ path.names # <<>> =>
            \A s \in InSeq(dirs_to_search) : Front(path.names) # s.names
       /\ \A o \in InSeq(entries) :
            Disc[o].name # EmptyName =>
              path.names # Append(current_dir_path.names, Disc[o].name)
  /\ OnlyBlanksRepeat

(* A directory that is found waits, or all that it has is found, but for   *)
(* the rest of the listing.                                                *)
PrintCompleteInv ==
  /\ phase \in {"start", "part 2"} =>
       /\ dirs_to_search = <<>> /\ current_dir_path = RootPath
       /\ entries = <<>> /\ all_file_paths = <<>>
  /\ phase = "done" => dirs_to_search = <<>> /\ entries = <<>>
  /\ phase \in {"search", "done"} =>
       \A dir \in {RootPath} \cup DirsIn(InSeq(all_file_paths)) :
         \/ dir \in InSeq(dirs_to_search)
         \/ \A o \in EntriesAt(dir) :
              \/ PathTo(dir, o) \in InSeq(all_file_paths)
              \/ dir = current_dir_path /\ o \in InSeq(entries)

PrintInv ==
  /\ PrintTypeOK /\ PrintAbortHasCause
  /\ PrintOpenInv /\ PrintParentInv /\ PrintNewInv /\ PrintCompleteInv
=============================================================================
