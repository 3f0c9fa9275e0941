------------------------- MODULE DiscSearchProofs --------------------------
(***************************************************************************)
(* Proofs about the two programs that search a disc, for every image whose *)
(* tables are trees and all listings of them: ExtractFiles, with every size*)
(* of the buffer and any number of runs, then PrintFiles.                  *)
(***************************************************************************)
EXTENDS ExtractFiles, PrintFiles, XdfsDiscProofs, TLAPS

(* A path is found as a directory's, with a slash, or as a file's without  *)
(* one; a blank entry adds nothing.                                        *)
LEMMA PathToType ==
  ASSUME NEW dir \in DirPath, NEW o \in Offsets
  PROVE  /\ PathTo(dir, o) \in Path
         /\ IsDir(Disc[o].attributes) => PathTo(dir, o) \in DirPath
         /\ Disc[o].name = EmptyName => PathTo(dir, o) = dir
         /\ Disc[o].name # EmptyName =>
              PathTo(dir, o).names = Append(dir.names, Disc[o].name)
         /\ IsDir(Disc[o].attributes) => Disc[o].name # EmptyName
         /\ Disc[o].name # EmptyName =>
              (PathTo(dir, o).slash <=> IsDir(Disc[o].attributes))
<1>1. Disc[o].name \in Name /\ dir.names \in Seq(Name) /\ dir.slash = TRUE
  BY DiscAssumption DEF DirPath
<1>2. Append(dir.names, Disc[o].name) \in Seq(Name)
  BY <1>1
<1>3. IsDir(Disc[o].attributes) => Disc[o].name # EmptyName
  BY NamelessAssumption
<1>4. CASE Disc[o].name = EmptyName
  BY <1>1, <1>3, <1>4 DEF PathTo, DirPath, Path
<1>5. CASE Disc[o].name # EmptyName /\ IsDir(Disc[o].attributes)
  BY <1>2, <1>5 DEF PathTo, DirPath, Path
<1>6. CASE Disc[o].name # EmptyName /\ ~ IsDir(Disc[o].attributes)
  <2>1. PathTo(dir, o) = [names |-> Append(dir.names, Disc[o].name), slash |-> FALSE]
    <3>1. IsDir(Disc[o].attributes) = FALSE
      BY <1>6, Zenon DEF IsDir
    <3> QED
      BY <1>6, <3>1, Zenon DEF PathTo
  <2>2. FALSE \in BOOLEAN
    BY Zenon
  <2>3. PathTo(dir, o) \in Path
    BY <1>2, <2>1, <2>2 DEF Path
  <2> QED
    BY <1>6, <2>1, <2>3
<1> QED
  BY <1>4, <1>5, <1>6

(* Two paths of directories with the same names are the same.              *)
LEMMA SameNames == \A d, e \in DirPath : d.names = e.names => d = e
<1>1. \A d \in DirPath : d = [names |-> d.names, slash |-> TRUE]
  <2> SUFFICES ASSUME NEW d \in DirPath PROVE d = [names |-> d.names, slash |-> TRUE]
    OBVIOUS
  <2>1. d = [names |-> d.names, slash |-> d.slash] /\ d.slash = TRUE
    BY DEF DirPath
  <2> QED
    BY ONLY <2>1, Zenon
<1> QED
  BY ONLY <1>1, Zenon

(* Facts about sequences.                                                  *)
LEMMA FrontFacts ==
  ASSUME NEW S, NEW s \in Seq(S), s # <<>>
  PROVE  /\ Front(s) \in Seq(S) /\ Len(Front(s)) = Len(s) - 1
         /\ s[Len(s)] \in S /\ s[Len(s)] \in InSeq(s)
         /\ \A i \in 1 .. Len(s) - 1 : Front(s)[i] = s[i]
         /\ InSeq(Front(s)) \subseteq InSeq(s)
<1>1. Len(s) \in Nat \ {0} /\ Len(s) - 1 \in Nat /\ Len(s) - 1 <= Len(s)
  OBVIOUS
<1>2. /\ Front(s) \in Seq(S) /\ Len(Front(s)) = Len(s) - 1
      /\ \A i \in 1 .. Len(s) - 1 : Front(s)[i] = s[i]
  BY <1>1, PrefixFacts DEF Front
<1>3. s[Len(s)] \in S /\ s[Len(s)] \in InSeq(s)
  BY <1>1 DEF InSeq
<1>4. InSeq(Front(s)) \subseteq InSeq(s)
  <2> SUFFICES ASSUME NEW i \in DOMAIN Front(s) PROVE Front(s)[i] \in InSeq(s)
    BY DEF InSeq
  <2>1. i \in 1 .. Len(s) - 1 /\ i \in DOMAIN s
    BY <1>1, <1>2
  <2> QED
    BY <1>2, <2>1 DEF InSeq
<1> QED
  BY <1>2, <1>3, <1>4

LEMMA AppendFacts ==
  ASSUME NEW S, NEW s \in Seq(S), NEW e \in S
  PROVE  /\ Front(Append(s, e)) = s
         /\ Append(s, e) # <<>> /\ Append(s, e) # s
         /\ InSeq(Append(s, e)) = InSeq(s) \cup {e}
         /\ \A t \in Seq(S), f \in S : Append(s, e) = Append(t, f) => s = t /\ e = f
<1>1. Append(s, e) \in Seq(S) /\ Len(Append(s, e)) = Len(s) + 1
  OBVIOUS
<1>2. Front(Append(s, e)) = s
  BY DEF Front
<1>3. InSeq(Append(s, e)) = InSeq(s) \cup {e}
  <2>1. /\ DOMAIN Append(s, e) = DOMAIN s \cup {Len(s) + 1}
        /\ \A i \in DOMAIN s : Append(s, e)[i] = s[i]
        /\ Append(s, e)[Len(s) + 1] = e
    BY <1>1
  <2> QED
    BY <2>1 DEF InSeq
<1>4. ASSUME NEW t \in Seq(S), NEW f \in S, Append(s, e) = Append(t, f)
      PROVE  s = t /\ e = f
  <2>1. Front(Append(t, f)) = t
    BY DEF Front
  <2>2. Append(s, e)[Len(s) + 1] = e /\ Append(t, f)[Len(t) + 1] = f
    OBVIOUS
  <2> QED
    BY <1>2, <1>4, <2>1, <2>2
<1> QED
  BY <1>1, <1>2, <1>3, <1>4
-----------------------------------------------------------------------------
(* What paths open.                                                        *)

(* The image does not change, and so what a path opens.                    *)
LEMMA SameImage ==
  ASSUME UNCHANGED volume
  PROVE  \A p : DirsAt(p)' = DirsAt(p) /\ FilesAt(p)' = FilesAt(p)
BY DEF DirsAt, FilesAt

(* The root path opens the table that the volume descriptor names.         *)
LEMMA RootOpens ==
  DirsAt(RootPath) = {SectorToOffset(volume.root_directory_sector)}
BY RootNamed DEF DirsAt, RootPath

(* What OpenDir opens is a directory of the disc.                          *)
LEMMA OpensDirectory ==
  ASSUME volume \in Volumes, NEW dir \in DirPath, NEW base \in DirsAt(dir)
  PROVE  base \in DirBases
<1>1. volume.root_directory_sector \in RootSectors /\ dir.names \in Seq(Name)
  BY VolumeAssumption DEF DirPath
<1> QED
  BY <1>1, NamedDirectory DEF DirsAt

(* An entry of the directory that a path opens is opened by the path that  *)
(* is put together for it.                                                 *)
LEMMA PathOpens ==
  ASSUME NEW dir \in DirPath, NEW base \in DirsAt(dir),
         NEW o \in Offsets, o \in Table(base), Disc[o].name # EmptyName
  PROVE  /\ IsDir(Disc[o].attributes) => DirsAt(PathTo(dir, o)) # {}
         /\ ~ IsDir(Disc[o].attributes) => o \in FilesAt(PathTo(dir, o))
<1>1. dir.names \in Seq(Name)
  BY DEF DirPath
<1>2. PathTo(dir, o).names = Append(dir.names, Disc[o].name)
  BY PathToType
<1> QED
  BY <1>1, <1>2, NamedEntry DEF DirsAt, FilesAt

(* A directory of the root is one of the root's table.                     *)
LEMMA FirstDirectory ==
  ASSUME NEW dir \in DirPath, dir.names # <<>>, Front(dir.names) = <<>>,
         DirsAt(dir) # {}
  PROVE  ~ RootFlat /\ dir.names \in RootDirNames
<1> DEFINE names == dir.names
           root == volume.root_directory_sector
<1>1. names \in Seq(Name) /\ Len(names) = 1
  <2>1. names \in Seq(Name) /\ names # <<>> /\ Front(names) = <<>>
    BY DEF DirPath
  <2> HIDE DEF names
  <2>2. Len(Front(names)) = Len(names) - 1
    BY ONLY <2>1, FrontFacts, Zenon
  <2>3. Len(Front(names)) = 0
    BY <2>1
  <2>4. Len(names) \in Nat
    BY <2>1
  <2> QED
    BY <2>1, <2>2, <2>3, <2>4
<1>2. PICK c \in Chains(root, dir.names) : c # <<>> => IsDir(Disc[c[Len(c)]].attributes)
  BY DEF DirsAt, DirsNamed
<1>3. c \in Seq(Offsets) /\ Len(c) = 1
  <2> HIDE DEF names
  <2>1. c \in [1 .. Len(names) -> Offsets]
    BY <1>2 DEF Chains, names
  <2>2. Len(names) \in Nat
    BY <1>1
  <2>3. c \in Seq(Offsets) /\ Len(c) = Len(names)
    BY <2>1, <2>2
  <2> QED
    BY <1>1, <2>3
<1>4. c[1] \in Table(EndOf(root, SubSeq(c, 1, 0)))
  BY <1>1, <1>2 DEF Chains
<1>5. SubSeq(c, 1, 0) = <<>>
  BY <1>3
<1>6. c[1] \in Table(SectorToOffset(volume.root_directory_sector))
  BY <1>4, <1>5, Zenon DEF EndOf
<1>7. c # <<>>
  <2>1. c = <<>> => Len(c) = 0
    OBVIOUS
  <2> QED
    BY <1>3, <2>1
<1>8. IsDir(Disc[c[1]].attributes)
  BY <1>2, <1>3, <1>7
<1>9. dir.names = <<Disc[c[1]].name>>
  <2>1. Disc[c[1]].name = names[1]
    BY <1>1, <1>2 DEF Chains
  <2> HIDE DEF names
  <2>2. names = <<names[1]>>
    BY <1>1
  <2> QED
    BY <2>1, <2>2 DEF names
<1>10. c[1] \in EntriesAt(RootPath)
  BY <1>6, RootOpens DEF EntriesAt
<1> QED
  BY <1>6, <1>8, <1>9, <1>10, Zenon DEF RootFlat, RootDirNames

(* So a path opens one directory or one file.                              *)
LEMMA OneOpens ==
  ASSUME volume \in Volumes, NEW path \in Path
  PROVE  /\ \A b, c \in DirsAt(path) : b = c
         /\ \A o, q \in FilesAt(path) : o = q
<1>1. volume.root_directory_sector \in RootSectors /\ path.names \in Seq(Name)
  BY VolumeAssumption DEF Path
<1> QED
  BY <1>1, OneNamed DEF DirsAt, FilesAt

LEMMA OneDirectory ==
  ASSUME volume \in Volumes, NEW dir \in DirPath, NEW base \in DirsAt(dir)
  PROVE  /\ EntriesAt(dir) = Table(base)
         /\ Table(base) \subseteq Offsets /\ base \in Table(base)
<1>1. \A b \in DirsAt(dir) : b = base
  <2>1. dir \in Path
    BY DEF DirPath, Path
  <2> QED
    BY <2>1, OneOpens
<1>2. base \in DirBases
  BY OpensDirectory
<1>3. base \in Bases /\ base \in Offsets
  BY <1>2, TableAssumption DEF DirBases, Bases
<1>4. Table(base) = {x \in Offsets : \A S \in SUBSET Offsets :
                      base \in S /\ Closed(base, S) => x \in S}
  BY <1>3 DEF Table, Subtree
<1>5. Table(base) \subseteq Offsets /\ base \in Table(base)
  BY <1>3, <1>4
<1> QED
  BY <1>1, <1>5 DEF EntriesAt
-----------------------------------------------------------------------------
(* Types.                                                                  *)

(* What the last directory opens may be listed.                            *)
LEMMA ListedType ==
  ASSUME SearchTypeOK, ListDir
  PROVE  LET dir == dirs_to_search[Len(dirs_to_search)] IN
         /\ dir \in DirPath /\ dir \in InSeq(dirs_to_search)
         /\ Front(dirs_to_search) \in Seq(DirPath)
         /\ \A base \in DirsAt(dir) : \A list \in Listings[base] :
              /\ base \in DirBases
              /\ list \in Seq(Offsets) /\ InSeq(list) = Table(base)
              /\ \A i, j \in DOMAIN list : i # j => list[i] # list[j]
<1> DEFINE dir == dirs_to_search[Len(dirs_to_search)]
<1>1. dirs_to_search \in Seq(DirPath) /\ dirs_to_search # <<>> /\ volume \in Volumes
  BY DEF ListDir, AtDir, SearchTypeOK
<1>2. dir \in DirPath /\ dir \in InSeq(dirs_to_search)
  BY <1>1, FrontFacts
<1>3. Front(dirs_to_search) \in Seq(DirPath)
  BY <1>1, FrontFacts
<1> HIDE DEF dir
<1>4. ASSUME NEW base \in DirsAt(dir), NEW list \in Listings[base]
      PROVE  /\ base \in DirBases
             /\ list \in Seq(Offsets) /\ InSeq(list) = Table(base)
             /\ \A i, j \in DOMAIN list : i # j => list[i] # list[j]
  <2>1. base \in DirBases
    BY <1>1, <1>2, OpensDirectory
  <2> QED
    BY <2>1, ListedAssumption DEF InSeq
<1> QED
  BY <1>2, <1>3, <1>4 DEF dir

(* The entry that is taken and its path have their types.                  *)
LEMMA TakenType ==
  ASSUME SearchTypeOK, TakeEntry
  PROVE  /\ entry \in Offsets /\ entry \in InSeq(entries)
         /\ new_path \in Path
         /\ IsDir(Disc[entry].attributes) => new_path \in DirPath
         /\ entries' \in Seq(Offsets) /\ Len(entries') = Len(entries) - 1
         /\ \A i \in 1 .. Len(entries) - 1 : entries'[i] = entries[i + 1]
         /\ entries[1] = entry /\ Len(entries) \in Nat \ {0}
<1>1. /\ entries \in Seq(Offsets) /\ entries # <<>> /\ entries' = Tail(entries)
      /\ current_dir_path \in DirPath
  BY DEF TakeEntry, SearchTypeOK
<1>2. entry \in Offsets /\ entry \in InSeq(entries) /\ entries[1] = entry
  BY <1>1 DEF entry, InSeq
<1>3. /\ entries' \in Seq(Offsets) /\ Len(entries') = Len(entries) - 1
      /\ \A i \in 1 .. Len(entries) - 1 : entries'[i] = entries[i + 1]
      /\ Len(entries) \in Nat \ {0}
  BY <1>1
<1> QED
  BY <1>1, <1>2, <1>3, PathToType DEF new_path

(* The search keeps its types.                                             *)
LEMMA SearchTypeStep ==
  ASSUME SearchTypeOK,
         ReadDescriptor \/ ReadDescriptorPart2 \/ ListDir \/ TakeEntry \/ SearchFails
  PROVE  /\ SearchTypeOK'
         /\ phase' \in {"start", "part 2", "search", "aborted"}
<1>1. CASE ReadDescriptor
  BY <1>1 DEF ReadDescriptor, SearchTypeOK, searchVars
<1>2. CASE ReadDescriptorPart2
  <2>1. RootPath \in DirPath
    BY DEF RootPath, DirPath
  <2>2. <<RootPath>> \in Seq(DirPath)
    BY <2>1
  <2> QED
    BY <1>2, <2>2 DEF ReadDescriptorPart2, SearchTypeOK, searchVars
<1>3. CASE ListDir
  <2>1. /\ dirs_to_search' \in Seq(DirPath) /\ current_dir_path' \in DirPath
        /\ entries' \in Seq(Offsets)
    BY <1>3, ListedType DEF ListDir, SearchTypeOK
  <2> QED
    BY <1>3, <2>1 DEF ListDir, AtDir, SearchTypeOK
<1>4. CASE TakeEntry
  <2>1. dirs_to_search' \in Seq(DirPath)
    BY <1>4, TakenType DEF TakeEntry, SearchTypeOK
  <2> QED
    BY <1>4, <2>1, TakenType DEF TakeEntry, SearchTypeOK
<1>5. CASE SearchFails
  <2>1. hostFailed' \in BOOLEAN
    BY <1>5, Zenon DEF SearchFails
  <2> QED
    BY <1>5, <2>1 DEF SearchFails, SearchTypeOK, searchVars
<1> QED
  BY <1>1, <1>2, <1>3, <1>4, <1>5

LEMMA SearchTyped == TypeOK => SearchTypeOK
BY DEF TypeOK

(* What is written to a local file are bytes of the image.                 *)
LEMMA WrittenType ==
  ASSUME NEW o \in Offsets, NEW from \in Nat, NEW amount \in Nat,
         from + amount <= SizeBytes[o]
  PROVE  SubSeq(FileBytes(o), from + 1, from + amount) \in Seq(Byte)
<1>1. SizeBytes[o] \in Nat
  BY CopyAssumption
<1>2. \A k \in 1 .. SizeBytes[o] : <<o, k>> \in Byte
  BY <1>1 DEF Byte
<1>3. FileBytes(o) \in Seq(Byte) /\ Len(FileBytes(o)) = SizeBytes[o]
  BY <1>1, <1>2 DEF FileBytes
<1> DEFINE f == FileBytes(o)
<1> HIDE DEF f
<1>4. f \in Seq(Byte) /\ Len(f) = SizeBytes[o]
  BY <1>3 DEF f
<1>5. SubSeq(f, from + 1, from + amount) \in Seq(Byte)
  BY <1>1, <1>4
<1> QED
  BY <1>5 DEF f

(* The host's files once creat has made one or emptied it.                 *)
LEMMA CreatedType ==
  ASSUME TypeOK, NEW path \in Path, local_files' = Created(path.names)
  PROVE  /\ DOMAIN local_files' \subseteq Seq(Name)
         /\ \A name \in DOMAIN local_files' : local_files'[name] \in Seq(Byte)
<1>1. path.names \in Seq(Name)
  BY DEF Path
<1>2. <<>> \in Seq(Byte)
  OBVIOUS
<1> QED
  BY <1>1, <1>2 DEF Created, TypeOK

(* The types are kept.                                                     *)
LEMMA TypeStep == TypeOK /\ [Next]_vars => TypeOK'
<1> SUFFICES ASSUME TypeOK, [Next]_vars PROVE TypeOK'
  OBVIOUS
<1>1. CASE FindDir
  BY <1>1, SearchTyped, SearchTypeStep DEF FindDir, TypeOK, pathVars, localVars, history
<1>2. CASE AddEntry
  <2>1. dir_paths' \in Seq(DirPath) /\ file_paths' \in Seq(Path)
    <3>1. dir_paths \in Seq(DirPath) /\ file_paths \in Seq(Path)
      BY DEF TypeOK
    <3>2. new_path \in Path /\ (IsDir(Disc[entry].attributes) => new_path \in DirPath)
      BY <1>2, SearchTyped, TakenType DEF AddEntry
    <3>3. CASE IsDir(Disc[entry].attributes)
      BY <1>2, <3>1, <3>2, <3>3 DEF AddEntry
    <3>4. CASE ~ IsDir(Disc[entry].attributes)
      BY <1>2, <3>1, <3>2, <3>4 DEF AddEntry
    <3> QED
      BY <3>3, <3>4
  <2>2. SearchTypeOK' /\ phase' \in {"start", "part 2", "search", "aborted"}
    BY <1>2, SearchTyped, SearchTypeStep DEF AddEntry
  <2> QED
    BY <1>2, <2>1, <2>2 DEF AddEntry, TypeOK, localVars, history
<1>3. CASE SearchEnds
  BY <1>3 DEF SearchEnds, SearchDone, TypeOK, SearchTypeOK, searching, searchVars,
     pathVars, localVars, history
<1>4. CASE MakeDir
  <2>1. SearchTypeOK'
    BY <1>4 DEF MakeDir, TypeOK, SearchTypeOK, searching, searchVars
  <2>2. dir_paths[next] \in DirPath
    BY <1>4 DEF MakeDir, TypeOK
  <2>3. /\ local_dirs' \subseteq Seq(Name) /\ next' \in Nat \ {0}
        /\ phase' \in {"mkdirs", "aborted"}
    <3>1. local_dirs \subseteq Seq(Name) /\ next \in Nat \ {0} /\ phase = "mkdirs"
      BY <1>4 DEF MakeDir, TypeOK
    <3>2. dir_paths[next].names \in Seq(Name)
      BY <2>2 DEF DirPath
    <3>3. CASE CanMake(dir_paths[next])
      BY <1>4, <3>1, <3>2, <3>3 DEF MakeDir
    <3>4. CASE ~ CanMake(dir_paths[next])
      BY <1>4, <3>1, <3>4 DEF MakeDir
    <3> QED
      BY <3>3, <3>4
  <2> QED
    BY <1>4, <2>1, <2>3 DEF MakeDir, TypeOK, pathVars, history
<1>5. CASE MakeDirsEnds
  BY <1>5 DEF MakeDirsEnds, TypeOK, SearchTypeOK, searching, searchVars,
     pathVars, localVars, history
<1>6. CASE StartFile
  <2>1. SearchTypeOK'
    BY <1>6 DEF StartFile, TypeOK, SearchTypeOK, searching, searchVars
  <2>2. file_paths[next] \in Path
    BY <1>6 DEF StartFile, AtFile, TypeOK
  <2>3. /\ DOMAIN local_files' \subseteq Seq(Name)
        /\ \A name \in DOMAIN local_files' : local_files'[name] \in Seq(Byte)
    <3>1. CASE CanCreate(file_paths[next])
      <4>1. local_files' = Created(file_paths[next].names)
        BY <1>6, <3>1 DEF StartFile
      <4> QED
        BY <2>2, <4>1, CreatedType
    <3>2. CASE ~ CanCreate(file_paths[next])
      BY <1>6, <3>2 DEF StartFile, TypeOK
    <3> QED
      BY <3>1, <3>2
  <2>4. /\ phase' \in {"copy", "aborted"}
        /\ xdfs_file' # NoFile =>
             /\ xdfs_file' \in [entry : Offsets, offset : Nat]
             /\ xdfs_file'.offset <= SizeBytes[xdfs_file'.entry]
    <3>1. CASE xdfs_file' = NoFile
      BY <1>6, <3>1 DEF StartFile, AtFile
    <3>2. CASE xdfs_file' # NoFile
      <4>1. PICK o \in FilesAt(file_paths[next]) :
              xdfs_file' = [entry |-> o, offset |-> 0] /\ UNCHANGED phase
        BY <1>6, <3>2 DEF StartFile
      <4>2. o \in Offsets
        <5>1. file_paths[next].names \in Seq(Name)
          BY <2>2 DEF Path
        <5> QED
          BY <5>1, NamedFile DEF FilesAt
      <4>3. SizeBytes[o] \in Nat
        BY <4>2, CopyAssumption
      <4> QED
        BY <1>6, <4>1, <4>2, <4>3 DEF StartFile, AtFile
    <3> QED
      BY <3>1, <3>2
  <2> QED
    BY <1>6, <2>1, <2>3, <2>4 DEF StartFile, TypeOK, pathVars, history
<1>7. CASE CopyBuffer
  <2>1. SearchTypeOK'
    BY <1>7 DEF CopyBuffer, TypeOK, SearchTypeOK, searching, searchVars
  <2> DEFINE o == xdfs_file.entry
             from == xdfs_file.offset
  <2>2. file_paths[next] \in Path
    BY <1>7 DEF CopyBuffer, AtFile, TypeOK
  <2>3. /\ o \in Offsets /\ from \in Nat /\ from <= SizeBytes[o]
        /\ SizeBytes[o] \in Nat /\ buffer_size \in Nat \ {0}
        /\ xdfs_file \in [entry : Offsets, offset : Nat]
    BY <1>7, CopyAssumption DEF CopyBuffer, TypeOK
  <2>4. amount_read \in Nat /\ from + amount_read <= SizeBytes[o]
    BY <2>3 DEF amount_read, Least
  <2>5. PICK amount \in 0 .. amount_read :
          /\ local_files' = [local_files EXCEPT ![file_paths[next].names] =
                               @ \o Written(amount)]
          /\ shortened' = IF amount < amount_read
                          THEN shortened \cup {file_paths[next].names} ELSE shortened
    BY <1>7 DEF CopyBuffer
  <2>6. Written(amount) \in Seq(Byte)
    BY <2>3, <2>4, WrittenType DEF Written
  <2>7. /\ DOMAIN local_files' \subseteq Seq(Name)
        /\ \A name \in DOMAIN local_files' : local_files'[name] \in Seq(Byte)
    <3>1. /\ DOMAIN local_files \subseteq Seq(Name)
          /\ \A name \in DOMAIN local_files : local_files[name] \in Seq(Byte)
      BY DEF TypeOK
    <3>2. DOMAIN local_files' = DOMAIN local_files
      BY <2>5
    <3>3. ASSUME NEW name \in DOMAIN local_files
          PROVE  local_files'[name] \in Seq(Byte)
      <4>1. CASE name = file_paths[next].names
        <5>1. local_files'[name] = local_files[name] \o Written(amount)
          BY <2>5, <4>1
        <5> QED
          BY <2>6, <3>1, <5>1
      <4>2. CASE name # file_paths[next].names
        BY <2>5, <3>1, <4>2
      <4> QED
        BY <4>1, <4>2
    <3> QED
      BY <3>1, <3>2, <3>3
  <2>8. shortened' \subseteq Seq(Name)
    BY <2>2, <2>5 DEF TypeOK, Path
  <2>9. /\ next' \in Nat \ {0}
        /\ xdfs_file' # NoFile =>
             /\ xdfs_file' \in [entry : Offsets, offset : Nat]
             /\ xdfs_file'.offset <= SizeBytes[xdfs_file'.entry]
    <3>1. CASE FillsBuffer
      <4>1. xdfs_file' = [xdfs_file EXCEPT !.offset = @ + amount_read] /\ next' = next
        BY <1>7, <3>1 DEF CopyBuffer
      <4>2. xdfs_file'.entry = o /\ xdfs_file'.offset = from + amount_read
        BY <2>3, <4>1
      <4>3. xdfs_file' \in [entry : Offsets, offset : Nat]
        BY <2>3, <2>4, <4>1
      <4> QED
        BY <2>4, <4>1, <4>2, <4>3 DEF TypeOK
    <3>2. CASE ~ FillsBuffer
      <4>1. xdfs_file' = NoFile /\ next' = next + 1
        BY <1>7, <3>2 DEF CopyBuffer
      <4>2. next \in Nat \ {0}
        BY DEF TypeOK
      <4> QED
        BY <4>1, <4>2
    <3> QED
      BY <3>1, <3>2
  <2> QED
    BY <1>7, <2>1, <2>7, <2>8, <2>9 DEF CopyBuffer, TypeOK, pathVars
<1>8. CASE CopyFilesEnds
  BY <1>8 DEF CopyFilesEnds, TypeOK, SearchTypeOK, searching, searchVars,
     pathVars, localVars, history
<1>9. CASE HostFails
  <2>1. SearchTypeOK' /\ phase' = "aborted"
    <3>1. CASE SearchFails
      BY <3>1, SearchTyped, SearchTypeStep DEF SearchFails
    <3>2. CASE CopyFails
      <4>1. hostFailed' \in BOOLEAN
        BY <3>2, Zenon DEF CopyFails
      <4> QED
        BY <3>2, <4>1 DEF CopyFails, TypeOK, SearchTypeOK, searching, searchVars
    <3> QED
      BY <1>9, <3>1, <3>2 DEF HostFails
  <2>2. /\ DOMAIN local_files' \subseteq Seq(Name)
        /\ \A name \in DOMAIN local_files' : local_files'[name] \in Seq(Byte)
    <3>1. CASE UNCHANGED local_files
      BY <3>1 DEF TypeOK
    <3>2. CASE ~ UNCHANGED local_files
      <4>1. AtFile /\ local_files' = Created(file_paths[next].names)
        BY <1>9, <3>2 DEF HostFails, CopyFails
      <4>2. file_paths[next] \in Path
        BY <4>1 DEF AtFile, TypeOK
      <4> QED
        BY <4>1, <4>2, CreatedType
    <3> QED
      BY <3>1, <3>2
  <2> QED
    BY <1>9, <2>1, <2>2 DEF HostFails, TypeOK, pathVars, history
<1>10. CASE Rerun
  <2>1. RootPath \in DirPath /\ hostFailed' \in BOOLEAN
    <3>1. RootPath \in DirPath
      BY DEF RootPath, DirPath
    <3>2. hostFailed' \in BOOLEAN
      BY <1>10, Zenon DEF Rerun
    <3> QED
      BY <3>1, <3>2
  <2>2. SearchTypeOK'
    <3>1. dirs_to_search' \in Seq(DirPath) /\ entries' \in Seq(Offsets)
      BY <1>10 DEF Rerun
    <3>2. volume' \in Volumes /\ current_dir_path' \in DirPath
      BY <1>10, <2>1 DEF Rerun, TypeOK, SearchTypeOK
    <3> QED
      BY <2>1, <3>1, <3>2 DEF SearchTypeOK
  <2> QED
    <3>1. dir_paths' \in Seq(DirPath) /\ file_paths' \in Seq(Path)
      BY <1>10 DEF Rerun
    <3>2. /\ phase' = "start" /\ next' = 1 /\ xdfs_file' = NoFile
          /\ local_dirs' = local_dirs /\ local_files' = local_files
          /\ runs' = runs + 1 /\ found' \subseteq Seq(Name) /\ shortened' = {}
      BY <1>10 DEF Rerun, localVars, TypeOK
    <3>3. /\ DOMAIN local_files' \subseteq Seq(Name)
          /\ \A name \in DOMAIN local_files' : local_files'[name] \in Seq(Byte)
          /\ local_dirs' \subseteq Seq(Name)
      BY <3>2 DEF TypeOK
    <3>4. runs \in Nat
      BY DEF TypeOK
    <3>5. phase' \in {"start", "part 2", "search", "mkdirs", "copy", "done", "aborted"}
      BY <3>2
    <3>6. next' \in Nat \ {0} /\ runs' \in Nat /\ shortened' \subseteq Seq(Name)
      BY <3>2, <3>4
    <3> QED
      BY <2>2, <3>1, <3>2, <3>3, <3>5, <3>6 DEF TypeOK
<1>11. CASE UNCHANGED vars
  BY <1>11 DEF vars, TypeOK, SearchTypeOK, searching, searchVars, pathVars,
     localVars, history
<1> QED
  BY <1>1, <1>2, <1>3, <1>4, <1>5, <1>6, <1>7, <1>8, <1>9, <1>10, <1>11
     DEF Next, Step
-----------------------------------------------------------------------------
(* The search.                                                             *)

(* What is left of the listing.                                            *)
LEMMA RestOfListing ==
  ASSUME SearchTypeOK, TakeEntry,
         \A i, j \in DOMAIN entries : i # j => entries[i] # entries[j]
  PROVE  /\ InSeq(entries') \subseteq InSeq(entries) /\ entry \notin InSeq(entries')
         /\ InSeq(entries) \subseteq InSeq(entries') \cup {entry}
         /\ \A i, j \in DOMAIN entries' : i # j => entries'[i] # entries'[j]
<1>1. \A i, j \in DOMAIN entries : i # j => entries[i] # entries[j]
  OBVIOUS
<1>2. /\ entries \in Seq(Offsets) /\ entries' \in Seq(Offsets)
      /\ Len(entries') = Len(entries) - 1 /\ Len(entries) \in Nat \ {0}
      /\ \A i \in 1 .. Len(entries) - 1 : entries'[i] = entries[i + 1]
      /\ entries[1] = entry
  BY TakenType DEF SearchTypeOK
<1>3. DOMAIN entries' = 1 .. Len(entries) - 1 /\ DOMAIN entries = 1 .. Len(entries)
  BY <1>2
<1>4. \A i \in DOMAIN entries' : i + 1 \in DOMAIN entries /\ i + 1 # 1
  BY <1>2, <1>3
<1>5. \A i \in DOMAIN entries : i # 1 => i - 1 \in DOMAIN entries' /\ i = (i - 1) + 1
  BY <1>2, <1>3
<1>6. InSeq(entries') \subseteq InSeq(entries)
  BY <1>2, <1>3, <1>4 DEF InSeq
<1>7. entry \notin InSeq(entries')
  <2>1. 1 \in DOMAIN entries
    BY <1>2, <1>3
  <2> QED
    BY <1>1, <1>2, <1>3, <1>4, <2>1 DEF InSeq
<1>8. InSeq(entries) \subseteq InSeq(entries') \cup {entry}
  BY <1>2, <1>3, <1>5 DEF InSeq
<1>9. \A i, j \in DOMAIN entries' : i # j => entries'[i] # entries'[j]
  <2> SUFFICES ASSUME NEW i \in DOMAIN entries', NEW j \in DOMAIN entries', i # j
               PROVE  entries'[i] # entries'[j]
    OBVIOUS
  <2>1. i + 1 # j + 1
    BY <1>2, <1>3
  <2> QED
    BY <1>1, <1>2, <1>3, <1>4, <2>1
<1> QED
  BY <1>6, <1>7, <1>8, <1>9

LEMMA ListingTyped ==
  ASSUME TypeOK, OpenInv
  PROVE  /\ SearchTypeOK
         /\ \A i, j \in DOMAIN entries : i # j => entries[i] # entries[j]
BY DEF TypeOK, OpenInv

(* What an entry adds to what was found.                                   *)
LEMMA TakenPath ==
  ASSUME TypeOK, AddEntry
  PROVE  /\ IsDir(Disc[entry].attributes) =>
              /\ InSeq(dirs_to_search') = InSeq(dirs_to_search) \cup {new_path}
              /\ dir_paths' = Append(dir_paths, new_path)
              /\ InSeq(dir_paths') = InSeq(dir_paths) \cup {new_path}
              /\ file_paths' = file_paths
         /\ ~ IsDir(Disc[entry].attributes) =>
              /\ dirs_to_search' = dirs_to_search
              /\ dir_paths' = dir_paths
              /\ InSeq(file_paths') = InSeq(file_paths) \cup {new_path}
<1>1. /\ dirs_to_search \in Seq(DirPath) /\ dir_paths \in Seq(DirPath)
      /\ file_paths \in Seq(Path)
  BY DEF TypeOK, SearchTypeOK
<1>2. new_path \in Path /\ (IsDir(Disc[entry].attributes) => new_path \in DirPath)
  BY SearchTyped, TakenType DEF AddEntry
<1>3. CASE IsDir(Disc[entry].attributes)
  <2>1. /\ dirs_to_search' = Append(dirs_to_search, new_path)
        /\ dir_paths' = Append(dir_paths, new_path)
        /\ file_paths' = file_paths
    BY <1>3 DEF AddEntry, TakeEntry
  <2> QED
    BY <1>1, <1>2, <1>3, <2>1, AppendFacts
<1>4. CASE ~ IsDir(Disc[entry].attributes)
  <2>1. /\ dirs_to_search' = dirs_to_search
        /\ dir_paths' = dir_paths
        /\ file_paths' = Append(file_paths, new_path)
    BY <1>4 DEF AddEntry, TakeEntry
  <2> QED
    BY <1>1, <1>2, <1>4, <2>1, AppendFacts
<1> QED
  BY <1>3, <1>4

LEMMA TakenNames ==
  ASSUME TypeOK, AddEntry
  PROVE  /\ IsDir(Disc[entry].attributes) =>
              /\ DirNames' = DirNames \cup {new_path.names}
              /\ FileNames' = FileNames
         /\ ~ IsDir(Disc[entry].attributes) =>
              /\ DirNames' = DirNames
              /\ FileNames' = IF Disc[entry].name = EmptyName THEN FileNames
                              ELSE FileNames \cup {new_path.names}
<1>1. CASE IsDir(Disc[entry].attributes)
  BY <1>1, TakenPath DEF DirNames, FileNames
<1>2. CASE ~ IsDir(Disc[entry].attributes)
  <2>1. current_dir_path \in DirPath /\ entry \in Offsets
    BY SearchTyped, TakenType DEF AddEntry, TypeOK, SearchTypeOK
  <2>2. new_path.slash <=> Disc[entry].name = EmptyName
    <3>1. CASE Disc[entry].name = EmptyName
      <4>1. new_path = current_dir_path
        BY <2>1, <3>1, PathToType DEF new_path
      <4> QED
        BY <2>1, <3>1, <4>1 DEF DirPath
    <3>2. CASE Disc[entry].name # EmptyName
      BY <1>2, <2>1, <3>2, PathToType DEF new_path
    <3> QED
      BY <3>1, <3>2
  <2>3. /\ dir_paths' = dir_paths
        /\ InSeq(file_paths') = InSeq(file_paths) \cup {new_path}
    BY <1>2, TakenPath
  <2>4. DirNames' = DirNames
    BY <2>3 DEF DirNames
  <2>5. {f \in InSeq(file_paths') : ~ f.slash} =
          {f \in InSeq(file_paths) : ~ f.slash} \cup
          (IF Disc[entry].name = EmptyName THEN {} ELSE {new_path})
    BY <2>2, <2>3
  <2>6. FileNames' = IF Disc[entry].name = EmptyName THEN FileNames
                     ELSE FileNames \cup {new_path.names}
    BY <2>5 DEF FileNames
  <2> QED
    BY <1>2, <2>4, <2>6
<1> QED
  BY <1>1, <1>2

(* Steps that leave the search alone.                                      *)
LEMMA QuietStep ==
  ASSUME UNCHANGED <<searching, pathVars>>
  PROVE  /\ OpenInv => OpenInv'
         /\ ParentInv => ParentInv'
         /\ NewInv => NewInv'
<1>1. UNCHANGED <<volume, dirs_to_search, current_dir_path, entries, dir_paths, file_paths>>
  BY DEF searching, searchVars, pathVars
<1>2. \A p : DirsAt(p)' = DirsAt(p) /\ FilesAt(p)' = FilesAt(p)
  BY <1>1, SameImage
<1>3. DirNames' = DirNames /\ FileNames' = FileNames
  BY <1>1 DEF DirNames, FileNames
<1>4. OpenInv => OpenInv'
  BY <1>1, <1>2 DEF OpenInv
<1>5. ParentInv => ParentInv'
  BY <1>1, <1>3 DEF ParentInv
<1>6. NewInv => NewInv'
  BY <1>1, <1>3 DEF NewInv
<1> QED
  BY <1>4, <1>5, <1>6

(* The invariant of the search when it begins, or has not begun.           *)
NothingFound ==
  /\ entries = <<>> /\ dir_paths = <<>> /\ file_paths = <<>>
  /\ dirs_to_search \in {<<>>, <<RootPath>>} /\ current_dir_path = RootPath

LEMMA SearchBegins == NothingFound => OpenInv /\ ParentInv /\ NewInv
<1> SUFFICES ASSUME NothingFound PROVE OpenInv /\ ParentInv /\ NewInv
  OBVIOUS
<1> USE DEF NothingFound
<1>1. /\ InSeq(entries) = {} /\ DOMAIN entries = {}
      /\ InSeq(dir_paths) = {} /\ DOMAIN dir_paths = {} /\ InSeq(file_paths) = {}
      /\ InSeq(dirs_to_search) \subseteq {RootPath}
      /\ DOMAIN dirs_to_search \subseteq {1}
  BY DEF InSeq
<1>2. DirNames = {} /\ FileNames = {}
  BY <1>1 DEF DirNames, FileNames
<1>3. DirsAt(RootPath) # {}
  BY RootOpens
<1>4. OpenInv
  BY <1>1, <1>3 DEF OpenInv
<1>5. ParentInv
  BY <1>1, <1>2 DEF ParentInv
<1>6. NewInv
  BY <1>1, <1>2 DEF NewInv
<1> QED
  BY <1>4, <1>5, <1>6

(* A directory is listed.                                                  *)
LEMMA ListStep ==
  ASSUME TypeOK, OpenInv, ParentInv, NewInv, ListDir, UNCHANGED pathVars
  PROVE  /\ current_dir_path' = dirs_to_search[Len(dirs_to_search)]
         /\ \E base \in DirsAt(current_dir_path') : entries' \in Listings[base]
         /\ UNCHANGED <<phase, volume>>
         /\ OpenInv' /\ ParentInv' /\ NewInv'
<1> DEFINE dir == dirs_to_search[Len(dirs_to_search)]
<1>1. /\ dir \in DirPath /\ dir \in InSeq(dirs_to_search)
      /\ \A base \in DirsAt(dir) : \A list \in Listings[base] :
           /\ base \in DirBases
           /\ list \in Seq(Offsets) /\ InSeq(list) = Table(base)
           /\ \A i, j \in DOMAIN list : i # j => list[i] # list[j]
  BY SearchTyped, ListedType
<1>2. DirsAt(dir) # {}
  BY <1>1 DEF OpenInv
<1>3. /\ current_dir_path' = dir /\ UNCHANGED <<phase, volume>>
      /\ \E base \in DirsAt(dir) : entries' \in Listings[base]
      /\ dirs_to_search' = Front(dirs_to_search)
      /\ entries = <<>> /\ dirs_to_search # <<>>
  BY <1>2 DEF ListDir, AtDir
<1>4. dirs_to_search \in Seq(DirPath)
  BY DEF TypeOK, SearchTypeOK
<1>5. /\ InSeq(dirs_to_search') \subseteq InSeq(dirs_to_search)
      /\ Len(dirs_to_search') = Len(dirs_to_search) - 1
      /\ \A i \in 1 .. Len(dirs_to_search) - 1 : dirs_to_search'[i] = dirs_to_search[i]
      /\ dirs_to_search' \in Seq(DirPath)
  BY <1>3, <1>4, FrontFacts
<1>6. /\ DOMAIN dirs_to_search' = 1 .. Len(dirs_to_search) - 1
      /\ DOMAIN dirs_to_search = 1 .. Len(dirs_to_search)
      /\ Len(dirs_to_search) \in Nat \ {0}
  BY <1>3, <1>4, <1>5
<1>7. UNCHANGED <<dir_paths, file_paths>>
  BY DEF pathVars
<1>8. DirNames' = DirNames /\ FileNames' = FileNames
  BY <1>7 DEF DirNames, FileNames
<1>9. \A p : DirsAt(p)' = DirsAt(p) /\ FilesAt(p)' = FilesAt(p)
  BY <1>3, SameImage
<1> HIDE DEF dir
<1>10. OpenInv'
  <2>1. \A d \in InSeq(dirs_to_search') \cup InSeq(dir_paths') : DirsAt(d)' # {}
    BY <1>5, <1>7, <1>9 DEF OpenInv
  <2>2. \A f \in InSeq(file_paths') : f.slash \/ FilesAt(f)' # {}
    BY <1>7, <1>9 DEF OpenInv
  <2>3. PICK base \in DirsAt(dir) : entries' \in Listings[base]
    BY <1>3
  <2>4. /\ InSeq(entries') \subseteq Table(base)
        /\ \A i, j \in DOMAIN entries' : i # j => entries'[i] # entries'[j]
    BY <1>1, <2>3
  <2>5. base \in DirsAt(current_dir_path)'
    BY <1>3, <1>9, <2>3
  <2> QED
    BY <2>1, <2>2, <2>4, <2>5 DEF OpenInv
<1>11. ParentInv'
  <2>1. dir \in {RootPath} \cup InSeq(dir_paths)
    BY <1>1 DEF ParentInv
  <2> QED
    BY <1>3, <1>5, <1>7, <1>8, <2>1 DEF ParentInv
<1>12. NewInv'
  <2>1. \A i, j \in DOMAIN dirs_to_search' :
          i # j => dirs_to_search'[i] # dirs_to_search'[j]
    BY <1>5, <1>6 DEF NewInv
  <2>2. dir \notin InSeq(dirs_to_search')
    <3> SUFFICES ASSUME NEW i \in DOMAIN dirs_to_search', dirs_to_search'[i] = dir
                 PROVE  FALSE
      BY DEF InSeq
    <3>1. /\ i \in DOMAIN dirs_to_search /\ Len(dirs_to_search) \in DOMAIN dirs_to_search
          /\ i # Len(dirs_to_search) /\ dirs_to_search'[i] = dirs_to_search[i]
      BY <1>5, <1>6
    <3> QED
      BY <3>1 DEF NewInv, dir
  <2>3. ASSUME NEW t \in DirNames \cup FileNames
        PROVE  /\ \A s \in InSeq(dirs_to_search') : Front(t) # s.names
               /\ \A o \in InSeq(entries') : t # Append(dir.names, Disc[o].name)
    <3>1. Front(t) # dir.names /\ \A s \in InSeq(dirs_to_search') : Front(t) # s.names
      BY <1>1, <1>5, <2>3 DEF NewInv
    <3>2. ASSUME NEW o \in InSeq(entries') PROVE t # Append(dir.names, Disc[o].name)
      <4>1. entries' \in Seq(Offsets)
        BY <1>1, <1>3
      <4>2. o \in Offsets /\ dir.names \in Seq(Name)
        BY <1>1, <3>2, <4>1 DEF InSeq, DirPath
      <4>3. Disc[o].name \in Name
        BY <4>2, DiscAssumption
      <4>4. Front(Append(dir.names, Disc[o].name)) = dir.names
        BY <4>2, <4>3, AppendFacts
      <4> QED
        BY <3>1, <4>4
    <3> QED
      BY <3>1, <3>2
  <2> QED
    BY <1>3, <1>7, <1>8, <2>1, <2>2, <2>3 DEF NewInv
<1>13. \E base \in DirsAt(current_dir_path') : entries' \in Listings[base]
  BY <1>3
<1> QED
  BY <1>3, <1>10, <1>11, <1>12, <1>13 DEF dir

(* A path is found: it opens what it stands for.                           *)
LEMMA AddOpens ==
  ASSUME TypeOK, OpenInv, AddEntry
  PROVE  OpenInv'
<1>1. TakeEntry /\ UNCHANGED <<volume, current_dir_path>>
  BY DEF AddEntry, TakeEntry
<1>2. \A p : DirsAt(p)' = DirsAt(p) /\ FilesAt(p)' = FilesAt(p)
  BY <1>1, SameImage
<1>3. PICK base \in DirsAt(current_dir_path) : InSeq(entries) \subseteq Table(base)
  BY DEF OpenInv
<1>4. /\ InSeq(entries') \subseteq Table(base)
      /\ \A i, j \in DOMAIN entries' : i # j => entries'[i] # entries'[j]
      /\ base \in DirsAt(current_dir_path)'
  BY <1>1, <1>2, <1>3, ListingTyped, RestOfListing
<1>5. /\ current_dir_path \in DirPath /\ entry \in Offsets /\ entry \in Table(base)
  BY <1>1, <1>3, SearchTyped, TakenType DEF TypeOK, SearchTypeOK
<1>6. \A d \in InSeq(dirs_to_search') \cup InSeq(dir_paths') : DirsAt(d)' # {}
  <2>1. \A d \in InSeq(dirs_to_search) \cup InSeq(dir_paths) : DirsAt(d) # {}
    BY DEF OpenInv
  <2>2. IsDir(Disc[entry].attributes) => DirsAt(new_path) # {}
    BY <1>3, <1>5, PathOpens, PathToType DEF new_path
  <2> QED
    BY <1>2, <2>1, <2>2, TakenPath
<1>7. \A f \in InSeq(file_paths') : f.slash \/ FilesAt(f)' # {}
  <2>1. \A f \in InSeq(file_paths) : f.slash \/ FilesAt(f) # {}
    BY DEF OpenInv
  <2>2. ~ IsDir(Disc[entry].attributes) => new_path.slash \/ FilesAt(new_path) # {}
    <3>1. CASE Disc[entry].name = EmptyName
      <4>1. new_path = current_dir_path
        BY <1>5, <3>1, PathToType DEF new_path
      <4> QED
        BY <1>5, <4>1 DEF DirPath
    <3>2. CASE Disc[entry].name # EmptyName
      BY <1>3, <1>5, <3>2, PathOpens DEF new_path
    <3> QED
      BY <3>1, <3>2
  <2> QED
    BY <1>2, <2>1, <2>2, TakenPath
<1> QED
  BY <1>4, <1>6, <1>7 DEF OpenInv

(* The names of an entry that is not blank.                                *)
LEMMA NewNames ==
  ASSUME SearchTypeOK, TakeEntry, Disc[entry].name # EmptyName
  PROVE  LET cur == current_dir_path.names IN
         /\ new_path.names = Append(cur, Disc[entry].name)
         /\ cur \in Seq(Name)
         /\ new_path.names # <<>> /\ new_path.names # cur
         /\ Front(new_path.names) = cur
         /\ \A o \in Offsets :
              new_path.names = Append(cur, Disc[o].name) =>
                Disc[o].name = Disc[entry].name
<1>1. /\ current_dir_path \in DirPath /\ entry \in Offsets
  BY TakenType DEF SearchTypeOK
<1>2. current_dir_path.names \in Seq(Name) /\ \A o \in Offsets : Disc[o].name \in Name
  BY <1>1, DiscAssumption DEF DirPath
<1>3. new_path.names = Append(current_dir_path.names, Disc[entry].name)
  BY <1>1, PathToType DEF new_path
<1> QED
  BY <1>1, <1>2, <1>3, AppendFacts

(* A path is found: its parent was found before.                           *)
LEMMA AddParent ==
  ASSUME TypeOK, ParentInv, AddEntry
  PROVE  ParentInv'
<1>1. TakeEntry /\ UNCHANGED current_dir_path
  BY DEF AddEntry, TakeEntry
<1>2. current_dir_path \in {RootPath} \cup InSeq(dir_paths)
  BY DEF ParentInv
<1>3. current_dir_path.names = <<>> \/
        \E j \in DOMAIN dir_paths : current_dir_path.names = dir_paths[j].names
  BY <1>2 DEF RootPath, InSeq
<1>4. entry \in Offsets /\ dir_paths \in Seq(DirPath)
  BY <1>1, SearchTyped, TakenType DEF TypeOK
<1>5. CASE IsDir(Disc[entry].attributes)
  <2>1. Disc[entry].name # EmptyName
    BY <1>4, <1>5, NamelessAssumption
  <2>2. new_path.names # <<>> /\ Front(new_path.names) = current_dir_path.names
    BY <1>1, <2>1, SearchTyped, NewNames
  <2>3. /\ dir_paths' = Append(dir_paths, new_path) /\ new_path \in DirPath
        /\ InSeq(dir_paths') = InSeq(dir_paths) \cup {new_path}
        /\ InSeq(dirs_to_search') = InSeq(dirs_to_search) \cup {new_path}
        /\ DirNames' = DirNames \cup {new_path.names} /\ FileNames' = FileNames
    BY <1>1, <1>5, TakenPath, TakenNames, SearchTyped, TakenType
  <2>4. /\ DOMAIN dir_paths' = DOMAIN dir_paths \cup {Len(dir_paths) + 1}
        /\ DOMAIN dir_paths = 1 .. Len(dir_paths) /\ Len(dir_paths) \in Nat
        /\ \A i \in DOMAIN dir_paths : dir_paths'[i] = dir_paths[i]
        /\ dir_paths'[Len(dir_paths) + 1] = new_path
    BY <1>4, <2>3
  <2>5. ASSUME NEW i \in DOMAIN dir_paths'
        PROVE  /\ dir_paths'[i].names # <<>>
               /\ \/ Front(dir_paths'[i].names) = <<>>
                  \/ \E j \in 1 .. i - 1 :
                       Front(dir_paths'[i].names) = dir_paths'[j].names
    <3>1. CASE i \in DOMAIN dir_paths
      <4>1. /\ dir_paths[i].names # <<>>
            /\ \/ Front(dir_paths[i].names) = <<>>
               \/ \E j \in 1 .. i - 1 :
                    Front(dir_paths[i].names) = dir_paths[j].names
        BY <3>1 DEF ParentInv
      <4>2. \A j \in 1 .. i - 1 : j \in DOMAIN dir_paths
        BY <2>4, <3>1
      <4> QED
        BY <2>4, <3>1, <4>1, <4>2
    <3>2. CASE i = Len(dir_paths) + 1
      <4>1. 1 .. i - 1 = DOMAIN dir_paths
        BY <2>4, <3>2
      <4> QED
        BY <1>3, <2>2, <2>4, <3>2, <4>1
    <3> QED
      BY <2>4, <3>1, <3>2
  <2>6. \A t \in FileNames' : t # <<>> /\ Front(t) \in {<<>>} \cup DirNames'
    BY <2>3 DEF ParentInv
  <2>7. InSeq(dirs_to_search') \cup {current_dir_path'}
          \subseteq {RootPath} \cup InSeq(dir_paths')
    BY <1>1, <2>3 DEF ParentInv
  <2> QED
    BY <2>5, <2>6, <2>7 DEF ParentInv
<1>6. CASE ~ IsDir(Disc[entry].attributes)
  <2>1. /\ dir_paths' = dir_paths /\ dirs_to_search' = dirs_to_search
        /\ DirNames' = DirNames
        /\ FileNames' = IF Disc[entry].name = EmptyName THEN FileNames
                        ELSE FileNames \cup {new_path.names}
    BY <1>6, TakenPath, TakenNames
  <2>2. Disc[entry].name # EmptyName =>
          /\ new_path.names # <<>>
          /\ Front(new_path.names) \in {<<>>} \cup DirNames
    <3>1. current_dir_path.names \in {<<>>} \cup DirNames
      BY <1>2 DEF DirNames, RootPath
    <3> QED
      BY <1>1, <3>1, SearchTyped, NewNames
  <2>3. \A t \in FileNames' : t # <<>> /\ Front(t) \in {<<>>} \cup DirNames'
    BY <2>1, <2>2 DEF ParentInv
  <2> QED
    BY <1>1, <2>1, <2>3 DEF ParentInv
<1> QED
  BY <1>5, <1>6

(* A path is found: it was not found before.                               *)
LEMMA AddNew ==
  ASSUME TypeOK, OpenInv, ParentInv, NewInv, AddEntry
  PROVE  NewInv'
<1> DEFINE cur == current_dir_path.names
           p == new_path.names
           blank == Disc[entry].name = EmptyName
<1>1. /\ TakeEntry /\ UNCHANGED current_dir_path /\ entries # <<>>
      /\ entry \in InSeq(entries) /\ entry \in Offsets /\ entries' \in Seq(Offsets)
  BY SearchTyped, TakenType DEF AddEntry, TakeEntry
<1>2. /\ InSeq(entries') \subseteq InSeq(entries) /\ entry \notin InSeq(entries')
      /\ InSeq(entries') \subseteq Offsets
  <2>1. \A i \in DOMAIN entries' : entries'[i] \in Offsets
    BY <1>1
  <2> QED
    BY <1>1, <2>1, ListingTyped, RestOfListing DEF InSeq
<1>3. /\ current_dir_path \in DirPath /\ dirs_to_search \in Seq(DirPath)
      /\ dir_paths \in Seq(DirPath) /\ volume \in Volumes
  BY DEF TypeOK, SearchTypeOK
<1>4. \A d, e \in DirPath : d.names = e.names => d = e
  BY SameNames
<1>5. InSeq(dirs_to_search) \subseteq DirPath
  BY <1>3 DEF InSeq
<1>6. \A s \in InSeq(dirs_to_search) : cur # s.names
  <2>1. current_dir_path \notin InSeq(dirs_to_search)
    BY <1>1 DEF NewInv
  <2> QED
    BY <1>3, <1>4, <1>5, <2>1
<1>7. ~ blank => p # <<>> /\ p # cur /\ Front(p) = cur
                 /\ p = Append(cur, Disc[entry].name)
  BY <1>1, SearchTyped, NewNames
<1>8. ~ blank => \A o \in InSeq(entries') : p # Append(cur, Disc[o].name)
  <2> SUFFICES ASSUME ~ blank, NEW o \in InSeq(entries'), p = Append(cur, Disc[o].name)
               PROVE  FALSE
    OBVIOUS
  <2>1. o \in Offsets /\ o \in InSeq(entries)
    BY <1>2
  <2>2. Disc[o].name = Disc[entry].name
    BY <1>1, <2>1, SearchTyped, NewNames
  <2>3. PICK base \in DirsAt(current_dir_path) : InSeq(entries) \subseteq Table(base)
    BY DEF OpenInv
  <2>4. base \in DirBases
    BY <1>3, <2>3, OpensDirectory
  <2>5. o = entry
    BY <1>1, <2>1, <2>2, <2>3, <2>4, NamesAssumption
  <2> QED
    BY <1>2, <2>5
<1>9. ~ blank => p \notin DirNames \cup FileNames
  BY <1>1, <1>7 DEF NewInv
<1>10. \A t \in DirNames \cup FileNames : Front(t) \in {<<>>} \cup DirNames
  <2>1. \A t \in FileNames : Front(t) \in {<<>>} \cup DirNames
    BY DEF ParentInv
  <2>2. ASSUME NEW t \in DirNames PROVE Front(t) \in {<<>>} \cup DirNames
    <3>1. PICK i \in DOMAIN dir_paths : t = dir_paths[i].names
      BY DEF DirNames, InSeq
    <3>2. CASE Front(t) = <<>>
      BY <3>2
    <3>3. CASE Front(t) # <<>>
      <4>1. PICK j \in 1 .. i - 1 : Front(t) = dir_paths[j].names
        BY <3>1, <3>3 DEF ParentInv
      <4>2. j \in DOMAIN dir_paths
        BY <1>3, <3>1, <4>1
      <4> QED
        BY <4>1, <4>2 DEF DirNames, InSeq
    <3> QED
      BY <3>2, <3>3
  <2> QED
    BY <2>1, <2>2
<1>11. \A t \in DirNames \cup FileNames :
         /\ \A s \in InSeq(dirs_to_search) : Front(t) # s.names
         /\ \A o \in InSeq(entries') : t # Append(cur, Disc[o].name)
  BY <1>2 DEF NewInv
<1> HIDE DEF cur, p, blank
<1>12. CASE IsDir(Disc[entry].attributes)
  <2>1. ~ blank
    BY <1>1, <1>12, NamelessAssumption DEF blank
  <2>2. /\ dir_paths' = Append(dir_paths, new_path) /\ new_path \in DirPath
        /\ dirs_to_search' = Append(dirs_to_search, new_path)
        /\ InSeq(dirs_to_search') = InSeq(dirs_to_search) \cup {new_path}
        /\ DirNames' = DirNames \cup {p} /\ FileNames' = FileNames
        /\ new_path.names = p
    BY <1>1, <1>12, TakenPath, TakenNames, SearchTyped, TakenType DEF TakeEntry, p
  <2>3. \A i, j \in DOMAIN dirs_to_search' :
          i # j => dirs_to_search'[i] # dirs_to_search'[j]
    <3>1. new_path \notin InSeq(dirs_to_search)
      <4>1. InSeq(dirs_to_search) \subseteq {RootPath} \cup InSeq(dir_paths)
        BY DEF ParentInv
      <4>2. new_path # RootPath
        BY <1>7, <2>1, <2>2 DEF RootPath
      <4>3. new_path \notin InSeq(dir_paths)
        BY <1>9, <2>1, <2>2 DEF DirNames
      <4> QED
        BY <4>1, <4>2, <4>3
    <3>2. /\ DOMAIN dirs_to_search' = DOMAIN dirs_to_search \cup {Len(dirs_to_search) + 1}
          /\ \A i \in DOMAIN dirs_to_search : dirs_to_search'[i] = dirs_to_search[i]
          /\ dirs_to_search'[Len(dirs_to_search) + 1] = new_path
      BY <1>3, <2>2
    <3>3. \A i \in DOMAIN dirs_to_search : dirs_to_search[i] # new_path
      BY <3>1 DEF InSeq
    <3>4. \A i, j \in DOMAIN dirs_to_search :
            i # j => dirs_to_search[i] # dirs_to_search[j]
      BY DEF NewInv
    <3> QED
      BY <3>2, <3>3, <3>4
  <2>4. current_dir_path \notin InSeq(dirs_to_search')
    BY <1>6, <1>7, <2>1, <2>2 DEF cur
  <2>5. ASSUME NEW t \in DirNames' \cup FileNames'
        PROVE  /\ \A s \in InSeq(dirs_to_search') : Front(t) # s.names
               /\ \A o \in InSeq(entries') : t # Append(cur, Disc[o].name)
    <3>1. CASE t = p
      BY <1>6, <1>7, <1>8, <2>1, <2>2, <3>1
    <3>2. CASE t \in DirNames \cup FileNames
      <4>1. Front(t) # p
        BY <1>7, <1>9, <1>10, <2>1, <3>2
      <4> QED
        BY <1>11, <2>2, <3>2, <4>1
    <3> QED
      BY <2>2, <3>1, <3>2
  <2>6. \A i, j \in DOMAIN dir_paths' :
          i # j => dir_paths'[i].names # dir_paths'[j].names
    <3>1. /\ DOMAIN dir_paths' = DOMAIN dir_paths \cup {Len(dir_paths) + 1}
          /\ \A i \in DOMAIN dir_paths : dir_paths'[i] = dir_paths[i]
          /\ dir_paths'[Len(dir_paths) + 1] = new_path
      BY <1>3, <2>2
    <3>2. \A i \in DOMAIN dir_paths : dir_paths[i].names # p
      BY <1>9, <2>1 DEF DirNames, InSeq
    <3>3. \A i, j \in DOMAIN dir_paths : i # j => dir_paths[i].names # dir_paths[j].names
      BY DEF NewInv
    <3> QED
      BY <2>2, <3>1, <3>2, <3>3
  <2>7. DirNames' \cap FileNames' = {}
    BY <1>9, <2>1, <2>2 DEF NewInv
  <2> QED
    BY <1>1, <2>3, <2>4, <2>5, <2>6, <2>7 DEF NewInv, cur
<1>13. CASE ~ IsDir(Disc[entry].attributes)
  <2>1. /\ dir_paths' = dir_paths /\ dirs_to_search' = dirs_to_search
        /\ DirNames' = DirNames
        /\ FileNames' = IF blank THEN FileNames ELSE FileNames \cup {p}
    BY <1>13, TakenPath, TakenNames DEF blank, p
  <2>2. ASSUME NEW t \in DirNames' \cup FileNames'
        PROVE  /\ \A s \in InSeq(dirs_to_search') : Front(t) # s.names
               /\ \A o \in InSeq(entries') : t # Append(cur, Disc[o].name)
    <3>1. CASE t = p /\ ~ blank
      BY <1>6, <1>7, <1>8, <2>1, <3>1
    <3>2. CASE t \in DirNames \cup FileNames
      BY <1>11, <2>1, <3>2
    <3> QED
      BY <2>1, <3>1, <3>2
  <2>3. DirNames' \cap FileNames' = {}
    BY <1>9, <2>1 DEF NewInv
  <2>4. current_dir_path \notin InSeq(dirs_to_search')
    BY <1>1, <2>1 DEF NewInv
  <2> QED
    BY <1>1, <2>1, <2>2, <2>3, <2>4 DEF NewInv, cur
<1> QED
  BY <1>12, <1>13

(* The search finds paths that open, after their parents, and each once.   *)
LEMMA SearchStep ==
  ASSUME IInv, [Next]_vars
  PROVE  OpenInv' /\ ParentInv' /\ NewInv'
<1> USE DEF IInv, SearchInv
<1>0. NothingFound' => OpenInv' /\ ParentInv' /\ NewInv'
  BY SearchBegins, PTL
<1>1. CASE UNCHANGED <<searching, pathVars>>
  BY <1>1, QuietStep
<1>2. CASE ReadDescriptorPart2 /\ UNCHANGED pathVars
  <2>1. CASE UNCHANGED dirs_to_search
    BY <1>2, <2>1, QuietStep DEF ReadDescriptorPart2, searching, searchVars
  <2>2. CASE ~ UNCHANGED dirs_to_search
    <3>1. dirs_to_search' = <<RootPath>> /\ UNCHANGED <<current_dir_path, entries>>
      BY <1>2, <2>2 DEF ReadDescriptorPart2
    <3>2. entries' = <<>> /\ dir_paths' = <<>> /\ file_paths' = <<>>
      BY <1>2, <3>1 DEF ReadDescriptorPart2, RootInv, pathVars
    <3>3. current_dir_path' = RootPath
      BY <1>2, <3>1 DEF ReadDescriptorPart2, RootInv
    <3> QED
      BY <1>0, <3>1, <3>2, <3>3 DEF NothingFound
  <2> QED
    BY <2>1, <2>2
<1>3. CASE ListDir /\ UNCHANGED pathVars
  BY <1>3, ListStep
<1>4. CASE AddEntry
  BY <1>4, AddOpens, AddParent, AddNew
<1>5. CASE Rerun
  <2>1. /\ entries' = <<>> /\ dir_paths' = <<>> /\ file_paths' = <<>>
        /\ dirs_to_search' = <<>> /\ current_dir_path' = RootPath
    BY <1>5 DEF Rerun
  <2> QED
    BY <1>0, <2>1 DEF NothingFound
<1>6. CASE FindDir /\ ReadDescriptor
  BY <1>1, <1>6 DEF FindDir, ReadDescriptor, searching
<1>7. CASE SearchEnds \/ MakeDir \/ MakeDirsEnds \/ StartFile \/ CopyBuffer
             \/ CopyFilesEnds
  BY <1>1, <1>7 DEF SearchEnds, MakeDir, MakeDirsEnds, StartFile, CopyBuffer,
     CopyFilesEnds
<1>8. CASE HostFails
  BY <1>1, <1>8 DEF HostFails, CopyFails, SearchFails, searching
<1>9. CASE UNCHANGED vars
  BY <1>1, <1>9 DEF vars
<1> QED
  BY <1>2, <1>3, <1>4, <1>5, <1>6, <1>7, <1>8, <1>9 DEF Next, Step, FindDir

(* No directory of the root is forgotten.                                  *)
LEMMA RootStep ==
  ASSUME IInv, [Next]_vars
  PROVE  RootInv'
<1> DEFINE rootTable == Table(SectorToOffset(volume.root_directory_sector))
<1>1. TypeOK /\ OpenInv /\ ParentInv /\ NewInv /\ RootInv
  BY DEF IInv, SearchInv
<1>2. CASE phase' \in {"aborted", "done"}
  BY <1>2 DEF RootInv
<1>3. CASE FindDir /\ ReadDescriptor
  BY <1>1, <1>3 DEF RootInv, FindDir, ReadDescriptor, searchVars, pathVars
<1>4. CASE FindDir /\ ReadDescriptorPart2
  <2>1. CASE phase' = "search" /\ dirs_to_search' = <<RootPath>>
    <3>1. RootPath \in InSeq(dirs_to_search')
      <4>1. 1 \in DOMAIN <<RootPath>> /\ <<RootPath>>[1] = RootPath
        OBVIOUS
      <4> QED
        BY <2>1, <4>1 DEF InSeq
    <3> QED
      BY <2>1, <3>1 DEF RootInv
  <2> QED
    BY <1>2, <1>4, <2>1 DEF ReadDescriptorPart2
<1>5. CASE FindDir /\ ListDir
  <2>1. /\ current_dir_path' = dirs_to_search[Len(dirs_to_search)]
        /\ \E base \in DirsAt(current_dir_path') : entries' \in Listings[base]
        /\ UNCHANGED <<phase, volume, dir_paths>> /\ phase = "search"
    BY <1>1, <1>5, ListStep DEF FindDir, ListDir, AtDir, pathVars
  <2> SUFFICES ASSUME dir_paths = <<>> PROVE rootTable = InSeq(entries')
    BY <2>1 DEF RootInv
  <2>2. InSeq(dir_paths) = {}
    BY DEF InSeq
  <2>3. dirs_to_search[Len(dirs_to_search)] \in InSeq(dirs_to_search)
    BY <1>1, <1>5, SearchTyped, ListedType
  <2>4. current_dir_path' = RootPath
    BY <1>1, <2>1, <2>2, <2>3 DEF ParentInv
  <2>5. DirsAt(current_dir_path') = {SectorToOffset(volume.root_directory_sector)}
    BY <2>4, RootOpens
  <2> QED
    BY <1>1, <1>5, <2>1, <2>5, SearchTyped, ListedType
<1>6. CASE AddEntry
  <2>1. phase' = "search" /\ phase = "search" /\ UNCHANGED volume /\ TakeEntry
    BY <1>6 DEF AddEntry, TakeEntry
  <2> SUFFICES ASSUME dir_paths' = <<>>
               PROVE  \/ RootPath \in InSeq(dirs_to_search')
                      \/ \A o \in rootTable :
                           IsDir(Disc[o].attributes) => o \in InSeq(entries')
    BY <2>1 DEF RootInv
  <2>2. ~ IsDir(Disc[entry].attributes)
    <3> SUFFICES ASSUME IsDir(Disc[entry].attributes) PROVE FALSE
      OBVIOUS
    <3>1. dir_paths' = Append(dir_paths, new_path) /\ new_path \in DirPath
      BY <1>1, <1>6, <2>1, TakenPath, SearchTyped, TakenType
    <3>2. dir_paths \in Seq(DirPath)
      BY <1>1 DEF TypeOK
    <3> QED
      BY <3>1, <3>2, AppendFacts
  <2>3. dir_paths' = dir_paths /\ dirs_to_search' = dirs_to_search
    BY <1>1, <1>6, <2>2, TakenPath
  <2>4. InSeq(entries) \subseteq InSeq(entries') \cup {entry}
    BY <1>1, <2>1, ListingTyped, RestOfListing
  <2> QED
    BY <1>1, <2>1, <2>2, <2>3, <2>4 DEF RootInv
<1>7. CASE SearchEnds
  BY <1>1, <1>7 DEF RootInv, SearchEnds, SearchDone, searching, searchVars, pathVars
<1>8. CASE MakeDir \/ MakeDirsEnds \/ StartFile \/ CopyBuffer
  <2>1. UNCHANGED <<volume, dirs_to_search, entries, dir_paths>>
    BY <1>8 DEF MakeDir, MakeDirsEnds, StartFile, CopyBuffer, searching,
       searchVars, pathVars
  <2>2. phase \in {"mkdirs", "copy"} /\ phase' \in {"mkdirs", "copy", "aborted"}
    BY <1>8 DEF MakeDir, MakeDirsEnds, StartFile, CopyBuffer, AtFile
  <2> QED
    BY <1>1, <2>1, <2>2 DEF RootInv
<1>9. CASE CopyFilesEnds \/ HostFails
  <2>1. phase' \in {"aborted", "done"}
    BY <1>9 DEF CopyFilesEnds, HostFails, CopyFails, SearchFails
  <2> QED
    BY <1>2, <2>1
<1>10. CASE Rerun
  BY <1>10 DEF Rerun, RootInv
<1>11. CASE UNCHANGED vars
  BY <1>1, <1>11 DEF vars, searching, searchVars, pathVars, RootInv
<1> QED
  BY <1>3, <1>4, <1>5, <1>6, <1>7, <1>8, <1>9, <1>10, <1>11 DEF Next, Step, FindDir
-----------------------------------------------------------------------------
(* What is on the host.                                                    *)

(* The first directory that is found is one of the root's.                 *)
LEMMA NotFlat ==
  ASSUME TypeOK, OpenInv, ParentInv, dir_paths # <<>>
  PROVE  ~ RootFlat
<1>1. dir_paths \in Seq(DirPath) /\ 1 \in DOMAIN dir_paths
  <2>1. dir_paths \in Seq(DirPath)
    BY DEF TypeOK
  <2> QED
    BY <2>1
<1>2. dir_paths[1] \in DirPath /\ dir_paths[1] \in InSeq(dir_paths)
  BY <1>1 DEF InSeq
<1>3. dir_paths[1].names # <<>>
  BY <1>1 DEF ParentInv
<1>4. Front(dir_paths[1].names) = <<>>
  <2>1. \A j : j \notin 1 .. 1 - 1
    OBVIOUS
  <2> QED
    BY <1>1, <2>1 DEF ParentInv
<1>5. DirsAt(dir_paths[1]) # {}
  BY <1>2 DEF OpenInv
<1> QED
  BY <1>2, <1>3, <1>4, <1>5, FirstDirectory

(* Files are copied once every directory is made.                          *)
LEMMA FlatAtCopy ==
  ASSUME IInv, phase = "copy", local_dirs \subseteq {<<>>}
  PROVE  RootFlat
<1>1. TypeOK /\ ParentInv /\ RootInv /\ HostInv
  BY DEF IInv, SearchInv
<1>2. DirNames \subseteq {<<>>}
  BY <1>1 DEF HostInv
<1>3. dir_paths = <<>>
  <2> SUFFICES ASSUME dir_paths # <<>> PROVE FALSE
    OBVIOUS
  <2>1. 1 \in DOMAIN dir_paths
    BY <1>1 DEF TypeOK
  <2>2. dir_paths[1].names \in DirNames /\ dir_paths[1].names # <<>>
    BY <1>1, <2>1 DEF DirNames, InSeq, ParentInv
  <2>3. DirNames = {}
    BY <1>1 DEF HostInv
  <2> QED
    BY <2>2, <2>3
<1>4. dirs_to_search = <<>> /\ entries = <<>>
  BY <1>1 DEF RootInv
<1>5. InSeq(dirs_to_search) = {} /\ InSeq(entries) = {}
  BY <1>4 DEF InSeq
<1> QED
  BY <1>1, <1>3, <1>5 DEF RootInv, RootFlat

(* The host's directories are those an earlier run left and those this one *)
(* has made; files without directories are the files of a flat image.      *)
LEMMA HostStep ==
  ASSUME IInv, [Next]_vars
  PROVE  HostInv'
<1>1. TypeOK /\ OpenInv /\ ParentInv /\ RootInv /\ HostInv
  BY DEF IInv, SearchInv
<1>2. volume' = volume
  BY DEF Next, Step, FindDir, ReadDescriptor, ReadDescriptorPart2, ListDir, AddEntry,
     TakeEntry, SearchEnds, MakeDir, MakeDirsEnds, StartFile, CopyBuffer, CopyFilesEnds,
     HostFails, CopyFails, SearchFails, Rerun, vars, searching
<1>3. RootFlat' <=> RootFlat
  BY <1>2 DEF RootFlat
<1>4. CASE FindDir \/ AddEntry
  <2>1. UNCHANGED <<localVars, history>> /\ phase \in {"start", "part 2", "search"}
    BY <1>4 DEF FindDir, AddEntry, ReadDescriptor, ReadDescriptorPart2, ListDir, AtDir,
       TakeEntry
  <2>2. phase' \in {"start", "part 2", "search", "aborted"}
    BY <1>1, <1>4, SearchTyped, SearchTypeStep DEF FindDir, AddEntry
  <2> QED
    BY <1>1, <1>3, <2>1, <2>2 DEF HostInv, localVars, history
<1>5. CASE SearchEnds
  <2>1. /\ UNCHANGED <<dir_paths, local_dirs, local_files, found>>
        /\ phase = "search" /\ phase' = "mkdirs" /\ next' = 1
    BY <1>5 DEF SearchEnds, SearchDone, pathVars, localVars, history
  <2>2. {k \in DOMAIN dir_paths : k < 1} = {}
    <3>1. dir_paths \in Seq(DirPath)
      BY <1>1 DEF TypeOK
    <3> QED
      BY <3>1
  <2>3. local_dirs \ {<<>>} = found
    BY <1>1, <2>1 DEF HostInv
  <2>4. found = {} /\ dir_paths # <<>> => DOMAIN local_files = {}
    BY <1>1, <2>3, NotFlat DEF HostInv
  <2>5. DOMAIN local_files' # {} /\ local_dirs' \subseteq {<<>>} => RootFlat'
    BY <1>1, <1>3, <2>1 DEF HostInv
  <2>6. local_dirs' \ {<<>>} = found' \cup
          {dir_paths'[i].names : i \in {k \in DOMAIN dir_paths' : k < next'}}
    BY <2>1, <2>2, <2>3
  <2> QED
    BY <2>1, <2>4, <2>5, <2>6 DEF HostInv
<1>6. CASE MakeDir
  <2>1. /\ UNCHANGED <<dir_paths, local_files, found>> /\ phase = "mkdirs"
        /\ next \in DOMAIN dir_paths
    BY <1>1, <1>6 DEF MakeDir, pathVars, history, TypeOK
  <2>2. CASE CanMake(dir_paths[next])
    <3> DEFINE name == dir_paths[next].names
    <3>1. /\ local_dirs' = local_dirs \cup {name} /\ next' = next + 1
          /\ phase' = phase /\ name # <<>>
      BY <1>6, <2>2 DEF MakeDir, CanMake
    <3>2. local_dirs \ {<<>>} = found \cup
            {dir_paths[i].names : i \in {k \in DOMAIN dir_paths : k < next}}
      BY <1>1, <2>1 DEF HostInv
    <3>3. {k \in DOMAIN dir_paths : k < next + 1}
            = {k \in DOMAIN dir_paths : k < next} \cup {next}
      BY <1>1, <2>1 DEF TypeOK
    <3>4. {dir_paths[i].names : i \in {k \in DOMAIN dir_paths : k < next + 1}}
            = {dir_paths[i].names : i \in {k \in DOMAIN dir_paths : k < next}} \cup {name}
      BY <3>3
    <3> HIDE DEF name
    <3>5. local_dirs' \ {<<>>} = found' \cup
            {dir_paths'[i].names : i \in {k \in DOMAIN dir_paths' : k < next'}}
      BY <2>1, <3>1, <3>2, <3>4
    <3>6. ~ local_dirs' \subseteq {<<>>}
      BY <3>1
    <3>7. found = {} /\ dir_paths # <<>> => DOMAIN local_files = {}
      BY <1>1, <2>1 DEF HostInv
    <3> QED
      BY <2>1, <3>1, <3>5, <3>6, <3>7 DEF HostInv
  <2>3. CASE ~ CanMake(dir_paths[next])
    <3>1. phase' = "aborted" /\ UNCHANGED local_dirs
      BY <1>6, <2>3 DEF MakeDir
    <3> QED
      BY <1>1, <1>3, <2>1, <3>1 DEF HostInv
  <2> QED
    BY <2>2, <2>3
<1>7. CASE MakeDirsEnds
  <2>1. /\ UNCHANGED <<dir_paths, local_dirs, local_files, found>>
        /\ phase = "mkdirs" /\ phase' = "copy" /\ next > Len(dir_paths)
    BY <1>7 DEF MakeDirsEnds, pathVars, localVars, history
  <2>2. {k \in DOMAIN dir_paths : k < next} = DOMAIN dir_paths
    <3>1. dir_paths \in Seq(DirPath) /\ next \in Nat
      BY <1>1 DEF TypeOK
    <3>2. DOMAIN dir_paths = 1 .. Len(dir_paths) /\ Len(dir_paths) \in Nat
      BY <3>1
    <3>3. \A k \in DOMAIN dir_paths : k < next
      BY <2>1, <3>1, <3>2
    <3> QED
      BY <3>3
  <2>3. DirNames = {dir_paths[i].names : i \in DOMAIN dir_paths} /\ DirNames' = DirNames
    BY <2>1 DEF DirNames, InSeq
  <2> QED
    BY <1>1, <1>3, <2>1, <2>2, <2>3 DEF HostInv
<1>8. CASE phase = "copy" /\ UNCHANGED <<dir_paths, local_dirs, found>>
             /\ phase' \in {"copy", "aborted", "done"}
  <2>1. local_dirs' \subseteq {<<>>} => RootFlat'
    BY <1>3, <1>8, FlatAtCopy
  <2>2. DirNames' = DirNames
    BY <1>8 DEF DirNames
  <2> QED
    BY <1>1, <1>8, <2>1, <2>2 DEF HostInv
<1>9. CASE StartFile \/ CopyBuffer \/ CopyFilesEnds
  BY <1>8, <1>9 DEF StartFile, CopyBuffer, CopyFilesEnds, AtFile, pathVars, localVars,
     history
<1>10. CASE HostFails
  <2>1. UNCHANGED <<dir_paths, local_dirs, found>> /\ phase' = "aborted"
    BY <1>10 DEF HostFails, CopyFails, SearchFails, pathVars, history
  <2>2. CASE AtFile
    BY <1>8, <2>1, <2>2 DEF AtFile
  <2>3. CASE ~ AtFile
    <3>1. UNCHANGED local_files
      BY <1>10, <2>3 DEF HostFails, CopyFails
    <3> QED
      BY <1>1, <1>3, <2>1, <3>1 DEF HostInv
  <2> QED
    BY <2>2, <2>3
<1>11. CASE Rerun
  <2>1. /\ UNCHANGED <<local_dirs, local_files>> /\ found' = local_dirs \ {<<>>}
        /\ phase' = "start"
    BY <1>11 DEF Rerun, localVars
  <2> QED
    BY <1>1, <1>3, <2>1 DEF HostInv
<1>12. CASE UNCHANGED vars
  <2>1. UNCHANGED <<phase, next, dir_paths, local_dirs, local_files, found>>
    BY <1>12 DEF vars, pathVars, localVars, history
  <2>2. DirNames' = DirNames
    BY <2>1 DEF DirNames
  <2> QED
    BY <1>1, <1>3, <2>1, <2>2 DEF HostInv
<1> QED
  BY <1>4, <1>5, <1>6, <1>7, <1>9, <1>10, <1>11, <1>12 DEF Next, Step
-----------------------------------------------------------------------------
(* Why a run ends early.                                                   *)

(* In an empty root_dir the next directory can be made.                    *)
LEMMA NextCanBeMade ==
  ASSUME IInv, phase = "mkdirs", next \in DOMAIN dir_paths,
         found = {}, <<>> \in local_dirs
  PROVE  CanMake(dir_paths[next])
<1> DEFINE name == dir_paths[next].names
           made == {dir_paths[i].names : i \in {k \in DOMAIN dir_paths : k < next}}
<1>1. ParentInv /\ NewInv /\ HostInv
  BY DEF IInv, SearchInv
<1>2. dir_paths \in Seq(DirPath) /\ next \in Nat
  BY DEF IInv, TypeOK
<1>3. name # <<>>
  BY <1>1 DEF ParentInv
<1>4. local_dirs \ {<<>>} = made /\ DOMAIN local_files = {}
  <2>1. dir_paths # <<>>
    BY <1>2
  <2> QED
    BY <1>1, <2>1 DEF HostInv
<1>5. name \notin made
  BY <1>1, <1>2 DEF NewInv
<1>6. Front(name) = <<>> \/ Front(name) \in made
  <2>1. CASE Front(name) # <<>>
    <3>1. PICK j \in 1 .. next - 1 : Front(name) = dir_paths[j].names
      BY <1>1, <2>1 DEF ParentInv
    <3>2. j \in DOMAIN dir_paths /\ j < next
      BY <1>2, <3>1
    <3> QED
      BY <3>1, <3>2
  <2> QED
    BY <2>1
<1> HIDE DEF name, made
<1>7. CanMake(dir_paths[next]) <=>
        /\ name # <<>> /\ Front(name) \in local_dirs
        /\ name \notin local_dirs \cup DOMAIN local_files
  BY DEF CanMake, name
<1> QED
  BY <1>3, <1>4, <1>5, <1>6, <1>7

(* Then each file with a name can be created and opened.                   *)
LEMMA NextCanBeCreated ==
  ASSUME IInv, AtFile, ~ file_paths[next].slash, found = {}, <<>> \in local_dirs
  PROVE  CanCreate(file_paths[next]) /\ FilesAt(file_paths[next]) # {}
<1>1. OpenInv /\ ParentInv /\ NewInv /\ HostInv /\ phase = "copy"
  BY DEF IInv, SearchInv, AtFile
<1>2. file_paths \in Seq(Path) /\ next \in Nat \ {0} /\ next <= Len(file_paths)
  BY DEF IInv, TypeOK, AtFile
<1>3. file_paths[next] \in InSeq(file_paths)
  BY <1>2 DEF InSeq
<1>4. FilesAt(file_paths[next]) # {}
  BY <1>1, <1>3 DEF OpenInv
<1> DEFINE name == file_paths[next].names
<1>5. name \in FileNames
  BY <1>3 DEF FileNames
<1>6. local_dirs \ {<<>>} = DirNames
  BY <1>1 DEF HostInv
<1>7. /\ name # <<>> /\ Front(name) \in {<<>>} \cup DirNames
      /\ name \notin DirNames
  BY <1>1, <1>5 DEF ParentInv, NewInv
<1> HIDE DEF name
<1>8. name # <<>> /\ Front(name) \in local_dirs /\ name \notin local_dirs
  BY <1>6, <1>7
<1>9. CanCreate(file_paths[next])
  BY <1>8 DEF CanCreate, name
<1> QED
  BY <1>4, <1>9

(* A run ends early for one of the causes.                                 *)
LEMMA AbortStep ==
  ASSUME IInv, [Next]_vars
  PROVE  AbortHasCause'
<1>1. TypeOK /\ OpenInv /\ ParentInv /\ NewInv /\ AbortHasCause
  BY DEF IInv, SearchInv
<1>2. CASE phase' # "aborted"
  BY <1>2 DEF AbortHasCause
<1>3. CASE FindDir
  <2>1. CASE ReadDescriptor
    <3>1. phase' = "aborted" => ~ volume.magic
      BY <2>1 DEF ReadDescriptor
    <3> QED
      BY <2>1, <3>1 DEF ReadDescriptor, AbortHasCause, BadVolume
  <2>2. CASE ReadDescriptorPart2
    <3>1. phase' = "aborted" => ~ volume.magic_2
      BY <2>2 DEF ReadDescriptorPart2
    <3> QED
      BY <2>2, <3>1 DEF ReadDescriptorPart2, AbortHasCause, BadVolume
  <2>3. CASE ListDir
    <3>1. phase' = phase
      BY <1>1, <1>3, <2>3, ListStep DEF FindDir
    <3> QED
      BY <1>2, <2>3, <3>1 DEF ListDir, AtDir
  <2> QED
    BY <1>3, <2>1, <2>2, <2>3 DEF FindDir
<1>4. CASE AddEntry
  BY <1>2, <1>4 DEF AddEntry, TakeEntry
<1>5. CASE MakeDir
  <2> SUFFICES ASSUME phase' = "aborted" PROVE AbortHasCause'
    BY <1>2
  <2>1. ~ CanMake(dir_paths[next]) /\ phase = "mkdirs" /\ UNCHANGED local_dirs
    BY <1>5 DEF MakeDir
  <2>2. next \in DOMAIN dir_paths /\ UNCHANGED found
    BY <1>1, <1>5 DEF MakeDir, TypeOK, history
  <2>3. found # {} \/ <<>> \notin local_dirs
    BY <2>1, <2>2, NextCanBeMade
  <2> QED
    BY <2>1, <2>2, <2>3 DEF AbortHasCause
<1>6. CASE StartFile
  <2> SUFFICES ASSUME phase' = "aborted" PROVE AbortHasCause'
    BY <1>2
  <2>1. ~ (CanCreate(file_paths[next]) /\ FilesAt(file_paths[next]) # {}) /\ AtFile
    BY <1>6 DEF StartFile, AtFile
  <2>2. UNCHANGED <<found, local_dirs, next, file_paths>> /\ next \in DOMAIN file_paths
    <3>1. file_paths \in Seq(Path) /\ next \in Nat \ {0}
      BY <1>1 DEF TypeOK
    <3>2. next \in DOMAIN file_paths
      BY <2>1, <3>1 DEF AtFile
    <3> QED
      BY <1>6, <3>2 DEF StartFile, history, pathVars
  <2>3. found # {} \/ <<>> \notin local_dirs \/ file_paths[next].slash
    BY <2>1, NextCanBeCreated
  <2> QED
    BY <2>2, <2>3 DEF AbortHasCause
<1>7. CASE SearchEnds \/ MakeDirsEnds \/ CopyBuffer \/ CopyFilesEnds \/ Rerun
  BY <1>2, <1>7 DEF SearchEnds, MakeDirsEnds, CopyBuffer, AtFile, CopyFilesEnds, Rerun
<1>8. CASE HostFails
  <2>1. hostFailed' = TRUE
    BY <1>8, Zenon DEF HostFails, CopyFails, SearchFails
  <2>2. hostFailed'
    BY <2>1, Zenon
  <2> QED
    BY <2>2, Zenon DEF AbortHasCause
<1>9. CASE UNCHANGED vars
  <2>1. UNCHANGED <<phase, hostFailed, volume, found, local_dirs, next, file_paths>>
    BY <1>9 DEF vars, searching, pathVars, localVars, history
  <2> QED
    BY <1>1, <2>1, Zenon DEF AbortHasCause, BadVolume
<1> QED
  BY <1>3, <1>4, <1>5, <1>6, <1>7, <1>8, <1>9 DEF Next, Step
-----------------------------------------------------------------------------
(* What a run that ends well has done.                                     *)

LEMMA SameEntries ==
  ASSUME UNCHANGED volume
  PROVE  \A dir : EntriesAt(dir)' = EntriesAt(dir)
BY SameImage DEF EntriesAt

(* The search does not forget a directory, nor an entry of one.            *)
LEMMA CompleteStep ==
  ASSUME IInv, CompleteInv, [Next]_vars
  PROVE  CompleteInv'
<1>1. TypeOK /\ OpenInv /\ ParentInv /\ NewInv /\ RootInv
  BY DEF IInv, SearchInv
<1>2. CASE phase' \in {"start", "part 2", "aborted"}
  BY <1>2 DEF CompleteInv
<1>3. CASE FindDir /\ ReadDescriptorPart2 /\ phase' = "search"
  <2>1. dirs_to_search' = <<RootPath>> /\ dir_paths' = <<>>
    BY <1>1, <1>3 DEF FindDir, ReadDescriptorPart2, RootInv, pathVars
  <2>2. InSeq(dirs_to_search') = {RootPath} /\ InSeq(dir_paths') = {}
    BY <2>1 DEF InSeq
  <2> QED
    BY <1>3, <2>2 DEF CompleteInv
<1>4. CASE FindDir /\ ListDir
  <2> DEFINE d == dirs_to_search[Len(dirs_to_search)]
  <2>1. /\ current_dir_path' = d /\ UNCHANGED <<phase, volume, dir_paths, file_paths>>
        /\ \E base \in DirsAt(current_dir_path') : entries' \in Listings[base]
        /\ entries = <<>> /\ phase = "search"
        /\ dirs_to_search' = Front(dirs_to_search) /\ dirs_to_search # <<>>
    BY <1>1, <1>4, ListStep DEF FindDir, ListDir, AtDir, pathVars
  <2>2. PICK base \in DirsAt(d) : entries' \in Listings[base]
    BY <2>1
  <2>3. InSeq(entries') = EntriesAt(d)
    <3>1. d \in DirPath /\ InSeq(entries') = Table(base)
      BY <1>1, <1>4, <2>2, SearchTyped, ListedType DEF FindDir
    <3>2. volume \in Volumes
      BY <1>1 DEF TypeOK, SearchTypeOK
    <3> HIDE DEF d
    <3> QED
      BY <2>2, <3>1, <3>2, OneDirectory
  <2>4. InSeq(dirs_to_search) \subseteq InSeq(dirs_to_search') \cup {d}
    <3>1. dirs_to_search \in Seq(DirPath)
      BY <1>1 DEF TypeOK, SearchTypeOK
    <3>2. /\ Len(dirs_to_search') = Len(dirs_to_search) - 1
          /\ dirs_to_search' \in Seq(DirPath)
          /\ \A i \in 1 .. Len(dirs_to_search) - 1 :
               dirs_to_search'[i] = dirs_to_search[i]
      BY <2>1, <3>1, FrontFacts
    <3>3. \A i \in DOMAIN dirs_to_search :
            i = Len(dirs_to_search) \/ i \in DOMAIN dirs_to_search'
      BY <3>1, <3>2
    <3>4. \A i \in DOMAIN dirs_to_search' : dirs_to_search'[i] = dirs_to_search[i]
      BY <3>1, <3>2
    <3> QED
      BY <3>3, <3>4 DEF InSeq
  <2>5. InSeq(entries) = {}
    BY <2>1 DEF InSeq
  <2> HIDE DEF d
  <2>6. \A dir \in {RootPath} \cup InSeq(dir_paths) :
          \/ dir \in InSeq(dirs_to_search')
          \/ \A o \in EntriesAt(dir) :
               Listed(dir, o) \/ (dir = d /\ o \in InSeq(entries'))
    BY <2>1, <2>3, <2>4, <2>5 DEF CompleteInv
  <2>7. \A dir, o : Listed(dir, o)' = Listed(dir, o)
    BY <2>1 DEF Listed
  <2>8. \A dir : EntriesAt(dir)' = EntriesAt(dir)
    BY <2>1, SameEntries
  <2> QED
    BY <2>1, <2>6, <2>7, <2>8 DEF CompleteInv
<1>5. CASE AddEntry
  <2>1. /\ TakeEntry /\ UNCHANGED <<phase, volume, current_dir_path>>
        /\ phase = "search"
    BY <1>5 DEF AddEntry, TakeEntry
  <2>2. InSeq(entries) \subseteq InSeq(entries') \cup {entry}
    BY <1>1, <2>1, ListingTyped, RestOfListing
  <2>3. /\ InSeq(dirs_to_search) \subseteq InSeq(dirs_to_search')
        /\ InSeq(dir_paths) \subseteq InSeq(dir_paths')
        /\ InSeq(file_paths) \subseteq InSeq(file_paths')
        /\ InSeq(dir_paths') \subseteq InSeq(dir_paths) \cup InSeq(dirs_to_search')
        /\ new_path \in InSeq(IF IsDir(Disc[entry].attributes) THEN dir_paths'
                                                              ELSE file_paths')
    BY <1>1, <1>5, TakenPath
  <2>4. \A dir, o : Listed(dir, o) => Listed(dir, o)'
    BY <2>3 DEF Listed
  <2>5. \A o : o = entry => Listed(current_dir_path, o)'
    <3> SUFFICES ASSUME NEW o, o = entry
                 PROVE  PathTo(current_dir_path, o) \in
                          InSeq(IF IsDir(Disc[o].attributes) THEN dir_paths'
                                                             ELSE file_paths')
      BY <2>1 DEF Listed
    <3> QED
      BY <2>3 DEF new_path
  <2>6. \A dir : EntriesAt(dir)' = EntriesAt(dir)
    BY <2>1, SameEntries
  <2>7. ASSUME NEW dir, dir \in {RootPath} \cup InSeq(dir_paths')
        PROVE  \/ dir \in InSeq(dirs_to_search')
               \/ \A o \in EntriesAt(dir) :
                    Listed(dir, o)' \/ (dir = current_dir_path /\ o \in InSeq(entries'))
    <3>1. CASE dir \in InSeq(dirs_to_search')
      BY <3>1
    <3>2. CASE dir \notin InSeq(dirs_to_search')
      <4>1. \A o \in EntriesAt(dir) :
              Listed(dir, o) \/ (dir = current_dir_path /\ o \in InSeq(entries))
        BY <2>1, <2>3, <2>7, <3>2 DEF CompleteInv
      <4>2. current_dir_path' = current_dir_path
        BY <2>1
      <4> QED
        BY <2>2, <2>4, <2>5, <4>1, <4>2
    <3> QED
      BY <3>1, <3>2
  <2>8. \A dir \in {RootPath} \cup InSeq(dir_paths') :
          \/ dir \in InSeq(dirs_to_search')
          \/ \A o \in EntriesAt(dir)' :
               Listed(dir, o)' \/ (dir = current_dir_path' /\ o \in InSeq(entries'))
    BY <2>1, <2>6, <2>7
  <2> QED
    BY <2>1, <2>8 DEF CompleteInv
<1>6. CASE /\ UNCHANGED <<volume, dirs_to_search, current_dir_path, entries, dir_paths,
                          file_paths>>
           /\ \/ UNCHANGED phase
              \/ phase \in {"search", "mkdirs", "copy"} /\ phase' \in {"mkdirs", "copy"}
              \/ phase = "copy" /\ phase' = "done"
  <2>1. \A dir, o : Listed(dir, o)' = Listed(dir, o)
    BY <1>6 DEF Listed
  <2>2. \A dir : EntriesAt(dir)' = EntriesAt(dir)
    BY <1>6, SameEntries
  <2>3. phase = "copy" => dirs_to_search = <<>> /\ entries = <<>>
    BY <1>1 DEF RootInv
  <2> QED
    BY <1>6, <2>1, <2>2, <2>3 DEF CompleteInv
<1>7. CASE SearchEnds \/ MakeDir \/ MakeDirsEnds \/ StartFile \/ CopyBuffer
             \/ CopyFilesEnds
  BY <1>2, <1>6, <1>7 DEF SearchEnds, SearchDone, MakeDir, MakeDirsEnds, StartFile,
     CopyBuffer, AtFile, CopyFilesEnds, searching, searchVars, pathVars
<1>8. CASE HostFails \/ Rerun \/ (FindDir /\ ReadDescriptor)
  BY <1>2, <1>8 DEF HostFails, CopyFails, SearchFails, Rerun, ReadDescriptor
<1>9. CASE UNCHANGED vars
  BY <1>6, <1>9 DEF vars, searching, searchVars, pathVars
<1>10. ReadDescriptorPart2 => phase' \in {"search", "aborted"}
  BY DEF ReadDescriptorPart2
<1> QED
  BY <1>2, <1>3, <1>4, <1>5, <1>7, <1>8, <1>9, <1>10 DEF Next, Step, FindDir

(* A run that gets to the files has found no directory; those of the root  *)
(* are made first.                                                         *)
LEMMA MadeStep ==
  ASSUME IInv, CompleteInv, MadeInv, [Next]_vars
  PROVE  MadeInv'
<1>1. TypeOK /\ OpenInv /\ ParentInv /\ RootInv /\ HostInv
  BY DEF IInv, SearchInv
<1>2. RootDirNames' = RootDirNames
  <2>1. UNCHANGED volume
    <3>1. CASE FindDir
      BY <3>1 DEF FindDir, ReadDescriptor, ReadDescriptorPart2, ListDir
    <3>2. CASE AddEntry
      BY <3>2 DEF AddEntry, TakeEntry
    <3>3. CASE HostFails
      BY <3>3 DEF HostFails, CopyFails, SearchFails, searching
    <3>4. CASE ~ (FindDir \/ AddEntry \/ HostFails)
      BY <3>4 DEF Next, Step, SearchEnds, MakeDir, MakeDirsEnds, StartFile, CopyBuffer,
         CopyFilesEnds, Rerun, vars, searching
    <3> QED
      BY <3>1, <3>2, <3>3, <3>4
  <2> QED
    BY <2>1, SameEntries DEF RootDirNames
<1>3. CASE /\ UNCHANGED <<local_dirs, found, dir_paths>>
           /\ \/ phase' \in {"start", "part 2", "search", "aborted"}
              \/ UNCHANGED <<phase, next>>
              \/ phase = "copy" /\ phase' \in {"copy", "done"}
  BY <1>2, <1>3 DEF MadeInv, DirNames
<1>4. CASE FindDir
  <2>1. phase' \in {"start", "part 2", "search", "aborted"}
    BY <1>1, <1>4, SearchTyped, SearchTypeStep DEF FindDir
  <2> QED
    BY <1>3, <1>4, <2>1 DEF FindDir, pathVars, localVars, history
<1>5. CASE AddEntry
  <2>1. UNCHANGED <<local_dirs, found>> /\ phase' = "search"
    BY <1>5 DEF AddEntry, TakeEntry, localVars, history
  <2> QED
    BY <1>2, <2>1 DEF MadeInv
<1>6. CASE SearchEnds
  <2>1. UNCHANGED <<local_dirs, found>> /\ phase' = "mkdirs" /\ next' = 1
    BY <1>6 DEF SearchEnds, localVars, history
  <2>2. \A i \in DOMAIN dir_paths' : ~ i < next'
    <3>1. dir_paths \in Seq(DirPath) /\ dir_paths' = dir_paths
      BY <1>1, <1>6 DEF SearchEnds, pathVars, TypeOK
    <3>2. \A i \in DOMAIN dir_paths : ~ i < 1
      BY <3>1
    <3> QED
      BY <2>1, <3>1, <3>2
  <2> QED
    BY <1>2, <2>1, <2>2 DEF MadeInv
<1>7. CASE MakeDir
  <2>1. UNCHANGED <<found, dir_paths>> /\ phase = "mkdirs" /\ next \in DOMAIN dir_paths
    BY <1>1, <1>7 DEF MakeDir, pathVars, history, TypeOK
  <2>2. CASE CanMake(dir_paths[next])
    <3> DEFINE name == dir_paths[next].names
    <3>1. /\ local_dirs' = local_dirs \cup {name} /\ next' = next + 1
          /\ phase' = "mkdirs"
      BY <1>7, <2>1, <2>2 DEF MakeDir
    <3>2. name # <<>> /\ Front(name) \in local_dirs /\ name \notin local_dirs
      BY <2>2 DEF CanMake
    <3>3. name \notin found
      BY <1>1, <2>1, <3>2 DEF HostInv
    <3>4. \A i \in DOMAIN dir_paths : i < next + 1 => dir_paths[i].names \notin found
      <4>1. \A i \in DOMAIN dir_paths : i < next + 1 => i < next \/ i = next
        <5>1. dir_paths \in Seq(DirPath) /\ next \in Nat
          BY <1>1 DEF TypeOK
        <5> QED
          BY <5>1
      <4> QED
        BY <2>1, <3>3, <4>1 DEF MadeInv
    <3>5. local_dirs \subseteq {<<>>} => name \in RootDirNames
      <4> SUFFICES ASSUME local_dirs \subseteq {<<>>} PROVE name \in RootDirNames
        OBVIOUS
      <4>1. dir_paths[next] \in DirPath /\ dir_paths[next] \in InSeq(dir_paths)
        BY <1>1, <2>1 DEF TypeOK, InSeq
      <4>2. DirsAt(dir_paths[next]) # {}
        BY <1>1, <4>1 DEF OpenInv
      <4>3. Front(name) = <<>>
        BY <3>2
      <4> QED
        BY <3>2, <4>1, <4>2, <4>3, FirstDirectory
    <3> HIDE DEF name
    <3>6. local_dirs' \cap RootDirNames # {}
      BY <3>1, <3>5 DEF MadeInv
    <3> QED
      BY <1>2, <2>1, <3>1, <3>4, <3>6 DEF MadeInv
  <2>3. CASE ~ CanMake(dir_paths[next])
    BY <1>3, <1>7, <2>1, <2>3 DEF MakeDir
  <2> QED
    BY <2>2, <2>3
<1>8. CASE MakeDirsEnds
  <2>1. /\ UNCHANGED <<local_dirs, found, dir_paths>>
        /\ phase = "mkdirs" /\ phase' = "copy" /\ next > Len(dir_paths)
    BY <1>8 DEF MakeDirsEnds, pathVars, localVars, history
  <2>2. \A i \in DOMAIN dir_paths : i < next
    BY <1>1, <2>1 DEF TypeOK
  <2>3. found \cap DirNames = {}
    BY <2>1, <2>2 DEF MadeInv, DirNames, InSeq
  <2>4. DirNames \subseteq local_dirs
    BY <1>1, <2>1, <2>2 DEF HostInv, DirNames, InSeq
  <2>5. RootDirNames \subseteq DirNames
    <3> SUFFICES ASSUME NEW o \in EntriesAt(RootPath), IsDir(Disc[o].attributes)
                 PROVE  <<Disc[o].name>> \in DirNames
      BY DEF RootDirNames
    <3>1. RootPath \in DirPath /\ RootPath.names = <<>>
      BY DEF RootPath, DirPath
    <3>2. o \in Offsets
      <4>1. PICK base \in DirsAt(RootPath) : TRUE
        BY RootOpens
      <4>2. volume \in Volumes
        BY <1>1 DEF TypeOK, SearchTypeOK
      <4> QED
        BY <3>1, <4>1, <4>2, OneDirectory
    <3>3. PathTo(RootPath, o).names = Append(<<>>, Disc[o].name)
      BY <3>1, <3>2, PathToType
    <3>4. Append(<<>>, Disc[o].name) = <<Disc[o].name>>
      OBVIOUS
    <3>5. dirs_to_search = <<>> /\ entries = <<>>
      BY <1>1, <2>1 DEF RootInv
    <3>6. InSeq(<<>>) = {}
      BY DEF InSeq
    <3>7. Listed(RootPath, o)
      BY <2>1, <3>5, <3>6 DEF CompleteInv
    <3>8. PathTo(RootPath, o) \in InSeq(dir_paths)
      BY <3>7 DEF Listed
    <3> QED
      BY <3>3, <3>4, <3>8, Zenon DEF DirNames
  <2>6. found = {}
    BY <2>3, <2>5 DEF MadeInv
  <2>7. DirNames' = DirNames
    BY <2>1 DEF DirNames
  <2> QED
    BY <1>2, <2>1, <2>4, <2>6, <2>7 DEF MadeInv
<1>9. CASE StartFile \/ CopyBuffer \/ CopyFilesEnds
  <2>1. UNCHANGED <<local_dirs, found, dir_paths>>
    BY <1>9 DEF StartFile, CopyBuffer, CopyFilesEnds, pathVars, localVars, history
  <2>2. phase = "copy" /\ phase' \in {"copy", "done", "aborted"}
    BY <1>9 DEF StartFile, CopyBuffer, CopyFilesEnds, AtFile
  <2> QED
    BY <1>3, <2>1, <2>2
<1>10. CASE HostFails
  BY <1>3, <1>10 DEF HostFails, CopyFails, SearchFails, pathVars, history
<1>11. CASE Rerun
  <2>1. phase' = "start" /\ UNCHANGED local_dirs /\ found' = local_dirs \ {<<>>}
    BY <1>11 DEF Rerun, localVars
  <2>2. <<>> \notin RootDirNames
    BY DEF RootDirNames
  <2> QED
    BY <1>2, <2>1, <2>2 DEF MadeInv
<1>12. CASE UNCHANGED vars
  BY <1>3, <1>12 DEF vars, pathVars, localVars, history
<1> QED
  BY <1>4, <1>5, <1>6, <1>7, <1>8, <1>9, <1>10, <1>11, <1>12 DEF Next, Step

(* What has been read and what is read next.                               *)
LEMMA JoinFacts ==
  ASSUME NEW S, NEW s \in Seq(S), NEW from \in Nat, NEW amount \in Nat,
         from + amount <= Len(s)
  PROVE  /\ SubSeq(s, 1, from) \o SubSeq(s, from + 1, from + amount)
              = SubSeq(s, 1, from + amount)
         /\ SubSeq(s, 1, Len(s)) = s
         /\ from = 0 => SubSeq(s, 1, from) = <<>>
<1>1. Len(s) \in Nat /\ from <= Len(s) /\ from + amount \in Nat
  OBVIOUS
<1>2. /\ SubSeq(s, 1, from) \in Seq(S) /\ Len(SubSeq(s, 1, from)) = from
      /\ \A i \in 1 .. from : SubSeq(s, 1, from)[i] = s[i]
  BY <1>1, PrefixFacts
<1>3. /\ SubSeq(s, 1, from + amount) \in Seq(S)
      /\ Len(SubSeq(s, 1, from + amount)) = from + amount
      /\ \A i \in 1 .. from + amount : SubSeq(s, 1, from + amount)[i] = s[i]
  BY <1>1, PrefixFacts
<1>4. /\ SubSeq(s, from + 1, from + amount) \in Seq(S)
      /\ Len(SubSeq(s, from + 1, from + amount)) = amount
      /\ \A i \in 1 .. amount :
           SubSeq(s, from + 1, from + amount)[i] = s[from + i]
  BY <1>1
<1>5. SubSeq(s, 1, Len(s)) = s
  BY <1>1, PrefixFacts
<1>6. ASSUME NEW h \in Seq(S), NEW t \in Seq(S), NEW both \in Seq(S),
             Len(h) = from, Len(t) = amount, Len(both) = from + amount,
             \A i \in 1 .. from : h[i] = s[i],
             \A i \in 1 .. amount : t[i] = s[from + i],
             \A i \in 1 .. from + amount : both[i] = s[i]
      PROVE  h \o t = both
  <2>1. \A i \in 1 .. from : i \in 1 .. from + amount
    OBVIOUS
  <2>2. \A i \in 1 .. amount : from + i \in 1 .. from + amount
    OBVIOUS
  <2>3. /\ \A i \in 1 .. from : both[i] = h[i]
        /\ \A i \in 1 .. amount : both[from + i] = t[i]
    BY <1>6, <2>1, <2>2
  <2> QED
    BY <1>6, <2>3, JoinedIs
<1>7. from = 0 => SubSeq(s, 1, from) = <<>>
  BY <1>2
<1> QED
  BY <1>2, <1>3, <1>4, <1>5, <1>6, <1>7

LEMMA BytesType ==
  ASSUME NEW o \in Offsets
  PROVE  /\ SizeBytes[o] \in Nat
         /\ FileBytes(o) \in Seq(Byte) /\ Len(FileBytes(o)) = SizeBytes[o]
<1>1. SizeBytes[o] \in Nat
  BY CopyAssumption
<1>2. \A k \in 1 .. SizeBytes[o] : <<o, k>> \in Byte
  BY <1>1 DEF Byte
<1> QED
  BY <1>1, <1>2 DEF FileBytes

(* The file at hand, once a buffer is written to its local file.           *)
LEMMA BufferWritten ==
  ASSUME IInv, CopiedInv, CopyBuffer
  PROVE  LET path == file_paths[next] IN
         /\ next \in DOMAIN file_paths /\ ~ path.slash /\ path \in Path
         /\ xdfs_file.entry \in FilesAt(path)
         /\ DOMAIN local_files' = DOMAIN local_files
         /\ path.names \in DOMAIN local_files
         /\ \A x \in DOMAIN local_files :
              x # path.names => local_files'[x] = local_files[x]
         /\ shortened \subseteq shortened'
         /\ \/ path.names \in shortened'
            \/ local_files'[path.names] =
                 SubSeq(FileBytes(xdfs_file.entry), 1, xdfs_file.offset + amount_read)
         /\ ~ FillsBuffer =>
              SubSeq(FileBytes(xdfs_file.entry), 1, xdfs_file.offset + amount_read)
                = FileBytes(xdfs_file.entry)
<1> DEFINE path == file_paths[next]
           name == path.names
           o == xdfs_file.entry
           from == xdfs_file.offset
           f == FileBytes(o)
<1>1. TypeOK /\ AtFile /\ phase = "copy" /\ xdfs_file # NoFile
  BY DEF IInv, CopyBuffer, AtFile
<1>2. /\ next \in DOMAIN file_paths /\ ~ path.slash
      /\ name \in DOMAIN local_files /\ o \in FilesAt(path)
      /\ name \in shortened \/ local_files[name] = SubSeq(f, 1, from)
  BY <1>1, Zenon DEF CopiedInv, IsBegun
<1>3. path \in Path
  BY <1>1, <1>2 DEF TypeOK
<1>4. o \in Offsets /\ from \in Nat /\ from <= SizeBytes[o]
  BY <1>1 DEF TypeOK
<1>5. f \in Seq(Byte) /\ Len(f) = SizeBytes[o] /\ SizeBytes[o] \in Nat
  BY <1>4, BytesType
<1>6. /\ amount_read \in Nat /\ from + amount_read <= SizeBytes[o]
      /\ ~ FillsBuffer => from + amount_read = SizeBytes[o]
  BY <1>4, <1>5, CopyAssumption DEF FillsBuffer, amount_read, Least
<1>7. PICK amount \in 0 .. amount_read :
        /\ local_files' = [local_files EXCEPT ![name] = @ \o Written(amount)]
        /\ shortened' = IF amount < amount_read THEN shortened \cup {name}
                                                ELSE shortened
  BY DEF CopyBuffer
<1>8. Written(amount) = SubSeq(f, from + 1, from + amount)
  BY DEF Written
<1> HIDE DEF name, o, from, f
<1>9. SubSeq(f, 1, from) \o SubSeq(f, from + 1, from + amount_read)
        = SubSeq(f, 1, from + amount_read)
  BY <1>4, <1>5, <1>6, JoinFacts
<1>10. ~ FillsBuffer => SubSeq(f, 1, from + amount_read) = f
  BY <1>4, <1>5, <1>6, JoinFacts
<1>11. name \in shortened' \/ local_files'[name] = SubSeq(f, 1, from + amount_read)
  <2>1. CASE amount < amount_read
    BY <1>7, <2>1
  <2>2. CASE amount = amount_read
    <3>1. local_files'[name] = local_files[name] \o Written(amount)
      BY <1>2, <1>7
    <3> QED
      BY <1>2, <1>7, <1>8, <1>9, <2>2, <3>1
  <2>3. amount < amount_read \/ amount = amount_read
    BY <1>6
  <2> QED
    BY <2>1, <2>2, <2>3
<1>12. /\ DOMAIN local_files' = DOMAIN local_files
       /\ \A x \in DOMAIN local_files : x # name => local_files'[x] = local_files[x]
       /\ shortened \subseteq shortened'
  BY <1>7
<1> QED
  BY <1>2, <1>3, <1>10, <1>11, <1>12, Zenon DEF name, o, from, f

(* A file that is passed is copied.                                        *)
LEMMA CopiedStep ==
  ASSUME IInv, CopiedInv, [Next]_vars
  PROVE  CopiedInv'
<1>1. TypeOK
  BY DEF IInv
<1>2. CASE phase' \in {"start", "part 2", "search", "mkdirs"} /\ xdfs_file' = NoFile
  BY <1>2 DEF CopiedInv
<1>3. CASE phase' = "aborted"
  BY <1>3 DEF CopiedInv
<1>4. CASE /\ phase \in {"start", "part 2", "search", "mkdirs"}
           /\ phase' \in {"start", "part 2", "search", "mkdirs", "aborted"}
           /\ UNCHANGED xdfs_file
  BY <1>2, <1>3, <1>4 DEF CopiedInv
<1>5. CASE FindDir
  <2>1. phase \in {"start", "part 2", "search"} /\ UNCHANGED xdfs_file
    BY <1>5 DEF FindDir, ReadDescriptor, ReadDescriptorPart2, ListDir, AtDir
  <2>2. phase' \in {"start", "part 2", "search", "aborted"}
    BY <1>1, <1>5, SearchTyped, SearchTypeStep DEF FindDir
  <2> QED
    BY <1>4, <2>1, <2>2
<1>6. CASE AddEntry \/ SearchEnds \/ MakeDir
  <2>1. phase \in {"search", "mkdirs"} /\ UNCHANGED xdfs_file
    BY <1>6 DEF AddEntry, TakeEntry, SearchEnds, SearchDone, MakeDir
  <2>2. phase' \in {"search", "mkdirs", "aborted"}
    BY <1>6 DEF AddEntry, TakeEntry, SearchEnds, SearchDone, MakeDir
  <2> QED
    BY <1>4, <2>1, <2>2
<1>7. CASE MakeDirsEnds
  <2>1. phase' = "copy" /\ next' = 1 /\ xdfs_file' = NoFile /\ UNCHANGED file_paths
    BY <1>7 DEF MakeDirsEnds, CopiedInv, pathVars
  <2>2. \A i \in DOMAIN file_paths : ~ i < 1
    <3>1. file_paths \in Seq(Path)
      BY <1>1 DEF TypeOK
    <3> QED
      BY <3>1
  <2> QED
    BY <2>1, <2>2 DEF CopiedInv
<1>8. CASE StartFile
  <2> DEFINE path == file_paths[next]
             name == path.names
  <2>1. /\ UNCHANGED <<volume, next, file_paths, shortened>> /\ next \in DOMAIN file_paths
        /\ xdfs_file = NoFile /\ phase = "copy"
    BY <1>1, <1>8 DEF StartFile, AtFile, searching, pathVars, history, TypeOK
  <2>2. CASE CanCreate(path) /\ FilesAt(path) # {}
    <3>1. PICK o \in FilesAt(path) : xdfs_file' = [entry |-> o, offset |-> 0]
      BY <1>8, <2>2 DEF StartFile
    <3>2. /\ ~ path.slash /\ local_files' = Created(name) /\ phase' = "copy"
          /\ xdfs_file' # NoFile
      BY <1>8, <2>1, <2>2, <3>1 DEF StartFile, CanCreate, NoFile
    <3>3. /\ name \in DOMAIN local_files' /\ local_files'[name] = <<>>
          /\ \A x \in DOMAIN local_files :
               x \in DOMAIN local_files' /\ (x # name => local_files'[x] = local_files[x])
      BY <3>2 DEF Created
    <3>4. o \in Offsets
      <4>1. path \in Path
        BY <1>1, <2>1 DEF TypeOK
      <4>2. path.names \in Seq(Name)
        BY <4>1 DEF Path
      <4> QED
        BY <4>2, NamedFile DEF FilesAt
    <3>5. SubSeq(FileBytes(o), 1, 0) = <<>>
      BY <3>4, BytesType
    <3>6. FilesAt(path)' = FilesAt(path)
      BY <2>1, SameImage
    <3> HIDE DEF name
    <3>7. IsBegun'
      BY <2>1, <3>1, <3>2, <3>3, <3>5, <3>6 DEF IsBegun, name
    <3>8. ASSUME NEW i \in DOMAIN file_paths, i < next
          PROVE  IsCopied(i)'
      <4> DEFINE p == file_paths[i]
      <4>1. /\ ~ p.slash /\ p.names \in DOMAIN local_files
            /\ \/ p.names \in shortened
               \/ \A q \in FilesAt(p) : local_files[p.names] = FileBytes(q)
        BY <2>1, <3>8, Zenon DEF CopiedInv, IsCopied
      <4>2. FilesAt(p)' = FilesAt(p)
        BY <2>1, SameImage
      <4>3. p.names \in DOMAIN local_files'
        BY <3>3, <4>1
      <4>4. \/ p.names \in shortened
            \/ p.names = name
            \/ \A q \in FilesAt(p) : local_files'[p.names] = FileBytes(q)
        BY <3>3, <4>1
      <4> QED
        BY <2>1, <3>2, <4>1, <4>2, <4>3, <4>4 DEF IsCopied, name
    <3> QED
      BY <2>1, <3>2, <3>7, <3>8 DEF CopiedInv
  <2>3. CASE ~ (CanCreate(path) /\ FilesAt(path) # {})
    BY <1>3, <1>8, <2>3 DEF StartFile
  <2> QED
    BY <2>2, <2>3
<1>9. CASE CopyBuffer
  <2> DEFINE path == file_paths[next]
             name == path.names
             o == xdfs_file.entry
             upTo == xdfs_file.offset + amount_read
  <2>1. /\ next \in DOMAIN file_paths /\ ~ path.slash /\ path \in Path
        /\ o \in FilesAt(path)
        /\ DOMAIN local_files' = DOMAIN local_files /\ name \in DOMAIN local_files
        /\ \A x \in DOMAIN local_files : x # name => local_files'[x] = local_files[x]
        /\ shortened \subseteq shortened'
        /\ name \in shortened' \/ local_files'[name] = SubSeq(FileBytes(o), 1, upTo)
        /\ ~ FillsBuffer => SubSeq(FileBytes(o), 1, upTo) = FileBytes(o)
    BY <1>9, BufferWritten
  <2>2. /\ UNCHANGED <<phase, volume, file_paths>> /\ xdfs_file # NoFile
        /\ phase = "copy" /\ next \in Nat
    BY <1>1, <1>9 DEF CopyBuffer, AtFile, searching, pathVars, TypeOK
  <2>3. \A p : FilesAt(p)' = FilesAt(p)
    BY <2>2, SameImage
  <2>4. ASSUME NEW i \in DOMAIN file_paths, i < next, file_paths[i].names # name
        PROVE  /\ ~ file_paths[i].slash /\ file_paths[i].names \in DOMAIN local_files
               /\ \/ file_paths[i].names \in shortened'
                  \/ \A q \in FilesAt(file_paths[i]) :
                       local_files'[file_paths[i].names] = FileBytes(q)
    <3> DEFINE p == file_paths[i]
    <3>1. /\ ~ p.slash /\ p.names \in DOMAIN local_files
          /\ \/ p.names \in shortened
             \/ \A q \in FilesAt(p) : local_files[p.names] = FileBytes(q)
      BY <2>2, <2>4, Zenon DEF CopiedInv, IsCopied
    <3> QED
      BY <2>1, <2>4, <3>1
  <2>5. CASE FillsBuffer
    <3>1. /\ xdfs_file' = [xdfs_file EXCEPT !.offset = @ + amount_read]
          /\ next' = next
      BY <1>9, <2>5 DEF CopyBuffer
    <3>2. /\ xdfs_file'.entry = o /\ xdfs_file'.offset = upTo /\ xdfs_file' # NoFile
      <4>1. xdfs_file \in [entry : Offsets, offset : Nat]
        BY <1>1, <2>2 DEF TypeOK
      <4>2. amount_read \in Nat
        BY <1>1, <2>2, <4>1, CopyAssumption DEF amount_read, Least, TypeOK
      <4>3. upTo \in Nat
        BY <4>1, <4>2
      <4> HIDE DEF upTo
      <4>4. xdfs_file'.entry = o /\ xdfs_file'.offset = upTo
        BY <3>1, <4>1 DEF upTo
      <4> QED
        BY <4>3, <4>4 DEF NoFile
    <3> HIDE DEF o, upTo, name
    <3>3. IsBegun'
      BY <2>1, <2>2, <2>3, <3>1, <3>2 DEF IsBegun, name
    <3>4. ASSUME NEW i \in DOMAIN file_paths, i < next
          PROVE  IsCopied(i)'
      <4>1. CASE file_paths[i].names = name
        <5>1. ~ file_paths[i].slash
          BY <2>2, <3>4, Zenon DEF CopiedInv, IsCopied
        <5> QED
          BY <2>1, <2>2, <3>1, <3>2, <4>1, <5>1 DEF IsCopied, name
      <4>2. CASE file_paths[i].names # name
        BY <2>1, <2>2, <2>3, <2>4, <3>4, <4>2 DEF IsCopied
      <4> QED
        BY <4>1, <4>2
    <3> QED
      BY <2>1, <2>2, <3>1, <3>3, <3>4 DEF CopiedInv
  <2>6. CASE ~ FillsBuffer
    <3>1. xdfs_file' = NoFile /\ next' = next + 1
      BY <1>9, <2>6 DEF CopyBuffer
    <3>2. ASSUME NEW i \in DOMAIN file_paths, i < next \/ i = next
          PROVE  IsCopied(i)'
      <4>1. CASE file_paths[i].names = name
        <5>1. ~ file_paths[i].slash
          <6>1. CASE i < next
            BY <2>2, <6>1, Zenon DEF CopiedInv, IsCopied
          <6> QED
            BY <2>1, <3>2, <6>1
        <5>2. FilesAt(file_paths[i]) = FilesAt(path)
          BY <4>1, Zenon DEF FilesAt
        <5>3. volume \in Volumes
          BY <1>1 DEF TypeOK, SearchTypeOK
        <5> HIDE DEF path, o
        <5>4. \A q \in FilesAt(path) : q = o
          BY <2>1, <5>3, OneOpens
        <5> HIDE DEF name, upTo
        <5>5. \/ name \in shortened'
              \/ \A q \in FilesAt(path) : local_files'[name] = FileBytes(q)
          BY <2>1, <2>6, <5>4
        <5> QED
          BY <2>1, <2>2, <2>3, <4>1, <5>1, <5>2, <5>5 DEF IsCopied
      <4>2. CASE file_paths[i].names # name
        <5>1. i < next
          BY <3>2, <4>2
        <5> HIDE DEF name
        <5> QED
          BY <2>1, <2>2, <2>3, <2>4, <4>2, <5>1 DEF IsCopied
      <4> QED
        BY <4>1, <4>2
    <3>3. \A i \in DOMAIN file_paths : i < next + 1 => i < next \/ i = next
      <4>1. file_paths \in Seq(Path)
        BY <1>1 DEF TypeOK
      <4> QED
        BY <2>2, <4>1
    <3> QED
      BY <2>2, <3>1, <3>2, <3>3 DEF CopiedInv
  <2> QED
    BY <2>5, <2>6
<1>10. CASE /\ UNCHANGED <<volume, file_paths, next, xdfs_file, local_files, shortened>>
            /\ UNCHANGED phase \/ CopyFilesEnds
  <2>1. \A p : FilesAt(p)' = FilesAt(p)
    BY <1>10, SameImage
  <2>2. \A i : IsCopied(i)' = IsCopied(i)
    BY <1>10, <2>1 DEF IsCopied
  <2>3. IsBegun' = IsBegun
    BY <1>10, <2>1 DEF IsBegun
  <2>4. CASE CopyFilesEnds
    <3>1. next > Len(file_paths) /\ phase = "copy" /\ phase' = "done"
      BY <2>4 DEF CopyFilesEnds
    <3>2. next \notin DOMAIN file_paths
      BY <1>1, <3>1 DEF TypeOK
    <3> QED
      BY <1>10, <2>2, <3>1, <3>2 DEF CopiedInv
  <2>5. CASE UNCHANGED phase
    BY <1>10, <2>2, <2>3, <2>5 DEF CopiedInv
  <2> QED
    BY <1>10, <2>4, <2>5
<1>11. CASE CopyFilesEnds
  BY <1>10, <1>11 DEF CopyFilesEnds, searching, pathVars, localVars, history
<1>12. CASE HostFails
  BY <1>3, <1>12 DEF HostFails, CopyFails, SearchFails
<1>13. CASE Rerun
  BY <1>2, <1>13 DEF Rerun
<1>14. CASE UNCHANGED vars
  BY <1>10, <1>14 DEF vars, searching, pathVars, localVars, history
<1> QED
  BY <1>5, <1>6, <1>7, <1>8, <1>9, <1>11, <1>12, <1>13, <1>14 DEF Next, Step

(* The first run begins with nothing found.                                *)
LEMMA InitInv == Init => IInv
<1> SUFFICES ASSUME Init PROVE IInv
  OBVIOUS
<1> USE DEF Init, SearchInit
<1>1. RootPath \in DirPath /\ <<>> \in Seq(DirPath) /\ <<>> \in Seq(Path)
      /\ <<>> \in Seq(Offsets) /\ <<>> \in Seq(Name)
  BY DEF RootPath, DirPath
<1>2. hostFailed \in BOOLEAN
  BY Zenon
<1>3. SearchTypeOK
  BY <1>1, <1>2 DEF SearchTypeOK
<1>4. DOMAIN local_files = {}
  OBVIOUS
<1>5. TypeOK
  <2>1. dir_paths \in Seq(DirPath) /\ file_paths \in Seq(Path) /\ next \in Nat \ {0}
    BY <1>1
  <2>2. local_dirs \subseteq Seq(Name)
    BY <1>1
  <2>3. /\ DOMAIN local_files \subseteq Seq(Name)
        /\ \A name \in DOMAIN local_files : local_files[name] \in Seq(Byte)
    BY <1>4
  <2>4. runs \in Nat /\ found \subseteq Seq(Name) /\ shortened \subseteq Seq(Name)
    OBVIOUS
  <2> QED
    BY <1>3, <2>1, <2>2, <2>3, <2>4 DEF TypeOK
<1>6. OpenInv /\ ParentInv /\ NewInv
  BY SearchBegins DEF NothingFound
<1>7. RootInv
  BY DEF RootInv
<1>8. HostInv
  BY <1>4 DEF HostInv
<1>9. AbortHasCause
  BY DEF AbortHasCause
<1> QED
  BY <1>5, <1>6, <1>7, <1>8, <1>9 DEF IInv, SearchInv

LEMMA IInvStep == IInv /\ [Next]_vars => IInv'
<1> SUFFICES ASSUME IInv, [Next]_vars PROVE IInv'
  OBVIOUS
<1>1. TypeOK'
  BY TypeStep DEF IInv
<1>2. OpenInv' /\ ParentInv' /\ NewInv'
  BY SearchStep
<1>3. RootInv' /\ HostInv' /\ AbortHasCause'
  BY RootStep, HostStep, AbortStep
<1> QED
  BY <1>1, <1>2, <1>3 DEF IInv, SearchInv

(* IInv holds of every state of every run on every image.                  *)
THEOREM InductiveInvariant == Spec => []IInv
<1> QED
  BY InitInv, IInvStep, PTL DEF Spec

(* So do the invariants of what the search has found, what mkdir has made  *)
(* and what CopyFiles has copied.                                          *)
THEOREM CompletenessInvariant == Spec => []CInv
<1>1. Init => CInv
  <2> SUFFICES ASSUME Init PROVE CInv
    OBVIOUS
  <2>1. phase = "start" /\ local_dirs \subseteq {<<>>} /\ found = {} /\ xdfs_file = NoFile
    BY DEF Init, SearchInit
  <2> QED
    BY <2>1, InitInv DEF CInv, CompleteInv, MadeInv, CopiedInv
<1>2. CInv /\ [Next]_vars => CInv'
  BY IInvStep, CompleteStep, MadeStep, CopiedStep DEF CInv
<1> QED
  BY <1>1, <1>2, PTL DEF Spec

(* The variables keep their types, and the loops of extract_files.cc stay  *)
(* within their vectors and files.                                         *)
THEOREM TypeCorrect == Spec => []TypeOK
<1>1. IInv => TypeOK
  BY DEF IInv
<1> QED
  BY <1>1, InductiveInvariant, PTL

(* An extraction into an existing and empty root_dir that ends early has   *)
(* met a failure of the host, an image that is none, or an entry without   *)
(* a name (extract_files.cc:28-90), whatever the image and its listings.   *)
THEOREM AbortsForCause == Spec => []AbortHasCause
<1>1. IInv => AbortHasCause
  BY DEF IInv
<1> QED
  BY <1>1, InductiveInvariant, PTL

(* A run that finds directories of an earlier one changes no file below    *)
(* root_dir (extract_files.cc:56-61): it does not get past MakeDirs,       *)
(* because a directory of the image's root is one of those it finds.       *)
THEOREM RerunsTouchNoFile == Spec => RerunTouchesNoFile
<1>1. CInv /\ [Next]_vars => [found # {} => UNCHANGED local_files]_vars
  <2> SUFFICES ASSUME CInv, Next, found # {} PROVE UNCHANGED local_files
    OBVIOUS
  <2>1. phase # "copy"
    BY DEF CInv, MadeInv
  <2>2. CASE FindDir \/ AddEntry \/ SearchEnds \/ MakeDirsEnds \/ CopyFilesEnds \/ Rerun
    BY <2>2 DEF FindDir, AddEntry, SearchEnds, MakeDirsEnds, CopyFilesEnds, Rerun,
       localVars
  <2>3. CASE MakeDir
    BY <2>3 DEF MakeDir
  <2>4. CASE StartFile \/ CopyBuffer
    BY <2>1, <2>4 DEF StartFile, CopyBuffer, AtFile
  <2>5. CASE HostFails
    BY <2>1, <2>5 DEF HostFails, CopyFails, AtFile
  <2> QED
    BY <2>2, <2>3, <2>4, <2>5 DEF Next, Step
<1> QED
  BY <1>1, CompletenessInvariant, PTL DEF Spec, RerunTouchesNoFile

(* "Extracting files complete." (extract_files.cc:101) is true: each       *)
(* directory of the disc is made and searched and each file is there, with *)
(* all its bytes and no others unless the host cut a write short.          *)
THEOREM CompleteWhenDone == Spec => []DoneIsComplete
<1>1. CInv => DoneIsComplete
  <2> SUFFICES ASSUME CInv, phase = "done",
                      NEW dir \in {RootPath} \cup InSeq(dir_paths)
               PROVE  /\ EntriesAt(dir) # {}
                      /\ \A o \in EntriesAt(dir) :
                           LET path == PathTo(dir, o) IN
                           IF IsDir(Disc[o].attributes)
                           THEN path \in InSeq(dir_paths) /\ path.names \in local_dirs
                           ELSE /\ path.names \in DOMAIN local_files
                                /\ path.names \notin shortened =>
                                     local_files[path.names] = FileBytes(o)
    BY DEF DoneIsComplete
  <2>1. TypeOK /\ OpenInv /\ CompleteInv /\ MadeInv /\ CopiedInv
    BY DEF CInv, IInv, SearchInv
  <2>2. dir \in DirPath /\ volume \in Volumes
    <3>1. RootPath \in DirPath
      BY DEF RootPath, DirPath
    <3> QED
      BY <2>1, <3>1 DEF TypeOK, SearchTypeOK, InSeq
  <2>3. PICK base \in DirsAt(dir) : TRUE
    BY <2>1, RootOpens DEF OpenInv
  <2>4. /\ EntriesAt(dir) = Table(base)
        /\ Table(base) \subseteq Offsets /\ base \in Table(base)
    BY <2>2, OneDirectory
  <2>5. ASSUME NEW o \in EntriesAt(dir) PROVE Listed(dir, o)
    <3>1. InSeq(<<>>) = {}
      BY DEF InSeq
    <3> QED
      BY <2>1, <3>1 DEF CompleteInv
  <2>6. ASSUME NEW o \in EntriesAt(dir), IsDir(Disc[o].attributes)
        PROVE  PathTo(dir, o) \in InSeq(dir_paths) /\ PathTo(dir, o).names \in local_dirs
    <3>1. PathTo(dir, o) \in InSeq(dir_paths)
      BY <2>5, <2>6 DEF Listed
    <3> QED
      BY <2>1, <3>1 DEF MadeInv, DirNames
  <2>7. ASSUME NEW o \in EntriesAt(dir), ~ IsDir(Disc[o].attributes)
        PROVE  /\ PathTo(dir, o).names \in DOMAIN local_files
               /\ PathTo(dir, o).names \notin shortened =>
                    local_files[PathTo(dir, o).names] = FileBytes(o)
    <3> DEFINE path == PathTo(dir, o)
    <3>1. path \in InSeq(file_paths)
      BY <2>5, <2>7 DEF Listed
    <3> HIDE DEF path
    <3>2. PICK i \in DOMAIN file_paths : path = file_paths[i]
      BY <3>1 DEF InSeq
    <3>3. i < next
      <4>1. file_paths \in Seq(Path) /\ next \in Nat /\ next > Len(file_paths)
        BY <2>1 DEF TypeOK, CopiedInv
      <4> QED
        BY <4>1
    <3>4. xdfs_file = NoFile
      BY <2>1 DEF CopiedInv
    <3>5. /\ ~ path.slash /\ path.names \in DOMAIN local_files
          /\ \/ path.names \in shortened
             \/ \A q \in FilesAt(path) : local_files[path.names] = FileBytes(q)
      BY <2>1, <3>2, <3>3, <3>4, Zenon DEF CopiedInv, IsCopied
    <3>6. Disc[o].name # EmptyName
      <4>1. Disc[o].name = EmptyName => path = dir
        BY <2>2, <2>4, <2>7, PathToType DEF path
      <4>2. dir.slash = TRUE
        BY <2>2 DEF DirPath
      <4> QED
        BY <3>5, <4>1, <4>2
    <3>7. o \in FilesAt(path)
      BY <2>2, <2>3, <2>4, <2>7, <3>6, PathOpens DEF path
    <3> QED
      BY <3>5, <3>7 DEF path
  <2> QED
    BY <2>4, <2>6, <2>7
<1> QED
  BY <1>1, CompletenessInvariant, PTL
-----------------------------------------------------------------------------
(* print_files.cc.                                                         *)

(* The directory that is listed is taken off the stack for good.           *)
LEMMA ListedDirectory ==
  ASSUME SearchTypeOK, ListDir,
         \A d \in InSeq(dirs_to_search) : DirsAt(d) # {},
         \A i, j \in DOMAIN dirs_to_search :
           i # j => dirs_to_search[i] # dirs_to_search[j]
  PROVE  /\ UNCHANGED <<phase, volume, hostFailed>> /\ phase = "search"
         /\ entries = <<>> /\ entries' \in Seq(Offsets)
         /\ current_dir_path' \in DirPath
         /\ \E base \in DirsAt(current_dir_path') : InSeq(entries') \subseteq Table(base)
         /\ InSeq(entries') = EntriesAt(current_dir_path')
         /\ \A i, j \in DOMAIN entries' : i # j => entries'[i] # entries'[j]
         /\ InSeq(dirs_to_search) = InSeq(dirs_to_search') \cup {current_dir_path'}
         /\ current_dir_path' \notin InSeq(dirs_to_search')
         /\ \A i, j \in DOMAIN dirs_to_search' :
              i # j => dirs_to_search'[i] # dirs_to_search'[j]
<1> DEFINE dir == dirs_to_search[Len(dirs_to_search)]
<1>1. /\ dir \in DirPath /\ dir \in InSeq(dirs_to_search)
      /\ \A base \in DirsAt(dir) : \A list \in Listings[base] :
           /\ base \in DirBases
           /\ list \in Seq(Offsets) /\ InSeq(list) = Table(base)
           /\ \A i, j \in DOMAIN list : i # j => list[i] # list[j]
  BY ListedType
<1>2. DirsAt(dir) # {}
  BY <1>1
<1>3. /\ current_dir_path' = dir /\ UNCHANGED <<phase, volume, hostFailed>>
      /\ \E base \in DirsAt(dir) : entries' \in Listings[base]
      /\ dirs_to_search' = Front(dirs_to_search)
      /\ entries = <<>> /\ dirs_to_search # <<>> /\ phase = "search"
  BY <1>2 DEF ListDir, AtDir
<1>4. dirs_to_search \in Seq(DirPath) /\ volume \in Volumes
  BY DEF SearchTypeOK
<1>5. /\ InSeq(dirs_to_search') \subseteq InSeq(dirs_to_search)
      /\ Len(dirs_to_search') = Len(dirs_to_search) - 1
      /\ \A i \in 1 .. Len(dirs_to_search) - 1 : dirs_to_search'[i] = dirs_to_search[i]
      /\ dirs_to_search' \in Seq(DirPath)
  BY <1>3, <1>4, FrontFacts
<1>6. /\ DOMAIN dirs_to_search' = 1 .. Len(dirs_to_search) - 1
      /\ DOMAIN dirs_to_search = 1 .. Len(dirs_to_search)
      /\ Len(dirs_to_search) \in Nat \ {0}
  BY <1>3, <1>4, <1>5
<1>7. PICK base \in DirsAt(dir) : entries' \in Listings[base]
  BY <1>3
<1>8. /\ entries' \in Seq(Offsets) /\ InSeq(entries') = Table(base)
      /\ \A i, j \in DOMAIN entries' : i # j => entries'[i] # entries'[j]
  BY <1>1, <1>7
<1>9. dir \notin InSeq(dirs_to_search')
  <2> SUFFICES ASSUME NEW i \in DOMAIN dirs_to_search', dirs_to_search'[i] = dir
               PROVE  FALSE
    BY DEF InSeq
  <2>1. /\ i \in DOMAIN dirs_to_search /\ Len(dirs_to_search) \in DOMAIN dirs_to_search
        /\ i # Len(dirs_to_search) /\ dirs_to_search'[i] = dirs_to_search[i]
    BY <1>5, <1>6
  <2> QED
    BY <2>1
<1>10. InSeq(dirs_to_search) \subseteq InSeq(dirs_to_search') \cup {dir}
  <2> SUFFICES ASSUME NEW i \in DOMAIN dirs_to_search
               PROVE  dirs_to_search[i] \in InSeq(dirs_to_search') \cup {dir}
    BY DEF InSeq
  <2>1. i = Len(dirs_to_search) \/
          (i \in DOMAIN dirs_to_search' /\ dirs_to_search'[i] = dirs_to_search[i])
    BY <1>5, <1>6
  <2> QED
    BY <2>1 DEF InSeq
<1>11. \A i, j \in DOMAIN dirs_to_search' :
         i # j => dirs_to_search'[i] # dirs_to_search'[j]
  BY <1>5, <1>6
<1> HIDE DEF dir
<1>12. InSeq(entries') = EntriesAt(dir)
  BY <1>1, <1>4, <1>7, <1>8, OneDirectory
<1> QED
  BY <1>1, <1>3, <1>5, <1>7, <1>8, <1>9, <1>10, <1>11, <1>12

LEMMA SamePaths ==
  ASSUME UNCHANGED <<volume, all_file_paths>>
  PROVE  /\ \A p : DirsAt(p)' = DirsAt(p) /\ FilesAt(p)' = FilesAt(p)
         /\ \A p : EntriesAt(p)' = EntriesAt(p) /\ HasBlank(p)' = HasBlank(p)
         /\ \A j : Before(j)' = Before(j)
<1>1. \A p : DirsAt(p)' = DirsAt(p) /\ FilesAt(p)' = FilesAt(p)
  BY SameImage
<1>2. \A p : EntriesAt(p)' = EntriesAt(p)
  BY SameEntries
<1>3. \A p : HasBlank(p)' = HasBlank(p)
  BY <1>2 DEF HasBlank
<1>4. \A j : Before(j)' = Before(j)
  BY DEF Before
<1> QED
  BY <1>1, <1>2, <1>3, <1>4

(* A path is put behind those found.                                       *)
LEMMA AddedPath ==
  ASSUME PrintTypeOK, AddPath
  PROVE  LET n == Len(all_file_paths) IN
         /\ all_file_paths \in Seq(Path) /\ new_path \in Path /\ n \in Nat
         /\ all_file_paths' \in Seq(Path)
         /\ InSeq(all_file_paths') = InSeq(all_file_paths) \cup {new_path}
         /\ DOMAIN all_file_paths' = DOMAIN all_file_paths \cup {n + 1}
         /\ all_file_paths'[n + 1] = new_path
         /\ \A j \in DOMAIN all_file_paths :
              all_file_paths'[j] = all_file_paths[j] /\ Before(j)' = Before(j)
         /\ \A j : j = n + 1 => Before(j)' = InSeq(all_file_paths)
<1> DEFINE n == Len(all_file_paths)
<1>1. /\ all_file_paths \in Seq(Path) /\ new_path \in Path
      /\ all_file_paths' = Append(all_file_paths, new_path)
  BY TakenType DEF PrintTypeOK, AddPath
<1>2. /\ n \in Nat /\ all_file_paths' \in Seq(Path)
      /\ DOMAIN all_file_paths = 1 .. n /\ DOMAIN all_file_paths' = 1 .. n + 1
      /\ all_file_paths'[n + 1] = new_path
      /\ \A j \in 1 .. n : all_file_paths'[j] = all_file_paths[j]
  BY <1>1
<1>3. InSeq(all_file_paths') = InSeq(all_file_paths) \cup {new_path}
  BY <1>1, AppendFacts
<1> HIDE DEF n
<1>4. ASSUME NEW j \in 1 .. n + 1
      PROVE  Before(j)' = {all_file_paths[i] : i \in {k \in 1 .. n : k < j}}
  <2>1. {k \in 1 .. n + 1 : k < j} = {k \in 1 .. n : k < j}
    BY <1>2
  <2> QED
    BY <1>2, <2>1 DEF Before
<1>5. \A j \in 1 .. n : Before(j)' = Before(j)
  BY <1>2, <1>4 DEF Before
<1>6. ASSUME NEW j, j = n + 1 PROVE Before(j)' = InSeq(all_file_paths)
  <2>1. {k \in 1 .. n : k < j} = 1 .. n
    BY <1>2, <1>6
  <2>2. Before(j)' = {all_file_paths[i] : i \in {k \in 1 .. n : k < j}}
    BY <1>2, <1>4, <1>6
  <2>3. InSeq(all_file_paths) = {all_file_paths[i] : i \in 1 .. n}
    BY <1>2 DEF InSeq
  <2> QED
    BY <2>1, <2>2, <2>3
<1> QED
  BY <1>1, <1>2, <1>3, <1>5, <1>6 DEF n

LEMMA PrintTypeStep == PrintTypeOK /\ [PrintNext]_printVars => PrintTypeOK'
<1> SUFFICES ASSUME PrintTypeOK, [PrintNext]_printVars PROVE PrintTypeOK'
  OBVIOUS
<1>1. SearchTypeOK
  BY DEF PrintTypeOK
<1>2. CASE FindPrintDir \/ (SearchFails /\ UNCHANGED all_file_paths)
  <2>1. SearchTypeOK' /\ phase' \in {"start", "part 2", "search", "aborted"}
    BY <1>1, <1>2, SearchTypeStep DEF FindPrintDir
  <2> QED
    BY <1>2, <2>1 DEF FindPrintDir, PrintTypeOK
<1>3. CASE AddPath
  <2>1. SearchTypeOK' /\ phase' \in {"start", "part 2", "search", "aborted"}
    BY <1>1, <1>3, SearchTypeStep DEF AddPath
  <2>2. all_file_paths' \in Seq(Path)
    BY <1>3, AddedPath
  <2> QED
    BY <2>1, <2>2 DEF PrintTypeOK
<1>4. CASE Output \/ UNCHANGED printVars
  BY <1>1, <1>4 DEF Output, printVars, searchVars, PrintTypeOK, SearchTypeOK
<1> QED
  BY <1>2, <1>3, <1>4 DEF PrintNext, PrintStep

SearchedPaths == PrintOpenInv /\ PrintParentInv /\ PrintNewInv

(* Steps that find nothing.                                                *)
LEMMA PrintQuiet ==
  ASSUME PrintTypeOK, SearchedPaths, PrintCompleteInv, UNCHANGED <<volume, all_file_paths>>,
         UNCHANGED searchVars
  PROVE  /\ SearchedPaths'
         /\ phase' \in {phase, "aborted"} => PrintCompleteInv'
         /\ SearchDone /\ phase' = "done" => PrintCompleteInv'
         /\ phase = "start" /\ phase' = "part 2" => PrintCompleteInv'
<1>1. UNCHANGED <<dirs_to_search, current_dir_path, entries>>
  BY DEF searchVars
<1>2. /\ \A p : DirsAt(p)' = DirsAt(p) /\ FilesAt(p)' = FilesAt(p)
      /\ \A p : EntriesAt(p)' = EntriesAt(p) /\ HasBlank(p)' = HasBlank(p)
      /\ \A j : Before(j)' = Before(j)
  BY SamePaths
<1>3. PrintOpenInv'
  BY <1>1, <1>2 DEF SearchedPaths, PrintOpenInv
<1>4. PrintParentInv'
  BY <1>1, <1>2 DEF SearchedPaths, PrintParentInv
<1>5. PrintNewInv'
  BY <1>1, <1>2 DEF SearchedPaths, PrintNewInv, OnlyBlanksRepeat
<1>6. phase' \in {phase, "aborted"} => PrintCompleteInv'
  BY <1>1, <1>2 DEF PrintCompleteInv
<1>7. SearchDone /\ phase' = "done" => PrintCompleteInv'
  BY <1>1, <1>2 DEF PrintCompleteInv, SearchDone
<1>8. phase = "start" /\ phase' = "part 2" => PrintCompleteInv'
  BY <1>1 DEF PrintCompleteInv
<1> QED
  BY <1>3, <1>4, <1>5, <1>6, <1>7, <1>8 DEF SearchedPaths

(* The search begins with the root.                                        *)
LEMMA PrintBegins ==
  ASSUME PrintTypeOK, SearchedPaths, PrintCompleteInv, ReadDescriptorPart2,
         phase' = "search", UNCHANGED all_file_paths
  PROVE  SearchedPaths' /\ PrintCompleteInv'
<1>1. /\ dirs_to_search' = <<RootPath>> /\ current_dir_path' = RootPath
      /\ entries' = <<>> /\ all_file_paths' = <<>> /\ volume' = volume
      /\ phase' = "search"
  BY DEF ReadDescriptorPart2, PrintCompleteInv
<1>2. /\ InSeq(dirs_to_search') = {RootPath} /\ DOMAIN dirs_to_search' = {1}
      /\ InSeq(entries') = {} /\ DOMAIN entries' = {}
      /\ InSeq(all_file_paths') = {} /\ DOMAIN all_file_paths' = {}
  BY <1>1 DEF InSeq
<1>3. DirsAt(RootPath)' # {}
  BY <1>1, RootOpens, SameImage
<1>4. DirsIn(InSeq(all_file_paths')) = {}
  BY <1>2 DEF DirsIn
<1>5. PrintOpenInv'
  BY <1>1, <1>2, <1>3, <1>4 DEF PrintOpenInv
<1>6. PrintParentInv'
  BY <1>1, <1>2 DEF PrintParentInv
<1>7. PrintNewInv'
  BY <1>1, <1>2 DEF PrintNewInv, OnlyBlanksRepeat
<1>8. PrintCompleteInv'
  BY <1>1, <1>2, <1>4 DEF PrintCompleteInv
<1> QED
  BY <1>5, <1>6, <1>7, <1>8 DEF SearchedPaths

(* A directory is listed: nothing in it was found before.                  *)
LEMMA PrintListed ==
  ASSUME PrintTypeOK, SearchedPaths, PrintCompleteInv, ListDir,
         UNCHANGED all_file_paths
  PROVE  SearchedPaths' /\ PrintCompleteInv' /\ UNCHANGED <<phase, hostFailed>>
<1> DEFINE dir == current_dir_path'
<1> USE DEF SearchedPaths
<1>1. /\ UNCHANGED <<phase, volume, hostFailed>> /\ phase = "search"
      /\ entries = <<>> /\ entries' \in Seq(Offsets) /\ dir \in DirPath
      /\ \E base \in DirsAt(dir) : InSeq(entries') \subseteq Table(base)
      /\ InSeq(entries') = EntriesAt(dir)
      /\ \A i, j \in DOMAIN entries' : i # j => entries'[i] # entries'[j]
      /\ InSeq(dirs_to_search) = InSeq(dirs_to_search') \cup {dir}
      /\ dir \notin InSeq(dirs_to_search')
      /\ \A i, j \in DOMAIN dirs_to_search' :
           i # j => dirs_to_search'[i] # dirs_to_search'[j]
  <2>1. SearchTypeOK
    BY DEF PrintTypeOK
  <2>2. \A d \in InSeq(dirs_to_search) : DirsAt(d) # {}
    BY DEF PrintOpenInv
  <2>3. \A i, j \in DOMAIN dirs_to_search :
          i # j => dirs_to_search[i] # dirs_to_search[j]
    BY DEF PrintNewInv
  <2> QED
    BY <2>1, <2>2, <2>3, ListedDirectory
<1>2. /\ \A p : DirsAt(p)' = DirsAt(p) /\ FilesAt(p)' = FilesAt(p)
      /\ \A p : EntriesAt(p)' = EntriesAt(p) /\ HasBlank(p)' = HasBlank(p)
      /\ \A j : Before(j)' = Before(j)
  BY <1>1, SamePaths
<1>3. InSeq(entries) = {}
  BY <1>1 DEF InSeq
<1> HIDE DEF dir
<1>4. dir = current_dir_path'
  BY DEF dir
<1>5. PrintOpenInv'
  BY <1>1, <1>2, <1>4 DEF PrintOpenInv
<1>6. PrintParentInv'
  BY <1>1, <1>2, <1>4 DEF PrintParentInv
<1>7. PrintNewInv'
  <2>1. ASSUME NEW path \in InSeq(all_file_paths)
        PROVE  /\ path.names # <<>> =>
                    \A s \in InSeq(dirs_to_search') : Front(path.names) # s.names
               /\ \A o \in InSeq(entries') :
                    path.names # Append(dir.names, Disc[o].name)
    <3>1. path.names # <<>> => /\ Front(path.names) # dir.names
                               /\ \A s \in InSeq(dirs_to_search') :
                                    Front(path.names) # s.names
      BY <1>1, <2>1 DEF PrintNewInv
    <3>2. ASSUME NEW o \in InSeq(entries') PROVE path.names # Append(dir.names, Disc[o].name)
      <4>1. o \in Offsets /\ dir.names \in Seq(Name)
        BY <1>1, <3>2 DEF InSeq, DirPath
      <4>2. Disc[o].name \in Name
        BY <4>1, DiscAssumption
      <4>3. /\ Front(Append(dir.names, Disc[o].name)) = dir.names
            /\ Append(dir.names, Disc[o].name) # <<>>
        BY <4>1, <4>2, AppendFacts
      <4> QED
        BY <3>1, <4>3
    <3> QED
      BY <3>1, <3>2
  <2>2. OnlyBlanksRepeat'
    BY <1>2 DEF PrintNewInv, OnlyBlanksRepeat
  <2> QED
    BY <1>1, <1>4, <2>1, <2>2 DEF PrintNewInv
<1>8. PrintCompleteInv'
  <2>1. \A d \in {RootPath} \cup DirsIn(InSeq(all_file_paths)) :
          \/ d \in InSeq(dirs_to_search')
          \/ \A o \in EntriesAt(d) :
               \/ PathTo(d, o) \in InSeq(all_file_paths)
               \/ d = dir /\ o \in InSeq(entries')
    BY <1>1, <1>3 DEF PrintCompleteInv
  <2> QED
    BY <1>1, <1>2, <1>4, <2>1 DEF PrintCompleteInv
<1> QED
  BY <1>1, <1>5, <1>6, <1>7, <1>8

(* A path is found: it opens, its directory was found before it, and it    *)
(* was not found yet unless the entry is blank.                            *)
LEMMA PrintAdded ==
  ASSUME PrintTypeOK, SearchedPaths, PrintCompleteInv, AddPath
  PROVE  SearchedPaths' /\ PrintCompleteInv' /\ UNCHANGED <<phase, hostFailed>>
<1> USE DEF SearchedPaths
<1> DEFINE isdir == IsDir(Disc[entry].attributes)
           blank == Disc[entry].name = EmptyName
           new == new_path
           cur == current_dir_path
<1>1. /\ TakeEntry /\ SearchTypeOK
      /\ UNCHANGED <<phase, volume, current_dir_path, hostFailed>>
      /\ phase = "search" /\ entries # <<>> /\ volume \in Volumes
      /\ cur \in DirPath /\ dirs_to_search \in Seq(DirPath)
      /\ dirs_to_search' = IF isdir THEN Append(dirs_to_search, new) ELSE dirs_to_search
  BY DEF AddPath, TakeEntry, PrintTypeOK, SearchTypeOK
<1>2. /\ entry \in Offsets /\ entry \in InSeq(entries) /\ entries' \in Seq(Offsets)
      /\ new \in Path /\ (isdir => new \in DirPath)
  BY <1>1, TakenType
<1>3. /\ InSeq(entries') \subseteq InSeq(entries) /\ entry \notin InSeq(entries')
      /\ InSeq(entries) \subseteq InSeq(entries') \cup {entry}
      /\ \A i, j \in DOMAIN entries' : i # j => entries'[i] # entries'[j]
  BY <1>1, RestOfListing DEF PrintOpenInv
<1>4. /\ all_file_paths \in Seq(Path)
      /\ InSeq(all_file_paths') = InSeq(all_file_paths) \cup {new}
      /\ DOMAIN all_file_paths' = DOMAIN all_file_paths \cup {Len(all_file_paths) + 1}
      /\ all_file_paths'[Len(all_file_paths) + 1] = new
      /\ \A j \in DOMAIN all_file_paths :
           all_file_paths'[j] = all_file_paths[j] /\ Before(j)' = Before(j)
      /\ \A j : j = Len(all_file_paths) + 1 => Before(j)' = InSeq(all_file_paths)
  BY AddedPath
<1>5. /\ \A p : DirsAt(p)' = DirsAt(p) /\ FilesAt(p)' = FilesAt(p)
      /\ \A p : EntriesAt(p)' = EntriesAt(p)
      /\ \A p : HasBlank(p)' = HasBlank(p)
  <2>1. \A p : EntriesAt(p)' = EntriesAt(p)
    BY <1>1, SameEntries
  <2> QED
    BY <1>1, <2>1, SameImage DEF HasBlank
<1>6. InSeq(dirs_to_search') = InSeq(dirs_to_search) \cup (IF isdir THEN {new} ELSE {})
  BY <1>1, <1>2, AppendFacts
<1>7. PICK base \in DirsAt(cur) : InSeq(entries) \subseteq Table(base)
  BY DEF PrintOpenInv
<1>8. entry \in EntriesAt(cur) /\ base \in DirBases
  BY <1>1, <1>2, <1>7, OneDirectory, OpensDirectory
<1>9. /\ isdir => ~ blank
      /\ blank => new = cur
      /\ ~ blank => (new.slash <=> isdir)
      /\ cur.slash
  BY <1>1, <1>2, PathToType DEF new_path, DirPath
<1>10. ~ blank => /\ new.names # <<>> /\ new.names # cur.names
                  /\ Front(new.names) = cur.names
                  /\ new.names = Append(cur.names, Disc[entry].name)
                  /\ cur.names \in Seq(Name)
  BY <1>1, NewNames
<1>11. ~ blank => \A o \in InSeq(entries') :
                    new.names # Append(cur.names, Disc[o].name)
  <2> SUFFICES ASSUME ~ blank, NEW o \in InSeq(entries'),
                      new.names = Append(cur.names, Disc[o].name)
               PROVE  FALSE
    OBVIOUS
  <2>1. o \in InSeq(entries) /\ o \in Offsets
    BY <1>2, <1>3 DEF InSeq
  <2>2. Disc[o].name = Disc[entry].name
    BY <1>1, <2>1, NewNames
  <2>3. o = entry
    BY <1>2, <1>7, <1>8, <2>1, <2>2, NamesAssumption
  <2> QED
    BY <1>3, <2>3
<1>12. ~ blank => \A p \in InSeq(all_file_paths) : p.names # new.names
  BY <1>2, <1>10 DEF PrintNewInv
<1> HIDE DEF isdir, blank, new, cur
<1>13. DirsIn(InSeq(all_file_paths')) =
         DirsIn(InSeq(all_file_paths)) \cup (IF new.slash THEN {new} ELSE {})
  BY <1>4 DEF DirsIn
<1>14. current_dir_path' = cur /\ cur = current_dir_path
  BY <1>1 DEF cur
<1>15. cur \in {RootPath} \cup DirsIn(InSeq(all_file_paths))
  BY <1>14 DEF PrintParentInv
<1>16. PrintOpenInv'
  <2>0. new = PathTo(cur, entry) /\ cur \in DirPath /\ entry \in Table(base)
    <3>1. new = PathTo(cur, entry)
      BY Zenon DEF new, new_path, cur
    <3> QED
      BY <1>1, <1>2, <1>7, <1>14, <3>1
  <2>1. isdir => DirsAt(new) # {}
    BY <1>2, <1>7, <1>9, <2>0, PathOpens DEF isdir, blank
  <2>2. ~ blank /\ ~ isdir => FilesAt(new) # {}
    BY <1>2, <1>7, <2>0, PathOpens DEF isdir, blank
  <2>3. new.slash => DirsAt(new) # {}
    BY <1>7, <1>9, <2>1
  <2>4. new.slash \/ FilesAt(new) # {}
    BY <1>9, <2>2
  <2>5. \A d \in InSeq(dirs_to_search') \cup DirsIn(InSeq(all_file_paths')) :
          DirsAt(d)' # {}
    BY <1>5, <1>6, <1>13, <2>1, <2>3 DEF PrintOpenInv
  <2>6. \A f \in InSeq(all_file_paths') : f.slash \/ FilesAt(f)' # {}
    BY <1>4, <1>5, <2>4 DEF PrintOpenInv
  <2>7. /\ InSeq(entries') \subseteq Table(base)
        /\ base \in DirsAt(current_dir_path)'
    BY <1>1, <1>3, <1>5, <1>7, <1>14
  <2> QED
    BY <1>3, <2>5, <2>6, <2>7 DEF PrintOpenInv
<1>17. PrintParentInv'
  <2>1. ASSUME NEW j \in DOMAIN all_file_paths'
        PROVE  \/ Front(all_file_paths'[j].names) = <<>>
               \/ \E dir \in DirsIn(Before(j)') :
                    dir.names = Front(all_file_paths'[j].names)
    <3>1. CASE j \in DOMAIN all_file_paths
      BY <1>4, <3>1 DEF PrintParentInv
    <3>2. CASE j = Len(all_file_paths) + 1
      <4>1. all_file_paths'[j] = new /\ Before(j)' = InSeq(all_file_paths)
        BY <1>4, <3>2
      <4>2. CASE blank
        <5>1. CASE cur = RootPath
          <6>1. Front(<<>>) = <<>>
            BY DEF Front
          <6> QED
            BY <1>9, <4>1, <4>2, <5>1, <6>1 DEF RootPath
        <5>2. CASE cur # RootPath
          <6>1. cur \in InSeq(all_file_paths)
            BY <1>15, <5>2 DEF DirsIn
          <6>2. PICK i \in DOMAIN all_file_paths : cur = all_file_paths[i]
            BY <6>1 DEF InSeq
          <6>3. Before(i) \subseteq InSeq(all_file_paths)
            BY DEF Before, InSeq
          <6>4. \/ Front(cur.names) = <<>>
                \/ \E dir \in DirsIn(Before(i)) : dir.names = Front(cur.names)
            BY <6>2 DEF PrintParentInv
          <6> QED
            BY <1>9, <4>1, <4>2, <6>3, <6>4 DEF DirsIn
        <5> QED
          BY <5>1, <5>2
      <4>3. CASE ~ blank
        <5>1. cur = RootPath => cur.names = <<>>
          BY DEF RootPath
        <5> QED
          BY <1>10, <1>15, <4>1, <4>3, <5>1
      <4> QED
        BY <4>2, <4>3
    <3> QED
      BY <1>4, <3>1, <3>2
  <2>2. InSeq(dirs_to_search') \cup {cur} \subseteq
          {RootPath} \cup DirsIn(InSeq(all_file_paths'))
    <3>1. InSeq(dirs_to_search) \subseteq {RootPath} \cup DirsIn(InSeq(all_file_paths))
      BY DEF PrintParentInv
    <3> QED
      BY <1>6, <1>9, <1>13, <1>15, <3>1
  <2> QED
    BY <1>14, <2>1, <2>2 DEF PrintParentInv
<1>18. PrintNewInv'
  <2>1. \A s \in InSeq(dirs_to_search) : s \in DirPath /\ cur.names # s.names
    <3>1. cur \notin InSeq(dirs_to_search)
      BY <1>1, <1>14 DEF PrintNewInv
    <3>2. InSeq(dirs_to_search) \subseteq DirPath
      BY <1>1 DEF InSeq
    <3> QED
      BY <1>1, <1>14, <3>1, <3>2, SameNames
  <2>2. new \notin InSeq(dirs_to_search)
    <3>1. CASE blank
      BY <1>9, <2>1, <3>1
    <3>2. CASE ~ blank
      <4>1. InSeq(dirs_to_search) \subseteq {RootPath} \cup InSeq(all_file_paths)
        BY DEF PrintParentInv, DirsIn
      <4>2. RootPath.names = <<>>
        BY DEF RootPath
      <4> QED
        BY <1>10, <1>12, <3>2, <4>1, <4>2
    <3> QED
      BY <3>1, <3>2
  <2>3. \A i, j \in DOMAIN dirs_to_search' :
          i # j => dirs_to_search'[i] # dirs_to_search'[j]
    <3>1. CASE ~ isdir
      <4>1. dirs_to_search' = dirs_to_search
        BY <1>1, <3>1 DEF isdir
      <4> QED
        BY <4>1 DEF PrintNewInv
    <3>2. CASE isdir
      <4>1. dirs_to_search' = Append(dirs_to_search, new) /\ new \in DirPath
        BY <1>1, <1>2, <3>2 DEF isdir, new
      <4>2. /\ DOMAIN dirs_to_search' = DOMAIN dirs_to_search \cup {Len(dirs_to_search) + 1}
            /\ \A i \in DOMAIN dirs_to_search : dirs_to_search'[i] = dirs_to_search[i]
            /\ dirs_to_search'[Len(dirs_to_search) + 1] = new
        BY <1>1, <4>1
      <4>3. \A i \in DOMAIN dirs_to_search : dirs_to_search[i] # new
        BY <2>2 DEF InSeq
      <4>4. \A i, j \in DOMAIN dirs_to_search :
              i # j => dirs_to_search[i] # dirs_to_search[j]
        BY DEF PrintNewInv
      <4> QED
        BY <4>2, <4>3, <4>4
    <3> QED
      BY <3>1, <3>2
  <2>4. cur \notin InSeq(dirs_to_search')
    <3>1. isdir => new # cur
      BY <1>9, <1>10
    <3> QED
      BY <1>6, <2>1, <3>1
  <2>5. \A p \in InSeq(all_file_paths) :
          /\ p.names # <<>> =>
               \A s \in InSeq(dirs_to_search) : Front(p.names) # s.names
          /\ \A o \in InSeq(entries) :
               Disc[o].name # EmptyName => p.names # Append(cur.names, Disc[o].name)
    BY <1>14 DEF PrintNewInv
  <2>6. ASSUME NEW p \in InSeq(all_file_paths'), p.names # <<>>,
               NEW s \in InSeq(dirs_to_search')
        PROVE  Front(p.names) # s.names
    <3>1. CASE p \in InSeq(all_file_paths) /\ s \in InSeq(dirs_to_search)
      BY <2>5, <2>6, <3>1
    <3>2. CASE p \in InSeq(all_file_paths) /\ isdir /\ s = new
      <4> SUFFICES ASSUME Front(p.names) = new.names PROVE FALSE
        BY <3>2
      <4>1. new.names # <<>>
        BY <1>9, <1>10, <3>2
      <4>2. PICK j \in DOMAIN all_file_paths : p = all_file_paths[j]
        BY <3>2 DEF InSeq
      <4>3. PICK dir \in DirsIn(Before(j)) : dir.names = Front(p.names)
        BY <4>1, <4>2 DEF PrintParentInv
      <4>4. dir \in InSeq(all_file_paths)
        BY <4>3 DEF DirsIn, Before, InSeq
      <4> QED
        BY <1>9, <1>12, <3>2, <4>3, <4>4
    <3>3. CASE p = new /\ ~ blank /\ s \in InSeq(dirs_to_search)
      BY <1>10, <2>1, <3>3
    <3>4. CASE p = new /\ ~ blank /\ isdir /\ s = new
      BY <1>10, <3>4
    <3>5. CASE p = new /\ blank
      <4>1. p = cur /\ cur \in InSeq(all_file_paths)
        <5>1. p = cur /\ cur.names # <<>>
          BY <1>9, <2>6, <3>5
        <5>2. RootPath.names = <<>>
          BY DEF RootPath
        <5> QED
          BY <1>15, <5>1, <5>2 DEF DirsIn
      <4>2. s \in InSeq(dirs_to_search)
        BY <1>6, <1>9, <2>6, <3>5
      <4> QED
        BY <2>5, <2>6, <4>1, <4>2
    <3> QED
      BY <1>4, <1>6, <1>9, <2>6, <3>1, <3>2, <3>3, <3>4, <3>5
  <2>7. ASSUME NEW p \in InSeq(all_file_paths'), NEW o \in InSeq(entries'),
               Disc[o].name # EmptyName
        PROVE  p.names # Append(cur.names, Disc[o].name)
    <3>1. CASE p \in InSeq(all_file_paths)
      BY <1>3, <2>5, <2>7, <3>1
    <3>2. CASE p = new /\ ~ blank
      BY <1>11, <3>2
    <3>3. CASE p = new /\ blank
      <4>1. p.names = cur.names
        BY <1>9, <3>3
      <4>2. o \in Offsets /\ cur.names \in Seq(Name)
        BY <1>1, <1>2, <1>14 DEF InSeq, DirPath
      <4>3. Disc[o].name \in Name
        BY <4>2, DiscAssumption
      <4> QED
        BY <4>1, <4>2, <4>3, AppendFacts
    <3> QED
      BY <1>4, <3>1, <3>2, <3>3
  <2>8. OnlyBlanksRepeat'
    <3>1. new \in InSeq(all_file_paths) => new.slash /\ HasBlank(new)
      <4>1. CASE blank
        BY <1>8, <1>9, <1>14, <4>1 DEF HasBlank, blank
      <4>2. CASE ~ blank
        BY <1>12, <4>2
      <4> QED
        BY <4>1, <4>2
    <3>2. ASSUME NEW j \in DOMAIN all_file_paths', all_file_paths'[j] \in Before(j)'
          PROVE  all_file_paths'[j].slash /\ \E q : q = all_file_paths'[j] /\ HasBlank(q)'
      <4>1. CASE j \in DOMAIN all_file_paths
        BY <1>4, <1>5, <3>2, <4>1 DEF PrintNewInv, OnlyBlanksRepeat
      <4>2. CASE j = Len(all_file_paths) + 1
        BY <1>4, <1>5, <3>1, <3>2, <4>2
      <4> QED
        BY <1>4, <4>1, <4>2
    <3> QED
      BY <3>2 DEF OnlyBlanksRepeat
  <2> QED
    BY <1>3, <1>14, <2>3, <2>4, <2>6, <2>7, <2>8 DEF PrintNewInv
<1>19. PrintCompleteInv'
  <2>1. ASSUME NEW dir \in {RootPath} \cup DirsIn(InSeq(all_file_paths')),
               dir \notin InSeq(dirs_to_search'), NEW o \in EntriesAt(dir)
        PROVE  \/ PathTo(dir, o) \in InSeq(all_file_paths')
               \/ dir = cur /\ o \in InSeq(entries')
    <3>1. dir \in {RootPath} \cup DirsIn(InSeq(all_file_paths))
      <4>1. new.slash => isdir \/ new = cur
        BY <1>9
      <4> QED
        BY <1>6, <1>13, <1>15, <2>1, <4>1
    <3>2. dir \notin InSeq(dirs_to_search)
      BY <1>6, <2>1
    <3>3. \/ PathTo(dir, o) \in InSeq(all_file_paths)
          \/ dir = cur /\ o \in InSeq(entries)
      BY <1>1, <1>14, <2>1, <3>1, <3>2 DEF PrintCompleteInv
    <3>4. dir = cur /\ o = entry => PathTo(dir, o) = new
      BY <1>14 DEF new, new_path
    <3> QED
      BY <1>3, <1>4, <3>3, <3>4
  <2> QED
    BY <1>1, <1>5, <1>14, <2>1 DEF PrintCompleteInv
<1> QED
  BY <1>1, <1>16, <1>17, <1>18, <1>19

LEMMA PrintInitInv == PrintInit => PrintInv
<1> SUFFICES ASSUME PrintInit PROVE PrintInv
  OBVIOUS
<1> USE DEF PrintInit, SearchInit
<1>1. /\ RootPath \in DirPath /\ <<>> \in Seq(DirPath) /\ <<>> \in Seq(Path)
      /\ <<>> \in Seq(Offsets)
  BY DEF RootPath, DirPath
<1>2. hostFailed \in BOOLEAN
  BY Zenon
<1>3. PrintTypeOK
  BY <1>1, <1>2 DEF PrintTypeOK, SearchTypeOK
<1>4. /\ InSeq(entries) = {} /\ DOMAIN entries = {}
      /\ InSeq(dirs_to_search) = {} /\ DOMAIN dirs_to_search = {}
      /\ InSeq(all_file_paths) = {} /\ DOMAIN all_file_paths = {}
      /\ DirsIn(InSeq(all_file_paths)) = {}
  BY DEF InSeq, DirsIn
<1>5. DirsAt(RootPath) # {}
  BY RootOpens
<1>6. PrintOpenInv
  BY <1>4, <1>5 DEF PrintOpenInv
<1>7. PrintParentInv
  BY <1>4 DEF PrintParentInv
<1>8. PrintNewInv
  BY <1>4 DEF PrintNewInv, OnlyBlanksRepeat
<1>9. PrintCompleteInv /\ PrintAbortHasCause
  BY DEF PrintCompleteInv, PrintAbortHasCause
<1> QED
  BY <1>3, <1>6, <1>7, <1>8, <1>9 DEF PrintInv

LEMMA PrintInvStep == PrintInv /\ [PrintNext]_printVars => PrintInv'
<1> SUFFICES ASSUME PrintInv, [PrintNext]_printVars PROVE PrintInv'
  OBVIOUS
<1>1. PrintTypeOK /\ SearchedPaths /\ PrintCompleteInv /\ PrintAbortHasCause
  BY DEF PrintInv, SearchedPaths
<1>2. PrintTypeOK'
  BY <1>1, PrintTypeStep
<1>3. SearchedPaths' /\ PrintCompleteInv' /\ PrintAbortHasCause' => PrintInv'
  BY <1>2 DEF PrintInv, SearchedPaths
<1>4. CASE FindPrintDir /\ ReadDescriptor
  <2>1. /\ UNCHANGED <<volume, searchVars, all_file_paths, hostFailed>>
        /\ phase = "start" /\ phase' = IF volume.magic THEN "part 2" ELSE "aborted"
    BY <1>4 DEF FindPrintDir, ReadDescriptor
  <2>2. SearchedPaths' /\ PrintCompleteInv'
    BY <1>1, <2>1, PrintQuiet
  <2>3. PrintAbortHasCause'
    BY <2>1 DEF PrintAbortHasCause, BadVolume
  <2> QED
    BY <1>3, <2>2, <2>3
<1>5. CASE FindPrintDir /\ ReadDescriptorPart2
  <2>1. /\ UNCHANGED <<volume, all_file_paths, hostFailed>>
        /\ \/ volume.magic_2 /\ phase' = "search"
           \/ ~ volume.magic_2 /\ phase' = "aborted" /\ UNCHANGED searchVars
    BY <1>5 DEF FindPrintDir, ReadDescriptorPart2, searchVars
  <2>2. SearchedPaths' /\ PrintCompleteInv'
    BY <1>1, <1>5, <2>1, PrintQuiet, PrintBegins
  <2>3. PrintAbortHasCause'
    BY <2>1 DEF PrintAbortHasCause, BadVolume
  <2> QED
    BY <1>3, <2>2, <2>3
<1>6. CASE (FindPrintDir /\ ListDir) \/ AddPath
  <2>1. /\ SearchedPaths' /\ PrintCompleteInv'
        /\ UNCHANGED <<phase, hostFailed>> /\ phase = "search"
    BY <1>1, <1>6, PrintListed, PrintAdded
       DEF FindPrintDir, ListDir, AtDir, AddPath, TakeEntry
  <2> QED
    BY <1>3, <2>1 DEF PrintAbortHasCause
<1>7. CASE Output
  <2>1. /\ SearchDone /\ phase' = "done"
        /\ UNCHANGED <<volume, searchVars, all_file_paths>>
    BY <1>7 DEF Output
  <2>2. SearchedPaths' /\ PrintCompleteInv'
    BY <1>1, <2>1, PrintQuiet
  <2> QED
    BY <1>3, <2>1, <2>2 DEF PrintAbortHasCause
<1>8. CASE SearchFails /\ UNCHANGED all_file_paths
  <2>1. /\ hostFailed' = TRUE /\ phase' = "aborted"
        /\ UNCHANGED <<volume, searchVars, all_file_paths>>
    BY <1>8 DEF SearchFails
  <2>2. SearchedPaths' /\ PrintCompleteInv'
    BY <1>1, <2>1, PrintQuiet
  <2> QED
    BY <1>3, <2>1, <2>2 DEF PrintAbortHasCause
<1>9. CASE UNCHANGED printVars
  <2>1. UNCHANGED <<phase, hostFailed, volume, searchVars, all_file_paths>>
    BY <1>9 DEF printVars
  <2>2. SearchedPaths' /\ PrintCompleteInv'
    BY <1>1, <2>1, PrintQuiet
  <2>3. PrintAbortHasCause'
    BY <1>1, <2>1 DEF PrintAbortHasCause, BadVolume
  <2> QED
    BY <1>3, <2>2, <2>3
<1> QED
  BY <1>4, <1>5, <1>6, <1>7, <1>8, <1>9 DEF PrintNext, PrintStep, FindPrintDir

(* PrintInv holds of every state of print_files on every image.            *)
THEOREM PrintInvariant == PrintSpec => []PrintInv
<1> QED
  BY PrintInitInv, PrintInvStep, PTL DEF PrintSpec

(* The variables of print_files keep their types.                          *)
THEOREM PrintTypeCorrect == PrintSpec => []PrintTypeOK
<1>1. PrintInv => PrintTypeOK
  BY DEF PrintInv
<1> QED
  BY <1>1, PrintInvariant, PTL

(* No lookup of a path that the search has put together fails: the process *)
(* ends early only when the host fails or the image is none.               *)
THEOREM PrintAbortsForCause == PrintSpec => []PrintAbortHasCause
<1>1. PrintInv => PrintAbortHasCause
  BY DEF PrintInv
<1> QED
  BY <1>1, PrintInvariant, PTL

(* What print_files prints is the tree of the image, each directory before *)
(* what is in it.                                                          *)
THEOREM PrintedIsTree == PrintSpec => []PrintsTree
<1>1. PrintInv => PrintsTree
  <2> SUFFICES ASSUME PrintInv, phase = "done" PROVE PrintsTree
    BY DEF PrintsTree
  <2>1. /\ PrintTypeOK /\ PrintOpenInv /\ PrintParentInv /\ PrintNewInv
        /\ PrintCompleteInv
    BY DEF PrintInv
  <2>2. /\ InSeq(dirs_to_search) = {} /\ InSeq(entries) = {}
        /\ volume \in Volumes /\ all_file_paths \in Seq(Path)
    BY <2>1 DEF PrintCompleteInv, PrintTypeOK, SearchTypeOK, InSeq
  <2>3. ASSUME NEW dir \in {RootPath} \cup DirsIn(InSeq(all_file_paths))
        PROVE  /\ EntriesAt(dir) # {}
               /\ \A o \in EntriesAt(dir) : PathTo(dir, o) \in InSeq(all_file_paths)
    <3>1. dir \in DirPath
      <4>1. CASE dir = RootPath
        BY <4>1 DEF RootPath, DirPath
      <4>2. CASE dir # RootPath
        <5>1. dir \in Path /\ dir.slash
          BY <2>2, <2>3, <4>2 DEF DirsIn, InSeq
        <5> QED
          BY <5>1 DEF Path, DirPath
      <4> QED
        BY <4>1, <4>2
    <3>2. PICK base \in DirsAt(dir) : TRUE
      BY <2>1, <2>3, RootOpens DEF PrintOpenInv
    <3>3. EntriesAt(dir) # {}
      BY <2>2, <3>1, <3>2, OneDirectory
    <3> QED
      BY <2>1, <2>2, <2>3, <3>3 DEF PrintCompleteInv
  <2>4. ASSUME NEW j \in DOMAIN all_file_paths
        PROVE  LET path == all_file_paths[j] IN
               /\ path.slash \/ FilesAt(path) # {}
               /\ \/ Front(path.names) = <<>>
                  \/ \E dir \in DirsIn(Before(j)) : dir.names = Front(path.names)
               /\ path \in Before(j) => path.slash /\ HasBlank(path)
    BY <2>1 DEF PrintOpenInv, PrintParentInv, PrintNewInv, OnlyBlanksRepeat, InSeq
  <2> QED
    BY <2>3, <2>4 DEF PrintsTree
<1> QED
  BY <1>1, PrintInvariant, PTL
=============================================================================
