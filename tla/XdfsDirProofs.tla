---------------------------- MODULE XdfsDirProofs ----------------------------
(***************************************************************************)
(* Proofs about XdfsDir, for every disc whose tables are trees.            *)
(***************************************************************************)
EXTENDS XdfsDir, XdfsDiscProofs

(* One element, or none, pushed for the members of A.                      *)
PushedFor(A, s) == \/ A = {} /\ s = <<>>
                   \/ \E a \in Offsets : A = {a} /\ s = <<a>>

(* The stack P with something pushed for A, then for B.                    *)
StackWith(P, A, B, s) ==
  /\ s \in Seq(Offsets)
  /\ Len(P) <= Len(s)
  /\ \A i \in 1 .. Len(P) : s[i] = P[i]
  /\ \A i \in 1 .. Len(s) : i > Len(P) => s[i] \in A \cup B
  /\ \A i, j \in 1 .. Len(s) : Len(P) < i /\ i < j => s[i] \in A /\ s[j] \in B
  /\ \A c \in A \cup B : \E i \in 1 .. Len(s) : i > Len(P) /\ s[i] = c

(* What is on the stack after the pushes of xdfs_dir.cc:22-29.             *)
LEMMA PushFacts ==
  ASSUME NEW P \in Seq(Offsets), NEW A, NEW B, NEW L, NEW R,
         PushedFor(A, L), PushedFor(B, R)
  PROVE  StackWith(P, A, B, P \o L \o R)
<1>1. CASE A = {} /\ L = <<>> /\ B = {} /\ R = <<>>
  <2>1. P \o L \o R = P
    BY <1>1
  <2>2. QED
    BY <1>1, <2>1 DEF StackWith
<1>2. ASSUME NEW a \in Offsets, A = {a}, L = <<a>>, B = {}, R = <<>>
      PROVE  StackWith(P, A, B, P \o L \o R)
  <2> DEFINE s == P \o L \o R
  <2>1. s \in Seq(Offsets) /\ Len(s) = Len(P) + 1 /\ s[Len(P) + 1] = a
    BY <1>2
  <2>2. \A i \in 1 .. Len(P) : s[i] = P[i]
    BY <1>2
  <2>3. QED
    BY <1>2, <2>1, <2>2 DEF StackWith
<1>3. ASSUME NEW b \in Offsets, A = {}, L = <<>>, B = {b}, R = <<b>>
      PROVE  StackWith(P, A, B, P \o L \o R)
  <2> DEFINE s == P \o L \o R
  <2>1. s \in Seq(Offsets) /\ Len(s) = Len(P) + 1 /\ s[Len(P) + 1] = b
    BY <1>3
  <2>2. \A i \in 1 .. Len(P) : s[i] = P[i]
    BY <1>3
  <2>3. QED
    BY <1>3, <2>1, <2>2 DEF StackWith
<1>4. ASSUME NEW a \in Offsets, NEW b \in Offsets,
             A = {a}, L = <<a>>, B = {b}, R = <<b>>
      PROVE  StackWith(P, A, B, P \o L \o R)
  <2> DEFINE s == P \o L \o R
  <2>1. /\ s \in Seq(Offsets) /\ Len(s) = Len(P) + 2
        /\ s[Len(P) + 1] = a /\ s[Len(P) + 2] = b
    BY <1>4
  <2>2. \A i \in 1 .. Len(P) : s[i] = P[i]
    BY <1>4
  <2>3. \A i \in 1 .. Len(s) : i > Len(P) => i \in {Len(P) + 1, Len(P) + 2}
    BY <2>1
  <2>4. Len(P) \in Nat
    OBVIOUS
  <2> HIDE DEF s
  <2>5. /\ \A i \in 1 .. Len(s) : i > Len(P) => s[i] \in A \cup B
        /\ \A i, j \in 1 .. Len(s) : Len(P) < i /\ i < j => s[i] \in A /\ s[j] \in B
    BY <1>4, <2>1, <2>3, <2>4
  <2>6. \A c \in A \cup B : \E i \in 1 .. Len(s) : i > Len(P) /\ s[i] = c
    BY <1>4, <2>1, <2>4
  <2>7. StackWith(P, A, B, s)
    BY <2>1, <2>2, <2>4, <2>5, <2>6 DEF StackWith
  <2>8. QED
    BY <2>7 DEF s
<1>5. QED
  BY <1>1, <1>2, <1>3, <1>4 DEF PushedFor

(* The entry that ScanEntry reads, and its table.                          *)
LEMMA BackFacts ==
  ASSUME IInv, NEW d \in Dirs, reader = d, offsets_to_scan # <<>>
  PROVE  /\ Base(d) \in DirBases
         /\ Len(offsets_to_scan) \in Nat \ {0}
         /\ Back(offsets_to_scan) \in Table(Base(d))
         /\ Back(offsets_to_scan) \in Offsets
         /\ PopBack(offsets_to_scan) \in Seq(Offsets)
         /\ Len(PopBack(offsets_to_scan)) = Len(offsets_to_scan) - 1
         /\ \A i \in 1 .. Len(offsets_to_scan) - 1 :
              PopBack(offsets_to_scan)[i] = offsets_to_scan[i]
<1>1. Base(d) \in DirBases /\ Base(d) \in Bases /\ reader # NoDir
  BY DirsAssumption, DirBasesFact DEF Base
<1>2. offsets_to_scan \in Seq(Offsets) /\ Len(offsets_to_scan) \in Nat \ {0}
  BY DEF IInv, TypeOK
<1>3. Back(offsets_to_scan) \in Offsets /\ Len(offsets_to_scan) \in Depth
  BY <1>2 DEF Back, Depth
<1>4. Back(offsets_to_scan) \in Waiting(Len(offsets_to_scan))
  BY <1>1, <1>3, SubtreeRoot DEF Waiting, Back
<1>5. Back(offsets_to_scan) \in Table(Base(d))
  BY <1>1, <1>3, <1>4 DEF IInv, CoverInv
<1>6. /\ PopBack(offsets_to_scan) \in Seq(Offsets)
      /\ Len(PopBack(offsets_to_scan)) = Len(offsets_to_scan) - 1
      /\ \A i \in 1 .. Len(offsets_to_scan) - 1 :
           PopBack(offsets_to_scan)[i] = offsets_to_scan[i]
  BY <1>2 DEF PopBack
<1>7. QED
  BY <1>1, <1>2, <1>3, <1>5, <1>6

(* What ReadEntriesImpl pushes are the children of the entry it read.      *)
LEMMA PushedChildren ==
  ASSUME NEW base \in DirBases, NEW o \in Table(base)
  PROVE  /\ PushedFor(LeftOf(base, o),
                      Pushed(base, ReadDirEntry(o).left_child_dwords))
         /\ PushedFor(RightOf(base, o),
                      Pushed(base, ReadDirEntry(o).right_child_dwords))
<1>1. o \in Offsets
  BY TableFacts
<1>2. /\ Disc[o].left_child_dwords \in Nat
      /\ Disc[o].right_child_dwords \in Nat
  BY <1>1, DiscAssumption
<1>3. \A c \in LeftOf(base, o) \cup RightOf(base, o) : c \in Offsets
  BY ChildrenFacts
<1>4. PushedFor(LeftOf(base, o), Pushed(base, Disc[o].left_child_dwords))
  <2>1. CASE Disc[o].left_child_dwords = 0
    BY <2>1 DEF LeftOf, Pushed, PushedFor
  <2>2. CASE Disc[o].left_child_dwords > 0
    <3>1. LeftOf(base, o) = {Child(base, Disc[o].left_child_dwords)}
      BY <2>2, <1>2 DEF LeftOf
    <3>2. QED
      BY <2>2, <1>3, <3>1 DEF Pushed, PushedFor
  <2>3. QED
    BY <1>2, <2>1, <2>2
<1>5. PushedFor(RightOf(base, o), Pushed(base, Disc[o].right_child_dwords))
  <2>1. CASE Disc[o].right_child_dwords = 0
    BY <2>1 DEF RightOf, Pushed, PushedFor
  <2>2. CASE Disc[o].right_child_dwords > 0
    <3>1. RightOf(base, o) = {Child(base, Disc[o].right_child_dwords)}
      BY <2>2, <1>2 DEF RightOf
    <3>2. QED
      BY <2>2, <1>3, <3>1 DEF Pushed, PushedFor
  <2>3. QED
    BY <1>2, <2>1, <2>2
<1>6. QED
  BY <1>4, <1>5 DEF ReadDirEntry

(* One round of the loop of ReadEntriesImpl keeps the scan's invariant: the *)
(* entry read is replaced by its two subtrees, and these are apart.         *)
LEMMA ScanEntryKeeps ==
  ASSUME IInv, NEW d \in Dirs, ScanEntry(d)
  PROVE  TypeOK' /\ CoverInv' /\ OnceInv' /\ ResultsInv'
<1> DEFINE base == Base(d)
           o == Back(offsets_to_scan)
           n == Len(offsets_to_scan)
           m == Len(scanned)
           P == PopBack(offsets_to_scan)
           A == LeftOf(base, o)
           B == RightOf(base, o)
           s == offsets_to_scan'
           St(x) == Subtree[base][x]
<1>1. /\ reader = d /\ reader # NoDir /\ offsets_to_scan # <<>>
      /\ s = P \o Pushed(base, ReadDirEntry(o).left_child_dwords)
               \o Pushed(base, ReadDirEntry(o).right_child_dwords)
      /\ results' = Append(results, XdfsDirEntry(o))
      /\ scanned' = Append(scanned, o)
      /\ UNCHANGED <<cacheVars, reader, aborted, answer>>
  BY DirsAssumption DEF ScanEntry, Running
<1>2. /\ base \in DirBases /\ base \in Bases /\ n \in Nat \ {0}
      /\ o \in Table(base) /\ o \in Offsets
      /\ P \in Seq(Offsets) /\ Len(P) = n - 1
      /\ \A i \in 1 .. n - 1 : P[i] = offsets_to_scan[i]
      /\ offsets_to_scan[n] = o
  BY <1>1, BackFacts, DirBasesFact DEF Back
<1>3. StackWith(P, A, B, s)
  BY <1>1, <1>2, PushedChildren, PushFacts
<1>4. /\ s \in Seq(Offsets)
      /\ scanned \in Seq(Offsets) /\ m \in Nat
      /\ scanned' \in Seq(Offsets) /\ Len(scanned') = m + 1
      /\ scanned'[m + 1] = o
      /\ \A i \in 1 .. m : scanned'[i] = scanned[i]
  BY <1>1, <1>2, <1>3 DEF IInv, TypeOK, StackWith
<1>5. /\ Steps = 1 .. m /\ Steps' = 1 .. m + 1
      /\ Depth = 1 .. n /\ Depth' = 1 .. Len(s)
      /\ Len(s) \in Nat /\ n - 1 <= Len(s)
  BY <1>2, <1>3, <1>4 DEF Steps, Depth, StackWith, IInv, TypeOK
<1>6. /\ St(o) = {o} \cup Below(base, A) \cup Below(base, B)
      /\ o \notin Below(base, A) \cup Below(base, B)
      /\ Below(base, A) \cap Below(base, B) = {}
  BY <1>2, SubtreeUnfold, TreeAssumption
<1>7. /\ \A i \in Depth : Waiting(i) = St(offsets_to_scan[i])
      /\ \A i \in Depth' : Waiting(i)' = St(s[i])
  BY <1>1 DEF Waiting, Subtree, Closed, LeftOf, RightOf, Child, Base
<1>8. \A i \in 1 .. n - 1 : i \in Depth /\ i \in Depth' /\ Waiting(i)' = Waiting(i)
  BY <1>2, <1>3, <1>5, <1>7 DEF StackWith
<1>9. Waiting(n) = St(o) /\ n \in Depth
  BY <1>2, <1>5, <1>7
<1>10. \A i \in Depth' : i > n - 1 =>
         Waiting(i)' \subseteq Below(base, A) \cup Below(base, B)
  BY <1>2, <1>3, <1>5, <1>7 DEF StackWith, Below
<1>11. \A i, j \in Depth' : n - 1 < i /\ i < j =>
         Waiting(i)' \subseteq Below(base, A) /\ Waiting(j)' \subseteq Below(base, B)
  <2>1. \A i, j \in Depth' : n - 1 < i /\ i < j => s[i] \in A /\ s[j] \in B
    BY <1>2, <1>3, <1>5 DEF StackWith
  <2>2. /\ \A c \in A : St(c) \subseteq Below(base, A)
        /\ \A c \in B : St(c) \subseteq Below(base, B)
    BY DEF Below
  <2> HIDE DEF A, B, s, St
  <2>3. QED
    BY <2>1, <2>2, <1>7
<1>12. \A x \in Below(base, A) \cup Below(base, B) :
         \E i \in Depth' : x \in Waiting(i)'
  <2> SUFFICES ASSUME NEW x \in Below(base, A) \cup Below(base, B)
               PROVE  \E i \in Depth' : x \in Waiting(i)'
    OBVIOUS
  <2>1. PICK c \in A \cup B : x \in St(c)
    BY DEF Below
  <2>2. PICK i \in 1 .. Len(s) : s[i] = c
    BY <1>3 DEF StackWith
  <2>3. QED
    BY <2>1, <2>2, <1>5, <1>7
<1> HIDE DEF St
<1>13. Table(base) = {scanned[i] : i \in Steps} \cup UNION {Waiting(i) : i \in Depth}
  BY <1>1 DEF IInv, CoverInv
<1>14. CoverInv'
  <2>1. {scanned'[i] : i \in Steps'} = {scanned[i] : i \in Steps} \cup {o}
    BY <1>4, <1>5
  <2>2. UNION {Waiting(i)' : i \in Depth'}
          = (UNION {Waiting(i) : i \in 1 .. n - 1})
              \cup Below(base, A) \cup Below(base, B)
    <3>1. \A i \in Depth' : i \in 1 .. n - 1 \/ i > n - 1
      BY <1>2, <1>5
    <3>2. QED
      BY <3>1, <1>8, <1>10, <1>12
  <2>3. UNION {Waiting(i) : i \in Depth}
          = (UNION {Waiting(i) : i \in 1 .. n - 1}) \cup St(o)
    <3>1. Depth = 1 .. n - 1 \cup {n}
      BY <1>2, <1>5
    <3>2. QED
      BY <3>1, <1>9
  <2>4. Table(base) = {scanned'[i] : i \in Steps'} \cup UNION {Waiting(i)' : i \in Depth'}
    BY <2>1, <2>2, <2>3, <1>6, <1>13
  <2>5. Table(Base(reader))' = Table(base)
    BY <1>1 DEF Base, Table
  <2>6. QED
    BY <2>4, <2>5 DEF CoverInv
<1>15. OnceInv'
  <2>1. /\ \A i, j \in Steps : i # j => scanned[i] # scanned[j]
        /\ \A i, j \in Depth : i # j => Waiting(i) \cap Waiting(j) = {}
        /\ \A i \in Steps, j \in Depth : scanned[i] \notin Waiting(j)
    BY <1>1 DEF IInv, OnceInv
  <2>2. o \in Waiting(n)
    BY <1>6, <1>9
  <2>3. ASSUME NEW i \in Steps', NEW j \in Steps', i # j
        PROVE  scanned'[i] # scanned'[j]
    <3>1. \A k \in 1 .. m : scanned[k] # o
      BY <2>1, <2>2, <1>5, <1>9
    <3>2. QED
      BY <2>1, <2>3, <3>1, <1>4, <1>5
  <2>4. \A i \in Depth' : i > n - 1 => Waiting(i)' \subseteq Waiting(n) \ {o}
    BY <1>6, <1>9, <1>10
  <2>5. \A i, j \in Depth' : i < j => Waiting(i)' \cap Waiting(j)' = {}
    <3> SUFFICES ASSUME NEW i \in Depth', NEW j \in Depth', i < j
                 PROVE  Waiting(i)' \cap Waiting(j)' = {}
      OBVIOUS
    <3>1. CASE j \in 1 .. n - 1
      <4>1. i \in 1 .. n - 1
        BY <3>1, <1>2, <1>5
      <4>2. QED
        BY <3>1, <4>1, <1>8, <2>1
    <3>2. CASE i \in 1 .. n - 1 /\ j > n - 1
      <4>1. i # n /\ Waiting(i) \cap Waiting(n) = {}
        BY <3>2, <1>2, <1>8, <1>9, <2>1
      <4>2. QED
        BY <3>2, <4>1, <1>8, <2>4
    <3>3. CASE i > n - 1
      BY <3>3, <1>6, <1>11
    <3>4. QED
      BY <3>1, <3>2, <3>3, <1>2, <1>5
  <2>6. ASSUME NEW i \in Steps', NEW j \in Depth'
        PROVE  scanned'[i] \notin Waiting(j)'
    <3>1. CASE j > n - 1
      <4>1. \A k \in 1 .. m : scanned[k] \notin Waiting(n)
        BY <2>1, <1>5, <1>9
      <4>2. QED
        BY <3>1, <4>1, <2>4, <1>4, <1>5
    <3>2. CASE j \in 1 .. n - 1
      <4>1. \A k \in 1 .. m : scanned[k] \notin Waiting(j)
        BY <3>2, <2>1, <1>5, <1>8
      <4>2. o \notin Waiting(j)
        BY <3>2, <1>2, <1>8, <1>9, <2>1, <2>2
      <4>3. QED
        BY <3>2, <4>1, <4>2, <1>4, <1>5, <1>8
    <3>3. QED
      BY <3>1, <3>2, <1>2, <1>5
  <2>7. \A i, j \in Depth' : i # j => Waiting(i)' \cap Waiting(j)' = {}
    BY <2>5, <1>5
  <2>8. QED
    BY <2>3, <2>6, <2>7 DEF OnceInv
<1>16. /\ results' \in Seq(ListedEntries)
       /\ Len(results') = m + 1
       /\ \A i \in 1 .. m + 1 : results'[i] = XdfsDirEntry(scanned'[i])
  <2>1. /\ results \in Seq(ListedEntries)
        /\ Len(results) = m
        /\ \A i \in 1 .. m : results[i] = XdfsDirEntry(scanned[i])
    BY <1>5 DEF IInv, TypeOK, ResultsInv
  <2>2. XdfsDirEntry(o) \in ListedEntries
    BY <1>2 DEF ListedEntries
  <2> HIDE DEF o
  <2>3. QED
    BY <2>1, <2>2, <1>1, <1>4
<1>17. ResultsInv'
  BY <1>4, <1>5, <1>16 DEF ResultsInv, XdfsDirEntry, ReadDirEntry
<1>18. TypeOK'
  BY <1>1, <1>4, <1>16 DEF IInv, TypeOK, cacheVars
<1>19. QED
  BY <1>14, <1>15, <1>17, <1>18

(* A listed entry has the name that is on the disc.                        *)
LEMMA ListedName ==
  ASSUME NEW o
  PROVE  XdfsDirEntry(o).file_name = Disc[o].name
BY DEF XdfsDirEntry, ReadDirEntry

(* When the stack is empty, results is the listing of the directory.       *)
LEMMA EndIsListing ==
  ASSUME IInv, NEW d \in Dirs, reader = d, offsets_to_scan = <<>>
  PROVE  Listing!IsListing(results, DirContent[d])
<1>1. Base(d) \in DirBases /\ reader # NoDir
  BY DirsAssumption DEF Base
<1>2. Depth = {}
  BY DEF Depth
<1>3. Table(Base(d)) = {scanned[i] : i \in Steps}
  BY <1>1, <1>2 DEF IInv, CoverInv
<1>4. /\ Len(results) = Len(scanned) /\ Steps = 1 .. Len(results)
      /\ \A i \in Steps : results[i] = XdfsDirEntry(scanned[i])
  BY DEF IInv, ResultsInv, TypeOK, Steps
<1>5. DirContent[d] = {XdfsDirEntry(o) : o \in Table(Base(d))}
  BY DEF DirContent
<1>6. {results[i] : i \in 1 .. Len(results)} = DirContent[d]
  BY <1>3, <1>4, <1>5
<1>7. ASSUME NEW i \in Steps, NEW j \in Steps, i # j
      PROVE  results[i] # results[j]
  <2>1. /\ scanned[i] # scanned[j]
        /\ scanned[i] \in Table(Base(d)) /\ scanned[j] \in Table(Base(d))
    BY <1>1, <1>3, <1>7 DEF IInv, OnceInv
  <2>2. Disc[scanned[i]].name # Disc[scanned[j]].name
    BY <1>1, <2>1, NamesAssumption
  <2>3. XdfsDirEntry(scanned[i]) # XdfsDirEntry(scanned[j])
    BY <2>2, ListedName
  <2>4. QED
    BY <1>4, <2>3
<1>8. QED
  BY <1>4, <1>6, <1>7 DEF Listing!IsListing

(* Steps that leave the cache and the answers alone.                       *)
LEMMA CacheKeeps ==
  ASSUME IInv, UNCHANGED <<cacheVars, answer>>
  PROVE  CacheInv'
BY DEF IInv, CacheInv, cacheVars, DirContent, Listing!IsListing, XdfsDirEntry,
       ReadDirEntry, Base

(* Every step of the program keeps the invariant.                          *)
LEMMA IInvStep == IInv /\ [Next]_vars => IInv'
<1> SUFFICES ASSUME IInv, [Next]_vars PROVE IInv'
  OBVIOUS
<1>1. ASSUME NEW d \in Dirs, ReadEntries(d)
      PROVE  IInv'
  <2>1. /\ reader' = d /\ reader' # NoDir /\ ~ entries_read_[d]
        /\ Base(d) \in DirBases /\ Base(d) \in Offsets /\ Base(d) \in Bases
        /\ offsets_to_scan' = <<Base(d)>>
        /\ results' = <<>> /\ scanned' = <<>>
        /\ UNCHANGED <<cacheVars, aborted, answer>>
    BY <1>1, DirsAssumption, TableAssumption, DirBasesFact DEF ReadEntries, Base
  <2>2. TypeOK'
    BY <2>1 DEF IInv, TypeOK, cacheVars
  <2>3. Steps' = {} /\ Depth' = {1} /\ Waiting(1)' = Table(Base(d))
    BY <2>1 DEF Steps, Depth, Waiting, Table, Base
  <2>4. CoverInv'
    BY <2>1, <2>3 DEF CoverInv, Table, Base
  <2>5. OnceInv'
    BY <2>3 DEF OnceInv
  <2>6. ResultsInv'
    BY <2>1, <2>3 DEF ResultsInv
  <2>7. CacheInv' /\ ReaderInv'
    BY <2>1, CacheKeeps DEF ReaderInv, cacheVars
  <2>8. QED
    BY <2>2, <2>4, <2>5, <2>6, <2>7 DEF IInv
<1>2. ASSUME NEW d \in Dirs, ScanEntry(d)
      PROVE  IInv'
  <2>1. CacheInv' /\ ReaderInv'
    BY <1>2, CacheKeeps, DirsAssumption
       DEF ScanEntry, Running, cacheVars, IInv, ReaderInv
  <2>2. QED
    BY <1>2, <2>1, ScanEntryKeeps DEF IInv
<1>3. ASSUME NEW d \in Dirs, ScanAborts(d)
      PROVE  IInv'
  <2>1. UNCHANGED <<cacheVars, scanVars, answer>> /\ aborted' \in BOOLEAN
    BY <1>3 DEF ScanAborts
  <2>2. TypeOK' /\ CacheInv' /\ ReaderInv'
    BY <2>1, CacheKeeps DEF IInv, TypeOK, ReaderInv, cacheVars, scanVars
  <2>3. CoverInv' /\ OnceInv' /\ ResultsInv'
    BY <2>1 DEF IInv, scanVars, CoverInv, OnceInv, ResultsInv, Waiting, Depth,
       Steps, Table, Base, XdfsDirEntry, ReadDirEntry
  <2>4. QED
    BY <2>2, <2>3 DEF IInv
<1>4. ASSUME NEW d \in Dirs, ScanEnds(d)
      PROVE  IInv'
  <2>1. /\ reader = d /\ reader' = NoDir /\ offsets_to_scan = <<>>
        /\ offsets_to_scan' = <<>> /\ results' = <<>> /\ scanned' = <<>>
        /\ cached_entries_' = [cached_entries_ EXCEPT ![d] = results]
        /\ entries_read_' = [entries_read_ EXCEPT ![d] = TRUE]
        /\ answer' = [answer EXCEPT ![d] = results]
        /\ aborted' = aborted
    BY <1>4 DEF ScanEnds, Running
  <2>2. TypeOK'
    BY <2>1 DEF IInv, TypeOK
  <2>3. CoverInv' /\ OnceInv' /\ ResultsInv' /\ ReaderInv'
    BY <2>1 DEF CoverInv, OnceInv, ResultsInv, ReaderInv, Steps
  <2>4. CacheInv'
    <3>1. Listing!IsListing(results, DirContent[d])
      BY <2>1, EndIsListing
    <3>2. \A e \in Dirs :
            IF entries_read_'[e]
            THEN /\ Listing!IsListing(cached_entries_'[e], DirContent[e])
                 /\ answer'[e] = cached_entries_'[e]
            ELSE answer'[e] = <<>>
      BY <2>1, <3>1 DEF IInv, TypeOK, CacheInv
    <3>3. QED
      BY <3>2 DEF CacheInv, DirContent, Listing!IsListing, XdfsDirEntry,
                  ReadDirEntry, Base
  <2>5. QED
    BY <2>2, <2>3, <2>4 DEF IInv
<1>5. ASSUME NEW d \in Dirs, ReadEntriesCached(d)
      PROVE  IInv'
  <2>1. /\ answer'= answer
        /\ UNCHANGED <<cacheVars, scanVars, aborted>>
    BY <1>5 DEF ReadEntriesCached, IInv, TypeOK, CacheInv
  <2>2. TypeOK' /\ CacheInv' /\ ReaderInv'
    BY <2>1, CacheKeeps DEF IInv, TypeOK, ReaderInv, cacheVars, scanVars
  <2>3. CoverInv' /\ OnceInv' /\ ResultsInv'
    BY <2>1 DEF IInv, scanVars, CoverInv, OnceInv, ResultsInv, Waiting, Depth,
       Steps, Table, Base, XdfsDirEntry, ReadDirEntry
  <2>4. QED
    BY <2>2, <2>3 DEF IInv
<1>6. CASE UNCHANGED vars
  <2>1. UNCHANGED <<cacheVars, scanVars, answer, aborted>>
    BY <1>6 DEF vars
  <2>2. TypeOK' /\ CacheInv' /\ ReaderInv'
    BY <2>1, CacheKeeps DEF IInv, TypeOK, ReaderInv, cacheVars, scanVars
  <2>3. CoverInv' /\ OnceInv' /\ ResultsInv'
    BY <2>1 DEF IInv, scanVars, CoverInv, OnceInv, ResultsInv, Waiting, Depth,
       Steps, Table, Base, XdfsDirEntry, ReadDirEntry
  <2>4. QED
    BY <2>2, <2>3 DEF IInv
<1>7. QED
  BY <1>1, <1>2, <1>3, <1>4, <1>5, <1>6 DEF Next, ScanStep

(* No object has been asked for its entries yet.                           *)
LEMMA IInvInit == Init => IInv
<1> SUFFICES ASSUME Init PROVE IInv
  OBVIOUS
<1>1. TypeOK
  <2>1. <<>> \in Seq(ListedEntries) /\ <<>> \in Seq(Offsets)
    OBVIOUS
  <2>2. /\ entries_read_ \in [Dirs -> BOOLEAN]
        /\ cached_entries_ \in [Dirs -> Seq(ListedEntries)]
        /\ answer \in [Dirs -> Seq(ListedEntries)]
    BY <2>1 DEF Init
  <2>3. QED
    BY <2>1, <2>2 DEF Init, TypeOK
<1>2. CoverInv /\ OnceInv /\ ResultsInv /\ CacheInv /\ ReaderInv
  BY DEF Init, CoverInv, OnceInv, ResultsInv, CacheInv, ReaderInv, Steps
<1>3. QED
  BY <1>1, <1>2 DEF IInv

(* IInv is an invariant: what was read and what waits on the stack are the *)
(* entries of the table, each once.                                        *)
THEOREM InductiveInvariant == Spec => []IInv
BY IInvInit, IInvStep, PTL DEF Spec

(* The scan and the cache keep their types: in particular the scan reads   *)
(* entries only where the disc has some.                                   *)
THEOREM TypeCorrect == Spec => []TypeOK
<1>1. IInv => TypeOK
  BY DEF IInv
<1>2. QED
  BY <1>1, InductiveInvariant, PTL

(* Only the end of a scan gives a new answer, and it is the listing; the   *)
(* cache repeats it.                                                       *)
LEMMA ListingStep == IInv /\ [Next]_vars => [Listing!Next]_answer
<1> SUFFICES ASSUME IInv, [Next]_vars PROVE [Listing!Next]_answer
  OBVIOUS
<1>1. ASSUME NEW d \in Dirs, ScanEnds(d)
      PROVE  Listing!Next
  <2>1. /\ reader = d /\ reader # NoDir /\ offsets_to_scan = <<>>
        /\ answer' = [answer EXCEPT ![d] = results]
    BY <1>1, DirsAssumption DEF ScanEnds, Running
  <2>2. Listing!IsListing(results, DirContent[d])
    BY <2>1, EndIsListing
  <2>3. answer[d] = <<>> /\ answer'[d] = results
    BY <2>1 DEF IInv, ReaderInv, CacheInv, TypeOK
  <2>4. Listing!Give(d)
    BY <2>1, <2>2, <2>3 DEF Listing!Give
  <2>5. QED
    BY <2>4 DEF Listing!Next
<1>2. ASSUME NEW d \in Dirs, ReadEntriesCached(d)
      PROVE  answer' = answer
  BY <1>2 DEF ReadEntriesCached, IInv, TypeOK, CacheInv
<1>3. CASE UNCHANGED vars
  BY <1>3 DEF vars
<1>4. QED
  BY <1>1, <1>2, <1>3 DEF Next, ScanStep, ReadEntries, ScanEntry, ScanAborts

(* ReadEntries lists every entry of the directory once and keeps to its    *)
(* answer: XdfsDir implements DirListing.                                  *)
THEOREM ImplementsListing == Spec => IsListing
<1>1. Init => Listing!Init
  BY DEF Init, Listing!Init
<1>2. QED
  BY <1>1, InductiveInvariant, ListingStep, PTL DEF Spec, IsListing, Listing!Spec

-----------------------------------------------------------------------------
(* How a scan comes to an end.                                             *)

(* The entry read was not read before.                                     *)
LEMMA BackIsUnread ==
  ASSUME IInv, NEW d \in Dirs, reader = d, offsets_to_scan # <<>>
  PROVE  Back(offsets_to_scan) \in Unread
<1> DEFINE n == Len(offsets_to_scan)
<1>1. /\ Back(offsets_to_scan) \in Table(Base(d))
      /\ Back(offsets_to_scan) \in Offsets
      /\ Base(d) \in Bases /\ n \in Nat \ {0} /\ reader # NoDir
  BY BackFacts, DirBasesFact, DirsAssumption
<1>2. Back(offsets_to_scan) \in Waiting(n) /\ n \in Depth
  BY <1>1, SubtreeRoot DEF Waiting, Back, Depth, IInv, TypeOK
<1>3. \A i \in Steps : scanned[i] # Back(offsets_to_scan)
  BY <1>1, <1>2 DEF IInv, OnceInv
<1> QED
  BY <1>1, <1>3 DEF Unread

(* A round of the loop takes that entry off what is unread.                *)
LEMMA ScanReadsOne ==
  ASSUME IInv, NEW d \in Dirs, ScanEntry(d)
  PROVE  Unread' = Unread \ {Back(offsets_to_scan)}
<1> DEFINE o == Back(offsets_to_scan)
           m == Len(scanned)
<1>1. /\ reader = d /\ reader' = d /\ offsets_to_scan # <<>>
      /\ scanned' = Append(scanned, o)
  BY DEF ScanEntry, Running
<1>2. scanned \in Seq(Offsets) /\ o \in Offsets /\ m \in Nat
  BY <1>1, BackFacts DEF IInv, TypeOK
<1> HIDE DEF o
<1>3. /\ Steps = 1 .. m /\ Steps' = 1 .. m + 1
      /\ scanned'[m + 1] = o
      /\ \A i \in 1 .. m : scanned'[i] = scanned[i]
  BY <1>1, <1>2 DEF Steps
<1>4. {scanned'[i] : i \in Steps'} = {scanned[i] : i \in Steps} \cup {o}
  BY <1>2, <1>3
<1>5. Table(Base(reader))' = Table(Base(reader))
  BY <1>1 DEF Base, Table
<1> QED
  BY <1>4, <1>5 DEF Unread, o

(* Nothing but a round of the loop goes on with a scan.                    *)
LEMMA ShrinksStep ==
  IInv /\ [Next]_vars =>
    [ScanGoesOn => Unread' \subseteq Unread /\ Unread' # Unread]_vars
<1> SUFFICES ASSUME IInv, Next, ScanGoesOn
             PROVE  Unread' \subseteq Unread /\ Unread' # Unread
  OBVIOUS
<1>1. PICK d \in Dirs : ReadEntries(d) \/ ScanStep(d) \/ ReadEntriesCached(d)
  BY DEF Next
<1>2. ScanEntry(d)
  BY <1>1, DirsAssumption
     DEF ScanGoesOn, ScanStep, ReadEntries, ScanAborts, ScanEnds,
         ReadEntriesCached, Ready
<1>3. Unread' = Unread \ {Back(offsets_to_scan)}
  BY <1>2, ScanReadsOne
<1>4. Back(offsets_to_scan) \in Unread
  BY <1>2, BackIsUnread DEF ScanEntry, Running
<1> QED
  BY <1>3, <1>4

(* Each round of ReadEntriesImpl reads an entry that was unread: on any    *)
(* disc whose tables are finite trees, a scan ends by itself.              *)
THEOREM ScanComesToEnd == Spec => ScanShrinks
BY InductiveInvariant, ShrinksStep, PTL DEF Spec, ScanShrinks
=============================================================================
