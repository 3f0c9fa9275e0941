--------------------------- MODULE XdfsDiscProofs ---------------------------
(***************************************************************************)
(* Facts about the tables of any disc and where names lead on it, for the  *)
(* walks of XdfsDir and Xdfs and for the programs that search a disc.      *)
(***************************************************************************)
EXTENDS XdfsDisc, WellFoundedInduction, TLAPS

(* A directory's table begins at one of the offsets where a table may.     *)
LEMMA DirBasesFact == DirBases \subseteq Bases
BY DEF DirBases, Bases

(* A subtree is inside every closed set that holds its root.               *)
LEMMA SubtreeLeast ==
  ASSUME NEW base \in Bases, NEW o \in Offsets,
         NEW S \in SUBSET Offsets, o \in S, Closed(base, S)
  PROVE  Subtree[base][o] \subseteq S
BY DEF Subtree

(* The entry itself is in its subtree.                                     *)
LEMMA SubtreeRoot ==
  ASSUME NEW base \in Bases, NEW o \in Offsets
  PROVE  o \in Subtree[base][o]
BY DEF Subtree

(* The table of a directory is made of entries, and is closed.             *)
LEMMA TableFacts ==
  ASSUME NEW base \in DirBases
  PROVE  /\ base \in Offsets /\ base \in Table(base)
         /\ Table(base) \in SUBSET Offsets
         /\ Closed(base, Table(base))
<1>1. base \in Offsets /\ Closed(base, Table(base)) /\ base \in Bases
  BY TableAssumption, DirBasesFact
<1>2. base \in Table(base)
  BY <1>1, SubtreeRoot DEF Table
<1>3. Table(base) \subseteq Offsets
  BY <1>1 DEF Table, Subtree
<1>4. QED
  BY <1>1, <1>2, <1>3

(* The children of an entry of a table are entries of that table.          *)
LEMMA ChildrenFacts ==
  ASSUME NEW base \in DirBases, NEW o \in Table(base),
         NEW c \in LeftOf(base, o) \cup RightOf(base, o)
  PROVE  /\ c \in Table(base)
         /\ c \in Offsets
BY TableFacts DEF Closed

(* The subtree of an entry of a table stays in the table, and is closed.   *)
LEMMA SubtreeClosed ==
  ASSUME NEW base \in DirBases, NEW o \in Table(base)
  PROVE  /\ Subtree[base][o] \subseteq Table(base)
         /\ Closed(base, Subtree[base][o])
<1>0. base \in Bases /\ o \in Offsets
  BY DirBasesFact, TableFacts
<1>1. Subtree[base][o] \subseteq Table(base)
  BY <1>0, TableFacts, SubtreeLeast
<1>2. ASSUME NEW x \in Subtree[base][o],
             NEW c \in LeftOf(base, x) \cup RightOf(base, x)
      PROVE  c \in Subtree[base][o]
  <2>1. c \in Offsets
    BY <1>1, <1>2, ChildrenFacts
  <2>2. ASSUME NEW S \in SUBSET Offsets, o \in S, Closed(base, S)
        PROVE  c \in S
    BY <1>0, <1>2, <2>2, SubtreeLeast DEF Closed
  <2>3. QED
    BY <1>0, <2>1, <2>2 DEF Subtree
<1>3. QED
  BY <1>1, <1>2 DEF Closed

(* A subtree is its root and what is below its two children: the step of   *)
(* both walks.                                                             *)
LEMMA SubtreeUnfold ==
  ASSUME NEW base \in DirBases, NEW o \in Table(base)
  PROVE  Subtree[base][o] =
           {o} \cup Below(base, LeftOf(base, o)) \cup Below(base, RightOf(base, o))
<1> DEFINE children == LeftOf(base, o) \cup RightOf(base, o)
           T == {o} \cup Below(base, LeftOf(base, o)) \cup Below(base, RightOf(base, o))
<1>0. base \in Bases /\ o \in Offsets
  BY DirBasesFact, TableFacts
<1>1. \A c \in children : c \in Table(base) /\ c \in Offsets
  BY ChildrenFacts
<1>2. T = {o} \cup UNION {Subtree[base][c] : c \in children}
  BY DEF Below
<1>3. \A c \in children : Subtree[base][c] \subseteq Subtree[base][o]
  <2> SUFFICES ASSUME NEW c \in children
               PROVE  Subtree[base][c] \subseteq Subtree[base][o]
    OBVIOUS
  <2>1. o \in Subtree[base][o]
    BY <1>0, SubtreeRoot
  <2>2. Closed(base, Subtree[base][o]) /\ Subtree[base][o] \in SUBSET Offsets
    BY SubtreeClosed, TableFacts
  <2>3. c \in Subtree[base][o]
    BY <2>1, <2>2 DEF Closed
  <2>4. QED
    BY <1>0, <1>1, <2>2, <2>3, SubtreeLeast
<1>4. T \subseteq Subtree[base][o]
  BY <1>0, <1>2, <1>3, SubtreeRoot
<1>5. T \in SUBSET Offsets
  BY <1>0, <1>1, <1>2, SubtreeClosed, TableFacts
<1>6. Closed(base, T)
  <2> SUFFICES ASSUME NEW x \in T, NEW c \in LeftOf(base, x) \cup RightOf(base, x)
               PROVE  c \in T
    BY DEF Closed
  <2>1. CASE x = o
    BY <2>1, <1>0, <1>1, <1>2, SubtreeRoot
  <2>2. CASE x # o
    <3>1. PICK k \in children : x \in Subtree[base][k]
      BY <2>2, <1>2
    <3>2. c \in Subtree[base][k]
      BY <1>1, <3>1, SubtreeClosed DEF Closed
    <3>3. QED
      BY <1>2, <3>2
  <2>3. QED
    BY <2>1, <2>2
<1>7. Subtree[base][o] \subseteq T
  BY <1>0, <1>5, <1>6, SubtreeLeast
<1>8. QED
  BY <1>4, <1>7
-----------------------------------------------------------------------------
(* Where names lead.                                                       *)

(* The beginning of a sequence.                                            *)
LEMMA PrefixFacts ==
  ASSUME NEW S, NEW s \in Seq(S), NEW n \in Nat, n <= Len(s)
  PROVE  /\ SubSeq(s, 1, n) \in Seq(S)
         /\ Len(SubSeq(s, 1, n)) = n
         /\ \A i \in 1 .. n : SubSeq(s, 1, n)[i] = s[i]
<1>1. SubSeq(s, 1, n) \in Seq(S)
  OBVIOUS
<1>2. Len(SubSeq(s, 1, n)) = n
  OBVIOUS
<1>3. ASSUME NEW i \in 1 .. n PROVE SubSeq(s, 1, n)[i] = s[i]
  OBVIOUS
<1> QED
  BY <1>1, <1>2, <1>3

(* One sequence behind another.                                            *)
LEMMA ConcatFacts ==
  ASSUME NEW S, NEW s \in Seq(S), NEW t \in Seq(S)
  PROVE  /\ s \o t \in Seq(S) /\ Len(s \o t) = Len(s) + Len(t)
         /\ \A i \in 1 .. Len(s) : (s \o t)[i] = s[i]
         /\ \A i \in 1 .. Len(t) : (s \o t)[Len(s) + i] = t[i]
<1>1. s \o t \in Seq(S) /\ Len(s \o t) = Len(s) + Len(t)
  OBVIOUS
<1>2. \A i \in 1 .. Len(s) : (s \o t)[i] = s[i]
  OBVIOUS
<1>3. \A i \in 1 .. Len(t) : (s \o t)[Len(s) + i] = t[i]
  OBVIOUS
<1> QED
  BY <1>1, <1>2, <1>3

(* Sequences of one length with the same elements are the same.            *)
LEMMA SameElements ==
  ASSUME NEW S, NEW s \in Seq(S), NEW t \in Seq(S), Len(s) = Len(t),
         \A i \in 1 .. Len(t) : s[i] = t[i]
  PROVE  s = t
OBVIOUS

(* What two sequences one behind the other make up.                        *)
LEMMA JoinedIs ==
  ASSUME NEW S, NEW s \in Seq(S), NEW t \in Seq(S), NEW both \in Seq(S),
         Len(both) = Len(s) + Len(t),
         \A i \in 1 .. Len(s) : both[i] = s[i],
         \A i \in 1 .. Len(t) : both[Len(s) + i] = t[i]
  PROVE  s \o t = both
<1> DEFINE c == s \o t
<1>1. c \in Seq(S) /\ Len(c) = Len(both)
  BY ConcatFacts
<1>2. ASSUME NEW i \in 1 .. Len(both) PROVE c[i] = both[i]
  <2>1. CASE i <= Len(s)
    BY <2>1, ConcatFacts
  <2>2. CASE ~ i <= Len(s)
    <3>1. i - Len(s) \in 1 .. Len(t) /\ i = Len(s) + (i - Len(s))
      BY <2>2
    <3>2. (s \o t)[Len(s) + (i - Len(s))] = t[i - Len(s)]
      BY <3>1, ConcatFacts
    <3> QED
      BY <3>1, <3>2
  <2> QED
    BY <2>1, <2>2
<1> HIDE DEF c
<1>3. c = both
  BY <1>1, <1>2, SameElements
<1> QED
  BY <1>3 DEF c

(* A chain has an entry for each name.                                     *)
LEMMA ChainType ==
  ASSUME NEW root, NEW names \in Seq(Name), NEW c \in Chains(root, names)
  PROVE  c \in Seq(Offsets) /\ Len(c) = Len(names)
BY DEF Chains

(* No name leads to the root's table.                                      *)
LEMMA RootNamed ==
  ASSUME NEW root
  PROVE  Chains(root, <<>>) = {<<>>} /\ DirsNamed(root, <<>>) = {SectorToOffset(root)}
<1>1. Chains(root, <<>>) = {<<>>}
  <2>1. Len(<<>>) = 0
    OBVIOUS
  <2>2. \A c \in [1 .. 0 -> Offsets] : c = <<>>
    <3>1. \A c \in [1 .. 0 -> Offsets] : c \in Seq(Offsets) /\ Len(c) = 0
      OBVIOUS
    <3> QED
      BY <3>1
  <2>3. <<>> \in [1 .. 0 -> Offsets]
    <3>1. <<>> \in Seq(Offsets) /\ Len(<<>>) = 0
      OBVIOUS
    <3> QED
      BY <3>1
  <2>4. \A k : k \notin 1 .. 0
    OBVIOUS
  <2> QED
    BY <2>1, <2>2, <2>3, <2>4, Zenon DEF Chains
<1> QED
  BY <1>1 DEF DirsNamed, EndOf

(* What names lead to is a directory of the disc.                          *)
LEMMA NamedDirectory ==
  ASSUME NEW root \in RootSectors, NEW names \in Seq(Name),
         NEW base \in DirsNamed(root, names)
  PROVE  base \in DirBases
<1>1. PICK c \in Chains(root, names) :
        base = EndOf(root, c) /\ (c # <<>> => IsDir(Disc[c[Len(c)]].attributes))
  BY DEF DirsNamed
<1>2. CASE c = <<>>
  BY <1>1, <1>2 DEF EndOf, DirBases
<1>3. CASE c # <<>>
  <2>1. c \in Seq(Offsets)
    BY ChainType
  <2>2. c[Len(c)] \in Offsets
    BY <1>3, <2>1
  <2> QED
    BY <1>1, <1>3, <2>2 DEF EndOf, DirBases
<1> QED
  BY <1>2, <1>3

(* What names lead to as a file is the entry of one.                       *)
LEMMA NamedFile ==
  ASSUME NEW root, NEW names \in Seq(Name), NEW o \in FilesNamed(root, names)
  PROVE  o \in Offsets /\ ~ IsDir(Disc[o].attributes)
<1>1. PICK c \in Chains(root, names) :
        c # <<>> /\ ~ IsDir(Disc[c[Len(c)]].attributes) /\ o = c[Len(c)]
  BY DEF FilesNamed
<1>2. c \in Seq(Offsets)
  BY ChainType
<1> QED
  BY <1>1, <1>2

(* A chain to a directory goes on to each entry of its table.              *)
LEMMA ChainGrows ==
  ASSUME NEW root, NEW names \in Seq(Name), NEW c \in Chains(root, names),
         c # <<>> => IsDir(Disc[c[Len(c)]].attributes),
         NEW o \in Offsets, o \in Table(EndOf(root, c))
  PROVE  Append(c, o) \in Chains(root, Append(names, Disc[o].name))
<1> DEFINE name == Disc[o].name
           n == Len(names)
           d == Append(c, o)
           longer == Append(names, name)
<1>1. name \in Name /\ c \in Seq(Offsets) /\ Len(c) = n /\ n \in Nat
  BY DiscAssumption, ChainType
<1>2. /\ longer \in Seq(Name) /\ Len(longer) = n + 1
      /\ \A k \in 1 .. n : longer[k] = names[k]
      /\ longer[n + 1] = name
  BY <1>1
<1>3. /\ d \in Seq(Offsets) /\ Len(d) = n + 1
      /\ \A k \in 1 .. n : d[k] = c[k]
      /\ d[n + 1] = o
  <2>1. /\ Append(c, o) \in Seq(Offsets) /\ Len(Append(c, o)) = Len(c) + 1
        /\ \A k \in 1 .. Len(c) : Append(c, o)[k] = c[k]
        /\ Append(c, o)[Len(c) + 1] = o
    BY <1>1
  <2> HIDE DEF n
  <2> QED
    BY <1>1, <2>1
<1>4. \A k \in 1 .. n + 1 : SubSeq(d, 1, k - 1) = SubSeq(c, 1, k - 1)
  <2> SUFFICES ASSUME NEW k \in 1 .. n + 1
               PROVE  SubSeq(d, 1, k - 1) = SubSeq(c, 1, k - 1)
    OBVIOUS
  <2>1. k - 1 \in Nat /\ k - 1 <= Len(c) /\ k - 1 <= Len(d)
    BY <1>1, <1>3
  <2>2. /\ SubSeq(d, 1, k - 1) \in Seq(Offsets) /\ Len(SubSeq(d, 1, k - 1)) = k - 1
        /\ \A i \in 1 .. k - 1 : SubSeq(d, 1, k - 1)[i] = d[i]
    BY <1>3, <2>1, PrefixFacts
  <2>3. /\ SubSeq(c, 1, k - 1) \in Seq(Offsets) /\ Len(SubSeq(c, 1, k - 1)) = k - 1
        /\ \A i \in 1 .. k - 1 : SubSeq(c, 1, k - 1)[i] = c[i]
    BY <1>1, <2>1, PrefixFacts
  <2> HIDE DEF d
  <2> QED
    BY <1>1, <1>3, <2>1, <2>2, <2>3
<1>5. SubSeq(c, 1, n) = c
  BY <1>1, PrefixFacts
<1> HIDE DEF d, longer, n, name
<1>6. d \in [1 .. Len(longer) -> Offsets]
  BY <1>2, <1>3
<1>7. ASSUME NEW k \in 1 .. Len(longer)
      PROVE  /\ Disc[d[k]].name = longer[k]
             /\ k > 1 => IsDir(Disc[d[k - 1]].attributes)
             /\ d[k] \in Table(EndOf(root, SubSeq(d, 1, k - 1)))
  <2>1. CASE k \in 1 .. n
    <3>1. /\ Disc[c[k]].name = names[k]
          /\ k > 1 => IsDir(Disc[c[k - 1]].attributes)
          /\ c[k] \in Table(EndOf(root, SubSeq(c, 1, k - 1)))
      BY <2>1 DEF Chains, n
    <3>2. k > 1 => k - 1 \in 1 .. n
      BY <1>1, <2>1
    <3> QED
      BY <1>1, <1>2, <1>3, <1>4, <2>1, <3>1, <3>2
  <2>2. CASE k = n + 1
    <3>1. SubSeq(d, 1, k - 1) = c
      BY <1>1, <1>4, <1>5, <2>2
    <3>2. k > 1 => k - 1 = n /\ n \in 1 .. n /\ c # <<>>
      BY <1>1, <2>2
    <3> QED
      BY <1>1, <1>2, <1>3, <2>2, <3>1, <3>2 DEF name
  <2> QED
    BY <1>1, <1>2, <1>7, <2>1, <2>2
<1>8. d \in Chains(root, longer)
  BY <1>6, <1>7 DEF Chains
<1> QED
  BY <1>8 DEF d, longer, name

(* So an entry of a directory that names lead to is named by these and its *)
(* own name.                                                               *)
LEMMA NamedEntry ==
  ASSUME NEW root, NEW names \in Seq(Name), NEW base \in DirsNamed(root, names),
         NEW o \in Offsets, o \in Table(base)
  PROVE  /\ IsDir(Disc[o].attributes) =>
              SectorToOffset(Disc[o].start_sector)
                \in DirsNamed(root, Append(names, Disc[o].name))
         /\ ~ IsDir(Disc[o].attributes) =>
              o \in FilesNamed(root, Append(names, Disc[o].name))
<1>1. PICK c \in Chains(root, names) :
        base = EndOf(root, c) /\ (c # <<>> => IsDir(Disc[c[Len(c)]].attributes))
  BY DEF DirsNamed
<1> DEFINE d == Append(c, o)
           longer == Append(names, Disc[o].name)
<1>2. d \in Chains(root, longer)
  BY <1>1, ChainGrows
<1>3. d # <<>> /\ d[Len(d)] = o
  <2>1. c \in Seq(Offsets)
    BY ChainType
  <2> QED
    BY <2>1
<1> HIDE DEF d, longer
<1>4. IsDir(Disc[o].attributes) =>
        SectorToOffset(Disc[o].start_sector) \in DirsNamed(root, longer)
  BY <1>2, <1>3 DEF DirsNamed, EndOf
<1>5. ~ IsDir(Disc[o].attributes) => o \in FilesNamed(root, longer)
  BY <1>2, <1>3 DEF FilesNamed
<1> QED
  BY <1>4, <1>5 DEF longer

(* The beginning of a chain is one along the first names.                  *)
LEMMA ChainPrefix ==
  ASSUME NEW root, NEW names \in Seq(Name), NEW c \in Chains(root, names),
         NEW n \in Nat, n <= Len(names)
  PROVE  SubSeq(c, 1, n) \in Chains(root, SubSeq(names, 1, n))
<1> DEFINE front == SubSeq(c, 1, n)
           first == SubSeq(names, 1, n)
<1>1. c \in Seq(Offsets) /\ Len(c) = Len(names) /\ Len(names) \in Nat
  BY ChainType
<1>2. /\ front \in Seq(Offsets) /\ Len(front) = n
      /\ \A k \in 1 .. n : front[k] = c[k]
  BY <1>1, PrefixFacts
<1>3. Len(first) = n /\ \A k \in 1 .. n : first[k] = names[k]
  BY PrefixFacts
<1> HIDE DEF front, first
<1>4. \A k \in 1 .. n : SubSeq(front, 1, k - 1) = SubSeq(c, 1, k - 1)
  <2> SUFFICES ASSUME NEW k \in 1 .. n
               PROVE  SubSeq(front, 1, k - 1) = SubSeq(c, 1, k - 1)
    OBVIOUS
  <2>1. k - 1 \in Nat /\ k - 1 <= Len(c) /\ k - 1 <= Len(front)
    BY <1>1, <1>2
  <2>2. /\ SubSeq(front, 1, k - 1) \in Seq(Offsets)
        /\ Len(SubSeq(front, 1, k - 1)) = k - 1
        /\ \A i \in 1 .. k - 1 : SubSeq(front, 1, k - 1)[i] = front[i]
    BY <1>2, <2>1, PrefixFacts
  <2>3. /\ SubSeq(c, 1, k - 1) \in Seq(Offsets) /\ Len(SubSeq(c, 1, k - 1)) = k - 1
        /\ \A i \in 1 .. k - 1 : SubSeq(c, 1, k - 1)[i] = c[i]
    BY <1>1, <2>1, PrefixFacts
  <2> QED
    BY <1>2, <2>1, <2>2, <2>3
<1>5. ASSUME NEW k \in 1 .. n
      PROVE  /\ Disc[front[k]].name = first[k]
             /\ k > 1 => IsDir(Disc[front[k - 1]].attributes)
             /\ front[k] \in Table(EndOf(root, SubSeq(front, 1, k - 1)))
  <2>1. k \in 1 .. Len(names) /\ (k > 1 => k - 1 \in 1 .. n)
    BY <1>1
  <2>2. /\ Disc[c[k]].name = names[k]
        /\ k > 1 => IsDir(Disc[c[k - 1]].attributes)
        /\ c[k] \in Table(EndOf(root, SubSeq(c, 1, k - 1)))
    BY <2>1 DEF Chains
  <2> QED
    BY <1>2, <1>3, <1>4, <2>1, <2>2
<1>6. front \in [1 .. Len(first) -> Offsets]
  BY <1>2, <1>3
<1>7. front \in Chains(root, first)
  BY <1>3, <1>5, <1>6 DEF Chains
<1> QED
  BY <1>7 DEF front, first

(* A nonempty set of numbers has a least one.                              *)
LEMMA LeastOf ==
  ASSUME NEW T \in SUBSET Nat, T # {}
  PROVE  \E x \in T : \A y \in T : x <= y
<1> DEFINE R == {ss \in Nat \X Nat : ss[1] < ss[2]}
<1>1. IsWellFoundedOn(R, Nat)
  BY NatLessThanWellFounded DEF OpToRel
<1>2. \A x, y \in Nat : x < y => <<x, y>> \in R
  OBVIOUS
<1> HIDE DEF R
<1>3. \E x \in T : \A y \in T : ~ (<<y, x>> \in R)
  BY <1>1, WFMin
<1>4. \A x, y \in Nat : ~ (<<y, x>> \in R) => x <= y
  BY <1>2
<1> QED
  BY <1>3, <1>4

(* Names lead along one chain of entries: no table has a name twice.       *)
LEMMA OneChain ==
  ASSUME NEW root \in RootSectors, NEW names \in Seq(Name),
         NEW c \in Chains(root, names), NEW d \in Chains(root, names)
  PROVE  c = d
<1> DEFINE n == Len(names)
<1>1. c \in [1 .. n -> Offsets] /\ d \in [1 .. n -> Offsets] /\ n \in Nat
  BY DEF Chains
<1>2. c \in Seq(Offsets) /\ Len(c) = n /\ d \in Seq(Offsets) /\ Len(d) = n
  BY <1>1
<1>3. ASSUME NEW k \in 1 .. n, c[k] # d[k], \A i \in 1 .. k - 1 : c[i] = d[i]
      PROVE  FALSE
  <2> DEFINE front == SubSeq(c, 1, k - 1)
             base == EndOf(root, front)
  <2>1. k - 1 \in Nat /\ k - 1 <= Len(c) /\ k - 1 <= Len(d)
    BY <1>1, <1>2
  <2>2. /\ front \in Seq(Offsets) /\ Len(front) = k - 1
        /\ \A i \in 1 .. k - 1 : front[i] = c[i]
    BY <1>2, <2>1, PrefixFacts
  <2>3. /\ SubSeq(d, 1, k - 1) \in Seq(Offsets) /\ Len(SubSeq(d, 1, k - 1)) = k - 1
        /\ \A i \in 1 .. k - 1 : SubSeq(d, 1, k - 1)[i] = d[i]
    BY <1>2, <2>1, PrefixFacts
  <2> HIDE DEF front
  <2>4. SubSeq(d, 1, k - 1) = front
    BY <1>3, <2>1, <2>2, <2>3
  <2>5. /\ Disc[c[k]].name = names[k] /\ Disc[d[k]].name = names[k]
        /\ c[k] \in Table(base) /\ d[k] \in Table(base)
        /\ k > 1 => IsDir(Disc[c[k - 1]].attributes)
    BY <2>4, Zenon DEF Chains, front
  <2>6. base \in DirBases
    <3>1. CASE k = 1
      <4>1. front = <<>>
        BY <2>2, <3>1
      <4> QED
        BY <4>1 DEF EndOf, DirBases
    <3>2. CASE k > 1
      <4>1. front # <<>> /\ front[Len(front)] = c[k - 1] /\ c[k - 1] \in Offsets
        BY <1>1, <2>1, <2>2, <3>2
      <4> QED
        BY <2>5, <3>2, <4>1 DEF EndOf, DirBases
    <3> QED
      BY <3>1, <3>2
  <2> QED
    BY <1>3, <2>5, <2>6, NamesAssumption
<1>4. \A k \in 1 .. n : c[k] = d[k]
  <2> DEFINE T == {k \in 1 .. n : c[k] # d[k]}
  <2> SUFFICES ASSUME T # {} PROVE FALSE
    OBVIOUS
  <2>1. T \in SUBSET Nat
    OBVIOUS
  <2>2. PICK k \in T : \A i \in T : k <= i
    BY <2>1, LeastOf
  <2>3. \A i \in 1 .. k - 1 : c[i] = d[i]
    BY <2>2
  <2> QED
    BY <1>3, <2>2, <2>3
<1> QED
  BY <1>1, <1>4

(* So they lead to one directory or one file at most.                      *)
LEMMA OneNamed ==
  ASSUME NEW root \in RootSectors, NEW names \in Seq(Name)
  PROVE  /\ \A b, c \in DirsNamed(root, names) : b = c
         /\ \A o, q \in FilesNamed(root, names) : o = q
<1>1. \A c, d \in Chains(root, names) : c = d
  BY OneChain
<1> QED
  BY <1>1, Zenon DEF DirsNamed, FilesNamed
=============================================================================
