----------------------------- MODULE XdfsProofs -----------------------------
(***************************************************************************)
(* Proofs about Xdfs, for every disc whose tables are search trees, and    *)
(* every set of paths.                                                     *)
(***************************************************************************)
EXTENDS Xdfs, XdfsDiscProofs

-----------------------------------------------------------------------------
(* How a path is split: Components numbers the ends of the components from *)
(* left to right, std::getline takes the first one off.                    *)

Token == Name \cup {Slash}

(* What std::getline returns of a path s, and what it leaves.              *)
FirstOf(s) == IF Head(s) = Slash THEN EmptyName ELSE Head(s)
Width(s) == IF Head(s) = Slash THEN 1 ELSE 2
BehindFirst(s) == SubSeq(s, Width(s) + 1, Len(s))

(* A numbering goes up through all the ends.                               *)
Numbers(ends, n, s) ==
  /\ ends \in [1 .. n -> Ends(s)]
  /\ \A i, j \in 1 .. n : i < j => ends[i] < ends[j]
  /\ \A e \in Ends(s) : \E k \in 1 .. n : e = ends[k]

(* These are the members of Numberings.                                    *)
LEMMA NumberingIs ==
  ASSUME NEW s, NEW ends
  PROVE  ends \in Numberings(s) <=> \E n \in 0 .. Len(s) : Numbers(ends, n, s)
<1>1. ASSUME NEW n \in 0 .. Len(s), Numbers(ends, n, s)
      PROVE  ends \in Numberings(s)
  <2>1. DOMAIN ends = 1 .. n /\ ends \in [1 .. n -> Ends(s)]
    BY <1>1 DEF Numbers
  <2>2. Ends(s) = {ends[k] : k \in DOMAIN ends}
    BY <1>1, <2>1 DEF Numbers
  <2> QED
    BY <1>1, <2>1, <2>2 DEF Numbers, Numberings
<1>2. ASSUME ends \in Numberings(s)
      PROVE  \E n \in 0 .. Len(s) : Numbers(ends, n, s)
  <2>1. PICK n \in 0 .. Len(s) : ends \in [1 .. n -> Ends(s)]
    BY <1>2 DEF Numberings
  <2>2. /\ DOMAIN ends = 1 .. n
        /\ \A i, j \in DOMAIN ends : i < j => ends[i] < ends[j]
        /\ Ends(s) = {ends[k] : k \in DOMAIN ends}
    BY <1>2, <2>1 DEF Numberings
  <2> QED
    BY <2>1, <2>2 DEF Numbers
<1> QED
  BY <1>1, <1>2

(* Two numberings cannot part at k with f behind g: g's k-th would be      *)
(* missing in f.                                                           *)
LEMMA NoGap ==
  ASSUME NEW s \in Seq(Token), NEW n \in Nat, NEW m \in Nat, NEW f, NEW g,
         Numbers(f, n, s), Numbers(g, m, s),
         NEW k \in 1 .. m, \A i \in 1 .. k - 1 : i \in 1 .. n /\ f[i] = g[i],
         k \in 1 .. n => g[k] < f[k]
  PROVE  FALSE
<1>1. Ends(s) \subseteq Nat
  BY DEF Ends
<1>2. g[k] \in Ends(s)
  BY DEF Numbers
<1>3. PICK j \in 1 .. n : g[k] = f[j]
  BY <1>2 DEF Numbers
<1>4. \A i \in 1 .. n : f[i] \in Nat
  BY <1>1 DEF Numbers
<1>5. \A i \in 1 .. m : g[i] \in Nat
  BY <1>1 DEF Numbers
<1>6. CASE j < k
  <2>1. g[j] = f[j] /\ j \in 1 .. m
    BY <1>6
  <2>2. g[j] < g[k]
    BY <1>6, <2>1 DEF Numbers
  <2> QED
    BY <1>3, <1>5, <2>1, <2>2
<1>7. CASE j = k
  BY <1>3, <1>4, <1>7
<1>8. CASE j > k
  <2>1. k \in 1 .. n
    BY <1>8
  <2>2. f[k] < f[j]
    BY <1>8, <2>1 DEF Numbers
  <2> QED
    BY <1>3, <1>4, <1>5, <2>1, <2>2
<1> QED
  BY <1>6, <1>7, <1>8

(* There is only one way to number the ends.                               *)
LEMMA OneNumbering ==
  ASSUME NEW s \in Seq(Token), NEW f \in Numberings(s), NEW g \in Numberings(s)
  PROVE  f = g
<1>1. PICK n \in 0 .. Len(s) : Numbers(f, n, s)
  BY NumberingIs
<1>2. PICK m \in 0 .. Len(s) : Numbers(g, m, s)
  BY NumberingIs
<1>3. n \in Nat /\ m \in Nat
  OBVIOUS
<1>4. Ends(s) \subseteq Nat
  BY DEF Ends
<1>5. \A i \in 1 .. n : f[i] \in Nat
  BY <1>1, <1>4 DEF Numbers
<1>6. \A i \in 1 .. m : g[i] \in Nat
  BY <1>2, <1>4 DEF Numbers
<1> DEFINE T == {k \in (1 .. n) \cup (1 .. m) :
                   ~ (k \in 1 .. n /\ k \in 1 .. m /\ f[k] = g[k])}
<1>7. T = {}
  <2> SUFFICES ASSUME T # {} PROVE FALSE
    OBVIOUS
  <2>1. T \in SUBSET Nat
    OBVIOUS
  <2>2. PICK k \in T : \A i \in T : k <= i
    BY <2>1, LeastOf
  <2>3. \A i \in 1 .. k - 1 : i \in 1 .. n /\ i \in 1 .. m /\ f[i] = g[i]
    BY <1>3, <2>2
  <2>4. k \in (1 .. n) \cup (1 .. m)
        /\ ~ (k \in 1 .. n /\ k \in 1 .. m /\ f[k] = g[k])
    BY <2>2
  <2> HIDE DEF T
  <2>5. CASE k \in 1 .. m /\ (k \in 1 .. n => g[k] < f[k])
    BY <1>1, <1>2, <1>3, <2>3, <2>5, NoGap
  <2>6. CASE k \in 1 .. n /\ (k \in 1 .. m => f[k] < g[k])
    BY <1>1, <1>2, <1>3, <2>3, <2>6, NoGap
  <2> QED
    BY <1>5, <1>6, <2>4, <2>5, <2>6
<1>8. \A k \in (1 .. n) \cup (1 .. m) : k \in 1 .. n /\ k \in 1 .. m /\ f[k] = g[k]
  BY <1>7
<1> HIDE DEF T
<1>9. n = m
  <2>1. n <= m
    BY <1>3, <1>8
  <2>2. m <= n
    BY <1>3, <1>8
  <2> QED
    BY <1>3, <2>1, <2>2
<1> QED
  BY <1>1, <1>2, <1>8, <1>9 DEF Numbers

(* One or two tokens are taken off a path, the last component's end may be *)
(* the end of the path.                                                    *)
LEMMA BehindLength ==
  ASSUME NEW l \in Nat \ {0}, NEW k \in {1, 2}, NEW m,
         m = IF k + 1 <= l THEN l - k ELSE 0
  PROVE  k + m \in {l, l + 1} /\ (k = 1 => 1 + m = l)
OBVIOUS

(* What std::getline leaves is the path without its first component.       *)
LEMMA BehindFacts ==
  ASSUME NEW s \in Seq(Token), s # <<>>, Tokens(s)
  PROVE  LET d == Width(s) IN
         /\ BehindFirst(s) \in Seq(Token) /\ d \in {1, 2}
         /\ d + Len(BehindFirst(s)) \in {Len(s), Len(s) + 1}
         /\ d = 1 => 1 + Len(BehindFirst(s)) = Len(s)
         /\ \A i \in 1 .. Len(BehindFirst(s)) : /\ i + d \in 1 .. Len(s)
                                              /\ BehindFirst(s)[i] = s[i + d]
         /\ \A i \in 1 .. Len(s) : i > d => i - d \in 1 .. Len(BehindFirst(s))
         /\ Tokens(BehindFirst(s))
         /\ Head(s) = s[1] /\ 1 \in 1 .. Len(s)
<1> DEFINE d == Width(s)
           b == BehindFirst(s)
<1>1. d \in {1, 2} /\ b = SubSeq(s, d + 1, Len(s)) /\ Len(s) \in Nat /\ Len(s) > 0
  BY DEF BehindFirst, Width
<1>2. ASSUME NEW k \in {1, 2}
      PROVE  LET c == SubSeq(s, k + 1, Len(s)) IN
             /\ c \in Seq(Token)
             /\ k + Len(c) \in {Len(s), Len(s) + 1}
             /\ k = 1 => 1 + Len(c) = Len(s)
             /\ \A i \in 1 .. Len(c) : i + k \in 1 .. Len(s) /\ c[i] = s[i + k]
             /\ \A i \in 1 .. Len(s) : i > k => i - k \in 1 .. Len(c)
  <2> DEFINE c == SubSeq(s, k + 1, Len(s))
  <2>1. c \in Seq(Token)
    BY <1>1
  <2>2. Len(c) = IF k + 1 <= Len(s) THEN Len(s) - k ELSE 0
    BY <1>1
  <2>3. \A i \in 1 .. Len(c) : c[i] = s[i + k]
    BY <1>1
  <2> HIDE DEF c
  <2>4. k + Len(c) \in {Len(s), Len(s) + 1} /\ (k = 1 => 1 + Len(c) = Len(s))
    <3>1. Len(s) \in Nat \ {0}
      BY <1>1
    <3> QED
      BY <2>2, <3>1, BehindLength
  <2>5. \A i \in 1 .. Len(c) : i + k \in 1 .. Len(s)
    BY <1>1, <2>2
  <2>6. \A i \in 1 .. Len(s) : i > k => i - k \in 1 .. Len(c)
    BY <1>1, <2>2
  <2> QED
    BY <2>1, <2>3, <2>4, <2>5, <2>6 DEF c
<1>3. /\ b \in Seq(Token) /\ d + Len(b) \in {Len(s), Len(s) + 1}
      /\ d = 1 => 1 + Len(b) = Len(s)
      /\ \A i \in 1 .. Len(b) : i + d \in 1 .. Len(s) /\ b[i] = s[i + d]
      /\ \A i \in 1 .. Len(s) : i > d => i - d \in 1 .. Len(b)
  BY <1>1, <1>2
<1>4. Head(s) = s[1] /\ 1 \in 1 .. Len(s)
  OBVIOUS
<1>5. Tokens(b)
  <2> SUFFICES ASSUME NEW i \in 1 .. Len(b) - 1
               PROVE  Slash \in {b[i], b[i + 1]}
    BY DEF Tokens
  <2> HIDE DEF b, d
  <2>1. Len(b) \in Nat
    BY <1>3
  <2>2. i \in 1 .. Len(b) /\ i + 1 \in 1 .. Len(b)
    BY <2>1
  <2>3. b[i] = s[i + d] /\ b[i + 1] = s[(i + 1) + d] /\ (i + 1) + d \in 1 .. Len(s)
    BY <1>3, <2>2
  <2>4. (i + 1) + d = (i + d) + 1 /\ i + d \in 1 .. Len(s) - 1
    BY <1>1, <2>3
  <2>5. Slash \in {s[i + d], s[(i + d) + 1]}
    BY <2>4 DEF Tokens
  <2> QED
    BY <2>3, <2>4, <2>5
<1> HIDE DEF d, b
<1>6. QED
  BY <1>1, <1>3, <1>4, <1>5 DEF d, b

(* The ends of a path: the first token, and those of what is left.         *)
LEMMA EndsFirst ==
  ASSUME NEW s \in Seq(Token), s # <<>>, Tokens(s), NEW d \in {1, 2},
         d = Width(s),
         NEW b, b = BehindFirst(s)
  PROVE  /\ 1 \in Ends(s)
         /\ \A e \in Ends(b) : e \in 1 .. Len(b) /\ e + d \in Ends(s)
         /\ \A i \in Ends(s) : i = 1 \/ i - d \in Ends(b)
<1>1. /\ b \in Seq(Token)
      /\ \A i \in 1 .. Len(b) : i + d \in 1 .. Len(s) /\ b[i] = s[i + d]
      /\ \A i \in 1 .. Len(s) : i > d => i - d \in 1 .. Len(b)
      /\ Head(s) = s[1] /\ 1 \in 1 .. Len(s) /\ Len(s) \in Nat /\ Len(b) \in Nat
  BY BehindFacts
<1>2. (d = 1 => s[1] = Slash) /\ (d = 2 => s[1] # Slash)
  BY <1>1 DEF Width
<1>3. d = 2 => s[1] # Slash /\ \A i \in 1 .. Len(s) : i = 2 => s[i] = Slash
  <2> SUFFICES ASSUME d = 2, NEW i \in 1 .. Len(s), i = 2
               PROVE  s[i] = Slash
    BY <1>2
  <2>1. 1 \in 1 .. Len(s) - 1
    BY <1>1
  <2>2. Slash \in {s[1], s[1 + 1]}
    BY <2>1 DEF Tokens
  <2> QED
    BY <1>2, <2>2
<1>4. DOMAIN s = 1 .. Len(s) /\ DOMAIN b = 1 .. Len(b)
  BY <1>1
<1>5. 1 \in Ends(s)
  BY <1>1, <1>4 DEF Ends
<1>6. ASSUME NEW e \in Ends(b)
      PROVE  e \in 1 .. Len(b) /\ e + d \in Ends(s)
  <2>1. e \in 1 .. Len(b) /\ (b[e] # Slash \/ e = 1 \/ b[e - 1] = Slash)
    BY <1>4 DEF Ends
  <2>2. e + d \in 1 .. Len(s) /\ b[e] = s[e + d]
    BY <1>1, <2>1
  <2>3. CASE e = 1
    <3>1. (e + d) - 1 = d /\ d \in 1 .. Len(s)
      BY <1>1, <2>2, <2>3
    <3>2. s[d] = Slash
      BY <1>2, <1>3, <3>1
    <3> QED
      BY <1>4, <2>2, <3>1, <3>2 DEF Ends
  <2>4. CASE e # 1
    <3>1. e - 1 \in 1 .. Len(b) /\ (e - 1) + d = (e + d) - 1
      BY <1>1, <2>1, <2>4
    <3>2. b[e - 1] = s[(e + d) - 1]
      BY <1>1, <3>1
    <3> QED
      BY <1>4, <2>1, <2>2, <2>4, <3>2 DEF Ends
  <2> QED
    BY <2>1, <2>3, <2>4
<1>7. ASSUME NEW i \in Ends(s), i # 1
      PROVE  i - d \in Ends(b)
  <2>1. i \in 1 .. Len(s) /\ (s[i] # Slash \/ s[i - 1] = Slash)
    BY <1>4, <1>7 DEF Ends
  <2>2. i > d
    <3> SUFFICES ASSUME i = 2, d = 2 PROVE FALSE
      BY <1>7, <2>1
    <3>1. i - 1 = 1
      OBVIOUS
    <3> QED
      BY <1>3, <2>1, <3>1
  <2>3. i - d \in 1 .. Len(b) /\ (i - d) + d = i
    BY <1>1, <2>1, <2>2
  <2>4. b[i - d] = s[i]
    BY <1>1, <2>3
  <2>5. i - d = 1 \/ b[(i - d) - 1] = s[i - 1]
    <3> SUFFICES ASSUME i - d # 1 PROVE b[(i - d) - 1] = s[i - 1]
      OBVIOUS
    <3>1. (i - d) - 1 \in 1 .. Len(b) /\ ((i - d) - 1) + d = i - 1
      BY <1>1, <2>1, <2>3
    <3> QED
      BY <1>1, <3>1
  <2> QED
    BY <1>4, <2>1, <2>3, <2>4, <2>5 DEF Ends
<1> QED
  BY <1>5, <1>6, <1>7

(* The numbering of what is left, with the first component before it.      *)
AfterFirst(f, n, width) ==
  [k \in 1 .. n + 1 |-> IF k = 1 THEN 1 ELSE f[k - 1] + width]

LEMMA NumberingFirst ==
  ASSUME NEW s \in Seq(Token), s # <<>>, Tokens(s),
         NEW n \in 0 .. Len(BehindFirst(s)), NEW f, Numbers(f, n, BehindFirst(s))
  PROVE  AfterFirst(f, n, Width(s)) \in Numberings(s)
<1> DEFINE b == BehindFirst(s)
           d == Width(s)
           g == AfterFirst(f, n, d)
<1>0. /\ b = BehindFirst(s) /\ d = Width(s) /\ d \in {1, 2}
      /\ n \in 0 .. Len(b) /\ Numbers(f, n, b)
      /\ g = [k \in 1 .. n + 1 |-> IF k = 1 THEN 1 ELSE f[k - 1] + d]
  BY DEF Width, AfterFirst
<1> HIDE DEF b, d, g
<1>1. /\ 1 \in Ends(s)
      /\ \A e \in Ends(b) : e \in 1 .. Len(b) /\ e + d \in Ends(s)
      /\ \A i \in Ends(s) : i = 1 \/ i - d \in Ends(b)
  BY <1>0, EndsFirst
<1>2. /\ Len(b) \in Nat /\ Len(s) \in Nat /\ Len(s) > 0 /\ b \in Seq(Token)
      /\ d + Len(b) \in {Len(s), Len(s) + 1}
      /\ d = 1 => 1 + Len(b) = Len(s)
  BY <1>0, BehindFacts
<1>3. n + 1 \in 0 .. Len(s) /\ n \in Nat
  BY <1>0, <1>2
<1>4. ASSUME NEW k \in 1 .. n + 1, k # 1
      PROVE  k - 1 \in 1 .. n /\ f[k - 1] \in Ends(b) /\ f[k - 1] \in 1 .. Len(b)
  <2>1. k - 1 \in 1 .. n
    BY <1>3, <1>4
  <2> QED
    BY <1>0, <1>1, <2>1 DEF Numbers
<1>5. g \in [1 .. n + 1 -> Ends(s)]
  BY <1>0, <1>1, <1>4
<1>6. ASSUME NEW i \in 1 .. n + 1, NEW j \in 1 .. n + 1, i < j
      PROVE  g[i] < g[j]
  <2>1. j # 1 /\ j - 1 \in 1 .. n /\ f[j - 1] \in 1 .. Len(b)
    BY <1>4, <1>6
  <2>2. CASE i = 1
    BY <1>0, <2>1, <2>2
  <2>3. CASE i # 1
    <3>1. i - 1 \in 1 .. n /\ f[i - 1] \in 1 .. Len(b) /\ i - 1 < j - 1
      BY <1>4, <1>6, <2>3
    <3>2. f[i - 1] < f[j - 1]
      BY <1>0, <2>1, <3>1 DEF Numbers
    <3> QED
      BY <1>0, <2>1, <2>3, <3>1, <3>2
  <2> QED
    BY <2>2, <2>3
<1>7. ASSUME NEW e \in Ends(s)
      PROVE  \E k \in 1 .. n + 1 : e = g[k]
  <2>1. CASE e = 1
    BY <1>0, <1>3, <2>1
  <2>2. CASE e # 1
    <3>1. e - d \in Ends(b) /\ e \in Nat
      BY <1>1, <2>2 DEF Ends
    <3>2. PICK k \in 1 .. n : e - d = f[k]
      BY <1>0, <3>1 DEF Numbers
    <3>3. k + 1 \in 1 .. n + 1 /\ k + 1 # 1 /\ (k + 1) - 1 = k
      BY <1>3
    <3>4. g[k + 1] = f[k] + d
      BY <1>0, <3>3
    <3>5. e = (e - d) + d
      BY <1>0, <3>1
    <3>6. e = g[k + 1]
      BY <3>2, <3>4, <3>5
    <3> QED
      BY <3>3, <3>6
  <2> QED
    BY <2>1, <2>2
<1>8. Numbers(g, n + 1, s)
  BY <1>5, <1>6, <1>7 DEF Numbers
<1> QED
  BY <1>3, <1>8, NumberingIs DEF g, d

(* The empty path has no ends, and the empty numbering.                    *)
LEMMA NoEnds == <<>> \in Numberings(<<>>)
<1>1. Ends(<<>>) = {}
  BY DEF Ends
<1>2. <<>> \in [1 .. 0 -> Ends(<<>>)]
  BY <1>1
<1>3. Numbers(<<>>, 0, <<>>)
  BY <1>1, <1>2 DEF Numbers
<1> QED
  BY <1>3, NumberingIs

(* Every path has a numbering.                                             *)
LEMMA SomeNumbering ==
  ASSUME NEW s \in Seq(Token), Tokens(s)
  PROVE  Numberings(s) # {}
<1> DEFINE Without == {x \in Seq(Token) : Tokens(x) /\ Numberings(x) = {}}
           T == {Len(x) : x \in Without}
<1> SUFFICES ASSUME T # {} PROVE FALSE
  OBVIOUS
<1>1. T \in SUBSET Nat
  OBVIOUS
<1>2. PICK n \in T : \A m \in T : n <= m
  BY <1>1, LeastOf
<1>3. PICK x \in Without : n = Len(x)
  BY <1>2
<1>4. x # <<>>
  BY <1>3, NoEnds
<1> DEFINE b == BehindFirst(x)
<1>5. /\ b \in Seq(Token) /\ Tokens(b) /\ Len(b) < Len(x)
  <2>1. /\ b \in Seq(Token) /\ Tokens(b) /\ Len(b) \in Nat /\ Len(x) \in Nat
        /\ Width(x) \in {1, 2} /\ (Width(x) = 1 => 1 + Len(b) = Len(x))
        /\ Width(x) + Len(b) \in {Len(x), Len(x) + 1}
    BY <1>3, <1>4, BehindFacts
  <2> QED
    BY <2>1
<1>6. b \notin Without
  <2> SUFFICES ASSUME b \in Without PROVE FALSE
    OBVIOUS
  <2>1. Len(b) \in T
    OBVIOUS
  <2> QED
    BY <1>2, <1>3, <1>5, <2>1
<1>7. PICK f : f \in Numberings(b)
  BY <1>5, <1>6
<1>8. PICK m \in 0 .. Len(b) : Numbers(f, m, b)
  BY <1>7, NumberingIs
<1>9. Numberings(x) # {}
  BY <1>3, <1>4, <1>8, NumberingFirst
<1> QED
  BY <1>3, <1>9

(* So Components takes the one numbering that there is.                    *)
LEMMA ComponentsIs ==
  ASSUME NEW s \in Seq(Token), NEW ends \in Numberings(s)
  PROVE  Components(s) = [k \in DOMAIN ends |-> ComponentAt(s, ends[k])]
<1>1. (CHOOSE e \in Numberings(s) : TRUE) = ends
  <2>1. (CHOOSE e \in Numberings(s) : TRUE) \in Numberings(s)
    OBVIOUS
  <2> QED
    BY <2>1, OneNumbering
<1> QED
  BY <1>1, Zenon DEF Components

(* Nothing is left of the empty path.                                      *)
LEMMA NoComponents == Components(<<>>) = <<>>
<1>1. <<>> \in Seq(Token)
  OBVIOUS
<1>2. Components(<<>>) = [k \in DOMAIN <<>> |-> ComponentAt(<<>>, <<>>[k])]
  BY <1>1, NoEnds, ComponentsIs
<1> QED
  BY <1>2

(* The components of a path are names.                                     *)
LEMMA ComponentsType ==
  ASSUME NEW s \in Seq(Token), Tokens(s)
  PROVE  Components(s) \in Seq(Name)
<1>1. PICK f \in Numberings(s) : TRUE
  BY SomeNumbering
<1>2. PICK n \in 0 .. Len(s) : Numbers(f, n, s)
  BY NumberingIs
<1>3. f \in [1 .. n -> Ends(s)] /\ n \in Nat
  BY <1>2 DEF Numbers
<1>4. \A k \in 1 .. n : ComponentAt(s, f[k]) \in Name
  <2> SUFFICES ASSUME NEW k \in 1 .. n PROVE ComponentAt(s, f[k]) \in Name
    OBVIOUS
  <2>1. f[k] \in DOMAIN s
    BY <1>3 DEF Ends
  <2>2. s[f[k]] \in Token
    BY <2>1
  <2> QED
    BY <2>2, PathAssumption DEF ComponentAt, Token
<1>5. Components(s) = [k \in 1 .. n |-> ComponentAt(s, f[k])]
  BY <1>3, ComponentsIs
<1> QED
  BY <1>3, <1>4, <1>5

(* std::getline takes off the first component.                             *)
LEMMA ComponentsFirst ==
  ASSUME NEW s \in Seq(Token), s # <<>>, Tokens(s)
  PROVE  LET all == Components(s)  behind == Components(BehindFirst(s)) IN
         /\ Len(all) = Len(behind) + 1
         /\ all[1] = FirstOf(s)
         /\ \A k \in 1 .. Len(behind) : all[k + 1] = behind[k]
<1> DEFINE d == Width(s)
           b == BehindFirst(s)
<1>1. /\ b \in Seq(Token) /\ Tokens(b) /\ d \in {1, 2}
      /\ \A i \in 1 .. Len(b) : i + d \in 1 .. Len(s) /\ b[i] = s[i + d]
      /\ Head(s) = s[1]
  BY BehindFacts
<1>2. PICK f \in Numberings(b) : TRUE
  BY <1>1, SomeNumbering
<1>3. PICK n \in 0 .. Len(b) : Numbers(f, n, b)
  BY NumberingIs
<1>4. /\ f \in [1 .. n -> Ends(b)] /\ n \in Nat
      /\ \A k \in 1 .. n : f[k] \in 1 .. Len(b)
  BY <1>1, <1>3 DEF Numbers, Ends
<1> DEFINE g == AfterFirst(f, n, d)
<1>5. g \in Numberings(s)
  BY <1>1, <1>3, NumberingFirst
<1>6. Components(s) = [k \in 1 .. n + 1 |-> ComponentAt(s, g[k])]
  <2>1. DOMAIN g = 1 .. n + 1
    BY DEF AfterFirst
  <2> HIDE DEF g
  <2> QED
    BY <1>5, <2>1, ComponentsIs
<1>7. Components(b) = [k \in 1 .. n |-> ComponentAt(b, f[k])]
  BY <1>1, <1>4, ComponentsIs
<1>8. g[1] = 1 /\ \A k \in 1 .. n : k + 1 \in 1 .. n + 1 /\ g[k + 1] = f[k] + d
  <2>1. \A k \in 1 .. n : k + 1 \in 1 .. n + 1 /\ k + 1 # 1 /\ (k + 1) - 1 = k
    BY <1>4
  <2> QED
    BY <1>4, <2>1 DEF AfterFirst
<1> HIDE DEF g, d, b
<1>9. Len(Components(s)) = n + 1 /\ Len(Components(b)) = n
  BY <1>4, <1>6, <1>7
<1>10. Components(s)[1] = FirstOf(s)
  BY <1>1, <1>4, <1>6, <1>8 DEF ComponentAt, FirstOf
<1>11. ASSUME NEW k \in 1 .. n
       PROVE  Components(s)[k + 1] = Components(b)[k]
  <2>1. b[f[k]] = s[f[k] + d]
    BY <1>1, <1>4
  <2>2. ComponentAt(s, g[k + 1]) = ComponentAt(b, f[k])
    BY <1>8, <2>1 DEF ComponentAt
  <2> QED
    BY <1>6, <1>7, <1>8, <2>2
<1> QED
  BY <1>9, <1>10, <1>11 DEF b

-----------------------------------------------------------------------------
(* The walk.                                                               *)

(* What ReadDirEntryAtOffset returns is a DirEntry.                        *)
LEMMA ReadType ==
  ASSUME NEW o \in Offsets
  PROVE  /\ ReadDirEntry(o) \in DirEntry
         /\ ReadDirEntry(o) # NoEntry
         /\ ReadDirEntry(o).name = Disc[o].name
         /\ ReadDirEntry(o).left_child_dwords = Disc[o].left_child_dwords
         /\ ReadDirEntry(o).right_child_dwords = Disc[o].right_child_dwords
BY DiscAssumption, PathAssumption DEF ReadDirEntry, DirEntry

(* The root's entry is a DirEntry.                                         *)
LEMMA RootType == root_entry_ \in DirEntry
BY RootAssumption, PathAssumption
   DEF root_entry_, DirEntry, kAttributeIsDirectoryMask

(* A directory that the walk has reached has a table of entries.           *)
LEMMA TableReached ==
  ASSUME EntryInv, IsDir(current_entry.attributes)
  PROVE  TableOffset(current_entry) \in DirBases
<1>1. CASE current_entry = root_entry_
  BY <1>1, PathAssumption DEF root_entry_, TableOffset, DirBases
<1>2. ASSUME NEW o \in Offsets, current_entry = ReadDirEntry(o)
      PROVE  TableOffset(current_entry) \in DirBases
  BY <1>2 DEF ReadDirEntry, TableOffset, DirBases
<1>3. QED
  BY <1>1, <1>2 DEF EntryInv

(* The next component of a path is a name, and what follows it a path.     *)
LEMMA ComponentType ==
  ASSUME rest \in Seq(Name \cup {Slash}), rest # <<>>
  PROVE  /\ Component \in Name
         /\ BehindComponent \in Seq(Name \cup {Slash})
<1>1. Head(rest) \in Name \cup {Slash}
  OBVIOUS
<1>2. ASSUME NEW k \in {2, 3}
      PROVE  SubSeq(rest, k, Len(rest)) \in Seq(Name \cup {Slash})
  OBVIOUS
<1>3. QED
  BY <1>1, <1>2, PathAssumption DEF Component, BehindComponent

(* A call in progress is one of OpenFile or OpenDir with one of the paths. *)
LEMMA CallType ==
  ASSUME TypeOK, call # Idle, NEW result \in Results, NEW entry \in DirEntry,
         Return(result, entry)
  PROVE  /\ call' = Idle
         /\ outcome' \in [want : {"nothing", "file", "dir"},
                          path : Paths \cup {<<>>},
                          result : Results, entry : DirEntry]
         /\ outcome'.result = result
         /\ outcome'.entry = entry
         /\ outcome'.want = call.want
         /\ outcome'.path = call.path
BY DEF TypeOK, Return

(* The node at the start of a table: whatever is looked for is below it.   *)
LEMMA SearchBegins ==
  ASSUME EntryInv, IsDir(current_entry.attributes), NEW name
  PROVE  LET base == TableOffset(current_entry) IN
         /\ base \in Table(base) /\ base \in Offsets
         /\ \A x \in Table(base) : Disc[x].name = name => x \in Subtree[base][base]
BY TableReached, TableFacts DEF Table

(* The child that the search goes to has below it what is looked for; when *)
(* there is no such child there is nothing to be found.                    *)
LEMMA SearchDescends ==
  ASSUME NEW base \in DirBases, NEW o \in Table(base), NEW name \in Name,
         \A x \in Table(base) : Disc[x].name = name => x \in Subtree[base][o],
         Disc[o].name # name
  PROVE  LET d == ChildDwords(name, ReadDirEntry(o)) IN
         /\ d = 0 => \A x \in Table(base) : Disc[x].name # name
         /\ d # 0 => /\ Child(base, d) \in Table(base)
                     /\ Child(base, d) \in Offsets
                     /\ \A x \in Table(base) :
                          Disc[x].name = name => x \in Subtree[base][Child(base, d)]
<1> DEFINE d == ChildDwords(name, ReadDirEntry(o))
<1>1. o \in Offsets
  BY TableFacts
<1>2. Subtree[base][o] =
        {o} \cup Below(base, LeftOf(base, o)) \cup Below(base, RightOf(base, o))
  BY SubtreeUnfold
<1>3. /\ \A x \in Below(base, LeftOf(base, o)) : NameLess(Disc[x].name, Disc[o].name)
      /\ \A x \in Below(base, RightOf(base, o)) : ~ NameLess(Disc[x].name, Disc[o].name)
  BY SearchAssumption
<1>4. CASE NameLess(name, Disc[o].name)
  <2>1. d = Disc[o].left_child_dwords
    BY <1>1, <1>4, ReadType DEF ChildDwords, GoesLeft
  <2>2. \A x \in Table(base) :
          Disc[x].name = name => x \in Below(base, LeftOf(base, o))
    BY <1>2, <1>3, <1>4
  <2>3. d = 0 => LeftOf(base, o) = {}
    BY <2>1 DEF LeftOf
  <2>4. d # 0 => LeftOf(base, o) = {Child(base, d)}
    BY <2>1 DEF LeftOf
  <2> HIDE DEF d
  <2>5. d = 0 => \A x \in Table(base) : Disc[x].name # name
    BY <2>2, <2>3 DEF Below
  <2>6. d # 0 => /\ Child(base, d) \in Table(base) /\ Child(base, d) \in Offsets
                 /\ Below(base, LeftOf(base, o)) = Subtree[base][Child(base, d)]
    BY <2>4, ChildrenFacts DEF Below
  <2>7. QED
    BY <2>2, <2>5, <2>6 DEF d
<1>5. CASE ~ NameLess(name, Disc[o].name)
  <2>1. d = Disc[o].right_child_dwords
    BY <1>1, <1>5, ReadType DEF ChildDwords, GoesLeft
  <2>2. \A x \in Table(base) :
          Disc[x].name = name => x \in Below(base, RightOf(base, o))
    BY <1>2, <1>3, <1>5
  <2>3. d = 0 => RightOf(base, o) = {}
    BY <2>1 DEF RightOf
  <2>4. d # 0 => RightOf(base, o) = {Child(base, d)}
    BY <2>1 DEF RightOf
  <2> HIDE DEF d
  <2>5. d = 0 => \A x \in Table(base) : Disc[x].name # name
    BY <2>2, <2>3 DEF Below
  <2>6. d # 0 => /\ Child(base, d) \in Table(base) /\ Child(base, d) \in Offsets
                 /\ Below(base, RightOf(base, o)) = Subtree[base][Child(base, d)]
    BY <2>4, ChildrenFacts DEF Below
  <2>7. QED
    BY <2>2, <2>5, <2>6 DEF d
<1>6. QED
  BY <1>4, <1>5

(* Steps that leave the walk alone keep what is known of it.               *)
LEMMA WalkKeeps ==
  ASSUME IInv, UNCHANGED walkVars
  PROVE  FollowsTrail' /\ EntryInv'
BY DEF IInv, walkVars, FollowsTrail, EntryInv, root_entry_, EntriesOf,
       ReadDirEntry, TableOffset

(* During a call nothing is said of an answer.                             *)
LEMMA BusyKeeps ==
  ASSUME call' # Idle
  PROVE  AnswerInv' /\ AbsenceInv'
BY DEF AnswerInv, AbsenceInv, Idle

(* What std::getline takes off the rest of the path is its first component.*)
LEMMA ComponentIs ==
  ASSUME rest # <<>>
  PROVE  Component = FirstOf(rest) /\ BehindComponent = BehindFirst(rest)
BY DEF Component, FirstOf, BehindComponent, BehindFirst, Width

(* Steps of a call that leave the walk and the answer alone keep what is   *)
(* known of the path.                                                      *)
LEMMA SplitKept ==
  ASSUME SplitInv, UNCHANGED <<call, outcome, walkVars>>
  PROVE  SplitInv'
<1>1. UNCHANGED <<call, outcome, rest, walked>>
  BY DEF walkVars
<1>2. SplitsPath'
  BY <1>1 DEF SplitInv, SplitsPath
<1>3. Tokens(rest)'
  BY <1>1 DEF SplitInv
<1> QED
  BY <1>1, <1>2, <1>3 DEF SplitInv

(* And so does the return: the path of the answer is the call's.           *)
LEMMA SplitReturned ==
  ASSUME SplitInv, call # Idle, call' = Idle, outcome'.path = call.path,
         UNCHANGED walkVars
  PROVE  SplitInv'
<1>1. UNCHANGED <<rest, walked>>
  BY DEF walkVars
<1>2. IsFullPath(call.path) /\ Components(Tail(call.path)) = walked \o Components(rest)
  BY DEF SplitInv, SplitsPath
<1>3. SplitsPath'
  BY <1>1, <1>2 DEF SplitsPath, IsFullPath
<1>4. Tokens(rest)'
  BY <1>1 DEF SplitInv
<1> QED
  BY <1>1, <1>2, <1>3, <1>4 DEF SplitInv, IsFullPath

(* A new call starts at the root.                                          *)
LEMMA OpenKeeps ==
  ASSUME IInv, NEW want \in {"file", "dir"}, NEW path \in Paths, Open(want, path)
  PROVE  IInv'
<1>1. /\ call' = [want |-> want, path |-> path] /\ call' # Idle
      /\ rest' = Tail(path) /\ path \in Seq(Name \cup {Slash}) /\ path # <<>>
      /\ current_entry' = root_entry_ /\ walked' = <<>>
      /\ trail' = <<root_entry_>>
      /\ UNCHANGED <<node, aborted, outcome>>
      /\ node = NoEntry
  BY PathAssumption DEF Open, IsFullPath, Idle, Ready, IInv, SearchInv
<1>2. Tail(path) \in Seq(Name \cup {Slash})
  BY <1>1
<1>3. TypeOK'
  <2>1. call' \in [want : {"file", "dir"}, path : Paths]
    BY <1>1
  <2>2. walked' \in Seq(Name) /\ trail' \in Seq(DirEntry)
    BY <1>1, RootType
  <2>3. QED
    BY <1>1, <1>2, <2>1, <2>2, RootType DEF IInv, TypeOK
<1>4. FollowsTrail'
  BY <1>1 DEF FollowsTrail, root_entry_
<1>5. EntryInv' /\ SearchInv'
  BY <1>1 DEF EntryInv, SearchInv, root_entry_
<1>6. SplitInv'
  <2>1. IsFullPath(path) /\ call'.path = path
    BY <1>1 DEF Open
  <2>2. Tokens(Tail(path))
    <3>1. /\ Tokens(path) /\ Len(Tail(path)) = Len(path) - 1 /\ Len(path) \in Nat
          /\ \A i \in 1 .. Len(path) - 1 : Tail(path)[i] = path[i + 1]
      BY <1>1, TokenAssumption
    <3> SUFFICES ASSUME NEW i \in 1 .. Len(Tail(path)) - 1
                 PROVE  Slash \in {Tail(path)[i], Tail(path)[i + 1]}
      BY DEF Tokens
    <3>2. /\ i \in 1 .. Len(path) - 1 /\ i + 1 \in 1 .. Len(path) - 1
      BY <3>1
    <3> QED
      BY <3>1, <3>2 DEF Tokens
  <2>3. Components(Tail(path)) \in Seq(Name)
    BY <1>2, <2>2, ComponentsType DEF Token
  <2>4. SplitsPath'
    <3>1. Components(Tail(path)) = <<>> \o Components(Tail(path))
      BY <2>3
    <3> QED
      BY <1>1, <2>1, <3>1 DEF SplitsPath
  <2>5. Tokens(rest)'
    BY <1>1, <2>2 DEF Tokens
  <2>6. (call # Idle => IsFullPath(call.path))'
    BY <2>1 DEF IsFullPath
  <2>7. (outcome.result \in {"opened", "wrong kind", "not found"} =>
           IsFullPath(outcome.path))'
    BY <1>1 DEF IInv, SplitInv, IsFullPath
  <2> QED
    BY <2>4, <2>5, <2>6, <2>7 DEF SplitInv
<1>7. QED
  BY <1>1, <1>3, <1>4, <1>5, <1>6, BusyKeeps DEF IInv

(* A relative path is refused and nothing else happens.                    *)
LEMMA OpenRelativeKeeps ==
  ASSUME IInv, NEW want \in {"file", "dir"}, NEW path \in Paths,
         OpenRelative(want, path)
  PROVE  IInv'
<1>1. /\ outcome' = [want |-> want, path |-> path,
                     result |-> "no full path", entry |-> root_entry_]
      /\ UNCHANGED <<call, walkVars, node, aborted>> /\ call = Idle
      /\ node = NoEntry
  BY DEF OpenRelative, Ready, IInv, SearchInv
<1>2. TypeOK'
  BY <1>1, RootType DEF IInv, TypeOK, walkVars, Results
<1>3. SearchInv' /\ AnswerInv' /\ AbsenceInv'
  BY <1>1 DEF SearchInv, AnswerInv, AbsenceInv
<1>4. SplitInv'
  <2>1. ~ IsFullPath(path)
    BY DEF OpenRelative
  <2>2. call' = Idle /\ UNCHANGED <<rest, walked>>
    BY <1>1 DEF walkVars
  <2>3. outcome'.path = path /\ outcome'.result = "no full path"
    BY <1>1
  <2>4. SplitsPath'
    BY <2>1, <2>2, <2>3 DEF SplitsPath, IsFullPath
  <2>5. Tokens(rest)'
    BY <2>2 DEF IInv, SplitInv
  <2> QED
    BY <2>2, <2>3, <2>4, <2>5 DEF SplitInv
<1>5. QED
  BY <1>1, <1>2, <1>3, <1>4, WalkKeeps DEF IInv

(* A component of a file's path is not looked for.                         *)
LEMMA ThroughFileKeeps == ASSUME IInv, ThroughFile PROVE IInv'
<1>1. /\ call # Idle /\ node = NoEntry /\ rest # <<>>
      /\ ~ IsDir(current_entry.attributes)
      /\ Return("not found", current_entry)
      /\ UNCHANGED <<walkVars, node, aborted>>
      /\ TypeOK /\ current_entry \in DirEntry
  BY DEF ThroughFile, Walking, IInv, TypeOK
<1>2. /\ call' = Idle /\ outcome'.result = "not found"
      /\ outcome'.path = call.path
      /\ outcome' \in [want : {"nothing", "file", "dir"},
                       path : Paths \cup {<<>>},
                       result : Results, entry : DirEntry]
  BY <1>1, CallType DEF Results
<1>3. TypeOK'
  BY <1>1, <1>2 DEF TypeOK, walkVars
<1>4. FollowsTrail' /\ EntryInv'
  BY <1>1, WalkKeeps
<1>5. SearchInv' /\ AnswerInv' /\ AbsenceInv'
  BY <1>1, <1>2, <1>4 DEF SearchInv, AnswerInv, AbsenceInv, walkVars
<1>6. SplitInv'
  BY <1>1, <1>2, SplitReturned DEF IInv
<1>7. QED
  BY <1>3, <1>4, <1>5, <1>6 DEF IInv

(* A search begins at the first entry of the table.                        *)
LEMMA EnterTableKeeps == ASSUME IInv, EnterTable PROVE IInv'
<1> DEFINE base == TableOffset(current_entry)
<1>1. /\ call # Idle /\ node = NoEntry /\ rest # <<>>
      /\ IsDir(current_entry.attributes) /\ EntryInv
      /\ node' = ReadDirEntry(base)
      /\ UNCHANGED <<call, walkVars, aborted, outcome>>
  BY DEF EnterTable, Walking, IInv
<1>2. /\ base \in Table(base) /\ base \in Offsets
      /\ \A x \in Table(base) :
           Disc[x].name = Component => x \in Subtree[base][base]
  BY <1>1, SearchBegins
<1>3. TypeOK'
  BY <1>1, <1>2, ReadType DEF IInv, TypeOK, walkVars
<1>4. SearchInv'
  BY <1>1, <1>2 DEF SearchInv, walkVars, Component, TableOffset, Table
<1>5. SplitInv'
  BY <1>1, SplitKept DEF IInv
<1>6. QED
  BY <1>1, <1>3, <1>4, <1>5, WalkKeeps, BusyKeeps DEF IInv

(* The node of a search, and the table it is in.                           *)
LEMMA NodeFacts ==
  ASSUME IInv, node # NoEntry
  PROVE  /\ TableOffset(current_entry) \in DirBases
         /\ Component \in Name /\ rest # <<>> /\ call # Idle
         /\ IsDir(current_entry.attributes)
BY TableReached, ComponentType DEF IInv, SearchInv, TypeOK

(* The search goes down on the side where the name is.                     *)
LEMMA DescendKeeps == ASSUME IInv, Descend PROVE IInv'
<1> DEFINE base == TableOffset(current_entry)
<1>1. /\ node # NoEntry /\ node.name # Component
      /\ ChildDwords(Component, node) # 0
      /\ node' = ReadDirEntry(Child(base, ChildDwords(Component, node)))
      /\ UNCHANGED <<call, walkVars, aborted, outcome>>
  BY DEF Descend, Searching
<1>2. /\ base \in DirBases /\ Component \in Name /\ rest # <<>> /\ call # Idle
      /\ IsDir(current_entry.attributes)
  BY <1>1, NodeFacts
<1>3. PICK o \in Table(base) :
        /\ node = ReadDirEntry(o)
        /\ \A x \in Table(base) :
             Disc[x].name = Component => x \in Subtree[base][o]
  BY <1>1 DEF IInv, SearchInv
<1>4. Disc[o].name # Component
  BY <1>1, <1>2, <1>3, TableFacts, ReadType
<1> DEFINE c == Child(base, ChildDwords(Component, node))
<1>5. /\ c \in Table(base) /\ c \in Offsets
      /\ \A x \in Table(base) : Disc[x].name = Component => x \in Subtree[base][c]
  BY <1>1, <1>2, <1>3, <1>4, SearchDescends
<1>6. TypeOK'
  BY <1>1, <1>5, ReadType DEF IInv, TypeOK, walkVars
<1>7. SearchInv'
  BY <1>1, <1>2, <1>5 DEF SearchInv, walkVars, Component, TableOffset, Table
<1>8. SplitInv'
  BY <1>1, SplitKept DEF IInv
<1>9. QED
  BY <1>1, <1>2, <1>6, <1>7, <1>8, WalkKeeps, BusyKeeps DEF IInv

(* Where there is no child the name is not in the table.                   *)
LEMMA NotFoundKeeps == ASSUME IInv, NotFound PROVE IInv'
<1> DEFINE base == TableOffset(current_entry)
<1>1. /\ node # NoEntry /\ node.name # Component
      /\ ChildDwords(Component, node) = 0
      /\ node' = NoEntry
      /\ Return("not found", current_entry)
      /\ UNCHANGED <<walkVars, aborted>>
      /\ TypeOK /\ current_entry \in DirEntry
  BY DEF NotFound, Searching, IInv, TypeOK
<1>2. /\ base \in DirBases /\ Component \in Name /\ rest # <<>> /\ call # Idle
  BY <1>1, NodeFacts
<1>3. PICK o \in Table(base) :
        /\ node = ReadDirEntry(o)
        /\ \A x \in Table(base) :
             Disc[x].name = Component => x \in Subtree[base][o]
  BY <1>1 DEF IInv, SearchInv
<1>4. Disc[o].name # Component
  BY <1>1, <1>2, <1>3, TableFacts, ReadType
<1>5. \A x \in Table(base) : Disc[x].name # Component
  BY <1>1, <1>2, <1>3, <1>4, SearchDescends
<1>6. \A entry \in EntriesOf(current_entry) : entry.name # Component
  BY <1>2, <1>5, TableFacts, ReadType DEF EntriesOf
<1>7. /\ call' = Idle /\ outcome'.result = "not found"
      /\ outcome'.path = call.path
      /\ outcome' \in [want : {"nothing", "file", "dir"},
                       path : Paths \cup {<<>>},
                       result : Results, entry : DirEntry]
  BY <1>1, <1>2, CallType DEF Results
<1>8. TypeOK'
  BY <1>1, <1>7 DEF TypeOK, walkVars
<1>9. FollowsTrail' /\ EntryInv' /\ SearchInv'
  BY <1>1, WalkKeeps DEF SearchInv
<1>10. AbsenceInv'
  BY <1>1, <1>2, <1>6, <1>9 DEF AbsenceInv, walkVars, Component, EntriesOf,
     TableOffset, Table, ReadDirEntry
<1>11. AnswerInv'
  BY <1>7 DEF AnswerInv
<1>12. SplitInv'
  BY <1>1, <1>2, <1>7, SplitReturned DEF IInv
<1>13. QED
  BY <1>8, <1>9, <1>10, <1>11, <1>12 DEF IInv

(* A name goes over from the beginning of one sequence to the end of       *)
(* another.                                                                *)
LEMMA OneAcross ==
  ASSUME NEW S, NEW s \in Seq(S), NEW t \in Seq(S), NEW u \in Seq(S), NEW x \in S,
         Len(t) = Len(u) + 1, t[1] = x, \A k \in 1 .. Len(u) : t[k + 1] = u[k]
  PROVE  s \o t = Append(s, x) \o u
<1> DEFINE a == Append(s, x)
<1>1. /\ a \in Seq(S) /\ Len(a) = Len(s) + 1 /\ a[Len(s) + 1] = x
      /\ \A i \in 1 .. Len(s) : a[i] = s[i]
  OBVIOUS
<1> HIDE DEF a
<1> DEFINE both == a \o u
<1>2. /\ both \in Seq(S) /\ Len(both) = Len(a) + Len(u)
      /\ \A i \in 1 .. Len(a) : both[i] = a[i]
      /\ \A i \in 1 .. Len(u) : both[Len(a) + i] = u[i]
  <2>1. a \in Seq(S) /\ u \in Seq(S)
    BY <1>1
  <2> QED
    BY <2>1, ConcatFacts
<1> HIDE DEF both
<1>3. Len(s) \in Nat /\ Len(u) \in Nat
  OBVIOUS
<1>4. \A i \in 1 .. Len(s) : both[i] = s[i]
  BY <1>1, <1>2, <1>3
<1>5. ASSUME NEW i \in 1 .. Len(t)
      PROVE  both[Len(s) + i] = t[i]
  <2>1. CASE i = 1
    <3>1. Len(s) + 1 \in 1 .. Len(a)
      BY <1>1, <1>3
    <3> QED
      BY <1>1, <1>2, <2>1, <3>1
  <2>2. CASE i # 1
    <3>1. /\ i - 1 \in 1 .. Len(u) /\ (i - 1) + 1 = i
          /\ Len(a) + (i - 1) = Len(s) + i
      BY <1>1, <1>3, <2>2
    <3> QED
      BY <1>2, <3>1
  <2> QED
    BY <2>1, <2>2
<1>6. Len(both) = Len(s) + Len(t)
  BY <1>1, <1>2, <1>3
<1>7. s \o t = both
  BY <1>2, <1>4, <1>5, <1>6, JoinedIs
<1> QED
  BY <1>7 DEF both, a

(* A found entry becomes the end of the trail.                             *)
LEMMA FoundKeeps == ASSUME IInv, Found PROVE IInv'
<1> DEFINE base == TableOffset(current_entry)
           n == Len(walked)
<1>1. /\ node # NoEntry /\ node.name = Component
      /\ current_entry' = node /\ node' = NoEntry
      /\ rest' = BehindComponent
      /\ walked' = Append(walked, Component)
      /\ trail' = Append(trail, node)
      /\ UNCHANGED <<call, aborted, outcome>>
  BY DEF Found, Searching
<1>2. /\ base \in DirBases /\ Component \in Name /\ rest # <<>> /\ call # Idle
      /\ IsDir(current_entry.attributes)
  BY <1>1, NodeFacts
<1>3. PICK o \in Table(base) : node = ReadDirEntry(o)
  BY <1>1 DEF IInv, SearchInv
<1>4. o \in Offsets /\ node \in DirEntry /\ node \in EntriesOf(current_entry)
  BY <1>2, <1>3, TableFacts, ReadType DEF EntriesOf
<1>5. /\ walked \in Seq(Name) /\ trail \in Seq(DirEntry) /\ n \in Nat
      /\ Len(trail) = n + 1 /\ trail[n + 1] = current_entry
      /\ trail[1] = root_entry_
      /\ \A k \in 1 .. n : /\ IsDir(trail[k].attributes)
                           /\ trail[k + 1] \in EntriesOf(trail[k])
                           /\ trail[k + 1].name = walked[k]
  BY DEF IInv, TypeOK, FollowsTrail
<1>6. /\ walked' \in Seq(Name) /\ trail' \in Seq(DirEntry)
      /\ Len(walked') = n + 1 /\ Len(trail') = n + 2
      /\ \A k \in 1 .. n : walked'[k] = walked[k]
      /\ walked'[n + 1] = Component
      /\ \A k \in 1 .. n + 1 : trail'[k] = trail[k]
      /\ trail'[n + 2] = node
  BY <1>1, <1>2, <1>4, <1>5
<1>7. FollowsTrail'
  <2>1. Len(trail') = Len(walked') + 1 /\ trail'[1] = root_entry_
        /\ trail'[Len(trail')] = current_entry'
    BY <1>1, <1>5, <1>6
  <2>2. ASSUME NEW k \in 1 .. n + 1
        PROVE  /\ IsDir(trail'[k].attributes)
               /\ trail'[k + 1] \in EntriesOf(trail'[k])
               /\ trail'[k + 1].name = walked'[k]
    <3>1. CASE k \in 1 .. n
      BY <3>1, <1>5, <1>6
    <3>2. CASE k = n + 1
      <4>1. /\ trail'[k] = current_entry /\ trail'[k + 1] = node
            /\ walked'[k] = Component
        BY <3>2, <1>5, <1>6
      <4>2. QED
        BY <4>1, <1>1, <1>2, <1>4
    <3>3. QED
      BY <3>1, <3>2, <1>5
  <2>3. QED
    BY <2>1, <2>2, <1>6 DEF FollowsTrail, root_entry_, EntriesOf, TableOffset,
       Table, ReadDirEntry
<1>8. TypeOK'
  BY <1>1, <1>4, <1>6, ComponentType, <1>2 DEF IInv, TypeOK
<1>9. EntryInv' /\ SearchInv'
  BY <1>1, <1>3, <1>4 DEF EntryInv, SearchInv, ReadDirEntry, root_entry_
<1>10. SplitInv'
  <2>1. /\ rest \in Seq(Token) /\ Tokens(rest) /\ IsFullPath(call.path)
        /\ Components(Tail(call.path)) = walked \o Components(rest)
    BY <1>2 DEF IInv, TypeOK, SplitInv, SplitsPath, Token
  <2>2. rest' \in Seq(Token) /\ Tokens(rest') /\ rest' = BehindFirst(rest)
    BY <1>1, <1>2, <2>1, ComponentIs, BehindFacts
  <2>3. /\ Components(rest) \in Seq(Name) /\ Components(rest') \in Seq(Name)
    BY <2>1, <2>2, ComponentsType
  <2>4. /\ Len(Components(rest)) = Len(Components(rest')) + 1
        /\ Components(rest)[1] = Component
        /\ \A k \in 1 .. Len(Components(rest')) :
             Components(rest)[k + 1] = Components(rest')[k]
    BY <1>2, <2>1, <2>2, ComponentIs, ComponentsFirst
  <2>5. walked \o Components(rest) = Append(walked, Component) \o Components(rest')
    BY <1>2, <1>5, <2>3, <2>4, OneAcross
  <2>6. SplitsPath'
    BY <1>1, <1>2, <2>1, <2>5 DEF SplitsPath
  <2>7. Tokens(rest)'
    BY <2>2
  <2> QED
    BY <1>1, <1>2, <2>1, <2>6, <2>7 DEF IInv, SplitInv, IsFullPath
<1>11. QED
  BY <1>1, <1>2, <1>7, <1>8, <1>9, <1>10, BusyKeeps DEF IInv

(* An aborted process says nothing more.                                   *)
LEMMA ReadAbortsKeeps == ASSUME IInv, ReadAborts PROVE IInv'
<1>1. UNCHANGED <<call, walkVars, node, outcome>> /\ aborted' \in BOOLEAN
  BY DEF ReadAborts
<1>2. TypeOK'
  BY <1>1 DEF IInv, TypeOK, walkVars
<1>3. FollowsTrail' /\ EntryInv'
  BY <1>1, WalkKeeps
<1>4. SearchInv'
  BY <1>1 DEF IInv, walkVars, SearchInv, Component, TableOffset, Table, ReadDirEntry
<1>5. AnswerInv' /\ AbsenceInv'
  BY <1>1, <1>3 DEF IInv, walkVars, AnswerInv, AbsenceInv,
     Component, EntriesOf, TableOffset, Table, ReadDirEntry
<1>6. SplitInv'
  BY <1>1, SplitKept DEF IInv
<1>7. QED
  BY <1>2, <1>3, <1>4, <1>5, <1>6 DEF IInv

(* The end of the path: the entry reached is the answer.                   *)
LEMMA ResolvedKeeps == ASSUME IInv, Resolved PROVE IInv'
<1> DEFINE result == IF IsDir(current_entry.attributes) = (call.want = "dir")
                     THEN "opened" ELSE "wrong kind"
<1>1. /\ call # Idle /\ node = NoEntry /\ rest = <<>>
      /\ Return(result, current_entry)
      /\ UNCHANGED <<walkVars, node, aborted>>
      /\ TypeOK /\ current_entry \in DirEntry
  BY DEF Resolved, Walking, IInv, TypeOK
<1>2. result \in Results
  BY DEF Results
<1>3. /\ call' = Idle /\ outcome'.result = result
      /\ outcome'.entry = current_entry /\ outcome'.want = call.want
      /\ outcome'.path = call.path
      /\ outcome' \in [want : {"nothing", "file", "dir"},
                       path : Paths \cup {<<>>},
                       result : Results, entry : DirEntry]
  BY <1>1, <1>2, CallType
<1>4. TypeOK'
  BY <1>1, <1>3 DEF TypeOK, walkVars
<1>5. FollowsTrail' /\ EntryInv' /\ SearchInv'
  BY <1>1, WalkKeeps DEF SearchInv
<1>6. AnswerInv' /\ AbsenceInv'
  BY <1>1, <1>3, <1>5 DEF AnswerInv, AbsenceInv, walkVars
<1>7. SplitInv'
  BY <1>1, <1>3, SplitReturned DEF IInv
<1>8. QED
  BY <1>4, <1>5, <1>6, <1>7 DEF IInv

(* Every step of the program keeps the invariant.                          *)
LEMMA IInvStep == IInv /\ [Next]_vars => IInv'
<1>1. ASSUME IInv, UNCHANGED vars
      PROVE  IInv'
  <2>1. UNCHANGED <<call, walkVars, node, outcome, aborted>>
    BY <1>1 DEF vars
  <2>2. TypeOK'
    BY <1>1, <2>1 DEF IInv, TypeOK, walkVars
  <2>3. FollowsTrail' /\ EntryInv'
    BY <1>1, <2>1, WalkKeeps
  <2>4. SearchInv'
    BY <1>1, <2>1 DEF IInv, walkVars, SearchInv, Component, TableOffset, Table,
       ReadDirEntry
  <2>5. AnswerInv' /\ AbsenceInv'
    BY <1>1, <2>1, <2>3 DEF IInv, walkVars, AnswerInv, AbsenceInv,
       Component, EntriesOf, TableOffset, Table, ReadDirEntry
  <2>6. SplitInv'
    BY <1>1, <2>1, SplitKept DEF IInv
  <2>7. QED
    BY <2>2, <2>3, <2>4, <2>5, <2>6 DEF IInv
<1>2. QED
  BY <1>1, OpenKeeps, OpenRelativeKeeps, ThroughFileKeeps, EnterTableKeeps,
     DescendKeeps, NotFoundKeeps, FoundKeeps, ReadAbortsKeeps, ResolvedKeeps
     DEF Next, Step, Progress

(* Nothing has been asked yet.                                             *)
LEMMA IInvInit == Init => IInv
<1> SUFFICES ASSUME Init PROVE IInv
  OBVIOUS
<1>1. TypeOK
  <2>1. walked \in Seq(Name) /\ trail \in Seq(DirEntry)
        /\ rest \in Seq(Name \cup {Slash})
    BY RootType DEF Init
  <2>2. QED
    BY <2>1, RootType DEF Init, TypeOK, Results
<1>2. FollowsTrail /\ EntryInv /\ SearchInv
  BY DEF Init, FollowsTrail, EntryInv, SearchInv
<1>3. AnswerInv /\ AbsenceInv
  BY DEF Init, AnswerInv, AbsenceInv
<1>4. SplitInv
  BY DEF Init, SplitInv, SplitsPath, IsFullPath, Tokens
<1>5. QED
  BY <1>1, <1>2, <1>3, <1>4 DEF IInv

(* IInv is an invariant: the trail leads from the root to the entry        *)
(* reached, and a search never loses the entry it looks for.               *)
THEOREM InductiveInvariant == Spec => []IInv
BY IInvInit, IInvStep, PTL DEF Spec

(* The walk and the search keep their types: entries are only read where   *)
(* the disc has some.                                                      *)
THEOREM TypeCorrect == Spec => []TypeOK
<1>1. IInv => TypeOK
  BY DEF IInv
<1>2. QED
  BY <1>1, InductiveInvariant, PTL

-----------------------------------------------------------------------------
(* What the walk has come to, on the disc.                                 *)

(* The entries of the trail are read from the disc, each in a directory.   *)
LEMMA TrailRead ==
  ASSUME TypeOK, FollowsTrail, NEW k \in 1 .. Len(walked)
  PROVE  \E o \in Offsets : trail[k + 1] = ReadDirEntry(o)
<1> DEFINE T == {j \in 1 .. Len(walked) :
                   ~ \E o \in Offsets : trail[j + 1] = ReadDirEntry(o)}
<1> SUFFICES ASSUME T # {} PROVE FALSE
  OBVIOUS
<1>1. T \in SUBSET Nat
  OBVIOUS
<1>2. PICK j \in T : \A i \in T : j <= i
  BY <1>1, LeastOf
<1>3. /\ j \in 1 .. Len(walked) /\ Len(walked) \in Nat
      /\ ~ \E o \in Offsets : trail[j + 1] = ReadDirEntry(o)
  BY <1>2 DEF TypeOK
<1>4. j # 1 => j - 1 \in 1 .. Len(walked) /\ j - 1 \notin T /\ (j - 1) + 1 = j
  <2>1. j # 1 => j - 1 \in 1 .. Len(walked) /\ ~ j <= j - 1 /\ (j - 1) + 1 = j
    BY <1>3
  <2> HIDE DEF T
  <2> QED
    BY <1>2, <2>1
<1>5. j = 1 \/ \E o \in Offsets : trail[j] = ReadDirEntry(o)
  BY <1>4
<1> HIDE DEF T
<1>6. IsDir(trail[j].attributes) /\ trail[j + 1] \in EntriesOf(trail[j])
  BY <1>3 DEF FollowsTrail
<1>7. TableOffset(trail[j]) \in DirBases
  <2>1. CASE j = 1
    BY <2>1, PathAssumption DEF FollowsTrail, root_entry_, TableOffset, DirBases
  <2>2. ASSUME NEW o \in Offsets, trail[j] = ReadDirEntry(o)
        PROVE  TableOffset(trail[j]) \in DirBases
    BY <1>6, <2>2 DEF ReadDirEntry, TableOffset, DirBases
  <2> QED
    BY <1>5, <2>1, <2>2
<1> QED
  BY <1>3, <1>6, <1>7, TableFacts DEF EntriesOf

(* They are the chain that the components walked lead along.               *)
LEMMA TrailChain ==
  ASSUME TypeOK, FollowsTrail, NEW chain,
         chain = [k \in 1 .. Len(walked) |-> trail[k + 1].offset_bytes]
  PROVE  /\ chain \in Chains(RootSector, walked)
         /\ chain \in Seq(Offsets) /\ Len(chain) = Len(walked)
         /\ \A k \in 1 .. Len(walked) : trail[k + 1] = ReadDirEntry(chain[k])
<1> DEFINE n == Len(walked)
<1>1. /\ n \in Nat /\ trail[1] = root_entry_
      /\ \A k \in 1 .. n : /\ IsDir(trail[k].attributes)
                           /\ trail[k + 1] \in EntriesOf(trail[k])
                           /\ trail[k + 1].name = walked[k]
  BY DEF TypeOK, FollowsTrail
<1>2. ASSUME NEW k \in 1 .. n
      PROVE  chain[k] \in Offsets /\ trail[k + 1] = ReadDirEntry(chain[k])
  <2>1. PICK o \in Offsets : trail[k + 1] = ReadDirEntry(o)
    BY TrailRead
  <2>2. chain[k] = o
    BY <2>1 DEF ReadDirEntry
  <2> QED
    BY <2>1, <2>2
<1>3. chain \in Seq(Offsets) /\ Len(chain) = n
  BY <1>1, <1>2
<1>4. ASSUME NEW k \in 1 .. n
      PROVE  /\ Disc[chain[k]].name = walked[k]
             /\ k > 1 => IsDir(Disc[chain[k - 1]].attributes)
             /\ chain[k] \in Table(EndOf(RootSector, SubSeq(chain, 1, k - 1)))
  <2> DEFINE front == SubSeq(chain, 1, k - 1)
  <2>1. Disc[chain[k]].name = walked[k]
    BY <1>1, <1>2, ReadType
  <2>2. k > 1 => k - 1 \in 1 .. n /\ trail[k] = ReadDirEntry(chain[k - 1])
    <3> SUFFICES ASSUME k > 1
                 PROVE  k - 1 \in 1 .. n /\ trail[k] = ReadDirEntry(chain[k - 1])
      OBVIOUS
    <3>1. k - 1 \in 1 .. n /\ (k - 1) + 1 = k
      BY <1>1
    <3> QED
      BY <1>2, <3>1
  <2>3. k > 1 => IsDir(Disc[chain[k - 1]].attributes)
    BY <1>1, <2>2 DEF ReadDirEntry
  <2>4. /\ front \in Seq(Offsets) /\ Len(front) = k - 1
        /\ \A i \in 1 .. k - 1 : front[i] = chain[i]
    BY <1>1, <1>3, PrefixFacts
  <2> HIDE DEF front
  <2>5. EndOf(RootSector, front) = TableOffset(trail[k])
    <3>1. CASE k = 1
      <4>1. front = <<>>
        BY <2>4, <3>1
      <4> QED
        BY <1>1, <3>1, <4>1 DEF EndOf, TableOffset, root_entry_
    <3>2. CASE k > 1
      <4>1. Len(front) = k - 1 /\ k - 1 \in 1 .. k - 1 /\ front # <<>>
        BY <1>1, <2>4, <3>2
      <4>2. front[Len(front)] = chain[k - 1]
        BY <2>4, <4>1
      <4> QED
        BY <2>2, <3>2, <4>1, <4>2 DEF EndOf, TableOffset, ReadDirEntry
    <3> QED
      BY <3>1, <3>2
  <2>6. PICK o \in Table(TableOffset(trail[k])) : trail[k + 1] = ReadDirEntry(o)
    BY <1>1 DEF EntriesOf
  <2>7. chain[k] = o
    BY <2>6 DEF ReadDirEntry
  <2> QED
    BY <2>1, <2>3, <2>5, <2>6, <2>7 DEF front
<1>5. chain \in [1 .. Len(walked) -> Offsets]
  BY <1>2
<1> QED
  BY <1>2, <1>3, <1>4, <1>5 DEF Chains

(* The entry reached is the end of that chain.                             *)
LEMMA EndReached ==
  ASSUME TypeOK, FollowsTrail
  PROVE  \E c \in Chains(RootSector, walked) :
           /\ EndOf(RootSector, c) = TableOffset(current_entry)
           /\ IsDir(current_entry.attributes)
                <=> (c # <<>> => IsDir(Disc[c[Len(c)]].attributes))
           /\ c # <<>> => c[Len(c)] = current_entry.offset_bytes
           /\ c \in Seq(Offsets)
<1> DEFINE n == Len(walked)
           c == [k \in 1 .. n |-> trail[k + 1].offset_bytes]
<1>1. /\ c \in Chains(RootSector, walked) /\ c \in Seq(Offsets) /\ Len(c) = n
      /\ \A k \in 1 .. n : trail[k + 1] = ReadDirEntry(c[k])
  BY TrailChain
<1>2. /\ n \in Nat /\ trail[1] = root_entry_ /\ trail[n + 1] = current_entry
  BY DEF TypeOK, FollowsTrail
<1> HIDE DEF c
<1>3. CASE n = 0
  <2>1. c = <<>> /\ current_entry = root_entry_
    BY <1>1, <1>2, <1>3
  <2>2. IsDir(current_entry.attributes)
    BY <2>1 DEF root_entry_, IsDir, kAttributeIsDirectoryMask
  <2> QED
    BY <1>1, <2>1, <2>2 DEF EndOf, TableOffset, root_entry_
<1>4. CASE n # 0
  <2>1. c # <<>> /\ n \in 1 .. n /\ current_entry = ReadDirEntry(c[Len(c)])
    BY <1>1, <1>2, <1>4
  <2> QED
    BY <1>1, <2>1 DEF EndOf, TableOffset, ReadDirEntry
<1> QED
  BY <1>3, <1>4

(* At the end of a path its components are those walked.                   *)
LEMMA NothingLeft ==
  ASSUME walked \in Seq(Name), rest = <<>>
  PROVE  walked \o Components(rest) = walked
BY NoComponents

(* Before the end there is one more, which std::getline takes off.         *)
LEMMA OneMoreName ==
  ASSUME rest \in Seq(Token), Tokens(rest), rest # <<>>,
         NEW ahead, ahead = Components(rest)
  PROVE  ahead \in Seq(Name) /\ 1 \in 1 .. Len(ahead) /\ ahead[1] = Component
<1> DEFINE behind == Components(BehindFirst(rest))
<1>1. ahead \in Seq(Name)
  BY ComponentsType
<1>2. behind \in Seq(Name)
  BY BehindFacts, ComponentsType
<1>3. Len(ahead) = Len(behind) + 1 /\ ahead[1] = Component
  BY ComponentsFirst, ComponentIs
<1> HIDE DEF behind
<1>4. Len(behind) \in Nat
  BY <1>2
<1> QED
  BY <1>1, <1>3, <1>4

(* An answer is what the components name: where the walk ended.            *)
LEMMA AnswerIsNamed == IInv => OpensWhatPathNames
<1> SUFFICES ASSUME IInv, call = Idle, outcome.result \in {"opened", "wrong kind"}
             PROVE  LET names == Components(Tail(outcome.path))
                        isdir == IsDir(outcome.entry.attributes)
                    IN /\ DirsNamed(RootSector, names) =
                            IF isdir THEN {TableOffset(outcome.entry)} ELSE {}
                       /\ FilesNamed(RootSector, names) =
                            IF isdir THEN {} ELSE {outcome.entry.offset_bytes}
                       /\ (outcome.result = "opened")
                            = (isdir = (outcome.want = "dir"))
  BY DEF OpensWhatPathNames
<1>1. /\ TypeOK /\ FollowsTrail /\ rest = <<>> /\ outcome.entry = current_entry
      /\ (outcome.result = "opened")
           = (IsDir(current_entry.attributes) = (outcome.want = "dir"))
      /\ walked \in Seq(Name)
  BY DEF IInv, AnswerInv, TypeOK
<1>2. Components(Tail(outcome.path)) = walked
  <2>1. Components(Tail(outcome.path)) = walked \o Components(rest)
    BY DEF IInv, SplitInv, SplitsPath
  <2> QED
    BY <1>1, <2>1, NothingLeft
<1>3. PICK c \in Chains(RootSector, walked) :
        /\ EndOf(RootSector, c) = TableOffset(current_entry)
        /\ IsDir(current_entry.attributes)
             <=> (c # <<>> => IsDir(Disc[c[Len(c)]].attributes))
        /\ c # <<>> => c[Len(c)] = current_entry.offset_bytes
        /\ c \in Seq(Offsets)
  BY <1>1, EndReached
<1>4. Chains(RootSector, walked) = {c}
  BY <1>1, <1>3, OneChain, PathAssumption
<1>5. DirsNamed(RootSector, walked) =
        IF IsDir(current_entry.attributes) THEN {TableOffset(current_entry)} ELSE {}
  BY <1>3, <1>4, Zenon DEF DirsNamed
<1>6. FilesNamed(RootSector, walked) =
        IF IsDir(current_entry.attributes) THEN {} ELSE {current_entry.offset_bytes}
  BY <1>3, <1>4, Zenon DEF FilesNamed
<1> QED
  BY <1>1, <1>2, <1>5, <1>6

(* Where the directory reached has no entry of the next name no chain goes *)
(* on.                                                                     *)
LEMMA NoChainFurther ==
  ASSUME TypeOK, FollowsTrail, NEW ahead \in Seq(Name), 1 \in 1 .. Len(ahead),
         IsDir(current_entry.attributes) =>
           \A entry \in EntriesOf(current_entry) : entry.name # ahead[1],
         NEW names, names = walked \o ahead
  PROVE  Chains(RootSector, names) = {}
<1> DEFINE n == Len(walked)
<1>1. walked \in Seq(Name) /\ n \in Nat
  BY DEF TypeOK
<1>2. /\ names \in Seq(Name) /\ Len(names) = n + Len(ahead)
      /\ \A i \in 1 .. n : names[i] = walked[i]
      /\ \A i \in 1 .. Len(ahead) : names[n + i] = ahead[i]
  BY <1>1, ConcatFacts
<1>3. n + 1 \in 1 .. Len(names) /\ n <= Len(names) /\ names[n + 1] = ahead[1]
      /\ (n + 1) - 1 = n
  BY <1>1, <1>2
<1>4. SubSeq(names, 1, n) = walked
  <2> DEFINE front == SubSeq(names, 1, n)
  <2>1. /\ front \in Seq(Name) /\ Len(front) = n
        /\ \A i \in 1 .. n : front[i] = names[i]
    BY <1>1, <1>2, <1>3, PrefixFacts
  <2> HIDE DEF front
  <2>2. \A i \in 1 .. n : front[i] = walked[i]
    BY <1>2, <2>1
  <2>3. front = walked
    BY <1>1, <2>1, <2>2
  <2> QED
    BY <2>3 DEF front
<1> SUFFICES ASSUME NEW d \in Chains(RootSector, names) PROVE FALSE
  OBVIOUS
<1>5. PICK c \in Chains(RootSector, walked) :
        /\ EndOf(RootSector, c) = TableOffset(current_entry)
        /\ IsDir(current_entry.attributes)
             <=> (c # <<>> => IsDir(Disc[c[Len(c)]].attributes))
        /\ c \in Seq(Offsets)
  BY EndReached
<1>6. SubSeq(d, 1, n) = c
  <2>1. SubSeq(d, 1, n) \in Chains(RootSector, walked)
    BY <1>1, <1>2, <1>3, <1>4, ChainPrefix
  <2> QED
    BY <1>1, <1>5, <2>1, OneChain, PathAssumption
<1>7. /\ Disc[d[n + 1]].name = ahead[1]
      /\ n + 1 > 1 => IsDir(Disc[d[n]].attributes)
      /\ d[n + 1] \in Table(TableOffset(current_entry))
      /\ d[n + 1] \in Offsets
  <2>1. /\ Disc[d[n + 1]].name = names[n + 1]
        /\ n + 1 > 1 => IsDir(Disc[d[(n + 1) - 1]].attributes)
        /\ d[n + 1] \in Table(EndOf(RootSector, SubSeq(d, 1, (n + 1) - 1)))
        /\ d[n + 1] \in Offsets
    BY <1>3 DEF Chains
  <2> QED
    BY <1>3, <1>5, <1>6, <2>1
<1>8. IsDir(current_entry.attributes)
  <2>1. d \in Seq(Offsets) /\ Len(d) = Len(names)
    BY <1>2, ChainType
  <2>2. Len(c) = n /\ \A i \in 1 .. n : c[i] = d[i]
    BY <1>1, <1>3, <1>6, <2>1, PrefixFacts
  <2>3. c # <<>> => n \in 1 .. n /\ n + 1 > 1
    BY <1>1, <1>5, <2>2
  <2> QED
    BY <1>5, <1>7, <2>2, <2>3
<1>9. ReadDirEntry(d[n + 1]) \in EntriesOf(current_entry)
  BY <1>7 DEF EntriesOf
<1>10. ReadDirEntry(d[n + 1]).name = ahead[1]
  BY <1>7, ReadType
<1> QED
  BY <1>8, <1>9, <1>10

(* What the walk could not follow leads nowhere.                           *)
LEMMA AbsentIsUnnamed == IInv => NotFoundIsAbsent
<1> SUFFICES ASSUME IInv, call = Idle, outcome.result = "not found"
             PROVE  Chains(RootSector, Components(Tail(outcome.path))) = {}
  BY Zenon DEF NotFoundIsAbsent, DirsNamed, FilesNamed
<1>1. /\ TypeOK /\ FollowsTrail /\ rest # <<>>
      /\ rest \in Seq(Token) /\ Tokens(rest)
      /\ IsDir(current_entry.attributes) =>
           \A entry \in EntriesOf(current_entry) : entry.name # Component
  BY DEF IInv, AbsenceInv, TypeOK, SplitInv, Token
<1>2. Components(Tail(outcome.path)) = walked \o Components(rest)
  BY DEF IInv, SplitInv, SplitsPath
<1> DEFINE ahead == Components(rest)
<1>3. ahead \in Seq(Name) /\ 1 \in 1 .. Len(ahead) /\ ahead[1] = Component
  BY <1>1, OneMoreName
<1> HIDE DEF ahead
<1>4. Chains(RootSector, walked \o ahead) = {}
  BY <1>1, <1>3, NoChainFurther
<1> QED
  BY <1>2, <1>4 DEF ahead

(* What OpenFile and OpenDir answer of a path is what its components name  *)
(* on the disc: the one directory or file at the end of the one chain of   *)
(* entries from the root.                                                  *)
THEOREM OpensRightEntry == Spec => []OpensWhatPathNames
BY AnswerIsNamed, InductiveInvariant, PTL

(* "Could not find given file." is said only of what is not there: the     *)
(* binary search of LookupDirEntryInTable, which compares for equality     *)
(* with case and for order without, misses no entry of a search tree, and  *)
(* no chain of entries has the components of the path.                     *)
THEOREM SearchMissesNothing == Spec => []NotFoundIsAbsent
BY AbsentIsUnnamed, InductiveInvariant, PTL

(* SplitPath neither loses a component of a path nor makes one up: what is *)
(* walked and what is left are always the components between the slashes.  *)
THEOREM SplitsRight == Spec => []SplitsPath
<1>1. IInv => SplitsPath
  BY DEF IInv, SplitInv
<1>2. QED
  BY <1>1, InductiveInvariant, PTL

-----------------------------------------------------------------------------
(* How a lookup comes to an end.                                           *)

(* From a child of an entry the search gets to less than from the entry.   *)
LEMMA ChildReachesLess ==
  ASSUME NEW base \in DirBases, NEW o \in Table(base),
         NEW c \in LeftOf(base, o) \cup RightOf(base, o)
  PROVE  /\ Subtree[base][c] \subseteq Subtree[base][o]
         /\ Subtree[base][c] # Subtree[base][o]
<1> DEFINE left == Below(base, LeftOf(base, o))
           right == Below(base, RightOf(base, o))
<1>1. Subtree[base][o] = {o} \cup left \cup right
  BY SubtreeUnfold
<1>2. Subtree[base][c] \subseteq left \cup right
  BY DEF Below
<1>3. o \notin left \cup right
  BY TreeAssumption
<1> QED
  BY <1>1, <1>2, <1>3

(* A round of the loop of LookupDirEntryInTable goes to such a child.      *)
LEMMA DescendShrinks ==
  ASSUME IInv, Descend
  PROVE  node' # NoEntry /\ Reach' \subseteq Reach /\ Reach' # Reach
<1> DEFINE base == TableOffset(current_entry)
           c == Child(base, ChildDwords(Component, node))
<1>1. /\ node # NoEntry /\ ChildDwords(Component, node) # 0
      /\ node' = ReadDirEntry(c) /\ current_entry' = current_entry
  BY DEF Descend, Searching, walkVars
<1>2. base \in DirBases
  BY <1>1, NodeFacts
<1>3. PICK o \in Table(base) : node = ReadDirEntry(o)
  BY <1>1 DEF IInv, SearchInv
<1>4. c \in LeftOf(base, o) \cup RightOf(base, o)
  BY <1>1, <1>3 DEF ChildDwords, LeftOf, RightOf, ReadDirEntry
<1>5. /\ Subtree[base][c] \subseteq Subtree[base][o]
      /\ Subtree[base][c] # Subtree[base][o]
  BY <1>2, <1>4, ChildReachesLess
<1>6. Reach = Subtree[base][o]
  BY <1>3 DEF Reach, ReadDirEntry
<1>7. Reach' = Subtree[base][c]
  BY <1>1 DEF Reach, ReadDirEntry, TableOffset
<1>8. node' # NoEntry
  BY <1>1, <1>2, <1>4, ChildrenFacts, ReadType
<1> QED
  BY <1>5, <1>6, <1>7, <1>8

(* An entry found takes its component off the path.                        *)
LEMMA FoundShortens == ASSUME IInv, Found PROVE Len(rest') < Len(rest)
<1>1. rest \in Seq(Token) /\ rest # <<>> /\ Tokens(rest)
  BY DEF Found, Searching, IInv, TypeOK, SearchInv, SplitInv, Token
<1>2. rest' = BehindFirst(rest)
  BY <1>1, ComponentIs DEF Found
<1>3. /\ Width(rest) \in {1, 2} /\ BehindFirst(rest) \in Seq(Token)
      /\ Width(rest) + Len(BehindFirst(rest)) \in {Len(rest), Len(rest) + 1}
      /\ Width(rest) = 1 => 1 + Len(BehindFirst(rest)) = Len(rest)
  BY <1>1, BehindFacts
<1>4. Len(BehindFirst(rest)) \in Nat /\ Len(rest) \in Nat
  BY <1>1, <1>3
<1> QED
  BY <1>2, <1>3, <1>4

(* The other steps of a lookup begin a search, or end the call.            *)
LEMMA ShrinksStep ==
  IInv /\ [Next]_vars =>
    [LookupGoesOn =>
       \/ Len(rest') < Len(rest)
       \/ /\ rest' = rest /\ current_entry' = current_entry
          /\ node' # NoEntry
          /\ node # NoEntry => Reach' \subseteq Reach /\ Reach' # Reach]_vars
<1> SUFFICES ASSUME IInv, Next, LookupGoesOn
             PROVE  \/ Len(rest') < Len(rest)
                    \/ /\ rest' = rest /\ current_entry' = current_entry
                       /\ node' # NoEntry
                       /\ node # NoEntry => Reach' \subseteq Reach /\ Reach' # Reach
  OBVIOUS
<1>1. EnterTable \/ Descend \/ Found
  BY DEF Next, Step, Progress, LookupGoesOn, Open, OpenRelative, Ready,
         ThroughFile, NotFound, Return, ReadAborts, Resolved
<1>2. CASE EnterTable
  <2>1. /\ node = NoEntry /\ IsDir(current_entry.attributes)
        /\ node' = ReadDirEntry(TableOffset(current_entry))
        /\ rest' = rest /\ current_entry' = current_entry
    BY <1>2 DEF EnterTable, Walking, walkVars
  <2>2. node' # NoEntry
    BY <2>1, SearchBegins, ReadType DEF IInv
  <2> QED
    BY <2>1, <2>2
<1>3. CASE Descend
  BY <1>3, DescendShrinks DEF Descend, walkVars
<1>4. CASE Found
  BY <1>4, FoundShortens
<1> QED
  BY <1>1, <1>2, <1>3, <1>4

(* Each step of a lookup leaves less of the path, or of the table that is  *)
(* searched: on any disc whose tables are finite trees, a lookup ends by   *)
(* itself.                                                                 *)
THEOREM LookupComesToEnd == Spec => LookupShrinks
BY InductiveInvariant, ShrinksStep, PTL DEF Spec, LookupShrinks
=============================================================================
