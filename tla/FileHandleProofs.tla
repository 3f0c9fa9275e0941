-------------------------- MODULE FileHandleProofs --------------------------
(***************************************************************************)
(* Proofs about FileHandle, for any number of Files, handles, descriptors  *)
(* and opened files, and any order of calls.                               *)
(***************************************************************************)
EXTENDS FileHandle, TLAPS

(* At the beginning nothing is open.                                       *)
LEMMA InitInv == Init => IInv
<1> SUFFICES ASSUME Init PROVE IInv
  OBVIOUS
<1>1. Files = {}
  BY DEF Init, Files
<1>2. TypeOK
  <2>1. aborted \in BOOLEAN
    BY Zenon DEF Init
  <2>2. /\ holds \in [Places -> {"nothing", "file", "error"}]
        /\ fd_ \in [Places -> Numbers \cup {-1}]
        /\ table \in [Numbers -> Nat]
        /\ opens \in Nat
    BY DEF Init
  <2>3. /\ backend \in [Handles -> Places \cup {Nowhere}]
        /\ opened \in [Places -> Nat]
        /\ \A p \in Files : opened[p] # 0
        /\ image \in [Handles -> Nat]
        /\ stale \subseteq Numbers
        /\ loose \subseteq Handles
    BY <1>1 DEF Init
  <2> QED
    BY <2>1, <2>2, <2>3 DEF TypeOK
<1>3. OwnsItsNumber /\ NothingLeaks /\ HandleInv
  BY <1>1 DEF Init, OwnsItsNumber, NothingLeaks, HandleInv
<1> QED
  BY <1>2, <1>3 DEF IInv

(* The types are kept.                                                     *)
LEMMA TypeStep == TypeOK /\ [Next]_vars => TypeOK'
<1> SUFFICES ASSUME TypeOK, [Next]_vars PROVE TypeOK'
  OBVIOUS
<1> USE NumbersAssumption DEF TypeOK, Files
<1>1. ASSUME NEW p \in Places, Open(p) PROVE TypeOK'
  BY <1>1, OpensAssumption DEF Open, handleVars
<1>2. ASSUME NEW p \in Places, OpenFails(p) PROVE TypeOK'
  BY <1>2 DEF OpenFails, hostVars, handleVars
<1>3. ASSUME NEW p \in Places, UseAborts(p) PROVE TypeOK'
  BY <1>3 DEF UseAborts, hostVars, handleVars
<1>4. ASSUME NEW p \in Places, Close(p) PROVE TypeOK'
  <2>1. HasNumber(p) => fd_[p] \in Numbers
    BY DEF HasNumber
  <2>2. table' \in [Numbers -> Nat] /\ stale' \subseteq Numbers
    BY <1>4, <2>1 DEF Close, Released
  <2> QED
    BY <1>4, <2>2 DEF Close, handleVars
<1>5. ASSUME NEW p \in Places, Destroy(p) PROVE TypeOK'
  BY <1>5 DEF Destroy, Released, HasNumber, PointingTo, handleVars
<1>6. ASSUME NEW p \in Places, NEW q \in Places, Move(p, q) PROVE TypeOK'
  BY <1>6 DEF Move, LeftBehind, PointingTo, hostVars, handleVars
<1>7. ASSUME NEW h \in Handles, NEW p \in Places, OpenHandle(h, p) PROVE TypeOK'
  BY <1>7 DEF OpenHandle, hostVars
<1>8. CASE UNCHANGED vars
  BY <1>8 DEF vars, hostVars, handleVars
<1> QED
  BY <1>1, <1>2, <1>3, <1>4, <1>5, <1>6, <1>7, <1>8 DEF Next

(* A File keeps its number to itself: a number that is given out is free,  *)
(* so a File that still has it is a stale one.                             *)
LEMMA OwnStep == IInv /\ [Next]_vars => OwnsItsNumber'
<1> SUFFICES ASSUME IInv, [Next]_vars PROVE OwnsItsNumber'
  OBVIOUS
<1> USE NumbersAssumption DEF IInv, TypeOK, Files, OwnsItsNumber, HasNumber
<1>1. ASSUME NEW p \in Places, Open(p) PROVE OwnsItsNumber'
  <2>1. PICK n \in Numbers : /\ table[n] = 0
                             /\ table' = [table EXCEPT ![n] = opens + 1]
                             /\ fd_' = [fd_ EXCEPT ![p] = n]
    BY <1>1 DEF Open
  <2>2. \A q \in Files : fd_[q] = n => n \in stale
    BY <2>1
  <2> QED
    BY <1>1, <2>1, <2>2 DEF Open
<1>2. ASSUME NEW p \in Places, OpenFails(p) PROVE OwnsItsNumber'
  BY <1>2 DEF OpenFails, hostVars
<1>3. ASSUME NEW p \in Places, UseAborts(p) PROVE OwnsItsNumber'
  BY <1>3 DEF UseAborts, hostVars
<1>4. ASSUME NEW p \in Places, Close(p) PROVE OwnsItsNumber'
  BY <1>4 DEF Close, Released
<1>5. ASSUME NEW p \in Places, Destroy(p) PROVE OwnsItsNumber'
  <2> SUFFICES ASSUME NEW r \in Places, holds'[r] = "file", fd_'[r] >= 0,
                      fd_'[r] \notin stale'
               PROVE  /\ table'[fd_'[r]] = opened'[r]
                      /\ \A q \in Files' \ {r} : fd_'[q] # fd_'[r]
    OBVIOUS
  <2>1. r \in Files \ {p} /\ fd_[r] \notin stale
    BY <1>5 DEF Destroy
  <2>2. table'[fd_[r]] = table[fd_[r]]
    BY <1>5, <2>1 DEF Destroy, Released
  <2> QED
    BY <1>5, <2>1, <2>2 DEF Destroy
<1>6. ASSUME NEW p \in Places, NEW q \in Places, Move(p, q)
      PROVE  OwnsItsNumber'
  BY <1>6 DEF Move, LeftBehind, hostVars
<1>7. ASSUME NEW h \in Handles, NEW p \in Places, OpenHandle(h, p)
      PROVE  OwnsItsNumber'
  BY <1>7 DEF OpenHandle, hostVars
<1>8. CASE UNCHANGED vars
  BY <1>8 DEF vars, hostVars
<1> QED
  BY <1>1, <1>2, <1>3, <1>4, <1>5, <1>6, <1>7, <1>8 DEF Next

(* A descriptor that is open stays with a File, also when that is moved.   *)
LEMMA LeakStep == IInv /\ [Next]_vars => NothingLeaks'
<1> SUFFICES ASSUME IInv, [Next]_vars,
                    NEW n \in Numbers, table'[n] # 0
             PROVE  \E p \in Places : /\ holds'[p] = "file" /\ fd_'[p] = n
                                      /\ opened'[p] = table'[n]
  BY DEF NothingLeaks, Files
<1> DEFINE Kept == \E r \in Places : /\ holds'[r] = "file" /\ fd_'[r] = n
                                      /\ opened'[r] = table'[n]
<1> USE NumbersAssumption DEF IInv, TypeOK, Files, NothingLeaks, HasNumber
<1>1. ASSUME NEW p \in Places, Open(p) PROVE Kept
  <2>1. PICK m \in Numbers : /\ table[m] = 0
                             /\ table' = [table EXCEPT ![m] = opens + 1]
                             /\ fd_' = [fd_ EXCEPT ![p] = m]
    BY <1>1 DEF Open
  <2>2. CASE m = n
    BY <1>1, <2>1, <2>2 DEF Open
  <2>3. CASE m # n
    <3>1. PICK r \in Files : fd_[r] = n /\ opened[r] = table[n]
      BY <2>1, <2>3
    <3> QED
      BY <1>1, <2>1, <2>3, <3>1 DEF Open
  <2> QED
    BY <2>2, <2>3
<1>2. ASSUME NEW p \in Places, OpenFails(p) PROVE Kept
  <2>1. PICK r \in Files : fd_[r] = n /\ opened[r] = table[n]
    BY <1>2 DEF OpenFails, hostVars
  <2> QED
    BY <1>2, <2>1 DEF OpenFails, hostVars
<1>3. ASSUME NEW p \in Places, UseAborts(p) PROVE Kept
  BY <1>3 DEF UseAborts, hostVars
<1>4. ASSUME NEW p \in Places, Close(p) PROVE Kept
  BY <1>4 DEF Close, Released
<1>5. ASSUME NEW p \in Places, Destroy(p) PROVE Kept
  <2>1. table[n] # 0 /\ table'[n] = table[n] /\ (p \in Files => fd_[p] # n)
    BY <1>5 DEF Destroy, Released
  <2>2. PICK r \in Files : fd_[r] = n /\ opened[r] = table[n]
    BY <2>1
  <2> QED
    BY <1>5, <2>1, <2>2 DEF Destroy
<1>6. ASSUME NEW p \in Places, NEW q \in Places, Move(p, q) PROVE Kept
  <2>1. PICK r \in Files : fd_[r] = n /\ opened[r] = table[n]
    BY <1>6 DEF Move, hostVars
  <2>2. CASE r = p
    BY <1>6, <2>1, <2>2 DEF Move, hostVars
  <2>3. CASE r # p
    BY <1>6, <2>1, <2>3 DEF Move, hostVars
  <2> QED
    BY <2>2, <2>3
<1>7. ASSUME NEW h \in Handles, NEW p \in Places, OpenHandle(h, p) PROVE Kept
  BY <1>7 DEF OpenHandle, hostVars
<1>8. CASE UNCHANGED vars
  BY <1>8 DEF vars, hostVars
<1> QED
  BY <1>1, <1>2, <1>3, <1>4, <1>5, <1>6, <1>7, <1>8 DEF Next

(* Whatever takes the File from under a handle makes the handle loose.     *)
LEMMA HandleStep == IInv /\ [Next]_vars => HandleInv'
<1> SUFFICES ASSUME IInv, [Next]_vars PROVE HandleInv'
  OBVIOUS
<1> USE PlacesAssumption DEF IInv, TypeOK, Files, HandleInv, HasNumber
<1>1. ASSUME NEW p \in Places, Open(p) PROVE HandleInv'
  BY <1>1 DEF Open, handleVars
<1>2. ASSUME NEW p \in Places, OpenFails(p) PROVE HandleInv'
  BY <1>2 DEF OpenFails, handleVars
<1>3. ASSUME NEW p \in Places, UseAborts(p) PROVE HandleInv'
  BY <1>3 DEF UseAborts, handleVars
<1>4. ASSUME NEW p \in Places, Close(p) PROVE HandleInv'
  BY <1>4 DEF Close, handleVars
<1>5. ASSUME NEW p \in Places, Destroy(p) PROVE HandleInv'
  BY <1>5 DEF Destroy, PointingTo, handleVars
<1>6. ASSUME NEW p \in Places, NEW q \in Places, Move(p, q) PROVE HandleInv'
  BY <1>6 DEF Move, PointingTo, handleVars
<1>7. ASSUME NEW h \in Handles, NEW p \in Places, OpenHandle(h, p)
      PROVE  HandleInv'
  BY <1>7 DEF OpenHandle, hostVars
<1>8. CASE UNCHANGED vars
  BY <1>8 DEF vars, handleVars
<1> QED
  BY <1>1, <1>2, <1>3, <1>4, <1>5, <1>6, <1>7, <1>8 DEF Next

(* Numbers, Files and handles fit together in every order of calls         *)
(* (file.h:24-25, file.cc:28-66, xdfs.h:19-21).                            *)
THEOREM InductiveInvariant == Spec => []IInv
<1>1. IInv /\ [Next]_vars => IInv'
  BY TypeStep, OwnStep, LeakStep, HandleStep DEF IInv
<1> QED
  BY InitInv, <1>1, PTL DEF Spec

(* The variables of FileHandle keep their types.                           *)
THEOREM TypeCorrect == Spec => []TypeOK
BY InductiveInvariant, PTL DEF IInv

(* Without an explicit Close no two Files have one number, whatever is     *)
(* moved and destroyed; with one, the harm stays with its number           *)
(* (file.h:24-25, file.cc:61-66).                                          *)
THEOREM Ownership == Spec => []OwnsItsNumber
BY InductiveInvariant, PTL DEF IInv

(* Every open descriptor has a File that will close it (file.h:25).        *)
THEOREM NoLeak == Spec => []NothingLeaks
BY InductiveInvariant, PTL DEF IInv

(* XdfsFile and XdfsDir read the image of their Xdfs as long as that is    *)
(* neither moved nor destroyed (xdfs.h:19-21).                             *)
THEOREM HandlesRead == Spec => []HandleReadsImage
<1>1. IInv => HandleReadsImage
  <2> SUFFICES ASSUME IInv, NEW h \in Handles \ loose, backend[h] # Nowhere
               PROVE  LET p == backend[h] IN
                      /\ p \in Files /\ HasNumber(p)
                      /\ fd_[p] \notin stale => table[fd_[p]] = image[h]
    BY DEF HandleReadsImage
  <2> QED
    BY DEF IInv, HandleInv, OwnsItsNumber
<1> QED
  BY InductiveInvariant, <1>1, PTL
=============================================================================
