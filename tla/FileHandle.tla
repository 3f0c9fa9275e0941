----------------------------- MODULE FileHandle -----------------------------
(***************************************************************************)
(* Who owns a host descriptor: File (file.h, file.cc) through its move     *)
(* constructor, Close and destructor, the ErrorOr that brings it from      *)
(* Open and Create to its variable (error.h), the Xdfs it is moved into    *)
(* (xdfs.h, xdfs_backend.h), and the pointers that an Xdfs hands out.  The *)
(* host gives out again a number that was closed, and File keeps the       *)
(* number it has closed.                                                   *)
(*                                                                         *)
(* The callers are any: they make, move, close and destroy in any order    *)
(* that C++ allows.  What is in the files is the matter of other modules.  *)
(***************************************************************************)
EXTENDS Integers

CONSTANTS
  Places,    \* Where a File may be: a variable, an ErrorOr, an XdfsBackend.
  Handles,   \* The XdfsFile and XdfsDir objects.
  Numbers,   \* The descriptors of the host.
  Nowhere,   \* The pointer of a handle that is not made yet.
  MaxOpens   \* Bound on the number of files opened.

ASSUME NumbersAssumption == Numbers \subseteq Nat
ASSUME PlacesAssumption == Nowhere \notin Places
ASSUME OpensAssumption == MaxOpens \in Nat

VARIABLES
  holds,     \* holds[p]: "nothing", a "file", or the "error" of an ErrorOr.
  fd_,       \* fd_[p] of the File at p.
  table,     \* table[n]: which file the host has under n, 0 for none.
  opens,     \* How many files have been opened; they are 1 .. opens.
  backend,   \* backend[h]: where xdfs_backend_ of h points.
  aborted,   \* A CHECK failed.
  opened,    \* History: opened[p]: the file that the File at p came with.
  image,     \* History: image[h]: the file of the Xdfs that made h.
  stale,     \* History: numbers closed by Close that a File still has.
  loose      \* History: handles whose Xdfs was moved or destroyed.

hostVars == <<table, opens>>
handleVars == <<backend, image>>
vars == <<holds, fd_, hostVars, handleVars, aborted, opened, stale, loose>>

Files == {p \in Places : holds[p] = "file"}
PointingTo(p) == {h \in Handles : backend[h] = p}
-----------------------------------------------------------------------------
Init ==
  /\ holds = [p \in Places |-> "nothing"]
  /\ fd_ = [p \in Places |-> -1]
  /\ table = [n \in Numbers |-> 0]
  /\ opens = 0
  /\ backend = [h \in Handles |-> Nowhere]
  /\ aborted = FALSE
  /\ opened = [p \in Places |-> 0]
  /\ image = [h \in Handles |-> 0]
  /\ stale = {}
  /\ loose = {}

(* Open or Create, and ErrorOr's constructor: the File made for the call   *)
(* is moved to p and destroyed, with nothing left to close.                *)
Open(p) ==
  /\ holds[p] = "nothing"
  /\ opens < MaxOpens
  /\ \E n \in Numbers :
       /\ table[n] = 0
       /\ table' = [table EXCEPT ![n] = opens + 1]
       /\ fd_' = [fd_ EXCEPT ![p] = n]
  /\ opens' = opens + 1
  /\ opened' = [opened EXCEPT ![p] = opens + 1]
  /\ holds' = [holds EXCEPT ![p] = "file"]
  /\ UNCHANGED <<handleVars, aborted, stale, loose>>

OpenFails(p) ==
  /\ holds[p] = "nothing"
  /\ holds' = [holds EXCEPT ![p] = "error"]
  /\ UNCHANGED <<fd_, hostVars, handleVars, aborted, opened, stale, loose>>

(* Mutant: the move constructor does not take the number away.             *)
LeftBehindCopy(p) == fd_[p]

LeftBehind(p) == -1

(* The move constructors; the Xdfs of a handle may be what is moved.       *)
Move(p, q) ==
  /\ holds[p] = "file"
  /\ holds[q] = "nothing"
  /\ fd_' = [fd_ EXCEPT ![q] = fd_[p], ![p] = LeftBehind(p)]
  /\ holds' = [holds EXCEPT ![q] = "file"]
  /\ opened' = [opened EXCEPT ![q] = opened[p]]
  /\ loose' = loose \cup PointingTo(p)
  /\ UNCHANGED <<hostVars, handleVars, aborted, stale>>

(* ErrorOr::move() and get() of an error; a File that has no number is     *)
(* read, written or moved in: both fail a CHECK.                           *)
UseAborts(p) ==
  /\ holds[p] = "error" \/ (p \in Files /\ fd_[p] < 0)
  /\ aborted' = TRUE
  /\ UNCHANGED <<holds, fd_, hostVars, handleVars, opened, stale, loose>>

(* Mutant: Close calls close(-1).                                          *)
HasNumberAlways(p) == TRUE

HasNumber(p) == fd_[p] >= 0

(* Mutant: the destructor does not close.                                  *)
NotReleased(p) == table

(* The host's table once close(fd_) was called; a number that is not open  *)
(* is refused.                                                             *)
Released(p) ==
  IF HasNumber(p) THEN [table EXCEPT ![fd_[p]] = 0] ELSE table

(* File::Close: fd_ stays as it is.                                        *)
Close(p) ==
  /\ p \in Files
  /\ table' = Released(p)
  /\ stale' = IF HasNumber(p) THEN stale \cup {fd_[p]} ELSE stale
  /\ UNCHANGED <<holds, fd_, opens, handleVars, aborted, opened, loose>>

(* The destructors of File and of ErrorOr.                                 *)
Destroy(p) ==
  /\ holds[p] # "nothing"
  /\ table' = IF p \in Files THEN Released(p) ELSE table
  /\ holds' = [holds EXCEPT ![p] = "nothing"]
  /\ stale' = stale \cap {fd_[q] : q \in Files \ {p}}
  /\ loose' = loose \cup PointingTo(p)
  /\ UNCHANGED <<fd_, opens, handleVars, aborted, opened>>

(* Xdfs::OpenFile and OpenDir hand out the address of xdfs_backend_.  An   *)
(* Xdfs that was moved from still does, for "/".                           *)
OpenHandle(h, p) ==
  /\ p \in Files
  /\ backend' = [backend EXCEPT ![h] = p]
  /\ image' = [image EXCEPT ![h] = opened[p]]
  /\ loose' = IF HasNumber(p) THEN loose \ {h} ELSE loose \cup {h}
  /\ UNCHANGED <<holds, fd_, hostVars, aborted, opened, stale>>

Next ==
  /\ ~ aborted
  /\ \/ \E p \in Places : Open(p) \/ OpenFails(p) \/ UseAborts(p)
                            \/ Close(p) \/ Destroy(p)
     \/ \E p, q \in Places : Move(p, q)
     \/ \E h \in Handles, p \in Places : OpenHandle(h, p)

Spec == Init /\ [][Next]_vars
-----------------------------------------------------------------------------
(* The variables have their types; a File with a number came with a file.  *)
TypeOK ==
  /\ holds \in [Places -> {"nothing", "file", "error"}]
  /\ fd_ \in [Places -> Numbers \cup {-1}]
  /\ table \in [Numbers -> Nat]
  /\ opens \in Nat
  /\ backend \in [Handles -> Places \cup {Nowhere}]
  /\ aborted \in BOOLEAN
  /\ opened \in [Places -> Nat]
  /\ \A p \in Files : opened[p] # 0
  /\ image \in [Handles -> Nat]
  /\ stale \subseteq Numbers
  /\ loose \subseteq Handles

(* A File has the descriptor it came with, and has it alone, whatever was  *)
(* moved and destroyed (file.h:24-25); the only numbers of which this is   *)
(* not so are those that Close was called for while the closed File is     *)
(* still there, or one that it has hurt (file.cc:61-66).                   *)
OwnsItsNumber ==
  \A p \in Files :
    HasNumber(p) /\ fd_[p] \notin stale =>
      /\ table[fd_[p]] = opened[p]
      /\ \A q \in Files \ {p} : fd_[q] # fd_[p]

(* No descriptor leaks: for each that is open there is a File that will    *)
(* close it, the one it came with.                                         *)
NothingLeaks ==
  \A n \in Numbers :
    table[n] # 0 => \E p \in Files : fd_[p] = n /\ opened[p] = table[n]

(* What an Xdfs has handed out reads the image of that Xdfs for as long as *)
(* the Xdfs stays where it is (xdfs.cc:101,111, xdfs.h:19-21); it never    *)
(* fails the CHECK, and no other file takes the image's place.             *)
HandleReadsImage ==
  \A h \in Handles \ loose :
    backend[h] # Nowhere =>
      LET p == backend[h] IN
      /\ p \in Files /\ HasNumber(p)
      /\ fd_[p] \notin stale => table[fd_[p]] = image[h]
-----------------------------------------------------------------------------
(* The inductive strengthening.                                            *)

HandleInv ==
  \A h \in Handles \ loose :
    backend[h] # Nowhere =>
      backend[h] \in Files /\ HasNumber(backend[h]) /\ image[h] = opened[backend[h]]

IInv == TypeOK /\ OwnsItsNumber /\ NothingLeaks /\ HandleInv
=============================================================================
