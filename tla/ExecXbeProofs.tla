--------------------------- MODULE ExecXbeProofs ----------------------------
(***************************************************************************)
(* Theorems about ExecXbe, for any number of commands.                     *)
(***************************************************************************)
EXTENDS ExecXbe, TLAPS

(* The parts of the inductive invariant.                                   *)
LEMMA InitInv == Init => IInv
<1> SUFFICES ASSUME Init
             PROVE  IInv
    OBVIOUS
<1> USE DEF Init
<1>1. TypeOK
      BY StepsAssumption DEF TypeOK, Parents, Children
<1>2. PlacesInv
      BY DEF PlacesInv
<1>3. StepsInv
      BY DEF StepsInv
<1>4. StoppedAtPrompt /\ QuitInv /\ NoOrphanUnlessQuit
      BY DEF StoppedAtPrompt, QuitInv, NoOrphanUnlessQuit
<1> QED
    BY <1>1, <1>2, <1>3, <1>4 DEF IInv

(* What the child does, or has done to it, keeps the invariant.            *)
LEMMA ChildInv == IInv /\ (ChildStep \/ Killed) => IInv'
<1> SUFFICES ASSUME IInv, ChildStep \/ Killed
             PROVE  IInv'
    OBVIOUS
<1> USE StepsAssumption DEF IInv
<1> DEFINE Places == PlacesInv /\ StoppedAtPrompt /\ QuitInv /\ NoOrphanUnlessQuit
<1>1. CASE TraceMe
  <2>1. TypeOK'
        BY <1>1 DEF TraceMe, TypeOK, StepsInv, Parents, Children
  <2>2. Places'
        BY <1>1 DEF TraceMe, TypeOK, PlacesInv, StoppedAtPrompt, QuitInv,
                    NoOrphanUnlessQuit
  <2>3. StepsInv'
        BY <1>1 DEF TraceMe, TypeOK, PlacesInv, StoppedAtPrompt, StepsInv
  <2> QED
      BY <2>1, <2>2, <2>3
<1>2. CASE Execve
  <2>1. TypeOK'
        BY <1>2 DEF Execve, TypeOK, StepsInv, Parents, Children
  <2>2. Places'
        BY <1>2 DEF Execve, TypeOK, PlacesInv, StoppedAtPrompt, QuitInv,
                    NoOrphanUnlessQuit
  <2>3. StepsInv'
        BY <1>2 DEF Execve, TypeOK, PlacesInv, StoppedAtPrompt, StepsInv
  <2> QED
      BY <2>1, <2>2, <2>3
<1>3. CASE ExecveFails
  <2>1. TypeOK'
        BY <1>3 DEF ExecveFails, TypeOK, StepsInv, Parents, Children
  <2>2. Places'
        BY <1>3 DEF ExecveFails, TypeOK, PlacesInv, StoppedAtPrompt, QuitInv,
                    NoOrphanUnlessQuit
  <2>3. StepsInv'
        BY <1>3 DEF ExecveFails, TypeOK, PlacesInv, StoppedAtPrompt, StepsInv
  <2> QED
      BY <2>1, <2>2, <2>3
<1>4. CASE FinishStep
  <2>1. TypeOK'
        BY <1>4 DEF FinishStep, TypeOK, StepsInv, Parents, Children
  <2>2. Places'
        BY <1>4 DEF FinishStep, TypeOK, PlacesInv, StoppedAtPrompt, QuitInv,
                    NoOrphanUnlessQuit
  <2>3. StepsInv'
        BY <1>4 DEF FinishStep, TypeOK, StepsInv
  <2> QED
      BY <2>1, <2>2, <2>3
<1>5. CASE DieAborting
  <2>1. TypeOK'
        BY <1>5 DEF DieAborting, TypeOK, StepsInv, Parents, Children
  <2>2. Places'
        BY <1>5 DEF DieAborting, TypeOK, PlacesInv, StoppedAtPrompt, QuitInv,
                    NoOrphanUnlessQuit
  <2>3. StepsInv'
        BY <1>5 DEF DieAborting, TypeOK, StepsInv
  <2> QED
      BY <2>1, <2>2, <2>3
<1>6. CASE Killed
  <2>1. TypeOK'
        BY <1>6 DEF Killed, TypeOK, StepsInv, Parents, Children
  <2>2. Places'
        BY <1>6 DEF Killed, TypeOK, PlacesInv, StoppedAtPrompt, QuitInv,
                    NoOrphanUnlessQuit
  <2>3. StepsInv'
        BY <1>6 DEF Killed, TypeOK, StepsInv
  <2> QED
      BY <2>1, <2>2, <2>3
<1> QED
    BY <1>1, <1>2, <1>3, <1>4, <1>5, <1>6 DEF ChildStep

(* What the parent and its user do keeps the invariant.                    *)
LEMMA ParentInv == IInv /\ (ParentStep \/ User) => IInv'
<1> SUFFICES ASSUME IInv, ParentStep \/ User
             PROVE  IInv'
    OBVIOUS
<1> USE StepsAssumption DEF IInv
<1> DEFINE Places == PlacesInv /\ StoppedAtPrompt /\ QuitInv /\ NoOrphanUnlessQuit
<1>1. CASE PrepareElf
  <2>1. TypeOK'
        BY <1>1 DEF PrepareElf, TypeOK, StepsInv, Parents, Children
  <2>2. Places'
        BY <1>1 DEF PrepareElf, TypeOK, PlacesInv, StoppedAtPrompt, QuitInv,
                    NoOrphanUnlessQuit
  <2>3. StepsInv'
        BY <1>1 DEF PrepareElf, TypeOK, PlacesInv, StoppedAtPrompt, StepsInv
  <2> QED
      BY <2>1, <2>2, <2>3
<1>2. CASE Fork
  <2>1. TypeOK'
        BY <1>2 DEF Fork, TypeOK, StepsInv, Parents, Children
  <2>2. Places'
        BY <1>2 DEF Fork, TypeOK, PlacesInv, StoppedAtPrompt, QuitInv,
                    NoOrphanUnlessQuit
  <2>3. StepsInv'
        BY <1>2 DEF Fork, TypeOK, PlacesInv, StoppedAtPrompt, StepsInv
  <2> QED
      BY <2>1, <2>2, <2>3
<1>3. CASE AwaitExec
  <2>1. TypeOK'
        BY <1>3 DEF AwaitExec, AwaitStop, TypeOK, StepsInv, Parents, Children
  <2>2. Places'
        BY <1>3 DEF AwaitExec, AwaitStop, TypeOK, PlacesInv, StoppedAtPrompt, QuitInv,
                    NoOrphanUnlessQuit
  <2>3. StepsInv'
        BY <1>3 DEF AwaitExec, AwaitStop, TypeOK, PlacesInv, StoppedAtPrompt, StepsInv
  <2> QED
      BY <2>1, <2>2, <2>3
<1>4. CASE AwaitStep
  <2>1. TypeOK'
        BY <1>4 DEF AwaitStep, AwaitStop, TypeOK, StepsInv, Parents, Children
  <2>2. Places'
        BY <1>4 DEF AwaitStep, AwaitStop, TypeOK, PlacesInv, StoppedAtPrompt, QuitInv,
                    NoOrphanUnlessQuit
  <2>3. StepsInv'
        BY <1>4 DEF AwaitStep, AwaitStop, TypeOK, PlacesInv, StoppedAtPrompt, StepsInv
  <2> QED
      BY <2>1, <2>2, <2>3
<1>5. CASE GetRegs
  <2>1. TypeOK'
        BY <1>5 DEF GetRegs, TypeOK, StepsInv, Parents, Children
  <2>2. Places'
        BY <1>5 DEF GetRegs, TypeOK, PlacesInv, StoppedAtPrompt, QuitInv,
                    NoOrphanUnlessQuit
  <2>3. StepsInv'
        BY <1>5 DEF GetRegs, TypeOK, PlacesInv, StoppedAtPrompt, StepsInv
  <2> QED
      BY <2>1, <2>2, <2>3
<1>6. CASE AwaitDeath
  <2>1. TypeOK'
        BY <1>6 DEF AwaitDeath, WaitpidOptions, TypeOK, StepsInv, Parents, Children
  <2>2. Places'
        BY <1>6 DEF AwaitDeath, WaitpidOptions, TypeOK, PlacesInv, StoppedAtPrompt, QuitInv,
                    NoOrphanUnlessQuit
  <2>3. StepsInv'
        BY <1>6 DEF AwaitDeath, WaitpidOptions, TypeOK, PlacesInv, StoppedAtPrompt, StepsInv
  <2> QED
      BY <2>1, <2>2, <2>3
<1>7. CASE Abort
  <2>1. TypeOK'
        BY <1>7 DEF Abort, TypeOK, StepsInv, Parents, Children
  <2>2. Places'
        BY <1>7 DEF Abort, TypeOK, PlacesInv, StoppedAtPrompt, QuitInv,
                    NoOrphanUnlessQuit
  <2>3. StepsInv'
        BY <1>7 DEF Abort, TypeOK, PlacesInv, StoppedAtPrompt, StepsInv
  <2> QED
      BY <2>1, <2>2, <2>3
<1>8. CASE SingleStep
  <2>1. TypeOK'
    <3>1. steps' \in 0 .. MaxSteps
      <4>1. steps \in 0 .. MaxSteps /\ steps < MaxSteps
            BY <1>8 DEF SingleStep, TypeOK
      <4>2. steps' = steps + 1 \/ steps' = steps
            BY <1>8 DEF SingleStep
      <4> QED
          BY <4>1, <4>2
    <3>2. parent' \in Parents /\ child' \in Children
          BY <1>8 DEF SingleStep, TypeOK, Parents, Children
    <3> QED
        BY <1>8, <3>1, <3>2 DEF SingleStep, TypeOK
  <2>2. Places'
        BY <1>8 DEF SingleStep, TypeOK, PlacesInv, StoppedAtPrompt, QuitInv,
                    NoOrphanUnlessQuit
  <2>3. StepsInv'
        BY <1>8 DEF SingleStep, TypeOK, PlacesInv, StoppedAtPrompt, StepsInv
  <2> QED
      BY <2>1, <2>2, <2>3
<1>9. CASE Quit
  <2>1. TypeOK'
        BY <1>9 DEF Quit, TypeOK, StepsInv, Parents, Children
  <2>2. Places'
        BY <1>9 DEF Quit, TypeOK, PlacesInv, StoppedAtPrompt, QuitInv,
                    NoOrphanUnlessQuit
  <2>3. StepsInv'
        BY <1>9 DEF Quit, TypeOK, PlacesInv, StoppedAtPrompt, StepsInv
  <2> QED
      BY <2>1, <2>2, <2>3
<1> QED
    BY <1>1, <1>2, <1>3, <1>4, <1>5, <1>6, <1>7, <1>8, <1>9
    DEF ParentStep, User

(* The places of the two processes, the commands and the steps always fit  *)
(* together as IInv says.                                                  *)
THEOREM InductiveInvariant == Spec => []IInv
<1>1. Init => IInv
      BY InitInv
<1>2. IInv /\ [Next]_vars => IInv'
  <2> SUFFICES ASSUME IInv, [Next]_vars
               PROVE  IInv'
      OBVIOUS
  <2>1. CASE Next
        BY <2>1, ChildInv, ParentInv DEF Next
  <2>2. CASE UNCHANGED vars
        BY <2>2 DEF vars, IInv, TypeOK, PlacesInv, StoppedAtPrompt, StepsInv,
                    QuitInv, NoOrphanUnlessQuit
  <2> QED
      BY <2>1, <2>2
<1> QED
    BY <1>1, <1>2, PTL DEF Spec

(* The variables of ExecXbe keep their types.                              *)
THEOREM TypeCorrect == Spec => []TypeOK
<1>1. IInv => TypeOK
      BY DEF IInv
<1> QED
    BY <1>1, InductiveInvariant, PTL

(* WatchExec reads commands and registers, and gives up, only over a child *)
(* that is stopped or dead.                                                *)
THEOREM NeverMeddles == Spec => []StoppedAtPrompt
<1>1. IInv => StoppedAtPrompt
      BY DEF IInv
<1> QED
    BY <1>1, InductiveInvariant, PTL

(* The child never runs ahead of the commands, nor are commands lost.      *)
THEOREM StepsCommands == Spec => []OneStepPerCommand
<1>1. IInv => OneStepPerCommand
      BY DEF IInv, TypeOK, StepsInv, OneStepPerCommand
<1> QED
    BY <1>1, InductiveInvariant, PTL

(* A child outlives the program only when the user typed 'q'.              *)
THEOREM OrphansOnlyByQuit == Spec => []NoOrphanUnlessQuit
<1>1. IInv => NoOrphanUnlessQuit
      BY DEF IInv
<1> QED
    BY <1>1, InductiveInvariant, PTL
=============================================================================
