------------------------------ MODULE ExecXbe -------------------------------
(***************************************************************************)
(* exec_xbe.cc: the program forks; the child asks to be traced and becomes *)
(* the converted ELF, the parent steps it one instruction at a time, as    *)
(* its user commands.  Two processes and the kernel between them: what     *)
(* waitpid, ptrace and the end of a traced or tracing process do is taken  *)
(* from their manual pages.                                                *)
(***************************************************************************)
EXTENDS Integers

CONSTANT MaxSteps    \* Bound on the number of commands the user gives.

ASSUME StepsAssumption == MaxSteps \in Nat

VARIABLES
  parent,     \* Where the parent is: see Parents.
  child,      \* What the child is doing: see Children.
  image,      \* The program the child runs: its parent's, or the ELF.
  steps,      \* How often PTRACE_SINGLESTEP was called.
  executed,   \* How many steps the child has finished.
  cmd         \* What getchar returned last.

vars == <<parent, child, image, steps, executed, cmd>>

Parents ==
  {"preparing",    \* Making the ELF.
   "forking",
   "await exec",   \* In the first waitpid of WatchExec.
   "prompt",       \* In getchar.
   "await step",   \* In the waitpid after PTRACE_SINGLESTEP.
   "reading regs",
   "await death",  \* At the last waitpid.
   "reporting",    \* Behind it.
   "failed",       \* An error is on its way to the CHECK_ERROR of main.
   "ended"}

Children ==
  {"none",
   "started",      \* In InitExec, not traced yet.
   "traced",       \* PTRACE_TRACEME is done, execve is not.
   "aborting",     \* In abort(), not traced.
   "stopped",      \* In a signal-delivery-stop.
   "stepping",
   "free",         \* Running without a tracer.
   "dead"}

(* Options that waitpid takes; with any other it fails with EINVAL.        *)
WaitpidOptions == {"WNOHANG", "WSTOPPED", "WCONTINUED"}
-----------------------------------------------------------------------------
Init ==
  /\ parent = "preparing"
  /\ child = "none"
  /\ image = "debugger"
  /\ steps = 0
  /\ executed = 0
  /\ cmd = "none"

(* main opens the files, MakeElfFromXbe fills the ELF, both are closed:    *)
(* all of it succeeds, or one of the CHECK_ERRORs aborts.                  *)
PrepareElf ==
  /\ parent = "preparing"
  /\ parent' \in {"forking", "ended"}
  /\ UNCHANGED <<child, image, steps, executed, cmd>>

Fork ==
  /\ parent = "forking"
  /\ \/ parent' = "await exec" /\ child' = "started"
     \/ parent' = "failed" /\ UNCHANGED child
  /\ UNCHANGED <<image, steps, executed, cmd>>

(* Mutant: the child does not ask to be traced.                            *)
TraceMeForgotten ==
  /\ child = "started"
  /\ child' = "free"
  /\ image' = "elf"
  /\ UNCHANGED <<parent, steps, executed, cmd>>

(* InitExec: PTRACE_TRACEME; an error ends in abort(), like any of main's. *)
TraceMe ==
  /\ child = "started"
  /\ child' \in {"traced", "aborting"}
  /\ UNCHANGED <<parent, image, steps, executed, cmd>>

(* execve of a traced process raises SIGTRAP in the new image.             *)
Execve ==
  /\ child = "traced"
  /\ image' = "elf"
  /\ child' = "stopped"
  /\ UNCHANGED <<parent, steps, executed, cmd>>

(* The error goes to main, which calls abort(): SIGABRT stops the child.   *)
ExecveFails ==
  /\ child = "traced"
  /\ child' = "stopped"
  /\ UNCHANGED <<parent, image, steps, executed, cmd>>

(* The instruction is executed, or faults: either way a signal stops the   *)
(* child; or it was the child's last.                                      *)
FinishStep ==
  /\ child = "stepping"
  /\ child' \in {"stopped", "dead"}
  /\ executed' = executed + 1
  /\ UNCHANGED <<parent, image, steps, cmd>>

(* An untraced child dies of its SIGABRT, or ends some day by itself.      *)
DieAborting ==
  /\ child = "aborting"
  /\ child' = "dead"
  /\ UNCHANGED <<parent, image, steps, executed, cmd>>

(* From outside, by SIGKILL, at any time; or the free child ends.          *)
Killed ==
  /\ child \notin {"none", "dead"}
  /\ child' = "dead"
  /\ UNCHANGED <<parent, image, steps, executed, cmd>>
-----------------------------------------------------------------------------
(* waitpid(.., WSTOPPED) returns when the child has stopped or is dead;    *)
(* WIFSTOPPED tells which.                                                 *)
AwaitStop(here, then) ==
  /\ parent = here
  /\ child \in {"stopped", "dead"}
  /\ parent' = IF child = "stopped" THEN then ELSE "failed"
  /\ UNCHANGED <<child, image, steps, executed, cmd>>

AwaitExec == AwaitStop("await exec", "prompt")

(* Mutant: the answer to PTRACE_SINGLESTEP is not waited for.              *)
AwaitStepForgotten ==
  /\ parent = "await step"
  /\ parent' = "reading regs"
  /\ UNCHANGED <<child, image, steps, executed, cmd>>

AwaitStep == AwaitStop("await step", "reading regs")

(* Anything but 'q', the end of the input included, is a step.  ptrace     *)
(* fails (ESRCH) when the child is not stopped.                            *)
SingleStep ==
  /\ parent = "prompt"
  /\ steps < MaxSteps
  /\ IF child = "stopped"
     THEN /\ child' = "stepping"
          /\ parent' = "await step"
          /\ steps' = steps + 1
     ELSE parent' = "failed" /\ UNCHANGED <<child, steps>>
  /\ cmd' = "other"
  /\ UNCHANGED <<image, executed>>

(* Mutant: the child is left to run.                                       *)
QuitContinues ==
  /\ parent = "prompt"
  /\ child \in {"stopped", "dead"}
  /\ cmd' = "q"
  /\ parent' = "await death"
  /\ child' = IF child = "dead" THEN "dead" ELSE "stepping"
  /\ UNCHANGED <<image, steps, executed>>

Quit ==
  /\ parent = "prompt"
  /\ cmd' = "q"
  /\ parent' = "await death"
  /\ UNCHANGED <<child, image, steps, executed>>

(* Mutant: a failure of PTRACE_GETREGS is not looked at, ptrace is given   *)
(* the next command.                                                       *)
GetRegsSteps ==
  /\ parent = "reading regs"
  /\ IF child = "stopped" THEN child' = "stepping" ELSE UNCHANGED child
  /\ parent' = "prompt"
  /\ UNCHANGED <<image, steps, executed, cmd>>

(* PTRACE_GETREGS, which wants a stopped child as well.                    *)
GetRegs ==
  /\ parent = "reading regs"
  /\ parent' = IF child = "stopped" THEN "prompt" ELSE "failed"
  /\ UNCHANGED <<child, image, steps, executed, cmd>>

(* waitpid(.., WEXITED): an option of waitid, not of waitpid.              *)
AwaitDeath ==
  /\ parent = "await death"
  /\ IF "WEXITED" \in WaitpidOptions
     THEN child = "dead" /\ parent' = "reporting"
     ELSE parent' = "failed"
  /\ UNCHANGED <<child, image, steps, executed, cmd>>

(* abort().  A stopped child is let go, with the signal that stopped it:   *)
(* it dies of that, or it has a handler and runs on.                       *)
Abort ==
  /\ parent = "failed"
  /\ parent' = "ended"
  /\ child' \in IF child = "stopped" THEN {"free", "dead"} ELSE {child}
  /\ UNCHANGED <<image, steps, executed, cmd>>
-----------------------------------------------------------------------------
ChildStep == TraceMe \/ Execve \/ ExecveFails \/ FinishStep \/ DieAborting

ParentStep ==
  \/ PrepareElf \/ Fork \/ AwaitExec \/ AwaitStep \/ GetRegs \/ AwaitDeath
  \/ Abort

User == SingleStep \/ Quit

Next == ChildStep \/ ParentStep \/ User \/ Killed

(* Both processes are scheduled, and an instruction comes to its end.  The *)
(* user need not type, and nobody need kill the child.                     *)
Spec == Init /\ [][Next]_vars
FairSpec == Spec /\ WF_vars(ChildStep) /\ WF_vars(ParentStep)
-----------------------------------------------------------------------------
(* The places of both processes are among those listed.                    *)
TypeOK ==
  /\ parent \in Parents
  /\ child \in Children
  /\ image \in {"debugger", "elf"}
  /\ steps \in 0 .. MaxSteps
  /\ executed \in 0 .. MaxSteps
  /\ cmd \in {"none", "other", "q"}

(* The parent takes commands, reads registers and gives up only over a     *)
(* child that is stopped, or was killed behind its back (exec_xbe.cc:      *)
(* 68-89): it never meddles with a running one.                            *)
StoppedAtPrompt ==
  parent \in {"prompt", "reading regs", "await death"} =>
    child \in {"stopped", "dead"}

(* One command, one instruction (exec_xbe.cc:76-83): the child never runs  *)
(* ahead of its commands, and at a prompt every command is carried out.    *)
OneStepPerCommand ==
  /\ executed <= steps
  /\ steps <= executed + 1
  /\ (child = "stopped" => executed = steps)

(* However WatchExec fails, it leaves no child alive behind that was not   *)
(* given up by 'q': each of its error returns is taken over a dead child.  *)
NoOrphanUnlessQuit ==
  (parent \in {"failed", "ended"} /\ child \notin {"none", "dead"}) => cmd = "q"

(* No waitpid for a stop hangs: a child that does not get to its execve or *)
(* to the end of its step is reported as well.                             *)
WaitReturns ==
  parent \in {"await exec", "await step"} ~>
    parent \notin {"await exec", "await step"}

(* exec_xbe.cc:66: "Wait for child to call execve."                        *)
WaitsForExec == parent \in {"prompt", "await step", "reading regs"} => image = "elf"

(* exec_xbe.cc:119: "Wait for child death."  The parent gets past that     *)
(* wait only when the child is dead.                                       *)
WaitsForDeath == (cmd = "q" /\ parent # "await death") => child = "dead"
-----------------------------------------------------------------------------
(* The inductive strengthening, in named parts.                            *)

(* Where the child can be, by where the parent is.                         *)
PlacesInv ==
  /\ parent \in {"preparing", "forking"} => child = "none"
  /\ parent = "await exec" =>
       child \in {"started", "traced", "aborting", "stopped", "dead"}
  /\ parent = "await step" => child \in {"stepping", "stopped", "dead"}
  /\ parent \in {"failed", "reporting"} => child \in {"none", "stopped", "dead"}
  /\ parent = "ended" => child \in {"none", "free", "dead"}

(* A command is open only while the child carries it out, or was killed.   *)
StepsInv ==
  IF child = "stepping" THEN steps = executed + 1
  ELSE IF child = "dead" THEN executed <= steps /\ steps <= executed + 1
  ELSE steps = executed

QuitInv == parent = "await death" => cmd = "q"

IInv == TypeOK /\ PlacesInv /\ StoppedAtPrompt /\ StepsInv /\ QuitInv
        /\ NoOrphanUnlessQuit
=============================================================================
