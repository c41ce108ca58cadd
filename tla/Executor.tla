------------------------------ MODULE Executor ------------------------------
(***************************************************************************)
(* Executor.Execute (executor.go, security.go, internal/runtime/detect.go):*)
(* concurrent executions of snippets as subprocesses.  A run is checked    *)
(* against the policy, finds its interpreter, writes the code to a         *)
(* temporary file in the project root, runs the file under a timeout and   *)
(* removes the file on every way out.                                      *)
(***************************************************************************)
EXTENDS Integers, FiniteSets

CONSTANTS
  Runs,       \* executions -> [denied, shell, first, lang]: the snippet
  Allowed,    \* AllowedCommands of the policy
  Installed,  \* the languages whose interpreter LookPath finds
  NoResult    \* no answer yet

VARIABLES
  run,    \* per execution [pc, result]
  temps,  \* the executions whose temporary file exists
  child   \* the executions whose subprocess is alive

execVars == <<run, temps, child>>

RunIds == DOMAIN Runs

ExecInit ==
  /\ run = [r \in RunIds |-> [pc |-> "start", result |-> NoResult]]
  /\ temps = {} /\ child = {}

\* Policy.Check: no denied pattern, and for a shell the first command must be
\* on the list when there is one.
PolicyAllows(x) ==
  /\ ~x.denied
  /\ Allowed # {} /\ x.shell => x.first \in Allowed

\* Check and Detect; a refusal writes nothing.
Admit(r) ==
  /\ run[r].pc = "start"
  /\ run' = [run EXCEPT ![r] = IF ~PolicyAllows(Runs[r]) THEN [pc |-> "done", result |-> "denied"]
                               ELSE IF Runs[r].lang \notin Installed
                                    THEN [pc |-> "done", result |-> "unsupported"]
                                    ELSE [pc |-> "create", result |-> NoResult]]
  /\ UNCHANGED <<temps, child>>

\* os.CreateTemp, or its failure.
CreateTemp(r) ==
  /\ run[r].pc = "create"
  /\ \/ temps' = temps \cup {r} /\ run' = [run EXCEPT ![r].pc = "write"]
     \/ UNCHANGED temps /\ run' = [run EXCEPT ![r] = [pc |-> "done", result |-> "error"]]
  /\ UNCHANGED child

\* Mutant of WriteCode: a failed write returns before the removal.
WriteCodeAndLeave(r) ==
  /\ run[r].pc = "write"
  /\ \/ run' = [run EXCEPT ![r].pc = "spawn"]
     \/ run' = [run EXCEPT ![r] = [pc |-> "done", result |-> "error"]]
  /\ UNCHANGED <<temps, child>>

\* Writing, closing and resolving the path; a failure goes to the deferred
\* removal.
WriteCode(r) ==
  /\ run[r].pc = "write"
  /\ \/ run' = [run EXCEPT ![r].pc = "spawn"]
     \/ run' = [run EXCEPT ![r] = [pc |-> "remove", result |-> "error"]]
  /\ UNCHANGED <<temps, child>>

\* cmd.Run starts the interpreter on the file, or fails to.
Spawn(r) ==
  /\ run[r].pc = "spawn"
  /\ \/ child' = child \cup {r} /\ run' = [run EXCEPT ![r].pc = "running"]
     \/ UNCHANGED child /\ run' = [run EXCEPT ![r] = [pc |-> "remove", result |-> "error"]]
  /\ UNCHANGED temps

\* The subprocess ends by itself with code 0 or another one.
ChildExits(r) ==
  /\ run[r].pc = "running" /\ r \in child
  /\ child' = child \ {r}
  /\ \E code \in {"exit0", "exitN"}: run' = [run EXCEPT ![r] = [pc |-> "remove", result |-> code]]
  /\ UNCHANGED temps

\* The deadline or the caller's context kills it; a passed deadline is a
\* result of its own, a cancellation the exit code of the killed process.
KillChild(r) ==
  /\ run[r].pc = "running" /\ r \in child
  /\ child' = child \ {r}
  /\ \E why \in {"timeout", "exitN"}: run' = [run EXCEPT ![r] = [pc |-> "remove", result |-> why]]
  /\ UNCHANGED temps

\* The deferred os.Remove, then the answer.
RemoveTemp(r) ==
  /\ run[r].pc = "remove"
  /\ temps' = temps \ {r}
  /\ run' = [run EXCEPT ![r].pc = "done"]
  /\ UNCHANGED child

ExecNext ==
  \E r \in RunIds: \/ Admit(r) \/ CreateTemp(r) \/ WriteCode(r) \/ Spawn(r)
                   \/ ChildExits(r) \/ KillChild(r) \/ RemoveTemp(r)

ExecSpec == ExecInit /\ [][ExecNext]_execVars

(***************************************************************************)
(* An execution that has answered, in whichever way, has left neither its  *)
(* file nor its subprocess behind; a subprocess never runs without its     *)
(* file; and code the policy refuses, or no interpreter can run, never     *)
(* reaches the disk.                                                       *)
(***************************************************************************)
RunsLeaveNothingBehind ==
  \A r \in RunIds:
    /\ run[r].pc = "done" => r \notin temps \cup child
    /\ r \in child => r \in temps
    /\ r \in temps => ~Runs[r].denied /\ Runs[r].lang \in Installed

=============================================================================
