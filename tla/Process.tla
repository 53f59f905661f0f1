------------------------------ MODULE Process ------------------------------
(***************************************************************************)
(* The threads of a node (src/main.rs, src/app.rs): the main loop, the     *)
(* command line and the reader of the standard input, from the start to    *)
(* the end of the process.  What they do to mempool, ledger and balances   *)
(* is counted, not described: "memory" is the number of changes made,      *)
(* "files" the number of those that were saved.                            *)
(***************************************************************************)
EXTENDS Integers, Sequences

CONSTANTS
  LastStep,       \* the step at which the main loop ends
  FlushInterval,  \* FLUSH_INTERVAL_STEPS
  MaxLines,       \* bound on the lines that the user types
  MaxChanges      \* bound on the changes

ASSUME ProcessAssumption == {LastStep, FlushInterval, MaxLines, MaxChanges} \subseteq Nat

VARIABLES
  main,       \* "loop", "signal", "join" or "ended", and with it the process
  step,       \* the step of the main loop
  cli,        \* "check", "receive" or "ended"
  reader,     \* "check", "read" or "ended"
  lines,      \* the channel from the reader to the command line
  typed,      \* number of lines that the user typed
  exitSignal, \* exit_signal
  memory,     \* changes of mempool, ledger and balances
  files,      \* changes that are on disk
  dirtyStep   \* history variable: the step of the oldest unsaved change

ioVars == <<reader, lines, typed>>
dataVars == <<memory, files, dirtyStep>>
processVars == <<main, step, cli, exitSignal, ioVars, dataVars>>

ProcessInit ==
  /\ main = "loop" /\ cli = "check" /\ reader = "check"
  /\ step = 0
  /\ lines = <<>> /\ typed = 0
  /\ exitSignal = FALSE
  /\ memory = 0 /\ files = 0 /\ dirtyStep = 0

-----------------------------------------------------------------------------
(* Something is added to or finalized from the mempool, or allocated. *)
Change ==
  /\ memory < MaxChanges
  /\ memory' = memory + 1
  /\ dirtyStep' = IF files = memory THEN step ELSE dirtyStep
  /\ UNCHANGED files

-----------------------------------------------------------------------------
(* The reader thread *)

ReaderChecks ==
  /\ main # "ended" /\ reader = "check"
  /\ reader' = IF exitSignal THEN "ended" ELSE "read"
  /\ UNCHANGED <<main, step, cli, exitSignal, lines, typed, dataVars>>

(* read_line returns when the user has typed a line. *)
ReadLine(line) ==
  /\ main # "ended" /\ reader = "read"
  /\ typed < MaxLines
  /\ typed' = typed + 1
  /\ lines' = Append(lines, line)
  /\ reader' = "check"
  /\ UNCHANGED <<main, step, cli, exitSignal, dataVars>>

(* The end of the input; the channel is disconnected. *)
ReadEnd ==
  /\ main # "ended" /\ reader = "read"
  /\ reader' = "ended"
  /\ UNCHANGED <<main, step, cli, exitSignal, lines, typed, dataVars>>

-----------------------------------------------------------------------------
(* The command-line thread, App::run_cli *)

CliChecks ==
  /\ main # "ended" /\ cli = "check"
  /\ cli' = IF exitSignal THEN "ended" ELSE "receive"
  /\ UNCHANGED <<main, step, exitSignal, ioVars, dataVars>>

CliRuns(line) ==
  IF line = "exit"
  THEN exitSignal' = TRUE /\ cli' = "ended" /\ UNCHANGED dataVars
  ELSE /\ cli' = "check"
       /\ (Change \/ UNCHANGED dataVars)
       /\ UNCHANGED exitSignal

CliReceives ==
  /\ main # "ended" /\ cli = "receive"
  /\ lines # <<>>
  /\ lines' = Tail(lines)
  /\ CliRuns(Head(lines))
  /\ UNCHANGED <<main, step, reader, typed>>

NeverTimesOut == FALSE                                           \* mutant

(* recv_timeout: after 200 ms without a line, or at once when the reader   *)
(* has ended and no line is left                                           *)
TimesOut == lines = <<>>

CliTimeout ==
  /\ main # "ended" /\ cli = "receive"
  /\ TimesOut
  /\ cli' = IF reader = "ended" THEN "ended" ELSE "check"
  /\ UNCHANGED <<main, step, exitSignal, ioVars, dataVars>>

-----------------------------------------------------------------------------
(* The main thread *)

(* One iteration.  It does not look at exit_signal: "exit" ends only the   *)
(* command line, and what the loop changes later must be saved as well.    *)
MainStep ==
  /\ main = "loop"
  /\ step' = step + 1
  /\ main' = IF step' >= LastStep THEN "signal" ELSE "loop"
  /\ (Change \/ UNCHANGED dataVars)
  /\ UNCHANGED <<cli, exitSignal, ioVars>>

MainSignals ==
  /\ main = "signal"
  /\ main' = "join"
  /\ exitSignal' = TRUE
  /\ UNCHANGED <<step, cli, ioVars, dataVars>>

WithoutJoin == TRUE                                              \* mutant

(* cli_handle.join() returns. *)
Joined == cli = "ended"

(* The end of main drops its reference to the shared DagLogic and ends the *)
(* process.  The last reference saves the files; the command-line thread   *)
(* dropped its own when it ended.                                          *)
MainEnds ==
  /\ main = "join"
  /\ Joined
  /\ main' = "ended"
  /\ files' = IF cli = "ended" THEN memory ELSE files
  /\ UNCHANGED <<step, cli, exitSignal, ioVars, memory, dirtyStep>>

-----------------------------------------------------------------------------
Cli == CliChecks \/ CliReceives \/ CliTimeout

Main == MainStep \/ MainSignals \/ MainEnds

Reader == ReaderChecks \/ (\E line \in {"change", "exit"} : ReadLine(line)) \/ ReadEnd

ProcessNext == Main \/ Cli \/ Reader

(* The operating system schedules the main and the command-line thread;    *)
(* nothing makes the user type.                                            *)
ProcessSpec ==
  ProcessInit /\ [][ProcessNext]_processVars /\ WF_processVars(Main) /\ WF_processVars(Cli)

-----------------------------------------------------------------------------
(* The process ends, also when the user never types a line again, closes   *)
(* the input, or says "exit" just when the loop is at its last step.       *)
ProcessEnds == <>(main = "ended")

(* What either thread did, up to its very last command, is in the files    *)
(* when the process has ended.                                             *)
EndsSaved == main = "ended" => files = memory

-----------------------------------------------------------------------------
(* config.rs: unsaved changes are flushed every FLUSH_INTERVAL_STEPS.      *)
FlushedInTime ==
  main = "loop" /\ files # memory => step - dirtyStep <= FlushInterval

=============================================================================
