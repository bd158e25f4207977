--------------------------- MODULE MemoryMonitor ---------------------------
(***************************************************************************)
(* src/scripts/memoryMonitor.py: main() runs MemoryMonitor.monitor, which  *)
(* starts the command and samples it in _monitor_process, then            *)
(* convert_units.  The monitor races three things it does not control:    *)
(*  - the child, which may finish at any moment, dies on SIGKILL and on    *)
(*    SIGTERM unless it ignores SIGTERM;                                   *)
(*  - the kernel, whose /proc/<pid>/statm of an exited child that nobody  *)
(*    has waited for yet (a zombie) reads "0 0 0 0 0 0 0";               *)
(*  - a SIGINT or SIGTERM sent to the monitor.  While monitor() has       *)
(*    _signal_handler installed, the handler runs between any two steps  *)
(*    of the monitor, terminates the child, waits up to five seconds     *)
(*    (kill() on timeout) and calls sys.exit(0).  Afterwards SIGINT has  *)
(*    its default handler again and raises KeyboardInterrupt.            *)
(*                                                                         *)
(* A sample is abstracted to its step number and whether the child was    *)
(* running when statm was read (live) or was a zombie (all zeros).  Unit  *)
(* conversion rewrites every value of a row and keeps the rows, so the   *)
(* model keeps the rows and tracks only the temporary file.              *)
(***************************************************************************)
EXTENDS Integers, Sequences

CONSTANTS
  MaxRows,        \* max_rows
  BatchSizes,     \* the batch_size values to check
  MaxSignals      \* SIGINT/SIGTERM deliveries to the monitor, at most

ASSUME MaxRows \in Nat \ {0} /\ BatchSizes \subseteq Nat \ {0}
ASSUME MaxSignals \in Nat

VARIABLES
  pc,           \* position of the main thread, see Positions
  batchSize,    \* batch_size of this run
  process,      \* self.process is set: Popen(...) has returned and been stored
  resume,       \* where an exception goes once the finally block is done:
                \* "none", SystemExit ("fin_poll"/"exit") or an OSError ("raise")
  child,        \* "none" before Popen, "running", "exited" (a zombie), "reaped"
  ignoresTerm,  \* the monitored command ignores SIGTERM
  termSent,     \* Popen.terminate() has sent SIGTERM
  killed,       \* Popen.kill() has sent SIGKILL
  step,         \* `step`, always equal to `row_count`
  batch,        \* memory_batch
  csv,          \* the data rows in the CSV file
  signals,      \* how many signals have been delivered
  convert,      \* not --no-convert
  tmpFile,      \* the .tmp file of convert_units exists
  exitStatus    \* the process's exit status, -1 while it runs

vars == <<batchSize, process, pc, resume, child, ignoresTerm, termSent, killed, step, batch,
          csv, signals, convert, tmpFile, exitStatus>>

(* Positions, by the lines they stand for:                                *)
(*   "start"     391-397  MemoryMonitor(...) and _validate_parameters     *)
(*   "popen"     183-191  handlers installed, subprocess.Popen(command)  *)
(*   "spawned"   186      the child is forked; Popen still waits on its   *)
(*                        exec pipe and self.process is not yet stored   *)
(*   "poll"      214-218  loop test and process.poll()                   *)
(*   "read"      221-243  read statm, append, flush, max_rows, sleep      *)
(*   "rest"      246-247  write the remaining batch                      *)
(*   "fin_poll"  256-257  finally: poll(), terminate() if still running  *)
(*   "fin_wait"  258-261  finally: wait(timeout=5), kill() on timeout    *)
(*   "last_wait" 264      wait() with no timeout                         *)
(*   "h_wait"    152-159  the handler: terminate(), wait(5), sys.exit(0) *)
(*   "convert"   403-404, 291-335  convert_units copying into the .tmp   *)
(*   "exit"      the process has exited                                  *)
Positions == {"start", "popen", "spawned", "poll", "read", "rest", "fin_poll", "fin_wait",
              "last_wait", "h_wait", "convert", "exit"}

\* The positions inside the try block of _monitor_process.
InTry == {"poll", "read", "rest"}

\* The positions where _signal_handler is installed (lines 161-170).
HandlerInstalled == InTry \cup {"fin_poll", "fin_wait", "last_wait"}

Init ==
  /\ pc = "start"
  /\ batchSize \in BatchSizes
  /\ process = FALSE
  /\ resume = "none"
  /\ child = "none"
  /\ ignoresTerm \in BOOLEAN
  /\ termSent = FALSE
  /\ killed = FALSE
  /\ step = 0
  /\ batch = <<>>
  /\ csv = <<>>
  /\ signals = 0
  /\ convert \in BOOLEAN
  /\ tmpFile = FALSE
  /\ exitStatus = -1

\* Popen.terminate(): sends SIGTERM unless the child has been waited for.
Terminate == termSent' = (termSent \/ child # "reaped")

\* After the finally block: line 264 normally, out of monitor() when the
\* handler's SystemExit is propagating.
AfterFinally ==
  CASE resume = "none"  -> pc' = "last_wait" /\ UNCHANGED exitStatus
    [] resume = "raise" -> pc' = "exit" /\ exitStatus' = 1
    [] OTHER            -> pc' = "exit" /\ exitStatus' = 0

-----------------------------------------------------------------------------
(* The monitor thread.                                                    *)

\* main(): MemoryMonitor(...) raises ValueError for a non-positive
\* granularity, max_rows or batch_size or a missing output directory;
\* `except Exception` returns 1.
Construct ==
  /\ pc = "start"
  /\ \/ pc' = "popen" /\ UNCHANGED exitStatus
     \/ pc' = "exit" /\ exitStatus' = 1
  /\ UNCHANGED <<batchSize, process, resume, child, ignoresTerm, termSent, killed, step, batch,
                 csv, signals, convert, tmpFile>>

\* monitor(): Popen forks the command, or raises OSError (no command),
\* re-raised as RuntimeError (status 1).
Popen ==
  /\ pc = "popen"
  /\ \/ child' = "running" /\ pc' = "spawned" /\ UNCHANGED exitStatus
     \/ UNCHANGED child /\ pc' = "exit" /\ exitStatus' = 1
  /\ UNCHANGED <<batchSize, process, resume, ignoresTerm, termSent, killed, step,
                 batch, csv, signals, convert, tmpFile>>

\* Popen returns and `self.process = ...` stores it; _monitor_process then
\* opens the CSV file, or the open raises and the finally block runs.
StoreProcess ==
  /\ pc = "spawned"
  /\ process' = TRUE
  /\ \/ pc' = "poll" /\ UNCHANGED resume
     \/ pc' = "fin_poll" /\ resume' = "raise"
  /\ UNCHANGED <<batchSize, child, ignoresTerm, termSent, killed, step, batch, csv,
                 signals, convert, tmpFile, exitStatus>>

\* Mutant of Poll: the break leaves past the write of the remaining batch.
PollBreakPastWrite ==
  /\ pc = "poll"
  /\ IF child = "exited" THEN child' = "reaped" /\ pc' = "fin_poll"
                         ELSE UNCHANGED child /\ pc' = "read"
  /\ UNCHANGED <<batchSize, process, resume, ignoresTerm, termSent, killed, step, batch, csv,
                 signals, convert, tmpFile, exitStatus>>

\* `if self.process.poll() is not None: break`; poll() reaps an exited child.
Poll ==
  /\ pc = "poll"
  /\ IF child = "exited" THEN child' = "reaped" /\ pc' = "rest"
                         ELSE UNCHANGED child /\ pc' = "read"
  /\ UNCHANGED <<batchSize, process, resume, ignoresTerm, termSent, killed, step, batch, csv,
                 signals, convert, tmpFile, exitStatus>>

\* _write_batch: `writer.writerows` of the batch's [vm, rss, step] rows.
WriteBatch(b) == csv' = csv \o b

\* _get_memory_info(pid) on the child, which has not been waited for: its
\* statm while it runs, "0 0 0 0 0 0 0" once it has exited (a zombie).
\* The None returns need /proc/<pid> to be gone, i.e. a reaped child.
GetMemoryInfo(c) == [step |-> step, live |-> c = "running"]

\* Mutant of Flush: the batch is written but memory_batch.clear() is missing.
FlushNoClear(b) ==
  IF Len(b) >= batchSize THEN WriteBatch(b) /\ batch' = b
                         ELSE csv' = csv /\ batch' = b

\* Mutant of Flush: `>` for `>=`.
FlushPastSize(b) ==
  IF Len(b) > batchSize THEN WriteBatch(b) /\ batch' = <<>>
                        ELSE csv' = csv /\ batch' = b

\* `if len(memory_batch) >= self.batch_size`: write the batch and clear it.
Flush(b) ==
  IF Len(b) >= batchSize THEN WriteBatch(b) /\ batch' = <<>>
                         ELSE csv' = csv /\ batch' = b

\* _get_memory_info(pid) reads statm (zeros for a zombie), the sample is
\* appended with the current step, step and row_count grow, a full batch
\* is flushed, and at max_rows the child is sent SIGTERM and the loop ends.
\* _write_batch raises (an OSError such as a full disk): the rows before
\* the failing one may have reached the file.  The model's batch then
\* holds the rows that did not; memory_batch is never read again.
FailedWrite(b) ==
  \E k \in 0 .. Len(b) - 1 :
    /\ csv' = csv \o SubSeq(b, 1, k)
    /\ batch' = SubSeq(b, k + 1, Len(b))

\* The flush of a full batch raises: `except Exception: raise` runs the
\* finally block, skipping the max_rows check.
ReadSampleWriteFails ==
  /\ pc = "read"
  /\ child # "reaped"
  /\ LET b == Append(batch, GetMemoryInfo(child))
     IN  Len(b) >= batchSize /\ FailedWrite(b)
  /\ step' = step + 1
  /\ pc' = "fin_poll" /\ resume' = "raise"
  /\ UNCHANGED <<batchSize, process, child, ignoresTerm, termSent, killed, signals,
                 convert, tmpFile, exitStatus>>

ReadSample ==
  /\ pc = "read"
  /\ child # "reaped"
  /\ Flush(Append(batch, GetMemoryInfo(child)))
  /\ step' = step + 1
  /\ IF step + 1 >= MaxRows THEN Terminate /\ pc' = "rest"
                            ELSE UNCHANGED termSent /\ pc' = "poll"
  /\ UNCHANGED <<batchSize, process, resume, child, ignoresTerm, killed, signals, convert,
                 tmpFile, exitStatus>>

\* Mutant of WriteRest: the batch is written but not cleared.
WriteRestKeepBatch ==
  /\ pc = "rest"
  /\ csv' = csv \o batch
  /\ pc' = "fin_poll"
  /\ UNCHANGED <<batchSize, process, batch, resume, child, ignoresTerm, termSent, killed, step,
                 signals, convert, tmpFile, exitStatus>>

\* `if memory_batch: self._write_batch(writer, memory_batch)`
WriteRest ==
  /\ pc = "rest"
  /\ WriteBatch(batch)
  /\ batch' = <<>>
  /\ pc' = "fin_poll"
  /\ UNCHANGED <<batchSize, process, resume, child, ignoresTerm, termSent, killed, step,
                 signals, convert, tmpFile, exitStatus>>

\* The write of the remaining batch raises.
WriteRestFails ==
  /\ pc = "rest"
  /\ batch # <<>>
  /\ FailedWrite(batch)
  /\ pc' = "fin_poll" /\ resume' = "raise"
  /\ UNCHANGED <<batchSize, process, child, ignoresTerm, termSent, killed, step,
                 signals, convert, tmpFile, exitStatus>>

\* finally: `if self.process and self.process.poll() is None: terminate()`
FinallyPoll ==
  /\ pc = "fin_poll"
  /\ IF child = "running"
       THEN Terminate /\ pc' = "fin_wait" /\ UNCHANGED <<batchSize, process, child, exitStatus>>
       ELSE child' = "reaped" /\ UNCHANGED termSent /\ AfterFinally
  /\ UNCHANGED <<batchSize, process, resume, ignoresTerm, killed, step, batch, csv, signals,
                 convert, tmpFile>>

\* self.process.wait(timeout=5) returns once the child has exited.
FinallyWaitReturns ==
  /\ pc = "fin_wait"
  /\ child = "exited"
  /\ child' = "reaped"
  /\ AfterFinally
  /\ UNCHANGED <<batchSize, process, resume, ignoresTerm, termSent, killed, step, batch, csv,
                 signals, convert, tmpFile>>

\* Mutant of FinallyWaitTimeout: the timeout is swallowed, no kill().
FinallyWaitTimeoutNoKill ==
  /\ pc = "fin_wait"
  /\ child = "running" /\ ~killed
  /\ AfterFinally
  /\ UNCHANGED <<batchSize, process, killed, resume, child, ignoresTerm, termSent, step, batch,
                 csv, signals, convert, tmpFile>>

\* TimeoutExpired: self.process.kill().  A child already sent SIGKILL is
\* dead well before five seconds pass, so only a live one times out.
FinallyWaitTimeout ==
  /\ pc = "fin_wait"
  /\ child = "running" /\ ~killed
  /\ killed' = TRUE
  /\ AfterFinally
  /\ UNCHANGED <<batchSize, process, resume, child, ignoresTerm, termSent, step, batch, csv,
                 signals, convert, tmpFile>>

\* `return_code = self.process.wait()` blocks until the child has exited;
\* monitor() returns, the old handlers are back, and main() goes on to
\* convert_units, which opens the CSV and creates the .tmp file.
LastWait ==
  /\ pc = "last_wait"
  /\ child # "running"
  /\ child' = "reaped"
  /\ IF convert THEN pc' = "convert" /\ tmpFile' = TRUE /\ UNCHANGED exitStatus
                ELSE pc' = "exit" /\ exitStatus' = 0 /\ UNCHANGED tmpFile
  /\ UNCHANGED <<batchSize, process, resume, ignoresTerm, termSent, killed, step, batch, csv,
                 signals, convert>>

\* An exception while converting (the file cannot be read or written):
\* the .tmp file is unlinked and RuntimeError makes main() return 1.
ConvertFails ==
  /\ pc = "convert"
  /\ tmpFile' = FALSE
  /\ pc' = "exit" /\ exitStatus' = 1
  /\ UNCHANGED <<batchSize, process, resume, child, ignoresTerm, termSent, killed, step, batch,
                 csv, signals, convert>>

\* temp_file.replace(self.outfile); main() returns 0.
ConvertReplace ==
  /\ pc = "convert"
  /\ tmpFile' = FALSE
  /\ pc' = "exit" /\ exitStatus' = 0
  /\ UNCHANGED <<batchSize, process, resume, child, ignoresTerm, termSent, killed, step, batch,
                 csv, signals, convert>>

-----------------------------------------------------------------------------
(* _signal_handler's signal_handler.  It can run at any step of the       *)
(* monitor while installed; sys.exit(0) raises SystemExit where the       *)
(* monitor was interrupted.  Raised inside the try block, it is not       *)
(* caught by `except KeyboardInterrupt` or `except Exception`, so the     *)
(* finally block runs and the exception leaves monitor() and main()       *)
(* (status 0); raised in the finally block or at line 264, it leaves at  *)
(* once.  A second signal while the handler runs (its wait) runs the      *)
(* handler again inside it; the inner SystemExit is not a TimeoutExpired, *)
(* so it leaves the outer handler too and goes where the outer one would. *)
Signal ==
  /\ signals < MaxSignals
  /\ pc \in HandlerInstalled \cup {"h_wait"}
  /\ signals' = signals + 1
  /\ Terminate
  /\ resume' = CASE pc \in InTry  -> "fin_poll"
                  [] pc = "h_wait" -> resume
                  [] OTHER         -> "exit"
  /\ pc' = "h_wait"
  /\ UNCHANGED <<batchSize, process, child, ignoresTerm, killed, step, batch, csv, convert,
                 tmpFile, exitStatus>>

\* The handler before self.process is stored: it is None, so the handler
\* goes straight to sys.exit(0).  Before the fork no command is started;
\* after it, the command is left running with nobody to stop it.
SignalBeforeStart ==
  /\ signals < MaxSignals
  /\ pc \in {"popen", "spawned"}
  /\ signals' = signals + 1
  /\ pc' = "exit" /\ exitStatus' = 0
  /\ UNCHANGED <<batchSize, process, resume, child, ignoresTerm, termSent, killed, step, batch,
                 csv, convert, tmpFile>>

\* SystemExit from sys.exit(0) at line 159.
HandlerExit ==
  /\ pc' = resume
  /\ exitStatus' = IF resume = "exit" THEN 0 ELSE exitStatus

\* self.process.wait(timeout=5) in the handler returns (reaping the child).
HandlerWaitReturns ==
  /\ pc = "h_wait"
  /\ child # "running"
  /\ child' = "reaped"
  /\ HandlerExit
  /\ UNCHANGED <<batchSize, process, resume, ignoresTerm, termSent, killed, step, batch, csv,
                 signals, convert, tmpFile>>

\* Mutant of HandlerWaitTimeout: the timeout is swallowed, no kill().
HandlerWaitTimeoutNoKill ==
  /\ pc = "h_wait"
  /\ child = "running" /\ ~killed
  /\ HandlerExit
  /\ UNCHANGED <<batchSize, process, killed, resume, child, ignoresTerm, termSent, step, batch,
                 csv, signals, convert, tmpFile>>

\* TimeoutExpired in the handler: self.process.kill().
HandlerWaitTimeout ==
  /\ pc = "h_wait"
  /\ child = "running" /\ ~killed
  /\ killed' = TRUE
  /\ HandlerExit
  /\ UNCHANGED <<batchSize, process, resume, child, ignoresTerm, termSent, step, batch, csv,
                 signals, convert, tmpFile>>

\* Outside monitor() the default dispositions apply: while MemoryMonitor(...)
\* is built and during convert_units.  SIGINT raises KeyboardInterrupt,
\* which `except Exception` in convert_units does not catch (the .tmp file
\* is not unlinked) and main() turns into 130; SIGTERM kills the process
\* outright (status 128 + 15 as the shell reports it).
DefaultSignal ==
  /\ signals < MaxSignals
  /\ pc \in {"start", "convert"}
  /\ signals' = signals + 1
  /\ pc' = "exit"
  /\ exitStatus' \in {130, 143}
  /\ UNCHANGED <<batchSize, process, resume, child, ignoresTerm, termSent, killed, step, batch,
                 csv, convert, tmpFile>>

-----------------------------------------------------------------------------
(* The monitored command.                                                 *)

\* It exits: on its own at any time, or on SIGTERM or SIGKILL.
ChildExits ==
  /\ child = "running"
  /\ child' = "exited"
  /\ UNCHANGED <<batchSize, process, pc, resume, ignoresTerm, termSent, killed, step, batch, csv,
                 signals, convert, tmpFile, exitStatus>>

\* The exits that signals guarantee: SIGKILL, or SIGTERM when not ignored.
ChildDies == ChildExits /\ (killed \/ (termSent /\ ~ignoresTerm))

MonitorStep ==
  \/ Construct \/ Popen \/ StoreProcess
  \/ Poll \/ ReadSample \/ ReadSampleWriteFails \/ WriteRest \/ WriteRestFails
  \/ FinallyPoll \/ FinallyWaitReturns
  \/ FinallyWaitTimeout \/ LastWait \/ ConvertReplace \/ ConvertFails
  \/ HandlerWaitReturns \/ HandlerWaitTimeout

Next ==
  MonitorStep \/ Signal \/ SignalBeforeStart \/ DefaultSignal \/ ChildExits

(* The monitor is one thread that keeps running (time.sleep and the waits *)
(* with a timeout always return), and a signalled child dies.  Neither  *)
(* the command finishing on its own nor a signal arriving is assumed.     *)
Spec == Init /\ [][Next]_vars /\ WF_vars(MonitorStep) /\ WF_vars(ChildDies)

-----------------------------------------------------------------------------
\* Rows as the model abstracts them.
Rows == Seq([step : Nat, live : BOOLEAN])

MonitorTypeOK ==
  /\ pc \in Positions
  /\ resume \in {"none", "fin_poll", "exit", "raise"}
  /\ child \in {"none", "running", "exited", "reaped"}
  /\ {process, ignoresTerm, termSent, killed, convert, tmpFile} \subseteq BOOLEAN
  /\ signals \in 0..MaxSignals
  /\ step \in 0..MaxRows
  /\ batch \in Rows /\ Len(batch) <= batchSize
  /\ Len(batch) = batchSize => resume = "raise"
  /\ batchSize \in BatchSizes
  /\ csv \in Rows
  /\ exitStatus \in {-1, 0, 1, 130, 143}

\* The CSV rows, then the rows still in memory_batch.
Collected == csv \o batch

\* The CSV file is open: inside the with block of line 210, including a
\* handler that interrupted it and has not yet raised SystemExit.
CsvOpen == pc \in InTry \/ (pc = "h_wait" /\ resume = "fin_poll")

S == INSTANCE Sampler WITH
       log <- [i \in DOMAIN Collected |-> Collected[i].step],
       saved <- Len(csv),
       open <- CsvOpen

(* The monitor implements Sampler: batching, the remainder write and the *)
(* signal handler only ever take sample 0, 1, 2, ... in order, at most    *)
(* max_rows of them, write a growing prefix of them to the CSV, and      *)
(* touch nothing once the file is closed (lines 210-247, 150-159).       *)
SamplerRefined == S!Spec

(* Exit status 0 means the CSV holds every sample the monitor collected  *)
(* ("Write remaining data", line 245; "Collected {row_count} samples",   *)
(* line 268).                                                             *)
ExitZeroMeansEverySampleWritten ==
  exitStatus = 0 => Len(csv) = step

(* Every row of the CSV was read from the running command: none comes    *)
(* from the statm of a command that has already ended (the loop breaks   *)
(* when poll() or _get_memory_info says the process has ended, lines     *)
(* 216-224).                                                              *)
SamplesFromLiveChild ==
  \A i \in DOMAIN Collected : Collected[i].live

(* A command the monitor has stored in self.process never outlives the  *)
(* monitor: when the process exits, the command has exited or has been   *)
(* sent SIGKILL, whether the monitor reached max_rows, saw it end, or was *)
(* signalled, even inside its own handler (the cleanup of lines 152-158  *)
(* and 255-261).  A command forked before the store is not covered: a    *)
(* signal then leaves it running (SignalBeforeStart).                     *)
SupervisedChildNeverOutlivesMonitor ==
  pc = "exit" /\ process => child # "running" \/ killed

(* The monitor always ends, even for a command that ignores SIGTERM: the *)
(* waits with a timeout fall back to kill(), so the final wait() at line *)
(* 264 and the handler's wait return.                                     *)
MonitorTerminates == <>(pc = "exit")

(* No .tmp file is left behind when the process exits ("Clean up         *)
(* temporary file on error", lines 338-341).                              *)
TempFileRemoved == pc = "exit" => ~tmpFile
====
