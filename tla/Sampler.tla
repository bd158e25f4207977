------------------------------ MODULE Sampler ------------------------------
(***************************************************************************)
(* What the monitor promises about its CSV file, without batches, polls  *)
(* or signals: while the file is open, samples numbered 0, 1, 2, ... are *)
(* taken, at most MaxRows of them, and a growing prefix of them is        *)
(* saved; once the file is closed nothing changes.  Samples not saved     *)
(* when the file closes are lost, which this specification allows: an    *)
(* interrupted run may end that way.                                       *)
(***************************************************************************)
EXTENDS Naturals, Sequences

CONSTANT MaxRows

VARIABLES
  log,    \* the step numbers of the samples taken, in order
  saved,  \* how many of them are in the file
  open    \* the file is open for writing

avars == <<log, saved, open>>

Init == log = <<>> /\ saved = 0 /\ open = FALSE

\* The file is created.
Open == ~open /\ log = <<>> /\ open' = TRUE /\ UNCHANGED <<log, saved>>

\* The next sample is taken; a longer prefix may reach the file with it.
Sample ==
  /\ open /\ Len(log) < MaxRows
  /\ log' = Append(log, Len(log))
  /\ saved' \in saved .. Len(log')
  /\ UNCHANGED open

\* A longer prefix of the samples reaches the file.
Save ==
  /\ open
  /\ \E k \in saved + 1 .. Len(log) : saved' = k
  /\ UNCHANGED <<log, open>>

\* The file is closed, possibly right after a last sample is taken and a
\* last prefix is saved (a write that fails closes the file).
Close ==
  /\ open /\ open' = FALSE
  /\ \/ log' = log
     \/ Len(log) < MaxRows /\ log' = Append(log, Len(log))
  /\ saved' \in saved .. Len(log')

Next == Open \/ Sample \/ Save \/ Close

\* A file that is opened is eventually closed.
Spec == Init /\ [][Next]_avars /\ WF_avars(Close)
====
