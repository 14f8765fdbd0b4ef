------------------------------ MODULE DumpCall ------------------------------
(* What Runner.Run relies on when it calls DatabaseBackup.Run: the file grows *)
(* while the call lasts, is never touched after it, and is a whole dump when  *)
(* the call reports one.  BackupRun has just these steps (OpenDump, DumpDone, *)
(* DumpBreaks); DumpPipeline has the goroutines behind them.                  *)

VARIABLES
  file,    \* "none", "partial" or "whole": what the destination holds
  result   \* "running", "stored" or "failed": what the call has returned
vars == <<file, result>>

Init == file = "none" /\ result = "running"

(* A whole file is left alone: only its last byte makes it whole.             *)
Grow ==
  /\ result = "running" /\ file # "whole"
  /\ file' \in {"partial", "whole"}
  /\ UNCHANGED result

Succeed ==
  /\ result = "running" /\ file = "whole"
  /\ result' = "stored"
  /\ UNCHANGED file

(* The call may fail although the last byte is there: pg_dump's exit code, or *)
(* the answer of the destination, comes after it.                             *)
GiveUp ==
  /\ result = "running"
  /\ result' = "failed"
  /\ UNCHANGED file

Next == Grow \/ Succeed \/ GiveUp

Spec == Init /\ [][Next]_vars
=============================================================================
