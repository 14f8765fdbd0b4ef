---------------------------- MODULE MCBackupRun ----------------------------
(* Small instances of BackupRun for TLC. *)
EXTENDS BackupRun, TLC

CONSTANTS j1, j2, j3, b1, b2, o1, o2

Symmetry == Permutations(Jobs)

Ready == [creds |-> TRUE, dbURL |-> TRUE, destOK |-> TRUE,
          incDb |-> TRUE, incSt |-> TRUE, buckets |-> {},
          keepLast |-> 0, keepDays |-> 0]
DumpOnly == [Ready EXCEPT !.incSt = FALSE]

\* the configurations the settings hold, run by run
FullKeepOne  == {[Ready EXCEPT !.keepLast = 1]}
DumpKeepBoth == {[DumpOnly EXCEPT !.keepLast = n, !.keepDays = 1] : n \in {1, 2}}
DumpsOnly    == {DumpOnly}

\* what the buckets hold
OneObject == b1 :> {o1}
NoObjects == b1 :> {}
=============================================================================
