--------------------------- MODULE BackupRunProofs ---------------------------
(* Theorems about BackupRun: for any number of runs, any buckets, any clock   *)
(* and any retention policies that respect the bounds Floor and MinAge.       *)
EXTENDS BackupRun, FiniteSetTheorems, WellFoundedInduction, TLAPS

-------------------------------------------------------------------------------
(* Keys and configurations *)

LEMMA KeyFacts ==
  /\ \A d \in Days, t \in Ticks : DumpKey(d, t) \in Keys /\ DateOf(DumpKey(d, t)) = d
  /\ \A d \in Days, o \in Objects :
       /\ ObjectKey(d, o) \in Keys
       /\ DateOf(ObjectKey(d, o)) = d
       /\ ObjectKey(d, o)[3] = o
  /\ \A k \in Keys : DateOf(k) \in Days
BY DEF Keys, DumpKey, ObjectKey, DateOf

LEMMA ForTypeFacts ==
  ASSUME NEW c \in Configs, NEW type \in JobTypes
  PROVE  /\ ForType(c, type) \in ConfigOf(Buckets)
         /\ ForType(c, type).keepLast = c.keepLast
         /\ ForType(c, type).keepDays = c.keepDays
BY ConfigAssumption DEF ForType, ConfigOf, JobTypes

LEMMA JobTypeFacts ==
  ASSUME NEW c \in ConfigOf(Buckets)
  PROVE  JobType(c) \in JobTypes
BY DEF JobType, JobTypes, ConfigOf

LEMMA SelectedFacts ==
  ASSUME NEW c \in ConfigOf(Buckets)
  PROVE  Selected(c, Buckets) \subseteq Buckets
BY DEF Selected, ConfigOf

LEMMA ContentsFacts == ASSUME NEW b \in Buckets PROVE Contents[b] \subseteq Objects
BY DEF Objects

-------------------------------------------------------------------------------
(* Type correctness.  The cursor of a run that writes is a key: what it named *)
(* its dump, or an object under its date prefix; and a run that has come past *)
(* CreateJob has a row.                                                       *)

CursorOK ==
  \A j \in Jobs :
    /\ pc[j] = "connect" => run[j].dump \in Keys
    /\ pc[j] = "dumping" => run[j].cur \in Keys
    /\ pc[j] = "copying" => run[j].cur \in Keys /\ run[j].cur[3] \in Objects

RowMade ==
  \A j \in Jobs :
    pc[j] \notin {"idle", "queued", "rejected", "dead"} => rows[j].type \in JobTypes

TypeInv == TypeOK /\ CursorOK /\ RowMade

LEMMA InitType == Init => TypeInv
<1> SUFFICES ASSUME Init PROVE TypeInv
  OBVIOUS
<1> USE ClockAssumption DEF Init
<1>1. today \in Days /\ tick \in Ticks /\ dates \in SUBSET Days
  BY DEF Days, Ticks
<1>2. cfg \in [Jobs -> ConfigOf(Buckets)]
  BY DEF ConfigOf, NoConfig
<1>3. run \in [Jobs -> Locals]
  <2>1. 0 \in Days
    BY DEF Days
  <2> QED BY <2>1 DEF Locals, NoLocals
<1>4. files \in [Keys -> Files] /\ rows \in [Jobs -> Rows] /\ pc \in [Jobs -> PCs]
  BY DEF Files, NoFile, Rows, PCs
<1>5. CursorOK /\ RowMade
  BY DEF CursorOK, RowMade
<1> QED BY <1>1, <1>2, <1>3, <1>4, <1>5 DEF TypeInv, TypeOK

(* Starting a run, and the steps that touch neither files nor locals.         *)
LEMMA StartType ==
  ASSUME TypeInv, NEW j \in Jobs, Start(j)
  PROVE  TypeInv'
<1>1. PICK c \in Configs, type \in JobTypes : Capture(j, c, type)
  BY DEF Start, TriggerJob, ScheduledJob
<1>2. ForType(c, type) \in ConfigOf(Buckets)
  BY ForTypeFacts
<1> QED BY <1>1, <1>2
  DEF TypeInv, TypeOK, CursorOK, RowMade, Capture, Goto, PCs, clockVars, fileVars, passVars

LEMMA RowStepsType ==
  ASSUME TypeInv, NEW j \in Jobs,
         CreateJob(j) \/ RejectJob(j) \/ Complete(j) \/ StorageDone(j)
  PROVE  TypeInv'
<1> USE DEF TypeInv, TypeOK, CursorOK, RowMade, Goto, PCs, Over, clockVars, fileVars, passVars
<1>1. JobType(cfg[j]) \in JobTypes
  BY JobTypeFacts
<1>2. CASE CreateJob(j)
  BY <1>1, <1>2 DEF CreateJob, AfterDump, Rows
<1>3. CASE RejectJob(j)
  BY <1>3 DEF RejectJob
<1>4. CASE Complete(j)
  <2>1. rows[j] \in [type : JobTypes, status : {"running", "success", "failed"}]
    BY <1>4 DEF Complete, Rows, NoRow, JobTypes
  <2> QED BY <1>4, <2>1 DEF Complete, Rows
<1>5. CASE StorageDone(j)
  BY <1>5 DEF StorageDone
<1> QED BY <1>2, <1>3, <1>4, <1>5

-------------------------------------------------------------------------------
(* The steps that write files. *)

LEMMA OpenFileType ==
  ASSUME TypeOK, NEW j \in Jobs, NEW k \in Keys, OpenFile(j, k)
  PROVE  /\ files' \in [Keys -> Files] /\ dates' \in SUBSET Days
         /\ opened' \in [Keys -> SUBSET Jobs]
         /\ stored' = stored /\ expired' = expired
<1>1. opened' \in [Keys -> SUBSET Jobs] /\ stored' = stored /\ expired' = expired
  BY DEF TypeOK, OpenFile
<1>2. dates' \in SUBSET Days
  BY KeyFacts DEF TypeOK, OpenFile
<1>3. files' \in [Keys -> Files]
  <2> DEFINE f == [writers |-> {j} \cup {i \in files[k].writers : HasOpen(i, k)},
                   done |-> {}]
  <2>1. f \in Files
    BY DEF TypeOK, Files
  <2>2. files' = files \/ files' = [files EXCEPT ![k] = f]
    BY DEF OpenFile
  <2> QED BY <2>1, <2>2 DEF TypeOK
<1> QED BY <1>1, <1>2, <1>3

LEMMA CloseFileType ==
  ASSUME TypeOK, NEW j \in Jobs, NEW k \in Keys, CloseFile(j, k)
  PROVE  /\ files' \in [Keys -> Files] /\ dates' \in SUBSET Days
         /\ stored' \in [Jobs -> SUBSET Keys]
         /\ opened' = opened /\ expired' = expired
<1>1. stored' \in [Jobs -> SUBSET Keys] /\ opened' = opened /\ expired' = expired
  BY DEF TypeOK, CloseFile
<1>2. dates' \in SUBSET Days
  BY KeyFacts DEF TypeOK, CloseFile
<1>3. files' \in [Keys -> Files]
  <2>1. FileOf(j) \in Files
    BY DEF FileOf, Files
  <2>2. [files[k] EXCEPT !.done = @ \cup ({j} \cap files[k].writers)] \in Files
    BY DEF TypeOK, Files
  <2>3. \/ files' = [files EXCEPT ![k] = FileOf(j)]
        \/ files' = [files EXCEPT ![k] =
                       [files[k] EXCEPT !.done = @ \cup ({j} \cap files[k].writers)]]
    BY DEF CloseFile
  <2> QED BY <2>1, <2>2, <2>3 DEF TypeOK
<1> QED BY <1>1, <1>2, <1>3

LEMMA OpenFailsType ==
  ASSUME TypeOK, NEW k \in Keys, OpenFails(k)
  PROVE  /\ dates' \in SUBSET Days
         /\ UNCHANGED <<files, opened, stored, expired>>
BY KeyFacts DEF TypeOK, OpenFails

LEMMA BreakFileType ==
  ASSUME TypeOK, NEW j \in Jobs, NEW k \in Keys, BreakFile(j, k)
  PROVE  /\ files' \in [Keys -> Files] /\ dates' \in SUBSET Days
         /\ UNCHANGED <<opened, stored, expired>>
<1>1. FileOf(j) \in Files
  BY DEF FileOf, Files
<1> QED BY <1>1, KeyFacts DEF TypeOK, BreakFile, fileVars

(* What is left to show of a step that moves run j from one call to another.  *)
LEMMA MoveType ==
  ASSUME TypeInv, NEW j \in Jobs, NEW to \in PCs, NEW loc \in Locals,
         pc' = [pc EXCEPT ![j] = to], run' = [run EXCEPT ![j] = loc],
         to = "connect" => loc.dump \in Keys,
         to = "dumping" => loc.cur \in Keys,
         to = "copying" => loc.cur \in Keys /\ loc.cur[3] \in Objects,
         UNCHANGED <<clockVars, rows, cfg, passVars>>,
         rows[j].type \in JobTypes,
         files' \in [Keys -> Files], dates' \in SUBSET Days,
         opened' \in [Keys -> SUBSET Jobs], stored' \in [Jobs -> SUBSET Keys],
         expired' \in SUBSET Days, skipped' \in [Jobs -> SUBSET Objects]
  PROVE  TypeInv'
<1> USE DEF TypeInv
<1>1. run' \in [Jobs -> Locals] /\ pc' \in [Jobs -> PCs]
  BY DEF TypeOK
<1>2. TypeOK'
  BY <1>1 DEF TypeOK, clockVars, passVars
<1>3. CursorOK' /\ RowMade'
  <2>1. \A i \in Jobs : pc'[i] = IF i = j THEN to ELSE pc[i]
    BY DEF TypeOK
  <2>2. \A i \in Jobs : run'[i] = IF i = j THEN loc ELSE run[i]
    BY DEF TypeOK
  <2> QED BY <2>1, <2>2 DEF CursorOK, RowMade
<1> QED BY <1>2, <1>3

LEMMA LocalsFacts ==
  ASSUME TypeOK, NEW j \in Jobs
  PROVE  /\ run[j] \in Locals
         /\ \A k \in Keys \cup {NoKey} :
              /\ [run[j] EXCEPT !.cur = k] \in Locals
              /\ [run[j] EXCEPT !.cur = k].cur = k
              /\ [run[j] EXCEPT !.dump = k] \in Locals
              /\ [run[j] EXCEPT !.dump = k].dump = k
         /\ [run[j] EXCEPT !.failed = TRUE, !.cur = NoKey] \in Locals
<1>1. run[j] \in Locals
  BY DEF TypeOK
<1>2. ASSUME NEW k \in Keys \cup {NoKey}
      PROVE  /\ [run[j] EXCEPT !.cur = k] \in Locals
             /\ [run[j] EXCEPT !.cur = k].cur = k
             /\ [run[j] EXCEPT !.dump = k] \in Locals
             /\ [run[j] EXCEPT !.dump = k].dump = k
  BY <1>1 DEF Locals
<1>3. [run[j] EXCEPT !.failed = TRUE, !.cur = NoKey] \in Locals
  BY <1>1 DEF Locals
<1> QED BY <1>1, <1>2, <1>3

LEMMA FailType ==
  ASSUME TypeInv, NEW j \in Jobs, NEW from, Fail(j, from),
         pc[j] \notin {"idle", "queued", "rejected", "dead"},
         files' \in [Keys -> Files], dates' \in SUBSET Days,
         UNCHANGED <<opened, stored, expired>>
  PROVE  TypeInv'
<1> DEFINE loc == [run[j] EXCEPT !.failed = TRUE, !.cur = NoKey]
<1>1. loc \in Locals
  BY LocalsFacts DEF TypeInv
<1>2. run' = [run EXCEPT ![j] = loc] /\ pc' = [pc EXCEPT ![j] = "complete"]
  BY DEF Fail, Goto
<1> HIDE DEF loc
<1>3. rows[j].type \in JobTypes
  BY DEF TypeInv, RowMade
<1> QED BY <1>1, <1>2, <1>3, MoveType DEF TypeInv, TypeOK, Fail, PCs

LEMMA DumpStepsType ==
  ASSUME TypeInv, NEW j \in Jobs,
         \/ NameDump(j) \/ DumpRefused(j) \/ OpenDump(j) \/ OpenDumpFails(j)
         \/ DumpDone(j) \/ DumpBreaks(j)
  PROVE  TypeInv'
<1> USE DEF Goto, PCs, Over, clockVars, passVars
<1>0. rows[j].type \in JobTypes
  BY DEF TypeInv, RowMade, NameDump, DumpRefused, OpenDump, OpenDumpFails,
         DumpDone, DumpBreaks, Fail
<1>1. CASE NameDump(j)
  <2>1. DumpKey(today, tick) \in Keys
    BY KeyFacts DEF TypeInv, TypeOK
  <2> DEFINE loc == [run[j] EXCEPT !.dump = DumpKey(today, tick)]
  <2>2. loc \in Locals /\ loc.dump \in Keys
    BY <2>1, LocalsFacts DEF TypeInv
  <2>3. run' = [run EXCEPT ![j] = loc] /\ pc' = [pc EXCEPT ![j] = "connect"]
    BY <1>1 DEF NameDump
  <2> HIDE DEF loc
  <2> QED BY <1>0, <1>1, <2>2, <2>3, MoveType DEF NameDump, TypeInv, TypeOK, fileVars
<1>2. CASE DumpRefused(j)
  BY <1>2, FailType DEF DumpRefused, Fail, TypeInv, TypeOK, fileVars
<1>3. CASE OpenDump(j)
  <2>1. run[j].dump \in Keys
    BY <1>3 DEF OpenDump, TypeInv, CursorOK
  <2>2. /\ files' \in [Keys -> Files] /\ dates' \in SUBSET Days
        /\ opened' \in [Keys -> SUBSET Jobs]
        /\ stored' = stored /\ expired' = expired
    BY <1>3, <2>1, OpenFileType DEF OpenDump, TypeInv
  <2> DEFINE loc == [run[j] EXCEPT !.cur = run[j].dump]
  <2>3. loc \in Locals /\ loc.cur \in Keys
    BY <2>1, LocalsFacts DEF TypeInv
  <2>4. run' = [run EXCEPT ![j] = loc] /\ pc' = [pc EXCEPT ![j] = "dumping"]
    BY <1>3 DEF OpenDump
  <2> HIDE DEF loc
  <2> QED BY <1>0, <1>3, <2>2, <2>3, <2>4, MoveType DEF OpenDump, TypeInv, TypeOK
<1>4. CASE OpenDumpFails(j)
  <2>1. run[j].dump \in Keys
    BY <1>4 DEF OpenDumpFails, Fail, TypeInv, CursorOK
  <2>2. /\ files' \in [Keys -> Files] /\ dates' \in SUBSET Days
        /\ UNCHANGED <<opened, stored, expired>>
    BY <1>4, <2>1, OpenFailsType DEF OpenDumpFails, TypeInv, TypeOK
  <2> QED BY <1>4, <2>2, FailType DEF OpenDumpFails, Fail
<1>5. CASE DumpDone(j)
  <2>1. run[j].cur \in Keys
    BY <1>5 DEF DumpDone, TypeInv, CursorOK
  <2>2. /\ files' \in [Keys -> Files] /\ dates' \in SUBSET Days
        /\ stored' \in [Jobs -> SUBSET Keys]
        /\ opened' = opened /\ expired' = expired
    BY <1>5, <2>1, CloseFileType DEF DumpDone, TypeInv
  <2> DEFINE loc == [run[j] EXCEPT !.cur = NoKey]
  <2>3. loc \in Locals
    BY LocalsFacts DEF TypeInv
  <2>4. /\ run' = [run EXCEPT ![j] = loc]
        /\ pc' = [pc EXCEPT ![j] = AfterDump(cfg[j])]
        /\ AfterDump(cfg[j]) \in {"buckets", "complete"}
    BY <1>5 DEF DumpDone, AfterDump
  <2> HIDE DEF loc
  <2> QED BY <1>0, <1>5, <2>2, <2>3, <2>4, MoveType DEF DumpDone, TypeInv, TypeOK
<1>6. CASE DumpBreaks(j)
  <2>1. run[j].cur \in Keys
    BY <1>6 DEF DumpBreaks, Fail, TypeInv, CursorOK
  <2>2. /\ files' \in [Keys -> Files] /\ dates' \in SUBSET Days
        /\ UNCHANGED <<opened, stored, expired>>
    BY <1>6, <2>1, BreakFileType DEF DumpBreaks, TypeInv
  <2> QED BY <1>6, <2>2, FailType DEF DumpBreaks, Fail
<1> QED BY <1>1, <1>2, <1>3, <1>4, <1>5, <1>6

LEMMA StorageStepsType ==
  ASSUME TypeInv, NEW j \in Jobs,
         \/ ListBuckets(j) \/ ListingFails(j)
         \/ \E b \in Buckets : ListObjects(j, b)
         \/ \E o \in Objects : OpenObject(j, o) \/ SkipObject(j, o)
         \/ ObjectDone(j) \/ ObjectBreaks(j)
  PROVE  TypeInv'
<1> USE DEF Goto, PCs, Over, clockVars, passVars
<1>0. rows[j].type \in JobTypes /\ TypeOK /\ run[j] \in Locals
  BY LocalsFacts DEF TypeInv, RowMade, ListBuckets, ListingFails, ListObjects,
         OpenObject, SkipObject, ObjectDone, ObjectBreaks, Fail
<1>1. CASE ListBuckets(j)
  <2> DEFINE loc == [run[j] EXCEPT !.day = today, !.todo = Selected(cfg[j], Buckets)]
  <2>1. loc \in Locals
    BY <1>0, SelectedFacts DEF TypeOK, Locals
  <2>2. run' = [run EXCEPT ![j] = loc] /\ pc' = [pc EXCEPT ![j] = "storage"]
    BY <1>1 DEF ListBuckets
  <2> HIDE DEF loc
  <2> QED BY <1>0, <1>1, <2>1, <2>2, MoveType DEF ListBuckets, TypeOK, fileVars
<1>2. CASE ListingFails(j)
  BY <1>2, FailType DEF ListingFails, Fail, TypeInv, TypeOK, fileVars
<1>3. ASSUME NEW b \in Buckets, ListObjects(j, b) PROVE TypeInv'
  <2> DEFINE loc == [run[j] EXCEPT !.todo = @ \ {b}, !.left = Contents[b]]
  <2>1. loc \in Locals
    BY <1>0, ContentsFacts DEF Locals
  <2>2. run' = [run EXCEPT ![j] = loc] /\ pc' = [pc EXCEPT ![j] = "storage"]
    BY <1>0, <1>3 DEF ListObjects, TypeOK
  <2> HIDE DEF loc
  <2>3. UNCHANGED <<clockVars, rows, cfg, passVars, files, dates, opened, stored,
                    expired, skipped>>
    BY <1>3 DEF ListObjects, fileVars
  <2> QED BY <1>0, <2>1, <2>2, <2>3, MoveType DEF TypeOK
<1>4. ASSUME NEW o \in Objects, OpenObject(j, o) PROVE TypeInv'
  <2> DEFINE k == ObjectKey(run[j].day, o)
             loc == [run[j] EXCEPT !.cur = k, !.left = @ \ {o}]
  <2>1. k \in Keys /\ k[3] = o
    BY <1>0, KeyFacts DEF Locals
  <2>2. OpenFile(j, k) /\ UNCHANGED skipped
    BY <1>4 DEF OpenObject
  <2>3. run' = [run EXCEPT ![j] = loc] /\ pc' = [pc EXCEPT ![j] = "copying"]
    BY <1>4 DEF OpenObject
  <2> HIDE DEF k
  <2>4. loc \in Locals /\ loc.cur = k
    BY <1>0, <2>1 DEF Locals
  <2> HIDE DEF loc
  <2>5. /\ files' \in [Keys -> Files] /\ dates' \in SUBSET Days
        /\ opened' \in [Keys -> SUBSET Jobs]
        /\ stored' = stored /\ expired' = expired
    BY <1>0, <2>1, <2>2, OpenFileType
  <2>6. UNCHANGED <<clockVars, rows, cfg, passVars>>
    BY <1>4 DEF OpenObject
  <2> QED BY <1>0, <2>1, <2>2, <2>3, <2>4, <2>5, <2>6, MoveType DEF TypeOK
<1>5. ASSUME NEW o \in Objects, SkipObject(j, o) PROVE TypeInv'
  <2> DEFINE loc == [run[j] EXCEPT !.left = @ \ {o}]
  <2>1. ObjectKey(run[j].day, o) \in Keys
    BY <1>0, KeyFacts DEF Locals
  <2>2. dates' \in SUBSET Days /\ UNCHANGED <<files, opened, stored, expired>>
    BY <1>0, <1>5, <2>1, OpenFailsType DEF SkipObject
  <2>3. run' = [run EXCEPT ![j] = loc] /\ pc' = [pc EXCEPT ![j] = "storage"]
    BY <1>0, <1>5 DEF SkipObject, TypeOK
  <2>4. loc \in Locals
    BY <1>0 DEF Locals
  <2> HIDE DEF loc
  <2>5. skipped' \in [Jobs -> SUBSET Objects]
    BY <1>0, <1>5 DEF SkipObject, TypeOK
  <2>6. UNCHANGED <<clockVars, rows, cfg, passVars>>
    BY <1>5 DEF SkipObject
  <2> QED BY <1>0, <2>2, <2>3, <2>4, <2>5, <2>6, MoveType DEF TypeOK
<1>6. CASE ObjectDone(j)
  <2>1. run[j].cur \in Keys
    BY <1>6 DEF ObjectDone, TypeInv, CursorOK
  <2>2. /\ files' \in [Keys -> Files] /\ dates' \in SUBSET Days
        /\ stored' \in [Jobs -> SUBSET Keys]
        /\ opened' = opened /\ expired' = expired
    BY <1>0, <1>6, <2>1, CloseFileType DEF ObjectDone
  <2> DEFINE loc == [run[j] EXCEPT !.cur = NoKey]
  <2>3. loc \in Locals
    BY <1>0, LocalsFacts
  <2>4. run' = [run EXCEPT ![j] = loc] /\ pc' = [pc EXCEPT ![j] = "storage"]
    BY <1>6 DEF ObjectDone
  <2> HIDE DEF loc
  <2> QED BY <1>0, <1>6, <2>2, <2>3, <2>4, MoveType DEF ObjectDone, TypeOK
<1>7. CASE ObjectBreaks(j)
  <2>1. skipped' \in [Jobs -> SUBSET Objects]
    BY <1>0, <1>7 DEF ObjectBreaks, TypeInv, CursorOK, TypeOK
  <2> DEFINE loc == [run[j] EXCEPT !.cur = NoKey]
  <2>2. loc \in Locals
    BY <1>0, LocalsFacts
  <2>3. run' = [run EXCEPT ![j] = loc] /\ pc' = [pc EXCEPT ![j] = "storage"]
    BY <1>7 DEF ObjectBreaks
  <2> HIDE DEF loc
  <2>4. run[j].cur \in Keys
    BY <1>7 DEF ObjectBreaks, TypeInv, CursorOK
  <2>5. /\ files' \in [Keys -> Files] /\ dates' \in SUBSET Days
        /\ UNCHANGED <<opened, stored, expired>>
    BY <1>0, <1>7, <2>4, BreakFileType DEF ObjectBreaks
  <2> QED BY <1>0, <1>7, <2>1, <2>2, <2>3, <2>5, MoveType DEF ObjectBreaks, TypeOK
<1> QED BY <1>1, <1>2, <1>3, <1>4, <1>5, <1>6, <1>7

-------------------------------------------------------------------------------
(* The retention pass, the clock and the crash. *)

LEMMA PassStepsType ==
  ASSUME TypeInv, NEW j \in Jobs,
         \/ ListDates(j) \/ ListDatesFails(j) \/ Judge(j) \/ RetentionDone(j)
         \/ \E d \in Days : DeleteDate(j, d) \/ DeleteDateFails(j, d)
  PROVE  TypeInv'
<1> USE DEF TypeInv, TypeOK, CursorOK, RowMade, Goto, PCs, Over,
            clockVars, fileVars, passVars
<1>1. CASE ListDates(j)
  BY <1>1 DEF ListDates, Listing
<1>2. CASE ListDatesFails(j)
  BY <1>2 DEF ListDatesFails
<1>3. CASE Judge(j)
  BY <1>3 DEF Judge
<1>4. CASE RetentionDone(j)
  BY <1>4 DEF RetentionDone
<1>5. ASSUME NEW d \in Days, DeleteDate(j, d) \/ DeleteDateFails(j, d) PROVE TypeInv'
  <2>1. files' \in [Keys -> Files]
    <3>1. NoFile \in Files
      BY DEF NoFile, Files
    <3> QED BY <1>5, <3>1 DEF DeleteDate, DeleteDateFails
  <2>2. dates' \in SUBSET Days
    BY <1>5 DEF DeleteDate, DeleteDateFails
  <2> QED BY <1>5, <2>1, <2>2 DEF DeleteDate, DeleteDateFails, NextDoomed
<1> QED BY <1>1, <1>2, <1>3, <1>4, <1>5

LEMMA EnvironmentType == ASSUME TypeInv, Tick \/ Crash PROVE TypeInv'
<1> USE DEF TypeInv, TypeOK, CursorOK, RowMade, PCs, Over,
            clockVars, fileVars, passVars
<1>1. CASE Tick
  BY <1>1, ClockAssumption DEF Tick, Days, Ticks
<1>2. CASE Crash
  BY <1>2 DEF Crash, Active
<1> QED BY <1>1, <1>2

(* The typed cursors and rows are kept by every step, for any number of runs. *)
THEOREM TypeInvariant == Spec => []TypeInv
<1>1. TypeInv /\ [Next]_vars => TypeInv'
  <2> SUFFICES ASSUME TypeInv, [Next]_vars PROVE TypeInv'
    OBVIOUS
  <2>1. ASSUME NEW j \in Jobs, Start(j) PROVE TypeInv'
    BY <2>1, StartType
  <2>2. ASSUME NEW j \in Jobs, Step(j) PROVE TypeInv'
    BY <2>2, RowStepsType, DumpStepsType, StorageStepsType, PassStepsType DEF Step
  <2>3. CASE Tick \/ Crash
    BY <2>3, EnvironmentType
  <2>4. CASE UNCHANGED vars
    BY <2>4 DEF vars, TypeInv, TypeOK, CursorOK, RowMade, clockVars, fileVars, passVars
  <2>5. CASE Terminated
    BY <2>4, <2>5 DEF Terminated
  <2> QED BY <2>1, <2>2, <2>3, <2>4, <2>5 DEF Next
<1> QED BY InitType, <1>1, PTL DEF Spec

(* Every variable of BackupRun stays in its type, for any number of runs.     *)
THEOREM TypeCorrect == Spec => []TypeOK
<1>1. TypeInv => TypeOK
  BY DEF TypeInv
<1> QED BY TypeInvariant, <1>1, PTL

-------------------------------------------------------------------------------
(* Dates cover files. *)

LEMMA OpenKeepsCover ==
  ASSUME TypeInv, DatesCoverFiles, NEW j \in Jobs, NEW k, OpenFile(j, k)
  PROVE  DatesCoverFiles'
<1>1. CASE AtomicWrite
  BY <1>1 DEF OpenFile, DatesCoverFiles
<1>2. CASE ~AtomicWrite
  <2>1. dates' = dates \cup {DateOf(k)}
    BY <1>2 DEF OpenFile
  <2>2. \A n \in Keys : n # k => files'[n] = files[n]
    BY <1>2 DEF OpenFile, TypeInv, TypeOK
  <2> QED BY <2>1, <2>2 DEF DatesCoverFiles
<1> QED BY <1>1, <1>2

LEMMA OpenFailsKeepsCover ==
  ASSUME TypeInv, DatesCoverFiles, NEW k, OpenFails(k)
  PROVE  DatesCoverFiles'
BY DEF OpenFails, DatesCoverFiles

(* Closing a file that retention has deleted meanwhile does not bring it back. *)
LEMMA CloseKeepsCover ==
  ASSUME TypeInv, DatesCoverFiles, NEW j \in Jobs, NEW k, CloseFile(j, k)
  PROVE  DatesCoverFiles'
<1>1. CASE AtomicWrite
  <2>1. dates' = dates \cup {DateOf(k)}
    BY <1>1 DEF CloseFile
  <2>2. \A n \in Keys : n # k => files'[n] = files[n]
    BY <1>1 DEF CloseFile, TypeInv, TypeOK
  <2> QED BY <2>1, <2>2 DEF DatesCoverFiles
<1>2. CASE ~AtomicWrite
  <2>1. dates' = dates
    BY <1>2 DEF CloseFile
  <2>2. \A n \in Keys : n # k => files'[n] = files[n]
    BY <1>2 DEF CloseFile, TypeInv, TypeOK
  <2>3. ASSUME k \in Keys, files[k] = NoFile PROVE files'[k] = NoFile
    <3>1. files' = [files EXCEPT ![k].done = @ \cup ({j} \cap files[k].writers)]
      BY <1>2 DEF CloseFile
    <3>2. files'[k] = [files[k] EXCEPT !.done = @ \cup ({j} \cap files[k].writers)]
      BY <2>3, <3>1 DEF TypeInv, TypeOK
    <3> QED BY <2>3, <3>2 DEF NoFile
  <2> QED BY <2>1, <2>2, <2>3 DEF DatesCoverFiles
<1> QED BY <1>1, <1>2

LEMMA BreakKeepsCover ==
  ASSUME TypeInv, DatesCoverFiles, NEW j \in Jobs, NEW k, BreakFile(j, k)
  PROVE  DatesCoverFiles'
<1>1. CASE UNCHANGED fileVars
  BY <1>1 DEF fileVars, DatesCoverFiles
<1>2. CASE ~UNCHANGED fileVars
  <2>1. dates' = dates \cup {DateOf(k)}
    BY <1>2 DEF BreakFile
  <2>2. \A n \in Keys : n # k => files'[n] = files[n]
    BY <1>2 DEF BreakFile, TypeInv, TypeOK
  <2> QED BY <2>1, <2>2 DEF DatesCoverFiles
<1> QED BY <1>1, <1>2

LEMMA DeleteKeepsCover ==
  ASSUME TypeInv, DatesCoverFiles, NEW j \in Jobs, NEW d \in Days,
         DeleteDate(j, d) \/ DeleteDateFails(j, d)
  PROVE  DatesCoverFiles'
<1>1. CASE DeleteDate(j, d)
  BY <1>1 DEF DeleteDate, DatesCoverFiles
<1>2. CASE DeleteDateFails(j, d)
  <2>1. \A n \in Keys : files'[n] = NoFile \/ files'[n] = files[n]
    BY <1>2 DEF DeleteDateFails
  <2> QED BY <1>2, <2>1 DEF DeleteDateFails, DatesCoverFiles
<1> QED BY <1>1, <1>2

LEMMA CoverStep ==
  ASSUME TypeInv, DatesCoverFiles, [Next]_vars
  PROVE  DatesCoverFiles'
<1>1. ASSUME UNCHANGED fileVars PROVE DatesCoverFiles'
  BY <1>1 DEF fileVars, DatesCoverFiles
<1>2. ASSUME NEW j \in Jobs, Start(j) PROVE UNCHANGED fileVars
  BY <1>2 DEF Start, TriggerJob, ScheduledJob, Capture, fileVars
<1>3. ASSUME NEW j \in Jobs, OpenDump(j) \/ OpenDumpFails(j) \/ DumpDone(j)
      PROVE  DatesCoverFiles'
  BY <1>3, OpenKeepsCover, OpenFailsKeepsCover, CloseKeepsCover
     DEF OpenDump, OpenDumpFails, DumpDone
<1>4. ASSUME NEW j \in Jobs, NEW o \in Objects, OpenObject(j, o) \/ SkipObject(j, o)
      PROVE  DatesCoverFiles'
  BY <1>4, OpenKeepsCover, OpenFailsKeepsCover DEF OpenObject, SkipObject
<1>5. ASSUME NEW j \in Jobs, ObjectDone(j) \/ ObjectBreaks(j) \/ DumpBreaks(j)
      PROVE  DatesCoverFiles'
  BY <1>5, CloseKeepsCover, BreakKeepsCover DEF ObjectDone, ObjectBreaks, DumpBreaks
<1>6. ASSUME NEW j \in Jobs,
             \/ CreateJob(j) \/ RejectJob(j) \/ NameDump(j) \/ DumpRefused(j)
             \/ ListBuckets(j) \/ ListingFails(j) \/ StorageDone(j)
             \/ \E b \in Buckets : ListObjects(j, b)
             \/ Complete(j) \/ ListDates(j) \/ ListDatesFails(j)
             \/ Judge(j) \/ RetentionDone(j)
      PROVE  UNCHANGED fileVars
  BY <1>6 DEF CreateJob, RejectJob, NameDump, DumpRefused, ListBuckets,
              ListingFails, StorageDone, ListObjects, Complete,
              ListDates, ListDatesFails, Judge, RetentionDone, fileVars
<1>7. ASSUME NEW j \in Jobs, Step(j) PROVE DatesCoverFiles'
  BY <1>1, <1>3, <1>4, <1>5, <1>6, <1>7, DeleteKeepsCover DEF Step
<1>8. CASE Tick \/ Crash \/ Terminated \/ UNCHANGED vars
  BY <1>1, <1>8 DEF Tick, Crash, Terminated, vars, fileVars
<1> QED BY <1>1, <1>2, <1>7, <1>8 DEF Next

(* Every file lies under a date that List returns, so retention can reach it, *)
(* for any number of runs on any of the destinations.                         *)
THEOREM CoverCorrect == Spec => []DatesCoverFiles
<1>1. Init => DatesCoverFiles
  BY DEF Init, DatesCoverFiles
<1>2. TypeInv /\ DatesCoverFiles /\ [Next]_vars => DatesCoverFiles'
  BY CoverStep
<1> QED BY TypeInvariant, <1>1, <1>2, PTL DEF Spec

-------------------------------------------------------------------------------
(* That a run is a success, and prunes, only when it has stored what it     *)
(* should, whatever the other runs do.                                        *)

DumpStored(j) == cfg[j].incDb => run[j].dump \in stored[j]

(* What the storage copy has behind it: every object of a bucket it has       *)
(* listed is still to do, under way, passed over, or stored.                  *)
CopyAccounted(j) ==
  \A b \in Selected(cfg[j], Buckets) \ run[j].todo : \A o \in Contents[b] \ skipped[j] :
    \/ o \in run[j].left
    \/ pc[j] = "copying" /\ run[j].cur = ObjectKey(run[j].day, o)
    \/ ObjectKey(run[j].day, o) \in stored[j]

Pruning == {"retain", "judge", "delete"}

Sound(j) ==
  /\ pc[j] \notin {"complete", "done", "dead"} => ~run[j].failed
  /\ pc[j] = "dumping" => run[j].cur = run[j].dump
  /\ pc[j] \in {"buckets", "storage", "copying"} => DumpStored(j)
  /\ pc[j] \in {"storage", "copying"} => CopyAccounted(j)
  /\ pc[j] \in Pruning \/ (pc[j] = "complete" /\ ~run[j].failed) => Earned(j)
  /\ rows[j].status = "success" => Earned(j) /\ pc[j] \in Pruning \cup {"done", "dead"}

SoundInv == \A j \in Jobs : Sound(j)

LEMMA InitSound == Init => SoundInv
BY DEF Init, SoundInv, Sound, NoLocals, NoRow, Pruning

(* A run that did not step is as sound as it was.                             *)
LEMMA Unmoved ==
  ASSUME NEW j, Sound(j),
         pc'[j] = pc[j] \/ (pc'[j] = "dead" /\ pc[j] # "dead"),
         run'[j] = run[j], cfg'[j] = cfg[j], rows'[j] = rows[j],
         stored'[j] = stored[j], skipped'[j] = skipped[j]
  PROVE  Sound(j)'
BY DEF Sound, DumpStored, CopyAccounted, Earned, Pruning

(* A step of one run leaves the locals of all others alone.                   *)
LEMMA OthersUnmoved ==
  ASSUME TypeInv, NEW i \in Jobs, NEW j \in Jobs, i # j, Start(j) \/ Step(j)
  PROVE  /\ pc'[i] = pc[i] /\ run'[i] = run[i] /\ cfg'[i] = cfg[i] /\ rows'[i] = rows[i]
         /\ stored'[i] = stored[i] /\ skipped'[i] = skipped[i]
<1> USE DEF TypeInv, TypeOK, Goto, fileVars, passVars
<1>1. CASE Start(j)
  BY <1>1 DEF Start, TriggerJob, ScheduledJob, Capture
<1>2. CASE CreateJob(j) \/ RejectJob(j) \/ NameDump(j) \/ DumpRefused(j)
  BY <1>2 DEF CreateJob, RejectJob, NameDump, DumpRefused, Fail
<1>3. CASE OpenDump(j) \/ OpenDumpFails(j)
  BY <1>3 DEF OpenDump, OpenDumpFails, OpenFile, OpenFails, Fail
<1>4. CASE DumpDone(j) \/ DumpBreaks(j)
  BY <1>4 DEF DumpDone, DumpBreaks, CloseFile, BreakFile, Fail
<1>5. CASE ListBuckets(j) \/ ListingFails(j) \/ StorageDone(j)
  BY <1>5 DEF ListBuckets, ListingFails, StorageDone, Fail
<1>6. ASSUME NEW b \in Buckets, ListObjects(j, b)
      PROVE  /\ pc'[i] = pc[i] /\ run'[i] = run[i] /\ cfg'[i] = cfg[i] /\ rows'[i] = rows[i]
             /\ stored'[i] = stored[i] /\ skipped'[i] = skipped[i]
  BY <1>6 DEF ListObjects
<1>7. ASSUME NEW o \in Objects, OpenObject(j, o) \/ SkipObject(j, o)
      PROVE  /\ pc'[i] = pc[i] /\ run'[i] = run[i] /\ cfg'[i] = cfg[i] /\ rows'[i] = rows[i]
             /\ stored'[i] = stored[i] /\ skipped'[i] = skipped[i]
  BY <1>7 DEF OpenObject, SkipObject, OpenFile, OpenFails
<1>8. CASE ObjectDone(j) \/ ObjectBreaks(j)
  BY <1>8 DEF ObjectDone, ObjectBreaks, CloseFile, BreakFile
<1>9. CASE Complete(j) \/ ListDates(j) \/ ListDatesFails(j) \/ Judge(j) \/ RetentionDone(j)
  BY <1>9 DEF Complete, ListDates, ListDatesFails, Judge, RetentionDone
<1>10. ASSUME NEW d \in Days, DeleteDate(j, d) \/ DeleteDateFails(j, d)
       PROVE  /\ pc'[i] = pc[i] /\ run'[i] = run[i] /\ cfg'[i] = cfg[i] /\ rows'[i] = rows[i]
              /\ stored'[i] = stored[i] /\ skipped'[i] = skipped[i]
  BY <1>10 DEF DeleteDate, DeleteDateFails, NextDoomed
<1> QED BY <1>1, <1>2, <1>3, <1>4, <1>5, <1>6, <1>7, <1>8, <1>9, <1>10 DEF Step

(* A step that fails hands the run to Complete with its error.                *)
LEMMA FailSound ==
  ASSUME TypeInv, NEW j \in Jobs, NEW from, Sound(j), Fail(j, from),
         from \notin Pruning \cup {"done", "dead"}
  PROVE  Sound(j)'
<1>1. pc'[j] = "complete" /\ run'[j].failed /\ rows' = rows
  BY DEF Fail, Goto, TypeInv, TypeOK, Locals
<1>2. rows[j].status # "success"
  BY DEF Sound, Fail, Goto
<1> QED BY <1>1, <1>2 DEF Sound, Pruning

LEMMA DumpSound ==
  ASSUME TypeInv, NEW j \in Jobs, Sound(j),
         \/ NameDump(j) \/ DumpRefused(j) \/ OpenDump(j) \/ OpenDumpFails(j)
         \/ DumpDone(j) \/ DumpBreaks(j)
  PROVE  Sound(j)'
<1> USE DEF Goto, Pruning
<1>1. CASE NameDump(j) \/ OpenDump(j)
  <2>1. /\ pc[j] \in {"dump", "connect"} /\ pc'[j] \in {"connect", "dumping"} /\ rows' = rows
        /\ run'[j].failed = run[j].failed
        /\ pc'[j] = "dumping" => run'[j].cur = run'[j].dump
    BY <1>1 DEF NameDump, OpenDump, TypeInv, TypeOK, Locals
  <2> QED BY <2>1 DEF Sound
<1>2. CASE DumpRefused(j) \/ OpenDumpFails(j) \/ DumpBreaks(j)
  BY <1>2, FailSound DEF DumpRefused, OpenDumpFails, DumpBreaks
<1>3. CASE DumpDone(j)
  <2>1. /\ pc[j] = "dumping" /\ pc'[j] = AfterDump(cfg[j]) /\ rows' = rows /\ cfg' = cfg
        /\ run'[j].failed = run[j].failed /\ run'[j].dump = run[j].dump
        /\ stored'[j] = stored[j] \cup {run[j].cur}
    BY <1>3 DEF DumpDone, CloseFile, TypeInv, TypeOK, Locals
  <2>2. DumpStored(j)'
    BY <2>1 DEF Sound, DumpStored
  <2>3. CASE cfg[j].incSt
    BY <2>1, <2>2, <2>3 DEF Sound, AfterDump
  <2>4. CASE ~cfg[j].incSt
    BY <2>1, <2>2, <2>4 DEF Sound, AfterDump, Earned, DumpStored
  <2> QED BY <2>3, <2>4
<1> QED BY <1>1, <1>2, <1>3

LEMMA CopySound ==
  ASSUME TypeInv, NEW j \in Jobs, Sound(j),
         \/ ListBuckets(j) \/ ListingFails(j) \/ StorageDone(j)
         \/ \E b \in Buckets : ListObjects(j, b)
         \/ \E o \in Objects : OpenObject(j, o) \/ SkipObject(j, o)
         \/ ObjectDone(j) \/ ObjectBreaks(j)
  PROVE  Sound(j)'
<1> USE DEF Goto, Pruning, TypeInv, TypeOK, Locals, fileVars
<1>1. CASE ListBuckets(j)
  BY <1>1 DEF ListBuckets, Sound, DumpStored, CopyAccounted
<1>2. CASE ListingFails(j)
  BY <1>2, FailSound DEF ListingFails
<1>3. CASE StorageDone(j)
  <2>1. /\ pc[j] = "storage" /\ pc'[j] = "complete" /\ run[j].left = {} /\ run[j].todo = {}
        /\ UNCHANGED <<cfg, run, rows, stored, skipped>>
    BY <1>3 DEF StorageDone
  <2>2. Earned(j)
    BY <2>1 DEF Sound, CopyAccounted, DumpStored, Earned
  <2> QED BY <2>1, <2>2 DEF Sound, Earned
<1>4. ASSUME NEW b \in Buckets, ListObjects(j, b) PROVE Sound(j)'
  <2>1. /\ pc[j] = "storage" /\ pc'[j] = "storage" /\ run[j].left = {}
        /\ run'[j] = [run[j] EXCEPT !.todo = @ \ {b}, !.left = Contents[b]]
        /\ UNCHANGED <<cfg, rows, stored, skipped>>
    BY <1>4 DEF ListObjects
  <2>2. /\ run'[j].todo = run[j].todo \ {b} /\ run'[j].left = Contents[b]
        /\ run'[j].day = run[j].day /\ run'[j].dump = run[j].dump
        /\ run'[j].failed = run[j].failed
    BY <2>1
  <2>3. CopyAccounted(j)'
    BY <2>1, <2>2 DEF Sound, CopyAccounted
  <2> QED BY <2>1, <2>2, <2>3 DEF Sound, DumpStored
<1>5. ASSUME NEW o \in Objects, OpenObject(j, o) PROVE Sound(j)'
  <2> DEFINE k == ObjectKey(run[j].day, o)
  <2>1. /\ pc[j] = "storage" /\ pc'[j] = "copying"
        /\ run'[j] = [run[j] EXCEPT !.cur = k, !.left = @ \ {o}]
        /\ UNCHANGED <<cfg, rows, stored, skipped>>
    BY <1>5 DEF OpenObject, OpenFile
  <2>2. /\ run'[j].todo = run[j].todo /\ run'[j].left = run[j].left \ {o}
        /\ run'[j].day = run[j].day /\ run'[j].dump = run[j].dump
        /\ run'[j].failed = run[j].failed /\ run'[j].cur = k
    BY <2>1
  <2>3. CopyAccounted(j)'
    BY <2>1, <2>2 DEF Sound, CopyAccounted
  <2> QED BY <2>1, <2>2, <2>3 DEF Sound, DumpStored
<1>6. ASSUME NEW o \in Objects, SkipObject(j, o) PROVE Sound(j)'
  BY <1>6 DEF SkipObject, OpenFails, Sound, DumpStored, CopyAccounted
<1>7. CASE ObjectDone(j)
  BY <1>7 DEF ObjectDone, CloseFile, Sound, DumpStored, CopyAccounted
<1>8. CASE ObjectBreaks(j)
  <2>1. /\ pc[j] = "copying" /\ pc'[j] = "storage"
        /\ run'[j] = [run[j] EXCEPT !.cur = NoKey]
        /\ UNCHANGED <<cfg, rows, stored>>
        /\ skipped'[j] = skipped[j] \cup {run[j].cur[3]}
    BY <1>8 DEF ObjectBreaks, BreakFile
  <2>2. /\ run'[j].todo = run[j].todo /\ run'[j].left = run[j].left
        /\ run'[j].day = run[j].day /\ run'[j].dump = run[j].dump
        /\ run'[j].failed = run[j].failed
    BY <2>1
  <2>3. \A d, o : ObjectKey(d, o)[3] = o
    BY DEF ObjectKey
  <2>4. CopyAccounted(j)'
    BY <2>1, <2>2, <2>3 DEF Sound, CopyAccounted
  <2> QED BY <2>1, <2>2, <2>4 DEF Sound, DumpStored
<1> QED BY <1>1, <1>2, <1>3, <1>4, <1>5, <1>6, <1>7, <1>8

LEMMA EndSound ==
  ASSUME TypeInv, NEW j \in Jobs, Sound(j),
         \/ Start(j) \/ CreateJob(j) \/ RejectJob(j) \/ Complete(j)
         \/ ListDates(j) \/ ListDatesFails(j) \/ Judge(j) \/ RetentionDone(j)
         \/ \E d \in Days : DeleteDate(j, d) \/ DeleteDateFails(j, d)
  PROVE  Sound(j)'
<1> USE DEF Goto, Pruning, TypeInv, TypeOK, fileVars
<1>1. CASE Start(j) \/ RejectJob(j)
  BY <1>1 DEF Start, TriggerJob, ScheduledJob, Capture, RejectJob, Sound
<1>2. CASE CreateJob(j)
  BY <1>2 DEF CreateJob, AfterDump, Sound, DumpStored, Earned
<1>3. CASE Complete(j)
  <2>1. /\ pc[j] = "complete" /\ pc'[j] \in {"retain", "done"}
        /\ pc'[j] = "retain" => ~run[j].failed
        /\ rows'[j].status = "success" => ~run[j].failed \/ rows[j].status = "success"
        /\ UNCHANGED <<run, cfg, stored, skipped>>
    BY <1>3 DEF Complete, Rows, NoRow, RowMade
  <2> QED BY <2>1 DEF Sound, Earned
<1>4. CASE ListDates(j) \/ ListDatesFails(j) \/ Judge(j) \/ RetentionDone(j)
  BY <1>4 DEF ListDates, ListDatesFails, Judge, RetentionDone, Sound, Earned
<1>5. ASSUME NEW d \in Days, DeleteDate(j, d) \/ DeleteDateFails(j, d) PROVE Sound(j)'
  BY <1>5 DEF DeleteDate, DeleteDateFails, NextDoomed, Sound, Earned
<1> QED BY <1>1, <1>2, <1>3, <1>4, <1>5

LEMMA SoundStep == ASSUME TypeInv, SoundInv, [Next]_vars PROVE SoundInv'
<1>2. ASSUME NEW j \in Jobs, Start(j) \/ Step(j), NEW i \in Jobs PROVE Sound(i)'
  <2>1. CASE i = j
    BY <1>2, <2>1, DumpSound, CopySound, EndSound DEF SoundInv, Step
  <2>2. CASE i # j
    BY <1>2, <2>2, OthersUnmoved, Unmoved DEF SoundInv
  <2> QED BY <2>1, <2>2
<1>3. ASSUME NEW i \in Jobs, Tick \/ Crash \/ UNCHANGED vars PROVE Sound(i)'
  <2>1. /\ pc'[i] = pc[i] \/ (pc'[i] = "dead" /\ pc[i] # "dead")
        /\ UNCHANGED <<run, cfg, rows, stored, skipped>>
    BY <1>3 DEF Tick, Crash, Active, Over, vars, clockVars, fileVars, TypeInv, TypeOK
  <2> QED BY <2>1, Unmoved DEF SoundInv
<1> QED BY <1>2, <1>3 DEF Next, Terminated, SoundInv

(* A run is marked a success, and applies its retention policy, only when it  *)
(* has stored its dump and every object it did not pass over, however many    *)
(* runs share the destination and whatever fails.                             *)
THEOREM SuccessCorrect == Spec => []SuccessIsEarned
<1>1. TypeInv /\ SoundInv /\ [Next]_vars => SoundInv'
  BY SoundStep
<1>2. SoundInv => SuccessIsEarned
  BY DEF SoundInv, Sound, SuccessIsEarned, Pruning
<1> QED BY InitSound, TypeInvariant, <1>1, <1>2, PTL DEF Spec

-------------------------------------------------------------------------------
(* What was stored stays whole. *)

(* What a run has still to open, and that it has stored none of it.           *)
Pending(j) == run[j].left \cup UNION {Contents[b] : b \in run[j].todo}

Plan(j) ==
  /\ pc[j] \in {"idle", "queued", "dump", "connect", "dumping"} => stored[j] = {}
  /\ pc[j] \in {"idle", "queued", "dump", "connect", "dumping", "buckets"} => run[j].left = {}
  /\ pc[j] = "connect" => \E d, t : run[j].dump = DumpKey(d, t)
  /\ pc[j] = "dumping" => \E d, t : run[j].cur = DumpKey(d, t)
  /\ pc[j] = "buckets" => \A d, o : ObjectKey(d, o) \notin stored[j]
  /\ pc[j] \in {"storage", "copying"} =>
       /\ \A o \in Pending(j) : ObjectKey(run[j].day, o) \notin stored[j]
       /\ \A b \in run[j].todo : Contents[b] \cap run[j].left = {}
  /\ pc[j] = "copying" =>
       \E o : run[j].cur = ObjectKey(run[j].day, o) /\ o \notin Pending(j)

PlanInv == \A j \in Jobs : Plan(j)

(* A run has opened what it has open or has stored.  As long as no other run  *)
(* opens the key and retention deletes nothing of its date, the file holds    *)
(* only what this run wrote.                                                  *)
OpenInv ==
  \A j \in Jobs : \A k \in Keys : HasOpen(j, k) =>
    /\ j \in opened[k]
    /\ ~AtomicWrite /\ opened[k] = {j} /\ DateOf(k) \notin expired =>
         files[k].writers = {j} /\ files[k].done \subseteq {j}

Kept(j, k) ==
  /\ j \in opened[k]
  /\ DateOf(k) \notin expired =>
       IF AtomicWrite THEN Whole(k) ELSE opened[k] = {j} => files[k] = FileOf(j)

KeptInv == \A j \in Jobs : \A k \in stored[j] : Kept(j, k)

CountInv == \A k \in Keys : IsFiniteSet(opened[k])

WriteInv == OpenInv /\ KeptInv /\ CountInv

(* Nothing is written.                                                        *)
LEMMA StillKeepsWrites ==
  ASSUME TypeInv, WriteInv, UNCHANGED <<files, opened, stored, expired>>,
         \A i \in Jobs, n \in Keys : HasOpen(i, n)' => HasOpen(i, n)
  PROVE  WriteInv'
<1>1. OpenInv'
  BY DEF WriteInv, OpenInv
<1>2. KeptInv'
  BY DEF WriteInv, KeptInv, Kept, Whole
<1>3. CountInv'
  BY DEF WriteInv, CountInv
<1> QED BY <1>1, <1>2, <1>3 DEF WriteInv

(* A run opens a key that it has not stored: all who have it open or have     *)
(* stored it have opened it before.                                           *)
LEMMA OpenKeepsWrites ==
  ASSUME TypeInv, WriteInv, NEW j \in Jobs, NEW k \in Keys, OpenFile(j, k),
         k \notin stored[j],
         \A i \in Jobs, n \in Keys : HasOpen(i, n)' => HasOpen(i, n) \/ (i = j /\ n = k)
  PROVE  WriteInv'
<1>1. /\ files \in [Keys -> Files] /\ opened \in [Keys -> SUBSET Jobs]
      /\ \A i \in Jobs : stored[i] \in SUBSET Keys
  BY DEF TypeInv, TypeOK
<1>2. /\ opened'[k] = opened[k] \cup {j} /\ stored' = stored /\ expired' = expired
      /\ \A n \in Keys \ {k} : opened'[n] = opened[n] /\ files'[n] = files[n]
      /\ AtomicWrite => files' = files
  BY <1>1 DEF OpenFile
<1>3. OpenInv'
  <2> SUFFICES ASSUME NEW i \in Jobs, NEW n \in Keys, HasOpen(i, n)'
               PROVE  /\ i \in opened'[n]
                      /\ ~AtomicWrite /\ opened'[n] = {i} /\ DateOf(n) \notin expired =>
                           files'[n].writers = {i} /\ files'[n].done \subseteq {i}
    BY <1>2 DEF OpenInv
  <2>1. CASE n # k
    BY <1>2, <2>1 DEF WriteInv, OpenInv
  <2>2. CASE n = k /\ i # j
    BY <1>2, <2>2 DEF WriteInv, OpenInv
  <2>3. CASE n = k /\ i = j
    <3>1. i \in opened'[n]
      BY <1>2, <2>3
    <3>2. ASSUME ~AtomicWrite, opened'[k] = {j}
          PROVE  files'[k].writers = {j} /\ files'[k].done \subseteq {j}
      <4>1. files'[k] = [writers |-> {j} \cup {x \in files[k].writers : HasOpen(x, k)},
                         done |-> {}]
        BY <1>1, <3>2 DEF OpenFile
      <4>2. \A x \in files[k].writers : HasOpen(x, k) => x = j
        <5>1. files[k].writers \subseteq Jobs
          BY <1>1 DEF Files
        <5> QED BY <1>2, <3>2, <5>1 DEF WriteInv, OpenInv
      <4> QED BY <4>1, <4>2
    <3> QED BY <2>3, <3>1, <3>2
  <2> QED BY <2>1, <2>2, <2>3
<1>4. KeptInv'
  <2> SUFFICES ASSUME NEW i \in Jobs, NEW n \in stored[i] PROVE Kept(i, n)'
    BY <1>2 DEF KeptInv
  <2>1. n \in Keys /\ Kept(i, n)
    BY <1>1 DEF WriteInv, KeptInv
  <2>2. CASE n # k
    BY <1>2, <2>1, <2>2 DEF Kept, Whole
  <2>3. CASE n = k
    <3>1. i # j
      BY <2>3
    <3>2. i \in opened'[n] /\ opened'[n] # {i}
      BY <1>2, <2>1, <2>3, <3>1 DEF Kept
    <3> QED BY <1>2, <2>1, <3>2 DEF Kept, Whole
  <2> QED BY <2>2, <2>3
<1>5. CountInv'
  <2> SUFFICES ASSUME NEW n \in Keys PROVE IsFiniteSet(opened'[n])
    BY DEF CountInv
  <2>1. IsFiniteSet(opened[n])
    BY DEF WriteInv, CountInv
  <2>2. IsFiniteSet(opened[n] \cup {j})
    BY <2>1, FS_AddElement
  <2> QED BY <1>2, <2>1, <2>2
<1> QED BY <1>3, <1>4, <1>5 DEF WriteInv

(* A Write that reports success leaves a whole file, if it was alone.         *)
LEMMA CloseKeepsWrites ==
  ASSUME TypeInv, WriteInv, NEW j \in Jobs, NEW k \in Keys, HasOpen(j, k), CloseFile(j, k),
         \A i \in Jobs, n \in Keys : HasOpen(i, n)' => HasOpen(i, n)
  PROVE  WriteInv'
<1>1. /\ files \in [Keys -> Files] /\ stored \in [Jobs -> SUBSET Keys]
  BY DEF TypeInv, TypeOK
<1>2. /\ opened' = opened /\ expired' = expired
      /\ \A n \in Keys \ {k} : files'[n] = files[n]
      /\ \A i \in Jobs \ {j} : stored'[i] = stored[i]
      /\ stored'[j] = stored[j] \cup {k}
      /\ files'[k] = IF AtomicWrite THEN FileOf(j)
                     ELSE [files[k] EXCEPT !.done = @ \cup ({j} \cap files[k].writers)]
  BY <1>1 DEF CloseFile
<1>3. ASSUME ~AtomicWrite PROVE /\ files'[k].writers = files[k].writers
                                /\ files'[k].done = files[k].done \cup ({j} \cap files[k].writers)
                                /\ files'[k] = [writers |-> files'[k].writers, done |-> files'[k].done]
  <2>1. files[k] \in Files
    BY <1>1
  <2> QED BY <1>2, <1>3, <2>1 DEF Files
<1>4. OpenInv'
  BY <1>2, <1>3 DEF WriteInv, OpenInv
<1>5. KeptInv'
  <2> SUFFICES ASSUME NEW i \in Jobs, NEW n \in stored'[i] PROVE Kept(i, n)'
    BY DEF KeptInv
  <2>0. n \in stored[i] \/ (i = j /\ n = k)
    BY <1>2
  <2>1. n \in Keys
    BY <1>1, <2>0
  <2>2. i \in opened'[n]
    BY <1>2, <2>0 DEF WriteInv, KeptInv, Kept, OpenInv
  <2>3. CASE AtomicWrite
    <3>1. n # k => Whole(n)' \/ DateOf(n) \in expired
      BY <1>2, <2>0, <2>1, <2>3 DEF WriteInv, KeptInv, Kept, Whole
    <3>2. n = k => Whole(n)'
      BY <1>2, <2>3 DEF Whole
    <3> QED BY <1>2, <2>2, <2>3, <3>1, <3>2 DEF Kept
  <2>4. CASE ~AtomicWrite
    <3>1. ASSUME opened[n] = {i}, DateOf(n) \notin expired PROVE files'[n] = FileOf(i)
      <4>1. CASE n # k
        BY <1>2, <2>0, <2>1, <2>4, <3>1, <4>1 DEF WriteInv, KeptInv, Kept
      <4>2. CASE n = k
        <5>1. i = j
          BY <3>1, <4>2 DEF WriteInv, OpenInv
        <5>2. files[k].writers = {j} /\ files[k].done \subseteq {j}
          BY <2>4, <3>1, <4>2, <5>1 DEF WriteInv, OpenInv
        <5> QED BY <1>3, <2>4, <4>2, <5>1, <5>2 DEF FileOf
      <4> QED BY <4>1, <4>2
    <3> QED BY <1>2, <2>2, <2>4, <3>1 DEF Kept
  <2> QED BY <2>3, <2>4
<1>6. CountInv'
  BY <1>2 DEF WriteInv, CountInv
<1> QED BY <1>4, <1>5, <1>6 DEF WriteInv

(* A Write that fails changes nothing, or on s3 puts a whole object there.    *)
LEMMA BreakKeepsWrites ==
  ASSUME TypeInv, WriteInv, NEW j \in Jobs, NEW k \in Keys, BreakFile(j, k),
         \A i \in Jobs, n \in Keys : HasOpen(i, n)' => HasOpen(i, n)
  PROVE  WriteInv'
<1>1. CASE UNCHANGED fileVars
  BY <1>1, StillKeepsWrites DEF fileVars
<1>2. CASE ~UNCHANGED fileVars
  <2>1. /\ AtomicWrite /\ UNCHANGED <<opened, stored, expired>>
        /\ files' = [files EXCEPT ![k] = FileOf(j)]
    BY <1>2 DEF BreakFile
  <2>2. \A n \in Keys : Whole(n) => Whole(n)'
    BY <2>1 DEF Whole, TypeInv, TypeOK
  <2>3. \A i \in Jobs : stored[i] \in SUBSET Keys
    BY DEF TypeInv, TypeOK
  <2>4. OpenInv'
    BY <2>1 DEF WriteInv, OpenInv
  <2>5. KeptInv'
    BY <2>1, <2>2, <2>3 DEF WriteInv, KeptInv, Kept
  <2>6. CountInv'
    BY <2>1 DEF WriteInv, CountInv
  <2> QED BY <2>4, <2>5, <2>6 DEF WriteInv
<1> QED BY <1>1, <1>2

LEMMA DeleteKeepsWrites ==
  ASSUME TypeInv, WriteInv, NEW j \in Jobs, NEW d \in Days,
         DeleteDate(j, d) \/ DeleteDateFails(j, d)
  PROVE  WriteInv'
<1>1. /\ expired' = expired \cup {d} /\ UNCHANGED <<opened, stored, pc, run>>
  BY DEF DeleteDate, DeleteDateFails, NextDoomed
<1>2. \A n \in Keys : DateOf(n) # d => files'[n] = files[n]
  BY DEF DeleteDate, DeleteDateFails
<1>3. \A i \in Jobs : stored[i] \in SUBSET Keys
  BY DEF TypeInv, TypeOK
<1>4. OpenInv'
  BY <1>1, <1>2 DEF WriteInv, OpenInv, HasOpen
<1>5. KeptInv'
  BY <1>1, <1>2, <1>3 DEF WriteInv, KeptInv, Kept, Whole
<1>6. CountInv'
  BY <1>1 DEF WriteInv, CountInv
<1> QED BY <1>4, <1>5, <1>6 DEF WriteInv

-------------------------------------------------------------------------------
LEMMA PlanStep ==
  ASSUME TypeInv, NEW j \in Jobs, Plan(j), Start(j) \/ Step(j)
  PROVE  Plan(j)'
<1> USE DEF TypeInv, TypeOK, Goto, fileVars, passVars
<1>0. run[j] \in Locals
  OBVIOUS
<1>1. CASE Start(j) \/ CreateJob(j) \/ RejectJob(j)
  BY <1>1 DEF Start, TriggerJob, ScheduledJob, Capture, CreateJob, RejectJob, AfterDump, Plan
<1>2. CASE NameDump(j) \/ OpenDump(j)
  <2>1. /\ pc[j] \in {"dump", "connect"} /\ pc'[j] \in {"connect", "dumping"} /\ stored' = stored
        /\ pc'[j] = "connect" => run'[j].dump = DumpKey(today, tick)
        /\ run'[j].left = run[j].left
        /\ pc'[j] = "dumping" => pc[j] = "connect" /\ run'[j].cur = run[j].dump
    BY <1>0, <1>2 DEF NameDump, OpenDump, OpenFile, Locals
  <2>2. stored'[j] = {}
    BY <2>1 DEF Plan
  <2>3. pc'[j] = "connect" => \E d, t : run'[j].dump = DumpKey(d, t)
    BY <2>1
  <2>4. pc'[j] = "dumping" => \E d, t : run'[j].cur = DumpKey(d, t)
    BY <2>1 DEF Plan
  <2> QED BY <2>1, <2>2, <2>3, <2>4 DEF Plan
<1>3. CASE \/ DumpRefused(j) \/ OpenDumpFails(j) \/ DumpBreaks(j) \/ ListingFails(j)
           \/ StorageDone(j)
  BY <1>3 DEF DumpRefused, OpenDumpFails, DumpBreaks, ListingFails, StorageDone, Fail, Plan
<1>4. CASE DumpDone(j)
  <2>1. /\ pc[j] = "dumping" /\ pc'[j] \in {"buckets", "complete"}
        /\ stored'[j] = stored[j] \cup {run[j].cur} /\ run'[j].left = run[j].left
    BY <1>0, <1>4 DEF DumpDone, CloseFile, AfterDump, Locals
  <2>2. \A d, o : ObjectKey(d, o) # run[j].cur
    BY <2>1 DEF Plan, DumpKey, ObjectKey
  <2> QED BY <2>1, <2>2 DEF Plan
<1>5. CASE ListBuckets(j)
  <2>1. /\ pc[j] = "buckets" /\ pc'[j] = "storage" /\ stored' = stored /\ run'[j].left = run[j].left
    BY <1>0, <1>5 DEF ListBuckets, Locals
  <2> QED BY <2>1 DEF Plan
<1>6. ASSUME NEW b \in Buckets, ListObjects(j, b) PROVE Plan(j)'
  <2>1. /\ pc[j] = "storage" /\ pc'[j] = "storage" /\ b \in run[j].todo /\ stored' = stored
        /\ run'[j] = [run[j] EXCEPT !.todo = @ \ {b}, !.left = Contents[b]]
    BY <1>6 DEF ListObjects
  <2>2. /\ run'[j].todo = run[j].todo \ {b} /\ run'[j].left = Contents[b]
        /\ run'[j].day = run[j].day /\ run[j].todo \subseteq Buckets
    BY <1>0, <2>1 DEF Locals
  <2>3. \A o \in Pending(j)' : o \in Pending(j)
    BY <2>1, <2>2 DEF Pending
  <2>4. \A c \in run'[j].todo : Contents[c] \cap run'[j].left = {}
    BY <2>2, ContentsAssumption
  <2> QED BY <2>1, <2>2, <2>3, <2>4 DEF Plan
<1>7. ASSUME NEW o \in Objects, OpenObject(j, o) \/ SkipObject(j, o) PROVE Plan(j)'
  <2>1. /\ pc[j] = "storage" /\ pc'[j] \in {"storage", "copying"} /\ o \in run[j].left
        /\ stored' = stored
        /\ \/ run'[j] = [run[j] EXCEPT !.cur = ObjectKey(run[j].day, o), !.left = @ \ {o}]
           \/ pc'[j] = "storage" /\ run'[j] = [run[j] EXCEPT !.left = @ \ {o}]
    BY <1>7 DEF OpenObject, SkipObject, OpenFile, OpenFails
  <2>2. /\ run'[j].todo = run[j].todo /\ run'[j].left = run[j].left \ {o}
        /\ run'[j].day = run[j].day
        /\ pc'[j] = "copying" => run'[j].cur = ObjectKey(run[j].day, o)
    BY <1>0, <2>1 DEF Locals
  <2>3. Pending(j)' \subseteq Pending(j) \ {o}
    BY <2>1, <2>2 DEF Plan, Pending
  <2> QED BY <2>1, <2>2, <2>3 DEF Plan
<1>8. CASE ObjectDone(j) \/ ObjectBreaks(j)
  <2>1. /\ pc[j] = "copying" /\ pc'[j] = "storage" /\ run'[j] = [run[j] EXCEPT !.cur = NoKey]
        /\ stored'[j] \subseteq stored[j] \cup {run[j].cur}
    BY <1>8 DEF ObjectDone, ObjectBreaks, CloseFile, BreakFile
  <2>2. /\ run'[j].todo = run[j].todo /\ run'[j].left = run[j].left /\ run'[j].day = run[j].day
    BY <1>0, <2>1 DEF Locals
  <2>3. Pending(j)' = Pending(j)
    BY <2>2 DEF Pending
  <2>4. \A o \in Pending(j) : ObjectKey(run[j].day, o) # run[j].cur
    BY <2>1 DEF Plan, ObjectKey
  <2> QED BY <2>1, <2>2, <2>3, <2>4 DEF Plan
<1>9. CASE \/ Complete(j) \/ ListDates(j) \/ ListDatesFails(j) \/ Judge(j) \/ RetentionDone(j)
           \/ \E d \in Days : DeleteDate(j, d) \/ DeleteDateFails(j, d)
  BY <1>9 DEF Complete, ListDates, ListDatesFails, Judge, RetentionDone, DeleteDate,
              DeleteDateFails, NextDoomed, Plan
<1> QED BY <1>1, <1>2, <1>3, <1>4, <1>5, <1>6, <1>7, <1>8, <1>9 DEF Step

(* A run that did not step has the same to do.                                *)
LEMMA PlanUnmoved ==
  ASSUME NEW j, Plan(j), pc'[j] = pc[j] \/ pc'[j] = "dead",
         run'[j] = run[j], stored'[j] = stored[j]
  PROVE  Plan(j)'
BY DEF Plan, Pending

LEMMA WriteStep ==
  ASSUME TypeInv, WriteInv, PlanInv, NEW j \in Jobs, Start(j) \/ Step(j)
  PROVE  WriteInv'
<1>0. \A i \in Jobs \ {j} : pc'[i] = pc[i] /\ run'[i] = run[i]
  BY OthersUnmoved
<1>1. \A i \in Jobs \ {j}, n \in Keys : HasOpen(i, n)' => HasOpen(i, n)
  BY <1>0 DEF HasOpen
<1> DEFINE Opens(k) == \A n \in Keys : HasOpen(j, n)' => HasOpen(j, n) \/ n = k
           Closes == \A n \in Keys : HasOpen(j, n)' => HasOpen(j, n)
<1> USE DEF Goto
<1>2. ASSUME OpenDump(j) PROVE WriteInv'
  <2>1. PICK k \in Keys : k = run[j].dump
    BY <1>2 DEF OpenDump, TypeInv, CursorOK
  <2>2. OpenFile(j, k) /\ pc[j] = "connect" /\ run'[j].cur = k
    BY <1>2, <2>1 DEF OpenDump, TypeInv, TypeOK, Locals
  <2>3. k \notin stored[j]
    BY <2>2 DEF PlanInv, Plan
  <2>4. Opens(k)
    BY <2>2 DEF HasOpen
  <2> QED BY <1>1, <2>2, <2>3, <2>4, OpenKeepsWrites
<1>3. ASSUME NEW o \in Objects, OpenObject(j, o) PROVE WriteInv'
  <2>1. run[j].day \in Days /\ o \in run[j].left
    BY <1>3 DEF OpenObject, TypeInv, TypeOK, Locals
  <2>2. PICK k \in Keys : k = ObjectKey(run[j].day, o)
    BY <2>1, KeyFacts
  <2>3. OpenFile(j, k) /\ pc[j] = "storage" /\ run'[j].cur = k
    BY <1>3, <2>2 DEF OpenObject, TypeInv, TypeOK, Locals
  <2>4. k \notin stored[j]
    BY <2>1, <2>2, <2>3 DEF PlanInv, Plan, Pending
  <2>5. Opens(k)
    BY <2>3 DEF HasOpen
  <2> QED BY <1>1, <2>3, <2>4, <2>5, OpenKeepsWrites
<1>4. ASSUME DumpDone(j) \/ ObjectDone(j) \/ DumpBreaks(j) \/ ObjectBreaks(j) PROVE WriteInv'
  <2>1. PICK k \in Keys : k = run[j].cur
    BY <1>4 DEF DumpDone, ObjectDone, DumpBreaks, ObjectBreaks, Fail, TypeInv, CursorOK
  <2>2. HasOpen(j, k)
    BY <1>4, <2>1 DEF DumpDone, ObjectDone, DumpBreaks, ObjectBreaks, Fail, HasOpen
  <2>3. pc'[j] \notin {"dumping", "copying"}
    BY <1>4 DEF DumpDone, ObjectDone, DumpBreaks, ObjectBreaks, Fail, AfterDump, TypeInv, TypeOK
  <2>4. Closes
    BY <2>3 DEF HasOpen
  <2>5. CloseFile(j, k) \/ BreakFile(j, k)
    BY <1>4, <2>1 DEF DumpDone, ObjectDone, DumpBreaks, ObjectBreaks
  <2> QED BY <1>1, <2>2, <2>4, <2>5, CloseKeepsWrites, BreakKeepsWrites
<1>5. ASSUME UNCHANGED <<files, opened, stored, expired>>, Closes PROVE WriteInv'
  BY <1>1, <1>5, StillKeepsWrites
<1>6. ASSUME UNCHANGED <<files, opened, stored, expired>>,
             pc'[j] \notin {"dumping", "copying"}
      PROVE  WriteInv'
  BY <1>5, <1>6 DEF HasOpen
<1>7. CASE \/ Start(j) \/ CreateJob(j) \/ RejectJob(j) \/ NameDump(j) \/ DumpRefused(j)
           \/ OpenDumpFails(j) \/ ListBuckets(j) \/ ListingFails(j) \/ StorageDone(j)
           \/ Complete(j) \/ ListDates(j) \/ ListDatesFails(j) \/ Judge(j) \/ RetentionDone(j)
           \/ \E b \in Buckets : ListObjects(j, b)
           \/ \E o \in Objects : SkipObject(j, o)
  <2>1. UNCHANGED <<files, opened, stored, expired>>
    BY <1>7 DEF Start, TriggerJob, ScheduledJob, Capture, CreateJob, RejectJob, NameDump,
      DumpRefused, OpenDumpFails, OpenFails, Fail, ListBuckets, ListingFails, StorageDone,
      Complete, ListDates, ListDatesFails, Judge, RetentionDone, ListObjects, SkipObject, fileVars
  <2>2. pc'[j] \notin {"dumping", "copying"}
    BY <1>7 DEF Start, TriggerJob, ScheduledJob, Capture, CreateJob, RejectJob, NameDump,
      DumpRefused, OpenDumpFails, Fail, ListBuckets, ListingFails, StorageDone, AfterDump,
      Complete, ListDates, ListDatesFails, Judge, RetentionDone, ListObjects, SkipObject,
      TypeInv, TypeOK
  <2> QED BY <1>6, <2>1, <2>2
<1> QED BY <1>2, <1>3, <1>4, <1>7, DeleteKeepsWrites DEF Step

(* What a Write has reported as stored stays one run's whole file until       *)
(* retention deletes from its date, for any number of runs and any faults; on *)
(* local and sftp, unless another run opens the same key.                     *)
THEOREM StoredCorrect == Spec => []StoredStaysWhole
<1>1. Init => WriteInv /\ PlanInv
  BY FS_EmptySet DEF Init, NoLocals, WriteInv, OpenInv, KeptInv, CountInv, PlanInv, Plan, HasOpen
<1>2. TypeInv /\ WriteInv /\ PlanInv /\ [Next]_vars => WriteInv' /\ PlanInv'
  <2> SUFFICES ASSUME TypeInv, WriteInv, PlanInv, [Next]_vars PROVE WriteInv' /\ PlanInv'
    OBVIOUS
  <2>1. ASSUME NEW j \in Jobs, Start(j) \/ Step(j) PROVE WriteInv' /\ PlanInv'
    <3>1. ASSUME NEW i \in Jobs PROVE Plan(i)'
      BY <2>1, PlanStep, PlanUnmoved, OthersUnmoved DEF PlanInv
    <3> QED BY <2>1, <3>1, WriteStep DEF PlanInv
  <2>2. CASE Tick \/ Crash \/ UNCHANGED vars
    <3>1. /\ \A i \in Jobs : pc'[i] = pc[i] \/ pc'[i] = "dead"
          /\ UNCHANGED <<run, files, opened, stored, expired>>
      BY <2>2 DEF Tick, Crash, vars, fileVars, TypeInv, TypeOK
    <3>2. PlanInv'
      BY <3>1, PlanUnmoved DEF PlanInv
    <3>3. \A i \in Jobs, n \in Keys : HasOpen(i, n)' => HasOpen(i, n)
      BY <3>1 DEF HasOpen
    <3> QED BY <3>1, <3>2, <3>3, StillKeepsWrites
  <2> QED BY <2>1, <2>2 DEF Next, Terminated
<1>3. TypeInv /\ WriteInv => StoredStaysWhole
  <2> SUFFICES ASSUME TypeInv, WriteInv, NEW j \in Jobs, NEW k \in stored[j],
                      ~AtomicWrite, opened[k] # {j}, j \in opened[k]
               PROVE  Cardinality(opened[k]) > 1
    BY DEF StoredStaysWhole, WriteInv, KeptInv, Kept, Whole
  <2>1. IsFiniteSet(opened[k])
    BY DEF TypeInv, TypeOK, WriteInv, CountInv
  <2>2. {j} \subseteq opened[k] /\ Cardinality({j}) = 1
    BY FS_Singleton
  <2>3. Cardinality({j}) <= Cardinality(opened[k]) /\ Cardinality({j}) # Cardinality(opened[k])
    BY <2>1, <2>2, FS_Subset
  <2> QED BY <2>1, <2>2, <2>3, FS_CardinalityType
<1> QED BY TypeInvariant, <1>1, <1>2, <1>3, PTL DEF Spec

-------------------------------------------------------------------------------
(* The retention pass keeps the promise of RetainedDates, however many        *)
(* passes run at a time and whatever they share of a listing.                 *)

(* What the policy says of one listing *)

LEMMA NewerMonotone ==
  ASSUME NEW S \in SUBSET Days, NEW T \in SUBSET S, NEW d
  PROVE  /\ Cardinality(Newer(S, d)) \in Nat
         /\ Cardinality(Newer(T, d)) \in Nat
         /\ Cardinality(Newer(T, d)) <= Cardinality(Newer(S, d))
<1>1. IsFiniteSet(Days)
  BY ClockAssumption, FS_Interval DEF Days
<1>2. IsFiniteSet(Newer(S, d))
  BY <1>1, FS_Subset DEF Newer
<1>3. Newer(T, d) \subseteq Newer(S, d)
  BY DEF Newer
<1> QED BY <1>2, <1>3, FS_Subset, FS_CardinalityType

(* A date whose newer dates number at least Floor keeps that many when        *)
(* another such date goes: those newer than the other one are all there.      *)
LEMMA SettledStays ==
  ASSUME NEW S \in SUBSET Days, NEW T \in SUBSET Days, NEW d \in Days, NEW e \in Days,
         S \ {e} \subseteq T,
         Cardinality(Newer(S, d)) >= Floor, Cardinality(Newer(S, e)) >= Floor
  PROVE  Cardinality(Newer(T, d)) >= Floor
<1>1. d \in Int /\ e \in Int /\ Floor \in Nat /\ S \subseteq Int
  BY ClockAssumption, PolicyAssumption DEF Days
<1>2. CASE d < e
  <2>0. ASSUME NEW x \in Newer(S, e) PROVE x \in T /\ x > d
    <3>1. x \in S /\ x \in Int /\ x > e
      BY <1>1 DEF Newer
    <3> QED BY <1>1, <1>2, <3>1
  <2>1. Newer(S, e) \subseteq Newer(T, d)
    BY <2>0 DEF Newer
  <2>2. Newer(Newer(S, e), d) = Newer(S, e)
    BY <2>0 DEF Newer
  <2>3. Newer(T, d) \subseteq T
    BY DEF Newer
  <2>4. Cardinality(Newer(Newer(S, e), d)) <= Cardinality(Newer(T, d))
    BY <2>1, <2>3, NewerMonotone
  <2>5. Cardinality(Newer(S, e)) \in Nat /\ Cardinality(Newer(T, d)) \in Nat
    BY NewerMonotone
  <2> QED BY <1>1, <2>2, <2>4, <2>5
<1>3. CASE ~(d < e)
  <2>1. Newer(S, d) \subseteq T
    BY <1>1, <1>3 DEF Newer
  <2>2. Newer(Newer(S, d), d) = Newer(S, d)
    BY DEF Newer
  <2>3. Cardinality(Newer(Newer(S, d), d)) <= Cardinality(Newer(T, d))
    BY <2>1, NewerMonotone
  <2>4. Cardinality(Newer(S, d)) \in Nat /\ Cardinality(Newer(T, d)) \in Nat
    BY NewerMonotone
  <2> QED BY <1>1, <2>2, <2>3, <2>4
<1> QED BY <1>2, <1>3

(* What a policy drops from a listing is out of every policy with smaller     *)
(* bounds, on that listing.                                                   *)
LEMMA DroppedFacts ==
  ASSUME NEW S \in SUBSET Days, NEW n \in Nat, NEW m \in Nat,
         n >= Floor, m >= MinAge, NEW today0 \in Days, NEW tick0 \in Ticks,
         NEW d \in S \ KeepSet(S, n, m, today0, tick0)
  PROVE  /\ Cardinality(Newer(S, d)) >= Floor
         /\ MinAge > 0 => BeforeCutoff(d, MinAge, today0, tick0)
<1>1. /\ d \in Nat /\ Floor \in Nat /\ MinAge \in Nat /\ today0 \in Nat /\ tick0 \in Nat
      /\ Cardinality(Newer(S, d)) \in Nat
  BY ClockAssumption, PolicyAssumption, NewerMonotone DEF Days, Ticks
<1>2. ~(Cardinality(Newer(S, d)) < n)
  BY DEF KeepSet, KeptByCount
<1>3. m > 0 => BeforeCutoff(d, m, today0, tick0)
  BY DEF KeepSet, KeptByAge
<1>4. MinAge > 0 => BeforeCutoff(d, MinAge, today0, tick0)
  BY <1>1, <1>3 DEF BeforeCutoff
<1> QED BY <1>1, <1>2, <1>4

-------------------------------------------------------------------------------
(* The inductive invariant *)

(* A captured policy respects the bounds, and a run only comes to its         *)
(* retention pass with a policy.                                              *)
PolicyKept ==
  \A j \in Jobs :
    /\ RetentionOn(cfg[j]) => cfg[j].keepLast >= Floor /\ cfg[j].keepDays >= MinAge
    /\ pc[j] \in {"retain", "judge"} => RetentionOn(cfg[j])

(* What is newer than a date in a pass's listing may be gone from the         *)
(* destination, but never so much that the date is not settled any more.      *)
ListedSettled ==
  \A j \in Jobs : \A d \in listed[j] :
    Cardinality(Newer(listed[j], d)) >= Floor => Promise!Settled(d)

(* A run writes under the date of a day that has begun.                       *)
CursorPast ==
  \A j \in Jobs :
    /\ pc[j] = "connect" => DateOf(run[j].dump) <= today
    /\ pc[j] \in {"dumping", "copying"} => DateOf(run[j].cur) <= today
    /\ pc[j] \in {"storage", "copying"} => run[j].day <= today

PassInv == PolicyKept /\ ListedSettled /\ CursorPast /\ DoomedOutOfPolicy

LEMMA InitPass == Init => PassInv
BY PolicyAssumption
DEF Init, PassInv, PolicyKept, ListedSettled, CursorPast, DoomedOutOfPolicy,
    NoConfig, RetentionOn

LEMMA PolicyKeptStep ==
  ASSUME TypeInv, PolicyKept, [Next]_vars
  PROVE  PolicyKept'
<1> USE DEF PolicyKept
<1>0. pc \in [Jobs -> PCs] /\ cfg \in [Jobs -> ConfigOf(Buckets)]
  BY DEF TypeInv, TypeOK
<1>1. ASSUME NEW j \in Jobs, Start(j) PROVE PolicyKept'
  <2>1. PICK c \in Configs, type \in JobTypes : Capture(j, c, type)
    BY <1>1 DEF Start, TriggerJob, ScheduledJob
  <2> DEFINE f == ForType(c, type)
  <2>2. RetentionOn(f) => f.keepLast >= Floor /\ f.keepDays >= MinAge
    BY ForTypeFacts, PolicyAssumption DEF RetentionOn
  <2>3. cfg' = [cfg EXCEPT ![j] = f] /\ pc' = [pc EXCEPT ![j] = "queued"]
    BY <2>1 DEF Capture, Goto
  <2> HIDE DEF f
  <2> QED BY <1>0, <2>2, <2>3
<1>2. ASSUME NEW j \in Jobs, Complete(j) PROVE PolicyKept'
  BY <1>0, <1>2 DEF Complete, Goto
<1>3. ASSUME NEW j \in Jobs, Step(j), ~Complete(j) PROVE PolicyKept'
  <2>1. cfg' = cfg
    BY <1>3 DEF Step, CreateJob, RejectJob, NameDump, DumpRefused, OpenDump,
       OpenDumpFails, DumpDone, DumpBreaks, ListBuckets, ListingFails, StorageDone,
       ListObjects, OpenObject, SkipObject, ObjectDone, ObjectBreaks, ListDates,
       ListDatesFails, Judge, RetentionDone, DeleteDate, DeleteDateFails,
       NextDoomed, Fail
  <2>2. \A i \in Jobs : pc'[i] \in {"retain", "judge"} => pc[i] \in {"retain", "judge"}
    BY <1>0, <1>3 DEF Step, CreateJob, RejectJob, NameDump, DumpRefused, OpenDump,
       OpenDumpFails, DumpDone, DumpBreaks, ListBuckets, ListingFails, StorageDone,
       ListObjects, OpenObject, SkipObject, ObjectDone, ObjectBreaks, ListDates,
       ListDatesFails, Judge, RetentionDone, DeleteDate, DeleteDateFails,
       NextDoomed, Fail, Goto, AfterDump
  <2> QED BY <2>1, <2>2
<1>4. CASE Tick \/ Terminated \/ UNCHANGED vars
  BY <1>4 DEF Tick, Terminated, vars
<1>5. CASE Crash
  BY <1>0, <1>5 DEF Crash, Active, Over
<1> QED BY <1>1, <1>2, <1>3, <1>4, <1>5 DEF Next

LEMMA CursorPastStep ==
  ASSUME TypeInv, CursorPast, [Next]_vars
  PROVE  CursorPast'
<1> USE DEF CursorPast
<1>0. /\ pc \in [Jobs -> PCs] /\ run \in [Jobs -> Locals] /\ today \in Int
      /\ \A j \in Jobs : run[j].day \in Int
  BY ClockAssumption DEF TypeInv, TypeOK, Days, Locals
<1>1. CASE Tick
  <2>1. /\ today' \in Int /\ today <= today'
        /\ pc' = pc /\ run' = run
    BY <1>0, <1>1 DEF Tick
  <2>2. ASSUME NEW j \in Jobs
        PROVE  /\ pc[j] = "connect" => DateOf(run[j].dump) \in Int
               /\ pc[j] \in {"dumping", "copying"} => DateOf(run[j].cur) \in Int
    BY KeyFacts, ClockAssumption DEF TypeInv, CursorOK, Days
  <2> QED BY <1>0, <2>1, <2>2
<1>2. ASSUME NEW j \in Jobs, NameDump(j) PROVE CursorPast'
  <2>1. DateOf(DumpKey(today, tick)) = today
    BY KeyFacts DEF TypeInv, TypeOK
  <2> DEFINE loc == [run[j] EXCEPT !.dump = DumpKey(today, tick)]
  <2>2. /\ run' = [run EXCEPT ![j] = loc] /\ pc' = [pc EXCEPT ![j] = "connect"]
        /\ today' = today
    BY <1>2 DEF NameDump, Goto, clockVars
  <2>3. DateOf(loc.dump) <= today
    BY <1>0, <2>1 DEF Locals
  <2> HIDE DEF loc
  <2> QED BY <1>0, <2>2, <2>3
<1>3. ASSUME NEW j \in Jobs, OpenDump(j) PROVE CursorPast'
  <2> DEFINE loc == [run[j] EXCEPT !.cur = run[j].dump]
  <2>1. /\ run' = [run EXCEPT ![j] = loc] /\ pc' = [pc EXCEPT ![j] = "dumping"]
        /\ today' = today /\ pc[j] = "connect"
    BY <1>3 DEF OpenDump, Goto, clockVars
  <2>2. DateOf(loc.cur) <= today
    BY <1>0, <2>1 DEF Locals
  <2> HIDE DEF loc
  <2> QED BY <1>0, <2>1, <2>2
<1>4. ASSUME NEW j \in Jobs, ListBuckets(j) PROVE CursorPast'
  <2> DEFINE loc == [run[j] EXCEPT !.day = today, !.todo = Selected(cfg[j], Buckets)]
  <2>1. /\ run' = [run EXCEPT ![j] = loc] /\ pc' = [pc EXCEPT ![j] = "storage"]
        /\ today' = today
    BY <1>4 DEF ListBuckets, Goto, clockVars
  <2>2. loc.day = today
    BY <1>0 DEF Locals
  <2> HIDE DEF loc
  <2> QED BY <1>0, <2>1, <2>2
<1>5. ASSUME NEW j \in Jobs, NEW o \in Objects, OpenObject(j, o) PROVE CursorPast'
  <2> DEFINE k == ObjectKey(run[j].day, o)
             loc == [run[j] EXCEPT !.cur = k, !.left = @ \ {o}]
  <2>1. /\ run' = [run EXCEPT ![j] = loc] /\ pc' = [pc EXCEPT ![j] = "copying"]
        /\ today' = today /\ pc[j] = "storage"
    BY <1>5 DEF OpenObject, Goto, clockVars
  <2>2. DateOf(k) = run[j].day
    BY <1>0, KeyFacts DEF Locals
  <2> HIDE DEF k
  <2>3. loc.cur = k /\ loc.day = run[j].day
    BY <1>0 DEF Locals
  <2> HIDE DEF loc
  <2> QED BY <1>0, <2>1, <2>2, <2>3
<1>6. ASSUME NEW j \in Jobs, NEW o \in Objects, SkipObject(j, o) PROVE CursorPast'
  <2> DEFINE loc == [run[j] EXCEPT !.left = @ \ {o}]
  <2>1. run' = [run EXCEPT ![j] = loc] /\ pc' = pc /\ today' = today /\ pc[j] = "storage"
    BY <1>6 DEF SkipObject, clockVars
  <2>2. loc.day = run[j].day
    BY <1>0 DEF Locals
  <2> HIDE DEF loc
  <2> QED BY <1>0, <2>1, <2>2
<1>7. ASSUME NEW j \in Jobs, NEW b \in Buckets, ListObjects(j, b) PROVE CursorPast'
  <2> DEFINE loc == [run[j] EXCEPT !.todo = @ \ {b}, !.left = Contents[b]]
  <2>1. run' = [run EXCEPT ![j] = loc] /\ pc' = pc /\ today' = today /\ pc[j] = "storage"
    BY <1>7 DEF ListObjects, clockVars
  <2>2. loc.day = run[j].day
    BY <1>0 DEF Locals
  <2> HIDE DEF loc
  <2> QED BY <1>0, <2>1, <2>2
<1>8. ASSUME NEW j \in Jobs, ObjectDone(j) \/ ObjectBreaks(j) PROVE CursorPast'
  <2> DEFINE loc == [run[j] EXCEPT !.cur = NoKey]
  <2>1. /\ run' = [run EXCEPT ![j] = loc] /\ pc' = [pc EXCEPT ![j] = "storage"]
        /\ today' = today /\ pc[j] = "copying"
    BY <1>8 DEF ObjectDone, ObjectBreaks, Goto, clockVars
  <2>2. loc.day = run[j].day
    BY <1>0 DEF Locals
  <2> HIDE DEF loc
  <2> QED BY <1>0, <2>1, <2>2
(* In every other step a run moves to a call with no cursor, or not at all.   *)
<1>9. ASSUME NEW j \in Jobs, NEW to \in {"queued", "rejected", "dump", "buckets",
               "complete", "retain", "judge", "delete", "done"},
             pc' = [pc EXCEPT ![j] = to], today' = today,
             \A i \in Jobs \ {j} : run'[i] = run[i]
      PROVE  CursorPast'
  BY <1>0, <1>9
<1>10. ASSUME NEW j \in Jobs, Start(j) PROVE CursorPast'
  BY <1>9, <1>10 DEF Start, TriggerJob, ScheduledJob, Capture, Goto, clockVars
<1>11. ASSUME NEW j \in Jobs, NEW from, Fail(j, from) PROVE CursorPast'
  BY <1>0, <1>9, <1>11 DEF Fail, Goto, clockVars
<1>12. ASSUME NEW j \in Jobs, DumpDone(j) PROVE CursorPast'
  BY <1>0, <1>9, <1>12 DEF DumpDone, AfterDump, Goto, clockVars
<1>13. ASSUME NEW j \in Jobs,
              \/ CreateJob(j) \/ RejectJob(j) \/ StorageDone(j) \/ Complete(j)
              \/ ListDates(j) \/ ListDatesFails(j) \/ Judge(j) \/ RetentionDone(j)
       PROVE  CursorPast'
  BY <1>9, <1>13 DEF CreateJob, RejectJob, StorageDone, Complete, ListDates,
     ListDatesFails, Judge, RetentionDone, AfterDump, Goto, clockVars
<1>14. ASSUME NEW j \in Jobs, NEW d \in Days, DeleteDate(j, d) \/ DeleteDateFails(j, d)
       PROVE  CursorPast'
  BY <1>14 DEF DeleteDate, DeleteDateFails, NextDoomed, clockVars
<1>15. CASE Crash
  BY <1>0, <1>15 DEF Crash, Active, Over, clockVars
<1>16. CASE Terminated \/ UNCHANGED vars
  BY <1>16 DEF Terminated, vars, clockVars
<1>17. ASSUME NEW j \in Jobs, Step(j) PROVE CursorPast'
  BY <1>2, <1>3, <1>4, <1>5, <1>6, <1>7, <1>8, <1>11, <1>12, <1>13, <1>14, <1>17
  DEF Step, DumpRefused, OpenDumpFails, DumpBreaks, ListingFails
<1> QED BY <1>1, <1>10, <1>15, <1>16, <1>17 DEF Next

-------------------------------------------------------------------------------
(* Every step of BackupRun is a step of RetainedDates, or none. *)

LEMMA StoreImplements ==
  ASSUME NEW d \in Days, d <= today, dates' = dates \/ dates' = dates \cup {d},
         UNCHANGED clockVars
  PROVE  [Promise!Next]_(Promise!vars)
BY DEF clockVars, Promise!vars, Promise!Next, Promise!Store, Promise!Days, Days

LEMMA SameImplements ==
  ASSUME dates' = dates, UNCHANGED clockVars
  PROVE  [Promise!Next]_(Promise!vars)
BY DEF clockVars, Promise!vars

LEMMA StepImplements ==
  ASSUME TypeInv, CursorPast, DoomedOutOfPolicy, [Next]_vars
  PROVE  [Promise!Next]_(Promise!vars)
<1>0. /\ today \in Int /\ tick \in Int
      /\ \A j \in Jobs : run[j] \in Locals /\ run[j].day \in Days
  BY ClockAssumption DEF TypeInv, TypeOK, Locals, Days, Ticks
<1>1. ASSUME NEW j \in Jobs, OpenDump(j) \/ OpenDumpFails(j)
      PROVE  [Promise!Next]_(Promise!vars)
  <2> DEFINE d == DateOf(run[j].dump)
  <2>1. d \in Days /\ d <= today
    BY <1>1, KeyFacts
    DEF OpenDump, OpenDumpFails, Fail, Goto, TypeInv, CursorOK, CursorPast
  <2>2. dates' = dates \/ dates' = dates \cup {d}
    BY <1>1 DEF OpenDump, OpenDumpFails, OpenFile, OpenFails
  <2>3. UNCHANGED clockVars
    BY <1>1 DEF OpenDump, OpenDumpFails, Fail
  <2> HIDE DEF d
  <2> QED BY <2>1, <2>2, <2>3, StoreImplements
<1>2. ASSUME NEW j \in Jobs,
             DumpDone(j) \/ ObjectDone(j) \/ DumpBreaks(j) \/ ObjectBreaks(j)
      PROVE  [Promise!Next]_(Promise!vars)
  <2> DEFINE d == DateOf(run[j].cur)
  <2>1. d \in Days /\ d <= today
    BY <1>2, KeyFacts
    DEF DumpDone, ObjectDone, DumpBreaks, ObjectBreaks, Fail, Goto, TypeInv, CursorOK,
        CursorPast
  <2>2. dates' = dates \/ dates' = dates \cup {d}
    BY <1>2
    DEF DumpDone, ObjectDone, CloseFile, DumpBreaks, ObjectBreaks, BreakFile, fileVars
  <2>3. UNCHANGED clockVars
    BY <1>2 DEF DumpDone, ObjectDone, DumpBreaks, ObjectBreaks, Fail
  <2> HIDE DEF d
  <2> QED BY <2>1, <2>2, <2>3, StoreImplements
<1>3. ASSUME NEW j \in Jobs, NEW o \in Objects, OpenObject(j, o) \/ SkipObject(j, o)
      PROVE  [Promise!Next]_(Promise!vars)
  <2> DEFINE d == run[j].day
  <2>1. d \in Days /\ d <= today
    BY <1>0, <1>3 DEF OpenObject, SkipObject, Goto, CursorPast
  <2>2. DateOf(ObjectKey(d, o)) = d
    BY <2>1, KeyFacts
  <2>3. dates' = dates \/ dates' = dates \cup {d}
    BY <1>3, <2>2 DEF OpenObject, SkipObject, OpenFile, OpenFails
  <2>4. UNCHANGED clockVars
    BY <1>3 DEF OpenObject, SkipObject
  <2> HIDE DEF d
  <2> QED BY <2>1, <2>3, <2>4, StoreImplements
<1>4. ASSUME NEW j \in Jobs, NEW d \in Days, DeleteDate(j, d)
      PROVE  [Promise!Next]_(Promise!vars)
  <2>1. Promise!Settled(d) /\ Promise!Aged(d)
    BY <1>4 DEF DeleteDate, NextDoomed, DoomedOutOfPolicy
  <2>2. dates' = dates \ {d} /\ UNCHANGED <<today, tick>>
    BY <1>4 DEF DeleteDate, NextDoomed, clockVars
  <2>3. Promise!Expire(d)
    BY <2>1, <2>2 DEF Promise!Expire
  <2> QED BY <2>3 DEF Promise!Next, Promise!Days, Days
<1>5. ASSUME NEW j \in Jobs, NEW d \in Days, DeleteDateFails(j, d)
      PROVE  [Promise!Next]_(Promise!vars)
  BY <1>5, SameImplements DEF DeleteDateFails, NextDoomed
<1>6. ASSUME NEW j \in Jobs, Start(j) PROVE [Promise!Next]_(Promise!vars)
  BY <1>6, SameImplements DEF Start, TriggerJob, ScheduledJob, Capture, fileVars
<1>7. ASSUME NEW j \in Jobs,
             \/ CreateJob(j) \/ RejectJob(j) \/ StorageDone(j) \/ Complete(j)
             \/ ListDates(j) \/ ListDatesFails(j) \/ Judge(j) \/ RetentionDone(j)
             \/ NameDump(j) \/ DumpRefused(j)
             \/ ListBuckets(j) \/ ListingFails(j)
             \/ \E b \in Buckets : ListObjects(j, b)
      PROVE  [Promise!Next]_(Promise!vars)
  BY <1>7, SameImplements
  DEF CreateJob, RejectJob, StorageDone, Complete, ListDates, ListDatesFails, Judge,
      RetentionDone, NameDump, DumpRefused, ListBuckets,
      ListingFails, ListObjects, Fail, fileVars
<1>8. CASE Tick
  <2>1. dates' = dates /\ Promise!Advance
    BY <1>0, <1>8 DEF Tick, fileVars, Promise!Advance
  <2> QED BY <2>1 DEF Promise!Next
<1>9. CASE Crash \/ Terminated \/ UNCHANGED vars
  BY <1>9, SameImplements DEF Crash, Terminated, vars, fileVars
<1> QED
  BY <1>1, <1>2, <1>3, <1>4, <1>5, <1>6, <1>7, <1>8, <1>9 DEF Next, Step

LEMMA InitImplements == Init => Promise!Init
BY ClockAssumption DEF Init, Promise!Init, Promise!Days, Days

-------------------------------------------------------------------------------
(* What is settled and aged stays so. *)

LEMMA SettledStep ==
  ASSUME TypeInv, TypeInv', [Promise!Next]_(Promise!vars), NEW d \in Days
  PROVE  /\ Promise!Settled(d) => Promise!Settled(d)'
         /\ Promise!Aged(d) => Promise!Aged(d)'
<1>0. /\ dates \in SUBSET Days /\ dates' \in SUBSET Days
      /\ today \in Nat /\ tick \in Nat /\ today' \in Nat /\ tick' \in Nat
      /\ d \in Nat /\ MinAge \in Nat
  BY ClockAssumption, PolicyAssumption DEF TypeInv, TypeOK, Days, Ticks
<1>1. \A e : /\ Promise!Settled(e) <=> Cardinality(Newer(dates, e)) >= Floor
             /\ Promise!Settled(e)' <=> Cardinality(Newer(dates', e)) >= Floor
  BY DEF Promise!Settled, Promise!Newer, Newer, Promise!Cardinality, Cardinality
<1>2. Promise!Settled(d) => Promise!Settled(d)'
  <2> SUFFICES ASSUME Promise!Settled(d) PROVE Promise!Settled(d)'
    OBVIOUS
  <2>1. Cardinality(Newer(dates, d)) >= Floor
    BY <1>0, <1>1 DEF Promise!Settled
  <2>2. PICK e \in Days : /\ dates \ {e} \subseteq dates'
                          /\ Cardinality(Newer(dates, e)) >= Floor
    <3>1. CASE dates \subseteq dates'
      BY <2>1, <3>1
    <3>2. CASE \E e \in Days : Promise!Expire(e)
      BY <1>0, <1>1, <3>2 DEF Promise!Expire, Promise!Settled
    <3>3. dates \subseteq dates' \/ \E e \in Days : Promise!Expire(e)
      BY DEF Promise!Next, Promise!vars, Promise!Store, Promise!Advance, Promise!Days, Days
    <3> QED BY <3>1, <3>2, <3>3
  <2>3. Cardinality(Newer(dates', d)) >= Floor
    BY <1>0, <2>1, <2>2, SettledStays
  <2> QED BY <1>0, <1>1, <2>3 DEF Promise!Settled
<1>3. Promise!Aged(d) => Promise!Aged(d)'
  <2>1. \/ today' = today /\ tick' = tick
        \/ today' = today /\ tick' > tick
        \/ today' = today + 1
    BY DEF Promise!Next, Promise!vars, Promise!Store, Promise!Expire, Promise!Advance
  <2>2. /\ Promise!Aged(d) <=>
             (MinAge > 0 => d < today - MinAge \/ (d = today - MinAge /\ tick > 0))
        /\ Promise!Aged(d)' <=>
             (MinAge > 0 => d < today' - MinAge \/ (d = today' - MinAge /\ tick' > 0))
    BY DEF Promise!Aged, Promise!BeforeCutoff
  <2>3. CASE today' = today + 1
    BY <1>0, <2>2, <2>3
  <2>4. CASE today' = today /\ (tick' = tick \/ tick' > tick)
    BY <1>0, <2>2, <2>4
  <2> QED BY <2>1, <2>3, <2>4
<1> QED BY <1>2, <1>3

-------------------------------------------------------------------------------
(* A listing is settled when it is made, and judged on a policy that respects *)
(* the bounds; from then on only what is settled and aged is left in doomed.  *)

LEMMA PassVarsStep ==
  ASSUME TypeOK, [Next]_vars
  PROVE  \/ \E j \in Jobs : ListDates(j)
         \/ \E j \in Jobs : Judge(j)
         \/ /\ listed' = listed
            /\ \A j \in Jobs : doomed'[j] \subseteq doomed[j]
<1>1. ASSUME NEW j \in Jobs, Step(j), ~ListDates(j), ~Judge(j),
             ~ \E d \in Days : DeleteDate(j, d) \/ DeleteDateFails(j, d)
      PROVE  UNCHANGED passVars
  BY <1>1
  DEF Step, CreateJob, RejectJob, NameDump, DumpRefused, OpenDump, OpenDumpFails,
      DumpDone, DumpBreaks, ListBuckets, ListingFails, StorageDone, ListObjects,
      OpenObject, SkipObject, ObjectDone, ObjectBreaks, Complete, ListDatesFails,
      RetentionDone, Fail, passVars
<1>2. ASSUME NEW j \in Jobs, NEW d \in Days, DeleteDate(j, d) \/ DeleteDateFails(j, d)
      PROVE  listed' = listed /\ \A i \in Jobs : doomed'[i] \subseteq doomed[i]
  BY <1>2 DEF TypeOK, DeleteDate, DeleteDateFails, NextDoomed
<1>3. ASSUME NEW j \in Jobs, Start(j) PROVE UNCHANGED passVars
  BY <1>3 DEF Start, TriggerJob, ScheduledJob, Capture
<1>4. CASE Tick \/ Crash \/ Terminated \/ UNCHANGED vars
  BY <1>4 DEF Tick, Crash, Terminated, vars, passVars
<1> QED BY <1>1, <1>2, <1>3, <1>4 DEF Next, passVars

LEMMA PassStep ==
  ASSUME TypeInv, TypeInv', PassInv, [Next]_vars
  PROVE  PassInv'
<1> USE DEF PassInv
<1>1. PolicyKept' /\ CursorPast'
  BY PolicyKeptStep, CursorPastStep
<1>2. \A d \in Days : /\ Promise!Settled(d) => Promise!Settled(d)'
                      /\ Promise!Aged(d) => Promise!Aged(d)'
  BY StepImplements, SettledStep
<1>3. /\ listed \in [Jobs -> SUBSET Days] /\ doomed \in [Jobs -> SUBSET Days]
      /\ dates \in SUBSET Days /\ today \in Days /\ tick \in Ticks
  BY DEF TypeInv, TypeOK
<1>4. \A e : Promise!Settled(e) <=> Cardinality(Newer(dates, e)) >= Floor
  BY DEF Promise!Settled, Promise!Newer, Newer, Promise!Cardinality, Cardinality
<1>5. \A e : Promise!Aged(e) <=> (MinAge > 0 => BeforeCutoff(e, MinAge, today, tick))
  BY DEF Promise!Aged, Promise!BeforeCutoff, BeforeCutoff
<1>6. ListedSettled' /\ DoomedOutOfPolicy'
  <2>1. ASSUME NEW j \in Jobs, ListDates(j) PROVE ListedSettled' /\ DoomedOutOfPolicy'
    <3>1. /\ listed' = [listed EXCEPT ![j] = Listing(dates)]
          /\ doomed' = doomed /\ dates' = dates
      BY <2>1 DEF ListDates, fileVars
    <3>2. ASSUME NEW d \in Listing(dates),
                 Cardinality(Newer(Listing(dates), d)) >= Floor
          PROVE  Promise!Settled(d)
      <4>1. Listing(dates) \in SUBSET dates
        BY DEF Listing
      <4>2. /\ Cardinality(Newer(dates, d)) \in Nat
            /\ Cardinality(Newer(Listing(dates), d)) \in Nat
            /\ Cardinality(Newer(Listing(dates), d)) <= Cardinality(Newer(dates, d))
        BY <1>3, <4>1, NewerMonotone
      <4> QED BY <1>4, <3>2, <4>2, PolicyAssumption
    <3>3. Listing(dates) \subseteq Days
      BY <1>3 DEF Listing
    <3>4. ListedSettled'
      <4> SUFFICES ASSUME NEW i \in Jobs, NEW d \in listed'[i],
                          Cardinality(Newer(listed'[i], d)) >= Floor
                   PROVE  Promise!Settled(d)'
        BY DEF ListedSettled, Newer
      <4>1. CASE i = j
        BY <1>2, <1>3, <3>1, <3>2, <3>3, <4>1
      <4>2. CASE i # j
        BY <1>2, <1>3, <3>1, <4>2 DEF ListedSettled
      <4> QED BY <4>1, <4>2
    <3>5. DoomedOutOfPolicy'
      BY <1>2, <1>3, <3>1 DEF DoomedOutOfPolicy
    <3> QED BY <3>4, <3>5
  <2>2. ASSUME NEW j \in Jobs, Judge(j) PROVE ListedSettled' /\ DoomedOutOfPolicy'
    <3> DEFINE drop == listed[j] \ KeepSet(listed[j], cfg[j].keepLast,
                                           cfg[j].keepDays, today, tick)
    <3>1. /\ doomed' = [doomed EXCEPT ![j] = drop]
          /\ listed' = [listed EXCEPT ![j] = {}]
      BY <2>2 DEF Judge
    <3>2. cfg[j].keepLast \in Nat /\ cfg[j].keepDays \in Nat
      BY DEF TypeInv, TypeOK, ConfigOf
    <3>3. cfg[j].keepLast >= Floor /\ cfg[j].keepDays >= MinAge
      BY <2>2 DEF Judge, Goto, PolicyKept
    <3>4. ASSUME NEW d \in drop PROVE Promise!Settled(d) /\ Promise!Aged(d)
      <4>1. /\ Cardinality(Newer(listed[j], d)) >= Floor
            /\ MinAge > 0 => BeforeCutoff(d, MinAge, today, tick)
        BY <1>3, <3>2, <3>3, DroppedFacts
      <4> QED BY <1>5, <4>1 DEF ListedSettled
    <3>5. drop \subseteq Days
      BY <1>3
    <3> HIDE DEF drop
    <3>6. ListedSettled'
      <4> SUFFICES ASSUME NEW i \in Jobs, NEW d \in listed'[i],
                          Cardinality(Newer(listed'[i], d)) >= Floor
                   PROVE  Promise!Settled(d)'
        BY DEF ListedSettled, Newer
      <4> QED BY <1>2, <1>3, <3>1 DEF ListedSettled
    <3>7. DoomedOutOfPolicy'
      BY <1>2, <1>3, <3>1, <3>4, <3>5 DEF DoomedOutOfPolicy
    <3> QED BY <3>6, <3>7
  <2>3. CASE listed' = listed /\ \A j \in Jobs : doomed'[j] \subseteq doomed[j]
    <3>1. ListedSettled'
      BY <1>2, <1>3, <2>3 DEF ListedSettled, Newer
    <3>2. DoomedOutOfPolicy'
      BY <1>2, <1>3, <2>3 DEF DoomedOutOfPolicy
    <3> QED BY <3>1, <3>2
  <2> QED BY <2>1, <2>2, <2>3, PassVarsStep DEF TypeInv
<1> QED BY <1>1, <1>6

(* No retention pass is ever about to delete a date of the newest Floor, or   *)
(* one that is not older than MinAge days, for any number of runs.            *)
THEOREM DoomedCorrect == Spec => []DoomedOutOfPolicy
<1>1. PassInv /\ TypeInv /\ TypeInv' /\ [Next]_vars => PassInv'
  BY PassStep
<1>2. PassInv => DoomedOutOfPolicy
  BY DEF PassInv
<1> QED BY InitPass, TypeInvariant, <1>1, <1>2, PTL DEF Spec

(* The destination's dates, as all runs together treat them, are RetainedDates. *)
THEOREM RetentionCorrect == Spec => RetentionPromise
<1>1. PassInv /\ TypeInv /\ TypeInv' /\ [Next]_vars => PassInv'
  BY PassStep
<1>2. PassInv /\ TypeInv /\ [Next]_vars => [Promise!Next]_(Promise!vars)
  BY StepImplements DEF PassInv
<1> QED
  BY InitPass, InitImplements, TypeInvariant, <1>1, <1>2, PTL
  DEF Spec, RetentionPromise, Promise!Spec

-------------------------------------------------------------------------------
(* What one undisturbed pass achieves *)

(* keep_last keeps no more than it says: but for the oldest date kept, they   *)
(* are all newer than that one, and those it allows less than n of.           *)
LEMMA KeptFacts ==
  ASSUME NEW S \in SUBSET Days, NEW n \in Nat
  PROVE  Cardinality(KeptByCount(S, n)) <= n
<1> DEFINE K == KeptByCount(S, n)
<1>1. Days \subseteq Nat /\ IsFiniteSet(Days)
  BY ClockAssumption, FS_Interval DEF Days
<1>2. K \in SUBSET S /\ IsFiniteSet(S) /\ IsFiniteSet(K)
  BY <1>1, FS_Subset DEF KeptByCount
<1>3. CASE K = {}
  BY <1>3, FS_EmptySet
<1>4. CASE K # {}
  <2>1. K \subseteq Nat
    BY <1>1, <1>2
  <2> HIDE DEF K
  <2>2. PICK m \in K : \A x \in K : <<x, m>> \notin OpToRel(<, Nat)
    BY <1>4, <2>1, NatLessThanWellFounded, WFMin
  <2>3. \A x \in K : ~(x < m)
    BY <2>1, <2>2 DEF OpToRel
  <2>4. K \subseteq Newer(S, m) \cup {m}
    BY <1>1, <1>2, <2>1, <2>3 DEF Newer
  <2>5. Cardinality(Newer(S, m)) < n
    BY <2>2 DEF K, KeptByCount
  <2>6. IsFiniteSet(Newer(S, m)) /\ Cardinality(Newer(S, m)) \in Nat
    BY <1>2, FS_Subset, FS_CardinalityType DEF Newer
  <2>7. /\ IsFiniteSet(Newer(S, m) \cup {m})
        /\ Cardinality(Newer(S, m) \cup {m}) <= Cardinality(Newer(S, m)) + 1
    <3>1. PICK N : N = Newer(S, m)
      OBVIOUS
    <3>2. IsFiniteSet(N \cup {m}) /\ Cardinality(N \cup {m}) = IF m \in N THEN Cardinality(N) ELSE Cardinality(N) + 1
      BY <2>6, <3>1, FS_AddElement
    <3>3. Cardinality(N) \in Nat
      BY <2>6, <3>1
    <3>4. Cardinality(N \cup {m}) <= Cardinality(N) + 1
      BY <3>2, <3>3
    <3> QED BY <3>1, <3>2, <3>4
  <2>8. Cardinality(K) <= Cardinality(Newer(S, m) \cup {m})
    BY <2>4, <2>7, FS_Subset
  <2>9. Cardinality(K) \in Nat
    BY <1>2, FS_CardinalityType
  <2>10. Cardinality(K) <= n
    BY <2>5, <2>6, <2>7, <2>8, <2>9, FS_CardinalityType
  <2> QED BY <2>10 DEF K
<1> QED BY <1>3, <1>4

(* One page holds every date there may be.                                    *)
LEMMA WholeListing ==
  ASSUME ListLimit > MaxDay, NEW S \in SUBSET Days
  PROVE  Listing(S) = S
<1>1. IsFiniteSet(Days) /\ Cardinality(Days) = MaxDay + 1
  BY ClockAssumption, FS_Interval DEF Days
<1>2. ASSUME NEW d \in S PROVE Cardinality({e \in S : e < d}) < ListLimit
  <2>1. {e \in S : e < d} \in SUBSET Days
    OBVIOUS
  <2>2. {e \in S : e < d} # Days
    <3>1. d \in Days /\ d \in Int
      BY ClockAssumption DEF Days
    <3> QED BY <3>1
  <2>3. /\ Cardinality({e \in S : e < d}) <= MaxDay + 1
        /\ Cardinality({e \in S : e < d}) # MaxDay + 1
        /\ Cardinality({e \in S : e < d}) \in Nat
    BY <1>1, <2>1, <2>2, FS_Subset, FS_CardinalityType
  <2> QED BY <2>3, ClockAssumption, DestinationAssumption
<1> QED BY <1>2 DEF Listing

(* The pass of a run that has the destination to itself and only counts.      *)
QuietPass(j) ==
  Alone(j) /\ cfg[j].keepLast > 0 /\ cfg[j].keepDays = 0 =>
    /\ pc[j] = "judge" => listed[j] = dates
    /\ pc[j] = "delete" => Cardinality(dates \ doomed[j]) <= cfg[j].keepLast
    /\ pc[j] = "done" /\ ~run[j].failed => Cardinality(dates) <= cfg[j].keepLast

QuietInv == \A j \in Jobs : QuietPass(j)

LEMMA InitQuiet == Init => QuietInv
BY DEF Init, QuietInv, QuietPass

(* A run is only ever alone from the start.                                   *)
LEMMA AloneStays ==
  ASSUME TypeOK, [Next]_vars, NEW j \in Jobs, Alone(j)'
  PROVE  Alone(j)
<1> SUFFICES ASSUME NEW i \in Jobs \ {j}, pc'[i] = "idle" PROVE pc[i] = "idle"
  BY DEF Alone
<1>1. pc \in [Jobs -> PCs]
  BY DEF TypeOK
<1>2. ASSUME NEW n \in Jobs, Start(n) PROVE pc[i] = "idle"
  BY <1>1, <1>2 DEF Start, TriggerJob, ScheduledJob, Capture, Goto
<1>3. ASSUME NEW n \in Jobs, Step(n) PROVE pc[i] = "idle"
  BY <1>1, <1>3 DEF Step, CreateJob, RejectJob, NameDump, DumpRefused, OpenDump,
     OpenDumpFails, DumpDone, DumpBreaks, ListBuckets, ListingFails, StorageDone,
     ListObjects, OpenObject, SkipObject, ObjectDone, ObjectBreaks, Complete, ListDates,
     ListDatesFails, Judge, RetentionDone, DeleteDate, DeleteDateFails,
     NextDoomed, Fail, Goto, AfterDump
<1>4. CASE Tick \/ Crash \/ Terminated \/ UNCHANGED vars
  BY <1>1, <1>4 DEF Tick, Crash, Terminated, vars, Active
<1> QED BY <1>2, <1>3, <1>4 DEF Next

(* Nobody else moves while a run is alone.                                    *)
LEMMA AloneMoves ==
  ASSUME TypeOK, [Next]_vars, NEW j \in Jobs, Alone(j), Alone(j)'
  PROVE  \/ Start(j) \/ Step(j)
         \/ pc'[j] \in {pc[j], "dead"} /\ UNCHANGED <<dates, cfg, run, passVars>>
<1>1. ASSUME NEW i \in Jobs \ {j} PROVE ~Start(i) /\ ~Step(i)
  <2>1. pc[i] = "idle" /\ pc'[i] = "idle" /\ pc \in [Jobs -> PCs]
    BY DEF Alone, TypeOK
  <2>2. ~Start(i)
    BY <2>1 DEF Start, TriggerJob, ScheduledJob, Capture, Goto
  <2>3. ~Step(i)
    BY <2>1 DEF Step, CreateJob, RejectJob, NameDump, DumpRefused, OpenDump,
       OpenDumpFails, DumpDone, DumpBreaks, ListBuckets, ListingFails, StorageDone,
       ListObjects, OpenObject, SkipObject, ObjectDone, ObjectBreaks, Complete, ListDates,
       ListDatesFails, Judge, RetentionDone, DeleteDate, DeleteDateFails,
       NextDoomed, Fail, Goto
  <2> QED BY <2>2, <2>3
<1>2. CASE Tick \/ Crash \/ Terminated \/ UNCHANGED vars
  BY <1>2 DEF Tick, Crash, Terminated, vars, fileVars, passVars, TypeOK
<1> QED BY <1>1, <1>2 DEF Next

LEMMA QuietStep ==
  ASSUME "dest" \notin Faults, ListLimit > MaxDay, TypeInv, TypeOK', QuietInv, [Next]_vars
  PROVE  QuietInv'
<1> SUFFICES ASSUME NEW j \in Jobs, Alone(j)', cfg'[j].keepLast > 0, cfg'[j].keepDays = 0
             PROVE  /\ pc'[j] = "judge" => listed'[j] = dates'
                    /\ pc'[j] = "delete" => Cardinality(dates' \ doomed'[j]) <= cfg'[j].keepLast
                    /\ pc'[j] = "done" /\ ~run'[j].failed => Cardinality(dates') <= cfg'[j].keepLast
  BY DEF QuietInv, QuietPass
<1>0. /\ TypeOK /\ Alone(j) /\ QuietPass(j) /\ pc \in [Jobs -> PCs] /\ dates \in SUBSET Days
      /\ cfg[j].keepLast \in Nat /\ listed \in [Jobs -> SUBSET Days]
      /\ doomed \in [Jobs -> SUBSET Days]
  BY AloneStays DEF TypeInv, TypeOK, QuietInv, ConfigOf
<1>1. CASE pc'[j] \in {pc[j], "dead"} /\ UNCHANGED <<dates, cfg, run, passVars>>
  BY <1>0, <1>1 DEF QuietPass, passVars
<1>2. CASE Start(j)
  BY <1>0, <1>2 DEF Start, TriggerJob, ScheduledJob, Capture, Goto
<1>3. CASE Step(j) /\ pc'[j] \notin {"judge", "delete", "done"}
  BY <1>3
<1>4. CASE Complete(j)
  BY <1>0, <1>4 DEF Complete, Goto, RetentionOn, fileVars, passVars
<1>5. CASE ListDates(j)
  BY <1>0, <1>5, WholeListing DEF ListDates, Goto, fileVars
<1>6. CASE Judge(j)
  <2>1. /\ listed[j] = dates /\ cfg' = cfg /\ dates' = dates /\ pc'[j] = "delete"
        /\ doomed'[j] = listed[j] \ KeepSet(listed[j], cfg[j].keepLast, cfg[j].keepDays, today, tick)
    BY <1>0, <1>6 DEF Judge, Goto, QuietPass, fileVars
  <2>2. KeepSet(dates, cfg[j].keepLast, 0, today, tick) = KeptByCount(dates, cfg[j].keepLast)
    BY DEF KeepSet, KeptByAge
  <2>3. dates' \ doomed'[j] = KeptByCount(dates, cfg[j].keepLast)
    BY <2>1, <2>2 DEF KeptByCount
  <2> QED BY <1>0, <2>1, <2>3, KeptFacts
<1>7. ASSUME NEW d \in Days, DeleteDate(j, d)
      PROVE  pc'[j] = "delete" /\ cfg' = cfg /\ Cardinality(dates' \ doomed'[j]) <= cfg[j].keepLast
  <2>1. /\ pc[j] = "delete" /\ pc' = pc /\ cfg' = cfg /\ d \in doomed[j]
        /\ dates' = dates \ {d} /\ doomed'[j] = doomed[j] \ {d}
    BY <1>0, <1>7 DEF DeleteDate, NextDoomed
  <2>2. dates' \ doomed'[j] = dates \ doomed[j]
    BY <2>1
  <2> QED BY <1>0, <2>1, <2>2 DEF QuietPass
<1>8. CASE RetentionDone(j)
  <2>1. dates \ doomed[j] = dates
    BY <1>8 DEF RetentionDone
  <2> QED BY <1>0, <1>8, <2>1 DEF RetentionDone, Goto, QuietPass, fileVars
<1>9. ASSUME Step(j), pc'[j] \in {"judge", "delete", "done"}
      PROVE  \/ Complete(j) \/ ListDates(j) \/ Judge(j) \/ RetentionDone(j)
             \/ \E d \in Days : DeleteDate(j, d)
  BY <1>0, <1>9 DEF Step, CreateJob, RejectJob, NameDump, DumpRefused, OpenDump,
     OpenDumpFails, DumpDone, DumpBreaks, ListBuckets, ListingFails, StorageDone,
     ListObjects, OpenObject, SkipObject, ObjectDone, ObjectBreaks,
     ListDatesFails, DeleteDateFails, Fail, Goto, AfterDump
<1> QED BY <1>0, <1>1, <1>2, <1>3, <1>4, <1>5, <1>6, <1>7, <1>8, <1>9, AloneMoves

(* A pass over a destination of its own, whose calls succeed and whose        *)
(* listing is not cut short, leaves at most keep_last dates (retention.Apply).*)
THEOREM KeepLastCorrect ==
  ASSUME "dest" \notin Faults, ListLimit > MaxDay
  PROVE  Spec => []KeepLastIsApplied
<1>1. QuietInv /\ TypeInv /\ TypeInv' /\ [Next]_vars => QuietInv'
  BY QuietStep DEF TypeInv
<1>2. QuietInv => KeepLastIsApplied
  BY DEF QuietInv, QuietPass, KeepLastIsApplied
<1> QED BY InitQuiet, TypeInvariant, <1>1, <1>2, PTL DEF Spec
=============================================================================
