------------------------------ MODULE BackupRun ------------------------------
(* Runner.Run and what it drives: the database dump, the storage copy, the    *)
(* job row and the retention pass.  Several runs (one goroutine each, started *)
(* by the API or by the cron) work on one destination at the same time; an    *)
(* action is one call a run makes to the source, the destination or the job   *)
(* table, so the runs interleave between any two calls.                       *)
EXTENDS BackupConfig, Retention

CONSTANTS
  Jobs,          \* the runs that may be started
  Configs,       \* the configurations the settings may hold
  Contents,      \* bucket -> the objects in it
  MaxDay,        \* bound: the last day of the clock
  MaxTick,       \* a day is the ticks 0..MaxTick; a tick is one second of it
  FirstDay,      \* the day the clock starts on
  OldDates,      \* dates earlier backups may have left in the destination
  AtomicWrite,   \* TRUE: s3 (one PutObject); FALSE: local and sftp
  ListLimit,     \* the most dates one List returns (s3: a single page)
  Faults,        \* what may go wrong: "source", "dest", "store", "crash"
  Floor, MinAge  \* lower bounds on keepLast, keepDays of every policy in use

Buckets == DOMAIN Contents
Objects == UNION {Contents[b] : b \in Buckets}
Days    == 0..MaxDay
Ticks   == 0..MaxTick

ASSUME ClockAssumption ==
  /\ MaxDay \in Nat /\ MaxTick \in Nat /\ FirstDay \in Days
  /\ OldDates \subseteq 0..FirstDay
ASSUME ConfigAssumption == Configs \subseteq ConfigOf(Buckets)
(* An object is its bucket and its path in it.                                *)
ASSUME ContentsAssumption ==
  \A b, c \in Buckets : b # c => Contents[b] \cap Contents[c] = {}
ASSUME PolicyAssumption ==
  /\ Floor \in Nat /\ MinAge \in Nat
  /\ \A c \in Configs :
       RetentionOn(c) => c.keepLast >= Floor /\ c.keepDays >= MinAge
ASSUME DestinationAssumption ==
  /\ AtomicWrite \in BOOLEAN
  /\ ListLimit \in Nat
  /\ Faults \subseteq {"source", "dest", "store", "crash"}

(* The keys of the destination: <<part, date, name>>.  A dump is named by the *)
(* second it was started in, an object by its path.                           *)
DumpKey(d, t)   == <<"database", d, t>>
ObjectKey(d, o) == <<"storage", d, o>>
Keys == {DumpKey(d, t) : d \in Days, t \in Ticks}
          \cup {ObjectKey(d, o) : d \in Days, o \in Objects}
DateOf(k) == k[2]

(* A file: the runs whose bytes it may hold, and those of them that wrote     *)
(* theirs to the end.                                                         *)
NoFile == [writers |-> {}, done |-> {}]
FileOf(j) == [writers |-> {j}, done |-> {j}]

NoRow == [type |-> "none", status |-> "none"]

NoConfig == [creds |-> FALSE, dbURL |-> FALSE, destOK |-> FALSE,
             incDb |-> FALSE, incSt |-> FALSE, buckets |-> {},
             keepLast |-> 0, keepDays |-> 0]
NoKey == <<"none", 0, 0>>

VARIABLES
  today, tick,   \* the UTC clock
  dates,         \* what List("") of the destination returns
  files,         \* key -> file
  rows,          \* job -> its row of the jobs table
  pc,            \* job -> the call it makes next
  cfg,           \* job -> the configuration it captured
  run,           \* job -> the locals of Run, DatabaseBackup.Run, StorageBackup.Run
  listed,        \* job -> the dates its retention pass listed
  doomed,        \* job -> the dates its retention pass has still to delete
  \* history, read by the properties only
  opened,        \* key -> the jobs that ever opened it for writing
  stored,        \* job -> the keys its Writes returned success for
  expired,       \* dates a retention pass deleted, whole or in part
  skipped        \* job -> objects its storage copy passed over

clockVars == <<today, tick>>
fileVars  == <<dates, files, opened, stored, expired>>
passVars  == <<listed, doomed>>
vars == <<clockVars, fileVars, rows, pc, cfg, run, passVars, skipped>>

(* The locals: the dump's key, the file being written, the storage copy's     *)
(* date prefix, the buckets and the objects still to copy, and runErr # nil.  *)
NoLocals == [dump |-> NoKey, cur |-> NoKey, day |-> 0,
             todo |-> {}, left |-> {}, failed |-> FALSE]

Init ==
  /\ today = FirstDay /\ tick = 0
  /\ dates \in SUBSET OldDates
  /\ files = [k \in Keys |-> NoFile]
  /\ rows = [j \in Jobs |-> NoRow]
  /\ pc = [j \in Jobs |-> "idle"]
  /\ cfg = [j \in Jobs |-> NoConfig]
  /\ run = [j \in Jobs |-> NoLocals]
  /\ listed = [j \in Jobs |-> {}]
  /\ doomed = [j \in Jobs |-> {}]
  /\ opened = [k \in Keys |-> {}]
  /\ stored = [j \in Jobs |-> {}]
  /\ expired = {}
  /\ skipped = [j \in Jobs |-> {}]

Goto(j, from, to) == pc[j] = from /\ pc' = [pc EXCEPT ![j] = to]

Over == {"done", "rejected", "dead"}
Active(j) == pc[j] \notin Over \cup {"idle"}

-------------------------------------------------------------------------------
(* Starting a run *)

Capture(j, c, type) ==
  /\ Goto(j, "idle", "queued")
  /\ cfg' = [cfg EXCEPT ![j] = ForType(c, type)]
  /\ UNCHANGED <<clockVars, fileVars, rows, run, passVars, skipped>>

(* POST /api/jobs: the configuration the settings hold now is captured and    *)
(* the answer is 202; Run goes on in its own goroutine.                       *)
TriggerJob(j, c, type) ==
  /\ IsConfigured(c)
  /\ Capture(j, c, type)

(* A cron entry fires: makeJob's closure, which does not ask IsConfigured.    *)
ScheduledJob(j, c, type) == Capture(j, c, type)

AfterDump(c) == IF c.incSt THEN "buckets" ELSE "complete"

(* Validate, then the job row.                                                *)
CreateJob(j) ==
  /\ Valid(cfg[j])
  /\ Goto(j, "queued", IF cfg[j].incDb THEN "dump" ELSE AfterDump(cfg[j]))
  /\ rows' = [rows EXCEPT ![j] = [type |-> JobType(cfg[j]), status |-> "running"]]
  /\ UNCHANGED <<clockVars, fileVars, cfg, run, passVars, skipped>>

(* Validate refuses, or the row cannot be inserted: Run returns before it has *)
(* left a trace.                                                              *)
RejectJob(j) ==
  /\ ~Valid(cfg[j]) \/ "store" \in Faults
  /\ Goto(j, "queued", "rejected")
  /\ UNCHANGED <<clockVars, fileVars, rows, cfg, run, passVars, skipped>>

-------------------------------------------------------------------------------
(* Writing to the destination *)

HasOpen(i, k) == pc[i] \in {"dumping", "copying"} /\ run[i].cur = k

(* MkdirAll and Create truncate what the key held; a run that still has the   *)
(* file open goes on writing into it.  s3 touches nothing before PutObject.   *)
OpenFile(j, k) ==
  /\ opened' = [opened EXCEPT ![k] = @ \cup {j}]
  /\ IF AtomicWrite THEN UNCHANGED <<files, dates>>
     ELSE /\ files' = [files EXCEPT ![k] =
                [writers |-> {j} \cup {i \in @.writers : HasOpen(i, k)},
                 done |-> {}]]
          /\ dates' = dates \cup {DateOf(k)}
  /\ UNCHANGED <<stored, expired>>

(* Write fails before or while it opens the file: the date directory may have *)
(* been made.                                                                 *)
OpenFails(k) ==
  /\ \/ dates' = dates
     \/ ~AtomicWrite /\ "dest" \in Faults /\ dates' = dates \cup {DateOf(k)}
  /\ UNCHANGED <<files, opened, stored, expired>>

(* Mutant of CloseFile: the key lacks its date prefix.                        *)
CloseFileUndated(j, k) ==
  /\ files' = [files EXCEPT ![k] = FileOf(j)]
  /\ stored' = [stored EXCEPT ![j] = @ \cup {k}]
  /\ UNCHANGED <<dates, opened, expired>>

(* Write returns success.                                                     *)
CloseFile(j, k) ==
  /\ IF AtomicWrite
       THEN /\ files' = [files EXCEPT ![k] = FileOf(j)]
            /\ dates' = dates \cup {DateOf(k)}
       ELSE /\ files' = [files EXCEPT ![k].done = @ \cup ({j} \cap files[k].writers)]
            /\ UNCHANGED dates
  /\ stored' = [stored EXCEPT ![j] = @ \cup {k}]
  /\ UNCHANGED <<opened, expired>>

(* Write fails half way: what there is stays where it is; s3 has nothing yet, *)
(* or has the object, when only the answer is lost.                           *)
BreakFile(j, k) ==
  \/ UNCHANGED fileVars
  \/ /\ AtomicWrite /\ "dest" \in Faults
     /\ files' = [files EXCEPT ![k] = FileOf(j)]
     /\ dates' = dates \cup {DateOf(k)}
     /\ UNCHANGED <<opened, stored, expired>>

Unreliable == {"source", "dest"} \cap Faults # {}

-------------------------------------------------------------------------------
(* DatabaseBackup.Run *)

(* Mutant of Fail: runErr is shadowed.                                        *)
FailUnseen(j, from) ==
  /\ Goto(j, from, "complete")
  /\ run' = [run EXCEPT ![j].cur = NoKey]
  /\ UNCHANGED <<clockVars, rows, cfg, passVars, skipped>>

Fail(j, from) ==
  /\ Goto(j, from, "complete")
  /\ run' = [run EXCEPT ![j].failed = TRUE, ![j].cur = NoKey]
  /\ UNCHANGED <<clockVars, rows, cfg, passVars, skipped>>

(* Mutant of NameDump: local time, ahead of UTC.                              *)
NameDumpLocalTime(j) ==
  /\ Goto(j, "dump", "connect")
  /\ run' = [run EXCEPT ![j].dump = DumpKey(today + 1, tick)]
  /\ UNCHANGED <<clockVars, fileVars, rows, cfg, passVars, skipped>>

(* The key is named before the host is probed, the file opened after it.  The *)
(* code reads the clock for the date and again for the name: one reading here.*)
NameDump(j) ==
  /\ Goto(j, "dump", "connect")
  /\ run' = [run EXCEPT ![j].dump = DumpKey(today, tick)]
  /\ UNCHANGED <<clockVars, fileVars, rows, cfg, passVars, skipped>>

(* pg_dump is missing, or checkIPv4Reachable fails.                           *)
DumpRefused(j) ==
  /\ "source" \in Faults
  /\ Fail(j, "dump") \/ Fail(j, "connect")
  /\ UNCHANGED fileVars

OpenDump(j) ==
  /\ Goto(j, "connect", "dumping")
  /\ run' = [run EXCEPT ![j].cur = run[j].dump]
  /\ OpenFile(j, run[j].dump)
  /\ UNCHANGED <<clockVars, rows, cfg, passVars, skipped>>

OpenDumpFails(j) ==
  /\ "dest" \in Faults
  /\ Fail(j, "connect")
  /\ OpenFails(run[j].dump)

(* pg_dump exits 0 and its last byte is written.                              *)
DumpDone(j) ==
  /\ Goto(j, "dumping", AfterDump(cfg[j]))
  /\ CloseFile(j, run[j].cur)
  /\ run' = [run EXCEPT ![j].cur = NoKey]
  /\ UNCHANGED <<clockVars, rows, cfg, passVars, skipped>>

(* Mutant of DumpBreaks: the pipe is closed without pg_dump's error.          *)
DumpBreaksUnnoticed(j) ==
  /\ Unreliable
  /\ Goto(j, "dumping", AfterDump(cfg[j]))
  /\ stored' = [stored EXCEPT ![j] = @ \cup {run[j].cur}]
  /\ run' = [run EXCEPT ![j].cur = NoKey]
  /\ UNCHANGED <<clockVars, files, dates, opened, expired, rows, cfg, passVars, skipped>>

(* pg_dump or the write fails half way.                                       *)
DumpBreaks(j) ==
  /\ Unreliable
  /\ Fail(j, "dumping")
  /\ BreakFile(j, run[j].cur)

-------------------------------------------------------------------------------
(* StorageBackup.Run *)

(* The buckets are listed, and the date prefix of every copy is read.         *)
ListBuckets(j) ==
  /\ Goto(j, "buckets", "storage")
  /\ run' = [run EXCEPT ![j].day = today, ![j].todo = Selected(cfg[j], Buckets)]
  /\ UNCHANGED <<clockVars, fileVars, rows, cfg, passVars, skipped>>

(* The bucket rests, so each object is listed once; StorageListing has one that*)
(* changes.                                                                   *)
ListObjects(j, b) ==
  /\ pc[j] = "storage" /\ run[j].left = {} /\ b \in run[j].todo
  /\ run' = [run EXCEPT ![j].todo = @ \ {b}, ![j].left = Contents[b]]
  /\ UNCHANGED <<clockVars, fileVars, rows, pc, cfg, passVars, skipped>>

(* listBuckets or listObjects fails: the storage part fails.                  *)
ListingFails(j) ==
  /\ "source" \in Faults
  /\ \/ Fail(j, "buckets")
     \/ run[j].left = {} /\ run[j].todo # {} /\ Fail(j, "storage")
  /\ UNCHANGED fileVars

OpenObject(j, o) ==
  /\ o \in run[j].left
  /\ Goto(j, "storage", "copying")
  /\ run' = [run EXCEPT ![j].cur = ObjectKey(run[j].day, o), ![j].left = @ \ {o}]
  /\ OpenFile(j, ObjectKey(run[j].day, o))
  /\ UNCHANGED <<clockVars, rows, cfg, passVars, skipped>>

(* The download or the write fails before a byte is written: the object is    *)
(* passed over with a warning.                                                *)
SkipObject(j, o) ==
  /\ Unreliable
  /\ pc[j] = "storage" /\ o \in run[j].left
  /\ run' = [run EXCEPT ![j].left = @ \ {o}]
  /\ skipped' = [skipped EXCEPT ![j] = @ \cup {o}]
  /\ OpenFails(ObjectKey(run[j].day, o))
  /\ UNCHANGED <<clockVars, rows, pc, cfg, passVars>>

ObjectDone(j) ==
  /\ Goto(j, "copying", "storage")
  /\ CloseFile(j, run[j].cur)
  /\ run' = [run EXCEPT ![j].cur = NoKey]
  /\ UNCHANGED <<clockVars, rows, cfg, passVars, skipped>>

(* Mutant of ObjectBreaks: the object is tried again, without a limit.        *)
ObjectBreaksRetried(j) ==
  /\ Unreliable
  /\ Goto(j, "copying", "storage")
  /\ run' = [run EXCEPT ![j].cur = NoKey, ![j].left = @ \cup {run[j].cur[3]}]
  /\ UNCHANGED <<clockVars, fileVars, rows, cfg, passVars, skipped>>

(* It fails half way: passed over as well.                                    *)
ObjectBreaks(j) ==
  /\ Unreliable
  /\ Goto(j, "copying", "storage")
  /\ BreakFile(j, run[j].cur)
  /\ skipped' = [skipped EXCEPT ![j] = @ \cup {run[j].cur[3]}]
  /\ run' = [run EXCEPT ![j].cur = NoKey]
  /\ UNCHANGED <<clockVars, rows, cfg, passVars>>

StorageDone(j) ==
  /\ run[j].left = {} /\ run[j].todo = {}
  /\ Goto(j, "storage", "complete")
  /\ UNCHANGED <<clockVars, fileVars, rows, cfg, run, passVars, skipped>>

-------------------------------------------------------------------------------
(* The job row and the retention pass *)

(* Mutant of Complete: a failed run returns before CompleteJob.               *)
CompleteSuccessOnly(j) ==
  /\ LET ok == ~run[j].failed
     IN /\ Goto(j, "complete", IF ok /\ RetentionOn(cfg[j]) THEN "retain" ELSE "done")
        /\ rows' = IF ok THEN [rows EXCEPT ![j].status = "success"] ELSE rows
  /\ UNCHANGED <<clockVars, fileVars, cfg, run, passVars, skipped>>

(* CompleteJob; when the update fails the row stays as it is and the run goes *)
(* on.  Only a run without an error applies its retention policy.             *)
Complete(j) ==
  /\ LET ok == ~run[j].failed
     IN /\ Goto(j, "complete", IF ok /\ RetentionOn(cfg[j]) THEN "retain" ELSE "done")
        /\ \/ rows' = [rows EXCEPT ![j].status = IF ok THEN "success" ELSE "failed"]
           \/ "store" \in Faults /\ UNCHANGED rows
  /\ UNCHANGED <<clockVars, fileVars, cfg, run, passVars, skipped>>

(* dest.List(""): at most one page, in key order, so the oldest dates.        *)
Listing(ds) == {d \in ds : Cardinality({e \in ds : e < d}) < ListLimit}

ListDates(j) ==
  /\ Goto(j, "retain", "judge")
  /\ listed' = [listed EXCEPT ![j] = Listing(dates)]
  /\ UNCHANGED <<clockVars, fileVars, rows, cfg, run, doomed, skipped>>

ListDatesFails(j) ==
  /\ "dest" \in Faults
  /\ Goto(j, "retain", "done")
  /\ UNCHANGED <<clockVars, fileVars, rows, cfg, run, passVars, skipped>>

(* What the policy the run captured does not keep of what it listed.          *)
Judge(j) ==
  /\ Goto(j, "judge", "delete")
  /\ doomed' = [doomed EXCEPT ![j] =
       listed[j] \ KeepSet(listed[j], cfg[j].keepLast, cfg[j].keepDays, today, tick)]
  /\ listed' = [listed EXCEPT ![j] = {}]
  /\ UNCHANGED <<clockVars, fileVars, rows, cfg, run, skipped>>

(* The dates go newest first.                                                 *)
NextDoomed(j, d) ==
  /\ pc[j] = "delete" /\ d \in doomed[j]
  /\ \A e \in doomed[j] : e <= d
  /\ doomed' = [doomed EXCEPT ![j] = @ \ {d}]
  /\ expired' = expired \cup {d}
  /\ UNCHANGED <<clockVars, opened, stored, rows, pc, cfg, run, listed,
                 skipped>>

(* Mutant of DeleteDate: only the dumps of the date are deleted.              *)
DeleteDateDumps(j, d) ==
  /\ NextDoomed(j, d)
  /\ files' = [k \in Keys |-> IF DateOf(k) = d /\ k[1] = "database" THEN NoFile ELSE files[k]]
  /\ UNCHANGED dates

DeleteDate(j, d) ==
  /\ NextDoomed(j, d)
  /\ dates' = dates \ {d}
  /\ files' = [k \in Keys |-> IF DateOf(k) = d THEN NoFile ELSE files[k]]

(* The delete fails, or quietly leaves keys behind: any part of the date may  *)
(* be gone, and it is still listed.                                           *)
DeleteDateFails(j, d) ==
  /\ "dest" \in Faults
  /\ NextDoomed(j, d)
  /\ \E gone \in SUBSET {k \in Keys : DateOf(k) = d /\ files[k] # NoFile} :
       files' = [k \in Keys |-> IF k \in gone THEN NoFile ELSE files[k]]
  /\ UNCHANGED dates

RetentionDone(j) ==
  /\ doomed[j] = {}
  /\ Goto(j, "delete", "done")
  /\ UNCHANGED <<clockVars, fileVars, rows, cfg, run, passVars, skipped>>

-------------------------------------------------------------------------------
(* The environment *)

(* The clock moves on a tick; bound: it stops at the end of MaxDay.           *)
Tick ==
  /\ \/ tick < MaxTick /\ tick' = tick + 1 /\ today' = today
     \/ tick = MaxTick /\ today < MaxDay /\ tick' = 0 /\ today' = today + 1
  /\ UNCHANGED <<fileVars, rows, pc, cfg, run, passVars, skipped>>

(* The process dies and is started again: the goroutines are gone, what they  *)
(* wrote is not.  A SIGTERM is the same: main does not wait for the runs.     *)
Crash ==
  /\ "crash" \in Faults
  /\ \E j \in Jobs : Active(j)
  /\ pc' = [j \in Jobs |-> IF Active(j) THEN "dead" ELSE pc[j]]
  /\ UNCHANGED <<clockVars, fileVars, rows, cfg, run, passVars, skipped>>

(* Every run is over and the clock has reached its bound.                     *)
Terminated ==
  /\ \A j \in Jobs : pc[j] \in Over
  /\ today = MaxDay /\ tick = MaxTick
  /\ UNCHANGED vars

Start(j) ==
  \E c \in Configs, type \in JobTypes : TriggerJob(j, c, type) \/ ScheduledJob(j, c, type)

Step(j) ==
  \/ CreateJob(j) \/ RejectJob(j)
  \/ NameDump(j) \/ DumpRefused(j) \/ OpenDump(j) \/ OpenDumpFails(j)
  \/ DumpDone(j) \/ DumpBreaks(j)
  \/ ListBuckets(j) \/ ListingFails(j) \/ StorageDone(j)
  \/ \E b \in Buckets : ListObjects(j, b)
  \/ \E o \in Objects : OpenObject(j, o) \/ SkipObject(j, o)
  \/ ObjectDone(j) \/ ObjectBreaks(j)
  \/ Complete(j) \/ ListDates(j) \/ ListDatesFails(j) \/ Judge(j) \/ RetentionDone(j)
  \/ \E d \in Days : DeleteDate(j, d) \/ DeleteDateFails(j, d)

Next ==
  \/ \E j \in Jobs : Start(j) \/ Step(j)
  \/ Tick \/ Crash \/ Terminated

Spec == Init /\ [][Next]_vars

(* A run's goroutine goes on: every call it makes returns, well or badly.     *)
FairSpec == Spec /\ \A j \in Jobs : WF_vars(Step(j))

-------------------------------------------------------------------------------
(* Properties *)

PCs == {"idle", "queued", "dump", "connect", "dumping", "buckets", "storage",
        "copying", "complete", "retain", "judge", "delete"} \cup Over
Rows == [type : JobTypes, status : {"running", "success", "failed"}] \cup {NoRow}
Files == [writers : SUBSET Jobs, done : SUBSET Jobs]
Locals == [dump : Keys \cup {NoKey}, cur : Keys \cup {NoKey}, day : Days,
           todo : SUBSET Buckets, left : SUBSET Objects, failed : BOOLEAN]

(* Every variable stays in its type: the shape of the state the actions of    *)
(* Runner.Run and its callees may build.                                      *)
TypeOK ==
  /\ today \in Days /\ tick \in Ticks
  /\ dates \in SUBSET Days
  /\ files \in [Keys -> Files]
  /\ rows \in [Jobs -> Rows]
  /\ pc \in [Jobs -> PCs]
  /\ cfg \in [Jobs -> ConfigOf(Buckets)]
  /\ run \in [Jobs -> Locals]
  /\ listed \in [Jobs -> SUBSET Days]
  /\ doomed \in [Jobs -> SUBSET Days]
  /\ opened \in [Keys -> SUBSET Jobs]
  /\ stored \in [Jobs -> SUBSET Keys]
  /\ expired \in SUBSET Days
  /\ skipped \in [Jobs -> SUBSET Objects]

Promise == INSTANCE RetainedDates WITH
  dates <- dates, today <- today, tick <- tick,
  MaxDay <- MaxDay, Floor <- Floor, MinAge <- MinAge

(* A date a retention pass is about to delete has, at that moment, at least   *)
(* Floor newer dates in the destination and is older than MinAge days,        *)
(* although the pass judged it on a listing other runs have since deleted     *)
(* from and stored to (retention.Apply: List, buildKeepSet, then Delete).     *)
DoomedOutOfPolicy ==
  \A j \in Jobs : \A d \in doomed[j] : Promise!Settled(d) /\ Promise!Aged(d)

(* The destination's dates behave as the policy promises: RetainedDates is    *)
(* implemented by all the runs together.                                      *)
RetentionPromise == Promise!Spec

(* Every file lies under a date that List returns: nothing a run wrote can    *)
(* escape retention, whatever deletes and writes interleave.                  *)
DatesCoverFiles == \A k \in Keys : files[k] # NoFile => DateOf(k) \in dates

Whole(k) == \E j \in Jobs : files[k] = FileOf(j)

(* What a Write reported as stored stays one run's whole file until retention *)
(* deletes from its date.  On local and sftp a second run that opens the same *)
(* key takes the guarantee away (Create truncates); on s3 nothing does.       *)
StoredStaysWhole ==
  \A j \in Jobs : \A k \in stored[j] :
    \/ Whole(k)
    \/ DateOf(k) \in expired
    \/ ~AtomicWrite /\ Cardinality(opened[k]) > 1

(* A run that is marked a success, or that applies its retention policy, has  *)
(* stored its dump and every object it listed and did not pass over.          *)
Earned(j) ==
  /\ cfg[j].incDb => run[j].dump \in stored[j]
  /\ cfg[j].incSt =>
       \A b \in Selected(cfg[j], Buckets) : \A o \in Contents[b] \ skipped[j] :
         ObjectKey(run[j].day, o) \in stored[j]

SuccessIsEarned ==
  \A j \in Jobs :
    rows[j].status = "success" \/ pc[j] \in {"retain", "judge", "delete"} => Earned(j)

Alone(j) == \A i \in Jobs \ {j} : pc[i] = "idle"

(* Once a run that has had the destination to itself has ended well,          *)
(* keep_last has been applied: no more than keepLast dates are left, the      *)
(* run's own ones counted (retention.Apply, from List to the last Delete).    *)
KeepLastIsApplied ==
  \A j \in Jobs :
    pc[j] = "done" /\ ~run[j].failed /\ cfg[j].keepLast > 0 /\ cfg[j].keepDays = 0 /\ Alone(j)
      => Cardinality(dates) <= cfg[j].keepLast

(* Every run that is started comes to an end, even one whose calls fail.      *)
EveryRunEnds == \A j \in Jobs : pc[j] = "queued" ~> pc[j] \in Over

(* A run that has its row finishes it, as a success or a failure, unless the  *)
(* process dies or the update itself fails.                                   *)
RowsAreClosed ==
  \A j \in Jobs : rows[j].status = "running" ~> rows[j].status \in {"success", "failed"}

(* A date the policy has dropped does go away when the deletes succeed.       *)
DoomedGoAway ==
  \A j \in Jobs : \A d \in Days : d \in doomed[j] ~> d \notin dates

(* What the documentation says and the code does not do. *)

Succeeded(j) == pc[j] = "done" /\ rows[j].status = "success"

(* config.go:47, "keep N most recent backups", and the README's "Multiple     *)
(* schedules can coexist": a run that has just succeeded has its own dump in  *)
(* the destination.                                                           *)
DumpIsKept ==
  \A j \in Jobs : Succeeded(j) /\ cfg[j].incDb => files[run[j].dump] = FileOf(j)
=============================================================================
