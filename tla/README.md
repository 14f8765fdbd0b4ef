# supaback in TLA+

supaback is a self-hosted backup service for Supabase: a Go process with an HTTP
API, a cron, a SQLite store and a destination (local directory, S3, SFTP) under
which it keeps one directory per date. This directory holds TLA+ modules of its
core, TLC configurations that check them, and proofs for TLAPS.

## The system

| part | state it keeps | operations | talks to |
|---|---|---|---|
| `internal/backup` runner | the run's locals | `Run`: validate, job row, dump, storage copy, complete, retention | store, dump, copy, retention |
| `internal/backup` database | two pipes, two goroutines, `pg_dump` | `Run` | destination `Write` |
| `internal/backup` storage | list of objects to copy | `Run`, `listBuckets`, `listObjects`, `downloadObject` | Supabase over HTTP, destination `Write` |
| `internal/retention` | none between calls | `Apply`, `buildKeepSet` | destination `List`, `Delete` |
| `internal/destination` | the files; an SFTP client | `Write`, `List`, `Delete`, `ListFiles`, `Read` | disk, S3, SSH |
| `internal/scheduler` | `entries` map, the cron | `LoadAndStart`, `Add`, `Remove`, `SetEnabled` | store, live state, runner |
| `internal/store` | tables jobs, schedules, settings | CRUD, one statement or transaction each | SQLite |
| `internal/appstate` | live configuration and destination | `Get`, `Update` | |
| `internal/config` | none | `Load`, `MergeFromMap`, `EnvOverrides`, `Validate`, `ForType` | file, environment |
| `internal/api` | none | the handlers | all of the above |
| `cmd/supaback` | none | start, stop | all of the above |
| `apps/web` | none of the system's | renders the API | the API |

Every run is a goroutine of its own, started by `POST /api/jobs` or by a cron
entry. Nothing keeps two runs apart: they share the destination, and each ends
with its own retention pass over it. Every HTTP request is a goroutine too; the
scheduler's mutex, the store's statements and `appstate`'s lock make their single
calls atomic, and nothing makes a handler's sequence of calls atomic. A stop of
the process waits for neither. That is where the hard behaviour comes from:

* **runs against runs**: a pass deletes on a listing that is out of date, or from a
  date another run is writing to; two runs name the same key; midnight passes.
* **requests against requests**: table, `entries` and cron are updated by two or
  three calls; a PUT of settings reads, merges and writes back.
* **calls against calls**: two passes walk the same date to delete it, a download
  reads what they delete, all SFTP operations share one connection, and whoever finds
  it lost closes it for all.
* **inside a call**: a dump is a process, two goroutines and `Write` joined by pipes that
  hold nothing, with an error passed on through an unlocked variable; a bucket is listed
  by offset while it changes.
* **failure in between**: every call may fail, and the process may die between any
  two.

What makes each part correct: the runner marks a success, and prunes, only after
it stored what it should; retention never leaves less than the policy keeps, and
does reach every date; a dump is whole when it is reported, and leaves no process behind;
a listing misses nothing that was left alone; the destination keeps what `Write` reported,
has got rid of what `Delete` reported, and gives a reader whole files; the scheduler
fires exactly the enabled schedules; what was saved in the settings is live and
survives a restart. `PROJECT.json` lists the hazards line by line and the
properties that watch each of them.

## The modules

| module | models | how it corresponds to the code |
|---|---|---|
| `BackupConfig` | `config.Config` as a run sees it | `ForType`, `IsConfigured`, `Valid`, `JobType` are the functions of those names; credentials and URLs are booleans |
| `Retention` | `buildKeepSet` | the policy as sets of dates; a date is a day number |
| `RetentionLoop` | `Apply`, `buildKeepSet` | the loops, one iteration a step, checked against `Retention` |
| `RetainedDates` | the promise of the policy | the abstract specification: dates are stored, expire when the policy lets them, time passes |
| `BackupRun` | `Runner.Run` and all it calls | one action per call a run makes to the source, the destination or the job table; `Jobs` interleave |
| `Schedules` | `scheduler.go`, `store/schedules.go`, the handlers | one action per call a handler makes; `cron` is the cron library as the scheduler uses it |
| `Settings` | `MergeFromMap`, `UpdateSettings`, the start in `main` | the table and the requests hold texts, the configuration what `MergeFromMap` reads in them (`Reading`): a text, or for a boolean or a number what parses; which keys may be emptied, which the environment sets, which selects the destination |
| `DumpCall` | `DatabaseBackup.Run` as its caller sees it | the abstract specification of one dump: a file grows, a result is returned |
| `DumpPipeline` | `DatabaseBackup.Run` from `io.Pipe` on | one action per step of `pg_dump`, of the goroutine in `cmd.Run`, of the gzip goroutine and of `Write`; the dump is a number of buffers |
| `StorageListing` | `listObjects` | the recursion is a stack of calls; the list endpoint cuts a folder's entries by offset; users upload and remove in between |
| `SftpClient` | `client()`, `connect()` | the mutex, the ping, the dial and the swap, one action each; an operation then works without the mutex |
| `DestinationCalls` | `Write`, `Delete`, `ListFiles`, `Read` of all three destinations; `ListBackups`, `DownloadBackupDate`, `DownloadBackup` | one date, one action per call to the file system, the SFTP server or S3; a version outlives its name while it is open |
| `MCBackupRun`, `MCSchedules`, `MCSettings`, `MCStorageListing`, `MCDestinationCalls` | | the values TLC gives to the constants |
| `BackupRunProofs`, `RetentionLoopProofs`, `SchedulesProofs`, `SettingsProofs`, `StorageListingProofs`, `SftpClientProofs`, `DumpPipelineProofs`, `DestinationCallsProofs` | | the theorems about the module each is named after |

`BackupRun` composes `BackupConfig` and `Retention`, and implements
`RetainedDates` (its `Promise`). `RetentionLoop` ties `Retention` to the loops.
`BackupRun` has one step where the code has a call of some size; the other modules take
those calls apart and show what the step may assume. `OpenDump`, `DumpDone` and
`DumpBreaks` are the steps of `DumpCall`, which `DumpPipeline` implements (its `Call`).
`ListObjects` is `StorageListing` on a bucket that rests. `DeleteDate` is a `Delete` of
`DestinationCalls` that succeeds, `DeleteDateFails` one that does not, and any operation
that `SftpClient` cuts off is a failing one in both.

In `BackupRun`, a **key** is a triple of part, date and name: a dump's name is the
second it was started in, an object's name is its bucket and path. A **file** is
the set of runs whose bytes it may hold and the set of those that finished: that
tells a whole file from a partial one and from one two runs wrote through each
other. `AtomicWrite` chooses the destination: local and SFTP truncate when they
open and fill as they go, S3 replaces the object in one `PutObject`. `dates` is
what `List("")` would return; a failed `Write` can add a date without a file, and
a failed `Delete` can remove files without the date. `Listing` cuts a listing to
`ListLimit` dates, as S3's single page does. The clock has days and a few ticks a
day; a tick stands for one second in the dump's name and for the time of day in
the retention cutoff. `opened`, `stored`, `expired` and `skipped` are history, read
by the properties only; so are `suspect` in `Schedules` and `SftpClient`, `doubt` in
`Settings`, `early` in `DumpPipeline`, `calm` and `denied` in `DestinationCalls`, and `kept` and
`vanished` in `StorageListing`.

In `DumpPipeline` an `io.Pipe` is a flag: a write returns when its bytes have been read,
so the writer takes its next step only when the pipe is empty. The gzip writer may keep
any number of buffers to itself, and `gz.Close` writes what is left and one buffer more, the
trailer. In `SftpClient` the connections are numbered as they are made. In
`DestinationCalls` a directory is walked over the entries it had when it was read, as
`os.ReadDir` and SFTP's `ReadDir` do; `kind` is chosen at the start.

A definition whose comment begins with *Mutant of* is a plausible wrong variant of
the definition after it. It is part of no specification: put in the place of that
definition it must violate a property, which shows that the property is about
the code (`PROJECT.json`, "mutants").

## What TLC checks

| run | instance | shows |
|---|---|---|
| `BackupLocal` | 2 runs, truncating writes, 1 object, 2 days, every fault | `StoredStaysWhole`, `DatesCoverFiles`, `SuccessIsEarned`, `TypeOK` |
| `BackupRetention` | 3 runs, keep_last 1 or 2 and keep_days 1, 4 dates of which a List returns 3, failing S3 calls | `DoomedOutOfPolicy`, `RetentionPromise` |
| `BackupFair` | 2 runs, atomic writes, failing source, midnight in between, fairness | `EveryRunEnds`, `RowsAreClosed`, `DoomedGoAway`, `StoredStaysWhole`, `KeepLastIsApplied` |
| `RetentionLoop` | listings of up to 5 dates, both rules up to 3 | `LoopLeavesKeepSet`, `CutShortIsSafe` |
| `Schedules` | 4 requests, 2 schedules, 1 restart, store failures | `CronMatchesEntries`, `InSync`, `TypeOK` |
| `Settings` | 3 PUTs, 4 keys, one of them a number, 2 texts (one does not parse) and the empty one, 1 restart, failures | `SavedIsLoaded`, `SavedIsLive`, `FailedSwapKeepsDest`, `TypeOK` |
| `DumpPipeline` | 4 buffers, compressed or not, onto any destination, every failure | `StoredIsWhole`, `CmdErrIsSettled`, `CallIsImplemented`, `RunReturns`, `NothingLeftBehind`, `TypeOK` |
| `StorageListing` | every subset of 7 paths, folders three deep, pages of 2, one upload, one removal | `MissedHasCause`, `NothingTwice`, `ListingEnds`, `TypeOK` |
| `SftpClient` | 3 goroutines, 4 troubles | `OneOpenConnection`, `CutOnlyOnSuspicion`, `ClientReturns`, `Heals`, `TypeOK` |
| `DestinationCalls` | 1 writer, 2 deletes, 1 reader over a dump and an object, pages of 1, one failing call, all destinations | `DeleteIsTrue`, `OnePassFinishes`, `UntouchedIsRead`, `TornHasCause`, `TypeOK` |

What the new kinds of property say: `NothingLeftBehind` holds unless `Write` gave up before
its reader ended (then both goroutines and `pg_dump` stay, which is what the code does);
`MissedHasCause` says that an object is missed only because an entry before it went away;
`CutOnlyOnSuspicion` that a reconnect never closes a connection no ping has failed on,
however many found the old one lost; `OnePassFinishes` that two passes on one date cannot
both be stopped by each other's work. `DeleteIsTrue` says that a delete that reports success
has left nothing that was there when it began and has not been written since, but the keys S3
answered it could not delete (`denied`), which the code does not look at. `UntouchedIsRead` says
that a reader none of whose own calls fails gets every file that rested while it read; on
local it allows the whole listing to fail while a delete of the date is under way. `SavedIsLive`
says that a PUT that met no other and is answered saved has made live what `MergeFromMap` reads in
the texts it sent, which for one that does not parse is false or 0.

Bounds. Two runs are enough for every conflict over one file or one listing;
retention is checked with three, so that one pass can judge while a second deletes
and a third stores, and with four dates, so that a List that is cut differs from one that is
not. Crashes are in `BackupLocal` and in the theorem: a pass that dies deletes less. Policies there
share the lower bounds `Floor` and `MinAge`; configurations with different numbers
run at the same time. Four requests on one schedule (a create and three others)
cover every pair of handlers with a third in between. Three PUTs allow one that
overlaps nothing after two that raced. Four buffers let every goroutine of a dump hold one,
with one more to come; the theorems have any number. Pages of two over four entries in the
root give a first, a middle and an empty page, inside a folder as well. Three goroutines
on an SFTP client are one that reconnects, one that waits and one that is cut off. Two
files in two directories are enough for a walk to lose a file, a directory, or the one after. Symmetry is used in runs without temporal
properties over fairness, on interchangeable runs and requests only.
`Schedules` and `Settings` stop when their requests are used up, and a dump stops when it
has returned, or is stuck for ever after an early failure of `Write`, so their deadlock
check is off; `BackupRun`, `DestinationCalls` and `StorageListing` say when they are over
and check deadlock.

Fairness. `FairSpec` asks weak fairness of each run's step: a goroutine is
scheduled, and every call it makes returns, well or badly. The HTTP client of the
storage copy has a timeout; for `pg_dump`, S3 and SFTP calls the return is an
assumption, since the code sets no deadline. Nothing is asked of the clock, of
crashes, of starts, or of a choice between success and failure. `DumpPipeline` asks the
same of each goroutine and of `pg_dump`, which goes on while its output is taken;
`StorageListing` of the listing, not of the bucket's users. `SftpClient` asks it of
`client()` and of the operations (that a `Stat` on a silent connection returns is an
assumption: it has no deadline), and strong fairness of `Lock`, because Go's mutex hands
itself to a waiter after a millisecond. `Heals` rests on the bound on troubles: in the end
there are no more.

### What the code does otherwise than it says

Two runs end in a violation, each of a sentence of the documentation:

* `FindSameSecond` (`DumpIsKept`): two schedules due in the same second share a
  dump key; on local and SFTP one successful run's dump is overwritten.
* `FindGhost` (`DeletedIsGone`): a create that a delete overlaps. The row is inserted
  (handlers.go:224), the delete finds no entry to remove (244), the create registers one (230),
  the delete removes the row (245): the entry fires on, out of reach of the UI. A toggle can do
  the same (267-276), in a longer trace than the one TLC shows.

Further differences are plain from the code and are modelled as they are; the properties
leave room for them. keep_days deletes up to a day early, because the cutoff keeps the time
of day (README.md:149). A storage backup while include_storage is off does nothing, is
recorded as a success and prunes (config.go:25). The environment undoes a saved setting
at the next start (README.md:181; the comment at main.go:52 says so itself). A job row may
stay `running` for ever after a crash. A failing `Write` to local or SFTP leaves `pg_dump`
and two goroutines behind. An accepted `POST /api/jobs` may leave no row. A delete on S3
reports success with the keys that S3 refused still there (s3.go:178; destination.go:25 says it
removes everything). A number or a boolean that does not parse is answered saved and goes live
as 0 or false (settings.go:98-131). A setting that the UI empties keeps its value, in the table
and live (store/settings.go:52). PUTs that overlap may lose one another's values, and a delete
or an undo of a create whose row cannot be removed leaves row and entry apart until a restart.
The hazards in `PROJECT.json` name the lines; the ones that list no property are of this
kind: what a property would say does not hold of the code, and the model shows what it does.

## What is proved

For all values of the constants, under the named assumptions the modules state:

* `BackupRunProofs!TypeCorrect`. `TypeOK` is not inductive: that a file is closed
  under a key it was opened with needs that the cursor of a run in `dumping` or
  `copying` is a key (`CursorOK`), and completing a row needs that it was made
  (`RowMade`). `TypeInv` adds both.
* `BackupRunProofs!DoomedCorrect`, `BackupRunProofs!RetentionCorrect`. The argument: a date
  is *settled* when the destination has at least `Floor` newer ones. The key lemma,
  `SettledStays`, is that removing a settled date leaves every other settled date
  settled: a date at or below `d` takes nothing newer than `d` away, and above a
  settled date that is newer than `d` there are `Floor` dates, all newer than `d`
  too. So neither the order of the deletes nor how the passes interleave matters,
  and storing never unsettles. The inductive `PassInv` says that
  the policy a run captured is within the bounds (`PolicyKept`), that a date with
  `Floor` newer ones in a listing is settled in the destination (`ListedSettled`),
  that what a run is writing is not of the future (`CursorPast`), and
  `DoomedOutOfPolicy`. Every step then maps to a step of `RetainedDates` or a stutter.
* `BackupRunProofs!CoverCorrect`. `DatesCoverFiles` is inductive over `TypeInv`; the step that matters
  is closing a file retention has deleted meanwhile, which must not bring it back.
* `BackupRunProofs!SuccessCorrect`. `SuccessIsEarned` speaks of a run that has ended; the
  inductive `SoundInv` says it on the way there: once past the dump, the dump is stored
  (`DumpStored`), and each object of a bucket the copy has listed is still to do, under way,
  passed over or stored (`CopyAccounted`). When nothing is to do or under way, that is `Earned`.
  A run that fails carries its error to `Complete`, and a step of one run changes none of this
  for another (`OthersUnmoved`).
* `BackupRunProofs!StoredCorrect`. Two invariants. `WriteInv`: a file whose key only one run has
  opened holds that run's bytes alone, and is finished once the run has reported it stored; a
  key that several have opened is left to the property's last clause. `PlanInv`: a run opens a
  key only once, because what it has still to copy are keys it has not opened. Without it
  a run could truncate its own stored file and nothing would be counted.
* `BackupRunProofs!KeepLastCorrect`. Two hypotheses, both needed: the destination's calls succeed
  (`"dest" \notin Faults`) and a listing is never cut (`ListLimit > MaxDay`). The inductive
  `QuietInv` follows a run that is alone from its `List` to its last `Delete`: what is there is
  what it keeps or has still to delete. That what it keeps is at most `keepLast` dates
  (`KeptFacts`) is a counting argument over the oldest date kept.
* `RetentionLoopProofs!LoopCorrect`, `CutShortCorrect`. The loop invariant `LoopInv` says for each of the
  three loops what has been decided about the dates before the index. A date at index `n` of a
  listing sorted newest first has exactly `n` newer ones, which ties the loops to the sets.
* `SchedulesProofs!TypeCorrect`, `SchedulesProofs!CronCorrect`. `CronMatchesEntries` would
  break if `register` failed for a schedule with an entry. It cannot, because the row
  and all requests that know a schedule agree whether its expression parses
  (`ValidInv`) and nobody knows an id before it is given out (`FreshInv`).
* `SchedulesProofs!SyncCorrect`. While one request is on a schedule, `SyncInv` says for each of its steps
  which of row and entry it has already changed, and that no other request on
  that schedule is under way unless the schedule is suspect. `SchedInv`, from the two theorems
  before, is used at every step.
* `SettingsProofs!TypeCorrect`, `LoadCorrect`, `SaveCorrect`, `KeepCorrect`. `LayerInv` says that without
  doubt the live configuration is the saved settings over the file's, under the environment's,
  and follows the one request under way through reading, merging, storing and the swap of
  the destination: what it holds is what is live with what is read in its body on top.
* `SftpClientProofs!TypeCorrect`, `NoneLost`, `CutCorrect`. `SharedInv` says that whoever is
  inside `client()` or `connect()` holds the mutex (`Exclusion`), that the connection being set
  up is neither the shared one nor anybody's (`SetUp`), and that a reconnect has seen a ping on
  the shared one fail (`InUse`). `CutOnlyOnSuspicion` needs all three: closing a connection
  whose handshake failed must not hit one in use.
* `DumpPipelineProofs!TypeCorrect`, `CmdErrCorrect`, `StoredCorrect`, `CallCorrect`. The
  inductive `PipeInv` orders the ends (`CommandInv`: first the process, then `cmdErr`, then the
  pipe; `ZipInv`: the second pipe ends as the first did; `WriteInv`: success only at an end of
  file) and counts the buffers (`FlowInv`: what is in front of the gzip goroutine, in it and behind
  it adds up to what `pg_dump` wrote, and is that and the trailer once it flushes). At an end of
  file the counts say that everything arrived; the refinement of `DumpCall` follows, since a
  buffer that arrives at a reader that still reads finds the file not whole.

* `DestinationCallsProofs!TypeCorrect`. The one part that is not bookkeeping is `Fresh`, which the model
  takes for granted: that there is a version nothing leads to when a `Create` needs one. `Room`
  says that each used version belongs to a writer of its own and that a writer about to
  create has none; counting writers and versions does the rest.
* `DestinationCallsProofs!TornCorrect`. A version is *for* a key (`For`): the one that was there at the start, or
  one whose writers all write that key. `Lead` says that a name only ever leads to a version of
  its own, that a writer fills one of its key's, and a reader has one of its key's open. So what
  changes under a reader is the work of a writer of that very key, and `Torn` says that
  such a writer stays in view.
* `DestinationCallsProofs!DeleteCorrect`. `calm` holds the files of the beginning that are still as they were, `denied`
  the keys S3 has refused this delete. On S3, `Ahead` says that the calm ones which were not
  refused all lie on the page at hand or beyond the key the listing goes on from
  (`PageFacts`: a page takes the first keys and its last one is the border). On local and SFTP a
  delete that ends well has removed the date's own directory, and an empty directory has nothing
  below it (`EmptyFacts`).
* `DestinationCallsProofs!ReadCorrect`. `Served` follows a reader: every calm file has been found, or is ahead in
  the walk (itself or its directory, in some frame) or beyond the page; once listed, it is
  still to be opened or has been sent whole; while it is open its version is what it was. Until a
  delete begins, what a walk has been told of is there (`Undeleted`), which is why only a
  delete can fail a local listing.
* `DestinationCallsProofs!OnePassCorrect`, for any number of deletes. While it is quiet (nobody writes, nothing breaks down)
  three facts about each delete are inductive: everything still there is ahead of it (`Course`),
  what others have removed ahead of it comes first (`InOrder`), and its frames fit
  together (`Shape`). From them: whoever removes a file or a directory finds everything after it
  still there, so that nothing can stop it any more (`Accurate`). `Hope`, that the date has gone, or
  some delete has not begun, or one is accurate, then survives every step. On S3 none fails and none is
  refused a key (`DeniedAlone`), and `DeleteCorrect`'s invariant suffices.

* `StorageListingProofs!TypeCorrect`, `TwiceCorrect`, `MissedCorrect`. The calls on the stack follow the
  path of the innermost one (`CallOK`), which gives their nesting. The rest is about ranks. While
  nobody uploads, ranks only fall: `Once` says that what a call has found, or is inside of, ranks
  below its limit and will not be on a later page. While no entry before it goes away, an
  entry's rank only grows: `Missed` says that an object that was there all the time has been found,
  or has a cause to be missed, or its entry is on the page, beyond it, or the folder at hand.
  When a call returns, nothing is beyond: ranks have no gaps, so a page before an entry is
  full (`FullPage`, by counting). `Still` says that without changes a page shows what is there.

Assumptions: numbers are naturals, the sets of paths, keys and callers are finite, a page has
at least one entry, the kinds of callers differ, the configurations are within the policy
bounds `Floor` and `MinAge` (0 makes the bound empty), objects of different buckets differ.
`KeepLastCorrect` has the two hypotheses above; the run `BackupFair`, where it is checked,
satisfies them.

With this every invariant and every action property of the runs is a theorem. Only
model-checked is what is out of TLAPS's reach: all liveness. That the cursor of
`RetentionLoop`, the walks and the listing come to an end is liveness, too.

## What is not modelled

* The DSN and the reachability probe of a dump, which succeed or refuse; the wording of errors.
* A bucket that changes during a run, in `BackupRun`: its contents are fixed there, and
  `StorageListing` has the change.
* A mutex held for ever by a `Stat` or a `read` that never returns: no call has a deadline in
  the code, and the models assume that each returns.
* Entries of the destination that are not dates (`Apply` ignores them), more than one date in
  `ListBackups` (the dates are independent), the client that hangs up in a download.
* `GET` handlers that return one table or the settings, the connection test, routing, the web
  UI: one read each, or I/O.
* The SSH connection of a destination that a PUT of settings has replaced: nobody closes it.
* A new destination taking effect while runs write to the old one: `BackupRun` has one
  destination; `Settings` has the switch.
* Negative retention numbers: `Run` and `Apply` treat them as 0.
* Steps that are one in the models and several in the code, where no property can tell: the two
  readings of the clock for a dump's date and name (database.go:37-38), the `mkdir` calls of one
  `MkdirAll`, the inside of `os.RemoveAll` (which also forgives a failure whose directory has
  gone meanwhile, where the model reports it).
* A `Delete` that fails, in `RetentionLoop`: the loop goes on, and `BackupRun` has it.

## Plan

1. Done: the runner with retention on one destination, schedules, settings; the dump's
   pipeline, the listing, the SFTP client and the calls of the destinations; the proofs above.
2. A composition of `Schedules` and `Settings` with `BackupRun`: a fired entry captures the
   live state; abstract specifications of the scheduler (the set of firing schedules) and of
   the settings (one register per key).
3. Proofs: abstract specifications for a `Write` and a `Delete` of `DestinationCalls`, so that
   the steps of `BackupRun` are refined and not only explained.
