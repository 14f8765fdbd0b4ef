------------------------------ MODULE Schedules ------------------------------
(* The schedules table (internal/store), the scheduler's entries map and the  *)
(* cron it drives (internal/scheduler), and the three API handlers that       *)
(* change them (internal/api).  The store and the scheduler each serialise    *)
(* their own calls; a handler makes two or three of them, and handlers of     *)
(* different requests interleave between any two.                             *)
EXTENDS Naturals, FiniteSets

CONSTANTS
  Reqs,        \* the requests that may be made; each is made at most once
  MaxId,       \* bound: the schedules that may ever be created
  MaxCrashes,  \* bound: the times the process dies
  Faults       \* {"store"}: a store call may fail; {}: none does

Ids == 1..MaxId
None == 0      \* no cron entry, no schedule

ASSUME ScheduleAssumption ==
  MaxId \in Nat /\ MaxCrashes \in Nat /\ Faults \subseteq {"store"}

(* A row: does its cron expression parse, is it enabled, has last_run_at been *)
(* set.  The expression and the type of a schedule never change.              *)
Row == [there : BOOLEAN, valid : BOOLEAN, enabled : BOOLEAN, ran : BOOLEAN]
NoRow == [there |-> FALSE, valid |-> FALSE, enabled |-> FALSE, ran |-> FALSE]

VARIABLES
  table,      \* id -> row of the schedules table
  nextId,     \* AUTOINCREMENT: the id of the next row, never used before
  entries,    \* Scheduler.entries: schedule id -> cron entry id
  cron,       \* the cron's entries, as [eid, sid]
  nextEntry,  \* the id of the cron's next entry
  req,        \* request -> [at, id, valid, on]
  crashes,
  \* history, read by the properties only
  suspect     \* ids two requests were on at a time, or a failed delete was on,
              \* since the process last started

vars == <<table, nextId, entries, cron, nextEntry, req, crashes, suspect>>

schedVars == <<entries, cron, nextEntry>>
tableVars == <<table, nextId>>

Idle == [at |-> "idle", id |-> None, valid |-> FALSE, on |-> FALSE]

Init ==
  /\ table = [i \in Ids |-> NoRow]
  /\ nextId = 1
  /\ entries = [i \in Ids |-> None]
  /\ cron = {}
  /\ nextEntry = 1
  /\ req = [r \in Reqs |-> Idle]
  /\ crashes = 0
  /\ suspect = {}

InFlight(r) == req[r].at \notin {"idle", "end"}
Quiet(i) == \A r \in Reqs : InFlight(r) => req[r].id # i

Goto(r, from, to) == req[r].at = from /\ req' = [req EXCEPT ![r].at = to]

(* A request that has just found out its id.                                  *)
Meet(i) == suspect' = IF Quiet(i) THEN suspect ELSE suspect \cup {i}

-------------------------------------------------------------------------------
(* Scheduler.register and Scheduler.Remove, each under the mutex *)

Unregistered(i) == {e \in cron : e.eid # entries[i]}

(* The old entry leaves the cron before AddFunc parses the expression; the    *)
(* map keeps its id when that fails.                                          *)
Register(i, valid) ==
  IF valid
    THEN /\ cron' = Unregistered(i) \cup {[eid |-> nextEntry, sid |-> i]}
         /\ entries' = [entries EXCEPT ![i] = nextEntry]
         /\ nextEntry' = nextEntry + 1
    ELSE /\ cron' = Unregistered(i)
         /\ UNCHANGED <<entries, nextEntry>>

(* Mutant of Remove: the cron keeps the entry.                                *)
RemoveFromMap(i) ==
  /\ entries' = [entries EXCEPT ![i] = None]
  /\ UNCHANGED <<cron, nextEntry>>

Remove(i) ==
  /\ cron' = Unregistered(i)
  /\ entries' = [entries EXCEPT ![i] = None]
  /\ UNCHANGED nextEntry

-------------------------------------------------------------------------------
(* POST /api/schedules *)

(* Mutant of CreateInsert: LastInsertId is not asked.                         *)
CreateInsertNoId(r, valid) ==
  /\ nextId <= MaxId
  /\ req[r].at = "idle"
  /\ req' = [req EXCEPT ![r] = [at |-> "add", id |-> None, valid |-> valid, on |-> TRUE]]
  /\ table' = [table EXCEPT ![nextId] =
                 [there |-> TRUE, valid |-> valid, enabled |-> TRUE, ran |-> FALSE]]
  /\ nextId' = nextId + 1
  /\ UNCHANGED <<schedVars, crashes, suspect>>

CreateInsert(r, valid) ==
  /\ nextId <= MaxId
  /\ req[r].at = "idle"
  /\ req' = [req EXCEPT ![r] = [at |-> "add", id |-> nextId, valid |-> valid, on |-> TRUE]]
  /\ table' = [table EXCEPT ![nextId] =
                 [there |-> TRUE, valid |-> valid, enabled |-> TRUE, ran |-> FALSE]]
  /\ nextId' = nextId + 1
  /\ Meet(nextId)
  /\ UNCHANGED <<schedVars, crashes>>

CreateAdd(r) ==
  /\ Goto(r, "add", IF req[r].valid THEN "end" ELSE "undo")
  /\ Register(req[r].id, req[r].valid)
  /\ UNCHANGED <<tableVars, crashes, suspect>>

(* The error of this delete is dropped.                                       *)
CreateUndo(r) ==
  /\ Goto(r, "undo", "end")
  /\ \/ table' = [table EXCEPT ![req[r].id] = NoRow]
     \/ "store" \in Faults /\ UNCHANGED table
  /\ UNCHANGED <<nextId, schedVars, crashes, suspect>>

-------------------------------------------------------------------------------
(* DELETE /api/schedules/:id: no look at the table first *)

DeleteRemove(r, i) ==
  /\ req[r].at = "idle"
  /\ req' = [req EXCEPT ![r] = [Idle EXCEPT !.at = "row", !.id = i]]
  /\ Remove(i)
  /\ Meet(i)
  /\ UNCHANGED <<tableVars, crashes>>

DeleteRow(r) ==
  /\ Goto(r, "row", "end")
  /\ \/ /\ table' = [table EXCEPT ![req[r].id] = NoRow]
        /\ UNCHANGED suspect
     \/ /\ "store" \in Faults
        /\ suspect' = suspect \cup {req[r].id}
        /\ UNCHANGED table
  /\ UNCHANGED <<nextId, schedVars, crashes>>

-------------------------------------------------------------------------------
(* PATCH /api/schedules/:id *)

(* GetSchedule; a missing row is a 404 and changes nothing.                   *)
ToggleRead(r, i, on) ==
  /\ req[r].at = "idle"
  /\ table[i].there
  /\ req' = [req EXCEPT ![r] =
               [at |-> "store", id |-> i, valid |-> table[i].valid, on |-> on]]
  /\ Meet(i)
  /\ UNCHANGED <<tableVars, schedVars, crashes>>

(* An UPDATE of a row that has gone meanwhile succeeds and changes nothing.   *)
ToggleStore(r) ==
  LET i == req[r].id
  IN \/ /\ Goto(r, "store", "apply")
        /\ table' = IF ~table[i].there THEN table
                    ELSE [table EXCEPT ![i].enabled = req[r].on]
        /\ UNCHANGED <<nextId, schedVars, crashes, suspect>>
     \/ /\ "store" \in Faults
        /\ Goto(r, "store", "end")
        /\ UNCHANGED <<tableVars, schedVars, crashes, suspect>>

(* Mutant of ToggleApply: switching off is left to the next restart.          *)
ToggleApplyOn(r) ==
  /\ Goto(r, "apply", "end")
  /\ IF req[r].on THEN Register(req[r].id, req[r].valid) ELSE UNCHANGED schedVars
  /\ UNCHANGED <<tableVars, crashes, suspect>>

ToggleApply(r) ==
  /\ Goto(r, "apply", "end")
  /\ IF req[r].on THEN Register(req[r].id, req[r].valid) ELSE Remove(req[r].id)
  /\ UNCHANGED <<tableVars, crashes, suspect>>

-------------------------------------------------------------------------------
(* The cron, and the process *)

(* An entry comes due: its closure sets last_run_at of a row that may have    *)
(* gone, drops the error, and starts a backup.                                *)
Fire(e) ==
  /\ e \in cron
  /\ \/ table[e.sid].there /\ table' = [table EXCEPT ![e.sid].ran = TRUE]
     \/ (~table[e.sid].there \/ "store" \in Faults) /\ UNCHANGED table
  /\ UNCHANGED <<nextId, schedVars, req, crashes, suspect>>

Registrable(i) == table[i].there /\ table[i].enabled /\ table[i].valid

(* The process dies, its requests with it, and starts again: a new Scheduler, *)
(* and LoadAndStart registers the enabled rows before the API listens.  Their *)
(* order, and so the numbers of the entries, do not matter.                   *)
CrashRestart ==
  /\ crashes < MaxCrashes
  /\ crashes' = crashes + 1
  /\ req' = [r \in Reqs |-> IF InFlight(r) THEN [req[r] EXCEPT !.at = "end"] ELSE req[r]]
  /\ entries' = [i \in Ids |-> IF Registrable(i) THEN i ELSE None]
  /\ cron' = {[eid |-> i, sid |-> i] : i \in {n \in Ids : Registrable(n)}}
  /\ nextEntry' = MaxId + 1
  /\ suspect' = {}
  /\ UNCHANGED tableVars

Step(r) ==
  \/ \E valid \in BOOLEAN : CreateInsert(r, valid)
  \/ CreateAdd(r) \/ CreateUndo(r)
  \/ \E i \in Ids : DeleteRemove(r, i)
  \/ DeleteRow(r)
  \/ \E i \in Ids, on \in BOOLEAN : ToggleRead(r, i, on)
  \/ ToggleStore(r) \/ ToggleApply(r)

Next ==
  \/ \E r \in Reqs : Step(r)
  \/ \E e \in cron : Fire(e)
  \/ CrashRestart

Spec == Init /\ [][Next]_vars

-------------------------------------------------------------------------------
(* Properties *)

Requests == [at : {"idle", "add", "undo", "row", "store", "apply", "end"},
             id : Ids \cup {None}, valid : BOOLEAN, on : BOOLEAN]

(* Every variable stays in its type.                                          *)
TypeOK ==
  /\ table \in [Ids -> Row]
  /\ nextId \in 1..(MaxId + 1)
  /\ entries \in [Ids -> Nat]
  /\ cron \in SUBSET [eid : Nat \ {None}, sid : Ids]
  /\ nextEntry \in Nat \ {None}
  /\ req \in [Reqs -> Requests]
  /\ crashes \in 0..MaxCrashes
  /\ suspect \in SUBSET Ids

(* The cron holds exactly the entries the map knows: no entry is leaked that  *)
(* Remove could never find again, and no schedule has two, however requests   *)
(* interleave, fail or die (Scheduler.register's early return keeps the map's *)
(* old id, which would break this if a schedule's expression could change).   *)
CronMatchesEntries ==
  cron = {[eid |-> entries[i], sid |-> i] : i \in {n \in Ids : entries[n] # None}}

(* A schedule no request is on and no requests have raced on fires exactly    *)
(* when its row is there, enabled and valid; after a restart, so does every   *)
(* schedule (the handlers' two-step updates of table and scheduler).          *)
InSync ==
  \A i \in Ids :
    Quiet(i) /\ i \notin suspect => (entries[i] # None <=> Registrable(i))

(* README, "delete a schedule": once a schedule is deleted and no request is  *)
(* on it, it has no cron entry.                                               *)
DeletedIsGone ==
  \A i \in Ids : Quiet(i) /\ i < nextId /\ ~table[i].there => entries[i] = None
=============================================================================
