--------------------------- MODULE SchedulesProofs ---------------------------
(* Theorems about Schedules, for any number of requests and schedules.        *)
EXTENDS Schedules, TLAPS

(* Holds of a request that knows whether its schedule's expression parses.    *)
Knows(r) == req[r].at \in {"add", "undo", "store", "apply"}

LEMMA InitType == Init => TypeOK
BY ScheduleAssumption DEF Init, TypeOK, Ids, None, NoRow, Row, Idle, Requests

LEMMA RegisterType ==
  ASSUME TypeOK, NEW i \in Ids, NEW valid \in BOOLEAN, Register(i, valid)
  PROVE  /\ entries' \in [Ids -> Nat]
         /\ cron' \in SUBSET [eid : Nat \ {None}, sid : Ids]
         /\ nextEntry' \in Nat \ {None}
BY DEF TypeOK, Register, Unregistered, None

LEMMA RemoveType ==
  ASSUME TypeOK, NEW i \in Ids, Remove(i)
  PROVE  /\ entries' \in [Ids -> Nat]
         /\ cron' \in SUBSET [eid : Nat \ {None}, sid : Ids]
         /\ nextEntry' \in Nat \ {None}
BY DEF TypeOK, Remove, Unregistered, None

(* A request that has got past its first call has an id.                      *)
HasId == \A r \in Reqs : req[r].at \in {"add", "undo", "row", "store", "apply"}
                           => req[r].id \in Ids

TypeInv == TypeOK /\ HasId

LEMMA TypeStep == ASSUME TypeInv, [Next]_vars PROVE TypeInv'
<1> USE DEF TypeInv
<1>0. /\ nextId \in Nat /\ MaxId \in Nat /\ crashes \in Nat /\ MaxCrashes \in Nat
      /\ NoRow \in Row
  BY ScheduleAssumption DEF TypeOK, NoRow, Row
<1> USE DEF TypeOK, HasId, Requests, tableVars, schedVars
<1>1. ASSUME NEW r \in Reqs, NEW valid \in BOOLEAN, CreateInsert(r, valid) PROVE TypeInv'
  <2>1. nextId \in Ids
    BY <1>0, <1>1 DEF CreateInsert, Ids
  <2> QED BY <1>0, <1>1, <2>1 DEF CreateInsert, Meet, Row
<1>2. ASSUME NEW r \in Reqs, CreateAdd(r) PROVE TypeInv'
  <2>1. req[r].id \in Ids /\ req[r].valid \in BOOLEAN
    BY <1>2 DEF CreateAdd, Goto
  <2> QED BY <1>2, <2>1, RegisterType DEF CreateAdd, Goto
<1>3. ASSUME NEW r \in Reqs, CreateUndo(r) PROVE TypeInv'
  BY <1>0, <1>3 DEF CreateUndo, Goto
<1>4. ASSUME NEW r \in Reqs, NEW i \in Ids, DeleteRemove(r, i) PROVE TypeInv'
  BY <1>4, RemoveType DEF DeleteRemove, Meet, Idle
<1>5. ASSUME NEW r \in Reqs, DeleteRow(r) PROVE TypeInv'
  BY <1>0, <1>5 DEF DeleteRow, Goto
<1>6. ASSUME NEW r \in Reqs, NEW i \in Ids, NEW on \in BOOLEAN, ToggleRead(r, i, on)
      PROVE  TypeInv'
  <2>1. table[i].valid \in BOOLEAN
    BY DEF Row
  <2>2. req' \in [Reqs -> Requests] /\ HasId'
    BY <1>6, <2>1 DEF ToggleRead
  <2>3. suspect' \in SUBSET Ids
    BY <1>6 DEF ToggleRead, Meet
  <2>4. UNCHANGED <<tableVars, schedVars, crashes>>
    BY <1>6 DEF ToggleRead
  <2> QED BY <2>2, <2>3, <2>4
<1>7. ASSUME NEW r \in Reqs, ToggleStore(r) PROVE TypeInv'
  <2>1. req[r].at = "store" /\ req[r].id \in Ids /\ req[r].on \in BOOLEAN
    BY <1>7 DEF ToggleStore, Goto
  <2>2. req' \in [Reqs -> Requests] /\ HasId'
    BY <1>7, <2>1 DEF ToggleStore, Goto
  <2>3. table' \in [Ids -> Row]
    BY <1>7, <2>1 DEF ToggleStore, Row
  <2>4. UNCHANGED <<nextId, schedVars, crashes, suspect>>
    BY <1>7 DEF ToggleStore
  <2> QED BY <2>2, <2>3, <2>4
<1>8. ASSUME NEW r \in Reqs, ToggleApply(r) PROVE TypeInv'
  <2>1. req[r].id \in Ids /\ req[r].valid \in BOOLEAN
    BY <1>8 DEF ToggleApply, Goto
  <2> QED BY <1>8, <2>1, RegisterType, RemoveType DEF ToggleApply, Goto
<1>9. ASSUME NEW e \in cron, Fire(e) PROVE TypeInv'
  <2>1. e.sid \in Ids
    BY <1>9
  <2>2. table' \in [Ids -> Row]
    <3>1. [table[e.sid] EXCEPT !.ran = TRUE] \in Row
      <4>1. table[e.sid] \in Row
        BY <2>1
      <4> QED BY <4>1 DEF Row
    <3>2. \/ table' = table
          \/ table' = [table EXCEPT ![e.sid] = [table[e.sid] EXCEPT !.ran = TRUE]]
      BY <1>9 DEF Fire
    <3> QED BY <2>1, <3>1, <3>2
  <2>3. UNCHANGED <<nextId, schedVars, req, crashes, suspect>>
    BY <1>9 DEF Fire
  <2> QED BY <2>2, <2>3
<1>10. CASE CrashRestart
  <2>1. req' \in [Reqs -> Requests] /\ HasId'
    BY <1>10 DEF CrashRestart, InFlight
  <2>2. entries' \in [Ids -> Nat] /\ nextEntry' \in Nat \ {None}
    BY <1>0, <1>10 DEF CrashRestart, Ids, None
  <2>3. cron' \in SUBSET [eid : Nat \ {None}, sid : Ids]
    BY <1>0, <1>10 DEF CrashRestart, Ids, None
  <2> QED BY <1>0, <1>10, <2>1, <2>2, <2>3 DEF CrashRestart
<1>11. CASE UNCHANGED vars
  BY <1>11 DEF vars
<1> QED
  BY <1>1, <1>2, <1>3, <1>4, <1>5, <1>6, <1>7, <1>8, <1>9, <1>10, <1>11 DEF Next, Step

(* Every variable of Schedules stays in its type.                             *)
THEOREM TypeCorrect == Spec => []TypeOK
<1>1. Init => TypeInv
  BY InitType DEF Init, TypeInv, HasId, Idle
<1>2. TypeInv /\ [Next]_vars => TypeInv'
  BY TypeStep
<1>3. TypeInv => TypeOK
  BY DEF TypeInv
<1> QED BY <1>1, <1>2, <1>3, PTL DEF Spec

-------------------------------------------------------------------------------
(* The map of a scheduler knows every entry of its cron.  What has to be      *)
(* shown is that register never fails for a schedule that has an entry, where *)
(* it would drop the entry and keep its id: all who know a schedule, its row  *)
(* and the requests on it, agree whether its expression parses.               *)

(* A cron entry belongs to one schedule, and its id is never used again.      *)
EntriesInv ==
  \A i \in Ids : /\ entries[i] < nextEntry
                 /\ \A j \in Ids : entries[i] = entries[j] /\ entries[i] # None => i = j

CronInv == CronMatchesEntries /\ EntriesInv

(* Nobody has heard of an id that has not been given out.                     *)
FreshInv ==
  /\ \A i \in Ids : i >= nextId => ~table[i].there /\ entries[i] = None
  /\ \A r \in Reqs : Knows(r) => req[r].id < nextId

ValidInv ==
  /\ \A i \in Ids : table[i].there /\ entries[i] # None => table[i].valid
  /\ \A r \in Reqs : Knows(r) =>
       /\ table[req[r].id].there => table[req[r].id].valid = req[r].valid
       /\ entries[req[r].id] # None => req[r].valid
  /\ \A r, q \in Reqs : Knows(r) /\ Knows(q) /\ req[r].id = req[q].id
                            => req[r].valid = req[q].valid

SchedInv == TypeInv /\ CronInv /\ FreshInv /\ ValidInv

LEMMA RegisterCron ==
  ASSUME TypeInv, CronInv, NEW i \in Ids, NEW valid \in BOOLEAN,
         valid \/ entries[i] = None, Register(i, valid)
  PROVE  CronInv'
<1>1. /\ entries \in [Ids -> Nat] /\ nextEntry \in Nat \ {None}
      /\ \A e \in cron : e.eid # None
  BY DEF TypeInv, TypeOK, None
<1>2. CASE valid
  <2>1. /\ entries' = [entries EXCEPT ![i] = nextEntry]
        /\ nextEntry' = nextEntry + 1
        /\ cron' = Unregistered(i) \cup {[eid |-> nextEntry, sid |-> i]}
    BY <1>2 DEF Register
  <2>2. EntriesInv'
    BY <1>1, <2>1 DEF CronInv, EntriesInv, None
  <2>3. CronMatchesEntries'
    BY <1>1, <2>1 DEF CronInv, CronMatchesEntries, EntriesInv, Unregistered, None
  <2> QED BY <2>2, <2>3 DEF CronInv
<1>3. CASE ~valid
  <2>1. UNCHANGED <<entries, nextEntry>> /\ cron' = cron
    BY <1>1, <1>3 DEF Register, Unregistered
  <2> QED BY <2>1 DEF CronInv, CronMatchesEntries, EntriesInv
<1> QED BY <1>2, <1>3

LEMMA RemoveCron ==
  ASSUME TypeInv, CronInv, NEW i \in Ids, Remove(i)
  PROVE  CronInv'
<1>1. /\ entries \in [Ids -> Nat] /\ nextEntry \in Nat \ {None}
      /\ \A e \in cron : e.eid # None
  BY DEF TypeInv, TypeOK, None
<1>2. /\ entries' = [entries EXCEPT ![i] = None]
      /\ nextEntry' = nextEntry
      /\ cron' = Unregistered(i)
  BY DEF Remove
<1>3. EntriesInv'
  BY <1>1, <1>2 DEF CronInv, EntriesInv, None
<1>4. CronMatchesEntries'
  BY <1>1, <1>2 DEF CronInv, CronMatchesEntries, EntriesInv, Unregistered, None
<1> QED BY <1>3, <1>4 DEF CronInv

(* What a request knows of a schedule fits register's guard.                  *)
LEMMA KnownRegister ==
  ASSUME SchedInv, NEW r \in Reqs, Knows(r)
  PROVE  /\ req[r].id \in Ids /\ req[r].valid \in BOOLEAN
         /\ req[r].valid \/ entries[req[r].id] = None
BY DEF SchedInv, TypeInv, TypeOK, HasId, Requests, Knows, ValidInv

(* Registering or removing schedule i touches no other schedule's entry, and  *)
(* leaves it one only if its expression parses.                               *)
LEMMA RegisterEntries ==
  ASSUME TypeInv, NEW i \in Ids, NEW valid \in BOOLEAN, Register(i, valid)
  PROVE  \A n \in Ids : entries'[n] = entries[n] \/ (n = i /\ valid)
BY DEF TypeInv, TypeOK, Register

LEMMA RemoveEntries ==
  ASSUME TypeInv, NEW i \in Ids, Remove(i)
  PROVE  \A n \in Ids : entries'[n] = entries[n] \/ entries'[n] = None
BY DEF TypeInv, TypeOK, Remove

(* A step that tells nobody anything new keeps what all know.                 *)
LEMMA KnowledgeKept ==
  ASSUME TypeInv, TypeInv', FreshInv, ValidInv, nextId' = nextId,
         \A n \in Ids : table'[n].there => table[n].there /\ table'[n].valid = table[n].valid,
         \A n \in Ids : \/ entries'[n] = entries[n] \/ entries'[n] = None
                        \/ \E r \in Reqs : Knows(r) /\ req[r].id = n /\ req[r].valid,
         \A r \in Reqs : Knows(r)' =>
            \/ Knows(r) /\ req'[r].id = req[r].id /\ req'[r].valid = req[r].valid
            \/ table[req'[r].id].there /\ req'[r].valid = table[req'[r].id].valid
  PROVE  FreshInv' /\ ValidInv'
<1>1. /\ nextId \in Nat /\ \A n \in Ids : n \in Nat
      /\ \A r \in Reqs : Knows(r) => req[r].id \in Ids
      /\ \A r \in Reqs : Knows(r)' => req'[r].id \in Ids
  BY ScheduleAssumption DEF TypeInv, TypeOK, HasId, Knows, Ids
<1>2. FreshInv'
  <2>1. \A n \in Ids : n >= nextId => ~table'[n].there /\ entries'[n] = None
    BY <1>1 DEF FreshInv
  <2>2. \A r \in Reqs : Knows(r)' => req'[r].id < nextId
    BY <1>1 DEF FreshInv
  <2> QED BY <2>1, <2>2 DEF FreshInv
<1>3. ValidInv'
  <2>1. \A n \in Ids : table'[n].there /\ entries'[n] # None => table'[n].valid
    BY <1>1 DEF ValidInv
  <2>2. \A r \in Reqs : Knows(r)' /\ table'[req'[r].id].there
                          => table'[req'[r].id].valid = req'[r].valid
    BY <1>1 DEF ValidInv
  <2>3. \A r \in Reqs : Knows(r)' /\ entries'[req'[r].id] # None => req'[r].valid
    BY <1>1 DEF ValidInv
  <2>4. \A r, q \in Reqs : Knows(r)' /\ Knows(q)' /\ req'[r].id = req'[q].id
                             => req'[r].valid = req'[q].valid
    BY <1>1 DEF ValidInv
  <2> QED BY <2>1, <2>2, <2>3, <2>4 DEF ValidInv
<1> QED BY <1>2, <1>3

LEMMA CronStep == ASSUME SchedInv, [Next]_vars PROVE CronInv'
<1>1. TypeInv /\ CronInv
  BY DEF SchedInv
<1>2. ASSUME NEW r \in Reqs, CreateAdd(r) PROVE CronInv'
  BY <1>1, <1>2, KnownRegister, RegisterCron DEF CreateAdd, Goto, Knows
<1>3. ASSUME NEW r \in Reqs, NEW i \in Ids, DeleteRemove(r, i) PROVE CronInv'
  BY <1>1, <1>3, RemoveCron DEF DeleteRemove
<1>4. ASSUME NEW r \in Reqs, ToggleApply(r) PROVE CronInv'
  <2>1. Knows(r)
    BY <1>4 DEF ToggleApply, Goto, Knows
  <2>2. CASE req[r].on
    BY <1>1, <1>4, <2>1, <2>2, KnownRegister, RegisterCron DEF ToggleApply
  <2>3. CASE ~req[r].on
    BY <1>1, <1>4, <2>1, <2>3, KnownRegister, RemoveCron DEF ToggleApply
  <2> QED BY <2>2, <2>3
<1>5. CASE CrashRestart
  <2>1. /\ entries' = [i \in Ids |-> IF Registrable(i) THEN i ELSE None]
        /\ cron' = {[eid |-> i, sid |-> i] : i \in {n \in Ids : Registrable(n)}}
        /\ nextEntry' = MaxId + 1
    BY <1>5 DEF CrashRestart
  <2>2. MaxId \in Nat /\ \A i \in Ids : i \in Nat /\ i # None /\ i <= MaxId
    BY ScheduleAssumption DEF Ids, None
  <2>3. EntriesInv'
    BY <2>1, <2>2 DEF EntriesInv, None
  <2>4. \A i \in Ids : (entries'[i] # None <=> Registrable(i)) /\ (Registrable(i) => entries'[i] = i)
    BY <2>1, <2>2
  <2>5. CronMatchesEntries'
    BY <2>1, <2>4 DEF CronMatchesEntries
  <2> QED BY <2>3, <2>5 DEF CronInv
<1>6. ASSUME UNCHANGED schedVars PROVE CronInv'
  BY <1>1, <1>6 DEF schedVars, CronInv, CronMatchesEntries, EntriesInv
<1>7. ASSUME NEW r \in Reqs, Step(r) PROVE CronInv'
  BY <1>2, <1>3, <1>4, <1>6, <1>7
     DEF Step, CreateInsert, CreateUndo, DeleteRow, ToggleRead, ToggleStore, schedVars
<1> QED
  BY <1>5, <1>6, <1>7 DEF Next, Fire, vars, schedVars

(* What all know of the schedules is kept by every step.  The steps are those *)
(* that give out an id, those that set an entry and those that read a row;    *)
(* the rest only forget.                                                      *)
LEMMA KnowledgeStep == ASSUME SchedInv, [Next]_vars PROVE FreshInv' /\ ValidInv'
<1>1. TypeInv /\ TypeInv' /\ FreshInv /\ ValidInv
  BY TypeStep DEF SchedInv
<1>2. /\ table \in [Ids -> Row] /\ req \in [Reqs -> Requests] /\ nextId \in Nat
      /\ \A n \in Ids : n \in Nat
  BY <1>1, ScheduleAssumption DEF TypeInv, TypeOK, Ids
<1>3. ASSUME NEW r \in Reqs, NEW valid \in BOOLEAN, CreateInsert(r, valid)
      PROVE  FreshInv' /\ ValidInv'
  <2>1. /\ req[r].at = "idle" /\ nextId' = nextId + 1 /\ entries' = entries
        /\ req' = [req EXCEPT ![r] = [at |-> "add", id |-> nextId, valid |-> valid, on |-> TRUE]]
        /\ table' = [table EXCEPT ![nextId] =
                       [there |-> TRUE, valid |-> valid, enabled |-> TRUE, ran |-> FALSE]]
    BY <1>3 DEF CreateInsert, schedVars
  <2>2. nextId \in Ids
    BY <1>2, <1>3, ScheduleAssumption, <1>1 DEF CreateInsert, TypeInv, TypeOK, Ids
  <2>3. entries[nextId] = None
    BY <1>1, <1>2, <2>2 DEF FreshInv
  <2>4. \A n \in Ids : n # nextId => table'[n] = table[n]
    BY <1>2, <2>1
  <2>5. table'[nextId].there /\ table'[nextId].valid = valid
    BY <1>2, <2>1, <2>2
  <2>6. req'[r].id = nextId /\ req'[r].valid = valid /\ Knows(r)'
    BY <1>2, <2>1 DEF Knows
  <2>7. \A q \in Reqs \ {r} : req'[q] = req[q] /\ (Knows(q)' <=> Knows(q))
    BY <1>2, <2>1 DEF Knows
  <2>8. \A q \in Reqs : Knows(q) => req[q].id \in Ids /\ req[q].id < nextId
    BY <1>1 DEF FreshInv, TypeInv, HasId, Knows
  <2>9. FreshInv'
    <3>1. \A n \in Ids : n >= nextId' => n # nextId /\ n >= nextId
      BY <1>2, <2>1
    <3>2. \A n \in Ids : n >= nextId' => ~table'[n].there /\ entries'[n] = None
      BY <1>1, <2>1, <2>4, <3>1 DEF FreshInv
    <3>3. \A q \in Reqs : Knows(q)' => req'[q].id < nextId'
      <4>1. nextId < nextId'
        BY <1>2, <2>1
      <4>2. \A q \in Reqs \ {r} : Knows(q)' => req'[q].id \in Nat /\ req'[q].id < nextId
        BY <1>2, <2>7, <2>8
      <4> QED BY <1>2, <2>1, <2>6, <4>1, <4>2
    <3> QED BY <3>2, <3>3 DEF FreshInv
  <2>10. ValidInv'
    <3>1. \A n \in Ids : table'[n].there /\ entries'[n] # None => table'[n].valid
      BY <1>1, <2>1, <2>3, <2>4 DEF ValidInv
    <3>2. \A q \in Reqs : Knows(q)' /\ q # r => req'[q].id # nextId
      BY <1>2, <2>7, <2>8
    <3>3. \A q \in Reqs : Knows(q)' =>
            /\ table'[req'[q].id].there => table'[req'[q].id].valid = req'[q].valid
            /\ entries'[req'[q].id] # None => req'[q].valid
      BY <1>1, <2>1, <2>3, <2>4, <2>5, <2>6, <2>7, <2>8, <3>2 DEF ValidInv
    <3>4. \A p, q \in Reqs : Knows(p)' /\ Knows(q)' /\ req'[p].id = req'[q].id
                              => req'[p].valid = req'[q].valid
      BY <1>1, <2>6, <2>7, <3>2 DEF ValidInv
    <3> QED BY <3>1, <3>3, <3>4 DEF ValidInv
  <2> QED BY <2>9, <2>10
<1>4. ASSUME nextId' = nextId, entries' = entries,
             \A n \in Ids : table'[n].there => table[n].there /\ table'[n].valid = table[n].valid,
             \A r \in Reqs : Knows(r)' =>
               \/ Knows(r) /\ req'[r].id = req[r].id /\ req'[r].valid = req[r].valid
               \/ table[req'[r].id].there /\ req'[r].valid = table[req'[r].id].valid
      PROVE  FreshInv' /\ ValidInv'
  BY <1>1, <1>4, KnowledgeKept
<1>5. ASSUME NEW r \in Reqs, CreateAdd(r) PROVE FreshInv' /\ ValidInv'
  <2>1. Knows(r) /\ req[r].id \in Ids /\ req[r].valid \in BOOLEAN
    BY <1>1, <1>5, KnownRegister DEF CreateAdd, Goto, Knows
  <2>2. \A n \in Ids : entries'[n] = entries[n] \/ (n = req[r].id /\ req[r].valid)
    BY <1>1, <1>5, <2>1, RegisterEntries DEF CreateAdd
  <2>3. \A q \in Reqs : Knows(q)' =>
          Knows(q) /\ req'[q].id = req[q].id /\ req'[q].valid = req[q].valid
    BY <1>2, <1>5, <2>1 DEF CreateAdd, Goto, Knows, Requests
  <2>4. nextId' = nextId /\ table' = table
    BY <1>5 DEF CreateAdd, tableVars
  <2> QED BY <1>1, <2>1, <2>2, <2>3, <2>4, KnowledgeKept
<1>6. ASSUME NEW r \in Reqs, CreateUndo(r) PROVE FreshInv' /\ ValidInv'
  <2>1. \A q \in Reqs : Knows(q)' =>
          Knows(q) /\ req'[q].id = req[q].id /\ req'[q].valid = req[q].valid
    BY <1>2, <1>6 DEF CreateUndo, Goto, Knows, Requests
  <2>2. \A n \in Ids : table'[n].there => table[n].there /\ table'[n].valid = table[n].valid
    BY <1>2, <1>6 DEF CreateUndo, NoRow
  <2> QED BY <1>4, <1>6, <2>1, <2>2 DEF CreateUndo, schedVars
<1>7. ASSUME NEW r \in Reqs, NEW i \in Ids, DeleteRemove(r, i)
      PROVE  FreshInv' /\ ValidInv'
  <2>1. \A q \in Reqs : Knows(q)' =>
          Knows(q) /\ req'[q].id = req[q].id /\ req'[q].valid = req[q].valid
    BY <1>2, <1>7 DEF DeleteRemove, Knows, Requests, Idle
  <2>2. \A n \in Ids : entries'[n] = entries[n] \/ entries'[n] = None
    BY <1>1, <1>7, RemoveEntries DEF DeleteRemove
  <2>3. nextId' = nextId /\ table' = table
    BY <1>7 DEF DeleteRemove, tableVars
  <2> QED BY <1>1, <2>1, <2>2, <2>3, KnowledgeKept
<1>8. ASSUME NEW r \in Reqs, DeleteRow(r) PROVE FreshInv' /\ ValidInv'
  <2>1. \A q \in Reqs : Knows(q)' =>
          Knows(q) /\ req'[q].id = req[q].id /\ req'[q].valid = req[q].valid
    BY <1>2, <1>8 DEF DeleteRow, Goto, Knows, Requests
  <2>2. \A n \in Ids : table'[n].there => table[n].there /\ table'[n].valid = table[n].valid
    BY <1>2, <1>8 DEF DeleteRow, NoRow
  <2> QED BY <1>4, <1>8, <2>1, <2>2 DEF DeleteRow, schedVars
<1>9. ASSUME NEW r \in Reqs, NEW i \in Ids, NEW on \in BOOLEAN, ToggleRead(r, i, on)
      PROVE  FreshInv' /\ ValidInv'
  <2>1. \A q \in Reqs : Knows(q)' =>
          \/ Knows(q) /\ req'[q].id = req[q].id /\ req'[q].valid = req[q].valid
          \/ table[req'[q].id].there /\ req'[q].valid = table[req'[q].id].valid
    BY <1>2, <1>9 DEF ToggleRead, Knows, Requests
  <2> QED BY <1>4, <1>9, <2>1 DEF ToggleRead, tableVars, schedVars
<1>10. ASSUME NEW r \in Reqs, ToggleStore(r) PROVE FreshInv' /\ ValidInv'
  <2>1. \A q \in Reqs : Knows(q)' =>
          Knows(q) /\ req'[q].id = req[q].id /\ req'[q].valid = req[q].valid
    BY <1>2, <1>10 DEF ToggleStore, Goto, Knows, Requests
  <2>2. \A n \in Ids : table'[n].there => table[n].there /\ table'[n].valid = table[n].valid
    BY <1>2, <1>10 DEF ToggleStore, tableVars, Row
  <2> QED BY <1>4, <1>10, <2>1, <2>2 DEF ToggleStore, tableVars, schedVars
<1>11. ASSUME NEW r \in Reqs, ToggleApply(r) PROVE FreshInv' /\ ValidInv'
  <2>1. Knows(r) /\ req[r].id \in Ids /\ req[r].valid \in BOOLEAN
    BY <1>1, <1>11, KnownRegister DEF ToggleApply, Goto, Knows
  <2>2. \A n \in Ids : \/ entries'[n] = entries[n] \/ entries'[n] = None
                       \/ n = req[r].id /\ req[r].valid
    <3>1. CASE req[r].on
      BY <1>1, <1>11, <2>1, <3>1, RegisterEntries DEF ToggleApply
    <3>2. CASE ~req[r].on
      BY <1>1, <1>11, <2>1, <3>2, RemoveEntries DEF ToggleApply
    <3> QED BY <3>1, <3>2
  <2>3. \A q \in Reqs : Knows(q)' =>
          Knows(q) /\ req'[q].id = req[q].id /\ req'[q].valid = req[q].valid
    BY <1>2, <1>11, <2>1 DEF ToggleApply, Goto, Knows, Requests
  <2>4. nextId' = nextId /\ table' = table
    BY <1>11 DEF ToggleApply, tableVars
  <2> QED BY <1>1, <2>1, <2>2, <2>3, <2>4, KnowledgeKept
<1>12. ASSUME NEW e \in cron, Fire(e) PROVE FreshInv' /\ ValidInv'
  <2>1. \A n \in Ids : table'[n].there => table[n].there /\ table'[n].valid = table[n].valid
    BY <1>2, <1>12 DEF Fire, Row
  <2> QED BY <1>4, <1>12, <2>1 DEF Fire, schedVars, Knows
<1>13. CASE CrashRestart
  <2>1. /\ nextId' = nextId /\ table' = table
        /\ entries' = [i \in Ids |-> IF Registrable(i) THEN i ELSE None]
        /\ req' = [r \in Reqs |-> IF InFlight(r) THEN [req[r] EXCEPT !.at = "end"] ELSE req[r]]
    BY <1>13 DEF CrashRestart, tableVars
  <2>2. \A r \in Reqs : ~Knows(r)'
    BY <1>2, <2>1 DEF Knows, InFlight, Requests
  <2>3. FreshInv'
    BY <1>1, <2>1, <2>2 DEF FreshInv, Registrable
  <2>4. ValidInv'
    BY <2>1, <2>2 DEF ValidInv, Registrable
  <2> QED BY <2>3, <2>4
<1>14. CASE UNCHANGED vars
  BY <1>4, <1>14 DEF vars, Knows
<1> QED
  BY <1>3, <1>5, <1>6, <1>7, <1>8, <1>9, <1>10, <1>11, <1>12, <1>13, <1>14 DEF Next, Step

(* What the theorems below rest on: types, the cron, and what is known.       *)
THEOREM SchedInvariant == Spec => []SchedInv
<1>1. Init => SchedInv
  <2> SUFFICES ASSUME Init PROVE SchedInv
    OBVIOUS
  <2>1. TypeInv
    BY InitType DEF Init, TypeInv, HasId, Idle
  <2>2. CronInv
    BY DEF Init, CronInv, CronMatchesEntries, EntriesInv, None
  <2>3. FreshInv /\ ValidInv
    BY DEF Init, FreshInv, ValidInv, Knows, Idle, NoRow
  <2> QED BY <2>1, <2>2, <2>3 DEF SchedInv
<1>2. SchedInv /\ [Next]_vars => SchedInv'
  BY TypeStep, CronStep, KnowledgeStep DEF SchedInv
<1> QED BY <1>1, <1>2, PTL DEF Spec

(* The cron always holds exactly the entries the scheduler's map knows,       *)
(* however many requests interleave, fail or die with the process.            *)
THEOREM CronCorrect == Spec => []CronMatchesEntries
<1>1. SchedInv => CronMatchesEntries
  BY DEF SchedInv, CronInv
<1> QED BY SchedInvariant, <1>1, PTL

-------------------------------------------------------------------------------
(* The table and the scheduler agree.  As long as no two requests have met on *)
(* a schedule, the one that is on it knows its row, and what is between them  *)
(* is what that request has still to do.                                      *)

On(r, i) == InFlight(r) /\ req[r].id = i

Matches(i) == entries[i] # None <=> Registrable(i)

Fits(r, i) ==
  /\ req[r].at \in {"add", "undo", "row"} => entries[i] = None
  /\ req[r].at \in {"add", "undo", "store", "apply"} => table[i].there
  /\ req[r].at = "add" => table[i].enabled
  /\ req[r].at = "undo" => ~req[r].valid
  /\ req[r].at = "store" => Matches(i)
  /\ req[r].at = "apply" => table[i].enabled = req[r].on

Sync(i) ==
  /\ Quiet(i) => Matches(i)
  /\ \A r \in Reqs : On(r, i) => Fits(r, i) /\ \A q \in Reqs : On(q, i) => q = r

SyncInv == \A i \in Ids \ suspect : Sync(i)

(* Schedule i as its own request leaves it.                                   *)
LEMMA SyncHere ==
  ASSUME NEW i \in Ids, NEW r \in Reqs, Quiet(i) \/ (On(r, i) /\ Sync(i)),
         \A q \in Reqs \ {r} : req'[q] = req[q],
         On(r, i)' => Fits(r, i)', ~On(r, i)' => Matches(i)'
  PROVE  Sync(i)'
<1>1. \A q \in Reqs \ {r} : ~On(q, i)'
  BY DEF Sync, On, Quiet, InFlight
<1> QED BY <1>1 DEF Sync, On, Quiet

(* Schedule i while a request is on another one.                              *)
LEMMA SyncElsewhere ==
  ASSUME NEW i \in Ids, NEW r \in Reqs, Sync(i), ~On(r, i), ~On(r, i)',
         \A q \in Reqs \ {r} : req'[q] = req[q],
         table'[i] = table[i], entries'[i] = entries[i]
  PROVE  Sync(i)'
<1>1. Matches(i)' <=> Matches(i)
  BY DEF Matches, Registrable
<1>2. \A q \in Reqs : On(q, i)' <=> On(q, i)
  BY DEF On, InFlight
<1>3. \A q \in Reqs : On(q, i) => (Fits(q, i)' <=> Fits(q, i))
  <2> SUFFICES ASSUME NEW q \in Reqs, On(q, i) PROVE Fits(q, i)' <=> Fits(q, i)
    OBVIOUS
  <2>1. req'[q] = req[q]
    OBVIOUS
  <2> QED BY <1>1, <2>1 DEF Fits
<1> QED BY <1>1, <1>2, <1>3 DEF Sync, Quiet, On

(* A request's step is the step of one schedule.                              *)
LEMMA SyncRequest ==
  ASSUME TypeInv, SyncInv, NEW r \in Reqs, NEW i \in Ids, suspect \subseteq suspect',
         \A q \in Reqs \ {r} : req'[q] = req[q],
         \A n \in Ids \ {i} : table'[n] = table[n] /\ entries'[n] = entries[n],
         req'[r].id = i, InFlight(r) => req[r].id = i,
         i \notin suspect' /\ (Quiet(i) \/ On(r, i)) =>
            (InFlight(r)' => Fits(r, i)') /\ (~InFlight(r)' => Matches(i)'),
         i \notin suspect' /\ ~InFlight(r) => Quiet(i)
  PROVE  SyncInv'
<1>1. ASSUME i \notin suspect' PROVE Sync(i)'
  <2>1. Quiet(i) \/ (On(r, i) /\ Sync(i))
    BY <1>1 DEF SyncInv, On
  <2> QED BY <1>1, <2>1, SyncHere DEF On
<1>2. ASSUME NEW n \in Ids \ {i}, n \notin suspect' PROVE Sync(n)'
  <2>1. Sync(n) /\ ~On(r, n) /\ ~On(r, n)'
    BY <1>2 DEF SyncInv, On
  <2> QED BY <1>2, <2>1, SyncElsewhere
<1> QED BY <1>1, <1>2 DEF SyncInv

LEMMA SyncStep == ASSUME SchedInv, SyncInv, [Next]_vars PROVE SyncInv'
<1>1. /\ TypeInv /\ FreshInv /\ ValidInv
      /\ table \in [Ids -> Row] /\ entries \in [Ids -> Nat] /\ req \in [Reqs -> Requests]
      /\ nextId \in Nat /\ \A i \in Ids : i \in Nat /\ i # None
  BY ScheduleAssumption DEF SchedInv, TypeInv, TypeOK, Ids, None
<1>2. ASSUME NEW r \in Reqs, NEW valid \in BOOLEAN, CreateInsert(r, valid) PROVE SyncInv'
  <2>1. PICK i \in Ids : i = nextId
    BY <1>1, <1>2, ScheduleAssumption DEF CreateInsert, TypeInv, TypeOK, Ids
  <2>2. /\ req[r].at = "idle" /\ req' = [req EXCEPT ![r] =
             [at |-> "add", id |-> i, valid |-> valid, on |-> TRUE]]
        /\ table' = [table EXCEPT ![i] =
                       [there |-> TRUE, valid |-> valid, enabled |-> TRUE, ran |-> FALSE]]
        /\ Meet(i) /\ entries' = entries
    BY <1>2, <2>1 DEF CreateInsert, schedVars
  <2>3. entries[i] = None
    BY <1>1, <2>1 DEF FreshInv
  <2>4. req'[r] = [at |-> "add", id |-> i, valid |-> valid, on |-> TRUE]
    BY <1>1, <2>1, <2>2
  <2>5. table'[i].there /\ table'[i].enabled
    BY <1>1, <2>1, <2>2
  <2>6. Fits(r, i)'
    <3>1. req'[r].at = "add"
      BY <2>4
    <3> QED BY <2>2, <2>3, <2>5, <3>1 DEF Fits
  <2> QED BY <1>1, <2>1, <2>2, <2>4, <2>6, SyncRequest DEF Meet, InFlight
<1>3. ASSUME NEW r \in Reqs, CreateAdd(r) PROVE SyncInv'
  <2>0. PICK i \in Ids : i = req[r].id
    BY <1>1, <1>3 DEF CreateAdd, Goto, TypeInv, HasId
  <2>1. /\ req[r].at = "add" /\ i \in Ids /\ req[r].valid \in BOOLEAN
        /\ req[r].valid \/ entries[i] = None
    BY <1>3, <2>0, KnownRegister DEF CreateAdd, Goto, Knows
  <2>2. /\ req' = [req EXCEPT ![r].at = IF req[r].valid THEN "end" ELSE "undo"]
        /\ Register(i, req[r].valid) /\ table' = table /\ suspect' = suspect
    BY <1>3, <2>0 DEF CreateAdd, Goto, tableVars
  <2>3. \A n \in Ids \ {i} : entries'[n] = entries[n]
    BY <1>1, <2>0, <2>1, <2>2, RegisterEntries
  <2>4. /\ req'[r].id = i /\ req'[r].valid = req[r].valid
        /\ req'[r].at = IF req[r].valid THEN "end" ELSE "undo"
    BY <1>1, <2>0, <2>2 DEF Requests
  <2>5. ASSUME i \notin suspect PROVE (InFlight(r)' => Fits(r, i)') /\ (~InFlight(r)' => Matches(i)')
    <3>1. /\ On(r, i) /\ Fits(r, i)
      BY <2>0, <2>1, <2>5 DEF SyncInv, Sync, On, InFlight
    <3>2. table[i].there /\ table[i].enabled /\ entries[i] = None /\ table[i].valid = req[r].valid
      BY <1>1, <2>0, <2>1, <3>1 DEF Fits, ValidInv, Knows
    <3>3. CASE req[r].valid
      <4>1. entries'[i] = nextEntry /\ nextEntry # None
        BY <1>1, <2>0, <2>1, <2>2, <3>3 DEF Register, TypeInv, TypeOK, None
      <4>2. Registrable(i)'
        BY <2>2, <3>2, <3>3 DEF Registrable
      <4>3. req'[r].at = "end"
        BY <2>4, <3>3
      <4> QED BY <4>1, <4>2, <4>3 DEF Matches, InFlight
    <3>4. CASE ~req[r].valid
      <4>1. entries' = entries
        BY <2>0, <2>2, <3>4 DEF Register
      <4>2. req'[r].at = "undo" /\ ~req'[r].valid
        BY <2>4, <3>4
      <4> QED BY <2>2, <3>2, <4>1, <4>2 DEF Fits, InFlight
    <3> QED BY <3>3, <3>4
  <2> QED BY <1>1, <2>0, <2>1, <2>2, <2>3, <2>4, <2>5, SyncRequest DEF InFlight
<1>4. ASSUME NEW r \in Reqs, CreateUndo(r) PROVE SyncInv'
  <2>0. PICK i \in Ids : i = req[r].id
    BY <1>1, <1>4 DEF CreateUndo, Goto, TypeInv, HasId
  <2>1. /\ req[r].at = "undo" /\ i \in Ids
    BY <1>1, <2>0, <1>4 DEF CreateUndo, Goto, TypeInv, HasId
  <2>2. /\ req' = [req EXCEPT ![r].at = "end"] /\ entries' = entries /\ suspect' = suspect
        /\ table' = table \/ table' = [table EXCEPT ![i] = NoRow]
    BY <1>4, <2>0 DEF CreateUndo, Goto, schedVars
  <2>3. req'[r].id = i /\ req'[r].at = "end"
    BY <1>1, <2>0, <2>2 DEF Requests
  <2>4. ASSUME i \notin suspect PROVE Matches(i)'
    <3>1. /\ On(r, i) /\ Fits(r, i)
      BY <2>0, <2>1, <2>4 DEF SyncInv, Sync, On, InFlight
    <3>2. entries[i] = None /\ ~table[i].valid
      BY <1>1, <2>0, <2>1, <3>1 DEF Fits, ValidInv, Knows
    <3> QED BY <1>1, <2>0, <2>1, <2>2, <3>2 DEF Matches, Registrable, NoRow
  <2> QED BY <1>1, <2>0, <2>1, <2>2, <2>3, <2>4, SyncRequest DEF InFlight
<1>5. ASSUME NEW r \in Reqs, NEW i \in Ids, DeleteRemove(r, i) PROVE SyncInv'
  <2>1. /\ req[r].at = "idle" /\ req' = [req EXCEPT ![r] = [Idle EXCEPT !.at = "row", !.id = i]]
        /\ entries' = [entries EXCEPT ![i] = None] /\ table' = table /\ Meet(i)
    BY <1>5 DEF DeleteRemove, Remove, tableVars
  <2>2. req'[r].id = i /\ req'[r].at = "row" /\ entries'[i] = None
    BY <1>1, <2>1 DEF Idle
  <2>3. Fits(r, i)'
    BY <2>2 DEF Fits
  <2> QED BY <1>1, <2>1, <2>2, <2>3, SyncRequest DEF Meet, InFlight
<1>6. ASSUME NEW r \in Reqs, DeleteRow(r) PROVE SyncInv'
  <2>0. PICK i \in Ids : i = req[r].id
    BY <1>1, <1>6 DEF DeleteRow, Goto, TypeInv, HasId
  <2>1. /\ req[r].at = "row" /\ i \in Ids
    BY <1>1, <2>0, <1>6 DEF DeleteRow, Goto, TypeInv, HasId
  <2>2. /\ req' = [req EXCEPT ![r].at = "end"] /\ entries' = entries
        /\ \/ table' = [table EXCEPT ![i] = NoRow] /\ suspect' = suspect
           \/ table' = table /\ suspect' = suspect \cup {i}
    BY <1>6, <2>0 DEF DeleteRow, Goto, schedVars
  <2>3. req'[r].id = i /\ req'[r].at = "end"
    BY <1>1, <2>0, <2>2 DEF Requests
  <2>4. ASSUME i \notin suspect' PROVE Matches(i)'
    <3>1. entries[i] = None
      BY <2>0, <2>1, <2>2, <2>4 DEF SyncInv, Sync, On, InFlight, Fits
    <3> QED BY <1>1, <2>0, <2>1, <2>2, <2>4, <3>1 DEF Matches, Registrable, NoRow
  <2> QED BY <1>1, <2>0, <2>1, <2>2, <2>3, <2>4, SyncRequest DEF InFlight
<1>7. ASSUME NEW r \in Reqs, NEW i \in Ids, NEW on \in BOOLEAN, ToggleRead(r, i, on)
      PROVE  SyncInv'
  <2>1. /\ req[r].at = "idle" /\ table[i].there /\ table' = table /\ entries' = entries
        /\ req' = [req EXCEPT ![r] = [at |-> "store", id |-> i, valid |-> table[i].valid, on |-> on]]
        /\ Meet(i)
    BY <1>7 DEF ToggleRead, tableVars, schedVars
  <2>2. req'[r].id = i /\ req'[r].at = "store"
    BY <1>1, <2>1
  <2>3. ASSUME Quiet(i), i \notin suspect' PROVE Fits(r, i)'
    <3>1. Matches(i)
      BY <2>1, <2>3 DEF Meet, SyncInv, Sync
    <3> QED BY <2>1, <2>2, <3>1 DEF Fits, Matches, Registrable
  <2>4. ~On(r, i)
    BY <2>1 DEF On, InFlight
  <2> QED BY <1>1, <2>1, <2>2, <2>3, <2>4, SyncRequest DEF Meet, InFlight
<1>8. ASSUME NEW r \in Reqs, ToggleStore(r) PROVE SyncInv'
  <2>0. PICK i \in Ids : i = req[r].id
    BY <1>1, <1>8 DEF ToggleStore, Goto, TypeInv, HasId
  <2>1. /\ req[r].at = "store" /\ i \in Ids /\ entries' = entries /\ suspect' = suspect
    BY <1>1, <2>0, <1>8 DEF ToggleStore, Goto, TypeInv, HasId, schedVars
  <2>2. \/ /\ req' = [req EXCEPT ![r].at = "apply"]
           /\ table' = IF ~table[i].there THEN table ELSE [table EXCEPT ![i].enabled = req[r].on]
        \/ req' = [req EXCEPT ![r].at = "end"] /\ table' = table
    BY <1>8, <2>0 DEF ToggleStore, Goto, tableVars
  <2>3. /\ req'[r].id = i /\ req'[r].on = req[r].on
        /\ req'[r].at = "apply" \/ (req'[r].at = "end" /\ table' = table)
    BY <1>1, <2>0, <2>2 DEF Requests
  <2>4. ASSUME i \notin suspect PROVE (InFlight(r)' => Fits(r, i)') /\ (~InFlight(r)' => Matches(i)')
    <3>1. Fits(r, i)
      BY <2>0, <2>1, <2>4 DEF SyncInv, Sync, On, InFlight
    <3>2. table[i].there /\ Matches(i)
      BY <2>0, <2>1, <3>1 DEF Fits
    <3>3. CASE req'[r].at = "end"
      <4>1. table' = table
        BY <2>0, <2>3, <3>3
      <4> QED BY <2>0, <2>1, <3>2, <3>3, <4>1 DEF Matches, Registrable, InFlight
    <3>4. CASE req'[r].at = "apply"
      <4>1. table' = [table EXCEPT ![i].enabled = req[r].on]
        BY <1>1, <2>0, <2>2, <3>2, <3>4 DEF Requests
      <4>2. table'[i].there /\ table'[i].enabled = req[r].on
        BY <1>1, <2>0, <2>1, <3>2, <4>1 DEF Row
      <4> QED BY <2>0, <2>3, <3>4, <4>2 DEF Fits, InFlight
    <3> QED BY <2>0, <2>3, <3>3, <3>4
  <2>5. \A n \in Ids \ {i} : table'[n] = table[n]
    BY <1>1, <2>0, <2>2
  <2>6. \A q \in Reqs \ {r} : req'[q] = req[q]
    BY <1>1, <2>0, <2>2
  <2> QED BY <1>1, <2>0, <2>1, <2>3, <2>4, <2>5, <2>6, SyncRequest DEF InFlight
<1>9. ASSUME NEW r \in Reqs, ToggleApply(r) PROVE SyncInv'
  <2>0. PICK i \in Ids : i = req[r].id
    BY <1>1, <1>9 DEF ToggleApply, Goto, TypeInv, HasId
  <2>1. /\ req[r].at = "apply" /\ i \in Ids /\ req[r].valid \in BOOLEAN
        /\ req[r].valid \/ entries[i] = None
    BY <1>9, <2>0, KnownRegister DEF ToggleApply, Goto, Knows
  <2>2. /\ req' = [req EXCEPT ![r].at = "end"] /\ table' = table /\ suspect' = suspect
        /\ IF req[r].on THEN Register(i, req[r].valid) ELSE Remove(i)
    BY <1>9, <2>0 DEF ToggleApply, Goto, tableVars
  <2>3. req'[r].id = i /\ req'[r].at = "end"
    BY <1>1, <2>0, <2>2 DEF Requests
  <2>4. \A n \in Ids \ {i} : entries'[n] = entries[n]
    BY <1>1, <2>0, <2>1, <2>2 DEF Register, Remove
  <2>5. ASSUME i \notin suspect PROVE Matches(i)'
    <3>1. Fits(r, i)
      BY <2>0, <2>1, <2>5 DEF SyncInv, Sync, On, InFlight
    <3>2. table[i].there /\ table[i].enabled = req[r].on /\ table[i].valid = req[r].valid
      BY <1>1, <2>0, <2>1, <3>1 DEF Fits, ValidInv, Knows
    <3>3. nextEntry # None
      BY <1>1 DEF TypeInv, TypeOK, None
    <3>4. CASE req[r].on
      <4>1. entries'[i] = IF req[r].valid THEN nextEntry ELSE entries[i]
        BY <1>1, <2>0, <2>1, <2>2, <3>4 DEF Register
      <4> QED BY <2>0, <2>1, <2>2, <3>2, <3>3, <3>4, <4>1 DEF Matches, Registrable
    <3>5. CASE ~req[r].on
      <4>1. entries'[i] = None
        BY <1>1, <2>0, <2>1, <2>2, <3>5 DEF Remove
      <4> QED BY <2>0, <2>2, <3>2, <3>5, <4>1 DEF Matches, Registrable
    <3> QED BY <3>4, <3>5
  <2> QED BY <1>1, <2>0, <2>1, <2>2, <2>3, <2>4, <2>5, SyncRequest DEF InFlight
<1>10. ASSUME UNCHANGED <<entries, req, suspect>>,
              \A i \in Ids : /\ table'[i].there = table[i].there
                            /\ table'[i].valid = table[i].valid
                            /\ table'[i].enabled = table[i].enabled
       PROVE  SyncInv'
  <2>1. \A i \in Ids : Matches(i)' <=> Matches(i)
    BY <1>10 DEF Matches, Registrable
  <2>2. \A r \in Reqs, i \in Ids : (On(r, i)' <=> On(r, i)) /\ (Fits(r, i)' <=> Fits(r, i))
    BY <1>10, <2>1 DEF On, InFlight, Fits
  <2>3. \A i \in Ids : Quiet(i)' <=> Quiet(i)
    BY <1>10 DEF Quiet, InFlight
  <2> QED BY <1>10, <2>1, <2>2, <2>3 DEF SyncInv, Sync
<1>11. ASSUME NEW e \in cron, Fire(e) PROVE SyncInv'
  <2>1. \A i \in Ids : /\ table'[i].there = table[i].there
                       /\ table'[i].valid = table[i].valid
                       /\ table'[i].enabled = table[i].enabled
    BY <1>1, <1>11 DEF Fire, Row
  <2> QED BY <1>10, <1>11, <2>1 DEF Fire, schedVars
<1>12. CASE CrashRestart
  <2>1. /\ table' = table
        /\ entries' = [i \in Ids |-> IF Registrable(i) THEN i ELSE None]
        /\ req' = [r \in Reqs |-> IF InFlight(r) THEN [req[r] EXCEPT !.at = "end"] ELSE req[r]]
    BY <1>12 DEF CrashRestart, tableVars
  <2>2. \A i \in Ids : Matches(i)'
    BY <1>1, <2>1 DEF Matches, Registrable
  <2>3. \A r \in Reqs : ~InFlight(r)'
    BY <1>1, <2>1 DEF InFlight, Requests
  <2> QED BY <2>2, <2>3 DEF SyncInv, Sync, On
<1>13. CASE UNCHANGED vars
  BY <1>10, <1>13 DEF vars
<1> QED
  BY <1>2, <1>3, <1>4, <1>5, <1>6, <1>7, <1>8, <1>9, <1>11, <1>12, <1>13 DEF Next, Step

(* A schedule no request is on, and on which none have raced since the start, *)
(* has a cron entry exactly when its row is there, enabled and valid, for any *)
(* number of requests, failures and restarts.                                 *)
THEOREM SyncCorrect == Spec => []InSync
<1>1. Init => SyncInv
  BY DEF Init, SyncInv, Sync, Matches, Registrable, On, InFlight, Idle, NoRow, None
<1>2. SchedInv /\ SyncInv /\ [Next]_vars => SyncInv'
  BY SyncStep
<1>3. SyncInv => InSync
  BY DEF SyncInv, Sync, InSync, Matches
<1> QED BY SchedInvariant, <1>1, <1>2, <1>3, PTL DEF Spec
=============================================================================
