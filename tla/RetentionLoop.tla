---------------------------- MODULE RetentionLoop ----------------------------
(* retention.Apply and buildKeepSet statement by statement, over every small  *)
(* listing, policy and clock, to be compared with the set definitions of      *)
(* Retention that the other modules are built on.                             *)
EXTENDS Retention, Sequences

CONSTANTS MaxDay, MaxTick, MaxKeep  \* bounds on the inputs

ASSUME BoundAssumption == MaxDay \in Nat /\ MaxTick \in Nat /\ MaxKeep \in Nat

VARIABLES
  present,   \* the dates in the destination
  dates,     \* the listed dates, sorted newest first
  keepLast, keepDays, today, tick,
  at,        \* "count", "age", "delete", "done": the loop it is in
  i,         \* that loop's index, from 0
  keep       \* the keep set built so far

input == <<dates, keepLast, keepDays, today, tick>>
vars  == <<present, input, at, i, keep>>

Listing == {dates[n] : n \in 1..Len(dates)}

NewestFirst(s) == \A m, n \in 1..Len(s) : m < n => s[m] > s[n]

Init ==
  /\ today \in 0..MaxDay /\ tick \in 0..MaxTick
  /\ present \in SUBSET (0..today)
  /\ dates \in [1..Cardinality(present) -> present]
  /\ NewestFirst(dates) /\ Listing = present
  /\ keepLast \in 0..MaxKeep /\ keepDays \in 0..MaxKeep
  /\ keepLast # 0 \/ keepDays # 0
  /\ at = "count" /\ i = 0 /\ keep = {}

(* A loop over dates whose body may change keep and present.                  *)
Loop(here, next, goesOn, body) ==
  /\ at = here
  /\ IF goesOn THEN body /\ at' = here /\ i' = i + 1
               ELSE at' = next /\ i' = 0 /\ UNCHANGED <<keep, present>>
  /\ UNCHANGED input

(* Mutants: one date too many; the age rule only without the other one.       *)
KeepRecentAndOne ==
  Loop("count", "age", i <= keepLast /\ i < Len(dates),
       keep' = keep \cup {dates[i + 1]} /\ UNCHANGED present)

KeepYoungElse ==
  Loop("age", "delete", keepLast = 0 /\ keepDays > 0 /\ i < Len(dates),
       /\ keep' = IF BeforeCutoff(dates[i + 1], keepDays, today, tick)
                  THEN keep ELSE keep \cup {dates[i + 1]}
       /\ UNCHANGED present)

KeepRecent ==
  Loop("count", "age", i < keepLast /\ i < Len(dates),
       keep' = keep \cup {dates[i + 1]} /\ UNCHANGED present)

KeepYoung ==
  Loop("age", "delete", keepDays > 0 /\ i < Len(dates),
       /\ keep' = IF BeforeCutoff(dates[i + 1], keepDays, today, tick)
                  THEN keep ELSE keep \cup {dates[i + 1]}
       /\ UNCHANGED present)

(* Every Delete succeeds here.  One that fails is only logged and the loop goes*)
(* on: BackupRun!DeleteDateFails.                                             *)
DeleteRest ==
  Loop("delete", "done", i < Len(dates),
       /\ present' = IF dates[i + 1] \in keep THEN present
                     ELSE present \ {dates[i + 1]}
       /\ UNCHANGED keep)

Finished == at = "done" /\ UNCHANGED vars

Next == KeepRecent \/ KeepYoung \/ DeleteRest \/ Finished

Spec == Init /\ [][Next]_vars

(* What the loops leave in an otherwise quiet destination is the keep set the *)
(* set definitions name, for every listing, policy and clock in the bounds.   *)
LoopLeavesKeepSet ==
  at = "done" =>
    present = KeepSet(Listing, keepLast, keepDays, today, tick)

(* At any moment of the pass the keepLast newest of the dates listed, and     *)
(* those that began less than keepDays days ago, are there: the time of day   *)
(* in the cutoff costs a date no more than the day it would be dropped on.    *)
CutShortIsSafe ==
  \A d \in Listing \ present :
    Cardinality(Newer(Listing, d)) >= keepLast /\ today - d >= keepDays
=============================================================================
