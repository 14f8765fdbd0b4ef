------------------------------ MODULE Retention ------------------------------
(* internal/retention: which backup dates a policy keeps.  A date is a day    *)
(* number.  The time of day is a tick: tick 0 is midnight, when a date        *)
(* begins, and any other tick is later that day.                              *)
EXTENDS Integers, FiniteSets

Newer(dates, d) == {e \in dates : e > d}

(* Mutants of KeptByCount: one too few, one too many.                         *)
KeptByCountShort(dates, n) == {d \in dates : Cardinality(Newer(dates, d)) + 1 < n}
KeptByCountLong(dates, n)  == {d \in dates : Cardinality(Newer(dates, d)) <= n}

(* Rule 1: the n first of the dates sorted newest first.                      *)
KeptByCount(dates, n) == {d \in dates : Cardinality(Newer(dates, d)) < n}

(* t.Before(now.AddDate(0, 0, -n)), where t is the midnight date d begins at: *)
(* the cutoff keeps the time of day of now.                                   *)
BeforeCutoff(d, n, today, tick) ==
  \/ d < today - n
  \/ d = today - n /\ tick > 0

(* Rule 2.                                                                    *)
KeptByAge(dates, n, today, tick) ==
  {d \in dates : n > 0 /\ ~BeforeCutoff(d, n, today, tick)}

(* Mutant of KeepSet: the age rule replaces the other one.                    *)
KeepSetAgeFirst(dates, keepLast, keepDays, today, tick) ==
  IF keepDays > 0 THEN KeptByAge(dates, keepDays, today, tick)
                  ELSE KeptByCount(dates, keepLast)

(* buildKeepSet: a date stays when either rule keeps it.                      *)
KeepSet(dates, keepLast, keepDays, today, tick) ==
  KeptByCount(dates, keepLast) \cup KeptByAge(dates, keepDays, today, tick)
=============================================================================
