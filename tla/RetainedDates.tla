---------------------------- MODULE RetainedDates ----------------------------
(* What the retention policy promises about a destination, whoever runs the   *)
(* backups and however their retention passes interleave: dates appear when   *)
(* something is stored under them; a date goes away only when at least Floor  *)
(* newer dates exist at that moment and it is older than MinAge days.  Floor  *)
(* and MinAge are lower bounds on the keep_last and keep_days of every        *)
(* policy in use (0: no such bound).                                          *)
EXTENDS Retention

CONSTANTS MaxDay, Floor, MinAge

VARIABLES dates, today, tick
vars == <<dates, today, tick>>

Days == 0..MaxDay

Settled(d) == Cardinality(Newer(dates, d)) >= Floor
Aged(d)    == MinAge > 0 => BeforeCutoff(d, MinAge, today, tick)

Init ==
  /\ today \in Days /\ tick = 0
  /\ dates \in SUBSET (0..today)

Store(d) ==
  /\ d <= today
  /\ dates' = dates \cup {d}
  /\ UNCHANGED <<today, tick>>

Expire(d) ==
  /\ Settled(d) /\ Aged(d)
  /\ dates' = dates \ {d}
  /\ UNCHANGED <<today, tick>>

Advance ==
  /\ \/ today' = today /\ tick' > tick
     \/ today' = today + 1 /\ tick' = 0
  /\ UNCHANGED dates

Next ==
  \/ \E d \in Days : Store(d) \/ Expire(d)
  \/ Advance

Spec == Init /\ [][Next]_vars
=============================================================================
