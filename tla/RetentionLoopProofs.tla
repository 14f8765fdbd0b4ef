------------------------- MODULE RetentionLoopProofs -------------------------
(* The loops of retention.Apply and buildKeepSet compute the sets of          *)
(* Retention, for a listing of any length and for any policy and clock.       *)
EXTENDS RetentionLoop, FiniteSetTheorems, SequenceTheorems, TLAPS

(* The first n of the dates listed.                                           *)
Top(n) == {dates[m] : m \in 1..n}

Input ==
  /\ dates \in Seq(Nat) /\ NewestFirst(dates)
  /\ keepLast \in Nat /\ keepDays \in Nat /\ today \in Nat /\ tick \in Nat
  /\ \A n \in 1..Len(dates) : dates[n] <= today

-------------------------------------------------------------------------------
(* Counting along the listing *)

LEMMA TopCount ==
  ASSUME Input, NEW n \in 0..Len(dates)
  PROVE  Cardinality(Top(n)) = n
<1> DEFINE f == [m \in 1..n |-> dates[m]]
<1>0. Len(dates) \in Nat /\ 1..n \subseteq 1..Len(dates)
  BY DEF Input
<1>1. \A m, l \in 1..n : m < l => dates[m] > dates[l]
  BY <1>0 DEF Input, NewestFirst
<1>2. \A m \in 1..n : dates[m] \in Nat
  BY <1>0 DEF Input
<1>3. f \in Bijection(1..n, Top(n))
  <2>1. f \in [1..n -> Top(n)]
    BY DEF Top
  <2>2. ASSUME NEW m \in 1..n, NEW l \in 1..n, f[m] = f[l] PROVE m = l
    BY <1>1, <1>2, <2>2
  <2>3. \A d \in Top(n) : \E m \in 1..n : f[m] = d
    BY DEF Top
  <2> HIDE DEF f
  <2>4. f \in Injection(1..n, Top(n))
    BY <2>1, <2>2 DEF Injection, IsInjective
  <2>5. f \in Surjection(1..n, Top(n))
    BY <2>1, <2>3 DEF Surjection
  <2> QED BY <2>4, <2>5 DEF Bijection
<1> QED BY <1>3, FS_CountingElements DEF ExistsBijection

LEMMA NewerAreAhead ==
  ASSUME Input, NEW n \in 1..Len(dates)
  PROVE  Newer(Listing, dates[n]) = Top(n - 1)
<1>1. \A m \in 1..Len(dates) : dates[m] \in Nat
  BY DEF Input
<1>2. \A m \in 1..Len(dates) : dates[m] > dates[n] <=> m < n
  BY <1>1 DEF Input, NewestFirst
<1>3. Len(dates) \in Nat
  BY DEF Input
<1> QED BY <1>2, <1>3 DEF Newer, Listing, Top

LEMMA NewerCount ==
  ASSUME Input, NEW n \in 1..Len(dates)
  PROVE  Cardinality(Newer(Listing, dates[n])) = n - 1
<1>1. n - 1 \in 0..Len(dates)
  BY DEF Input
<1> QED BY <1>1, NewerAreAhead, TopCount

(* Rule 1 keeps the first dates of the listing.                               *)
LEMMA CountKeepsTop ==
  ASSUME Input, NEW n \in 0..Len(dates), n = keepLast \/ (n < keepLast /\ n = Len(dates))
  PROVE  Top(n) = KeptByCount(Listing, keepLast)
<1>1. Len(dates) \in Nat /\ keepLast \in Nat
  BY DEF Input
<1>2. \A m \in 1..Len(dates) :
        Cardinality(Newer(Listing, dates[m])) < keepLast <=> m \in 1..n
  BY <1>1, NewerCount
<1>3. 1..n \subseteq 1..Len(dates)
  BY <1>1
<1>4. ASSUME NEW d \in Top(n) PROVE d \in KeptByCount(Listing, keepLast)
  BY <1>2, <1>3, <1>4 DEF KeptByCount, Top, Listing
<1>5. ASSUME NEW d \in KeptByCount(Listing, keepLast) PROVE d \in Top(n)
  <2>1. PICK m \in 1..Len(dates) : d = dates[m]
    BY <1>5 DEF KeptByCount, Listing
  <2> QED BY <1>2, <1>5, <2>1 DEF KeptByCount, Top
<1> QED BY <1>4, <1>5

-------------------------------------------------------------------------------
(* The loops *)

Young(n) == {d \in Top(n) : keepDays > 0 /\ ~BeforeCutoff(d, keepDays, today, tick)}

Kept == KeepSet(Listing, keepLast, keepDays, today, tick)

LoopInv ==
  /\ Input /\ i \in 0..Len(dates)
  /\ at \in {"count", "age", "delete", "done"}
  /\ at = "count" => i <= keepLast /\ keep = Top(i) /\ present = Listing
  /\ at = "age" =>
       /\ keepDays = 0 => i = 0
       /\ keep = KeptByCount(Listing, keepLast) \cup Young(i)
       /\ present = Listing
  /\ at = "delete" => keep = Kept /\ present = Listing \ (Top(i) \ Kept)
  /\ at = "done" => present = Kept

LEMMA TopFacts ==
  ASSUME Input
  PROVE  /\ Top(0) = {} /\ Top(Len(dates)) = Listing
         /\ \A n \in 0..Len(dates) :
              n < Len(dates) =>
                n + 1 \in 0..Len(dates) /\ Top(n + 1) = Top(n) \cup {dates[n + 1]}
<1>1. Len(dates) \in Nat
  BY DEF Input
<1>2. ASSUME NEW n \in 0..Len(dates), n < Len(dates)
      PROVE  n + 1 \in 0..Len(dates) /\ Top(n + 1) = Top(n) \cup {dates[n + 1]}
  <2>1. n + 1 \in 0..Len(dates) /\ 1..(n + 1) = (1..n) \cup {n + 1}
    BY <1>1, <1>2
  <2> QED BY <2>1 DEF Top
<1> QED BY <1>1, <1>2 DEF Top, Listing

LEMMA KeptFacts == Kept = KeptByCount(Listing, keepLast) \cup
                          {d \in Listing : keepDays > 0 /\ ~BeforeCutoff(d, keepDays, today, tick)}
BY DEF Kept, KeepSet, KeptByAge

LEMMA InitLoop == Init => LoopInv
<1> SUFFICES ASSUME Init PROVE LoopInv
  OBVIOUS
<1>1. present \subseteq 0..today /\ today \in Nat /\ tick \in Nat
  BY BoundAssumption DEF Init
<1>2. dates \in [1..Cardinality(present) -> present] /\ Cardinality(present) \in Nat
  <2>1. IsFiniteSet(0..today)
    BY <1>1, FS_Interval
  <2> QED BY <1>1, <2>1, FS_Subset, FS_CardinalityType DEF Init
<1>3. dates \in Seq(Nat) /\ \A n \in 1..Len(dates) : dates[n] <= today
  <2>0. present \subseteq Nat
    BY <1>1
  <2>1. dates \in [1..Cardinality(present) -> Nat]
    BY <1>2, <2>0
  <2>2. dates \in Seq(Nat)
    BY <1>2, <2>1, SeqDef
  <2>3. Len(dates) = Cardinality(present)
    BY <1>2, <2>1, <2>2, LenProperties
  <2> QED BY <1>1, <1>2, <2>2, <2>3
<1>4. Input
  BY <1>1, <1>3, BoundAssumption DEF Init, Input
<1>5. i \in 0..Len(dates) /\ i <= keepLast /\ Top(i) = {}
  BY <1>4, TopFacts DEF Init, Input
<1> QED BY <1>4, <1>5 DEF Init, LoopInv

LEMMA InputStays ==
  ASSUME UNCHANGED input
  PROVE  /\ Input => Input'
         /\ Listing' = Listing /\ Kept' = Kept
         /\ KeptByCount(Listing, keepLast)' = KeptByCount(Listing, keepLast)
         /\ \A n : Top(n)' = Top(n) /\ Young(n)' = Young(n)
BY DEF input, Input, Listing, Kept, Top, Young, NewestFirst, KeptByCount, BeforeCutoff, Newer,
   KeepSet, KeptByAge

LEMMA LoopStep == ASSUME LoopInv, [Next]_vars PROVE LoopInv'
<1>0. Input /\ i \in 0..Len(dates) /\ Len(dates) \in Nat /\ keepLast \in Nat
  BY DEF LoopInv, Input
<1>1. CASE KeepRecent
  <2>1. /\ UNCHANGED input /\ at = "count" /\ i <= keepLast
        /\ keep = Top(i) /\ present = Listing
    BY <1>1 DEF KeepRecent, Loop, LoopInv
  <2>2. CASE i < keepLast /\ i < Len(dates)
    <3>1. at' = "count" /\ i' = i + 1 /\ keep' = Top(i + 1) /\ present' = present
      BY <1>0, <1>1, <2>1, <2>2, TopFacts DEF KeepRecent, Loop
    <3> QED BY <1>0, <2>1, <2>2, <3>1, InputStays, TopFacts DEF LoopInv, input
  <2>3. CASE ~(i < keepLast /\ i < Len(dates))
    <3>1. at' = "age" /\ i' = 0 /\ UNCHANGED <<keep, present>>
      BY <1>1, <2>3 DEF KeepRecent, Loop
    <3>2. keep = KeptByCount(Listing, keepLast)
      BY <1>0, <2>1, <2>3, CountKeepsTop
    <3>3. Young(0) = {}
      BY <1>0, TopFacts DEF Young
    <3> QED BY <1>0, <2>1, <3>1, <3>2, <3>3, InputStays DEF LoopInv, input
  <2> QED BY <2>2, <2>3
<1>2. CASE KeepYoung
  <2>1. /\ UNCHANGED input /\ at = "age" /\ (keepDays = 0 => i = 0)
        /\ keep = KeptByCount(Listing, keepLast) \cup Young(i) /\ present = Listing
    BY <1>2 DEF KeepYoung, Loop, LoopInv
  <2>2. CASE keepDays > 0 /\ i < Len(dates)
    <3>1. at' = "age" /\ i' = i + 1 /\ present' = present
      BY <1>2, <2>2 DEF KeepYoung, Loop
    <3>2. keep' = IF BeforeCutoff(dates[i + 1], keepDays, today, tick)
                  THEN keep ELSE keep \cup {dates[i + 1]}
      BY <1>2, <2>2 DEF KeepYoung, Loop
    <3>3. Top(i + 1) = Top(i) \cup {dates[i + 1]} /\ i + 1 \in 0..Len(dates)
      BY <1>0, <2>2, TopFacts
    <3>4. keep' = KeptByCount(Listing, keepLast) \cup Young(i + 1)
      BY <2>1, <2>2, <3>2, <3>3 DEF Young
    <3>5. keepDays # 0
      BY <2>2
    <3> QED BY <1>0, <2>1, <3>1, <3>3, <3>4, <3>5, InputStays DEF LoopInv, input
  <2>3. CASE ~(keepDays > 0 /\ i < Len(dates))
    <3>1. at' = "delete" /\ i' = 0 /\ UNCHANGED <<keep, present>>
      BY <1>2, <2>3 DEF KeepYoung, Loop
    <3>2. Young(i) = {d \in Listing : keepDays > 0 /\ ~BeforeCutoff(d, keepDays, today, tick)}
      <4>1. CASE keepDays > 0
        <5>1. i = Len(dates)
          BY <1>0, <2>3, <4>1
        <5> QED BY <1>0, <5>1, TopFacts DEF Young
      <4>2. CASE ~(keepDays > 0)
        BY <4>2 DEF Young
      <4> QED BY <4>1, <4>2
    <3>3. keep = Kept
      BY <2>1, <3>2, KeptFacts
    <3>4. Top(0) = {}
      BY <1>0, TopFacts
    <3> QED BY <1>0, <2>1, <3>1, <3>3, <3>4, InputStays DEF LoopInv
  <2> QED BY <2>2, <2>3
<1>3. CASE DeleteRest
  <2>1. /\ UNCHANGED input /\ at = "delete" /\ keep = Kept
        /\ present = Listing \ (Top(i) \ Kept)
    BY <1>3 DEF DeleteRest, Loop, LoopInv
  <2>2. CASE i < Len(dates)
    <3>1. /\ at' = "delete" /\ i' = i + 1 /\ keep' = keep
          /\ present' = IF dates[i + 1] \in keep THEN present ELSE present \ {dates[i + 1]}
      BY <1>3, <2>2 DEF DeleteRest, Loop
    <3>2. Top(i + 1) = Top(i) \cup {dates[i + 1]} /\ i + 1 \in 0..Len(dates)
      BY <1>0, <2>2, TopFacts
    <3>3. present' = Listing \ (Top(i + 1) \ Kept)
      BY <2>1, <3>1, <3>2
    <3> QED BY <1>0, <2>1, <3>1, <3>2, <3>3, InputStays DEF LoopInv, input
  <2>3. CASE ~(i < Len(dates))
    <3>1. at' = "done" /\ i' = 0 /\ UNCHANGED <<keep, present>>
      BY <1>3, <2>3 DEF DeleteRest, Loop
    <3>2. i = Len(dates)
      BY <1>0, <2>3
    <3>3. Kept \subseteq Listing
      BY KeptFacts DEF KeptByCount
    <3>4. present = Kept
      BY <1>0, <2>1, <3>2, <3>3, TopFacts
    <3> QED BY <1>0, <2>1, <3>1, <3>4, InputStays DEF LoopInv, input
  <2> QED BY <2>2, <2>3
<1>4. CASE UNCHANGED vars
  <2>1. UNCHANGED <<input, present, at, i, keep>>
    BY <1>4 DEF vars
  <2> QED BY <1>0, <2>1, InputStays DEF LoopInv, input
<1> QED BY <1>1, <1>2, <1>3, <1>4 DEF Next, Finished

LEMMA LoopInvariant == Spec => []LoopInv
BY InitLoop, LoopStep, PTL DEF Spec

(* The loops delete exactly the dates that neither rule keeps.                *)
THEOREM LoopCorrect == Spec => []LoopLeavesKeepSet
<1>1. LoopInv => LoopLeavesKeepSet
  BY DEF LoopInv, LoopLeavesKeepSet, Kept
<1> QED BY <1>1, LoopInvariant, PTL

(* However short a pass is cut, what it has deleted had keepLast newer dates  *)
(* in the listing and began keepDays days ago or more.                        *)
THEOREM CutShortCorrect == Spec => []CutShortIsSafe
<1>1. ASSUME LoopInv, NEW d \in Listing \ present
      PROVE  Cardinality(Newer(Listing, d)) >= keepLast /\ today - d >= keepDays
  <2>1. Input /\ d \in Listing \ Kept
    BY <1>1 DEF LoopInv
  <2>2. PICK n \in 1..Len(dates) : d = dates[n]
    BY DEF Listing
  <2>3. /\ Cardinality(Newer(Listing, d)) \in Int /\ d \in Nat /\ d <= today
        /\ keepLast \in Nat /\ keepDays \in Nat /\ today \in Nat
    BY <2>1, <2>2, NewerCount DEF Input
  <2>4. ~(Cardinality(Newer(Listing, d)) < keepLast)
    BY <2>1, KeptFacts DEF KeptByCount
  <2>5. keepDays > 0 => BeforeCutoff(d, keepDays, today, tick)
    BY <2>1, KeptFacts
  <2>6. today - d >= keepDays
    BY <2>3, <2>5 DEF BeforeCutoff
  <2> QED BY <2>3, <2>4, <2>6
<1>2. LoopInv => CutShortIsSafe
  BY <1>1 DEF CutShortIsSafe
<1> QED BY <1>2, LoopInvariant, PTL
=============================================================================
