--------------------------- MODULE SettingsProofs ---------------------------
(* Theorems about Settings, for any keys, values, requests and restarts.      *)
EXTENDS Settings, TLAPS

Filled(m) == m \in Maps /\ \A k \in DOMAIN m : m[k] # Empty

LEMMA MapsFacts ==
  ASSUME NEW m \in Maps
  PROVE  DOMAIN m \subseteq Keys /\ \A k \in DOMAIN m : m[k] \in Values \cup {Empty}
BY DEF Maps

LEMMA NoMapFacts == Filled(NoMap) /\ DOMAIN NoMap = {}
<1>1. NoMap \in [{} -> Values \cup {Empty}] /\ DOMAIN NoMap = {}
  BY DEF NoMap
<1> QED BY <1>1 DEF Filled, Maps

(* An upsert of what is not empty.                                            *)
LEMMA UpsertFacts ==
  ASSUME NEW m, Filled(m), NEW body \in Maps
  PROVE  /\ Filled(Upsert(m, body))
         /\ \A k \in Keys :
              IF k \in DOMAIN body /\ body[k] # Empty
                THEN k \in DOMAIN Upsert(m, body) /\ Upsert(m, body)[k] = body[k]
                ELSE /\ k \in DOMAIN Upsert(m, body) <=> k \in DOMAIN m
                     /\ k \in DOMAIN m => Upsert(m, body)[k] = m[k]
<1> DEFINE new == {k \in DOMAIN body : body[k] # Empty}
           u == [k \in DOMAIN m \cup new |-> IF k \in new THEN body[k] ELSE m[k]]
<1>1. Upsert(m, body) = u
  BY DEF Upsert
<1>2. /\ DOMAIN m \subseteq Keys /\ \A k \in DOMAIN m : m[k] \in Values /\ m[k] # Empty
      /\ new \subseteq Keys /\ \A k \in new : body[k] \in Values /\ body[k] # Empty
  BY MapsFacts DEF Filled
<1>3. DOMAIN u = DOMAIN m \cup new /\ \A k \in DOMAIN u : u[k] \in Values /\ u[k] # Empty
  BY <1>2
<1>4. u \in [DOMAIN m \cup new -> Values \cup {Empty}] /\ DOMAIN m \cup new \in SUBSET Keys
  BY <1>2, <1>3
<1>5. Filled(u)
  BY <1>3, <1>4 DEF Filled, Maps
<1> QED BY <1>1, <1>2, <1>3, <1>5

(* A text that is not empty is read as a value of the configuration.          *)
LEMMA ReadingFacts ==
  ASSUME NEW k \in Keys, NEW v
  PROVE  /\ v \in Values => Reading(k, v) \in Values \cup {Empty, Zero}
         /\ k \notin Typed => Reading(k, v) = v
BY SettingsAssumption DEF Reading

LEMMA MergeFacts ==
  ASSUME NEW c \in Configurations, NEW m \in Maps
  PROVE  /\ Merge(c, m) \in Configurations
         /\ \A k \in Keys : k \notin DOMAIN m => Merge(c, m)[k] = c[k]
         /\ \A k \in DOMAIN m : m[k] # Empty => Merge(c, m)[k] = Reading(k, m[k])
<1>1. DOMAIN m \subseteq Keys /\ \A k \in DOMAIN m : m[k] \in Values \cup {Empty}
  BY MapsFacts
<1>2. ASSUME NEW k \in Keys PROVE Merge(c, m)[k] \in Values \cup {Empty, Zero}
  <2>1. CASE k \in DOMAIN m /\ m[k] # Empty
    <3>1. Merge(c, m)[k] = Reading(k, m[k]) /\ m[k] \in Values
      BY <1>1, <2>1 DEF Merge
    <3> QED BY <3>1, ReadingFacts
  <2>2. CASE k \in DOMAIN m /\ m[k] = Empty /\ k \in Clearable
    <3>1. Merge(c, m)[k] = Reading(k, Empty) /\ k \notin Typed
      BY <2>2, SettingsAssumption DEF Merge
    <3> QED BY <3>1, ReadingFacts
  <2>3. CASE k \notin DOMAIN m \/ (m[k] = Empty /\ k \notin Clearable)
    <3>1. Merge(c, m)[k] = c[k]
      BY <2>3 DEF Merge
    <3> QED BY <3>1 DEF Configurations
  <2> QED BY <2>1, <2>2, <2>3
<1>3. Merge(c, m) \in Configurations
  <2>1. Merge(c, m) = [k \in Keys |-> Merge(c, m)[k]]
    BY DEF Merge
  <2> QED BY <1>2, <2>1 DEF Configurations
<1> QED BY <1>1, <1>3 DEF Merge

LEMMA BootFacts ==
  ASSUME NEW m, Filled(m)
  PROVE  /\ Boot(m) \in Configurations
         /\ \A k \in Keys \ DOMAIN Env :
              Boot(m)[k] = IF k \in DOMAIN m THEN Reading(k, m[k]) ELSE File[k]
<1>1. File \in Configurations /\ Env \in Maps /\ m \in Maps
  BY SettingsAssumption DEF Configurations, Filled
<1>2. Loaded \in Configurations /\ \A k \in Keys \ DOMAIN Env : Loaded[k] = File[k]
  BY <1>1, MergeFacts DEF Loaded
<1>3. /\ Merge(Loaded, m) \in Configurations
      /\ \A k \in Keys \ DOMAIN Env :
           Merge(Loaded, m)[k] = IF k \in DOMAIN m THEN Reading(k, m[k]) ELSE File[k]
  BY <1>1, <1>2, MergeFacts DEF Filled
<1> QED BY <1>1, <1>3, MergeFacts DEF Boot

-------------------------------------------------------------------------------
(* Types *)

Requests == [at : {"idle", "read", "merge", "build", "keep"} \cup Over,
             body : Bodies \cup {NoMap}, seen : Maps,
             new : Configurations, old : Values \cup {Fallback}]

Lives == [cfg : Configurations, dest : Values \cup {Fallback}]

(* The key that selects the destination is never empty: nothing filled with   *)
(* an empty value reaches the configuration there.                            *)
TypeInv ==
  /\ TypeOK
  /\ live.cfg[DestKey] \in Values
  /\ \A r \in Reqs : put[r].new[DestKey] \in Values /\ Filled(put[r].seen)

LEMMA IdleType ==
  Idle \in Requests /\ Idle.new[DestKey] \in Values /\ Filled(Idle.seen)
BY NoMapFacts, SettingsAssumption DEF Idle, Requests, Filled, Configurations

LEMMA EnvFilled == Filled(Env)
BY SettingsAssumption DEF Filled

LEMMA MergeDest ==
  ASSUME NEW c \in Configurations, NEW m, Filled(m), c[DestKey] \in Values
  PROVE  Merge(c, m)[DestKey] \in Values
<1>1. \A k \in DOMAIN m : m[k] \in Values
  BY MapsFacts DEF Filled
<1>2. Merge(c, m)[DestKey] = IF DestKey \in DOMAIN m /\ m[DestKey] # Empty
                            THEN m[DestKey] ELSE c[DestKey]
  BY ReadingFacts, SettingsAssumption DEF Merge, Filled
<1> QED BY <1>1, <1>2 DEF Filled

LEMMA BootDest ==
  ASSUME NEW m, Filled(m)
  PROVE  Boot(m) \in Configurations /\ Boot(m)[DestKey] \in Values
<1>1. File \in Configurations /\ File[DestKey] \in Values
  BY SettingsAssumption DEF Configurations
<1>2. Loaded \in Configurations /\ Loaded[DestKey] \in Values
  BY <1>1, EnvFilled, MergeDest, MergeFacts DEF Loaded, Filled
<1>3. Merge(Loaded, m) \in Configurations /\ Merge(Loaded, m)[DestKey] \in Values
  BY <1>2, MergeDest, MergeFacts DEF Filled
<1> QED BY <1>3, EnvFilled, MergeDest, MergeFacts DEF Boot, Filled

LEMMA StartedType ==
  ASSUME NEW m, Filled(m), Started(Boot(m))
  PROVE  live' \in Lives /\ live'.cfg = Boot(m) /\ live'.cfg[DestKey] \in Values
BY BootDest DEF Started, Lives

LEMMA InitType == Init => TypeInv
<1> SUFFICES ASSUME Init PROVE TypeInv
  OBVIOUS
<1>1. Filled(NoMap) /\ Env \in Maps
  BY NoMapFacts, SettingsAssumption
<1>2. Filled(db)
  BY <1>1, UpsertFacts DEF Init
<1>3. live \in Lives /\ live.cfg[DestKey] \in Values
  BY <1>1, BootDest DEF Init, Lives
<1>4. put \in [Reqs -> Requests] /\ \A r \in Reqs : put[r] = Idle
  BY IdleType DEF Init
<1>5. crashes \in 0..MaxCrashes
  BY SettingsAssumption DEF Init
<1>6. doubt \in BOOLEAN
  BY DEF Init
<1> QED BY <1>2, <1>3, <1>4, <1>5, <1>6, IdleType DEF TypeInv, TypeOK, Filled, Lives, Requests

PutsTyped ==
  /\ put' \in [Reqs -> Requests]
  /\ \A s \in Reqs : put'[s].new[DestKey] \in Values /\ Filled(put'[s].seen)

(* A step of request r that leaves it in state q.                             *)
LEMMA PutType ==
  ASSUME TypeInv, NEW r \in Reqs, NEW q \in Requests, put' = [put EXCEPT ![r] = q],
         q.new[DestKey] \in Values, Filled(q.seen)
  PROVE  PutsTyped
<1>1. put \in [Reqs -> Requests]
  BY DEF TypeInv, TypeOK, Requests
<1>2. put' \in [Reqs -> Requests]
  BY <1>1
<1>3. put'[r] = q /\ \A s \in Reqs : s # r => put'[s] = put[s]
  BY <1>1
<1>4. ASSUME NEW s \in Reqs PROVE put'[s].new[DestKey] \in Values /\ Filled(put'[s].seen)
  <2>1. CASE s = r
    BY <1>3, <2>1
  <2>2. CASE s # r
    BY <1>3, <2>2 DEF TypeInv
  <2> QED BY <2>1, <2>2
<1> QED BY <1>2, <1>4 DEF PutsTyped

LEMMA StepType ==
  ASSUME TypeInv, NEW r \in Reqs, Step(r)
  PROVE  TypeInv'
<1>1. /\ put \in [Reqs -> Requests] /\ put[r] \in Requests /\ live \in Lives
      /\ Filled(db) /\ crashes \in 0..MaxCrashes /\ doubt \in BOOLEAN
      /\ live.cfg[DestKey] \in Values
      /\ put[r].new[DestKey] \in Values /\ Filled(put[r].seen)
  BY DEF TypeInv, TypeOK, Requests, Lives, Filled
<1>2. PutsTyped
  <2>1. ASSUME NEW body \in Bodies, PutStore(r, body) PROVE PutsTyped
    <3>1. PICK q \in Requests : q = [put[r] EXCEPT !.at = "read", !.body = body]
      BY <1>1 DEF Requests
    <3>2. put' = [put EXCEPT ![r] = q]
      BY <2>1, <3>1 DEF PutStore
    <3>3. q.new = put[r].new /\ q.seen = put[r].seen
      BY <1>1, <3>1 DEF Requests
    <3> QED BY <1>1, <3>2, <3>3, PutType
  <2>2. ASSUME PutRead(r) PROVE PutsTyped
    <3>1. PICK q \in Requests : q = [put[r] EXCEPT !.at = "merge", !.seen = db]
      BY <1>1 DEF Requests, Filled
    <3>2. put' = [put EXCEPT ![r] = q]
      BY <2>2, <3>1 DEF PutRead
    <3>3. q.new = put[r].new /\ q.seen = db
      BY <1>1, <3>1 DEF Requests
    <3> QED BY <1>1, <3>2, <3>3, PutType
  <2>3. ASSUME PutMerge(r) PROVE PutsTyped
    <3>1. PICK c : c = Merge(live.cfg, put[r].seen)
      OBVIOUS
    <3>2. c \in Configurations /\ c[DestKey] \in Values
      BY <1>1, <3>1, MergeFacts, MergeDest DEF Lives, Filled
    <3>3. PICK q \in Requests : q = [put[r] EXCEPT !.at = "build", !.seen = NoMap, !.new = c]
      BY <1>1, <3>2, NoMapFacts DEF Requests, Filled
    <3>4. put' = [put EXCEPT ![r] = q]
      BY <2>3, <3>1, <3>3 DEF PutMerge
    <3>5. q.new = c /\ q.seen = NoMap
      BY <1>1, <3>3 DEF Requests
    <3> QED BY <3>2, <3>4, <3>5, NoMapFacts, PutType
  <2>4. ASSUME PutKeep(r) PROVE PutsTyped
    <3>1. PICK q \in Requests : q = [put[r] EXCEPT !.at = "keep", !.old = live.dest]
      BY <1>1 DEF Requests, Lives
    <3>2. put' = [put EXCEPT ![r] = q]
      BY <2>4, <3>1 DEF PutKeep
    <3>3. q.new = put[r].new /\ q.seen = put[r].seen
      BY <1>1, <3>1 DEF Requests
    <3> QED BY <1>1, <3>2, <3>3, PutType
  <2>5. ASSUME NEW q, \E at \in Over : q = [Idle EXCEPT !.at = at],
               put' = [put EXCEPT ![r] = q]
        PROVE  PutsTyped
    <3>1. q \in Requests /\ q.new = Idle.new /\ q.seen = Idle.seen
      BY <2>5, IdleType DEF Requests
    <3> QED BY <2>5, <3>1, IdleType, PutType
  <2>6. CASE PutFails(r)
    <3>1. put' = [put EXCEPT ![r] = [Idle EXCEPT !.at = "error"]]
      BY <2>6 DEF PutFails
    <3> QED BY <2>5, <3>1 DEF Over
  <2>7. CASE PutSwap(r) \/ PutKept(r)
    <3>1. put' = [put EXCEPT ![r] = [Idle EXCEPT !.at = "saved"]]
      BY <2>7 DEF PutSwap, PutKept
    <3> QED BY <2>5, <3>1 DEF Over
  <2> QED BY <2>1, <2>2, <2>3, <2>4, <2>6, <2>7 DEF Step
<1>3. Filled(db')
  <2>1. ASSUME NEW body \in Bodies, PutStore(r, body) PROVE Filled(db')
    <3>1. db' = Upsert(db, body) /\ body \in Maps
      BY <2>1, SettingsAssumption DEF PutStore
    <3> QED BY <1>1, <3>1, UpsertFacts
  <2>2. CASE db' = db
    BY <1>1, <2>2
  <2> QED BY <2>1, <2>2 DEF Step, PutRead, PutFails, PutMerge, PutSwap, PutKeep, PutKept
<1>4. live' \in Lives /\ live'.cfg[DestKey] \in Values
  <2>1. CASE PutSwap(r)
    BY <1>1, <2>1 DEF PutSwap, Lives, Requests
  <2>2. CASE PutKept(r)
    BY <1>1, <2>2 DEF PutKept, Lives, Requests
  <2> QED BY <1>1, <2>1, <2>2 DEF Step, PutStore, PutRead, PutFails, PutMerge, PutKeep
<1>5. crashes' \in 0..MaxCrashes
  BY <1>1 DEF Step, PutStore, PutRead, PutFails, PutMerge, PutSwap, PutKeep, PutKept
<1>6. doubt' \in BOOLEAN
  BY <1>1 DEF Step, PutStore, PutRead, PutFails, PutMerge, PutSwap, PutKeep, PutKept
<1> QED BY <1>2, <1>3, <1>4, <1>5, <1>6
  DEF PutsTyped, TypeInv, TypeOK, Filled, Lives, Requests

LEMMA RestartType == ASSUME TypeInv, Restart PROVE TypeInv'
<1>1. /\ put \in [Reqs -> Requests] /\ live \in Lives
      /\ Filled(db) /\ crashes \in 0..MaxCrashes
  BY DEF TypeInv, TypeOK, Requests, Lives, Filled
<1>2. PutsTyped
  <2>1. PICK q \in Requests : q = [Idle EXCEPT !.at = "dead"]
    BY IdleType DEF Requests, Over
  <2>2. q.new = Idle.new /\ q.seen = Idle.seen
    BY <2>1, IdleType DEF Requests
  <2>3. put' = [r \in Reqs |-> IF InFlight(r) THEN q ELSE put[r]]
    BY <2>1 DEF Restart
  <2> QED BY <1>1, <2>2, <2>3, IdleType DEF PutsTyped, TypeInv
<1>3. Filled(db') /\ live' \in Lives /\ live'.cfg[DestKey] \in Values
  <2>1. Filled(Upsert(db, Env))
    BY <1>1, UpsertFacts, SettingsAssumption
  <2> QED BY <1>1, <2>1, NoMapFacts, StartedType DEF Restart
<1>4. crashes' \in 0..MaxCrashes
  BY <1>1, SettingsAssumption DEF Restart
<1>5. doubt' \in BOOLEAN
  BY DEF Restart
<1> QED BY <1>2, <1>3, <1>4, <1>5
  DEF PutsTyped, TypeInv, TypeOK, Filled, Lives, Requests

LEMMA TypeStep == ASSUME TypeInv, [Next]_vars PROVE TypeInv'
<1>1. CASE UNCHANGED vars
  BY <1>1 DEF vars, TypeInv, TypeOK, Filled
<1> QED BY <1>1, StepType, RestartType DEF Next

LEMMA TypeInvariant == Spec => []TypeInv
BY InitType, TypeStep, PTL DEF Spec

(* Every variable stays in its type, and the settings table never holds an    *)
(* empty value.                                                               *)
THEOREM TypeCorrect == Spec => []TypeOK
<1>1. TypeInv => TypeOK
  BY DEF TypeInv
<1> QED BY <1>1, TypeInvariant, PTL

-------------------------------------------------------------------------------
(* Layers *)

(* What the table and the environment are silent about is the file's.         *)
Underlay(c, m) == \A k \in Keys \ (DOMAIN Env \cup DOMAIN m) : c[k] = File[k]

(* c is what a start would load from m, the environment's keys apart.         *)
Overlay(c, m) == \A k \in Keys \ DOMAIN Env : c[k] = Boot(m)[k]

Sent(body) == {k \in DOMAIN body : body[k] # Empty}

(* What a request in flight has brought about, or will: m is the table and d  *)
(* the destination in use.                                                    *)
Pend(q, m, d) ==
  /\ q.at = "merge" => q.seen = m
  /\ q.at \in {"read", "merge"} =>
       \A k \in Sent(q.body) : k \in DOMAIN m /\ m[k] = q.body[k]
  /\ q.at \in {"build", "keep"} =>
       Overlay(q.new, m) /\ \A k \in Sent(q.body) : q.new[k] = Reading(k, q.body[k])
  /\ q.at = "keep" => q.old = d

Alone == \A r, s \in Reqs : InFlight(r) /\ InFlight(s) => r = s

Layers ==
  /\ Alone
  /\ Underlay(live.cfg, db)
  /\ Quiet => Overlay(live.cfg, db)
  /\ \A r \in Reqs : Pend(put[r], db, live.dest)

LayerInv == ~doubt => Layers

LEMMA OverlayIsUnderlay ==
  ASSUME NEW c, NEW m, Filled(m), Overlay(c, m)
  PROVE  Underlay(c, m)
BY BootFacts DEF Overlay, Underlay

LEMMA NotInFlight ==
  ASSUME NEW q, q.at \in Over \cup {"idle"}, NEW m, NEW d
  PROVE  Pend(q, m, d)
BY DEF Pend, Over

(* The only request in flight moves on.                                       *)
LEMMA OneMoves ==
  ASSUME TypeInv, Alone, NEW r \in Reqs, Quiet \/ InFlight(r), NEW q,
         put' = [put EXCEPT ![r] = q]
  PROVE  /\ put'[r] = q
         /\ \A s \in Reqs : s # r => put'[s] = put[s] /\ put'[s].at \in Over \cup {"idle"}
         /\ Alone'
         /\ \A m, d : Pend(q, m, d) => \A s \in Reqs : Pend(put'[s], m, d)
<1>1. put'[r] = q /\ \A s \in Reqs : s # r => put'[s] = put[s]
  BY DEF TypeInv, TypeOK
<1>2. \A s \in Reqs : s # r => put[s].at \in Over \cup {"idle"}
  BY DEF Alone, Quiet, InFlight
<1>3. Alone'
  BY <1>1, <1>2 DEF Alone, InFlight
<1>4. ASSUME NEW m, NEW d, Pend(q, m, d), NEW s \in Reqs PROVE Pend(put'[s], m, d)
  <2>1. CASE s = r
    BY <1>1, <1>4, <2>1
  <2>2. CASE s # r
    BY <1>1, <1>2, <2>2, NotInFlight
  <2> QED BY <2>1, <2>2
<1> QED BY <1>1, <1>2, <1>3, <1>4

LEMMA StoreLayer ==
  ASSUME TypeInv, LayerInv, NEW r \in Reqs, NEW body \in Bodies, PutStore(r, body), ~doubt'
  PROVE  Layers'
<1>1. Quiet /\ ~doubt
  BY DEF PutStore
<1>2. Layers
  BY <1>1 DEF LayerInv
<1>3. body \in Maps /\ Filled(db) /\ db' = Upsert(db, body) /\ live' = live
  BY SettingsAssumption DEF TypeInv, TypeOK, Filled, PutStore
<1>4. PICK q : q = [put[r] EXCEPT !.at = "read", !.body = body]
  OBVIOUS
<1>5. put' = [put EXCEPT ![r] = q] /\ put[r] \in Requests
  BY <1>4 DEF PutStore, TypeInv, TypeOK, Requests
<1>6. q.at = "read" /\ q.body = body
  BY <1>4, <1>5 DEF Requests
<1>7. Pend(q, db', live'.dest)
  BY <1>3, <1>6, UpsertFacts, MapsFacts DEF Pend, Sent
<1>8. /\ Alone' /\ put'[r] = q
      /\ \A s \in Reqs : Pend(put'[s], db', live'.dest)
  BY <1>1, <1>2, <1>5, <1>7, OneMoves DEF Layers
<1>9. ~Quiet'
  BY <1>6, <1>8 DEF Quiet, InFlight, Over
<1>10. Underlay(live'.cfg, db')
  BY <1>2, <1>3, UpsertFacts DEF Layers, Underlay
<1> QED BY <1>8, <1>9, <1>10 DEF Layers

(* The steps of a request that leave the table alone.                         *)
LEMMA LaterLayer ==
  ASSUME TypeInv, LayerInv, NEW r \in Reqs, ~doubt',
         PutRead(r) \/ PutMerge(r) \/ PutSwap(r) \/ PutKeep(r) \/ PutKept(r)
  PROVE  Layers'
<1>1. /\ ~doubt /\ InFlight(r) /\ db' = db
  BY DEF PutRead, PutMerge, PutSwap, PutKeep, PutKept, InFlight, Over
<1>2. Layers /\ Pend(put[r], db, live.dest)
  BY <1>1 DEF LayerInv, Layers
<1>3. put[r] \in Requests /\ Filled(db) /\ live \in Lives
  BY DEF TypeInv, TypeOK, Requests, Filled, Lives
<1>4. ASSUME NEW q, put' = [put EXCEPT ![r] = q], q.at \notin Over \cup {"idle"},
             Pend(q, db, live.dest), live' = live
      PROVE  Layers'
  <2>1. /\ Alone' /\ put'[r] = q
        /\ \A s \in Reqs : Pend(put'[s], db, live.dest)
    BY <1>1, <1>2, <1>4, OneMoves DEF Layers
  <2>2. ~Quiet'
    BY <1>4, <2>1 DEF Quiet, InFlight
  <2> QED BY <1>1, <1>2, <1>4, <2>1, <2>2 DEF Layers
<1>5. CASE PutRead(r)
  <2>1. PICK q : q = [put[r] EXCEPT !.at = "merge", !.seen = db]
    OBVIOUS
  <2>2. q.at = "merge" /\ q.seen = db /\ q.body = put[r].body /\ put[r].at = "read"
    BY <1>3, <1>5, <2>1 DEF Requests, PutRead
  <2>3. Pend(q, db, live.dest)
    BY <1>2, <2>2 DEF Pend
  <2> QED BY <1>4, <1>5, <2>1, <2>2, <2>3 DEF PutRead, Over
<1>6. CASE PutMerge(r)
  <2>1. PICK c : c = Merge(live.cfg, put[r].seen)
    OBVIOUS
  <2>2. PICK q : q = [put[r] EXCEPT !.at = "build", !.seen = NoMap, !.new = c]
    OBVIOUS
  <2>3. q.at = "build" /\ q.new = c /\ q.body = put[r].body /\ put[r].at = "merge"
    BY <1>3, <1>6, <2>2 DEF Requests, PutMerge
  <2>4. c = Merge(live.cfg, db) /\ \A k \in Sent(q.body) : k \in DOMAIN db /\ db[k] = q.body[k]
    BY <1>2, <2>1, <2>3 DEF Pend
  <2>5. \A k \in Keys :
          c[k] = IF k \in DOMAIN db THEN Reading(k, db[k]) ELSE live.cfg[k]
    BY <1>3, <2>4, MergeFacts DEF Filled, Lives
  <2>6. Overlay(c, db)
    BY <1>2, <1>3, <2>5, BootFacts DEF Overlay, Layers, Underlay
  <2>7. \A k \in Sent(q.body) : c[k] = Reading(k, q.body[k])
    BY <1>3, <2>4, <2>5, MapsFacts DEF Filled
  <2>8. Pend(q, db, live.dest)
    BY <2>3, <2>6, <2>7 DEF Pend
  <2> QED BY <1>4, <1>6, <2>1, <2>2, <2>3, <2>8 DEF PutMerge, Over
<1>7. CASE PutKeep(r)
  <2>1. PICK q : q = [put[r] EXCEPT !.at = "keep", !.old = live.dest]
    OBVIOUS
  <2>2. /\ q.at = "keep" /\ q.old = live.dest /\ q.body = put[r].body /\ q.new = put[r].new
        /\ put[r].at = "build"
    BY <1>3, <1>7, <2>1 DEF Requests, PutKeep
  <2>3. Pend(q, db, live.dest)
    BY <1>2, <2>2 DEF Pend
  <2> QED BY <1>4, <1>7, <2>1, <2>2, <2>3 DEF PutKeep, Over
<1>8. CASE PutSwap(r) \/ PutKept(r)
  <2>1. PICK q : q = [Idle EXCEPT !.at = "saved"]
    OBVIOUS
  <2>2. put' = [put EXCEPT ![r] = q] /\ q.at \in Over \cup {"idle"}
    BY <1>8, <2>1, IdleType DEF PutSwap, PutKept, Requests, Over
  <2>3. /\ Alone' /\ \A s \in Reqs : Pend(put'[s], db, live'.dest)
    BY <1>1, <1>2, <2>2, OneMoves, NotInFlight DEF Layers
  <2>4. put[r].at \in {"build", "keep"} /\ live'.cfg = put[r].new
    BY <1>8 DEF PutSwap, PutKept
  <2>5. Overlay(live'.cfg, db)
    BY <1>2, <2>4 DEF Pend
  <2>6. Underlay(live'.cfg, db)
    BY <1>3, <2>5, OverlayIsUnderlay
  <2> QED BY <1>1, <2>3, <2>5, <2>6 DEF Layers
<1> QED BY <1>5, <1>6, <1>7, <1>8

(* A start that reads the table and sets the environment's values again.      *)
LEMMA RestartLayer ==
  ASSUME TypeInv, Restart, ~doubt'
  PROVE  Layers'
<1>1. Started(Boot(db)) /\ db' = Upsert(db, Env)
  BY DEF Restart
<1>2. Filled(db) /\ Env \in Maps
  BY SettingsAssumption DEF TypeInv, TypeOK, Filled
<1>3. live'.cfg = Boot(db)
  BY <1>1, <1>2, StartedType
<1>4. Filled(db') /\ \A k \in Keys \ DOMAIN Env :
        (k \in DOMAIN db' <=> k \in DOMAIN db) /\ (k \in DOMAIN db => db'[k] = db[k])
  BY <1>1, <1>2, UpsertFacts
<1>5. Overlay(live'.cfg, db')
  BY <1>2, <1>3, <1>4, BootFacts DEF Overlay
<1>6. Underlay(live'.cfg, db')
  BY <1>4, <1>5, OverlayIsUnderlay
<1>7. \A r \in Reqs : put'[r].at \in Over \cup {"idle"}
  <2>1. [Idle EXCEPT !.at = "dead"].at = "dead"
    BY IdleType DEF Requests
  <2> QED BY <2>1 DEF Restart, InFlight, Over
<1>8. Alone' /\ \A r \in Reqs : Pend(put'[r], db', live'.dest)
  BY <1>7, NotInFlight DEF Alone, InFlight
<1> QED BY <1>5, <1>6, <1>8 DEF Layers

LEMMA InitLayer == Init => LayerInv
<1> SUFFICES ASSUME Init PROVE Layers
  BY DEF LayerInv
<1>1. Filled(NoMap) /\ DOMAIN NoMap = {} /\ Env \in Maps
  BY NoMapFacts, SettingsAssumption
<1>2. Filled(db) /\ \A k \in Keys \ DOMAIN Env : k \notin DOMAIN db
  BY <1>1, UpsertFacts DEF Init
<1>3. live.cfg = Boot(NoMap)
  BY DEF Init
<1>4. Overlay(live.cfg, db)
  BY <1>1, <1>2, <1>3, BootFacts DEF Overlay
<1>5. Underlay(live.cfg, db)
  BY <1>2, <1>4, OverlayIsUnderlay
<1>6. \A r \in Reqs : put[r].at \in Over \cup {"idle"}
  BY DEF Init, Idle
<1> QED BY <1>4, <1>5, <1>6, NotInFlight DEF Layers, Alone, InFlight

LEMMA LayerStep == ASSUME TypeInv, LayerInv, [Next]_vars PROVE LayerInv'
<1> SUFFICES ASSUME ~doubt' PROVE Layers'
  BY DEF LayerInv
<1>1. CASE UNCHANGED vars
  BY <1>1 DEF vars, LayerInv, Layers, Alone, Quiet, InFlight
<1>2. ASSUME NEW r \in Reqs, Step(r) PROVE Layers'
  <2>1. ~PutFails(r)
    BY DEF PutFails
  <2> QED BY <1>2, <2>1, StoreLayer, LaterLayer DEF Step
<1>3. CASE Restart
  BY <1>3, RestartLayer
<1> QED BY <1>1, <1>2, <1>3 DEF Next

LEMMA LayerInvariant == Spec => [](TypeInv /\ LayerInv)
BY InitType, InitLayer, TypeStep, LayerStep, PTL DEF Spec

(* When no requests overlapped and none failed, a restart loads what was      *)
(* saved (PUT /api/settings against main's layers).                           *)
THEOREM LoadCorrect == Spec => []SavedIsLoaded
<1>1. LayerInv => SavedIsLoaded
  BY DEF LayerInv, Layers, Overlay, SavedIsLoaded
<1> QED BY <1>1, LayerInvariant, PTL

(* Only a request's own last step answers it.                                 *)
LEMMA OnlyItself ==
  ASSUME TypeInv, [Next]_vars, NEW r \in Reqs, SavedBy(r)
  PROVE  PutSwap(r) \/ PutKept(r)
<1>1. put \in [Reqs -> Requests] /\ put[r].at \in {"build", "keep"} /\ put'[r].at = "saved"
  BY DEF TypeInv, TypeOK, Requests, SavedBy
<1>2. ~UNCHANGED vars
  BY <1>1 DEF vars
<1>3. ~Restart
  <2>1. [Idle EXCEPT !.at = "dead"].at = "dead"
    BY IdleType DEF Requests
  <2> QED BY <1>1, <2>1 DEF Restart, InFlight, Over
<1>4. PICK s \in Reqs : Step(s)
  BY <1>2, <1>3 DEF Next
<1>5. s = r
  <2> SUFFICES ASSUME s # r PROVE put'[r] = put[r]
    BY <1>1
  <2> QED BY <1>1, <1>4
      DEF Step, PutStore, PutRead, PutFails, PutMerge, PutSwap, PutKeep, PutKept
<1>6. ~PutKeep(r)
  <2>1. [put[r] EXCEPT !.at = "keep", !.old = live.dest].at = "keep"
    BY <1>1 DEF Requests
  <2> QED BY <1>1, <2>1 DEF PutKeep
<1> QED BY <1>1, <1>4, <1>5, <1>6 DEF Step, PutStore, PutRead, PutFails, PutMerge

(* A request that is answered "saved" and met no other has made live what     *)
(* MergeFromMap reads in every text it sent, empty ones apart: the text       *)
(* itself, but of a boolean or a number only what could be parsed.            *)
THEOREM SaveCorrect == Spec => SavedIsLive
<1>1. ASSUME TypeInv, LayerInv, [Next]_vars
      PROVE  [\A r \in Reqs : SavedBy(r) /\ ~doubt =>
                \A k \in DOMAIN put[r].body :
                  put[r].body[k] # Empty =>
                    live'.cfg[k] = Reading(k, put[r].body[k])]_vars
  <2> SUFFICES ASSUME NEW r \in Reqs, SavedBy(r), ~doubt,
                      NEW k \in DOMAIN put[r].body, put[r].body[k] # Empty
               PROVE  live'.cfg[k] = Reading(k, put[r].body[k])
    OBVIOUS
  <2>1. put[r].new[k] = Reading(k, put[r].body[k])
    <3>1. Pend(put[r], db, live.dest)
      BY <1>1 DEF LayerInv, Layers
    <3> QED BY <3>1 DEF SavedBy, Pend, Sent
  <2>2. PutSwap(r) \/ PutKept(r)
    BY <1>1, OnlyItself
  <2> QED BY <2>1, <2>2 DEF PutSwap, PutKept
<1> QED BY <1>1, LayerInvariant, PTL DEF Spec, SavedIsLive

(* A request that met no other changes the destination in use only to the one *)
(* its configuration selects: one that cannot be built stays aside.           *)
THEOREM KeepCorrect == Spec => FailedSwapKeepsDest
<1>1. ASSUME TypeInv, LayerInv, [Next]_vars
      PROVE  [live'.dest # live.dest /\ crashes' = crashes /\ ~doubt
                => live'.dest = live'.cfg[DestKey]]_vars
  <2> SUFFICES ASSUME live'.dest # live.dest, crashes' = crashes, ~doubt
               PROVE  live'.dest = live'.cfg[DestKey]
    OBVIOUS
  <2>1. ~Restart
    BY <1>1 DEF Restart, TypeInv, TypeOK
  <2>2. PICK r \in Reqs : PutSwap(r) \/ PutKept(r)
    BY <1>1, <2>1 DEF Next, Step, PutStore, PutRead, PutFails, PutMerge, PutKeep, vars
  <2>3. Pend(put[r], db, live.dest)
    BY <1>1 DEF LayerInv, Layers
  <2>4. ~PutKept(r)
    BY <2>3 DEF PutKept, Pend
  <2> QED BY <2>2, <2>4 DEF PutSwap
<1> QED BY <1>1, LayerInvariant, PTL DEF Spec, FailedSwapKeepsDest
=============================================================================
