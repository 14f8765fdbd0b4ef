------------------------------ MODULE Settings ------------------------------
(* The layers of the configuration: config.yaml, the environment, the         *)
(* settings table and the live appstate.State, and how PUT /api/settings and  *)
(* a start of the process move values between them.  The table, the requests  *)
(* and the environment hold texts; the configuration holds what MergeFromMap  *)
(* reads in them, which for a boolean or a number need not be what was sent.  *)
(* What else the keys differ in is kept: some may be emptied, the environment *)
(* overrides some, one selects the destination.                               *)
EXTENDS Naturals

CONSTANTS
  Keys,
  Clearable,   \* keys whose empty value MergeFromMap takes over
  Typed,       \* keys of a boolean or a number; the others keep their text
  Parsed,      \* typed key -> text -> what is read in it: true or a number if
               \* it is one (the nearest, if too large), else Zero
  DestKey,     \* the key destination.New builds the destination from
  Values,      \* the texts a key may have, the empty one apart
  Unbuildable, \* values of DestKey that destination.New refuses
  File,        \* key -> value after defaults and config.yaml
  Env,         \* EnvOverrides: the keys the environment sets -> text
  Reqs,        \* the PUT requests; each is made at most once
  Bodies,      \* the string settings a PUT may carry, key -> text
  MaxCrashes,  \* bound: the times the process dies
  Faults       \* "store": a store call may fail; "dest": destination.New may

Empty == ""
Zero == "zero"           \* false, or the number 0
Fallback == "fallback"   \* main's local destination in ./backups

Maps == UNION {[K -> Values \cup {Empty}] : K \in SUBSET Keys}

ASSUME SettingsAssumption ==
  /\ Empty \notin Values /\ Fallback \notin Values
  /\ Typed \subseteq Keys /\ Parsed \in [Typed -> [Values -> Values \cup {Zero}]]
  /\ Clearable \subseteq Keys \ Typed /\ DestKey \in Keys \ Typed
  /\ Unbuildable \subseteq Values
  /\ File \in [Keys -> Values \cup {Empty, Zero}] /\ File[DestKey] \in Values
  /\ Env \in Maps /\ \A k \in DOMAIN Env : Env[k] # Empty /\ k \notin Typed
  /\ Bodies \subseteq Maps
  /\ MaxCrashes \in Nat /\ Faults \subseteq {"store", "dest"}

VARIABLES
  db,      \* the settings table: key -> text
  live,    \* appstate.State: the configuration and the destination in use
  put,     \* request -> [at, body, seen, new, old]
  crashes,
  doubt    \* history: since the process started, PUTs overlapped or a store
           \* call failed
vars == <<db, live, put, crashes, doubt>>

(* What MergeFromMap reads in the text v of key k: `v == "true"`, ParseBool   *)
(* and Atoi with their errors dropped.                                        *)
Reading(k, v) == IF k \in Typed THEN Parsed[k][v] ELSE v

(* config.MergeFromMap                                                        *)
Merge(c, m) ==
  [k \in Keys |->
     IF k \in DOMAIN m /\ (m[k] # Empty \/ k \in Clearable)
     THEN Reading(k, m[k]) ELSE c[k]]

(* Mutants of Upsert: empty values are stored; the table is replaced.         *)
UpsertEmpty(m, body) ==
  [k \in DOMAIN m \cup DOMAIN body |-> IF k \in DOMAIN body THEN body[k] ELSE m[k]]

UpsertReplace(m, body) ==
  LET new == {k \in DOMAIN body : body[k] # Empty}
  IN [k \in new |-> body[k]]

(* store.SetSettings: an upsert of what is not empty, in one transaction.     *)
Upsert(m, body) ==
  LET new == {k \in DOMAIN body : body[k] # Empty}
  IN [k \in DOMAIN m \cup new |-> IF k \in new THEN body[k] ELSE m[k]]

(* main: Load, then the table's settings, then the environment again.         *)
Loaded == Merge(File, Env)
Boot(m) == Merge(Merge(Loaded, m), Env)

Builds(c) == c[DestKey] \notin Unbuildable

(* A start with the settings it could read and the destination it could build.*)
Started(c) ==
  \/ Builds(c) /\ live' = [cfg |-> c, dest |-> c[DestKey]]
  \/ /\ ~Builds(c) \/ "dest" \in Faults
     /\ live' = [cfg |-> c, dest |-> Fallback]

NoMap == [k \in {} |-> Empty]
Idle == [at |-> "idle", body |-> NoMap, seen |-> NoMap, new |-> File, old |-> Fallback]

Init ==
  /\ db = Upsert(NoMap, Env)
  /\ live = [cfg |-> Boot(NoMap),
             dest |-> IF Builds(Boot(NoMap)) THEN Boot(NoMap)[DestKey] ELSE Fallback]
  /\ put = [r \in Reqs |-> Idle]
  /\ crashes = 0
  /\ doubt = FALSE

Over == {"saved", "error", "dead"}
InFlight(r) == put[r].at \notin Over \cup {"idle"}
Quiet == \A r \in Reqs : ~InFlight(r)

-------------------------------------------------------------------------------
(* UpdateSettings *)

PutStore(r, body) ==
  /\ put[r].at = "idle"
  /\ put' = [put EXCEPT ![r] = [@ EXCEPT !.at = "read", !.body = body]]
  /\ db' = Upsert(db, body)
  /\ doubt' = (doubt \/ ~Quiet)
  /\ UNCHANGED <<live, crashes>>

(* The settings table is read back.                                           *)
PutRead(r) ==
  /\ put[r].at = "read"
  /\ put' = [put EXCEPT ![r] = [@ EXCEPT !.at = "merge", !.seen = db]]
  /\ UNCHANGED <<db, live, crashes, doubt>>

(* SetSettings or GetAllSettings fails: a 500, with or without the write.     *)
PutFails(r) ==
  /\ "store" \in Faults
  /\ put[r].at \in {"idle", "read"}
  /\ put' = [put EXCEPT ![r] = [Idle EXCEPT !.at = "error"]]
  /\ doubt' = TRUE
  /\ UNCHANGED <<db, live, crashes>>

(* Mutant of PutMerge: the live configuration goes on top of the table.       *)
PutMergeUnder(r) ==
  /\ put[r].at = "merge"
  /\ put' = [put EXCEPT ![r] =
              [@ EXCEPT !.at = "build", !.seen = NoMap,
                        !.new = Merge(Merge(File, put[r].seen), live.cfg)]]
  /\ UNCHANGED <<db, live, crashes, doubt>>

(* state.Get, and the new configuration on top of it.                         *)
PutMerge(r) ==
  /\ put[r].at = "merge"
  /\ put' = [put EXCEPT ![r] =
              [@ EXCEPT !.at = "build", !.seen = NoMap,
                        !.new = Merge(live.cfg, put[r].seen)]]
  /\ UNCHANGED <<db, live, crashes, doubt>>

(* destination.New succeeds and both are swapped in.                          *)
PutSwap(r) ==
  /\ put[r].at = "build" /\ Builds(put[r].new)
  /\ put' = [put EXCEPT ![r] = [Idle EXCEPT !.at = "saved"]]
  /\ live' = [cfg |-> put[r].new, dest |-> put[r].new[DestKey]]
  /\ UNCHANGED <<db, crashes, doubt>>

(* It fails: the destination in use is read again, then written back.         *)
PutKeep(r) ==
  /\ put[r].at = "build" /\ (~Builds(put[r].new) \/ "dest" \in Faults)
  /\ put' = [put EXCEPT ![r] = [@ EXCEPT !.at = "keep", !.old = live.dest]]
  /\ UNCHANGED <<db, live, crashes, doubt>>

(* Mutant of PutKept: the fallback, as in main.                               *)
PutKeptFallback(r) ==
  /\ put[r].at = "keep"
  /\ put' = [put EXCEPT ![r] = [Idle EXCEPT !.at = "saved"]]
  /\ live' = [cfg |-> put[r].new, dest |-> Fallback]
  /\ UNCHANGED <<db, crashes, doubt>>

PutKept(r) ==
  /\ put[r].at = "keep"
  /\ put' = [put EXCEPT ![r] = [Idle EXCEPT !.at = "saved"]]
  /\ live' = [cfg |-> put[r].new, dest |-> put[r].old]
  /\ UNCHANGED <<db, crashes, doubt>>

(* The process dies and starts again: main up to appstate.New.                *)
Restart ==
  /\ crashes < MaxCrashes
  /\ crashes' = crashes + 1
  /\ put' = [r \in Reqs |-> IF InFlight(r) THEN [Idle EXCEPT !.at = "dead"] ELSE put[r]]
  /\ \/ /\ Started(Boot(db))
        /\ db' = Upsert(db, Env)
        /\ doubt' = FALSE
     \/ /\ "store" \in Faults
        /\ \E m \in {db, NoMap} : Started(Boot(m))
        /\ db' \in {db, Upsert(db, Env)}
        /\ doubt' = TRUE

Step(r) ==
  \/ \E body \in Bodies : PutStore(r, body)
  \/ PutRead(r) \/ PutFails(r) \/ PutMerge(r)
  \/ PutSwap(r) \/ PutKeep(r) \/ PutKept(r)

Next == (\E r \in Reqs : Step(r)) \/ Restart

Spec == Init /\ [][Next]_vars

-------------------------------------------------------------------------------
(* Properties *)

Configurations == [Keys -> Values \cup {Empty, Zero}]

(* Every variable stays in its type; the table never holds an empty value.    *)
TypeOK ==
  /\ db \in Maps /\ \A k \in DOMAIN db : db[k] # Empty
  /\ live \in [cfg : Configurations, dest : Values \cup {Fallback}]
  /\ put \in [Reqs -> [at : {"idle", "read", "merge", "build", "keep"} \cup Over,
                       body : Bodies \cup {NoMap}, seen : Maps,
                       new : Configurations, old : Values \cup {Fallback}]]
  /\ crashes \in 0..MaxCrashes
  /\ doubt \in BOOLEAN

(* A PUT that met no other changes the destination in use only to the one its *)
(* configuration selects: when destination.New fails, the next backups go     *)
(* where the last ones went (UpdateSettings' two state.Get calls against its  *)
(* state.Set).                                                                *)
FailedSwapKeepsDest ==
  [][live'.dest # live.dest /\ crashes' = crashes /\ ~doubt
       => live'.dest = live'.cfg[DestKey]]_vars

(* When no requests overlapped and none failed, a restart changes nothing the *)
(* environment does not set: what was saved is what is loaded (UpdateSettings *)
(* against main's MergeFromMap).                                              *)
SavedIsLoaded ==
  Quiet /\ ~doubt =>
    \A k \in Keys \ DOMAIN Env : live.cfg[k] = Boot(db)[k]

SavedBy(r) == put[r].at \in {"build", "keep"} /\ put'[r].at = "saved"

(* A PUT that met no other is answered "saved" only when the live            *)
(* configuration holds what MergeFromMap reads in every text it sent, empty   *)
(* ones apart.  For a boolean or a number that does not parse this is false   *)
(* or 0, with the same answer; and of two PUTs that overlap the older reading *)
(* may be the one that stays.                                                 *)
SavedIsLive ==
  [][\A r \in Reqs : SavedBy(r) /\ ~doubt =>
       \A k \in DOMAIN put[r].body :
         put[r].body[k] # Empty => live'.cfg[k] = Reading(k, put[r].body[k])]_vars
=============================================================================
