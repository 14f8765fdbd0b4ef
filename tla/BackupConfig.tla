---------------------------- MODULE BackupConfig ----------------------------
(* The part of config.Config a backup run looks at, as a record:            *)
(*   creds    Supabase URL and service key are both set                     *)
(*   dbURL    the database URL is set                                       *)
(*   destOK   the destination has its required fields (Validate's s3 case)  *)
(*   incDb, incSt   include_database, include_storage                       *)
(*   buckets  the configured buckets; {} means every bucket                 *)
(*   keepLast, keepDays   the retention policy; 0 switches a rule off       *)
EXTENDS Naturals

ConfigOf(Buckets) ==
  [creds : BOOLEAN, dbURL : BOOLEAN, destOK : BOOLEAN,
   incDb : BOOLEAN, incSt : BOOLEAN, buckets : SUBSET Buckets,
   keepLast : Nat, keepDays : Nat]

(* What a trigger or a schedule asks for.                                   *)
JobTypes == {"full", "database", "storage"}

(* Config.ForType: the asked type only ever switches the other part off.    *)
ForType(c, type) ==
  [c EXCEPT !.incSt = @ /\ type # "database",
            !.incDb = @ /\ type # "storage"]

(* config.IsConfigured, the API's guard, and config.Validate, the runner's. *)
IsConfigured(c) == c.creds

Valid(c) ==
  /\ c.creds
  /\ c.incDb => c.dbURL
  /\ c.destOK

(* Runner.jobType: the type written in the job row.                         *)
JobType(c) ==
  CASE c.incDb /\ c.incSt  -> "full"
    [] c.incDb /\ ~c.incSt -> "database"
    [] OTHER               -> "storage"

(* Runner.Run's guard on the retention pass.                                *)
RetentionOn(c) == c.keepLast > 0 \/ c.keepDays > 0

(* StorageBackup.Run and filter: the listed buckets that are backed up.     *)
Selected(c, listed) ==
  IF c.buckets = {} THEN listed ELSE listed \cap c.buckets
=============================================================================
