-------------------------- MODULE DestinationCalls --------------------------
(* One date of a destination under Write, Delete, ListFiles and Read, each    *)
(* taken apart into the calls it makes to the file system, the SFTP server or *)
(* S3, and the three read handlers of the API on top of them.  BackupRun has  *)
(* the whole of a Delete as one step and no readers; here nothing but the     *)
(* single call is atomic.                                                     *)
EXTENDS Naturals, FiniteSets, SequencesExt

CONSTANTS
  Files,      \* the keys of the date: <<part, name>>, in the order of numbers
  Left,       \* those earlier runs may have left
  Writers, Deleters, Readers,   \* the goroutines, each with one call to make
  PageSize,   \* how many keys one page of an S3 listing has
  MaxBreaks   \* bound: how many calls break down by themselves

ASSUME FilesAssumption ==
  IsFiniteSet(Files) /\ Files \subseteq Nat \X Nat /\ Left \subseteq SUBSET Files
ASSUME CallersAssumption ==
  /\ IsFiniteSet(Writers) /\ Writers \cap Deleters = {}
  /\ Readers \cap (Writers \cup Deleters) = {}
ASSUME BoundAssumption == PageSize \in Nat \ {0} /\ MaxBreaks \in Nat

Callers == Writers \cup Deleters \cup Readers

VARIABLES
  kind,     \* "local", "sftp" or "s3"
  dirs,     \* the directories there are: <<>> is the date's, <<part>> inside it
  file,     \* key -> what it leads to: a version, or Nothing
  version,  \* what is in them; a version outlives its name while it is open
  at,       \* where a caller is
  job,      \* what it does: "write", "delete", "list", "zip" or "file"
  wants,    \* the key it writes
  walk,     \* the directories it is in, or the page: [dir, left]
  after,    \* the key an S3 listing goes on from; Date at the start
  found,    \* what ListFiles has returned, and is not read yet
  hold,     \* the version it has open, and what that held when it was opened
  body,     \* key -> what the reader has been sent: "none", "whole" or "torn"
  bad,      \* one of its calls has failed and it went on
  breaks,   \* how many calls have broken down
  calm,     \* history: the files that stayed as they were since the call began
  denied   \* history: the keys S3 has refused to delete for a Delete
vars == <<kind, dirs, file, version, at, job, wants, walk, after, found, hold, body,
          bad, breaks, calm, denied>>

treeVars == <<dirs, file, version>>
jobVars  == <<kind, job, wants, denied>>
walkVars == <<walk, after>>
readVars == <<found, body>>

Date    == <<>>
Nothing == 0
Versions == 1..(Cardinality(Files) + Cardinality(Writers))
Parts   == {<<k[1]>> : k \in Files}

(* A version: the writers whose bytes it may hold, and those that finished.   *)
Old == [by |-> {}, done |-> {}]
IsWhole(c) == c.by = c.done /\ Cardinality(c.by) <= 1

Before(a, b) ==
  \E i \in 1..Len(a) : a[i] < b[i] /\ \A h \in 1..(i - 1) : a[h] = b[h]

First(S, e) == e \in S /\ \A f \in S \ {e} : Before(e, f)

Present == {k \in Files : file[k] # Nothing}

(* What ReadDir returns.                                                      *)
Entries(dir) ==
  IF dir = Date THEN {p \in dirs : Len(p) = 1} ELSE {k \in Present : <<k[1]>> = dir}

Number(k) == Cardinality({l \in Files : Before(l, k)}) + 1

(* The next version nothing has led to yet.                                   *)
Fresh == CHOOSE v \in Versions :
  /\ v > Cardinality(Files) /\ version[v] = Old
  /\ \A u \in Versions : u > Cardinality(Files) /\ version[u] = Old => v <= u

NoHold == [of |-> Nothing, was |-> Old]

(* What earlier runs have left, all of it whole.                              *)
Init ==
  /\ kind \in {"local", "sftp", "s3"}
  /\ \E S \in Left :
       /\ file = [k \in Files |-> IF k \in S THEN Number(k) ELSE Nothing]
       /\ dirs = IF kind = "s3" \/ S = {} THEN {} ELSE {Date} \cup {<<k[1]>> : k \in S}
  /\ version = [v \in Versions |-> Old]
  /\ at = [c \in Callers |-> "idle"]
  /\ job = [c \in Callers |-> "none"]
  /\ wants = [w \in Writers |-> Date]
  /\ walk = [c \in Callers |-> <<>>]
  /\ after = [c \in Callers |-> Date]
  /\ found = [r \in Readers |-> {}]
  /\ hold = [c \in Callers |-> NoHold]
  /\ body = [r \in Readers |-> [k \in Files |-> "none"]]
  /\ bad = [c \in Callers |-> FALSE]
  /\ breaks = 0
  /\ calm = [c \in Callers |-> {}]
  /\ denied = [x \in Deleters |-> {}]

Goto(c, from, to) == at[c] = from /\ at' = [at EXCEPT ![c] = to]

Touch(K) == calm' = [c \in Callers |-> calm[c] \ K]

Break == breaks < MaxBreaks /\ breaks' = breaks + 1

-------------------------------------------------------------------------------
(* Write *)

BeginWrite(w, k) ==
  /\ Goto(w, "idle", IF kind = "s3" THEN "put" ELSE "mkdir")
  /\ job' = [job EXCEPT ![w] = "write"]
  /\ wants' = [wants EXCEPT ![w] = k]
  /\ UNCHANGED <<kind, denied, treeVars, walkVars, readVars, hold, bad, breaks, calm>>

(* The directories are made one by one; that a Delete takes the outer away    *)
(* before the inner is made is left to CreateFails.                           *)
MkdirAll(w) ==
  /\ Goto(w, "mkdir", "create")
  /\ dirs' = dirs \cup {Date, <<wants[w][1]>>}
  /\ UNCHANGED <<jobVars, file, version, walkVars, readVars, hold, bad, breaks, calm>>

Writing(k) == {w \in Writers : at[w] = "fill" /\ hold[w].of = file[k]}

(* Create truncates what the key leads to, or makes a file; whoever has it    *)
(* open goes on writing into it.                                              *)
Truncate(w, others) ==
  LET k == wants[w]
      v == IF file[k] # Nothing THEN file[k] ELSE Fresh
  IN /\ version' = [version EXCEPT ![v] = [by |-> {w} \cup others, done |-> {}]]
     /\ file' = [file EXCEPT ![k] = v]
     /\ hold' = [hold EXCEPT ![w] = [of |-> v, was |-> Old]]
     /\ Touch({k})

Create(w) ==
  /\ Goto(w, "create", "fill")
  /\ <<wants[w][1]>> \in dirs
  /\ Truncate(w, IF file[wants[w]] = Nothing THEN {} ELSE Writing(wants[w]))
  /\ UNCHANGED <<jobVars, dirs, walkVars, readVars, bad, breaks>>

(* A Delete has taken the directory away.                                     *)
CreateFails(w) ==
  /\ Goto(w, "create", "failed")
  /\ <<wants[w][1]>> \notin dirs
  /\ UNCHANGED <<jobVars, treeVars, walkVars, readVars, hold, bad, breaks, calm>>

(* The last byte is written, wherever the name leads by now.                  *)
Fill(w) ==
  /\ Goto(w, "fill", "ok")
  /\ version' = [version EXCEPT ![hold[w].of].done = @ \cup {w}]
  /\ Touch({k \in Files : file[k] = hold[w].of})
  /\ hold' = [hold EXCEPT ![w] = NoHold]
  /\ UNCHANGED <<jobVars, dirs, file, walkVars, readVars, bad, breaks>>

(* Mutant of Put: the object grows as its parts are sent.                     *)
PutInParts(w) ==
  /\ Goto(w, "put", "fill")
  /\ Truncate(w, {})
  /\ UNCHANGED <<jobVars, dirs, walkVars, readVars, bad, breaks>>

(* PutObject replaces the object at once; it may fail although it did.        *)
Put(w) ==
  /\ \/ Goto(w, "put", "ok") /\ UNCHANGED breaks
     \/ Goto(w, "put", "failed") /\ Break
  /\ version' = [version EXCEPT ![Fresh] = [by |-> {w}, done |-> {w}]]
  /\ file' = [file EXCEPT ![wants[w]] = Fresh]
  /\ Touch({wants[w]})
  /\ UNCHANGED <<jobVars, dirs, walkVars, readVars, hold, bad>>

(* The disk is full, the connection is lost, S3 refuses.                      *)
WriteBreaks(w) ==
  /\ at[w] \in {"mkdir", "create", "fill", "put"}
  /\ Break
  /\ at' = [at EXCEPT ![w] = "failed"]
  /\ hold' = [hold EXCEPT ![w] = NoHold]
  /\ UNCHANGED <<jobVars, treeVars, walkVars, readVars, bad, calm>>

-------------------------------------------------------------------------------
(* Walking a directory, and paging through a prefix *)

Frame(dir) == [dir |-> dir, left |-> Entries(dir)]

(* e is the next entry of the innermost directory c is in.                    *)
Comes(c, e) == walk[c] # <<>> /\ First(Last(walk[c]).left, e)

Past(c, e) == Append(Front(walk[c]), [Last(walk[c]) EXCEPT !.left = @ \ {e}])

(* A page: the first keys after the one the listing goes on from.             *)
Rest(c) == {k \in Present : after[c] = Date \/ Before(after[c], k)}
PageOf(c) == {k \in Rest(c) : Cardinality({l \in Rest(c) : Before(l, k)}) < PageSize}
LastOf(S) == CHOOSE k \in S : \A l \in S \ {k} : Before(l, k)
More(c) == PageOf(c) # Rest(c)

-------------------------------------------------------------------------------
(* Delete of the date: os.RemoveAll, removeAllSFTP, or the pages of S3        *)

Deleting(x) == UNCHANGED <<jobVars, version, after, readVars, hold>>

(* What was to be removed is not there: os.RemoveAll does not mind, Remove    *)
(* and RemoveDirectory of SFTP do.                                            *)
NotThere(x, walkOn) ==
  /\ IF kind = "sftp"
       THEN at' = [at EXCEPT ![x] = "failed"] /\ walk' = [walk EXCEPT ![x] = <<>>]
       ELSE walkOn
  /\ UNCHANGED <<dirs, file, calm, bad, breaks>>

BeginDelete(x) ==
  /\ job' = [job EXCEPT ![x] = "delete"]
  /\ IF kind = "s3" THEN Goto(x, "idle", "page") /\ UNCHANGED walk
     ELSE IF Date \in dirs
       THEN /\ Goto(x, "idle", "delete")
            /\ walk' = [walk EXCEPT ![x] = <<Frame(Date)>>]
       ELSE /\ Goto(x, "idle", IF kind = "sftp" THEN "failed" ELSE "ok")
            /\ UNCHANGED walk
  /\ calm' = [calm EXCEPT ![x] = Present]
  /\ UNCHANGED <<kind, wants, denied, treeVars, after, readVars, hold, bad, breaks>>

(* removeAllSFTP of a directory in the directory.                             *)
DeleteDir(x, e) ==
  /\ at[x] = "delete" /\ Comes(x, e) /\ e \in Parts
  /\ LET on == walk' = [walk EXCEPT ![x] =
                 IF e \in dirs THEN Append(Past(x, e), Frame(e)) ELSE Past(x, e)]
     IN IF e \in dirs THEN on /\ UNCHANGED <<at, dirs, file, calm, bad, breaks>>
        ELSE NotThere(x, on /\ UNCHANGED at)
  /\ Deleting(x)

DeleteFile(x, e) ==
  /\ at[x] = "delete" /\ Comes(x, e) /\ e \in Files
  /\ LET on == walk' = [walk EXCEPT ![x] = Past(x, e)] /\ UNCHANGED at
     IN IF file[e] = Nothing THEN NotThere(x, on)
        ELSE /\ on
             /\ file' = [file EXCEPT ![e] = Nothing]
             /\ Touch({e})
             /\ UNCHANGED <<dirs, bad, breaks>>
  /\ Deleting(x)

(* Mutant of LeaveDir: the directories stay.                                  *)
LeaveDirThere(x) ==
  /\ at[x] = "delete" /\ Last(walk[x]).left = {}
  /\ walk' = [walk EXCEPT ![x] = Front(@)]
  /\ at' = IF Len(walk[x]) = 1 THEN [at EXCEPT ![x] = "ok"] ELSE at
  /\ UNCHANGED <<dirs, file, calm, bad, breaks>>
  /\ Deleting(x)

(* Mutant of LeaveDir: the directory is removed although it has new entries.  *)
LeaveDirForced(x) ==
  /\ at[x] = "delete" /\ Last(walk[x]).left = {}
  /\ dirs' = dirs \ {Last(walk[x]).dir}
  /\ walk' = [walk EXCEPT ![x] = Front(@)]
  /\ at' = IF Len(walk[x]) = 1 THEN [at EXCEPT ![x] = "ok"] ELSE at
  /\ UNCHANGED <<file, calm, bad, breaks>>
  /\ Deleting(x)

(* RemoveDirectory once its entries are done: it fails when somebody has made *)
(* new ones.  os.RemoveAll goes on with the rest and returns the error, which *)
(* it would drop if the outermost directory could then be removed all the     *)
(* same: here it keeps it.                                                    *)
LeaveDir(x) ==
  /\ at[x] = "delete" /\ Last(walk[x]).left = {}
  /\ LET dir == Last(walk[x]).dir
         refused == dir \in dirs /\ Entries(dir) # {}
         stop == kind = "sftp" /\ (refused \/ dir \notin dirs)
     IN /\ dirs' = IF refused THEN dirs ELSE dirs \ {dir}
        /\ bad' = [bad EXCEPT ![x] = @ \/ refused \/ stop]
        /\ walk' = [walk EXCEPT ![x] = IF stop THEN <<>> ELSE Front(@)]
        /\ at' = IF walk'[x] # <<>> THEN at
                 ELSE [at EXCEPT ![x] = IF bad'[x] THEN "failed" ELSE "ok"]
  /\ UNCHANGED <<file, calm, breaks>>
  /\ Deleting(x)

(* S3: a page is listed, its keys are deleted by one call, and so on.  A page *)
(* may be the last.                                                           *)
DeleteList(x) ==
  /\ Goto(x, "page", IF PageOf(x) = {} THEN "ok" ELSE IF More(x) THEN "batch" ELSE "last")
  /\ walk' = [walk EXCEPT ![x] = <<[dir |-> Date, left |-> PageOf(x)]>>]
  /\ after' = [after EXCEPT ![x] = IF PageOf(x) = {} THEN @ ELSE LastOf(PageOf(x))]
  /\ UNCHANGED <<jobVars, treeVars, readVars, hold, bad, breaks, calm>>

(* Mutant of DeleteBatch: one page is taken for all.                          *)
DeleteBatchOnly(x) ==
  /\ Goto(x, "batch", "ok") \/ Goto(x, "last", "ok")
  /\ file' = [k \in Files |-> IF k \in Last(walk[x]).left THEN Nothing ELSE file[k]]
  /\ Touch(Last(walk[x]).left)
  /\ walk' = [walk EXCEPT ![x] = <<>>]
  /\ UNCHANGED <<dirs, bad, breaks>>
  /\ Deleting(x)

DeleteBatch(x) ==
  /\ Goto(x, "batch", "page") \/ Goto(x, "last", "ok")
  /\ file' = [k \in Files |-> IF k \in Last(walk[x]).left THEN Nothing ELSE file[k]]
  /\ Touch(Last(walk[x]).left)
  /\ walk' = [walk EXCEPT ![x] = <<>>]
  /\ UNCHANGED <<dirs, bad, breaks>>
  /\ Deleting(x)

(* S3 answers which keys it could not delete; nobody reads it.                *)
BatchInPart(x) ==
  /\ Goto(x, "batch", "page") \/ Goto(x, "last", "ok")
  /\ Break
  /\ \E gone \in SUBSET Last(walk[x]).left :
       /\ file' = [k \in Files |-> IF k \in gone THEN Nothing ELSE file[k]]
       /\ Touch(gone)
       /\ denied' = [denied EXCEPT ![x] = @ \cup (Present \cap (Last(walk[x]).left \ gone))]
  /\ bad' = [bad EXCEPT ![x] = TRUE]
  /\ walk' = [walk EXCEPT ![x] = <<>>]
  /\ UNCHANGED <<kind, job, wants, dirs, version, after, readVars, hold>>

DeleteBreaks(x) ==
  /\ at[x] \in {"delete", "page", "batch", "last"}
  /\ Break
  /\ at' = [at EXCEPT ![x] = "failed"]
  /\ walk' = [walk EXCEPT ![x] = <<>>]
  /\ UNCHANGED <<jobVars, treeVars, after, readVars, hold, bad, calm>>

-------------------------------------------------------------------------------
(* ListBackups, DownloadBackupDate and DownloadBackup *)

Reading == UNCHANGED <<jobVars, treeVars, calm>>

BeginRead(r, what, F) ==
  /\ job' = [job EXCEPT ![r] = what]
  /\ Goto(r, "idle", CASE what = "list" -> "list" [] what = "zip" -> "root" [] what = "file" -> "read")
  /\ found' = [found EXCEPT ![r] = F]
  /\ calm' = [calm EXCEPT ![r] = Present]
  /\ UNCHANGED <<kind, wants, denied, treeVars, walkVars, hold, body, bad, breaks>>

Begin(r) ==
  \/ BeginRead(r, "list", {}) \/ BeginRead(r, "zip", {})
  \/ \E k \in Files : BeginRead(r, "file", {k})

(* ListBackups asks List for the dates first.                                 *)
ListDates(r) ==
  /\ Goto(r, "list", IF (IF kind = "s3" THEN Present # {} ELSE Date \in dirs) THEN "root" ELSE "listed")
  /\ UNCHANGED <<walkVars, readVars, hold, bad, breaks>>
  /\ Reading

(* What the handler does with what ListFiles returns: a date without files    *)
(* is not found.                                                              *)
AfterList(r, F) ==
  IF job[r] = "list" THEN "listed" ELSE IF F = {} THEN "failed" ELSE "read"

(* ListFiles: Walk reads the date's directory, or S3 lists the first page.    *)
WalkRoot(r) ==
  /\ IF kind = "s3" THEN Goto(r, "root", "pages") /\ UNCHANGED walk
     ELSE IF Date \in dirs
       THEN Goto(r, "root", "walk") /\ walk' = [walk EXCEPT ![r] = <<Frame(Date)>>]
       ELSE Goto(r, "root", AfterList(r, {})) /\ UNCHANGED walk
  /\ UNCHANGED <<after, readVars, hold, bad, breaks>>
  /\ Reading

(* A directory that has gone is passed over.                                  *)
WalkDir(r, e) ==
  /\ at[r] = "walk" /\ Comes(r, e) /\ e \in Parts
  /\ walk' = [walk EXCEPT ![r] = IF e \in dirs THEN Append(Past(r, e), Frame(e)) ELSE Past(r, e)]
  /\ UNCHANGED <<at, after, readVars, hold, bad, breaks>>
  /\ Reading

(* SFTP's ReadDir has sent the size already; local asks for it, and a file    *)
(* that has gone fails the whole listing, so that ListBackups omits the date. *)
WalkFile(r, e) ==
  /\ at[r] = "walk" /\ Comes(r, e) /\ e \in Files
  /\ IF kind = "local" /\ file[e] = Nothing
       THEN /\ at' = [at EXCEPT ![r] = IF job[r] = "list" THEN "omitted" ELSE "failed"]
            /\ walk' = [walk EXCEPT ![r] = <<>>]
            /\ UNCHANGED found
       ELSE /\ found' = [found EXCEPT ![r] = @ \cup {e}]
            /\ walk' = [walk EXCEPT ![r] = Past(r, e)]
            /\ UNCHANGED at
  /\ UNCHANGED <<after, body, hold, bad, breaks>>
  /\ Reading

WalkUp(r) ==
  /\ at[r] = "walk" /\ Last(walk[r]).left = {}
  /\ walk' = [walk EXCEPT ![r] = Front(@)]
  /\ at' = IF walk'[r] = <<>> THEN [at EXCEPT ![r] = AfterList(r, found[r])] ELSE at
  /\ UNCHANGED <<after, readVars, hold, bad, breaks>>
  /\ Reading

NextKeys(r) ==
  LET F == found[r] \cup PageOf(r) IN
  /\ Goto(r, "pages", IF More(r) THEN "pages" ELSE AfterList(r, F))
  /\ found' = [found EXCEPT ![r] = F]
  /\ after' = [after EXCEPT ![r] = IF PageOf(r) = {} THEN @ ELSE LastOf(PageOf(r))]
  /\ UNCHANGED <<walk, body, hold, bad, breaks>>
  /\ Reading

(* A call fails: the listing does.  SFTP's Walk passes over what it could not *)
(* read and returns the rest as all there is; without a connection it does    *)
(* not begin.                                                                 *)
ListingBreaks(r) ==
  /\ at[r] \in {"list", "root", "walk", "pages"}
  /\ Break
  /\ bad' = [bad EXCEPT ![r] = TRUE]
  /\ \/ /\ kind # "sftp" \/ at[r] \in {"list", "root"}
        /\ at' = [at EXCEPT ![r] = IF job[r] = "list" /\ at[r] # "list" THEN "omitted" ELSE "failed"]
        /\ walk' = [walk EXCEPT ![r] = <<>>]
     \/ /\ kind = "sftp" /\ at[r] = "walk" /\ UNCHANGED at
        /\ \E S \in SUBSET Last(walk[r]).left :
             walk' = [walk EXCEPT ![r] = Append(Front(@), [Last(@) EXCEPT !.left = S])]
     \/ /\ kind = "sftp" /\ at[r] = "root"
        /\ at' = [at EXCEPT ![r] = AfterList(r, {})] /\ UNCHANGED walk
  /\ UNCHANGED <<after, readVars, hold>>
  /\ Reading

(* Read opens the next key.                                                   *)
Open(r, k) ==
  /\ First(found[r], k) /\ file[k] # Nothing
  /\ Goto(r, "read", "copy")
  /\ hold' = [hold EXCEPT ![r] = [of |-> file[k], was |-> version[file[k]]]]
  /\ UNCHANGED <<walkVars, readVars, bad, breaks>>
  /\ Reading

(* Mutant of Skip: the archive ends with the first file that has gone.        *)
SkipRest(r, k) ==
  /\ First(found[r], k) /\ file[k] = Nothing
  /\ Goto(r, "read", IF job[r] = "zip" THEN "sent" ELSE "failed")
  /\ found' = [found EXCEPT ![r] = {}]
  /\ UNCHANGED <<walkVars, body, hold, bad, breaks>>
  /\ Reading

(* It has gone, or cannot be read: the archive goes on without it.            *)
Skip(r, k) ==
  /\ at[r] = "read" /\ First(found[r], k)
  /\ \/ file[k] = Nothing /\ UNCHANGED <<bad, breaks>>
     \/ Break /\ bad' = [bad EXCEPT ![r] = TRUE]
  /\ at' = IF job[r] = "zip" THEN at ELSE [at EXCEPT ![r] = "failed"]
  /\ found' = [found EXCEPT ![r] = @ \ {k}]
  /\ UNCHANGED <<walkVars, body, hold>>
  /\ Reading

(* io.Copy sends what the open file holds while it is read; an error of it is *)
(* dropped.                                                                   *)
Copy(r, k) ==
  /\ First(found[r], k)
  /\ Goto(r, "copy", IF job[r] = "zip" THEN "read" ELSE "sent")
  /\ LET now == version[hold[r].of]
         undisturbed == now = hold[r].was /\ IsWhole(now)
     IN \/ /\ \E b \in IF undisturbed THEN {"whole"} ELSE {"whole", "torn"} :
               body' = [body EXCEPT ![r][k] = b]
           /\ UNCHANGED <<bad, breaks>>
        \/ /\ Break
           /\ body' = [body EXCEPT ![r][k] = "torn"]
           /\ bad' = [bad EXCEPT ![r] = TRUE]
  /\ found' = [found EXCEPT ![r] = @ \ {k}]
  /\ hold' = [hold EXCEPT ![r] = NoHold]
  /\ UNCHANGED walkVars
  /\ Reading

CloseZip(r) ==
  /\ Goto(r, "read", "sent")
  /\ found[r] = {}
  /\ UNCHANGED <<walkVars, readVars, hold, bad, breaks>>
  /\ Reading

-------------------------------------------------------------------------------
Over == {"ok", "failed", "listed", "omitted", "sent"}

Terminated == (\A c \in Callers : at[c] \in Over) /\ UNCHANGED vars

Write(w) ==
  \/ \E k \in Files : BeginWrite(w, k)
  \/ MkdirAll(w) \/ Create(w) \/ CreateFails(w) \/ Fill(w) \/ Put(w) \/ WriteBreaks(w)

Delete(x) ==
  \/ BeginDelete(x) \/ LeaveDir(x) \/ DeleteList(x) \/ DeleteBatch(x) \/ BatchInPart(x)
  \/ DeleteBreaks(x)
  \/ \E e \in Files \cup Parts : DeleteDir(x, e) \/ DeleteFile(x, e)

Read(r) ==
  \/ Begin(r) \/ ListDates(r) \/ WalkRoot(r) \/ WalkUp(r) \/ NextKeys(r) \/ ListingBreaks(r)
  \/ \E e \in Files \cup Parts : WalkDir(r, e) \/ WalkFile(r, e)
  \/ \E k \in Files : Open(r, k) \/ Skip(r, k) \/ Copy(r, k)
  \/ CloseZip(r)

Next ==
  \/ \E w \in Writers : Write(w)
  \/ \E x \in Deleters : Delete(x)
  \/ \E r \in Readers : Read(r)
  \/ Terminated

Spec == Init /\ [][Next]_vars

-------------------------------------------------------------------------------
(* Properties *)

Frames == [dir : {Date} \cup Parts, left : SUBSET (Files \cup Parts)]

(* Every variable stays in its type, and a tree has no file without its       *)
(* directories.                                                               *)
TypeOK ==
  /\ kind \in {"local", "sftp", "s3"}
  /\ dirs \subseteq {Date} \cup Parts
  /\ file \in [Files -> Versions \cup {Nothing}]
  /\ Parts \cap dirs # {} => Date \in dirs
  /\ kind # "s3" => \A k \in Present : <<k[1]>> \in dirs
  /\ version \in [Versions -> [by : SUBSET Writers, done : SUBSET Writers]]
  /\ at \in [Callers -> Over \cup {"idle", "mkdir", "create", "fill", "put", "delete", "page", "batch",
                                   "last", "list", "root", "walk", "pages", "read", "copy"}]
  /\ job \in [Callers -> {"none", "write", "delete", "list", "zip", "file"}]
  /\ wants \in [Writers -> Files \cup {Date}]
  /\ \A c \in Callers : \A i \in 1..Len(walk[c]) : walk[c][i] \in Frames
  /\ after \in [Callers -> Files \cup {Date}]
  /\ found \in [Readers -> SUBSET Files]
  /\ hold \in [Callers -> [of : Versions \cup {Nothing}, was : [by : SUBSET Writers, done : SUBSET Writers]]]
  /\ body \in [Readers -> [Files -> {"none", "whole", "torn"}]]
  /\ bad \in [Callers -> BOOLEAN]
  /\ breaks \in 0..MaxBreaks
  /\ calm \in [Callers -> SUBSET Files]
  /\ denied \in [Deleters -> SUBSET Files]

(* When a Delete reports success, the files that were there when it began are *)
(* gone or were written again, those apart whose keys S3 answered it could    *)
(* not delete: that answer is dropped, and the success is reported with them  *)
(* still there.  On local and sftp nothing of the date is left at that moment.*)
DeleteIsTrue ==
  [][\A x \in Deleters :
       at[x] # "ok" /\ at'[x] = "ok" =>
         calm'[x] \subseteq denied'[x] /\ (kind # "s3" => Present' = {} /\ Date \notin dirs')]_vars

(* Two retention passes that delete one date at the same time cannot both be  *)
(* stopped by what the other has removed: one of them removes it all.         *)
OnePassFinishes ==
  (/\ \A x \in Deleters : at[x] \in Over
   /\ \A w \in Writers : at[w] = "idle"
   /\ breaks = 0 /\ Deleters # {})
  => Present = {} /\ Date \notin dirs

Untouched(r) == {k \in calm[r] : IsWhole(version[file[k]])}

(* What is written and deleted meanwhile costs a reader no other file: a date *)
(* is listed with every file that was left alone, and its archive has all of  *)
(* them, whole.  Only on local can one that goes away fail the rest.          *)
UntouchedIsRead ==
  \A r \in Readers : ~bad[r] =>
    /\ at[r] = "listed" => Untouched(r) \subseteq found[r]
    /\ at[r] = "sent" /\ job[r] = "zip" => \A k \in Untouched(r) : body[r][k] = "whole"
    /\ at[r] \in {"omitted", "failed"} /\ job[r] \in {"list", "zip"} =>
         Untouched(r) = {} \/ (kind = "local" /\ \E x \in Deleters : at[x] # "idle")

(* What a download sends is a whole file, unless a Write of that key was under*)
(* way on local or sftp: a Delete tears nothing, and S3 never does.           *)
TornHasCause ==
  \A r \in Readers : \A k \in Files :
    body[r][k] = "torn" =>
      \/ bad[r]
      \/ kind # "s3" /\ \E w \in Writers : wants[w] = k /\ at[w] \in Over \cup {"fill"}
=============================================================================
