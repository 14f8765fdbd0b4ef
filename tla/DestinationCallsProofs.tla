----------------------- MODULE DestinationCallsProofs -----------------------
(* Theorems about DestinationCalls: for any number of files in a date, of     *)
(* writers, deletes and readers, and of calls that break down.                *)
EXTENDS DestinationCalls, FiniteSetTheorems, SequenceTheorems, TLAPS

-------------------------------------------------------------------------------
(* The order of the keys *)

LEMMA BeforeFacts ==
  ASSUME NEW a \in Nat \X Nat, NEW b \in Nat \X Nat
  PROVE  Before(a, b) <=> a[1] < b[1] \/ (a[1] = b[1] /\ a[2] < b[2])
<1>1. PICK x, y \in Nat : a = <<x, y>>
  OBVIOUS
<1>2. Len(a) = 2
  BY <1>1
<1>3. Before(a, b) <=> \E i \in 1..2 : a[i] < b[i] /\ \A h \in 1..(i - 1) : a[h] = b[h]
  BY <1>2 DEF Before
<1>4. 1..2 = {1, 2} /\ 1..(1 - 1) = {} /\ 1..(2 - 1) = {1}
  OBVIOUS
<1>5. Before(a, b) <=> \/ a[1] < b[1] /\ \A h \in 1..(1 - 1) : a[h] = b[h]
                       \/ a[2] < b[2] /\ \A h \in 1..(2 - 1) : a[h] = b[h]
  BY <1>3, <1>4
<1> QED BY <1>4, <1>5

LEMMA BeforeOrder ==
  /\ \A a \in Files : ~Before(a, a)
  /\ \A a, b \in Files : a = b \/ Before(a, b) \/ Before(b, a)
  /\ \A a, b, c \in Files : Before(a, b) /\ Before(b, c) => Before(a, c)
<1>1. \A a, b \in Files : Before(a, b) <=> a[1] < b[1] \/ (a[1] = b[1] /\ a[2] < b[2])
  BY BeforeFacts, FilesAssumption
<1>2. \A a \in Files : a = <<a[1], a[2]>> /\ a[1] \in Nat /\ a[2] \in Nat
  BY FilesAssumption
<1> QED BY <1>1, <1>2

LEMMA FilesFinite == IsFiniteSet(Files) /\ Cardinality(Files) \in Nat
BY FilesAssumption, FS_CardinalityType

(* Number numbers the files in their order.                                   *)
LEMMA NumberOrder ==
  /\ \A k \in Files : Number(k) \in 1..Cardinality(Files)
  /\ \A k, l \in Files : Before(k, l) => Number(k) < Number(l)
  /\ \A k, l \in Files : Number(k) = Number(l) => k = l
<1> DEFINE Under(k) == {l \in Files : Before(l, k)}
<1>1. ASSUME NEW k \in Files
      PROVE  IsFiniteSet(Under(k)) /\ Cardinality(Under(k)) \in Nat /\ Number(k) = Cardinality(Under(k)) + 1
  BY FilesFinite, FS_Subset, FS_CardinalityType DEF Number
<1>2. ASSUME NEW k \in Files PROVE Number(k) <= Cardinality(Files)
  <2>1. Under(k) \subseteq Files \ {k}
    BY BeforeOrder
  <2>2. IsFiniteSet(Files \ {k}) /\ Cardinality(Files \ {k}) = Cardinality(Files) - 1
    BY FilesFinite, FS_RemoveElement
  <2>3. Cardinality(Under(k)) <= Cardinality(Files) - 1
    <3> HIDE DEF Under
    <3> QED BY <2>1, <2>2, FS_Subset
  <2>4. PICK n \in Nat : n = Cardinality(Under(k))
    BY <1>1
  <2>5. Number(k) = n + 1 /\ n <= Cardinality(Files) - 1
    <3> HIDE DEF Under
    <3> QED BY <1>1, <2>3, <2>4
  <2> HIDE DEF Under
  <2> QED BY <2>5, FilesFinite
<1>3. ASSUME NEW k \in Files, NEW l \in Files, Before(k, l)
      PROVE  Number(k) < Number(l)
  <2>1. Under(k) \in SUBSET Under(l) /\ k \in Under(l) /\ k \notin Under(k)
    BY <1>3, BeforeOrder
  <2>2. /\ IsFiniteSet(Under(l))
        /\ Cardinality(Under(k)) \in Nat /\ Number(k) = Cardinality(Under(k)) + 1
        /\ Cardinality(Under(l)) \in Nat /\ Number(l) = Cardinality(Under(l)) + 1
    BY <1>1
  <2> HIDE DEF Under
  <2>3. Cardinality(Under(k)) <= Cardinality(Under(l)) /\ Cardinality(Under(k)) # Cardinality(Under(l))
    BY <2>1, <2>2, FS_Subset
  <2> QED BY <2>2, <2>3
<1>4. \A k \in Files : Number(k) \in 1..Cardinality(Files)
  <2> TAKE k \in Files
  <2>1. Number(k) \in Nat /\ Number(k) >= 1
    <3>1. PICK n \in Nat : n = Cardinality(Under(k))
      BY <1>1
    <3>2. Number(k) = n + 1
      BY <1>1, <3>1
    <3> HIDE DEF Under
    <3> QED BY <3>2
  <2> HIDE DEF Under
  <2> QED BY <1>2, <2>1, FilesFinite
<1>5. \A k, l \in Files : Before(k, l) => Number(k) < Number(l)
  BY <1>3
<1> HIDE DEF Under
<1> QED BY <1>4, <1>5, BeforeOrder

LEMMA LastOfFacts ==
  ASSUME NEW S \in SUBSET Files, S # {}
  PROVE  LastOf(S) \in S /\ \A l \in S \ {LastOf(S)} : Before(l, LastOf(S))
<1> DEFINE T == {Cardinality(Files) - Number(k) : k \in S}
<1>1. T \in SUBSET Nat /\ T # {}
  BY NumberOrder, FilesFinite
<1>2. PICK t \in T : \A u \in T : <<u, t>> \notin OpToRel(<, Nat)
  <2> HIDE DEF T
  <2> QED BY <1>1, NatLessThanWellFounded, WFMin
<1>3. \A u \in T : ~(u < t)
  <2> HIDE DEF T
  <2> QED BY <1>1, <1>2 DEF OpToRel
<1>4. PICK k \in S : t = Cardinality(Files) - Number(k)
  OBVIOUS
<1>5. ASSUME NEW l \in S, Number(k) < Number(l) PROVE FALSE
  <2>1. Number(k) \in Nat /\ Number(l) \in Nat /\ Cardinality(Files) \in Nat
    BY NumberOrder, FilesFinite
  <2>2. Cardinality(Files) - Number(l) \in T
    OBVIOUS
  <2>3. ~(Cardinality(Files) - Number(l) < t)
    BY <1>3, <2>2
  <2> HIDE DEF T
  <2> QED BY <1>4, <1>5, <2>1, <2>3
<1>6. \A l \in S \ {k} : Before(l, k)
  BY <1>5, NumberOrder, BeforeOrder
<1> HIDE DEF T
<1> QED BY <1>6 DEF LastOf

LEMMA FirstExists ==
  ASSUME NEW S \in SUBSET Files, S # {}
  PROVE  \E k \in S : First(S, k) /\ \A l \in S : ~Before(l, k)
<1> DEFINE T == {Number(k) : k \in S}
<1>1. T \in SUBSET Nat /\ T # {}
  BY NumberOrder, FilesFinite
<1>2. PICK t \in T : \A u \in T : <<u, t>> \notin OpToRel(<, Nat)
  <2> HIDE DEF T
  <2> QED BY <1>1, NatLessThanWellFounded, WFMin
<1>3. \A u \in T : ~(u < t)
  <2> HIDE DEF T
  <2> QED BY <1>1, <1>2 DEF OpToRel
<1>4. PICK k \in S : t = Number(k)
  OBVIOUS
<1>5. \A l \in S : ~Before(l, k)
  BY <1>3, <1>4, NumberOrder
<1>6. \A l \in S \ {k} : Before(k, l)
  BY <1>5, BeforeOrder
<1> HIDE DEF T
<1> QED BY <1>5, <1>6 DEF First

(* Only one entry comes first.                                                *)
LEMMA FirstIsOne ==
  ASSUME NEW S \in SUBSET Files, NEW k, NEW l, First(S, k), First(S, l)
  PROVE  k = l
BY BeforeOrder DEF First

-------------------------------------------------------------------------------
(* Walks *)

LEMMA WalkFacts ==
  ASSUME NEW S, NEW s \in Seq(S), s # <<>>
  PROVE  /\ Last(s) \in S /\ Front(s) \in Seq(S)
         /\ Len(s) \in Nat \ {0} /\ Last(s) = s[Len(s)] /\ Len(Front(s)) = Len(s) - 1
         /\ \A i \in 1..(Len(s) - 1) : Front(s)[i] = s[i]
<1>1. Len(s) \in Nat \ {0} /\ \A i \in 1..Len(s) : s[i] \in S
  BY EmptySeq, ElementOfSeq
<1>2. 1 \in Int /\ Len(s) - 1 \in Int /\ \A i \in 1..(Len(s) - 1) : s[i] \in S
  BY <1>1
<1>3. /\ Front(s) \in Seq(S)
      /\ Len(Front(s)) = IF 1 <= Len(s) - 1 THEN Len(s) - 1 - 1 + 1 ELSE 0
      /\ \A i \in 1..(Len(s) - 1 - 1 + 1) : Front(s)[i] = s[1 + i - 1]
  BY <1>2, SubSeqProperties DEF Front
<1>4. Len(Front(s)) = Len(s) - 1
  <2>1. PICK n \in Nat \ {0} : n = Len(s)
    BY <1>1
  <2>2. (IF 1 <= n - 1 THEN n - 1 - 1 + 1 ELSE 0) = n - 1
    OBVIOUS
  <2> QED BY <1>3, <2>1, <2>2
<1>5. ASSUME NEW i \in 1..(Len(s) - 1) PROVE Front(s)[i] = s[i]
  <2>1. i \in 1..(Len(s) - 1 - 1 + 1) /\ 1 + i - 1 = i
    BY <1>1
  <2> QED BY <1>3, <2>1
<1> QED BY <1>1, <1>3, <1>4, <1>5 DEF Last

-------------------------------------------------------------------------------
(* Types: of what a caller does, of its history and of what readers answer    *)

States == Over \cup {"idle", "mkdir", "create", "fill", "put", "delete", "page", "batch", "last",
                     "list", "root", "walk", "pages", "read", "copy"}

Control ==
  /\ kind \in {"local", "sftp", "s3"}
  /\ at \in [Callers -> States]
  /\ job \in [Callers -> {"none", "write", "delete", "list", "zip", "file"}]
  /\ wants \in [Writers -> Files \cup {Date}]

(* Some calls are made on S3 only and some elsewhere only; a Write has a key. *)
Places ==
  /\ \A c \in Callers :
       /\ at[c] \in {"put", "page", "batch", "last", "pages"} => kind = "s3"
       /\ at[c] \in {"mkdir", "create", "fill", "delete", "walk"} => kind # "s3"
  /\ \A w \in Writers : at[w] # "idle" => wants[w] \in Files

LEMMA ControlStep ==
  ASSUME Control, Places, [Next]_vars
  PROVE  Control' /\ Places'
<1> USE DEF Control, Places, States, Over, Goto, Callers, jobVars
<1>1. ASSUME NEW w \in Writers, Write(w) PROVE Control' /\ Places'
  <2>1. ASSUME NEW k \in Files, BeginWrite(w, k) PROVE Control' /\ Places'
    BY <2>1 DEF BeginWrite
  <2>2. CASE MkdirAll(w) BY <2>2 DEF MkdirAll
  <2>3. CASE Create(w) BY <2>3 DEF Create
  <2>4. CASE CreateFails(w) BY <2>4 DEF CreateFails
  <2>5. CASE Fill(w) BY <2>5 DEF Fill
  <2>6. CASE Put(w) BY <2>6 DEF Put
  <2>7. CASE WriteBreaks(w) BY <2>7 DEF WriteBreaks
  <2> QED BY <1>1, <2>1, <2>2, <2>3, <2>4, <2>5, <2>6, <2>7 DEF Write
<1>2. ASSUME NEW x \in Deleters, Delete(x) PROVE Control' /\ Places'
  <2> x \in Callers /\ x \notin Writers
    BY CallersAssumption
  <2>1. CASE BeginDelete(x) BY <2>1 DEF BeginDelete
  <2>2. CASE LeaveDir(x)
    <3>1. UNCHANGED <<kind, job, wants>>
      BY <2>2 DEF LeaveDir, Deleting
    <3>2. at' = at \/ \E s \in {"ok", "failed"} : at' = [at EXCEPT ![x] = s]
      BY <2>2 DEF LeaveDir
    <3> QED BY <3>1, <3>2
  <2>3. CASE DeleteList(x) BY <2>3 DEF DeleteList
  <2>4. CASE DeleteBatch(x) BY <2>4 DEF DeleteBatch, Deleting
  <2>5. CASE BatchInPart(x) BY <2>5 DEF BatchInPart
  <2>6. CASE DeleteBreaks(x) BY <2>6 DEF DeleteBreaks
  <2>7. ASSUME NEW e \in Files \cup Parts, DeleteDir(x, e) \/ DeleteFile(x, e)
        PROVE  Control' /\ Places'
    BY <2>7 DEF DeleteDir, DeleteFile, NotThere, Deleting
  <2> QED BY <1>2, <2>1, <2>2, <2>3, <2>4, <2>5, <2>6, <2>7 DEF Delete
<1>3. ASSUME NEW r \in Readers, Read(r) PROVE Control' /\ Places'
  <2> r \in Callers /\ r \notin Writers
    BY CallersAssumption
  <2>1. CASE Begin(r) BY <2>1 DEF Begin, BeginRead
  <2>2. CASE ListDates(r) BY <2>2 DEF ListDates, Reading
  <2>3. CASE WalkRoot(r) BY <2>3 DEF WalkRoot, Reading, AfterList
  <2>4. CASE WalkUp(r)
    <3>1. UNCHANGED <<kind, job, wants>>
      BY <2>4 DEF WalkUp, Reading
    <3>2. at' = at \/ \E s \in {"listed", "failed", "read"} : at' = [at EXCEPT ![r] = s]
      BY <2>4 DEF WalkUp, AfterList
    <3> QED BY <3>1, <3>2
  <2>5. CASE NextKeys(r) BY <2>5 DEF NextKeys, Reading, AfterList
  <2>6. CASE ListingBreaks(r) BY <2>6 DEF ListingBreaks, Reading, AfterList
  <2>7. ASSUME NEW e \in Files \cup Parts, WalkDir(r, e) \/ WalkFile(r, e)
        PROVE  Control' /\ Places'
    BY <2>7 DEF WalkDir, WalkFile, Reading
  <2>8. ASSUME NEW k \in Files, Open(r, k) \/ Skip(r, k) \/ Copy(r, k)
        PROVE  Control' /\ Places'
    BY <2>8 DEF Open, Skip, Copy, Reading
  <2>9. CASE CloseZip(r) BY <2>9 DEF CloseZip, Reading
  <2> QED BY <1>3, <2>1, <2>2, <2>3, <2>4, <2>5, <2>6, <2>7, <2>8, <2>9 DEF Read
<1>4. CASE UNCHANGED vars BY <1>4 DEF vars
<1> QED BY <1>1, <1>2, <1>3, <1>4 DEF Next, Terminated

History ==
  /\ bad \in [Callers -> BOOLEAN]
  /\ breaks \in 0..MaxBreaks
  /\ calm \in [Callers -> SUBSET Files]
  /\ denied \in [Deleters -> SUBSET Files]

(* Only what S3 answers to a Delete adds to the keys it was denied.           *)
Denials(x) ==
  BatchInPart(x) /\ \E K \in SUBSET Present : denied' = [denied EXCEPT ![x] = @ \cup K]

LEMMA DeniedStep ==
  ASSUME [Next]_vars
  PROVE  denied' = denied \/ \E x \in Deleters : Denials(x)
<1> USE DEF jobVars
<1>1. ASSUME NEW w \in Writers, Write(w) PROVE denied' = denied
  BY <1>1 DEF Write, BeginWrite, MkdirAll, Create, CreateFails, Fill, Put, WriteBreaks
<1>2. ASSUME NEW x \in Deleters, Delete(x) PROVE denied' = denied \/ Denials(x)
  <2>1. CASE BatchInPart(x)
    <3>1. PICK gone : denied' = [denied EXCEPT ![x] = @ \cup (Present \cap (Last(walk[x]).left \ gone))]
      BY <2>1 DEF BatchInPart
    <3> QED BY <2>1, <3>1 DEF Denials
  <2>2. CASE ~BatchInPart(x)
    BY <1>2, <2>2 DEF Delete, BeginDelete, LeaveDir, DeleteList, DeleteBatch, DeleteBreaks,
                     DeleteDir, DeleteFile, Deleting
  <2> QED BY <2>1, <2>2
<1>3. ASSUME NEW r \in Readers, Read(r) PROVE denied' = denied
  BY <1>3 DEF Read, Begin, BeginRead, ListDates, WalkRoot, WalkUp, NextKeys, ListingBreaks, WalkDir, WalkFile,
             Open, Skip, Copy, CloseZip, Reading
<1>4. CASE UNCHANGED vars
  BY <1>4 DEF vars
<1> QED BY <1>1, <1>2, <1>3, <1>4 DEF Next, Terminated, vars

LEMMA HistoryStep ==
  ASSUME History, [Next]_vars
  PROVE  History'
<1> DEFINE Counted == /\ bad' \in [Callers -> BOOLEAN]
                     /\ breaks' \in 0..MaxBreaks
                     /\ calm' \in [Callers -> SUBSET Files]
<1> USE DEF History, Touch, Break, Callers
<1>0. MaxBreaks \in Nat
  BY BoundAssumption
<1>1. Present \in SUBSET Files
  BY DEF Present
<1>2. ASSUME NEW w \in Writers, Write(w) PROVE Counted
  <2>1. CASE Create(w) \/ Fill(w)
    BY <2>1 DEF Create, Truncate, Fill
  <2>2. CASE Put(w)
    BY <1>0, <2>2 DEF Put
  <2>3. CASE WriteBreaks(w)
    BY <1>0, <2>3 DEF WriteBreaks
  <2>4. ASSUME NEW k \in Files, BeginWrite(w, k) PROVE Counted
    BY <2>4 DEF BeginWrite
  <2>5. CASE MkdirAll(w) \/ CreateFails(w)
    BY <2>5 DEF MkdirAll, CreateFails
  <2> QED BY <1>2, <2>1, <2>2, <2>3, <2>4, <2>5 DEF Write
<1>3. ASSUME NEW x \in Deleters, Delete(x) PROVE Counted
  <2>1. CASE BeginDelete(x)
    BY <1>1, <2>1 DEF BeginDelete
  <2>2. CASE LeaveDir(x)
    <3>1. UNCHANGED <<breaks, calm>>
      BY <2>2 DEF LeaveDir
    <3>2. PICK b \in BOOLEAN : bad' = [bad EXCEPT ![x] = b]
      BY <2>2 DEF LeaveDir
    <3> QED BY <3>1, <3>2
  <2>3. CASE DeleteList(x) \/ DeleteBatch(x)
    BY <2>3 DEF DeleteList, DeleteBatch
  <2>4. CASE BatchInPart(x)
    <3>1. PICK gone : Touch(gone)
      BY <2>4 DEF BatchInPart
    <3>2. breaks' \in 0..MaxBreaks /\ bad' = [bad EXCEPT ![x] = TRUE]
      BY <1>0, <2>4 DEF BatchInPart
    <3> QED BY <3>1, <3>2
  <2>6. CASE DeleteBreaks(x)
    BY <1>0, <2>6 DEF DeleteBreaks
  <2>5. ASSUME NEW e \in Files \cup Parts, DeleteDir(x, e) \/ DeleteFile(x, e) PROVE Counted
    BY <2>5 DEF DeleteDir, DeleteFile, NotThere
  <2> QED BY <1>3, <2>1, <2>2, <2>3, <2>4, <2>5, <2>6 DEF Delete
<1>4. ASSUME NEW r \in Readers, Read(r) PROVE Counted
  <2>1. CASE Begin(r)
    BY <1>1, <2>1 DEF Begin, BeginRead
  <2>2. CASE ListDates(r) \/ WalkRoot(r) \/ WalkUp(r) \/ NextKeys(r) \/ CloseZip(r)
    BY <2>2 DEF ListDates, WalkRoot, WalkUp, NextKeys, CloseZip, Reading
  <2>3. CASE ListingBreaks(r)
    BY <1>0, <2>3 DEF ListingBreaks, Reading
  <2>4. ASSUME NEW e \in Files \cup Parts, WalkDir(r, e) \/ WalkFile(r, e) PROVE Counted
    BY <2>4 DEF WalkDir, WalkFile, Reading
  <2>5. ASSUME NEW k \in Files, Open(r, k) PROVE Counted
    BY <2>5 DEF Open, Reading
  <2>6. ASSUME NEW k \in Files, Skip(r, k) PROVE Counted
    <3>1. breaks' \in 0..MaxBreaks /\ (bad' = bad \/ bad' = [bad EXCEPT ![r] = TRUE])
      BY <1>0, <2>6 DEF Skip
    <3>2. calm' = calm
      BY <2>6 DEF Skip, Reading
    <3> QED BY <3>1, <3>2
  <2>7. ASSUME NEW k \in Files, Copy(r, k) PROVE Counted
    <3>1. breaks' \in 0..MaxBreaks /\ (bad' = bad \/ bad' = [bad EXCEPT ![r] = TRUE])
      BY <1>0, <2>7 DEF Copy
    <3>2. calm' = calm
      BY <2>7 DEF Copy, Reading
    <3> QED BY <3>1, <3>2
  <2> QED BY <1>4, <2>1, <2>2, <2>3, <2>4, <2>5, <2>6, <2>7 DEF Read
<1>5. CASE UNCHANGED vars
  BY <1>5 DEF vars
<1>6. Counted
  BY <1>2, <1>3, <1>4, <1>5 DEF Next, Terminated
<1>7. denied' \in [Deleters -> SUBSET Files]
  <2>1. ASSUME NEW x \in Deleters, Denials(x) PROVE denied' \in [Deleters -> SUBSET Files]
    <3>1. PICK K \in SUBSET Files : denied' = [denied EXCEPT ![x] = @ \cup K]
      BY <2>1 DEF Denials, Present
    <3> QED BY <3>1 DEF History
  <2> QED BY <2>1, DeniedStep DEF History
<1> QED BY <1>6, <1>7

Answers ==
  /\ after \in [Callers -> Files \cup {Date}]
  /\ found \in [Readers -> SUBSET Files]
  /\ body \in [Readers -> [Files -> {"none", "whole", "torn"}]]

LEMMA AnswersStep ==
  ASSUME Answers, [Next]_vars
  PROVE  Answers'
<1> USE DEF Answers, Callers, walkVars, readVars
<1>1. \A c \in Callers : PageOf(c) \in SUBSET Files
  BY DEF PageOf, Rest, Present
<1>2. \A c \in Callers : PageOf(c) # {} => LastOf(PageOf(c)) \in Files
  BY <1>1, LastOfFacts
<1>3. ASSUME NEW w \in Writers, Write(w) PROVE UNCHANGED <<after, found, body>>
  BY <1>3 DEF Write, BeginWrite, MkdirAll, Create, CreateFails, Fill, Put, WriteBreaks
<1>4. ASSUME NEW x \in Deleters, Delete(x) PROVE Answers'
  <2>1. CASE DeleteList(x)
    BY <1>2, <2>1 DEF DeleteList
  <2>2. CASE ~DeleteList(x)
    BY <1>4, <2>2 DEF Delete, BeginDelete, LeaveDir, DeleteBatch, BatchInPart, DeleteBreaks, DeleteDir,
                     DeleteFile, Deleting
  <2> QED BY <2>1, <2>2
<1>5. ASSUME NEW r \in Readers, Read(r) PROVE Answers'
  <2>1. CASE Begin(r)
    BY <2>1 DEF Begin, BeginRead
  <2>2. CASE NextKeys(r)
    BY <1>1, <1>2, <2>2 DEF NextKeys
  <2>3. CASE ListDates(r) \/ WalkRoot(r) \/ WalkUp(r) \/ CloseZip(r)
    BY <2>3 DEF ListDates, WalkRoot, WalkUp, CloseZip
  <2>4. CASE ListingBreaks(r)
    BY <2>4 DEF ListingBreaks
  <2>5. ASSUME NEW e \in Files \cup Parts, WalkDir(r, e) \/ WalkFile(r, e) PROVE Answers'
    BY <2>5 DEF WalkDir, WalkFile
  <2>6. ASSUME NEW k \in Files, Open(r, k) \/ Skip(r, k) PROVE Answers'
    BY <2>6 DEF Open, Skip
  <2>7. ASSUME NEW k \in Files, Copy(r, k) PROVE Answers'
    <3>1. PICK b \in {"whole", "torn"} : body' = [body EXCEPT ![r][k] = b]
      BY <2>7 DEF Copy
    <3>2. found' = [found EXCEPT ![r] = @ \ {k}] /\ after' = after
      BY <2>7 DEF Copy
    <3> QED BY <3>1, <3>2
  <2> QED BY <1>5, <2>1, <2>2, <2>3, <2>4, <2>5, <2>6, <2>7 DEF Read
<1>6. CASE UNCHANGED vars
  BY <1>6 DEF vars
<1> QED BY <1>3, <1>4, <1>5, <1>6 DEF Next, Terminated

-------------------------------------------------------------------------------
(* The versions: there is always one nothing has led to yet, since every      *)
(* Write has bytes in at most one and a version in use has bytes of some.     *)

Row == [by : SUBSET Writers, done : SUBSET Writers]

Store ==
  /\ file \in [Files -> Versions \cup {Nothing}]
  /\ version \in [Versions -> Row]
  /\ hold \in [Callers -> [of : Versions \cup {Nothing}, was : Row]]

Room ==
  /\ \A v \in Versions : v > Cardinality(Files) /\ version[v] # Old => version[v].by # {}
  /\ \A w \in Writers : at[w] \in {"idle", "mkdir", "create", "put"} =>
       \A v \in Versions : w \notin version[v].by
  /\ \A w \in Writers : \A u, v \in Versions :
       w \in version[u].by /\ w \in version[v].by => u = v
  /\ \A w \in Writers : at[w] = "fill" =>
       hold[w].of \in Versions /\ w \in version[hold[w].of].by

LEMMA SizesFinite ==
  /\ Cardinality(Files) \in Nat /\ Cardinality(Writers) \in Nat
  /\ Versions = 1..(Cardinality(Files) + Cardinality(Writers))
BY FilesFinite, CallersAssumption, FS_CardinalityType DEF Versions

LEMMA FreshFacts ==
  ASSUME Store, Room, NEW w \in Writers, at[w] \in {"create", "put"}
  PROVE  Fresh \in Versions /\ Fresh > Cardinality(Files) /\ version[Fresh] = Old
<1>1. PICK n, m \in Nat : n = Cardinality(Files) /\ m = Cardinality(Writers)
  BY SizesFinite
<1>2. Versions = 1..(n + m)
  BY <1>1, SizesFinite
<1> DEFINE Spare == {v \in Versions : v > n /\ version[v] = Old}
<1>3. Spare # {}
  <2> SUFFICES ASSUME Spare = {} PROVE FALSE
    OBVIOUS
  <2> DEFINE f == [v \in (n + 1)..(n + m) |-> CHOOSE u : u \in version[v].by]
  <2>1. ASSUME NEW v \in (n + 1)..(n + m)
        PROVE  v \in Versions /\ f[v] \in version[v].by /\ f[v] \in Writers \ {w}
    <3>1. v \in Versions /\ v > n
      BY <1>2
    <3>2. version[v].by # {} /\ version[v].by \subseteq Writers /\ w \notin version[v].by
      BY <1>1, <3>1 DEF Room, Store, Row
    <3> QED BY <3>1, <3>2
  <2>2. f \in [(n + 1)..(n + m) -> Writers \ {w}]
    BY <2>1
  <2>3. IsFiniteSet(Writers \ {w}) /\ Cardinality(Writers \ {w}) = m - 1
    BY <1>1, CallersAssumption, FS_RemoveElement
  <2>4. IsFiniteSet((n + 1)..(n + m)) /\ Cardinality((n + 1)..(n + m)) = m
    <3>1. n + 1 \in Int /\ n + m \in Int /\ (IF n + 1 > n + m THEN 0 ELSE n + m - (n + 1) + 1) = m
      OBVIOUS
    <3> QED BY <3>1, FS_Interval
  <2>5. m - 1 < m
    OBVIOUS
  <2> HIDE DEF f
  <2>6. PICK u, v \in (n + 1)..(n + m) : u # v /\ f[u] = f[v]
    BY <2>2, <2>3, <2>4, <2>5, FS_PigeonHole
  <2> QED BY <2>1, <2>6 DEF Room
<1>4. PICK v \in Spare : \A u \in Spare : <<u, v>> \notin OpToRel(<, Nat)
  <2>1. Spare \subseteq Nat
    BY <1>2
  <2> HIDE DEF Spare
  <2> QED BY <1>3, <2>1, NatLessThanWellFounded, WFMin
<1>5. \A u \in Spare : v <= u
  <2> TAKE u \in Spare
  <2>1. u \in Nat /\ v \in Nat
    BY <1>2
  <2> HIDE DEF Spare
  <2>2. ~(u < v)
    BY <1>4, <2>1 DEF OpToRel
  <2> QED BY <2>1, <2>2
<1> QED BY <1>1, <1>5 DEF Fresh

(* The writers that have v open.                                              *)
Filling(v) == {u \in Writers : at[u] = "fill" /\ hold[u].of = v}

LEMMA CreateFacts ==
  ASSUME Places, Store, Room, NEW w \in Writers, Create(w)
  PROVE  /\ wants[w] \in Files
         /\ \E v \in Versions :
              /\ v = file[wants[w]] \/ (v > Cardinality(Files) /\ version[v] = Old)
              /\ Filling(v) \subseteq version[v].by /\ w \notin version[v].by
              /\ version' = [version EXCEPT ![v] = [by |-> {w} \cup Filling(v), done |-> {}]]
              /\ file' = [file EXCEPT ![wants[w]] = v]
              /\ hold' = [hold EXCEPT ![w] = [of |-> v, was |-> Old]]
<1>1. at[w] = "create" /\ wants[w] \in Files
  BY DEF Create, Goto, Places
<1>2. PICK k : k = wants[w]
  OBVIOUS
<1>3. \A v \in Versions : Filling(v) \subseteq version[v].by /\ w \notin version[v].by
  BY <1>1 DEF Filling, Room
<1>4. CASE file[k] # Nothing
  <2>1. file[k] \in Versions
    BY <1>1, <1>2, <1>4 DEF Store
  <2>2. Writing(k) = Filling(file[k])
    BY DEF Writing, Filling
  <2>3. /\ version' = [version EXCEPT ![file[k]] = [by |-> {w} \cup Filling(file[k]), done |-> {}]]
        /\ file' = [file EXCEPT ![k] = file[k]]
        /\ hold' = [hold EXCEPT ![w] = [of |-> file[k], was |-> Old]]
    BY <1>2, <1>4, <2>2 DEF Create, Truncate
  <2> QED BY <1>1, <1>2, <1>3, <2>1, <2>3
<1>5. CASE file[k] = Nothing
  <2>1. Fresh \in Versions /\ Fresh > Cardinality(Files) /\ version[Fresh] = Old
    BY <1>1, FreshFacts
  <2>2. Filling(Fresh) = {}
    BY <1>3, <2>1 DEF Old
  <2>3. /\ version' = [version EXCEPT ![Fresh] = [by |-> {w} \cup {}, done |-> {}]]
        /\ file' = [file EXCEPT ![k] = Fresh]
        /\ hold' = [hold EXCEPT ![w] = [of |-> Fresh, was |-> Old]]
    BY <1>2, <1>5 DEF Create, Truncate
  <2> QED BY <1>1, <1>2, <1>3, <2>1, <2>2, <2>3
<1> QED BY <1>4, <1>5

LEMMA PutFacts ==
  ASSUME Places, Store, Room, NEW w \in Writers, Put(w)
  PROVE  /\ wants[w] \in Files
         /\ \E v \in Versions :
              /\ v > Cardinality(Files) /\ version[v] = Old
              /\ version' = [version EXCEPT ![v] = [by |-> {w}, done |-> {w}]]
              /\ file' = [file EXCEPT ![wants[w]] = v]
              /\ hold' = hold
<1>1. at[w] = "put" /\ wants[w] \in Files
  BY DEF Put, Goto, Places
<1>2. Fresh \in Versions /\ Fresh > Cardinality(Files) /\ version[Fresh] = Old
  BY <1>1, FreshFacts
<1> QED BY <1>1, <1>2 DEF Put

LEMMA FillFacts ==
  ASSUME Store, Room, NEW w \in Writers, Fill(w)
  PROVE  \E v \in Versions :
           /\ v = hold[w].of /\ w \in version[v].by
           /\ version' = [version EXCEPT ![v] = [by |-> version[v].by, done |-> version[v].done \cup {w}]]
<1>1. PICK v \in Versions : v = hold[w].of /\ w \in version[v].by
  BY DEF Fill, Goto, Room
<1>2. version' = [version EXCEPT ![v] = [version[v] EXCEPT !.done = @ \cup {w}]]
  BY <1>1 DEF Fill
<1>3. [version[v] EXCEPT !.done = @ \cup {w}] = [by |-> version[v].by, done |-> version[v].done \cup {w}]
  <2>1. PICK row \in Row : row = version[v]
    BY DEF Store
  <2>2. [row EXCEPT !.done = @ \cup {w}] = [by |-> row.by, done |-> row.done \cup {w}]
    BY DEF Row
  <2> QED BY <2>1, <2>2
<1> QED BY <1>1, <1>2, <1>3

LEMMA StoreStep ==
  ASSUME Places, Store, Room, [Next]_vars
  PROVE  Store'
<1> USE DEF Callers
<1>1. ASSUME NEW w \in Writers, Write(w) PROVE Store'
  <2>1. CASE Create(w)
    <3>1. PICK v \in Versions :
            /\ version' = [version EXCEPT ![v] = [by |-> {w} \cup Filling(v), done |-> {}]]
            /\ file' = [file EXCEPT ![wants[w]] = v]
            /\ hold' = [hold EXCEPT ![w] = [of |-> v, was |-> Old]]
      BY <2>1, CreateFacts
    <3>2. [by |-> {w} \cup Filling(v), done |-> {}] \in Row /\ Old \in Row
      BY DEF Row, Filling, Old
    <3> QED BY <3>1, <3>2 DEF Store
  <2>2. CASE Fill(w)
    <3>1. PICK v \in Versions :
            version' = [version EXCEPT ![v] = [by |-> version[v].by, done |-> version[v].done \cup {w}]]
      BY <2>2, FillFacts
    <3>2. version' \in [Versions -> Row]
      BY <3>1 DEF Store, Row
    <3>3. hold' = [hold EXCEPT ![w] = NoHold] /\ file' = file
      BY <2>2 DEF Fill
    <3> QED BY <3>2, <3>3 DEF Store, NoHold, Old, Row
  <2>3. CASE Put(w)
    <3>1. PICK v \in Versions :
            /\ version' = [version EXCEPT ![v] = [by |-> {w}, done |-> {w}]]
            /\ file' = [file EXCEPT ![wants[w]] = v]
            /\ hold' = hold
      BY <2>3, PutFacts
    <3>2. [by |-> {w}, done |-> {w}] \in Row
      BY DEF Row
    <3> QED BY <3>1, <3>2 DEF Store
  <2>4. CASE WriteBreaks(w)
    BY <2>4 DEF WriteBreaks, treeVars, Store, NoHold, Old, Row
  <2>5. ASSUME NEW k \in Files, BeginWrite(w, k) PROVE Store'
    BY <2>5 DEF BeginWrite, treeVars, Store
  <2>6. CASE MkdirAll(w) \/ CreateFails(w)
    BY <2>6 DEF MkdirAll, CreateFails, treeVars, Store
  <2> QED BY <1>1, <2>1, <2>2, <2>3, <2>4, <2>5, <2>6 DEF Write
<1>2. ASSUME NEW x \in Deleters, Delete(x) PROVE Store'
  <2>1. CASE BeginDelete(x) \/ LeaveDir(x) \/ DeleteList(x) \/ DeleteBreaks(x)
    BY <2>1 DEF BeginDelete, LeaveDir, DeleteList, DeleteBreaks, Deleting, treeVars, Store
  <2>2. CASE DeleteBatch(x) \/ BatchInPart(x)
    <3>1. UNCHANGED <<version, hold>>
      BY <2>2 DEF DeleteBatch, BatchInPart, Deleting
    <3>2. \E gone : file' = [k \in Files |-> IF k \in gone THEN Nothing ELSE file[k]]
      BY <2>2 DEF DeleteBatch, BatchInPart
    <3> QED BY <3>1, <3>2 DEF Store
  <2>3. ASSUME NEW e \in Files \cup Parts, DeleteDir(x, e) \/ DeleteFile(x, e) PROVE Store'
    BY <2>3 DEF DeleteDir, DeleteFile, NotThere, Deleting, Store
  <2> QED BY <1>2, <2>1, <2>2, <2>3 DEF Delete
<1>3. ASSUME NEW r \in Readers, Read(r) PROVE Store'
  <2>1. ASSUME NEW k \in Files, Open(r, k) PROVE Store'
    <3>1. file[k] \in Versions /\ UNCHANGED <<file, version>>
      BY <2>1 DEF Open, Reading, treeVars, Store
    <3>2. hold' = [hold EXCEPT ![r] = [of |-> file[k], was |-> version[file[k]]]]
      BY <2>1 DEF Open
    <3> QED BY <3>1, <3>2 DEF Store
  <2>2. ASSUME NEW k \in Files, Copy(r, k) PROVE Store'
    BY <2>2 DEF Copy, Reading, treeVars, Store, NoHold, Old, Row
  <2>3. CASE Begin(r) \/ ListDates(r) \/ WalkRoot(r) \/ WalkUp(r) \/ NextKeys(r) \/ CloseZip(r)
    BY <2>3 DEF Begin, BeginRead, ListDates, WalkRoot, WalkUp, NextKeys, CloseZip, Reading, treeVars, Store
  <2>4. CASE ListingBreaks(r)
    BY <2>4 DEF ListingBreaks, Reading, treeVars, Store
  <2>5. ASSUME NEW e \in Files \cup Parts, WalkDir(r, e) \/ WalkFile(r, e) PROVE Store'
    BY <2>5 DEF WalkDir, WalkFile, Reading, treeVars, Store
  <2>6. ASSUME NEW k \in Files, Skip(r, k) PROVE Store'
    BY <2>6 DEF Skip, Reading, treeVars, Store
  <2> QED BY <1>3, <2>1, <2>2, <2>3, <2>4, <2>5, <2>6 DEF Read
<1>4. CASE UNCHANGED vars
  BY <1>4 DEF vars, Store
<1> QED BY <1>1, <1>2, <1>3, <1>4 DEF Next, Terminated

(* A Delete or a read moves nobody else and leaves the versions alone.        *)
LEMMA DeleteAlone ==
  ASSUME Control, NEW x \in Deleters, Delete(x)
  PROVE  /\ UNCHANGED <<version, hold, wants, kind>>
         /\ \A c \in Callers \ {x} : at'[c] = at[c]
<1> x \in Callers
  BY DEF Callers
<1>1. CASE BeginDelete(x) \/ DeleteList(x) \/ DeleteBreaks(x)
  BY <1>1 DEF BeginDelete, DeleteList, DeleteBreaks, Goto, Control, treeVars, jobVars
<1>2. CASE LeaveDir(x)
  BY <1>2 DEF LeaveDir, Deleting, Control, jobVars
<1>3. CASE DeleteBatch(x)
  BY <1>3 DEF DeleteBatch, Deleting, Goto, Control, jobVars
<1>4. CASE BatchInPart(x)
  BY <1>4 DEF BatchInPart, Deleting, Goto, Control, jobVars
<1>5. ASSUME NEW e \in Files \cup Parts, DeleteDir(x, e) \/ DeleteFile(x, e)
      PROVE  UNCHANGED <<version, hold, wants, kind>> /\ \A c \in Callers \ {x} : at'[c] = at[c]
  BY <1>5 DEF DeleteDir, DeleteFile, NotThere, Deleting, Control, jobVars
<1> QED BY <1>1, <1>2, <1>3, <1>4, <1>5 DEF Delete

LEMMA ReadAlone ==
  ASSUME Control, Store, NEW r \in Readers, Read(r)
  PROVE  /\ UNCHANGED <<dirs, file, version, wants, kind>>
         /\ \A c \in Callers \ {r} : at'[c] = at[c] /\ hold'[c] = hold[c]
<1> r \in Callers
  BY DEF Callers
<1> USE DEF Reading, treeVars, jobVars, Goto, Control
<1>1. CASE Begin(r)
  BY <1>1 DEF Begin, BeginRead
<1>2. CASE ListDates(r) \/ WalkRoot(r) \/ WalkUp(r) \/ NextKeys(r) \/ CloseZip(r)
  BY <1>2 DEF ListDates, WalkRoot, WalkUp, NextKeys, CloseZip
<1>3. CASE ListingBreaks(r)
  BY <1>3 DEF ListingBreaks
<1>4. ASSUME NEW e \in Files \cup Parts, WalkDir(r, e) \/ WalkFile(r, e)
      PROVE  /\ UNCHANGED <<dirs, file, version, wants, kind>>
             /\ \A c \in Callers \ {r} : at'[c] = at[c] /\ hold'[c] = hold[c]
  BY <1>4 DEF WalkDir, WalkFile
<1>5. ASSUME NEW k \in Files, Open(r, k)
      PROVE  /\ UNCHANGED <<dirs, file, version, wants, kind>>
             /\ \A c \in Callers \ {r} : at'[c] = at[c] /\ hold'[c] = hold[c]
  BY <1>5 DEF Open, Store
<1>6. ASSUME NEW k \in Files, Skip(r, k)
      PROVE  /\ UNCHANGED <<dirs, file, version, wants, kind>>
             /\ \A c \in Callers \ {r} : at'[c] = at[c] /\ hold'[c] = hold[c]
  BY <1>6 DEF Skip
<1>7. ASSUME NEW k \in Files, Copy(r, k)
      PROVE  /\ UNCHANGED <<dirs, file, version, wants, kind>>
             /\ \A c \in Callers \ {r} : at'[c] = at[c] /\ hold'[c] = hold[c]
  <2>1. hold' = [hold EXCEPT ![r] = NoHold]
    BY <1>7 DEF Copy
  <2>2. \E s \in States : at' = [at EXCEPT ![r] = s]
    BY <1>7 DEF Copy, States, Over
  <2>3. UNCHANGED <<dirs, file, version, wants, kind>>
    BY <1>7 DEF Copy
  <2> QED BY <2>1, <2>2, <2>3 DEF Store
<1> QED BY <1>1, <1>2, <1>3, <1>4, <1>5, <1>6, <1>7 DEF Read

LEMMA RoomStep ==
  ASSUME Control, Places, Store, Room, [Next]_vars
  PROVE  Room'
<1>1. ASSUME version' = version, \A w \in Writers : at'[w] = at[w] /\ hold'[w] = hold[w] PROVE Room'
  BY <1>1 DEF Room
<1>2. ASSUME NEW w \in Writers, Write(w) PROVE Room'
  <2> w \in Callers
    BY DEF Callers
  <2>1. ASSUME NEW k \in Files, BeginWrite(w, k) PROVE Room'
    BY <2>1 DEF BeginWrite, treeVars, Goto, Control, Room, Callers
  <2>2. CASE MkdirAll(w) \/ CreateFails(w)
    BY <2>2 DEF MkdirAll, CreateFails, treeVars, Goto, Control, Room, Callers
  <2>3. CASE WriteBreaks(w)
    BY <2>3 DEF WriteBreaks, treeVars, Control, Store, Room, Callers
  <2>4. CASE Create(w)
    <3>1. PICK v \in Versions :
            /\ Filling(v) \subseteq version[v].by /\ w \notin version[v].by
            /\ version' = [version EXCEPT ![v] = [by |-> {w} \cup Filling(v), done |-> {}]]
            /\ hold' = [hold EXCEPT ![w] = [of |-> v, was |-> Old]]
      BY <2>4, CreateFacts
    <3>2. at[w] = "create" /\ at' = [at EXCEPT ![w] = "fill"]
      BY <2>4 DEF Create, Goto
    <3>3. version'[v].by = {w} \cup Filling(v) /\ \A u \in Versions \ {v} : version'[u] = version[u]
      BY <3>1 DEF Store
    <3>4. \A u \in Writers \ {w} : at'[u] = at[u] /\ hold'[u] = hold[u]
      BY <3>1, <3>2 DEF Control, Store, Callers
    <3>5. at'[w] = "fill" /\ hold'[w].of = v
      BY <3>1, <3>2 DEF Control, Store, Callers
    <3>6. \A u \in Versions : w \notin version[u].by
      BY <3>2 DEF Room
    <3>7. \A u \in Writers \ {w} : \A o \in Versions : u \in version'[o].by => u \in version[o].by
      BY <3>1, <3>3
    <3>8. \A o \in Versions : w \in version'[o].by => o = v
      BY <3>3, <3>6
    <3>9. \A u \in Writers \ {w} : at[u] = "fill" => u \in version'[hold[u].of].by
      BY <3>3 DEF Filling, Room
    <3>10. \A u \in Writers : at'[u] = "fill" => hold'[u].of \in Versions /\ u \in version'[hold'[u].of].by
      BY <3>3, <3>4, <3>5, <3>9 DEF Room
    <3>11. \A o \in Versions : o > Cardinality(Files) /\ version'[o] # Old => version'[o].by # {}
      BY <3>3 DEF Room
    <3>12. \A u \in Writers : at'[u] \in {"idle", "mkdir", "create", "put"} =>
             \A o \in Versions : u \notin version'[o].by
      BY <3>4, <3>5, <3>7 DEF Room
    <3>13. \A u \in Writers : \A o, p \in Versions :
             u \in version'[o].by /\ u \in version'[p].by => o = p
      BY <3>7, <3>8 DEF Room
    <3> QED BY <3>10, <3>11, <3>12, <3>13 DEF Room
  <2>5. CASE Fill(w)
    <3>1. PICK v \in Versions :
            /\ v = hold[w].of /\ w \in version[v].by
            /\ version' = [version EXCEPT ![v] = [by |-> version[v].by, done |-> version[v].done \cup {w}]]
      BY <2>5, FillFacts
    <3>2. at' = [at EXCEPT ![w] = "ok"] /\ hold' = [hold EXCEPT ![w] = NoHold]
      BY <2>5 DEF Fill, Goto
    <3>3. /\ \A u \in Versions : version'[u].by = version[u].by
          /\ \A u \in Versions \ {v} : version'[u] = version[u]
      BY <3>1 DEF Store
    <3>4. at'[w] = "ok" /\ \A u \in Writers \ {w} : at'[u] = at[u] /\ hold'[u] = hold[u]
      BY <3>2 DEF Control, Store, Callers
    <3> QED BY <3>1, <3>3, <3>4 DEF Room
  <2>6. CASE Put(w)
    <3>1. PICK v \in Versions :
            /\ version[v] = Old
            /\ version' = [version EXCEPT ![v] = [by |-> {w}, done |-> {w}]]
            /\ hold' = hold
      BY <2>6, PutFacts
    <3>2. at[w] = "put" /\ \E s \in {"ok", "failed"} : at' = [at EXCEPT ![w] = s]
      BY <2>6 DEF Put, Goto
    <3>3. version'[v].by = {w} /\ \A u \in Versions \ {v} : version'[u] = version[u]
      BY <3>1 DEF Store
    <3>4. at'[w] \in {"ok", "failed"} /\ \A u \in Writers \ {w} : at'[u] = at[u]
      BY <3>2 DEF Control, Callers
    <3>5. \A u \in Versions : w \notin version[u].by
      BY <3>2 DEF Room
    <3>6. \A u \in Writers : at[u] = "fill" => hold[u].of # v
      BY <3>1 DEF Room, Old
    <3> QED BY <3>1, <3>3, <3>4, <3>5, <3>6 DEF Room
  <2> QED BY <1>2, <2>1, <2>2, <2>3, <2>4, <2>5, <2>6 DEF Write
<1>3. ASSUME NEW x \in Deleters, Delete(x) PROVE Room'
  <2>1. \A w \in Writers : w \in Callers \ {x}
    BY CallersAssumption DEF Callers
  <2> QED BY <1>1, <1>3, <2>1, DeleteAlone
<1>4. ASSUME NEW r \in Readers, Read(r) PROVE Room'
  <2>1. \A w \in Writers : w \in Callers \ {r}
    BY CallersAssumption DEF Callers
  <2> QED BY <1>1, <1>4, <2>1, ReadAlone
<1>5. CASE UNCHANGED vars
  BY <1>1, <1>5 DEF vars
<1> QED BY <1>2, <1>3, <1>4, <1>5 DEF Next, Terminated

-------------------------------------------------------------------------------
(* The tree and the walks in it                                               *)

(* There is no file without its directories.                                  *)
Tree ==
  /\ dirs \subseteq {Date} \cup Parts
  /\ Parts \cap dirs # {} => Date \in dirs
  /\ kind # "s3" => \A k \in Present : <<k[1]>> \in dirs

(* A walk begins in the date's directory.                                     *)
Walks ==
  /\ walk \in [Callers -> Seq(Frames)]
  /\ \A c \in Callers : at[c] \in {"delete", "walk", "batch", "last"} => walk[c] # <<>>
  /\ \A c \in Callers : walk[c] # <<>> => walk[c][1].dir = Date

LEMMA DirNames ==
  /\ Date \notin Parts
  /\ \A p \in Parts : Len(p) = 1
  /\ \A k \in Files : <<k[1]>> \in Parts
  /\ Len(Date) = 0
BY DEF Parts, Date

LEMMA EntriesFacts ==
  ASSUME Tree
  PROVE  /\ Entries(Date) = dirs \cap Parts
         /\ \A dir \in Parts : Entries(dir) = {k \in Present : <<k[1]>> = dir}
         /\ \A dir \in {Date} \cup Parts : Frame(dir) \in Frames
<1>1. Entries(Date) = dirs \cap Parts
  BY DirNames DEF Entries, Tree
<1>2. ASSUME NEW dir \in Parts PROVE Entries(dir) = {k \in Present : <<k[1]>> = dir}
  BY DirNames DEF Entries
<1>3. ASSUME NEW dir \in {Date} \cup Parts PROVE Frame(dir) \in Frames
  BY <1>1, <1>2 DEF Frame, Frames, Present
<1> QED BY <1>1, <1>2, <1>3

LEMMA FrameLess ==
  ASSUME NEW D, NEW L, NEW f \in [dir : D, left : L], NEW S
  PROVE  [f EXCEPT !.left = S] = [dir |-> f.dir, left |-> S]
OBVIOUS

(* A walk with S left to do in the innermost directory.                       *)
Leaving(s, S) == Append(Front(s), [Last(s) EXCEPT !.left = S])

LEMMA LeavingFacts ==
  ASSUME NEW s \in Seq(Frames), s # <<>>, NEW S \in SUBSET (Files \cup Parts)
  PROVE  /\ Leaving(s, S) \in Seq(Frames) /\ Leaving(s, S) # <<>>
         /\ Len(Leaving(s, S)) = Len(s)
         /\ \A i \in 1..Len(s) : Leaving(s, S)[i] = [dir |-> s[i].dir, left |-> IF i = Len(s) THEN S ELSE s[i].left]
<1>1. /\ Last(s) \in Frames /\ Front(s) \in Seq(Frames)
      /\ Len(s) \in Nat \ {0} /\ Last(s) = s[Len(s)] /\ Len(Front(s)) = Len(s) - 1
      /\ \A i \in 1..(Len(s) - 1) : Front(s)[i] = s[i]
  BY WalkFacts
<1>2. PICK f : f = [dir |-> Last(s).dir, left |-> S]
  OBVIOUS
<1>3. f \in Frames /\ f = [Last(s) EXCEPT !.left = S]
  <2>1. PICK l \in Frames : l = Last(s)
    BY <1>1
  <2>2. [l EXCEPT !.left = S] = [dir |-> l.dir, left |-> S]
    BY FrameLess DEF Frames
  <2>3. [dir |-> l.dir, left |-> S] \in Frames
    BY DEF Frames
  <2> QED BY <1>2, <2>1, <2>2, <2>3
<1>4. Leaving(s, S) = Append(Front(s), f)
  BY <1>3 DEF Leaving
<1>5. /\ Append(Front(s), f) \in Seq(Frames)
      /\ Len(Append(Front(s), f)) = Len(Front(s)) + 1
      /\ \A i \in 1..Len(Front(s)) : Append(Front(s), f)[i] = Front(s)[i]
      /\ Append(Front(s), f)[Len(Front(s)) + 1] = f
  <2>1. PICK t \in Seq(Frames) : t = Front(s)
    BY <1>1
  <2>2. f \in Frames
    BY <1>3
  <2> QED BY <2>1, <2>2, AppendProperties
<1>6. Len(Leaving(s, S)) = Len(s)
  BY <1>1, <1>4, <1>5
<1>7. \A i \in 1..(Len(s) - 1) : Leaving(s, S)[i] = s[i]
  BY <1>1, <1>4, <1>5
<1>8. Leaving(s, S)[Len(s)] = f
  BY <1>1, <1>4, <1>5
<1>9. ASSUME NEW i \in 1..Len(s)
      PROVE  Leaving(s, S)[i] = [dir |-> s[i].dir, left |-> IF i = Len(s) THEN S ELSE s[i].left]
  <2>1. CASE i = Len(s)
    BY <1>1, <1>2, <1>8, <2>1
  <2>2. CASE i # Len(s)
    <3>1. i \in 1..(Len(s) - 1)
      BY <1>1, <2>2
    <3>2. s[i] \in Frames
      BY ElementOfSeq
    <3> QED BY <1>7, <2>2, <3>1, <3>2 DEF Frames
  <2> QED BY <2>1, <2>2
<1>10. Leaving(s, S) # <<>>
  BY <1>1, <1>6, EmptySeq
<1> QED BY <1>4, <1>5, <1>6, <1>9, <1>10

(* One directory further in.                                                  *)
LEMMA DeeperFacts ==
  ASSUME NEW s \in Seq(Frames), NEW f \in Frames
  PROVE  /\ Append(s, f) \in Seq(Frames) /\ Append(s, f) # <<>>
         /\ Len(Append(s, f)) = Len(s) + 1 /\ Len(s) \in Nat
         /\ \A i \in 1..Len(s) : Append(s, f)[i] = s[i]
         /\ Append(s, f)[Len(s) + 1] = f
BY AppendProperties, LenProperties

(* What is left to do can only be a part of what was; an entry is passed by   *)
(* leaving the others.                                                        *)
LEMMA WalkOn ==
  ASSUME Walks, NEW c \in Callers, walk[c] # <<>>
  PROVE  /\ Last(walk[c]) \in Frames
         /\ \A e : Past(c, e) = Leaving(walk[c], Last(walk[c]).left \ {e})
         /\ \A S \in SUBSET Last(walk[c]).left :
              /\ Leaving(walk[c], S) \in Seq(Frames) /\ Leaving(walk[c], S) # <<>>
              /\ Leaving(walk[c], S)[1].dir = Date
         /\ Front(walk[c]) \in Seq(Frames)
         /\ Front(walk[c]) # <<>> => Front(walk[c])[1].dir = Date
<1>1. PICK s \in Seq(Frames) : s = walk[c] /\ s # <<>> /\ s[1].dir = Date
  BY DEF Walks
<1>2. /\ Last(s) \in Frames /\ Front(s) \in Seq(Frames)
      /\ Len(s) \in Nat \ {0} /\ Len(Front(s)) = Len(s) - 1
      /\ \A i \in 1..(Len(s) - 1) : Front(s)[i] = s[i]
  BY <1>1, WalkFacts
<1>3. PICK L \in SUBSET (Files \cup Parts) : L = Last(s).left
  BY <1>2 DEF Frames
<1>4. ASSUME NEW e PROVE Past(c, e) = Leaving(s, L \ {e})
  <2>1. PICK l \in Frames : l = Last(s)
    BY <1>2
  <2>2. [l EXCEPT !.left = @ \ {e}] = [l EXCEPT !.left = L \ {e}]
    BY <1>3, <2>1
  <2> QED BY <1>1, <2>1, <2>2 DEF Past, Leaving
<1>5. ASSUME NEW S \in SUBSET L
      PROVE  Leaving(s, S) \in Seq(Frames) /\ Leaving(s, S) # <<>> /\ Leaving(s, S)[1].dir = Date
  <2>1. /\ Leaving(s, S) \in Seq(Frames) /\ Leaving(s, S) # <<>>
        /\ \A i \in 1..Len(s) : Leaving(s, S)[i] = [dir |-> s[i].dir, left |-> IF i = Len(s) THEN S ELSE s[i].left]
    BY <1>1, <1>3, LeavingFacts
  <2>2. 1 \in 1..Len(s)
    BY <1>2
  <2>3. PICK U : Leaving(s, S)[1] = [dir |-> s[1].dir, left |-> U]
    BY <2>1, <2>2
  <2> QED BY <1>1, <2>1, <2>3
<1>6. Front(s) # <<>> => Front(s)[1].dir = Date
  <2> HAVE Front(s) # <<>>
  <2>1. Len(Front(s)) # 0
    BY <1>2, EmptySeq
  <2>2. 1 \in 1..(Len(s) - 1)
    BY <1>2, <2>1
  <2> QED BY <1>1, <1>2, <2>2
<1> QED BY <1>1, <1>2, <1>3, <1>4, <1>5, <1>6

LEMMA PastFacts ==
  ASSUME Walks, NEW c \in Callers, walk[c] # <<>>, NEW e
  PROVE  /\ Past(c, e) = Leaving(walk[c], Last(walk[c]).left \ {e})
         /\ Past(c, e) \in Seq(Frames) /\ Past(c, e) # <<>> /\ Past(c, e)[1].dir = Date
<1>1. Last(walk[c]).left \ {e} \in SUBSET Last(walk[c]).left
  OBVIOUS
<1>2. Past(c, e) = Leaving(walk[c], Last(walk[c]).left \ {e})
  BY WalkOn
<1> QED BY <1>1, <1>2, WalkOn

LEMMA InwardFacts ==
  ASSUME Tree, Walks, NEW c \in Callers, walk[c] # <<>>, NEW e \in Parts
  PROVE  LET s == Append(Past(c, e), Frame(e)) IN s \in Seq(Frames) /\ s # <<>> /\ s[1].dir = Date
<1>1. PICK t \in Seq(Frames) : t = Past(c, e) /\ t # <<>> /\ t[1].dir = Date
  BY PastFacts
<1>2. Frame(e) \in Frames
  BY EntriesFacts
<1>3. /\ Append(t, Frame(e)) \in Seq(Frames) /\ Append(t, Frame(e)) # <<>>
      /\ \A i \in 1..Len(t) : Append(t, Frame(e))[i] = t[i]
  BY <1>2, DeeperFacts
<1>4. 1 \in 1..Len(t)
  BY <1>1, EmptySeq, LenProperties
<1> QED BY <1>1, <1>3, <1>4

(* An empty directory, or one that is not there, has nothing below it.        *)
LEMMA EmptyFacts ==
  ASSUME Tree, NEW dir \in {Date} \cup Parts, dir \notin dirs \/ Entries(dir) = {}
  PROVE  /\ kind # "s3" => \A k \in Present : <<k[1]>> # dir
         /\ dir = Date => dirs \cap Parts = {} /\ (kind # "s3" => Present = {})
<1>1. CASE dir = Date
  <2>1. dirs \cap Parts = {}
    BY <1>1, EntriesFacts DEF Tree
  <2>2. kind # "s3" => Present = {}
    <3> SUFFICES ASSUME kind # "s3", NEW k \in Present PROVE FALSE
      OBVIOUS
    <3>1. <<k[1]>> \in dirs
      BY DEF Tree
    <3>2. <<k[1]>> \in Parts
      BY DirNames DEF Present
    <3> QED BY <2>1, <3>1, <3>2
  <2> QED BY <2>1, <2>2
<1>2. CASE dir # Date
  <2>1. dir \in Parts
    BY <1>2
  <2>2. ASSUME kind # "s3", NEW k \in Present, <<k[1]>> = dir PROVE FALSE
    <3>1. dir \in dirs
      BY <2>2 DEF Tree
    <3>2. k \in Entries(dir)
      BY <2>1, <2>2, EntriesFacts
    <3> QED BY <3>1, <3>2
  <2> QED BY <1>2, <2>2
<1> QED BY <1>1, <1>2

LEMMA LeaveFacts ==
  ASSUME Tree, Walks, NEW x \in Deleters, LeaveDir(x)
  PROVE  /\ walk[x] # <<>> /\ Last(walk[x]).dir \in {Date} \cup Parts
         /\ \/ dirs' = dirs
            \/ /\ dirs' = dirs \ {Last(walk[x]).dir}
               /\ Last(walk[x]).dir \notin dirs \/ Entries(Last(walk[x]).dir) = {}
         /\ UNCHANGED <<file, kind>>
<1>1. walk[x] # <<>> /\ x \in Callers
  BY DEF LeaveDir, Walks, Callers
<1>2. PICK f \in Frames : f = Last(walk[x])
  BY <1>1, WalkOn
<1>3. f.dir \in {Date} \cup Parts
  BY DEF Frames
<1> QED BY <1>1, <1>2, <1>3 DEF LeaveDir, Deleting, jobVars

LEMMA TreeStep ==
  ASSUME Control, Places, Store, Room, Tree, Walks, [Next]_vars
  PROVE  Tree'
<1>1. ASSUME UNCHANGED <<dirs, kind>>, \A k \in Files : file'[k] # Nothing => file[k] # Nothing
      PROVE  Tree'
  BY <1>1 DEF Tree, Present
<1>2. ASSUME NEW w \in Writers, Write(w) PROVE Tree'
  <2>1. CASE MkdirAll(w)
    <3>1. at[w] = "mkdir" /\ dirs' = dirs \cup {Date, <<wants[w][1]>>} /\ UNCHANGED <<kind, file>>
      BY <2>1 DEF MkdirAll, Goto, jobVars
    <3>2. <<wants[w][1]>> \in Parts
      BY <3>1, DirNames DEF Places
    <3> QED BY <3>1, <3>2 DEF Tree, Present
  <2>2. CASE Create(w)
    <3>1. PICK v : file' = [file EXCEPT ![wants[w]] = v]
      BY <2>2, CreateFacts
    <3>2. UNCHANGED <<dirs, kind>> /\ <<wants[w][1]>> \in dirs
      BY <2>2 DEF Create, jobVars
    <3>3. \A k \in Files : file'[k] # Nothing => file[k] # Nothing \/ k = wants[w]
      BY <3>1 DEF Store
    <3> QED BY <3>2, <3>3 DEF Tree, Present
  <2>3. CASE Put(w)
    <3>1. kind = "s3" /\ UNCHANGED <<dirs, kind>>
      BY <2>3 DEF Put, Goto, Places, Callers, jobVars
    <3> QED BY <3>1 DEF Tree
  <2>4. CASE Fill(w) \/ CreateFails(w) \/ WriteBreaks(w)
    BY <1>1, <2>4 DEF Fill, CreateFails, WriteBreaks, treeVars, jobVars
  <2>5. ASSUME NEW k \in Files, BeginWrite(w, k) PROVE Tree'
    BY <1>1, <2>5 DEF BeginWrite, treeVars
  <2> QED BY <1>2, <2>1, <2>2, <2>3, <2>4, <2>5 DEF Write
<1>3. ASSUME NEW x \in Deleters, Delete(x) PROVE Tree'
  <2>1. CASE LeaveDir(x)
    <3>1. PICK dir : dir = Last(walk[x]).dir
      OBVIOUS
    <3>2. CASE dirs' = dirs
      BY <1>1, <2>1, <3>2, LeaveFacts
    <3>3. CASE dirs' # dirs
      <4>1. dir \in {Date} \cup Parts /\ dirs' = dirs \ {dir} /\ UNCHANGED <<file, kind>>
        BY <2>1, <3>1, <3>3, LeaveFacts
      <4>2. /\ kind # "s3" => \A k \in Present : <<k[1]>> # dir
            /\ dir = Date => dirs \cap Parts = {}
        BY <2>1, <3>1, <3>3, LeaveFacts, EmptyFacts
      <4> QED BY <4>1, <4>2 DEF Tree, Present
    <3> QED BY <3>2, <3>3
  <2>2. CASE DeleteBatch(x) \/ BatchInPart(x)
    <3>1. \E gone : file' = [k \in Files |-> IF k \in gone THEN Nothing ELSE file[k]]
      BY <2>2 DEF DeleteBatch, BatchInPart
    <3>2. UNCHANGED <<dirs, kind>>
      BY <2>2 DEF DeleteBatch, BatchInPart, Deleting, jobVars
    <3> QED BY <1>1, <3>1, <3>2
  <2>3. CASE BeginDelete(x) \/ DeleteList(x) \/ DeleteBreaks(x)
    BY <1>1, <2>3 DEF BeginDelete, DeleteList, DeleteBreaks, treeVars, jobVars
  <2>4. ASSUME NEW e \in Files \cup Parts, DeleteDir(x, e) PROVE Tree'
    BY <1>1, <2>4 DEF DeleteDir, NotThere, Deleting, jobVars
  <2>5. ASSUME NEW e \in Files \cup Parts, DeleteFile(x, e) PROVE Tree'
    BY <1>1, <2>5 DEF DeleteFile, NotThere, Deleting, jobVars, Store
  <2> QED BY <1>3, <2>1, <2>2, <2>3, <2>4, <2>5 DEF Delete
<1>4. ASSUME NEW r \in Readers, Read(r) PROVE Tree'
  BY <1>1, <1>4, ReadAlone
<1>5. CASE UNCHANGED vars
  BY <1>1, <1>5 DEF vars
<1> QED BY <1>2, <1>3, <1>4, <1>5 DEF Next, Terminated

LEMMA WalksStep ==
  ASSUME Control, Store, Tree, Walks, [Next]_vars
  PROVE  Walks'
<1> USE DEF Callers, Goto
<1>1. ASSUME NEW w \in Writers, Write(w) PROVE Walks'
  <2>1. UNCHANGED walk
    BY <1>1 DEF Write, BeginWrite, MkdirAll, Create, CreateFails, Fill, Put, WriteBreaks, walkVars
  <2>2. \A c \in Callers : at'[c] \in {"delete", "walk", "batch", "last"} => at'[c] = at[c]
    BY <1>1 DEF Write, BeginWrite, MkdirAll, Create, CreateFails, Fill, Put, WriteBreaks, Control
  <2> QED BY <2>1, <2>2 DEF Walks
<1>2. ASSUME NEW c \in Callers, NEW s \in Seq(Frames), walk' = [walk EXCEPT ![c] = s],
             s # <<>> => s[1].dir = Date,
             s = <<>> => at'[c] \notin {"delete", "walk", "batch", "last"},
             \A d \in Callers \ {c} : at'[d] = at[d]
      PROVE  Walks'
  BY <1>2 DEF Walks
<1>3. ASSUME NEW c \in Callers, walk' = walk, \A d \in Callers \ {c} : at'[d] = at[d],
             at'[c] \in {"delete", "walk", "batch", "last"} => at'[c] = at[c]
      PROVE  Walks'
  BY <1>3 DEF Walks
<1>4. <<>> \in Seq(Frames)
  BY EmptySeq
<1>5. \A f \in Frames : <<f>> \in Seq(Frames) /\ <<f>> # <<>> /\ <<f>>[1] = f
  OBVIOUS
<1>6. ASSUME NEW x \in Deleters, Delete(x) PROVE Walks'
  <2>1. \A d \in Callers \ {x} : at'[d] = at[d]
    BY <1>6, DeleteAlone
  <2>2. CASE BeginDelete(x)
    <3>1. CASE walk' = [walk EXCEPT ![x] = <<Frame(Date)>>]
      <4>1. Frame(Date) \in Frames /\ Frame(Date).dir = Date
        BY EntriesFacts DEF Frame
      <4> QED BY <1>2, <1>5, <2>1, <3>1, <4>1
    <3>2. CASE walk' = walk /\ \E s \in {"page", "failed", "ok"} : at' = [at EXCEPT ![x] = s]
      BY <1>3, <2>1, <3>2 DEF Control
    <3> QED BY <2>2, <3>1, <3>2 DEF BeginDelete
  <2>3. CASE LeaveDir(x)
    <3>1. walk[x] # <<>>
      BY <2>3 DEF LeaveDir, Walks
    <3>2. PICK s \in Seq(Frames) : walk' = [walk EXCEPT ![x] = s] /\ (s # <<>> => s[1].dir = Date)
      BY <1>4, <2>3, <3>1, WalkOn DEF LeaveDir
    <3>3. s = <<>> => at'[x] \in {"ok", "failed"}
      <4>1. walk'[x] = s
        BY <3>2 DEF Walks
      <4> QED BY <2>3, <4>1 DEF LeaveDir, Control
    <3> QED BY <1>2, <2>1, <3>2, <3>3
  <2>4. CASE DeleteList(x)
    <3>1. [dir |-> Date, left |-> PageOf(x)] \in Frames
      BY DEF Frames, PageOf, Rest, Present
    <3>2. walk' = [walk EXCEPT ![x] = <<[dir |-> Date, left |-> PageOf(x)]>>]
      BY <2>4 DEF DeleteList
    <3> QED BY <1>2, <1>5, <2>1, <3>1, <3>2
  <2>5. CASE DeleteBatch(x) \/ BatchInPart(x)
    <3>1. walk' = [walk EXCEPT ![x] = <<>>] /\ at'[x] \in {"page", "ok"}
      BY <2>5 DEF DeleteBatch, BatchInPart, Control
    <3> QED BY <1>2, <1>4, <2>1, <3>1
  <2>6. CASE DeleteBreaks(x)
    <3>1. walk' = [walk EXCEPT ![x] = <<>>] /\ at'[x] = "failed"
      BY <2>6 DEF DeleteBreaks, Control
    <3> QED BY <1>2, <1>4, <2>1, <3>1
  <2>7. ASSUME NEW e \in Files \cup Parts, DeleteDir(x, e) \/ DeleteFile(x, e) PROVE Walks'
    <3>1. at[x] = "delete" /\ walk[x] # <<>>
      BY <2>7 DEF DeleteDir, DeleteFile, Comes
    <3>2. CASE walk' = [walk EXCEPT ![x] = <<>>] /\ at' = [at EXCEPT ![x] = "failed"]
      BY <1>2, <1>4, <2>1, <3>2 DEF Control
    <3>3. CASE walk' = [walk EXCEPT ![x] = Past(x, e)]
      <4>1. Past(x, e) \in Seq(Frames) /\ Past(x, e) # <<>> /\ Past(x, e)[1].dir = Date
        BY <3>1, PastFacts
      <4> QED BY <1>2, <2>1, <3>3, <4>1
    <3>4. CASE e \in Parts /\ walk' = [walk EXCEPT ![x] = Append(Past(x, e), Frame(e))]
      <4>1. PICK s \in Seq(Frames) : s = Append(Past(x, e), Frame(e)) /\ s # <<>> /\ s[1].dir = Date
        BY <3>1, <3>4, InwardFacts
      <4> QED BY <1>2, <2>1, <3>4, <4>1
    <3> QED BY <2>7, <3>2, <3>3, <3>4 DEF DeleteDir, DeleteFile, NotThere
  <2> QED BY <1>6, <2>2, <2>3, <2>4, <2>5, <2>6, <2>7 DEF Delete
<1>7. ASSUME NEW r \in Readers, Read(r) PROVE Walks'
  <2>1. \A d \in Callers \ {r} : at'[d] = at[d]
    BY <1>7, ReadAlone
  <2>2. CASE WalkRoot(r)
    <3>1. CASE walk' = [walk EXCEPT ![r] = <<Frame(Date)>>]
      <4>1. Frame(Date) \in Frames /\ Frame(Date).dir = Date
        BY EntriesFacts DEF Frame
      <4> QED BY <1>2, <1>5, <2>1, <3>1, <4>1
    <3>2. CASE walk' = walk /\ \E s \in {"pages", "listed", "failed", "read"} : at' = [at EXCEPT ![r] = s]
      BY <1>3, <2>1, <3>2 DEF Control
    <3> QED BY <2>2, <3>1, <3>2 DEF WalkRoot, AfterList
  <2>3. CASE WalkUp(r)
    <3>1. walk[r] # <<>>
      BY <2>3 DEF WalkUp, Walks
    <3>2. PICK s \in Seq(Frames) : walk' = [walk EXCEPT ![r] = s] /\ (s # <<>> => s[1].dir = Date)
      BY <2>3, <3>1, WalkOn DEF WalkUp
    <3>3. s = <<>> => at'[r] \in {"listed", "failed", "read"}
      <4>1. walk'[r] = s
        BY <3>2 DEF Walks
      <4> QED BY <2>3, <4>1 DEF WalkUp, AfterList, Control
    <3> QED BY <1>2, <2>1, <3>2, <3>3
  <2>4. CASE ListingBreaks(r)
    <3>1. CASE walk' = [walk EXCEPT ![r] = <<>>] /\ \E s \in {"omitted", "failed"} : at' = [at EXCEPT ![r] = s]
      BY <1>2, <1>4, <2>1, <3>1 DEF Control
    <3>2. CASE at[r] = "walk" /\ \E S \in SUBSET Last(walk[r]).left :
                 walk' = [walk EXCEPT ![r] = Append(Front(@), [Last(@) EXCEPT !.left = S])]
      <4>1. walk[r] # <<>>
        BY <3>2 DEF Walks
      <4>2. PICK S \in SUBSET Last(walk[r]).left : walk' = [walk EXCEPT ![r] = Leaving(walk[r], S)]
        BY <3>2 DEF Leaving
      <4>3. Leaving(walk[r], S) \in Seq(Frames) /\ Leaving(walk[r], S) # <<>> /\ Leaving(walk[r], S)[1].dir = Date
        BY <4>1, WalkOn
      <4> QED BY <1>2, <2>1, <4>2, <4>3
    <3>3. CASE walk' = walk /\ \E s \in {"listed", "failed", "read"} : at' = [at EXCEPT ![r] = s]
      BY <1>3, <2>1, <3>3 DEF Control
    <3> QED BY <2>4, <3>1, <3>2, <3>3 DEF ListingBreaks, AfterList
  <2>5. ASSUME NEW e \in Files \cup Parts, WalkDir(r, e) \/ WalkFile(r, e) PROVE Walks'
    <3>1. at[r] = "walk" /\ walk[r] # <<>>
      BY <2>5 DEF WalkDir, WalkFile, Comes
    <3>2. CASE walk' = [walk EXCEPT ![r] = <<>>] /\ \E s \in {"omitted", "failed"} : at' = [at EXCEPT ![r] = s]
      BY <1>2, <1>4, <2>1, <3>2 DEF Control
    <3>3. CASE walk' = [walk EXCEPT ![r] = Past(r, e)]
      <4>1. Past(r, e) \in Seq(Frames) /\ Past(r, e) # <<>> /\ Past(r, e)[1].dir = Date
        BY <3>1, PastFacts
      <4> QED BY <1>2, <2>1, <3>3, <4>1
    <3>4. CASE e \in Parts /\ walk' = [walk EXCEPT ![r] = Append(Past(r, e), Frame(e))]
      <4>1. PICK s \in Seq(Frames) : s = Append(Past(r, e), Frame(e)) /\ s # <<>> /\ s[1].dir = Date
        BY <3>1, <3>4, InwardFacts
      <4> QED BY <1>2, <2>1, <3>4, <4>1
    <3> QED BY <2>5, <3>2, <3>3, <3>4 DEF WalkDir, WalkFile
  <2>6. CASE Begin(r) \/ ListDates(r) \/ NextKeys(r) \/ CloseZip(r)
    <3>1. walk' = walk
      BY <2>6 DEF Begin, BeginRead, ListDates, NextKeys, CloseZip, walkVars
    <3>2. at'[r] \in {"list", "root", "read", "listed", "pages", "failed", "sent"}
      BY <2>6 DEF Begin, BeginRead, ListDates, NextKeys, CloseZip, AfterList, Control
    <3> QED BY <1>3, <2>1, <3>1, <3>2
  <2>7. ASSUME NEW k \in Files, Open(r, k) \/ Skip(r, k) \/ Copy(r, k) PROVE Walks'
    <3>1. walk' = walk
      BY <2>7 DEF Open, Skip, Copy, walkVars
    <3>2. at'[r] \in {"copy", "read", "sent", "failed"}
      BY <2>7 DEF Open, Skip, Copy, Control
    <3> QED BY <1>3, <2>1, <3>1, <3>2
  <2> QED BY <1>7, <2>2, <2>3, <2>4, <2>5, <2>6, <2>7 DEF Read
<1>8. CASE UNCHANGED vars
  BY <1>8 DEF vars, Walks
<1> QED BY <1>1, <1>6, <1>7, <1>8 DEF Next, Terminated

-------------------------------------------------------------------------------
TypeInv == Control /\ Places /\ History /\ Answers /\ Store /\ Room /\ Tree /\ Walks

LEMMA TypeInit == Init => TypeInv
<1> SUFFICES ASSUME Init PROVE TypeInv
  OBVIOUS
<1>1. PICK S \in Left :
        /\ file = [k \in Files |-> IF k \in S THEN Number(k) ELSE Nothing]
        /\ dirs = IF kind = "s3" \/ S = {} THEN {} ELSE {Date} \cup {<<k[1]>> : k \in S}
  BY DEF Init
<1>2. S \subseteq Files
  BY FilesAssumption
<1>3. Control /\ Places
  BY DEF Init, Control, Places, States, Callers
<1>4. History
  BY BoundAssumption DEF Init, History
<1>5. Answers
  BY DEF Init, Answers
<1>6. \A k \in Files : Number(k) \in Versions
  BY NumberOrder, SizesFinite
<1>7. Store
  <2>1. file \in [Files -> Versions \cup {Nothing}]
    BY <1>1, <1>6
  <2>2. Old \in Row
    BY DEF Old, Row
  <2>3. version = [v \in Versions |-> Old] /\ hold = [c \in Callers |-> [of |-> Nothing, was |-> Old]]
    BY DEF Init, NoHold
  <2> QED BY <2>1, <2>2, <2>3 DEF Store
<1>8. Room
  BY DEF Init, Room, Old, Callers
<1>9. Tree
  BY <1>1, <1>2, DirNames DEF Tree, Present, Parts
<1>10. Walks
  BY EmptySeq DEF Init, Walks
<1> QED BY <1>3, <1>4, <1>5, <1>7, <1>8, <1>9, <1>10 DEF TypeInv

LEMMA TypeStep == TypeInv /\ [Next]_vars => TypeInv'
BY ControlStep, HistoryStep, AnswersStep, StoreStep, RoomStep, TreeStep, WalksStep DEF TypeInv

LEMMA TypeInvariant == Spec => []TypeInv
BY TypeInit, TypeStep, PTL DEF Spec

(* A tree never has a file without its directories, and there is always a     *)
(* version for what the next Write creates.                                   *)
THEOREM TypeCorrect == Spec => []TypeOK
<1>1. TypeInv => TypeOK
  <2> SUFFICES ASSUME TypeInv PROVE TypeOK
    OBVIOUS
  <2>1. \A c \in Callers : \A i \in 1..Len(walk[c]) : walk[c][i] \in Frames
    BY ElementOfSeq DEF TypeInv, Walks
  <2> QED BY <2>1 DEF TypeInv, TypeOK, Control, History, Answers, Store, Tree, States, Row
<1> QED BY <1>1, TypeInvariant, PTL

-------------------------------------------------------------------------------
(* What a step leaves alone                                                   *)

LEMMA WriteOthers ==
  ASSUME TypeInv, NEW w \in Writers, Write(w)
  PROVE  /\ UNCHANGED <<kind, walk, after, found, body, bad>>
         /\ \A c \in Callers \ {w} : at'[c] = at[c] /\ hold'[c] = hold[c]
         /\ \A u \in Writers : at[u] = "idle" \/ wants'[u] = wants[u]
         /\ at'[w] # "idle"
<1> w \in Callers
  BY DEF Callers
<1> USE DEF TypeInv, Control, Store, walkVars, readVars, jobVars, treeVars, Goto
<1>1. ASSUME NEW k \in Files, BeginWrite(w, k)
      PROVE  /\ UNCHANGED <<kind, walk, after, found, body, bad>>
             /\ \A c \in Callers \ {w} : at'[c] = at[c] /\ hold'[c] = hold[c]
             /\ \A u \in Writers : at[u] = "idle" \/ wants'[u] = wants[u]
             /\ at'[w] # "idle"
  BY <1>1 DEF BeginWrite
<1>2. CASE MkdirAll(w) \/ CreateFails(w) \/ WriteBreaks(w)
  BY <1>2 DEF MkdirAll, CreateFails, WriteBreaks
<1>3. CASE Create(w)
  <2>1. \E v : hold' = [hold EXCEPT ![w] = v]
    BY <1>3 DEF Create, Truncate
  <2>2. UNCHANGED <<kind, walk, after, found, body, bad, wants>> /\ at' = [at EXCEPT ![w] = "fill"]
    BY <1>3 DEF Create
  <2> QED BY <2>1, <2>2
<1>4. CASE Fill(w)
  BY <1>4 DEF Fill
<1>5. CASE Put(w)
  BY <1>5 DEF Put
<1> QED BY <1>1, <1>2, <1>3, <1>4, <1>5 DEF Write

LEMMA DeleteOthers ==
  ASSUME TypeInv, NEW x \in Deleters, Delete(x)
  PROVE  /\ UNCHANGED <<kind, version, wants, hold, found, body>>
         /\ \A c \in Callers \ {x} :
              at'[c] = at[c] /\ walk'[c] = walk[c] /\ after'[c] = after[c] /\ bad'[c] = bad[c]
         /\ at'[x] # "idle"
         /\ \A k \in Files : file'[k] # Nothing => file'[k] = file[k]
<1> x \in Callers
  BY DEF Callers
<1>1. UNCHANGED <<kind, version, wants, hold>> /\ \A c \in Callers \ {x} : at'[c] = at[c]
  BY DeleteAlone DEF TypeInv
<1> USE DEF TypeInv, Control, Walks, Answers, History, Store, readVars, jobVars, treeVars, Goto
<1> DEFINE Others ==
      /\ UNCHANGED <<found, body>>
      /\ \A c \in Callers \ {x} : walk'[c] = walk[c] /\ after'[c] = after[c] /\ bad'[c] = bad[c]
      /\ at'[x] # "idle"
      /\ \A k \in Files : file'[k] # Nothing => file'[k] = file[k]
<1>2. ASSUME BeginDelete(x) PROVE Others
  BY <1>2 DEF BeginDelete
<1>3. ASSUME LeaveDir(x) PROVE Others
  <2>1. UNCHANGED <<found, body, after, file>>
    BY <1>3 DEF LeaveDir, Deleting
  <2>2. (\E s : walk' = [walk EXCEPT ![x] = s]) /\ (\E b : bad' = [bad EXCEPT ![x] = b])
    BY <1>3 DEF LeaveDir
  <2>3. at[x] = "delete" /\ (at' = at \/ \E s \in {"ok", "failed"} : at' = [at EXCEPT ![x] = s])
    BY <1>3 DEF LeaveDir
  <2> QED BY <2>1, <2>2, <2>3
<1>4. ASSUME DeleteList(x) PROVE Others
  <2>1. UNCHANGED <<found, body, bad, file>> /\ at'[x] # "idle"
    BY <1>4 DEF DeleteList
  <2>2. (\E s : walk' = [walk EXCEPT ![x] = s]) /\ (\E s : after' = [after EXCEPT ![x] = s])
    BY <1>4 DEF DeleteList
  <2> QED BY <2>1, <2>2
<1>5. ASSUME DeleteBatch(x) \/ BatchInPart(x) PROVE Others
  <2>1. UNCHANGED <<found, body, after>> /\ at'[x] # "idle" /\ walk' = [walk EXCEPT ![x] = <<>>]
    BY <1>5 DEF DeleteBatch, BatchInPart, Deleting
  <2>2. bad' = bad \/ bad' = [bad EXCEPT ![x] = TRUE]
    BY <1>5 DEF DeleteBatch, BatchInPart
  <2>3. \E gone : file' = [k \in Files |-> IF k \in gone THEN Nothing ELSE file[k]]
    BY <1>5 DEF DeleteBatch, BatchInPart
  <2> QED BY <2>1, <2>2, <2>3
<1>6. ASSUME DeleteBreaks(x) PROVE Others
  BY <1>6 DEF DeleteBreaks
<1>7. ASSUME NEW e \in Files \cup Parts, DeleteDir(x, e) \/ DeleteFile(x, e) PROVE Others
  <2>1. UNCHANGED <<found, body, after, bad>> /\ at'[x] # "idle"
    BY <1>7 DEF DeleteDir, DeleteFile, NotThere, Deleting
  <2>2. \E s : walk' = [walk EXCEPT ![x] = s]
    BY <1>7 DEF DeleteDir, DeleteFile, NotThere
  <2>3. \A k \in Files : file'[k] # Nothing => file'[k] = file[k]
    BY <1>7 DEF DeleteDir, DeleteFile, NotThere
  <2> QED BY <2>1, <2>2, <2>3
<1> QED BY <1>1, <1>2, <1>3, <1>4, <1>5, <1>6, <1>7 DEF Delete

LEMMA ReadOthers ==
  ASSUME TypeInv, NEW r \in Readers, Read(r)
  PROVE  /\ UNCHANGED <<kind, dirs, file, version, wants>>
         /\ \A c \in Callers \ {r} : /\ at'[c] = at[c] /\ hold'[c] = hold[c] /\ walk'[c] = walk[c]
                                     /\ after'[c] = after[c] /\ bad'[c] = bad[c]
         /\ \A d \in Readers \ {r} : found'[d] = found[d] /\ body'[d] = body[d]
         /\ bad[r] => bad'[r]
         /\ at'[r] # "idle"
<1> r \in Callers
  BY DEF Callers
<1>1. /\ UNCHANGED <<kind, dirs, file, version, wants>>
      /\ \A c \in Callers \ {r} : at'[c] = at[c] /\ hold'[c] = hold[c]
  BY ReadAlone DEF TypeInv
<1> USE DEF TypeInv, Control, Walks, Answers, History, walkVars, readVars, Goto
<1> DEFINE Others ==
      /\ \A c \in Callers \ {r} : walk'[c] = walk[c] /\ after'[c] = after[c] /\ bad'[c] = bad[c]
      /\ \A d \in Readers \ {r} : found'[d] = found[d] /\ body'[d] = body[d]
      /\ bad[r] => bad'[r]
      /\ at'[r] # "idle"
<1>2. ASSUME Begin(r) PROVE Others
  BY <1>2 DEF Begin, BeginRead
<1>3. ASSUME ListDates(r) \/ CloseZip(r) PROVE Others
  BY <1>3 DEF ListDates, CloseZip
<1>4. ASSUME WalkRoot(r) PROVE Others
  BY <1>4 DEF WalkRoot, AfterList
<1>5. ASSUME WalkUp(r) PROVE Others
  <2>1. UNCHANGED <<after, found, body, bad>> /\ \E s : walk' = [walk EXCEPT ![r] = s]
    BY <1>5 DEF WalkUp
  <2>2. at'[r] # "idle"
    BY <1>5 DEF WalkUp, AfterList
  <2> QED BY <2>1, <2>2
<1>6. ASSUME NextKeys(r) PROVE Others
  <2>1. UNCHANGED <<walk, body, bad>> /\ at'[r] # "idle"
    BY <1>6 DEF NextKeys, AfterList
  <2>2. (\E s : after' = [after EXCEPT ![r] = s]) /\ (\E s : found' = [found EXCEPT ![r] = s])
    BY <1>6 DEF NextKeys
  <2> QED BY <2>1, <2>2
<1>7. ASSUME ListingBreaks(r) PROVE Others
  <2>1. UNCHANGED <<after, found, body>> /\ bad' = [bad EXCEPT ![r] = TRUE]
    BY <1>7 DEF ListingBreaks
  <2>2. walk' = walk \/ \E s : walk' = [walk EXCEPT ![r] = s]
    BY <1>7 DEF ListingBreaks
  <2>3. at'[r] # "idle"
    BY <1>7 DEF ListingBreaks, AfterList
  <2> QED BY <2>1, <2>2, <2>3
<1>8. ASSUME NEW e \in Files \cup Parts, WalkDir(r, e) \/ WalkFile(r, e) PROVE Others
  <2>1. UNCHANGED <<after, body, bad>> /\ (found' = found \/ \E s : found' = [found EXCEPT ![r] = s])
    BY <1>8 DEF WalkDir, WalkFile
  <2>2. \E s : walk' = [walk EXCEPT ![r] = s]
    BY <1>8 DEF WalkDir, WalkFile
  <2>3. at'[r] # "idle"
    BY <1>8 DEF WalkDir, WalkFile
  <2> QED BY <2>1, <2>2, <2>3
<1>9. ASSUME NEW k \in Files, Open(r, k) \/ Skip(r, k) \/ Copy(r, k) PROVE Others
  <2>1. UNCHANGED <<walk, after>> /\ (found' = found \/ \E s : found' = [found EXCEPT ![r] = s])
    BY <1>9 DEF Open, Skip, Copy
  <2>2. body' = body \/ \E b : body' = [body EXCEPT ![r][k] = b]
    BY <1>9 DEF Open, Skip, Copy
  <2>3. bad' = bad \/ bad' = [bad EXCEPT ![r] = TRUE]
    BY <1>9 DEF Open, Skip, Copy
  <2>4. at'[r] # "idle"
    BY <1>9 DEF Open, Skip, Copy
  <2> QED BY <2>1, <2>2, <2>3, <2>4
<1> QED BY <1>1, <1>2, <1>3, <1>4, <1>5, <1>6, <1>7, <1>8, <1>9 DEF Read

-------------------------------------------------------------------------------
(* Torn downloads                                                             *)

(* v has been made for k: by an earlier run, or by writers that all write k.  *)
For(v, k) ==
  IF v <= Cardinality(Files) THEN v = Number(k)
  ELSE version[v] # Old /\ \A w \in version[v].by : wants[w] = k

(* A name leads to a version of its own, and so does what is open.            *)
Lead ==
  /\ \A k \in Files : file[k] # Nothing => For(file[k], k)
  /\ \A w \in Writers : at[w] = "fill" => For(hold[w].of, wants[w])
  /\ \A r \in Readers : at[r] = "copy" =>
       hold[r].of \in Versions /\ \E k \in Files : First(found[r], k) /\ For(hold[r].of, k)

(* A Write of k has truncated it, or was about to when it failed.             *)
Written(k) == kind # "s3" /\ \E w \in Writers : wants[w] = k /\ at[w] \in Over \cup {"fill"}

LEMMA ForIsOne ==
  ASSUME TypeInv, NEW v \in Versions, NEW k \in Files, NEW l \in Files, For(v, k), For(v, l)
  PROVE  k = l
<1>1. CASE v <= Cardinality(Files)
  BY <1>1, NumberOrder DEF For
<1>2. CASE ~(v <= Cardinality(Files))
  <2>1. v > Cardinality(Files)
    BY <1>2, SizesFinite
  <2>2. version[v] # Old
    BY <1>2 DEF For
  <2>3. PICK w : w \in version[v].by
    BY <2>1, <2>2 DEF TypeInv, Room
  <2> QED BY <1>2, <2>3 DEF For
<1> QED BY <1>1, <1>2

(* The version a Write has open goes on being for its key.                    *)
LEMMA ForStays ==
  ASSUME TypeInv, Lead, [Next]_vars, NEW v \in Versions, NEW k \in Files, For(v, k)
  PROVE  For(v, k)'
<1>1. CASE v <= Cardinality(Files)
  BY <1>1 DEF For
<1>2. ASSUME version'[v] = version[v], \A w \in Writers : at[w] = "idle" \/ wants'[w] = wants[w]
      PROVE  For(v, k)'
  <2>1. \A w \in version[v].by : w \in Writers /\ at[w] # "idle"
    BY DEF TypeInv, Room, Store, Row
  <2> QED BY <1>2, <2>1 DEF For
<1>3. ASSUME NEW w \in Writers, Write(w), ~(v <= Cardinality(Files)) PROVE For(v, k)'
  <2>0. \A u \in Writers : at[u] = "idle" \/ wants'[u] = wants[u]
    BY <1>3, WriteOthers
  <2>1. CASE version'[v] = version[v]
    BY <1>2, <2>0, <2>1
  <2>2. CASE Create(w) /\ version'[v] # version[v]
    <3>1. PICK o \in Versions :
            /\ o = file[wants[w]] \/ (o > Cardinality(Files) /\ version[o] = Old)
            /\ Filling(o) \subseteq version[o].by
            /\ version' = [version EXCEPT ![o] = [by |-> {w} \cup Filling(o), done |-> {}]]
      BY <2>2, CreateFacts DEF TypeInv
    <3>2. o = v /\ version'[v] = [by |-> {w} \cup Filling(v), done |-> {}] /\ wants' = wants
      BY <2>2, <3>1 DEF TypeInv, Store, Create, jobVars
    <3>3. version[v] # Old /\ \A u \in version[v].by : wants[u] = k
      BY <1>3 DEF For
    <3>4. wants[w] \in Files /\ v = file[wants[w]]
      BY <2>2, <3>1, <3>2, <3>3, CreateFacts DEF TypeInv
    <3>5. v # Nothing
      BY SizesFinite DEF Nothing
    <3>6. wants[w] = k
      BY <3>4, <3>5, ForIsOne DEF Lead
    <3>7. \A u \in version'[v].by : wants'[u] = k
      BY <3>1, <3>2, <3>3, <3>6
    <3>8. version'[v] # Old
      BY <3>2 DEF Old
    <3> QED BY <1>3, <3>7, <3>8 DEF For
  <2>3. CASE Fill(w) /\ version'[v] # version[v]
    <3>1. PICK o \in Versions :
            /\ w \in version[o].by
            /\ version' = [version EXCEPT ![o] = [by |-> version[o].by, done |-> version[o].done \cup {w}]]
      BY <2>3, FillFacts DEF TypeInv
    <3>2. o = v /\ version'[v].by = version[v].by /\ wants' = wants
      BY <2>3, <3>1 DEF TypeInv, Store, Fill, jobVars
    <3>3. version'[v] # Old
      BY <3>1, <3>2 DEF Old
    <3> QED BY <1>3, <3>2, <3>3 DEF For
  <2>4. CASE Put(w) /\ version'[v] # version[v]
    <3>1. PICK o \in Versions : version[o] = Old /\ version' = [version EXCEPT ![o] = [by |-> {w}, done |-> {w}]]
      BY <2>4, PutFacts DEF TypeInv
    <3>2. version[v] = Old
      BY <2>4, <3>1 DEF TypeInv, Store
    <3> QED BY <1>3, <3>2 DEF For
  <2>5. ASSUME NEW l \in Files, BeginWrite(w, l) PROVE version' = version
    BY <2>5 DEF BeginWrite, treeVars
  <2>6. CASE MkdirAll(w) \/ CreateFails(w) \/ WriteBreaks(w)
    BY <2>1, <2>6 DEF MkdirAll, CreateFails, WriteBreaks, treeVars
  <2> QED BY <1>3, <2>1, <2>2, <2>3, <2>4, <2>5, <2>6 DEF Write
<1>4. ASSUME NEW x \in Deleters, Delete(x) PROVE For(v, k)'
  BY <1>2, <1>4, DeleteOthers
<1>5. ASSUME NEW r \in Readers, Read(r) PROVE For(v, k)'
  BY <1>2, <1>5, ReadOthers
<1>6. CASE UNCHANGED vars
  BY <1>2, <1>6 DEF vars
<1> QED BY <1>1, <1>3, <1>4, <1>5, <1>6 DEF Next, Terminated

(* What Create, Put and the last byte do to a version: it is for the key of   *)
(* the Write.                                                                 *)
LEMMA WriteFor ==
  ASSUME TypeInv, Lead, NEW w \in Writers, Write(w), NEW v \in Versions, version'[v] # version[v]
  PROVE  /\ wants[w] \in Files /\ wants'[w] = wants[w] /\ For(v, wants[w])'
         /\ \/ kind # "s3" /\ at'[w] \in {"fill", "ok"}
            \/ IsWhole(version'[v]) /\ v > Cardinality(Files) /\ version[v] = Old
<1> [Next]_vars
  BY DEF Next
<1>1. CASE Create(w)
  <2>1. PICK o \in Versions :
          /\ o = file[wants[w]] \/ (o > Cardinality(Files) /\ version[o] = Old)
          /\ Filling(o) \subseteq version[o].by
          /\ version' = [version EXCEPT ![o] = [by |-> {w} \cup Filling(o), done |-> {}]]
    BY <1>1, CreateFacts DEF TypeInv
  <2>2. o = v /\ version'[v] = [by |-> {w} \cup Filling(v), done |-> {}] /\ wants' = wants /\ wants[w] \in Files
    BY <1>1, <2>1, CreateFacts DEF TypeInv, Store, Create, jobVars
  <2>3. kind # "s3" /\ at'[w] = "fill"
    BY <1>1 DEF TypeInv, Control, Places, Create, Goto, Callers
  <2>4. CASE v = file[wants[w]]
    <3>1. v # Nothing
      BY SizesFinite DEF Nothing
    <3>2. For(v, wants[w])
      BY <2>2, <2>4, <3>1 DEF Lead
    <3>3. PICK k \in Files : k = wants[w]
      BY <2>2
    <3>4. For(v, k)'
      BY <3>2, <3>3, ForStays
    <3> QED BY <2>2, <2>3, <2>4, <3>3, <3>4 DEF For
  <2>5. CASE v > Cardinality(Files) /\ version[v] = Old
    <3>1. version'[v].by = {w} /\ version'[v] # Old
      BY <2>1, <2>2, <2>5 DEF Old
    <3>2. ~(v <= Cardinality(Files))
      BY <2>5, SizesFinite
    <3> QED BY <2>2, <2>3, <2>5, <3>1, <3>2 DEF For
  <2> QED BY <2>1, <2>2, <2>4, <2>5
<1>2. CASE Fill(w)
  <2>1. PICK o \in Versions :
          /\ o = hold[w].of
          /\ version' = [version EXCEPT ![o] = [by |-> version[o].by, done |-> version[o].done \cup {w}]]
    BY <1>2, FillFacts DEF TypeInv
  <2>2. o = v /\ wants' = wants /\ at[w] = "fill" /\ at'[w] = "ok"
    BY <1>2, <2>1 DEF TypeInv, Store, Fill, jobVars, Goto, Control, Callers
  <2>3. wants[w] \in Files /\ kind # "s3"
    BY <2>2 DEF TypeInv, Places, Callers
  <2>4. For(v, wants[w])
    BY <2>1, <2>2 DEF Lead
  <2>5. PICK k \in Files : k = wants[w]
    BY <2>3
  <2>6. For(v, k)'
    BY <2>4, <2>5, ForStays
  <2> QED BY <2>1, <2>2, <2>3, <2>5, <2>6 DEF For
<1>3. CASE Put(w)
  <2>1. PICK o \in Versions :
          /\ o > Cardinality(Files) /\ version[o] = Old
          /\ version' = [version EXCEPT ![o] = [by |-> {w}, done |-> {w}]]
    BY <1>3, PutFacts DEF TypeInv
  <2>2. o = v /\ version'[v] = [by |-> {w}, done |-> {w}] /\ wants' = wants /\ wants[w] \in Files
    BY <1>3, <2>1, PutFacts DEF TypeInv, Store, Put, jobVars
  <2>3. IsWhole(version'[v])
    <3>1. Cardinality({w}) = 1
      BY FS_Singleton
    <3>2. version'[v].by = {w} /\ version'[v].done = {w}
      BY <2>2
    <3> QED BY <3>1, <3>2 DEF IsWhole
  <2>4. ~(v <= Cardinality(Files)) /\ version'[v] # Old
    BY <2>1, <2>2, SizesFinite DEF Old
  <2> QED BY <2>1, <2>2, <2>3, <2>4 DEF For
<1>4. ASSUME NEW l \in Files, BeginWrite(w, l) PROVE version' = version
  BY <1>4 DEF BeginWrite, treeVars
<1>5. ~(MkdirAll(w) \/ CreateFails(w) \/ WriteBreaks(w))
  BY DEF MkdirAll, CreateFails, WriteBreaks, treeVars
<1> QED BY <1>1, <1>2, <1>3, <1>4, <1>5 DEF Write

LEMMA CreateFor ==
  ASSUME TypeInv, Lead, NEW w \in Writers, Create(w)
  PROVE  \E o \in Versions :
           /\ wants[w] \in Files /\ wants' = wants /\ For(o, wants[w])' /\ version'[o] # version[o]
           /\ file' = [file EXCEPT ![wants[w]] = o]
           /\ hold' = [hold EXCEPT ![w] = [of |-> o, was |-> Old]]
<1>1. PICK o \in Versions :
        /\ w \notin version[o].by
        /\ version' = [version EXCEPT ![o] = [by |-> {w} \cup Filling(o), done |-> {}]]
        /\ file' = [file EXCEPT ![wants[w]] = o]
        /\ hold' = [hold EXCEPT ![w] = [of |-> o, was |-> Old]]
  BY CreateFacts DEF TypeInv
<1>2. version'[o] # version[o]
  BY <1>1 DEF TypeInv, Store
<1>3. Write(w) /\ wants' = wants
  BY DEF Write, Create, jobVars
<1>4. wants[w] \in Files /\ For(o, wants[w])'
  BY <1>2, <1>3, WriteFor
<1> QED BY <1>1, <1>2, <1>3, <1>4

LEMMA LeadFile ==
  ASSUME TypeInv, Lead, [Next]_vars, NEW k \in Files, file'[k] # Nothing
  PROVE  For(file[k], k)'
<1>1. CASE file'[k] = file[k]
  <2>1. PICK v \in Versions : v = file[k]
    BY <1>1 DEF TypeInv, Store
  <2>2. For(v, k)
    BY <1>1, <2>1 DEF Lead
  <2>3. For(v, k)'
    BY <2>2, ForStays
  <2> QED BY <1>1, <2>1, <2>3 DEF For
<1>2. ASSUME NEW w \in Writers, Write(w), file'[k] # file[k] PROVE For(file[k], k)'
  <2>1. CASE Create(w)
    <3>1. PICK o \in Versions :
            wants[w] \in Files /\ For(o, wants[w])' /\ wants' = wants /\ file' = [file EXCEPT ![wants[w]] = o]
      BY <2>1, CreateFor
    <3>2. k = wants[w] /\ file'[k] = o
      BY <1>2, <3>1 DEF TypeInv, Store
    <3> QED BY <3>1, <3>2 DEF For
  <2>2. CASE Put(w)
    <3>1. PICK o \in Versions :
            /\ version[o] = Old /\ version' = [version EXCEPT ![o] = [by |-> {w}, done |-> {w}]]
            /\ file' = [file EXCEPT ![wants[w]] = o]
      BY <2>2, PutFacts DEF TypeInv
    <3>2. k = wants[w] /\ file'[k] = o
      BY <1>2, <3>1 DEF TypeInv, Store
    <3>3. version'[o] # version[o]
      <4>1. version'[o].by = {w}
        BY <3>1 DEF TypeInv, Store
      <4> QED BY <3>1, <4>1 DEF Old
    <3>4. For(o, wants[w])' /\ wants' = wants
      BY <1>2, <2>2, <3>3, WriteFor DEF Put, jobVars
    <3> QED BY <3>2, <3>4 DEF For
  <2>3. ASSUME NEW l \in Files, BeginWrite(w, l) PROVE FALSE
    BY <1>2, <2>3 DEF BeginWrite, treeVars
  <2> QED BY <1>2, <2>1, <2>2, <2>3 DEF Write, MkdirAll, CreateFails, Fill, WriteBreaks, treeVars
<1>3. ASSUME NEW x \in Deleters, Delete(x) PROVE file'[k] = file[k]
  BY <1>3, DeleteOthers
<1>4. ASSUME NEW r \in Readers, Read(r) PROVE file'[k] = file[k]
  BY <1>4, ReadOthers
<1> QED BY <1>1, <1>2, <1>3, <1>4 DEF Next, Terminated, vars

LEMMA LeadWriter ==
  ASSUME TypeInv, Lead, [Next]_vars, NEW w \in Writers, at'[w] = "fill"
  PROVE  For(hold[w].of, wants[w])'
<1>1. CASE at[w] = "fill" /\ hold'[w] = hold[w] /\ wants'[w] = wants[w]
  <2>1. PICK v \in Versions, k \in Files : v = hold[w].of /\ k = wants[w]
    BY <1>1 DEF TypeInv, Room, Places
  <2>2. For(v, k)
    BY <1>1, <2>1 DEF Lead
  <2>3. For(v, k)'
    BY <2>2, ForStays
  <2> QED BY <1>1, <2>1, <2>3 DEF For
<1>2. CASE Create(w)
  <2>1. PICK o \in Versions :
          For(o, wants[w])' /\ wants' = wants /\ hold' = [hold EXCEPT ![w] = [of |-> o, was |-> Old]]
    BY <1>2, CreateFor
  <2>2. hold'[w].of = o
    BY <2>1 DEF TypeInv, Store, Callers
  <2> QED BY <2>1, <2>2 DEF For
<1>3. CASE Write(w)
  <2>1. at' # [at EXCEPT ![w] = "ok"] /\ at' # [at EXCEPT ![w] = "failed"] /\ at' # [at EXCEPT ![w] = "create"]
    BY DEF TypeInv, Control, Callers
  <2>2. ASSUME NEW l \in Files, BeginWrite(w, l) PROVE FALSE
    BY <2>2 DEF BeginWrite, Goto, TypeInv, Control, Callers
  <2> QED BY <1>2, <1>3, <2>1, <2>2 DEF Write, MkdirAll, CreateFails, Fill, Put, WriteBreaks, Goto
<1>4. CASE ~Write(w)
  <2>1. at'[w] = at[w] /\ hold'[w] = hold[w] /\ (at[w] = "idle" \/ wants'[w] = wants[w])
    <3>1. ASSUME NEW u \in Writers, Write(u)
          PROVE  at'[w] = at[w] /\ hold'[w] = hold[w] /\ (at[w] = "idle" \/ wants'[w] = wants[w])
      BY <1>4, <3>1, WriteOthers DEF Callers
    <3>2. ASSUME NEW x \in Deleters, Delete(x)
          PROVE  at'[w] = at[w] /\ hold'[w] = hold[w] /\ wants'[w] = wants[w]
      BY <3>2, DeleteOthers, CallersAssumption DEF Callers
    <3>3. ASSUME NEW r \in Readers, Read(r)
          PROVE  at'[w] = at[w] /\ hold'[w] = hold[w] /\ wants'[w] = wants[w]
      BY <3>3, ReadOthers, CallersAssumption DEF Callers
    <3> QED BY <3>1, <3>2, <3>3 DEF Next, Terminated, vars
  <2> QED BY <1>1, <2>1
<1> QED BY <1>3, <1>4

(* Only Open brings a reader to copying.                                      *)
LEMMA OnlyOpen ==
  ASSUME TypeInv, NEW r \in Readers, Read(r), at'[r] = "copy"
  PROVE  \E k \in Files : Open(r, k)
<1>1. CASE Begin(r) \/ ListDates(r) \/ WalkRoot(r) \/ CloseZip(r) \/ NextKeys(r)
  BY <1>1 DEF Begin, BeginRead, ListDates, WalkRoot, CloseZip, NextKeys, AfterList, Goto, TypeInv, Control,
              Callers
<1>2. CASE WalkUp(r)
  BY <1>2 DEF WalkUp, AfterList, TypeInv, Control, Callers
<1>3. CASE ListingBreaks(r)
  BY <1>3 DEF ListingBreaks, AfterList, TypeInv, Control, Callers
<1>4. ASSUME NEW e \in Files \cup Parts, WalkDir(r, e) \/ WalkFile(r, e) PROVE FALSE
  BY <1>4 DEF WalkDir, WalkFile, TypeInv, Control, Callers
<1>5. ASSUME NEW k \in Files, Skip(r, k) \/ Copy(r, k) PROVE FALSE
  BY <1>5 DEF Skip, Copy, Goto, TypeInv, Control, Callers
<1> QED BY <1>1, <1>2, <1>3, <1>4, <1>5 DEF Read

(* A reader stays as it is while others act.                                  *)
LEMMA ReaderWaits ==
  ASSUME TypeInv, [Next]_vars, NEW r \in Readers, ~Read(r)
  PROVE  /\ at'[r] = at[r] /\ hold'[r] = hold[r] /\ found'[r] = found[r] /\ body'[r] = body[r]
         /\ bad'[r] = bad[r] /\ walk'[r] = walk[r] /\ after'[r] = after[r]
<1> r \in Callers
  BY DEF Callers
<1>1. ASSUME NEW u \in Writers, Write(u)
      PROVE  /\ at'[r] = at[r] /\ hold'[r] = hold[r] /\ found'[r] = found[r] /\ body'[r] = body[r]
             /\ bad'[r] = bad[r] /\ walk'[r] = walk[r] /\ after'[r] = after[r]
  BY <1>1, WriteOthers, CallersAssumption
<1>2. ASSUME NEW x \in Deleters, Delete(x)
      PROVE  /\ at'[r] = at[r] /\ hold'[r] = hold[r] /\ found'[r] = found[r] /\ body'[r] = body[r]
             /\ bad'[r] = bad[r] /\ walk'[r] = walk[r] /\ after'[r] = after[r]
  BY <1>2, DeleteOthers, CallersAssumption
<1>3. ASSUME NEW q \in Readers \ {r}, Read(q)
      PROVE  /\ at'[r] = at[r] /\ hold'[r] = hold[r] /\ found'[r] = found[r] /\ body'[r] = body[r]
             /\ bad'[r] = bad[r] /\ walk'[r] = walk[r] /\ after'[r] = after[r]
  BY <1>3, ReadOthers
<1> QED BY <1>1, <1>2, <1>3 DEF Next, Terminated, vars

LEMMA LeadReader ==
  ASSUME TypeInv, Lead, [Next]_vars, NEW r \in Readers, at'[r] = "copy"
  PROVE  hold'[r].of \in Versions /\ \E k \in Files : First(found'[r], k) /\ For(hold[r].of, k)'
<1>1. CASE at[r] = "copy" /\ hold'[r] = hold[r] /\ found'[r] = found[r]
  <2>1. PICK v \in Versions, k \in Files : v = hold[r].of /\ First(found[r], k) /\ For(v, k)
    BY <1>1 DEF Lead
  <2>2. For(v, k)'
    BY <2>1, ForStays
  <2> QED BY <1>1, <2>1, <2>2 DEF For
<1>2. ASSUME NEW k \in Files, Open(r, k)
      PROVE  hold'[r].of \in Versions /\ \E l \in Files : First(found'[r], l) /\ For(hold[r].of, l)'
  <2>1. First(found[r], k) /\ found' = found /\ file[k] # Nothing
    BY <1>2 DEF Open, readVars
  <2>2. PICK v \in Versions : v = file[k]
    BY <2>1 DEF TypeInv, Store
  <2>3. For(v, k)
    BY <2>1, <2>2 DEF Lead
  <2>4. For(v, k)'
    BY <2>3, ForStays
  <2>5. hold'[r].of = v
    BY <1>2, <2>2 DEF Open, TypeInv, Store, Callers
  <2> QED BY <2>1, <2>4, <2>5 DEF For
<1> QED BY <1>1, <1>2, OnlyOpen, ReaderWaits

LEMMA LeadStep ==
  ASSUME TypeInv, Lead, [Next]_vars
  PROVE  Lead'
BY LeadFile, LeadWriter, LeadReader DEF Lead

Torn ==
  /\ \A v \in Versions : IsWhole(version[v]) \/ \E k \in Files : For(v, k) /\ Written(k)
  /\ \A r \in Readers : at[r] = "copy" =>
       version[hold[r].of] = hold[r].was \/ \E k \in Files : For(hold[r].of, k) /\ Written(k)
  /\ \A r \in Readers : \A k \in Files : body[r][k] = "torn" => bad[r] \/ Written(k)

TornInv == TypeInv /\ Lead /\ Torn

LEMMA WrittenStays ==
  ASSUME TypeInv, [Next]_vars, NEW k \in Files, Written(k)
  PROVE  Written(k)'
<1>1. PICK w \in Writers : kind # "s3" /\ wants[w] = k /\ at[w] \in Over \cup {"fill"}
  BY DEF Written
<1>2. ASSUME UNCHANGED <<kind, wants>>, at'[w] = at[w] PROVE Written(k)'
  BY <1>1, <1>2 DEF Written
<1>3. CASE Write(w)
  <2>1. CASE Fill(w) \/ WriteBreaks(w)
    <3>1. kind' = kind /\ wants' = wants /\ at'[w] \in {"ok", "failed"}
      BY <2>1 DEF Fill, WriteBreaks, Goto, jobVars, TypeInv, Control, Callers
    <3> QED BY <1>1, <3>1 DEF Written, Over
  <2>2. ASSUME NEW l \in Files, BeginWrite(w, l) PROVE FALSE
    BY <1>1, <2>2 DEF BeginWrite, Goto, Over
  <2>3. ~(MkdirAll(w) \/ Create(w) \/ CreateFails(w) \/ Put(w))
    BY <1>1 DEF MkdirAll, Create, CreateFails, Put, Goto, Over
  <2> QED BY <1>3, <2>1, <2>2, <2>3 DEF Write
<1>4. ASSUME NEW u \in Writers \ {w}, Write(u) PROVE Written(k)'
  <2>1. kind' = kind /\ wants'[w] = wants[w] /\ at'[w] = at[w]
    BY <1>1, <1>4, WriteOthers DEF Callers, Over
  <2> QED BY <1>1, <2>1 DEF Written
<1>5. ASSUME NEW x \in Deleters, Delete(x) PROVE Written(k)'
  BY <1>2, <1>5, DeleteOthers, CallersAssumption DEF Callers
<1>6. ASSUME NEW r \in Readers, Read(r) PROVE Written(k)'
  BY <1>2, <1>6, ReadOthers, CallersAssumption DEF Callers
<1>7. CASE UNCHANGED vars
  BY <1>2, <1>7 DEF vars
<1> QED BY <1>3, <1>4, <1>5, <1>6, <1>7 DEF Next, Terminated

(* A version that changes is one that nobody reads, or its key is written.    *)
LEMMA VersionChange ==
  ASSUME TypeInv, Lead, [Next]_vars, NEW v \in Versions, version'[v] # version[v]
  PROVE  \/ IsWhole(version'[v]) /\ v > Cardinality(Files) /\ version[v] = Old
         \/ \E k \in Files : For(v, k)' /\ Written(k)'
<1>1. PICK w \in Writers : Write(w)
  BY DeleteOthers, ReadOthers DEF Next, Terminated, vars
<1>2. /\ wants[w] \in Files /\ wants'[w] = wants[w] /\ For(v, wants[w])'
      /\ \/ kind # "s3" /\ at'[w] \in {"fill", "ok"}
         \/ IsWhole(version'[v]) /\ v > Cardinality(Files) /\ version[v] = Old
  BY <1>1, WriteFor
<1>3. CASE kind # "s3" /\ at'[w] \in {"fill", "ok"}
  <2>1. PICK k \in Files : k = wants[w] /\ k = wants'[w]
    BY <1>2
  <2>2. Written(k)'
    BY <1>1, <1>3, <2>1, WriteOthers DEF Written, Over
  <2>3. For(v, k)'
    BY <1>2, <2>1 DEF For
  <2> QED BY <2>2, <2>3
<1> QED BY <1>2, <1>3

LEMMA TornStep ==
  ASSUME TornInv, [Next]_vars
  PROVE  TornInv'
<1> USE DEF TornInv
<1>1. TypeInv' /\ Lead'
  BY TypeStep, LeadStep
<1>2. ASSUME NEW v \in Versions
      PROVE  IsWhole(version'[v]) \/ \E k \in Files : For(v, k)' /\ Written(k)'
  <2>1. CASE version'[v] # version[v]
    BY <2>1, VersionChange
  <2>2. CASE version'[v] = version[v] /\ ~IsWhole(version[v])
    <3>1. PICK k \in Files : For(v, k) /\ Written(k)
      BY <2>2 DEF Torn
    <3> QED BY <3>1, ForStays, WrittenStays
  <2> QED BY <2>1, <2>2
<1>3. ASSUME NEW r \in Readers, at'[r] = "copy", ~Read(r)
      PROVE  version'[hold'[r].of] = hold'[r].was \/ \E k \in Files : For(hold[r].of, k)' /\ Written(k)'
  <2>1. at'[r] = at[r] /\ hold'[r] = hold[r]
    BY <1>3, ReaderWaits
  <2>2. PICK v \in Versions, l \in Files : v = hold[r].of /\ For(v, l)
    BY <1>3, <2>1 DEF Lead
  <2>3. version[v] = hold[r].was \/ \E k \in Files : For(v, k) /\ Written(k)
    BY <1>3, <2>1, <2>2 DEF Torn
  <2>4. ASSUME NEW k \in Files, For(v, k)', Written(k)'
        PROVE  \E m \in Files : For(hold[r].of, m)' /\ Written(m)'
    <3>1. For(hold[r].of, k)'
      BY <2>1, <2>2, <2>4 DEF For
    <3> QED BY <2>4, <3>1
  <2>5. CASE \E k \in Files : For(v, k) /\ Written(k)
    BY <2>4, <2>5, ForStays, WrittenStays
  <2>6. CASE version[v] = hold[r].was /\ version'[v] # version[v]
    <3>1. ~(version[v] = Old /\ v > Cardinality(Files))
      BY <2>2, SizesFinite DEF For
    <3> QED BY <2>4, <2>6, <3>1, VersionChange
  <2> QED BY <2>1, <2>2, <2>3, <2>5, <2>6
<1>4. ASSUME NEW r \in Readers, at'[r] = "copy", Read(r)
      PROVE  version'[hold'[r].of] = hold'[r].was
  <2>1. PICK k \in Files : Open(r, k)
    BY <1>4, OnlyOpen
  <2>2. version' = version /\ hold'[r] = [of |-> file[k], was |-> version[file[k]]]
    BY <2>1 DEF Open, Reading, treeVars, TypeInv, Store, Callers
  <2> QED BY <2>2
<1>5. ASSUME NEW r \in Readers, NEW k \in Files, body'[r][k] = "torn"
      PROVE  bad'[r] \/ Written(k)'
  <2>1. CASE body[r][k] = "torn"
    <3>1. bad[r] => bad'[r]
      BY ReaderWaits, ReadOthers
    <3> QED BY <2>1, <3>1, WrittenStays DEF Torn
  <2>2. CASE body[r][k] # "torn"
    <3>1. PICK l \in Files : Copy(r, l)
      <4>1. Read(r) /\ body' # body
        BY <1>5, <2>2, ReaderWaits
      <4> QED BY <4>1 DEF Read, Begin, BeginRead, ListDates, WalkRoot, WalkUp, NextKeys, ListingBreaks, WalkDir,
                          WalkFile, Open, Skip, CloseZip, readVars
    <3>2. l = k
      <4>1. PICK b : body' = [body EXCEPT ![r][l] = b]
        BY <3>1 DEF Copy
      <4> QED BY <1>5, <2>2, <4>1 DEF TypeInv, Answers
    <3>3. First(found[r], k) /\ at[r] = "copy"
      BY <3>1, <3>2 DEF Copy, Goto
    <3>4. PICK v \in Versions, m \in Files : v = hold[r].of /\ First(found[r], m) /\ For(v, m)
      BY <3>3 DEF Lead
    <3>5. m = k
      BY <3>3, <3>4, FirstIsOne DEF TypeInv, Answers
    <3>6. CASE bad' = [bad EXCEPT ![r] = TRUE]
      BY <3>6 DEF TypeInv, History, Callers
    <3>7. CASE ~(version[v] = hold[r].was /\ IsWhole(version[v]))
      <4>1. PICK o \in Files : For(v, o) /\ Written(o)
        BY <3>3, <3>4, <3>7 DEF Torn
      <4>2. o = k
        BY <3>4, <3>5, <4>1, ForIsOne
      <4> QED BY <4>1, <4>2, WrittenStays
    <3>8. CASE version[v] = hold[r].was /\ IsWhole(version[v]) /\ ~(bad' = [bad EXCEPT ![r] = TRUE])
      <4>1. body' = [body EXCEPT ![r][l] = "whole"]
        BY <3>1, <3>4, <3>8 DEF Copy
      <4> QED BY <1>5, <3>2, <4>1 DEF TypeInv, Answers
    <3> QED BY <3>6, <3>7, <3>8
  <2> QED BY <2>1, <2>2
<1>6. Torn'
  <2>1. \A v \in Versions : IsWhole(version'[v]) \/ \E k \in Files : For(v, k)' /\ Written(k)'
    BY <1>2
  <2>2. \A r \in Readers : at'[r] = "copy" =>
          version'[hold'[r].of] = hold'[r].was \/ \E k \in Files : For(hold[r].of, k)' /\ Written(k)'
    BY <1>3, <1>4
  <2>3. \A r \in Readers : \A k \in Files : body'[r][k] = "torn" => bad'[r] \/ Written(k)'
    BY <1>5
  <2> QED BY <2>1, <2>2, <2>3 DEF Torn, IsWhole
<1> QED BY <1>1, <1>6

LEMMA TornInit == Init => TornInv
<1> SUFFICES ASSUME Init PROVE TornInv
  OBVIOUS
<1>1. Lead
  <2>1. ASSUME NEW k \in Files, file[k] # Nothing PROVE For(file[k], k)
    <3>1. file[k] = Number(k)
      BY <2>1 DEF Init
    <3>2. Number(k) <= Cardinality(Files)
      BY NumberOrder, FilesFinite
    <3> QED BY <3>1, <3>2 DEF For
  <2> QED BY <2>1 DEF Init, Lead, Callers
<1>2. IsWhole(Old)
  BY FS_EmptySet DEF IsWhole, Old
<1>3. Torn
  BY <1>2 DEF Init, Torn, Callers
<1> QED BY <1>1, <1>3, TypeInit DEF TornInv

LEMMA TornInvariant == Spec => []TornInv
BY TornInit, TornStep, PTL DEF Spec

(* A download is torn by a Write of its own key, on local or sftp, or by a    *)
(* call that broke down: never by a Delete, and never on S3.                  *)
THEOREM TornCorrect == Spec => []TornHasCause
<1>1. TornInv => TornHasCause
  BY DEF TornInv, Torn, TornHasCause, Written
<1> QED BY <1>1, TornInvariant, PTL

-------------------------------------------------------------------------------
(* The files that have stayed as they were                                    *)

LEMMA CalmStays ==
  ASSUME TypeInv, Lead, [Next]_vars, NEW c \in Callers, NEW k \in calm'[c]
  PROVE  /\ k \in Files /\ file'[k] = file[k]
         /\ file[k] # Nothing => version'[file[k]] = version[file[k]]
         /\ k \in calm[c] \/ (at[c] = "idle" /\ at'[c] # "idle" /\ k \in Present)
<1> DEFINE Stays == /\ file'[k] = file[k]
                    /\ file[k] # Nothing => version'[file[k]] = version[file[k]]
                    /\ k \in calm[c] \/ (at[c] = "idle" /\ at'[c] # "idle" /\ k \in Present)
<1>0. k \in Files
  BY HistoryStep DEF TypeInv, History
<1>1. ASSUME UNCHANGED <<file, version, calm>> PROVE Stays
  BY <1>1
<1>2. ASSUME NEW K, Touch(K) PROVE k \in calm[c] /\ k \notin K
  BY <1>2 DEF Touch
<1>3. ASSUME NEW w \in Writers, Write(w) PROVE Stays
  <2>1. CASE Create(w)
    <3>1. PICK o \in Versions :
            /\ o = file[wants[w]] \/ (o > Cardinality(Files) /\ version[o] = Old)
            /\ version' = [version EXCEPT ![o] = [by |-> {w} \cup Filling(o), done |-> {}]]
            /\ file' = [file EXCEPT ![wants[w]] = o]
      BY <2>1, CreateFacts DEF TypeInv
    <3>2. wants[w] \in Files
      BY <2>1, CreateFacts DEF TypeInv
    <3>3. Touch({wants[w]})
      BY <2>1 DEF Create, Truncate
    <3>4. k \in calm[c] /\ k # wants[w]
      BY <1>2, <3>3
    <3>5. file'[k] = file[k]
      BY <1>0, <3>1, <3>4 DEF TypeInv, Store
    <3>6. CASE file[k] # Nothing
      <4>1. PICK v \in Versions : v = file[k]
        BY <1>0, <3>6 DEF TypeInv, Store
      <4>2. For(v, k)
        BY <1>0, <3>6, <4>1 DEF Lead
      <4>3. v # o
        <5>1. CASE o = file[wants[w]]
          <6>1. o # Nothing
            BY SizesFinite DEF Nothing
          <6>2. For(o, wants[w])
            BY <3>2, <5>1, <6>1 DEF Lead
          <6> QED BY <1>0, <3>2, <3>4, <4>2, <6>2, ForIsOne
        <5>2. CASE o > Cardinality(Files) /\ version[o] = Old
          BY <4>2, <5>2, SizesFinite DEF For
        <5> QED BY <3>1, <5>1, <5>2
      <4> QED BY <3>1, <3>4, <3>5, <4>1, <4>3 DEF TypeInv, Store
    <3> QED BY <3>4, <3>5, <3>6
  <2>2. CASE Fill(w)
    <3>1. PICK o \in Versions :
            /\ o = hold[w].of
            /\ version' = [version EXCEPT ![o] = [by |-> version[o].by, done |-> version[o].done \cup {w}]]
      BY <2>2, FillFacts DEF TypeInv
    <3>2. file' = file /\ Touch({l \in Files : file[l] = o})
      BY <2>2, <3>1 DEF Fill
    <3>3. k \in calm[c] /\ file[k] # o
      BY <1>0, <1>2, <3>2
    <3> QED BY <1>0, <3>1, <3>2, <3>3 DEF TypeInv, Store
  <2>3. CASE Put(w)
    <3>1. PICK o \in Versions :
            /\ o > Cardinality(Files) /\ version[o] = Old
            /\ version' = [version EXCEPT ![o] = [by |-> {w}, done |-> {w}]]
            /\ file' = [file EXCEPT ![wants[w]] = o]
      BY <2>3, PutFacts DEF TypeInv
    <3>2. k \in calm[c] /\ k # wants[w]
      BY <1>2, <2>3 DEF Put
    <3>3. file'[k] = file[k]
      BY <1>0, <3>1, <3>2 DEF TypeInv, Store
    <3>4. ASSUME file[k] # Nothing PROVE version'[file[k]] = version[file[k]]
      <4>1. PICK v \in Versions : v = file[k] /\ For(v, k)
        BY <1>0, <3>4 DEF TypeInv, Store, Lead
      <4>2. v # o
        BY <3>1, <4>1, SizesFinite DEF For
      <4> QED BY <3>1, <4>1, <4>2 DEF TypeInv, Store
    <3> QED BY <3>2, <3>3, <3>4
  <2>4. CASE MkdirAll(w) \/ CreateFails(w) \/ WriteBreaks(w)
    BY <1>1, <2>4 DEF MkdirAll, CreateFails, WriteBreaks, treeVars
  <2>5. ASSUME NEW l \in Files, BeginWrite(w, l) PROVE Stays
    BY <1>1, <2>5 DEF BeginWrite, treeVars
  <2> QED BY <1>3, <2>1, <2>2, <2>3, <2>4, <2>5 DEF Write
<1>4. ASSUME NEW x \in Deleters, Delete(x) PROVE Stays
  <2>1. version' = version
    BY <1>4, DeleteOthers
  <2>2. CASE BeginDelete(x)
    <3>1. /\ calm' = [calm EXCEPT ![x] = Present] /\ file' = file
          /\ at[x] = "idle"
      BY <2>2 DEF BeginDelete, Goto, treeVars
    <3> QED BY <1>4, <2>1, <3>1, DeleteOthers DEF TypeInv, History, Callers
  <2>3. CASE DeleteBatch(x) \/ BatchInPart(x)
    <3>1. PICK gone : Touch(gone) /\ file' = [l \in Files |-> IF l \in gone THEN Nothing ELSE file[l]]
      BY <2>3 DEF DeleteBatch, BatchInPart
    <3> QED BY <1>0, <1>2, <2>1, <3>1
  <2>4. CASE LeaveDir(x) \/ DeleteList(x) \/ DeleteBreaks(x)
    BY <1>1, <2>1, <2>4 DEF LeaveDir, DeleteList, DeleteBreaks, treeVars
  <2>5. ASSUME NEW e \in Files \cup Parts, DeleteDir(x, e) PROVE Stays
    BY <1>1, <2>1, <2>5 DEF DeleteDir, NotThere
  <2>6. ASSUME NEW e \in Files \cup Parts, DeleteFile(x, e) PROVE Stays
    <3>1. (file' = file /\ calm' = calm) \/ (file' = [file EXCEPT ![e] = Nothing] /\ Touch({e}))
      BY <2>6 DEF DeleteFile, NotThere
    <3>2. CASE file' = file /\ calm' = calm
      BY <1>1, <2>1, <3>2
    <3>3. CASE file' = [file EXCEPT ![e] = Nothing] /\ Touch({e})
      <4>1. k \in calm[c] /\ k # e
        BY <1>2, <3>3
      <4> QED BY <1>0, <2>1, <3>3, <4>1 DEF TypeInv, Store
    <3> QED BY <3>1, <3>2, <3>3
  <2> QED BY <1>4, <2>2, <2>3, <2>4, <2>5, <2>6 DEF Delete
<1>5. ASSUME NEW r \in Readers, Read(r) PROVE Stays
  <2>1. file' = file /\ version' = version
    BY <1>5, ReadOthers
  <2>2. CASE Begin(r)
    <3>1. calm' = [calm EXCEPT ![r] = Present] /\ at[r] = "idle"
      BY <2>2 DEF Begin, BeginRead, Goto
    <3> QED BY <1>5, <2>1, <3>1, ReadOthers DEF TypeInv, History, Callers
  <2>3. CASE ~Begin(r)
    <3>1. calm' = calm
      BY <1>5, <2>3 DEF Read, ListDates, WalkRoot, WalkUp, NextKeys, ListingBreaks, WalkDir, WalkFile, Open, Skip,
                       Copy, CloseZip, Reading
    <3> QED BY <1>1, <2>1, <3>1
  <2> QED BY <2>2, <2>3
<1>6. ASSUME UNCHANGED vars PROVE Stays
  BY <1>1, <1>6 DEF vars
<1>7. Stays
  <2> HIDE DEF Stays
  <2> QED BY <1>3, <1>4, <1>5, <1>6 DEF Next, Terminated
<1> QED BY <1>0, <1>7

Calm == \A c \in Callers : calm[c] \subseteq Present

LEMMA CalmStep ==
  ASSUME TypeInv, Lead, Calm, [Next]_vars
  PROVE  Calm'
<1> SUFFICES ASSUME NEW c \in Callers, NEW k \in calm'[c] PROVE k \in Present'
  BY DEF Calm
<1> QED BY CalmStays DEF Calm, Present

-------------------------------------------------------------------------------
(* Delete                                                                     *)

Beyond(c) == {k \in Files : after[c] = Date \/ Before(after[c], k)}

(* A page is the first keys of the rest.                                      *)
LEMMA PageFacts ==
  ASSUME NEW c \in Callers
  PROVE  /\ Rest(c) = Present \cap Beyond(c) /\ PageOf(c) \subseteq Rest(c)
         /\ PageOf(c) = {} => Rest(c) = {}
         /\ PageOf(c) # {} => \A k \in Rest(c) : k \in PageOf(c) \/ Before(LastOf(PageOf(c)), k)
<1> DEFINE Ahead(k) == {l \in Rest(c) : Before(l, k)}
<1>1. Rest(c) = Present \cap Beyond(c) /\ PageOf(c) \subseteq Rest(c)
  BY DEF Rest, Beyond, PageOf, Present
<1>2. Rest(c) \subseteq Files
  BY DEF Rest, Present
<1>3. \A k : IsFiniteSet(Ahead(k)) /\ Cardinality(Ahead(k)) \in Nat
  BY <1>2, FilesFinite, FS_Subset, FS_CardinalityType
<1>4. \A k \in Rest(c) : k \in PageOf(c) <=> Cardinality(Ahead(k)) < PageSize
  BY DEF PageOf
<1>5. ASSUME Rest(c) # {} PROVE PageOf(c) # {}
  <2>1. PICK k \in Rest(c) : \A l \in Rest(c) : ~Before(l, k)
    BY <1>2, <1>5, FirstExists DEF First
  <2>2. Ahead(k) = {}
    BY <2>1
  <2>3. Cardinality(Ahead(k)) = 0
    BY <2>2, FS_EmptySet
  <2> HIDE DEF Ahead
  <2> QED BY <1>4, <2>1, <2>3, BoundAssumption
<1>6. ASSUME PageOf(c) # {}, NEW k \in Rest(c), k \notin PageOf(c) PROVE Before(LastOf(PageOf(c)), k)
  <2>1. PICK p : p = LastOf(PageOf(c))
    OBVIOUS
  <2>2. p \in PageOf(c) /\ p \in Files /\ k \in Files /\ p # k
    BY <1>1, <1>2, <1>6, <2>1, LastOfFacts
  <2>3. ASSUME Before(k, p) PROVE FALSE
    <3>1. Ahead(k) \subseteq Ahead(p)
      BY <1>2, <2>2, <2>3, BeforeOrder
    <3>2. Cardinality(Ahead(p)) < PageSize
      BY <1>1, <1>4, <2>2
    <3>3. ~(Cardinality(Ahead(k)) < PageSize)
      BY <1>4, <1>6
    <3>4. IsFiniteSet(Ahead(p)) /\ Cardinality(Ahead(p)) \in Nat /\ Cardinality(Ahead(k)) \in Nat
      BY <1>3
    <3> HIDE DEF Ahead
    <3>5. Cardinality(Ahead(k)) <= Cardinality(Ahead(p))
      BY <3>1, <3>4, FS_Subset
    <3> QED BY <3>2, <3>3, <3>4, <3>5, BoundAssumption
  <2> QED BY <2>1, <2>2, <2>3, BeforeOrder
<1> QED BY <1>1, <1>5, <1>6

(* What a Delete still has before it, the keys apart it was denied.           *)
Ahead ==
  \A x \in Deleters :
    /\ at[x] = "idle" => after[x] = Date
    /\ at[x] = "page" => calm[x] \subseteq denied[x] \cup Beyond(x)
    /\ at[x] = "batch" => calm[x] \subseteq denied[x] \cup Beyond(x) \cup Last(walk[x]).left
    /\ at[x] = "last" => calm[x] \subseteq denied[x] \cup Last(walk[x]).left
    /\ at[x] = "ok" => calm[x] \subseteq denied[x]

DeleteInv == TypeInv /\ Lead /\ Calm /\ Ahead

(* RemoveDirectory of the date that does not fail leaves nothing of it.       *)
LEMMA LastDir ==
  ASSUME TypeInv, NEW x \in Deleters, LeaveDir(x), at'[x] = "ok"
  PROVE  kind # "s3" /\ Present' = {} /\ Date \notin dirs' /\ Present = {}
<1> x \in Callers
  BY DEF Callers
<1>1. at[x] = "delete" /\ kind # "s3" /\ walk[x] # <<>>
  BY DEF LeaveDir, TypeInv, Places, Walks
<1>2. walk'[x] = <<>> /\ ~bad'[x]
  BY <1>1 DEF LeaveDir, TypeInv, Control
<1>3. PICK dir : dir = Last(walk[x]).dir
  OBVIOUS
<1>4. PICK refused, stop \in BOOLEAN :
        /\ refused <=> dir \in dirs /\ Entries(dir) # {}
        /\ stop <=> kind = "sftp" /\ (refused \/ dir \notin dirs)
        /\ dirs' = IF refused THEN dirs ELSE dirs \ {dir}
        /\ bad' = [bad EXCEPT ![x] = @ \/ refused \/ stop]
        /\ walk' = [walk EXCEPT ![x] = IF stop THEN <<>> ELSE Front(@)]
  BY <1>3 DEF LeaveDir
<1>5. bad'[x] = (bad[x] \/ refused \/ stop)
  BY <1>4 DEF TypeInv, History
<1>6. ~refused /\ ~stop
  BY <1>2, <1>5
<1>7. Front(walk[x]) = <<>> /\ dirs' = dirs \ {dir} /\ (dir \notin dirs \/ Entries(dir) = {})
  BY <1>2, <1>4, <1>6 DEF TypeInv, Walks
<1>8. dir = Date
  <2>1. walk[x] \in Seq(Frames)
    BY DEF TypeInv, Walks
  <2>2. Len(walk[x]) \in Nat \ {0} /\ Last(walk[x]) = walk[x][Len(walk[x])] /\ Len(Front(walk[x])) = Len(walk[x]) - 1
    BY <1>1, <2>1, WalkFacts
  <2>3. Len(walk[x]) = 1
    BY <1>7, <2>2, EmptySeq
  <2> QED BY <1>1, <1>3, <2>2, <2>3 DEF TypeInv, Walks
<1>9. Present = {}
  BY <1>1, <1>7, <1>8, EmptyFacts DEF TypeInv
<1>10. file' = file
  BY DEF LeaveDir
<1> QED BY <1>1, <1>7, <1>8, <1>9, <1>10 DEF Present

LEMMA NoTree ==
  ASSUME TypeInv, kind # "s3", Date \notin dirs
  PROVE  Present = {}
BY EmptyFacts DEF TypeInv

LEMMA DeleterWaits ==
  ASSUME TypeInv, [Next]_vars, NEW x \in Deleters, ~Delete(x)
  PROVE  at'[x] = at[x] /\ bad'[x] = bad[x] /\ walk'[x] = walk[x] /\ after'[x] = after[x]
<1> x \in Callers
  BY DEF Callers
<1>1. ASSUME NEW u \in Writers, Write(u)
      PROVE  at'[x] = at[x] /\ bad'[x] = bad[x] /\ walk'[x] = walk[x] /\ after'[x] = after[x]
  BY <1>1, WriteOthers, CallersAssumption
<1>2. ASSUME NEW y \in Deleters \ {x}, Delete(y)
      PROVE  at'[x] = at[x] /\ bad'[x] = bad[x] /\ walk'[x] = walk[x] /\ after'[x] = after[x]
  BY <1>2, DeleteOthers
<1>3. ASSUME NEW r \in Readers, Read(r)
      PROVE  at'[x] = at[x] /\ bad'[x] = bad[x] /\ walk'[x] = walk[x] /\ after'[x] = after[x]
  BY <1>3, ReadOthers, CallersAssumption
<1> QED BY <1>1, <1>2, <1>3 DEF Next, Terminated, vars

(* No other Delete is denied anything by what one is.                         *)
LEMMA DeniedAlone ==
  ASSUME TypeInv, [Next]_vars, NEW x \in Deleters, ~BatchInPart(x)
  PROVE  denied'[x] = denied[x]
<1>1. ASSUME NEW y \in Deleters, Denials(y) PROVE denied'[x] = denied[x]
  <2>1. y # x
    BY <1>1 DEF Denials
  <2> QED BY <1>1, <2>1 DEF Denials, TypeInv, History
<1> QED BY <1>1, DeniedStep

LEMMA AheadStep ==
  ASSUME DeleteInv, [Next]_vars
  PROVE  Ahead'
<1> USE DEF DeleteInv
<1> SUFFICES ASSUME NEW x \in Deleters
    PROVE  /\ at'[x] = "idle" => after'[x] = Date
           /\ at'[x] = "page" => calm'[x] \subseteq denied'[x] \cup Beyond(x)'
           /\ at'[x] = "batch" => calm'[x] \subseteq denied'[x] \cup Beyond(x)' \cup Last(walk'[x]).left
           /\ at'[x] = "last" => calm'[x] \subseteq denied'[x] \cup Last(walk'[x]).left
           /\ at'[x] = "ok" => calm'[x] \subseteq denied'[x]
  BY DEF Ahead
<1> x \in Callers
  BY DEF Callers
<1> DEFINE Goal == /\ at'[x] = "idle" => after'[x] = Date
                   /\ at'[x] = "page" => calm'[x] \subseteq denied'[x] \cup Beyond(x)'
                   /\ at'[x] = "batch" =>
                        calm'[x] \subseteq denied'[x] \cup Beyond(x)' \cup Last(walk'[x]).left
                   /\ at'[x] = "last" => calm'[x] \subseteq denied'[x] \cup Last(walk'[x]).left
                   /\ at'[x] = "ok" => calm'[x] \subseteq denied'[x]
<1>1. ASSUME ~Delete(x) PROVE Goal
  <2>1. at'[x] = at[x] /\ walk'[x] = walk[x] /\ after'[x] = after[x]
    BY <1>1, DeleterWaits
  <2>2. Beyond(x)' = Beyond(x)
    BY <2>1 DEF Beyond
  <2>3. calm'[x] \subseteq calm[x]
    BY <2>1, CalmStays
  <2>4. denied'[x] = denied[x]
    BY <1>1, DeniedAlone DEF Delete
  <2> QED BY <2>1, <2>2, <2>3, <2>4 DEF Ahead
<1>2. ASSUME BeginDelete(x) PROVE Goal
  <2>1. at[x] = "idle" /\ calm'[x] = Present /\ after' = after
    BY <1>2 DEF BeginDelete, Goto, TypeInv, History
  <2>2. Present \subseteq Files /\ after'[x] = Date
    BY <2>1 DEF Present, Ahead
  <2>3. Beyond(x)' = Files
    BY <2>2 DEF Beyond
  <2>4. at'[x] \in {"page", "delete", "failed", "ok"} /\ (at'[x] = "ok" => kind # "s3" /\ Date \notin dirs)
    BY <1>2 DEF BeginDelete, Goto, TypeInv, Control
  <2>5. at'[x] = "ok" => calm'[x] = {}
    BY <2>1, <2>4, NoTree
  <2> QED BY <2>1, <2>2, <2>3, <2>4, <2>5
<1>3. ASSUME LeaveDir(x) PROVE Goal
  <2>1. at'[x] \in {"delete", "failed", "ok"}
    BY <1>3 DEF LeaveDir, TypeInv, Control
  <2>2. at'[x] = "ok" => calm'[x] = {}
    <3>1. calm' = calm /\ calm[x] \subseteq Present
      BY <1>3 DEF LeaveDir, Calm
    <3> QED BY <1>3, <3>1, LastDir
  <2> QED BY <2>1, <2>2
<1>4. ASSUME DeleteList(x) PROVE Goal
  <2>1. at[x] = "page" /\ calm'[x] = calm[x] /\ denied'[x] = denied[x]
    BY <1>4 DEF DeleteList, Goto, jobVars
  <2>2. calm[x] \subseteq denied[x] \cup Rest(x)
    BY <2>1, PageFacts DEF Ahead, Calm
  <2>3. walk'[x] = <<[dir |-> Date, left |-> PageOf(x)]>>
    BY <1>4 DEF DeleteList, TypeInv, Walks
  <2>4. Last(walk'[x]).left = PageOf(x)
    BY <2>3 DEF Last
  <2>5. CASE PageOf(x) = {}
    <3>1. at'[x] = "ok"
      BY <1>4, <2>5 DEF DeleteList, Goto, TypeInv, Control
    <3> QED BY <2>1, <2>2, <2>5, <3>1, PageFacts
  <2>6. CASE PageOf(x) # {} /\ ~More(x)
    <3>1. at'[x] = "last"
      BY <1>4, <2>6 DEF DeleteList, Goto, TypeInv, Control
    <3> QED BY <2>1, <2>2, <2>4, <2>6, <3>1 DEF More
  <2>7. CASE PageOf(x) # {} /\ More(x)
    <3>1. at'[x] = "batch" /\ after'[x] = LastOf(PageOf(x))
      BY <1>4, <2>7 DEF DeleteList, Goto, TypeInv, Control, Answers
    <3>2. \A k \in Rest(x) : k \in PageOf(x) \/ Before(after'[x], k)
      BY <2>7, <3>1, PageFacts
    <3>3. Rest(x) \subseteq Files
      BY DEF Rest, Present
    <3>4. calm'[x] \subseteq denied'[x] \cup Beyond(x)' \cup PageOf(x)
      BY <2>1, <2>2, <3>2, <3>3 DEF Beyond
    <3> QED BY <2>4, <3>1, <3>4
  <2> QED BY <2>5, <2>6, <2>7
<1>5. ASSUME DeleteBatch(x) PROVE Goal
  <2>1. calm'[x] = calm[x] \ Last(walk[x]).left /\ denied'[x] = denied[x] /\ after' = after
    BY <1>5 DEF DeleteBatch, Deleting, Touch, jobVars
  <2>2. Beyond(x)' = Beyond(x)
    BY <2>1 DEF Beyond
  <2>3. (at[x] = "batch" /\ at'[x] = "page") \/ (at[x] = "last" /\ at'[x] = "ok")
    BY <1>5 DEF DeleteBatch, Goto, TypeInv, Control
  <2> QED BY <2>1, <2>2, <2>3 DEF Ahead
<1>6. ASSUME BatchInPart(x) PROVE Goal
  <2>1. PICK gone :
          /\ calm' = [c \in Callers |-> calm[c] \ gone]
          /\ denied' = [denied EXCEPT ![x] = @ \cup (Present \cap (Last(walk[x]).left \ gone))]
    BY <1>6 DEF BatchInPart, Touch
  <2>2. calm'[x] = calm[x] \ gone /\ calm[x] \subseteq Present
    BY <2>1 DEF Calm
  <2>3. denied'[x] = denied[x] \cup (Present \cap (Last(walk[x]).left \ gone))
    BY <2>1 DEF TypeInv, History
  <2>4. after' = after
    BY <1>6 DEF BatchInPart
  <2>5. Beyond(x)' = Beyond(x)
    BY <2>4 DEF Beyond
  <2>6. (at[x] = "batch" /\ at'[x] = "page") \/ (at[x] = "last" /\ at'[x] = "ok")
    BY <1>6 DEF BatchInPart, Goto, TypeInv, Control
  <2>7. \A k \in calm'[x] : k \in Last(walk[x]).left => k \in denied'[x]
    BY <2>2, <2>3
  <2>8. denied[x] \subseteq denied'[x] /\ calm'[x] \subseteq calm[x]
    BY <2>2, <2>3
  <2> QED BY <2>5, <2>6, <2>7, <2>8 DEF Ahead
<1>7. ASSUME DeleteBreaks(x) PROVE Goal
  <2>1. at'[x] = "failed"
    BY <1>7 DEF DeleteBreaks, TypeInv, Control
  <2> QED BY <2>1
<1>8. ASSUME NEW e \in Files \cup Parts, DeleteDir(x, e) \/ DeleteFile(x, e) PROVE Goal
  <2>1. at'[x] \in {"delete", "failed"}
    BY <1>8 DEF DeleteDir, DeleteFile, NotThere, TypeInv, Control
  <2> QED BY <2>1
<1>9. Goal
  <2> HIDE DEF Goal
  <2> QED BY <1>1, <1>2, <1>3, <1>4, <1>5, <1>6, <1>7, <1>8 DEF Delete
<1> QED BY <1>9

LEMMA DeleteInvariant == Spec => []DeleteInv
<1>1. Init => DeleteInv
  <2> SUFFICES ASSUME Init PROVE DeleteInv
    OBVIOUS
  <2>1. TypeInv /\ Lead
    BY TornInit DEF TornInv
  <2>2. Calm /\ Ahead
    BY DEF Init, Calm, Ahead, Callers
  <2> QED BY <2>1, <2>2 DEF DeleteInv
<1>2. DeleteInv /\ [Next]_vars => DeleteInv'
  BY TypeStep, LeadStep, CalmStep, AheadStep DEF DeleteInv
<1> QED BY <1>1, <1>2, PTL DEF Spec

(* A Delete that returns no error has removed every file of the date that was *)
(* there when it began and was not written since, but those S3 answered it    *)
(* could not delete; on local and sftp it has removed the whole tree.         *)
THEOREM DeleteCorrect == Spec => DeleteIsTrue
<1> DEFINE Sure == \A x \in Deleters :
             at[x] # "ok" /\ at'[x] = "ok" =>
               calm'[x] \subseteq denied'[x] /\ (kind # "s3" => Present' = {} /\ Date \notin dirs')
<1>1. DeleteInv /\ DeleteInv' /\ [Next]_vars => Sure
  <2> SUFFICES ASSUME DeleteInv, DeleteInv', [Next]_vars, NEW x \in Deleters, at[x] # "ok", at'[x] = "ok"
      PROVE  calm'[x] \subseteq denied'[x] /\ (kind # "s3" => Present' = {} /\ Date \notin dirs')
    OBVIOUS
  <2> x \in Callers
    BY DEF Callers
  <2>1. calm'[x] \subseteq denied'[x]
    BY DEF DeleteInv, Ahead
  <2>2. Delete(x)
    BY DeleterWaits DEF DeleteInv
  <2>3. ASSUME kind # "s3" PROVE Present' = {} /\ Date \notin dirs'
    <3>1. CASE LeaveDir(x)
      BY <3>1, LastDir DEF DeleteInv
    <3>2. CASE BeginDelete(x)
      <4>1. Date \notin dirs /\ UNCHANGED <<dirs, file>>
        BY <2>3, <3>2 DEF BeginDelete, Goto, treeVars, DeleteInv, TypeInv, Control
      <4> QED BY <2>3, <4>1, NoTree DEF Present, DeleteInv
    <3>3. CASE DeleteList(x) \/ DeleteBatch(x) \/ BatchInPart(x)
      BY <2>3, <3>3 DEF DeleteList, DeleteBatch, BatchInPart, Goto, DeleteInv, TypeInv, Places
    <3>4. CASE DeleteBreaks(x)
      BY <3>4 DEF DeleteBreaks, DeleteInv, TypeInv, Control
    <3>5. ASSUME NEW e \in Files \cup Parts, DeleteDir(x, e) \/ DeleteFile(x, e) PROVE FALSE
      BY <3>5 DEF DeleteDir, DeleteFile, NotThere, DeleteInv, TypeInv, Control
    <3> QED BY <2>2, <3>1, <3>2, <3>3, <3>4, <3>5 DEF Delete
  <2> QED BY <2>1, <2>3
<1> QED BY <1>1, DeleteInvariant, PTL DEF Spec, DeleteIsTrue

-------------------------------------------------------------------------------
(* Reading                                                                    *)

(* The walk s still comes by k, or by the directory it is in.                 *)
InWalk(s, k) == \E i \in 1..Len(s) : k \in s[i].left \/ <<k[1]>> \in s[i].left

(* The files the walk s comes by are of S.                                    *)
LeftIn(s, S) == \A i \in 1..Len(s) : s[i].left \cap Files \subseteq S

LEMMA FilesAndParts == Files \cap Parts = {}
<1> SUFFICES ASSUME NEW k \in Files, k \in Parts PROVE FALSE
  OBVIOUS
<1>1. Len(k) = 2
  BY FilesAssumption
<1>2. Len(k) = 1
  BY DirNames
<1> QED BY <1>1, <1>2

LEMMA LeavingLeft ==
  ASSUME NEW s \in Seq(Frames), s # <<>>, NEW S \in SUBSET Last(s).left
  PROVE  /\ \A F : LeftIn(s, F) => LeftIn(Leaving(s, S), F)
         /\ \A k : InWalk(s, k) /\ k \notin Last(s).left \ S /\ <<k[1]>> \notin Last(s).left \ S
               => InWalk(Leaving(s, S), k)
<1>1. Len(s) \in Nat \ {0} /\ Last(s) = s[Len(s)] /\ Last(s) \in Frames
  BY WalkFacts
<1>2. S \in SUBSET (Files \cup Parts)
  BY <1>1 DEF Frames
<1>3. /\ Len(Leaving(s, S)) = Len(s)
      /\ \A i \in 1..Len(s) : Leaving(s, S)[i] = [dir |-> s[i].dir, left |-> IF i = Len(s) THEN S ELSE s[i].left]
  BY <1>2, LeavingFacts
<1>4. PICK t : t = Leaving(s, S)
  OBVIOUS
<1>5. /\ Len(t) = Len(s)
      /\ \A i \in 1..Len(s) : t[i].left = IF i = Len(s) THEN S ELSE s[i].left
  <2>1. ASSUME NEW i \in 1..Len(s) PROVE t[i].left = IF i = Len(s) THEN S ELSE s[i].left
    <3>1. PICK L : L = IF i = Len(s) THEN S ELSE s[i].left
      OBVIOUS
    <3>2. t[i] = [dir |-> s[i].dir, left |-> L]
      BY <1>3, <1>4, <3>1
    <3> QED BY <3>1, <3>2
  <2> QED BY <1>3, <1>4, <2>1
<1>6. \A F : LeftIn(s, F) => LeftIn(t, F)
  BY <1>1, <1>5 DEF LeftIn
<1>7. ASSUME NEW k, InWalk(s, k), k \notin Last(s).left \ S, <<k[1]>> \notin Last(s).left \ S
      PROVE  InWalk(t, k)
  BY <1>1, <1>5, <1>7 DEF InWalk
<1> QED BY <1>4, <1>6, <1>7

LEMMA DeeperLeft ==
  ASSUME NEW s \in Seq(Frames), NEW f \in Frames
  PROVE  /\ \A F : LeftIn(s, F) /\ f.left \cap Files \subseteq F => LeftIn(Append(s, f), F)
         /\ \A k : InWalk(s, k) \/ k \in f.left => InWalk(Append(s, f), k)
<1>1. PICK t : t = Append(s, f)
  OBVIOUS
<1>2. PICK n \in Nat : n = Len(s)
  BY LenProperties
<1>3. Len(t) = n + 1 /\ (\A i \in 1..n : t[i] = s[i]) /\ t[n + 1] = f
  BY <1>1, <1>2, AppendProperties
<1>4. \A i \in 1..(n + 1) : i \in 1..n \/ i = n + 1
  OBVIOUS
<1>5. \A F : LeftIn(s, F) /\ f.left \cap Files \subseteq F => LeftIn(t, F)
  BY <1>2, <1>3, <1>4 DEF LeftIn
<1>6. (\A i \in 1..n : i \in 1..(n + 1)) /\ n + 1 \in 1..(n + 1)
  OBVIOUS
<1>7. \A k : InWalk(s, k) \/ k \in f.left => InWalk(t, k)
  BY <1>2, <1>3, <1>6 DEF InWalk
<1> QED BY <1>1, <1>5, <1>7

LEMMA OutLeft ==
  ASSUME NEW s \in Seq(Frames), s # <<>>, Last(s).left = {}
  PROVE  /\ \A F : LeftIn(s, F) => LeftIn(Front(s), F)
         /\ \A k : InWalk(s, k) => Front(s) # <<>> /\ InWalk(Front(s), k)
<1>1. PICK n \in Nat \ {0} : n = Len(s)
  BY WalkFacts
<1>2. Last(s) = s[n] /\ Len(Front(s)) = n - 1 /\ \A i \in 1..(n - 1) : Front(s)[i] = s[i]
  BY <1>1, WalkFacts
<1>3. \A i \in 1..(n - 1) : i \in 1..n
  OBVIOUS
<1>4. \A F : LeftIn(s, F) => LeftIn(Front(s), F)
  BY <1>1, <1>2, <1>3 DEF LeftIn
<1>5. ASSUME NEW k, InWalk(s, k) PROVE Front(s) # <<>> /\ InWalk(Front(s), k)
  <2>1. PICK i \in 1..n : k \in s[i].left \/ <<k[1]>> \in s[i].left
    BY <1>1, <1>5 DEF InWalk
  <2>2. i # n
    BY <1>2, <2>1
  <2>3. i \in 1..(n - 1)
    BY <2>2
  <2>4. InWalk(Front(s), k)
    BY <1>2, <2>1, <2>3 DEF InWalk
  <2>5. Len(Front(s)) # 0
    BY <1>2, <2>3
  <2> QED BY <2>4, <2>5, EmptySeq, WalkFacts
<1> QED BY <1>4, <1>5

(* A reader begins with the first key, and only a download reads files.       *)
Onward(r) ==
  /\ at[r] \in {"idle", "list", "root"} => after[r] = Date
  /\ at[r] \in {"read", "copy"} => job[r] # "list"

(* Until a Delete begins, what the walk has been told of is there.            *)
Undeleted(r) ==
  (\A x \in Deleters : at[x] = "idle") /\ at[r] = "walk" => LeftIn(walk[r], Present)

(* A listing has, or still comes by, what has been left alone.                *)
Listed(r) ==
  ~bad[r] =>
    /\ at[r] = "walk" => \A k \in calm[r] : k \in found[r] \/ InWalk(walk[r], k)
    /\ at[r] = "pages" => calm[r] \subseteq found[r] \cup Beyond(r)
    /\ at[r] = "listed" => calm[r] \subseteq found[r]

(* An archive has it whole, or has still to open it; what is open is as it    *)
(* was.                                                                       *)
Sent(r) ==
  ~bad[r] =>
    /\ at[r] \in {"read", "copy"} /\ job[r] = "zip" =>
         \A k \in Untouched(r) : k \in found[r] \/ body[r][k] = "whole"
    /\ at[r] = "copy" =>
         \A k \in calm[r] : First(found[r], k) => hold[r].of = file[k] /\ hold[r].was = version[file[k]]
    /\ at[r] = "sent" /\ job[r] = "zip" => \A k \in Untouched(r) : body[r][k] = "whole"
    /\ at[r] \in {"omitted", "failed"} /\ job[r] \in {"list", "zip"} =>
         Untouched(r) = {} \/ (kind = "local" /\ \E x \in Deleters : at[x] # "idle")

Served(r) == Onward(r) /\ Undeleted(r) /\ Listed(r) /\ Sent(r)

ReadInv == TypeInv /\ Lead /\ Calm /\ \A r \in Readers : Served(r)

LEMMA CalmVersions ==
  ASSUME TypeInv, Lead, Calm, [Next]_vars, NEW r \in Readers, at[r] # "idle"
  PROVE  /\ calm'[r] \subseteq calm[r] /\ calm[r] \subseteq Present
         /\ \A k \in calm'[r] : file'[k] = file[k] /\ version'[file'[k]] = version[file[k]]
         /\ Untouched(r)' \subseteq Untouched(r)
<1> r \in Callers
  BY DEF Callers
<1>1. calm[r] \subseteq Present
  BY DEF Calm
<1>2. ASSUME NEW k \in calm'[r]
      PROVE  k \in calm[r] /\ file'[k] = file[k] /\ version'[file'[k]] = version[file[k]]
  <2>1. /\ file'[k] = file[k] /\ k \in calm[r]
        /\ file[k] # Nothing => version'[file[k]] = version[file[k]]
    BY CalmStays
  <2>2. file[k] # Nothing
    BY <1>1, <2>1 DEF Present
  <2> QED BY <2>1, <2>2
<1>3. Untouched(r)' \subseteq Untouched(r)
  <2> SUFFICES ASSUME NEW k \in calm'[r], IsWhole(version'[file'[k]])
      PROVE  k \in calm[r] /\ IsWhole(version[file[k]])
    BY DEF Untouched, IsWhole
  <2> QED BY <1>2
<1> QED BY <1>1, <1>2, <1>3

LEMMA StillIdle ==
  ASSUME TypeInv, [Next]_vars, \A x \in Deleters : at'[x] = "idle"
  PROVE  (\A x \in Deleters : at[x] = "idle") /\ Present \subseteq Present'
<1>1. ASSUME NEW x \in Deleters PROVE ~Delete(x) /\ at[x] = "idle"
  BY DeleteOthers, DeleterWaits
<1>2. ASSUME NEW w \in Writers, Write(w) PROVE Present \subseteq Present'
  <2>1. CASE Create(w)
    <3>1. PICK o \in Versions : file' = [file EXCEPT ![wants[w]] = o]
      BY <2>1, CreateFacts DEF TypeInv
    <3>2. o # Nothing
      BY SizesFinite DEF Nothing
    <3> QED BY <3>1, <3>2 DEF Present, TypeInv, Store
  <2>2. CASE Put(w)
    <3>1. PICK o \in Versions : file' = [file EXCEPT ![wants[w]] = o]
      BY <2>2, PutFacts DEF TypeInv
    <3>2. o # Nothing
      BY SizesFinite DEF Nothing
    <3> QED BY <3>1, <3>2 DEF Present, TypeInv, Store
  <2>3. ASSUME NEW k \in Files, BeginWrite(w, k) PROVE Present \subseteq Present'
    BY <2>3 DEF BeginWrite, treeVars, Present
  <2>4. CASE MkdirAll(w) \/ CreateFails(w) \/ Fill(w) \/ WriteBreaks(w)
    BY <2>4 DEF MkdirAll, CreateFails, Fill, WriteBreaks, treeVars, Present
  <2> QED BY <1>2, <2>1, <2>2, <2>3, <2>4 DEF Write
<1>3. ASSUME NEW r \in Readers, Read(r) PROVE Present \subseteq Present'
  BY <1>3, ReadOthers DEF Present
<1> QED BY <1>1, <1>2, <1>3 DEF Next, Terminated, vars, Present

LEMMA JobWaits ==
  ASSUME TypeInv, [Next]_vars, NEW r \in Readers, ~Read(r)
  PROVE  job'[r] = job[r] /\ kind' = kind /\ \A x \in Deleters : at[x] # "idle" => at'[x] # "idle"
<1> r \in Callers
  BY DEF Callers
<1>1. \A x \in Deleters : at[x] # "idle" => at'[x] # "idle"
  BY DeleteOthers, DeleterWaits
<1>2. kind' = kind
  BY WriteOthers, DeleteOthers, ReadOthers DEF Next, Terminated, vars
<1>3. ASSUME NEW w \in Writers, Write(w) PROVE job'[r] = job[r]
  BY <1>3, CallersAssumption DEF Write, BeginWrite, MkdirAll, Create, CreateFails, Fill, Put, WriteBreaks, jobVars,
                                TypeInv, Control, Callers
<1>4. ASSUME NEW x \in Deleters, Delete(x) PROVE job'[r] = job[r]
  <2>1. r # x
    BY CallersAssumption
  <2> QED BY <1>4, <2>1 DEF Delete, BeginDelete, LeaveDir, DeleteList, DeleteBatch, BatchInPart, DeleteBreaks,
                            DeleteDir, DeleteFile, Deleting, jobVars, TypeInv, Control
<1>5. ASSUME NEW q \in Readers \ {r}, Read(q) PROVE job'[r] = job[r]
  BY <1>5 DEF Read, Begin, BeginRead, ListDates, WalkRoot, WalkUp, NextKeys, ListingBreaks, WalkDir, WalkFile, Open,
              Skip, Copy, CloseZip, Reading, jobVars, TypeInv, Control
<1> QED BY <1>1, <1>2, <1>3, <1>4, <1>5 DEF Next, Terminated, vars

(* What others do does not change how a reader stands.                        *)
LEMMA ServedWaits ==
  ASSUME ReadInv, [Next]_vars, NEW r \in Readers, ~Read(r)
  PROVE  Served(r)'
<1> USE DEF ReadInv
<1>1. /\ at'[r] = at[r] /\ hold'[r] = hold[r] /\ found'[r] = found[r] /\ body'[r] = body[r]
      /\ bad'[r] = bad[r] /\ walk'[r] = walk[r] /\ after'[r] = after[r]
      /\ job'[r] = job[r] /\ kind' = kind
  BY ReaderWaits, JobWaits
<1>2. Onward(r)'
  BY <1>1 DEF Served, Onward
<1>3. Undeleted(r)'
  <2> SUFFICES ASSUME \A x \in Deleters : at'[x] = "idle", at'[r] = "walk" PROVE LeftIn(walk'[r], Present')
    BY DEF Undeleted
  <2>1. LeftIn(walk[r], Present) /\ Present \subseteq Present'
    BY <1>1, StillIdle DEF Served, Undeleted
  <2> QED BY <1>1, <2>1 DEF LeftIn
<1>4. CASE at[r] = "idle"
  BY <1>1, <1>2, <1>3, <1>4 DEF Served, Listed, Sent
<1>5. CASE at[r] # "idle"
  <2>1. /\ calm'[r] \subseteq calm[r]
        /\ \A k \in calm'[r] : file'[k] = file[k] /\ version'[file'[k]] = version[file[k]]
        /\ Untouched(r)' \subseteq Untouched(r)
    BY <1>5, CalmVersions
  <2>2. Listed(r)'
    <3>1. Beyond(r)' = Beyond(r)
      BY <1>1 DEF Beyond
    <3> QED BY <1>1, <2>1, <3>1 DEF Served, Listed
  <2>3. (\E x \in Deleters : at[x] # "idle") => \E x \in Deleters : at'[x] # "idle"
    BY JobWaits
  <2>4. Sent(r)'
    BY <1>1, <2>1, <2>3 DEF Served, Sent
  <2> QED BY <1>2, <1>3, <2>2, <2>4 DEF Served
<1> QED BY <1>4, <1>5

(* While a reader acts, nothing it reads changes.                             *)
LEMMA SameWorld ==
  ASSUME TypeInv, NEW r \in Readers, Read(r), ~Begin(r)
  PROVE  /\ UNCHANGED <<kind, dirs, file, version, calm, job>>
         /\ Present' = Present /\ Untouched(r)' = Untouched(r)
         /\ \A x \in Deleters : at'[x] = at[x]
<1>1. UNCHANGED <<kind, dirs, file, version>> /\ \A x \in Deleters : at'[x] = at[x]
  BY ReadOthers, CallersAssumption DEF Callers
<1>2. UNCHANGED <<calm, job>>
  BY DEF Read, ListDates, WalkRoot, WalkUp, NextKeys, ListingBreaks, WalkDir, WalkFile, Open, Skip, Copy, CloseZip,
         Reading, jobVars
<1> QED BY <1>1, <1>2 DEF Present, Untouched, IsWhole

(* A date that is not there has no files a reader could miss.                 *)
LEMMA NoDate ==
  ASSUME ReadInv, NEW r \in Readers, IF kind = "s3" THEN Present = {} ELSE Date \notin dirs
  PROVE  calm[r] = {} /\ Untouched(r) = {}
<1>1. Present = {}
  BY NoTree DEF ReadInv
<1> QED BY <1>1 DEF ReadInv, Calm, Callers, Untouched

(* Where a listing leads: every file that was left alone is in it.            *)
LEMMA AfterServed ==
  ASSUME ReadInv, NEW r \in Readers, Read(r), ~Begin(r), bad[r] \/ calm[r] \subseteq found'[r],
         at'[r] = AfterList(r, found'[r]), bad[r] => bad'[r]
  PROVE  Served(r)'
<1>1. /\ UNCHANGED <<kind, file, version, calm, job>> /\ Untouched(r)' = Untouched(r)
      /\ \A x \in Deleters : at'[x] = at[x]
  BY SameWorld DEF ReadInv
<1>2. Untouched(r) \subseteq calm[r]
  BY DEF Untouched
<1>3. CASE job[r] = "list"
  <2>1. at'[r] = "listed"
    BY <1>3 DEF AfterList
  <2> QED BY <1>1, <2>1 DEF Served, Onward, Undeleted, Listed, Sent
<1>4. CASE job[r] # "list" /\ found'[r] = {}
  <2>1. at'[r] = "failed"
    BY <1>4 DEF AfterList
  <2>2. ~bad'[r] => Untouched(r)' = {}
    BY <1>1, <1>2, <1>4
  <2> QED BY <2>1, <2>2 DEF Served, Onward, Undeleted, Listed, Sent
<1>5. CASE job[r] # "list" /\ found'[r] # {}
  <2>1. at'[r] = "read"
    BY <1>5 DEF AfterList
  <2>2. ~bad'[r] => Untouched(r)' \subseteq found'[r]
    BY <1>1, <1>2
  <2> QED BY <1>1, <1>5, <2>1, <2>2 DEF Served, Onward, Undeleted, Listed, Sent
<1> QED BY <1>3, <1>4, <1>5

LEMMA ServedBegin ==
  ASSUME ReadInv, NEW r \in Readers, Begin(r)
  PROVE  Served(r)'
<1> r \in Callers
  BY DEF Callers
<1>1. PICK what \in {"list", "zip", "file"} : \E F : BeginRead(r, what, F)
  BY DEF Begin
<1>2. /\ at[r] = "idle" /\ job'[r] = what /\ after' = after
      /\ at'[r] = CASE what = "list" -> "list" [] what = "zip" -> "root" [] what = "file" -> "read"
  BY <1>1 DEF BeginRead, Goto, walkVars, ReadInv, TypeInv, Control
<1>3. after'[r] = Date
  BY <1>2 DEF ReadInv, Served, Onward
<1>4. (what = "list" /\ at'[r] = "list") \/ (what = "zip" /\ at'[r] = "root") \/ (what = "file" /\ at'[r] = "read")
  BY <1>2
<1> QED BY <1>2, <1>3, <1>4 DEF Served, Onward, Undeleted, Listed, Sent

LEMMA ServedRoot ==
  ASSUME ReadInv, NEW r \in Readers, ListDates(r) \/ WalkRoot(r)
  PROVE  Served(r)'
<1> r \in Callers
  BY DEF Callers
<1> USE DEF ReadInv
<1>0. Read(r) /\ ~Begin(r)
  BY DEF Read, ListDates, WalkRoot, Begin, BeginRead, Goto
<1>1. /\ UNCHANGED <<kind, dirs, file, version, calm, job>> /\ Present' = Present /\ Untouched(r)' = Untouched(r)
      /\ \A x \in Deleters : at'[x] = at[x]
  BY <1>0, SameWorld
<1>2. UNCHANGED <<after, found, body, bad>> /\ after[r] = Date
  BY DEF ListDates, WalkRoot, walkVars, readVars, Goto, Served, Onward
<1>3. calm[r] \subseteq Present
  BY DEF Calm
<1>4. CASE ListDates(r) /\ at'[r] = "root"
  BY <1>2, <1>4 DEF Served, Onward, Undeleted, Listed, Sent
<1>5. CASE ListDates(r) /\ at'[r] # "root"
  <2>1. at'[r] = "listed" /\ IF kind = "s3" THEN Present = {} ELSE Date \notin dirs
    BY <1>5 DEF ListDates, Goto, TypeInv, Control
  <2>2. calm[r] = {}
    BY <2>1, NoDate
  <2> QED BY <1>1, <2>1, <2>2 DEF Served, Onward, Undeleted, Listed, Sent
<1>6. CASE WalkRoot(r) /\ kind = "s3"
  <2>1. at'[r] = "pages"
    BY <1>6 DEF WalkRoot, Goto, TypeInv, Control
  <2>2. Beyond(r)' = Files
    BY <1>2 DEF Beyond
  <2>3. Present \subseteq Files
    BY DEF Present
  <2> QED BY <1>1, <1>3, <2>1, <2>2, <2>3 DEF Served, Onward, Undeleted, Listed, Sent
<1>7. CASE WalkRoot(r) /\ kind # "s3" /\ Date \in dirs
  <2>1. at'[r] = "walk" /\ walk'[r] = <<Frame(Date)>>
    BY <1>7 DEF WalkRoot, Goto, TypeInv, Control, Walks
  <2>2. PICK L : L = Entries(Date)
    OBVIOUS
  <2>3. Len(walk'[r]) = 1 /\ walk'[r][1].left = L
    BY <2>1, <2>2 DEF Frame
  <2>4. L = dirs \cap Parts
    BY <2>2, EntriesFacts DEF TypeInv
  <2>5. \A k \in Present : <<k[1]>> \in L
    BY <1>7, <2>4, DirNames DEF TypeInv, Tree, Present
  <2>6. LeftIn(walk'[r], Present')
    BY <2>3, <2>4, FilesAndParts DEF LeftIn
  <2>7. \A k \in calm'[r] : InWalk(walk'[r], k)
    <3> TAKE k \in calm'[r]
    <3>1. <<k[1]>> \in L
      BY <1>1, <1>3, <2>5
    <3>2. 1 \in 1..Len(walk'[r]) /\ <<k[1]>> \in walk'[r][1].left
      BY <2>3, <3>1
    <3> QED BY <3>2 DEF InWalk
  <2> QED BY <2>1, <2>6, <2>7 DEF Served, Onward, Undeleted, Listed, Sent
<1>8. CASE WalkRoot(r) /\ kind # "s3" /\ Date \notin dirs
  <2>1. at'[r] = AfterList(r, {})
    BY <1>8 DEF WalkRoot, Goto, TypeInv, Control
  <2>2. calm[r] = {} /\ Untouched(r) = {}
    BY <1>8, NoDate
  <2>3. (at'[r] = "listed" /\ job[r] = "list") \/ at'[r] = "failed"
    BY <2>1 DEF AfterList
  <2> QED BY <1>1, <2>2, <2>3 DEF Served, Onward, Undeleted, Listed, Sent
<1> QED BY <1>4, <1>5, <1>6, <1>7, <1>8

LEMMA ServedWalk ==
  ASSUME ReadInv, NEW r \in Readers, NEW e \in Files \cup Parts, WalkDir(r, e) \/ WalkFile(r, e)
  PROVE  Served(r)'
<1> r \in Callers
  BY DEF Callers
<1> USE DEF ReadInv
<1>0. Read(r) /\ ~Begin(r)
  BY DEF Read, WalkDir, WalkFile, Begin, BeginRead, Goto
<1>1. /\ UNCHANGED <<kind, dirs, file, version, calm, job>> /\ Present' = Present /\ Untouched(r)' = Untouched(r)
      /\ \A x \in Deleters : at'[x] = at[x]
  BY <1>0, SameWorld
<1>2. at[r] = "walk" /\ walk[r] # <<>> /\ e \in Last(walk[r]).left /\ bad' = bad
  BY DEF WalkDir, WalkFile, Comes, First
<1>3. PICK s \in Seq(Frames) : s = walk[r] /\ s # <<>>
  BY <1>2 DEF TypeInv, Walks
<1>4. PICK S \in SUBSET Last(s).left : S = Last(s).left \ {e}
  OBVIOUS
<1>5. PICK t \in Seq(Frames) : t = Past(r, e) /\ t = Leaving(s, S)
  BY <1>2, <1>3, <1>4, PastFacts DEF TypeInv
<1>6. /\ \A F : LeftIn(s, F) => LeftIn(t, F)
      /\ \A k : InWalk(s, k) /\ k # e /\ <<k[1]>> # e => InWalk(t, k)
  <2>1. \A k : k # e => k \notin Last(s).left \ S
    BY <1>4
  <2>2. \A F : LeftIn(s, F) => LeftIn(t, F)
    BY <1>3, <1>5, LeavingLeft
  <2>3. \A k : InWalk(s, k) /\ k \notin Last(s).left \ S /\ <<k[1]>> \notin Last(s).left \ S => InWalk(t, k)
    BY <1>3, <1>5, LeavingLeft
  <2>4. ASSUME NEW k, InWalk(s, k), k # e, <<k[1]>> # e PROVE InWalk(t, k)
    <3>1. k \notin Last(s).left \ S /\ <<k[1]>> \notin Last(s).left \ S
      BY <2>1, <2>4
    <3> QED BY <2>3, <2>4, <3>1
  <2> QED BY <2>2, <2>4
<1>7. /\ (\A x \in Deleters : at[x] = "idle") => LeftIn(s, Present)
      /\ ~bad[r] => \A k \in calm[r] : k \in found[r] \/ InWalk(s, k)
  BY <1>2, <1>3 DEF Served, Undeleted, Listed
<1>8. calm[r] \subseteq Present /\ Present \subseteq Files
  BY DEF Calm, Present
<1>9. ASSUME at'[r] = "walk", NEW u, walk'[r] = u,
             \A F : LeftIn(s, F) /\ Present \subseteq F => LeftIn(u, F),
             \A k \in calm[r] : k \in found[r] \/ InWalk(s, k) => k \in found'[r] \/ InWalk(u, k)
      PROVE  Served(r)'
  <2>1. Undeleted(r)'
    BY <1>1, <1>7, <1>9 DEF Undeleted
  <2>2. Listed(r)'
    BY <1>1, <1>2, <1>7, <1>9 DEF Listed
  <2> QED BY <1>9, <2>1, <2>2 DEF Served, Onward, Sent
<1>10. CASE WalkDir(r, e) /\ e \in dirs
  <2>1. e \in Parts /\ at' = at /\ found' = found /\ walk'[r] = Append(t, Frame(e))
    BY <1>5, <1>10 DEF WalkDir, readVars, TypeInv, Walks
  <2>2. Frame(e) \in Frames /\ Frame(e).left = {k \in Present : <<k[1]>> = e}
    BY <2>1, EntriesFacts DEF TypeInv, Frame
  <2>3. PICK f \in Frames : f = Frame(e)
    BY <2>2
  <2>4. \A F : LeftIn(s, F) /\ Present \subseteq F => LeftIn(Append(t, f), F)
    BY <1>6, <2>2, <2>3, DeeperLeft
  <2>5. ASSUME NEW k \in calm[r], InWalk(s, k) PROVE InWalk(Append(t, f), k)
    <3>1. k # e
      BY <1>8, <2>1, FilesAndParts
    <3>2. CASE <<k[1]>> = e
      BY <1>8, <2>2, <2>3, <3>2, DeeperLeft
    <3>3. CASE <<k[1]>> # e
      BY <1>6, <2>5, <3>1, <3>3, DeeperLeft
    <3> QED BY <3>2, <3>3
  <2> QED BY <1>2, <1>9, <2>1, <2>3, <2>4, <2>5
<1>11. CASE WalkDir(r, e) /\ e \notin dirs
  <2>1. e \in Parts /\ at' = at /\ found' = found /\ walk'[r] = t /\ kind # "s3"
    BY <1>2, <1>5, <1>11 DEF WalkDir, readVars, TypeInv, Walks, Places
  <2>2. ASSUME NEW k \in calm[r] PROVE k # e /\ <<k[1]>> # e
    <3>1. k # e
      BY <1>8, <2>1, FilesAndParts
    <3>2. <<k[1]>> \in dirs
      BY <1>8, <2>1 DEF TypeInv, Tree
    <3> QED BY <1>11, <3>1, <3>2
  <2> QED BY <1>2, <1>6, <1>9, <2>1, <2>2
<1>12. CASE WalkFile(r, e) /\ ~(kind = "local" /\ file[e] = Nothing)
  <2>1. e \in Files /\ at' = at /\ found'[r] = found[r] \cup {e} /\ walk'[r] = t
    BY <1>5, <1>12 DEF WalkFile, TypeInv, Walks, Answers
  <2>2. \A k \in calm[r] : <<k[1]>> # e
    BY <1>8, <2>1, DirNames, FilesAndParts
  <2> QED BY <1>2, <1>6, <1>9, <2>1, <2>2
<1>13. CASE WalkFile(r, e) /\ kind = "local" /\ file[e] = Nothing
  <2>1. at'[r] \in {"omitted", "failed"}
    BY <1>13 DEF WalkFile, TypeInv, Control
  <2>2. \E x \in Deleters : at[x] # "idle"
    <3> SUFFICES ASSUME \A x \in Deleters : at[x] = "idle" PROVE FALSE
      OBVIOUS
    <3>1. LeftIn(s, Present) /\ e \in Files /\ e \notin Present
      BY <1>7, <1>13 DEF WalkFile, Present
    <3>2. Len(s) \in Nat \ {0} /\ Last(s) = s[Len(s)]
      BY <1>3, WalkFacts
    <3>3. Len(s) \in 1..Len(s)
      BY <3>2
    <3> QED BY <1>2, <1>3, <3>1, <3>2, <3>3 DEF LeftIn
  <2>3. kind' = "local" /\ \E x \in Deleters : at'[x] # "idle"
    BY <1>1, <1>13, <2>2
  <2> QED BY <2>1, <2>3 DEF Served, Onward, Undeleted, Listed, Sent
<1> QED BY <1>10, <1>11, <1>12, <1>13

LEMMA ServedUp ==
  ASSUME ReadInv, NEW r \in Readers, WalkUp(r)
  PROVE  Served(r)'
<1> r \in Callers
  BY DEF Callers
<1> USE DEF ReadInv
<1>0. Read(r) /\ ~Begin(r)
  BY DEF Read, WalkUp, Begin, BeginRead, Goto
<1>1. /\ UNCHANGED <<kind, dirs, file, version, calm, job>> /\ Present' = Present
      /\ \A x \in Deleters : at'[x] = at[x]
  BY <1>0, SameWorld
<1>2. at[r] = "walk" /\ Last(walk[r]).left = {} /\ UNCHANGED <<found, bad>>
  BY DEF WalkUp, readVars
<1>3. PICK s \in Seq(Frames) : s = walk[r] /\ s # <<>>
  BY <1>2 DEF TypeInv, Walks
<1>4. /\ (\A x \in Deleters : at[x] = "idle") => LeftIn(s, Present)
      /\ ~bad[r] => \A k \in calm[r] : k \in found[r] \/ InWalk(s, k)
  BY <1>2, <1>3 DEF Served, Undeleted, Listed
<1>5. walk'[r] = Front(s)
  BY <1>3 DEF WalkUp, TypeInv, Walks
<1>6. /\ \A F : LeftIn(s, F) => LeftIn(Front(s), F)
      /\ \A k : InWalk(s, k) => Front(s) # <<>> /\ InWalk(Front(s), k)
  BY <1>2, <1>3, OutLeft
<1>7. CASE Front(s) = <<>>
  <2>1. at'[r] = AfterList(r, found'[r])
    BY <1>2, <1>5, <1>7 DEF WalkUp, TypeInv, Control
  <2>2. bad[r] \/ calm[r] \subseteq found'[r]
    BY <1>2, <1>4, <1>6, <1>7
  <2> QED BY <1>0, <1>2, <2>1, <2>2, AfterServed
<1>8. CASE Front(s) # <<>>
  <2>1. at' = at
    BY <1>5, <1>8 DEF WalkUp
  <2>2. Undeleted(r)'
    BY <1>1, <1>4, <1>5, <1>6 DEF Undeleted
  <2>3. Listed(r)'
    BY <1>1, <1>2, <1>4, <1>5, <1>6, <2>1 DEF Listed
  <2> QED BY <1>2, <2>1, <2>2, <2>3 DEF Served, Onward, Sent
<1> QED BY <1>7, <1>8

LEMMA ServedPages ==
  ASSUME ReadInv, NEW r \in Readers, NextKeys(r)
  PROVE  Served(r)'
<1> r \in Callers
  BY DEF Callers
<1> USE DEF ReadInv
<1>0. Read(r) /\ ~Begin(r)
  BY DEF Read, NextKeys, Begin, BeginRead, Goto
<1>1. UNCHANGED <<calm, bad>>
  BY <1>0, SameWorld DEF NextKeys
<1>2. at[r] = "pages" /\ found'[r] = found[r] \cup PageOf(r)
  BY DEF NextKeys, Goto, TypeInv, Answers
<1>3. calm[r] \subseteq Present /\ Present \subseteq Files
  BY DEF Calm, Present
<1>4. bad[r] \/ calm[r] \subseteq found[r] \cup Rest(r)
  BY <1>2, <1>3, PageFacts DEF Served, Listed
<1>5. CASE More(r)
  <2>1. at'[r] = "pages" /\ PageOf(r) # {}
    BY <1>5, PageFacts DEF NextKeys, Goto, TypeInv, Control, More
  <2>2. after'[r] = LastOf(PageOf(r))
    BY <2>1 DEF NextKeys, TypeInv, Answers
  <2>3. \A k \in Rest(r) : k \in PageOf(r) \/ Before(after'[r], k)
    BY <2>1, <2>2, PageFacts
  <2>4. Rest(r) \subseteq Files
    BY <1>3 DEF Rest
  <2>5. Rest(r) \subseteq PageOf(r) \cup Beyond(r)'
    BY <2>3, <2>4 DEF Beyond
  <2>6. ~bad'[r] => calm'[r] \subseteq found'[r] \cup Beyond(r)'
    BY <1>1, <1>2, <1>4, <2>5
  <2> QED BY <2>1, <2>6 DEF Served, Onward, Undeleted, Listed, Sent
<1>6. CASE ~More(r)
  <2>1. at'[r] = AfterList(r, found'[r])
    BY <1>2, <1>6 DEF NextKeys, Goto, TypeInv, Control
  <2>2. bad[r] \/ calm[r] \subseteq found'[r]
    BY <1>2, <1>4, <1>6 DEF More
  <2> QED BY <1>0, <1>1, <2>1, <2>2, AfterServed
<1> QED BY <1>5, <1>6

LEMMA ServedBreaks ==
  ASSUME ReadInv, NEW r \in Readers, ListingBreaks(r)
  PROVE  Served(r)'
<1> r \in Callers
  BY DEF Callers
<1> USE DEF ReadInv
<1>0. Read(r) /\ ~Begin(r)
  BY DEF Read, ListingBreaks, Begin, BeginRead, Goto
<1>1. UNCHANGED <<kind, job>> /\ Present' = Present /\ \A x \in Deleters : at'[x] = at[x]
  BY <1>0, SameWorld
<1>2. bad'[r] /\ at[r] \in {"list", "root", "walk", "pages"}
  BY DEF ListingBreaks, TypeInv, History
<1>3. Listed(r)' /\ Sent(r)'
  BY <1>2 DEF Listed, Sent
<1>4. CASE at'[r] \in {"omitted", "failed", "listed"}
  BY <1>3, <1>4 DEF Served, Onward, Undeleted
<1>5. CASE at[r] = "root" /\ at'[r] = AfterList(r, {})
  BY <1>4, <1>5 DEF AfterList
<1>6. ASSUME at[r] = "walk", at' = at,
             NEW S \in SUBSET Last(walk[r]).left,
             walk' = [walk EXCEPT ![r] = Append(Front(@), [Last(@) EXCEPT !.left = S])]
      PROVE  Served(r)'
  <2>1. walk'[r] = Leaving(walk[r], S)
    BY <1>6 DEF Leaving, TypeInv, Walks
  <2>2. walk[r] \in Seq(Frames) /\ walk[r] # <<>>
    BY <1>6 DEF TypeInv, Walks
  <2>3. \A F : LeftIn(walk[r], F) => LeftIn(walk'[r], F)
    BY <2>1, <2>2, LeavingLeft
  <2>4. Undeleted(r)'
    BY <1>1, <1>6, <2>3 DEF Served, Undeleted
  <2> QED BY <1>3, <1>6, <2>4 DEF Served, Onward
<1>7. CASE at' = [at EXCEPT ![r] = IF job[r] = "list" /\ at[r] # "list" THEN "omitted" ELSE "failed"]
  <2>1. at'[r] \in {"omitted", "failed"}
    BY <1>7 DEF TypeInv, Control
  <2> QED BY <1>4, <2>1
<1>8. CASE kind = "sftp" /\ at[r] = "root" /\ at' = [at EXCEPT ![r] = AfterList(r, {})]
  BY <1>5, <1>8 DEF TypeInv, Control
<1> QED BY <1>6, <1>7, <1>8 DEF ListingBreaks

LEMMA ServedOpen ==
  ASSUME ReadInv, NEW r \in Readers, NEW k \in Files, Open(r, k)
  PROVE  Served(r)'
<1> r \in Callers
  BY DEF Callers
<1> USE DEF ReadInv
<1>0. Read(r) /\ ~Begin(r)
  BY DEF Read, Open, Begin, BeginRead, Goto
<1>1. UNCHANGED <<kind, file, version, calm, job>> /\ Untouched(r)' = Untouched(r)
  BY <1>0, SameWorld
<1>2. at[r] = "read" /\ at'[r] = "copy" /\ UNCHANGED <<found, body, bad>> /\ First(found[r], k)
  BY DEF Open, Goto, readVars, TypeInv, Control
<1>3. PICK h : h = hold'[r]
  OBVIOUS
<1>4. h.of = file[k] /\ h.was = version[file[k]]
  BY <1>3 DEF Open, TypeInv, Places, Store
<1>5. ASSUME NEW l \in calm[r], First(found[r], l) PROVE l = k
  BY <1>2, <1>5, FirstIsOne DEF TypeInv, Answers
<1>6. \A l \in calm'[r] : First(found'[r], l) => hold'[r].of = file'[l] /\ hold'[r].was = version'[file'[l]]
  BY <1>1, <1>2, <1>3, <1>4, <1>5
<1>7. Sent(r)'
  BY <1>1, <1>2, <1>6 DEF Served, Sent
<1> QED BY <1>1, <1>2, <1>7 DEF Served, Onward, Undeleted, Listed

LEMMA ServedSkip ==
  ASSUME ReadInv, NEW r \in Readers, NEW k \in Files, Skip(r, k)
  PROVE  Served(r)'
<1> r \in Callers
  BY DEF Callers
<1> USE DEF ReadInv
<1>0. Read(r) /\ ~Begin(r)
  BY DEF Read, Skip, Begin, BeginRead, Goto
<1>1. UNCHANGED <<kind, file, version, calm, job>> /\ Untouched(r)' = Untouched(r)
  BY <1>0, SameWorld
<1>2. at[r] = "read" /\ found'[r] = found[r] \ {k} /\ body' = body /\ job[r] # "list"
  BY DEF Skip, TypeInv, Answers, Served, Onward
<1>3. bad'[r] \/ (bad'[r] = bad[r] /\ file[k] = Nothing)
  BY DEF Skip, TypeInv, History
<1>4. bad'[r] \/ (~bad[r] /\ k \notin Untouched(r))
  BY <1>3 DEF Calm, Present, Untouched, TypeInv, History
<1>5. CASE job[r] = "zip"
  <2>1. at'[r] = "read"
    BY <1>2, <1>5 DEF Skip
  <2>2. Sent(r)'
    BY <1>1, <1>2, <1>4, <1>5, <2>1 DEF Served, Sent
  <2> QED BY <1>1, <1>2, <2>1, <2>2 DEF Served, Onward, Undeleted, Listed
<1>6. CASE job[r] # "zip"
  <2>1. at'[r] = "failed"
    BY <1>6 DEF Skip, TypeInv, Control
  <2> QED BY <1>1, <1>2, <1>6, <2>1 DEF Served, Onward, Undeleted, Listed, Sent
<1> QED BY <1>5, <1>6

LEMMA ServedCopy ==
  ASSUME ReadInv, NEW r \in Readers, NEW k \in Files, Copy(r, k)
  PROVE  Served(r)'
<1> r \in Callers
  BY DEF Callers
<1> USE DEF ReadInv
<1>0. Read(r) /\ ~Begin(r)
  BY DEF Read, Copy, Begin, BeginRead, Goto
<1>1. UNCHANGED <<kind, file, version, calm, job>> /\ Untouched(r)' = Untouched(r)
  BY <1>0, SameWorld
<1>2. at[r] = "copy" /\ found'[r] = found[r] \ {k} /\ First(found[r], k) /\ job[r] # "list"
  BY DEF Copy, Goto, TypeInv, Answers, Served, Onward
<1>3. PICK b : body' = [body EXCEPT ![r][k] = b]
  BY DEF Copy
<1>4. body'[r][k] = b /\ \A l \in Files \ {k} : body'[r][l] = body[r][l]
  BY <1>3 DEF TypeInv, Answers
<1>5. bad'[r] \/ (bad' = bad /\ (k \in Untouched(r) => body'[r][k] = "whole"))
  <2>1. CASE bad' = [bad EXCEPT ![r] = TRUE]
    BY <2>1 DEF TypeInv, History
  <2>2. CASE bad' = bad /\ ~bad[r] /\ k \in Untouched(r)
    <3>1. hold[r].of = file[k] /\ hold[r].was = version[file[k]] /\ IsWhole(version[file[k]])
      BY <1>2, <2>2 DEF Served, Sent, Untouched
    <3>2. PICK now : now = version[hold[r].of]
      OBVIOUS
    <3>3. now = hold[r].was /\ IsWhole(now)
      BY <3>1, <3>2
    <3>4. body' = [body EXCEPT ![r][k] = "whole"] \/ bad' = [bad EXCEPT ![r] = TRUE]
      BY <3>2, <3>3 DEF Copy
    <3> QED BY <2>1, <2>2, <3>4 DEF TypeInv, Answers
  <2>3. CASE bad' = bad /\ (bad[r] \/ k \notin Untouched(r))
    BY <2>3
  <2>4. bad' = bad \/ bad' = [bad EXCEPT ![r] = TRUE]
    BY DEF Copy
  <2> QED BY <2>1, <2>2, <2>3, <2>4
<1>6. CASE job[r] = "zip"
  <2>1. at'[r] = "read"
    BY <1>6 DEF Copy, Goto, TypeInv, Control
  <2>2. ~bad'[r] => \A l \in Untouched(r) : l \in found'[r] \/ body'[r][l] = "whole"
    <3> SUFFICES ASSUME ~bad'[r], NEW l \in Untouched(r) PROVE l \in found'[r] \/ body'[r][l] = "whole"
      OBVIOUS
    <3>1. l \in found[r] \/ body[r][l] = "whole"
      BY <1>2, <1>5, <1>6 DEF Served, Sent
    <3>2. l \in Files
      BY DEF Untouched, TypeInv, History
    <3> QED BY <1>2, <1>4, <1>5, <3>1, <3>2
  <2>3. Sent(r)'
    BY <1>1, <2>1, <2>2 DEF Sent
  <2> QED BY <1>1, <1>2, <2>1, <2>3 DEF Served, Onward, Undeleted, Listed
<1>7. CASE job[r] # "zip"
  <2>1. at'[r] = "sent"
    BY <1>7 DEF Copy, Goto, TypeInv, Control
  <2> QED BY <1>1, <1>7, <2>1 DEF Served, Onward, Undeleted, Listed, Sent
<1> QED BY <1>6, <1>7

LEMMA ServedStep ==
  ASSUME ReadInv, [Next]_vars, NEW r \in Readers
  PROVE  Served(r)'
<1>1. CASE ~Read(r)
  BY <1>1, ServedWaits
<1>2. CASE Begin(r)
  BY <1>2, ServedBegin
<1>3. CASE ListDates(r) \/ WalkRoot(r)
  BY <1>3, ServedRoot
<1>4. CASE \E e \in Files \cup Parts : WalkDir(r, e) \/ WalkFile(r, e)
  BY <1>4, ServedWalk
<1>5. CASE WalkUp(r)
  BY <1>5, ServedUp
<1>6. CASE NextKeys(r)
  BY <1>6, ServedPages
<1>7. CASE ListingBreaks(r)
  BY <1>7, ServedBreaks
<1>8. CASE \E k \in Files : Open(r, k) \/ Skip(r, k) \/ Copy(r, k)
  BY <1>8, ServedOpen, ServedSkip, ServedCopy
<1>9. CASE CloseZip(r)
  <2>1. Read(r) /\ ~Begin(r)
    BY <1>9 DEF Read, CloseZip, Begin, BeginRead, Goto
  <2>2. /\ UNCHANGED <<job, bad, body>> /\ Untouched(r)' = Untouched(r)
        /\ found[r] = {} /\ at[r] = "read" /\ at'[r] = "sent"
    BY <1>9, <2>1, SameWorld DEF CloseZip, Goto, readVars, ReadInv, TypeInv, Control, Callers
  <2> QED BY <2>2 DEF ReadInv, Served, Onward, Undeleted, Listed, Sent
<1> QED BY <1>1, <1>2, <1>3, <1>4, <1>5, <1>6, <1>7, <1>8, <1>9 DEF Read

LEMMA ReadInvariant == Spec => []ReadInv
<1>1. Init => ReadInv
  <2> SUFFICES ASSUME Init PROVE ReadInv
    OBVIOUS
  <2>1. TypeInv /\ Lead
    BY TornInit DEF TornInv
  <2>2. Calm /\ \A r \in Readers : Served(r)
    BY DEF Init, Calm, Callers, Served, Onward, Undeleted, Listed, Sent
  <2> QED BY <2>1, <2>2 DEF ReadInv
<1>2. ReadInv /\ [Next]_vars => ReadInv'
  <2> SUFFICES ASSUME ReadInv, [Next]_vars PROVE ReadInv'
    OBVIOUS
  <2>1. TypeInv' /\ Lead'
    BY TypeStep, LeadStep DEF ReadInv
  <2>2. Calm'
    BY CalmStep DEF ReadInv
  <2>3. \A r \in Readers : Served(r)'
    BY ServedStep
  <2> QED BY <2>1, <2>2, <2>3 DEF ReadInv
<1> QED BY <1>1, <1>2, PTL DEF Spec

(* A reader misses no file that was left alone: a listing has them all, an    *)
(* archive has them all and whole, and only on local can a Delete that has    *)
(* begun fail either.                                                         *)
THEOREM ReadCorrect == Spec => []UntouchedIsRead
<1>1. ReadInv => UntouchedIsRead
  <2> SUFFICES ASSUME ReadInv, NEW r \in Readers, ~bad[r]
      PROVE  /\ at[r] = "listed" => Untouched(r) \subseteq found[r]
             /\ at[r] = "sent" /\ job[r] = "zip" => \A k \in Untouched(r) : body[r][k] = "whole"
             /\ at[r] \in {"omitted", "failed"} /\ job[r] \in {"list", "zip"} =>
                  Untouched(r) = {} \/ (kind = "local" /\ \E x \in Deleters : at[x] # "idle")
    BY DEF UntouchedIsRead
  <2>1. Untouched(r) \subseteq calm[r]
    BY DEF Untouched
  <2> QED BY <2>1 DEF ReadInv, Served, Listed, Sent
<1> QED BY <1>1, ReadInvariant, PTL

-------------------------------------------------------------------------------
(* Two passes over one date                                                   *)

(* Nobody writes and no call breaks down: only deletions change the date.     *)
Quiet == (\A w \in Writers : at[w] = "idle") /\ breaks = 0

(* Where a deletion is in the tree: the parts it has still to enter, the      *)
(* directory it is in, and, inside a part, the files it has still to remove.  *)
LeftParts(x) == walk[x][1].left
InDir(x)     == Last(walk[x]).dir
LeftFiles(x) == IF Len(walk[x]) = 1 THEN {} ELSE Last(walk[x]).left

Shape(x) ==
  /\ Len(walk[x]) \in {1, 2}
  /\ LeftParts(x) \subseteq Parts
  /\ Len(walk[x]) = 2 => InDir(x) \in Parts
  /\ LeftFiles(x) \subseteq {k \in Files : <<k[1]>> = InDir(x)}

LEMMA PartOrder ==
  /\ \A p \in Parts : ~Before(p, p)
  /\ \A p, q \in Parts : Before(p, q) => ~Before(q, p)
<1>1. ASSUME NEW p \in Parts, NEW q \in Parts PROVE Before(p, q) <=> p[1] < q[1]
  <2>1. PICK a, b \in Nat : p = <<a>> /\ q = <<b>>
    BY FilesAssumption DEF Parts
  <2>2. Len(p) = 1 /\ p[1] = a /\ q[1] = b
    BY <2>1
  <2>3. (\A i \in 1..1 : i = 1) /\ 1 \in 1..1 /\ 1..(1 - 1) = {}
    OBVIOUS
  <2> QED BY <2>2, <2>3 DEF Before
<1>2. \A p \in Parts : p[1] \in Nat
  BY FilesAssumption DEF Parts
<1>3. \A p, q \in Parts : p[1] < q[1] => ~(q[1] < p[1])
  BY <1>2
<1>4. \A p \in Parts : ~(p[1] < p[1])
  BY <1>2
<1> QED BY <1>1, <1>3, <1>4

LEMMA ShapeFacts ==
  ASSUME TypeInv, NEW x \in Deleters, at[x] = "delete", Shape(x)
  PROVE  /\ walk[x] \in Seq(Frames) /\ walk[x] # <<>> /\ kind # "s3"
         /\ Len(walk[x]) = 1 \/ Len(walk[x]) = 2
         /\ Len(walk[x]) = 1 => InDir(x) = Date /\ Last(walk[x]).left = LeftParts(x) /\ LeftFiles(x) = {}
         /\ Len(walk[x]) = 2 => InDir(x) \in Parts /\ InDir(x) # Date /\ Last(walk[x]).left = LeftFiles(x)
<1>1. walk[x] \in Seq(Frames) /\ walk[x] # <<>> /\ kind # "s3" /\ walk[x][1].dir = Date
  BY DEF TypeInv, Walks, Places, Callers
<1>2. Len(walk[x]) = 1 \/ Len(walk[x]) = 2
  BY DEF Shape
<1>3. Last(walk[x]) = walk[x][Len(walk[x])]
  BY <1>1, WalkFacts
<1>4. Date \notin Parts
  BY DirNames
<1> QED BY <1>1, <1>2, <1>3, <1>4 DEF InDir, LeftParts, LeftFiles, Shape

(* What a deletion stands before after its step.                              *)
Stands(x, L, d, K) ==
  at'[x] = "delete" /\ Shape(x)' /\ LeftParts(x)' = L /\ InDir(x)' = d /\ LeftFiles(x)' = K

LEMMA StandsAt ==
  ASSUME NEW x, at'[x] = "delete", NEW s \in Seq(Frames), walk'[x] = s,
         Len(s) = 1 \/ Len(s) = 2, NEW L \in SUBSET Parts, s[1].left = L,
         NEW d \in {Date} \cup Parts, s[Len(s)].dir = d,
         NEW K \in SUBSET Files, \A k \in K : <<k[1]>> = d,
         Len(s) = 1 => K = {}, Len(s) = 2 => s[2].left = K /\ d \in Parts
  PROVE  Stands(x, L, d, K)
<1>1. s # <<>>
  OBVIOUS
<1>2. Last(s) = s[Len(s)]
  BY <1>1, WalkFacts
<1> QED BY <1>2 DEF Stands, Shape, LeftParts, InDir, LeftFiles

LEMMA StandsPast ==
  ASSUME TypeInv, NEW x \in Deleters, at[x] = "delete", Shape(x), NEW e,
         at'[x] = "delete", walk'[x] = Past(x, e)
  PROVE  /\ Len(walk[x]) = 1 => Stands(x, LeftParts(x) \ {e}, Date, {})
         /\ Len(walk[x]) = 2 => Stands(x, LeftParts(x), InDir(x), LeftFiles(x) \ {e})
<1> x \in Callers
  BY DEF Callers
<1>1. PICK s \in Seq(Frames) : s = walk[x] /\ s # <<>> /\ (Len(s) = 1 \/ Len(s) = 2) /\ s[1].dir = Date
  BY ShapeFacts DEF TypeInv, Walks
<1>2. PICK S \in SUBSET (Files \cup Parts) : S = Last(s).left \ {e}
  <2>1. Last(s) \in Frames
    BY <1>1, WalkFacts
  <2> QED BY <2>1 DEF Frames
<1>3. PICK t \in Seq(Frames) : t = Past(x, e) /\ t = Leaving(s, S)
  BY <1>1, <1>2, PastFacts DEF TypeInv
<1>4. /\ Len(t) = Len(s)
      /\ \A i \in 1..Len(s) : t[i] = [dir |-> s[i].dir, left |-> IF i = Len(s) THEN S ELSE s[i].left]
  <2>1. /\ Len(Leaving(s, S)) = Len(s)
        /\ \A i \in 1..Len(s) : Leaving(s, S)[i] = [dir |-> s[i].dir, left |-> IF i = Len(s) THEN S ELSE s[i].left]
    BY <1>1, LeavingFacts
  <2> QED BY <1>3, <2>1
<1>5. CASE Len(s) = 1
  <2>1. t[1] = [dir |-> s[1].dir, left |-> S]
    BY <1>4, <1>5
  <2>2. S = LeftParts(x) \ {e} /\ LeftParts(x) \subseteq Parts
    BY <1>1, <1>2, <1>5, ShapeFacts DEF Shape
  <2>3. t[1].left = LeftParts(x) \ {e} /\ t[1].dir = Date /\ LeftParts(x) \ {e} \in SUBSET Parts
    BY <1>1, <2>1, <2>2
  <2>4. PICK L \in SUBSET Parts : L = LeftParts(x) \ {e}
    BY <2>3
  <2>5. walk'[x] = t /\ Len(t) = 1 /\ t[1].left = L /\ t[Len(t)].dir = Date
    BY <1>3, <1>4, <1>5, <2>3, <2>4
  <2>6. PICK K \in SUBSET Files : K = {}
    OBVIOUS
  <2>7. PICK d \in {Date} \cup Parts : d = Date
    OBVIOUS
  <2>8. Len(t) = 1 /\ t[1].left = L /\ t[Len(t)].dir = d /\ K = {} /\ Len(t) # 2
    BY <2>5, <2>6, <2>7
  <2>9. Stands(x, L, d, K)
    BY <2>5, <2>8, StandsAt
  <2> QED BY <1>1, <1>5, <2>4, <2>6, <2>7, <2>9
<1>6. CASE Len(s) = 2
  <2>1. 1 \in 1..Len(s) /\ 2 \in 1..Len(s) /\ 1 # Len(s) /\ 2 = Len(s)
    BY <1>6
  <2>2. InDir(x) \in Parts /\ Last(s).left = LeftFiles(x)
    BY <1>1, <1>6, ShapeFacts
  <2>3. PICK d \in Parts : d = InDir(x)
    BY <2>2
  <2>4. Last(s) = s[2]
    BY <1>1, <1>6, WalkFacts
  <2>5. s[2].dir = d
    BY <1>1, <2>3, <2>4 DEF InDir
  <2>6. t[1] = [dir |-> s[1].dir, left |-> s[1].left] /\ t[2] = [dir |-> s[2].dir, left |-> S]
    BY <1>4, <2>1
  <2>7. t[1].left = s[1].left /\ t[2].left = S /\ t[2].dir = d
    BY <2>5, <2>6
  <2>8. PICK L \in SUBSET Parts : L = LeftParts(x) /\ L = s[1].left
    BY <1>1 DEF Shape, LeftParts
  <2>9. PICK K \in SUBSET Files : K = LeftFiles(x) \ {e} /\ K = S /\ \A k \in K : <<k[1]>> = d
    <3>1. S = LeftFiles(x) \ {e}
      BY <1>1, <1>2, <2>2
    <3>2. LeftFiles(x) \subseteq Files /\ \A k \in LeftFiles(x) : <<k[1]>> = d
      BY <2>3 DEF Shape
    <3> QED BY <3>1, <3>2
  <2>10. walk'[x] = t /\ Len(t) = 2 /\ t[1].left = L /\ t[Len(t)].dir = d /\ t[2].left = K
    BY <1>3, <1>4, <1>6, <2>7, <2>8, <2>9
  <2>11. Len(t) = 2 /\ Len(t) # 1 /\ d \in {Date} \cup Parts /\ \A k \in K : <<k[1]>> = d
    BY <2>9, <2>10
  <2>12. Stands(x, L, d, K)
    BY <2>10, <2>11, StandsAt
  <2> QED BY <1>1, <1>6, <2>3, <2>8, <2>9, <2>12
<1> QED BY <1>1, <1>5, <1>6

(* What is still there is still ahead of the deletion.                        *)
Course(x) ==
  /\ InDir(x) # Date => \A q \in LeftParts(x) : Before(InDir(x), q)
  /\ dirs \cap Parts \subseteq LeftParts(x) \cup {InDir(x)}
  /\ \A k \in Present : <<k[1]>> \in LeftParts(x) \/ k \in LeftFiles(x)

(* Everything ahead of the deletion is still there: nothing can stop it.      *)
Accurate(x) ==
  Date \in dirs /\ InDir(x) \in dirs /\ LeftParts(x) \subseteq dirs /\ LeftFiles(x) \subseteq Present

(* The steps of a deletion when no call breaks down.                          *)
Enters(x, e) ==
  /\ InDir(x) = Date /\ First(LeftParts(x), e) /\ e \in dirs
  /\ Stands(x, LeftParts(x) \ {e}, e, Entries(e))
  /\ UNCHANGED <<dirs, file>>

PassesDir(x, e) ==
  /\ InDir(x) = Date /\ First(LeftParts(x), e) /\ e \notin dirs
  /\ Stands(x, LeftParts(x) \ {e}, Date, {})
  /\ UNCHANGED <<dirs, file>>

Removes(x, e) ==
  /\ InDir(x) \in Parts /\ First(LeftFiles(x), e) /\ e \in Present
  /\ Stands(x, LeftParts(x), InDir(x), LeftFiles(x) \ {e})
  /\ dirs' = dirs /\ file' = [file EXCEPT ![e] = Nothing]

PassesFile(x, e) ==
  /\ InDir(x) \in Parts /\ First(LeftFiles(x), e) /\ e \notin Present
  /\ Stands(x, LeftParts(x), InDir(x), LeftFiles(x) \ {e})
  /\ UNCHANGED <<dirs, file>>

Rises(x) ==
  /\ InDir(x) \in Parts /\ LeftFiles(x) = {}
  /\ Stands(x, LeftParts(x), Date, {})
  /\ dirs' = dirs \ {InDir(x)} /\ file' = file

Ends(x) == at'[x] # "delete" /\ dirs' = dirs \ {Date} /\ file' = file

Stops(x) == at'[x] # "delete" /\ ~Accurate(x) /\ UNCHANGED <<dirs, file>>

Moves(x) ==
  \/ \E e \in Parts : Enters(x, e) \/ PassesDir(x, e)
  \/ \E e \in Files : Removes(x, e) \/ PassesFile(x, e)
  \/ Rises(x) \/ Ends(x) \/ Stops(x)

LEMMA MovesDir ==
  ASSUME TypeInv, NEW x \in Deleters, NEW e \in Files \cup Parts, DeleteDir(x, e), Shape(x)
  PROVE  Moves(x)
<1> x \in Callers
  BY DEF Callers
<1>1. at[x] = "delete" /\ First(Last(walk[x]).left, e) /\ e \in Parts
  BY DEF DeleteDir, Comes
<1>2. Len(walk[x]) = 1
  <2> SUFFICES ASSUME Len(walk[x]) = 2 PROVE FALSE
    BY <1>1, ShapeFacts
  <2>1. e \in LeftFiles(x)
    BY <1>1, ShapeFacts DEF First
  <2>2. e \in Files
    BY <2>1 DEF Shape
  <2> QED BY <1>1, <2>2, FilesAndParts
<1>3. InDir(x) = Date /\ First(LeftParts(x), e) /\ walk[x] \in Seq(Frames) /\ walk[x] # <<>>
  BY <1>1, <1>2, ShapeFacts
<1>4. CASE e \in dirs
  <2>1. /\ walk'[x] = Append(Past(x, e), Frame(e)) /\ at' = at /\ UNCHANGED <<dirs, file>>
    BY <1>4 DEF DeleteDir, TypeInv, Walks
  <2>2. PICK S \in SUBSET (Files \cup Parts) : S = Last(walk[x]).left \ {e}
    <3>1. Last(walk[x]) \in Frames
      BY <1>3, WalkFacts
    <3> QED BY <3>1 DEF Frames
  <2>3. PICK t \in Seq(Frames) : t = Past(x, e) /\ t = Leaving(walk[x], S)
    BY <1>3, <2>2, PastFacts DEF TypeInv
  <2>4. Len(t) = 1 /\ t[1].left = S
    <3>1. /\ Len(Leaving(walk[x], S)) = 1
          /\ \A i \in 1..1 : Leaving(walk[x], S)[i] = [dir |-> walk[x][i].dir, left |-> IF i = 1 THEN S ELSE walk[x][i].left]
      BY <1>2, <1>3, LeavingFacts
    <3>2. t[1] = [dir |-> walk[x][1].dir, left |-> S]
      BY <2>3, <3>1
    <3> QED BY <2>3, <3>1, <3>2
  <2>5. PICK f \in Frames : f = Frame(e)
    BY <1>1, EntriesFacts DEF TypeInv
  <2>6. f.dir = e /\ f.left = Entries(e)
    BY <2>5 DEF Frame
  <2>7. PICK u \in Seq(Frames) : u = Append(t, f)
    BY DeeperFacts
  <2>8. Len(u) = 2 /\ u[1] = t[1] /\ u[2] = f
    <3>1. Len(u) = Len(t) + 1 /\ (\A i \in 1..Len(t) : u[i] = t[i]) /\ u[Len(t) + 1] = f
      BY <2>7, DeeperFacts
    <3> QED BY <2>4, <3>1
  <2>9. PICK L \in SUBSET Parts : L = LeftParts(x) \ {e} /\ L = S
    BY <1>1, <1>2, <2>2, ShapeFacts DEF Shape
  <2>10. PICK K \in SUBSET Files : K = Entries(e)
    BY <1>1, EntriesFacts DEF TypeInv, Present
  <2>11. \A k \in K : <<k[1]>> = e
    BY <1>1, <2>10, EntriesFacts DEF TypeInv
  <2>12. walk'[x] = u /\ at'[x] = "delete" /\ u[1].left = L /\ u[Len(u)].dir = e /\ u[2].left = K
    BY <1>1, <2>1, <2>3, <2>4, <2>5, <2>6, <2>7, <2>8, <2>9, <2>10
  <2>13. Len(u) # 1 /\ e \in {Date} \cup Parts
    BY <1>1, <2>8
  <2>14. Stands(x, L, e, K)
    BY <1>1, <2>8, <2>11, <2>12, <2>13, StandsAt
  <2> QED BY <1>1, <1>3, <1>4, <2>1, <2>9, <2>10, <2>14 DEF Enters, Moves
<1>5. CASE e \notin dirs /\ kind = "sftp"
  <2>1. at' = [at EXCEPT ![x] = "failed"] /\ UNCHANGED <<dirs, file>>
    BY <1>5 DEF DeleteDir, NotThere
  <2>2. at'[x] # "delete"
    BY <2>1 DEF TypeInv, Control
  <2>3. ~Accurate(x)
    BY <1>3, <1>5 DEF Accurate, First
  <2> QED BY <2>1, <2>2, <2>3 DEF Stops, Moves
<1>6. CASE e \notin dirs /\ kind # "sftp"
  <2>1. walk'[x] = Past(x, e) /\ at' = at /\ UNCHANGED <<dirs, file>>
    BY <1>6 DEF DeleteDir, NotThere, TypeInv, Walks
  <2>2. Stands(x, LeftParts(x) \ {e}, Date, {})
    BY <1>1, <1>2, <2>1, StandsPast
  <2> QED BY <1>1, <1>3, <1>6, <2>1, <2>2 DEF PassesDir, Moves
<1> QED BY <1>4, <1>5, <1>6

LEMMA MovesFile ==
  ASSUME TypeInv, NEW x \in Deleters, NEW e \in Files \cup Parts, DeleteFile(x, e), Shape(x)
  PROVE  Moves(x)
<1> x \in Callers
  BY DEF Callers
<1>1. at[x] = "delete" /\ First(Last(walk[x]).left, e) /\ e \in Files
  BY DEF DeleteFile, Comes
<1>2. Len(walk[x]) = 2
  <2> SUFFICES ASSUME Len(walk[x]) = 1 PROVE FALSE
    BY <1>1, ShapeFacts
  <2>1. e \in LeftParts(x)
    BY <1>1, ShapeFacts DEF First
  <2>2. e \in Parts
    BY <2>1 DEF Shape
  <2> QED BY <1>1, <2>2, FilesAndParts
<1>3. InDir(x) \in Parts /\ First(LeftFiles(x), e)
  BY <1>1, <1>2, ShapeFacts
<1>4. ASSUME at' = at, walk'[x] = Past(x, e)
      PROVE  Stands(x, LeftParts(x), InDir(x), LeftFiles(x) \ {e})
  BY <1>1, <1>2, <1>4, StandsPast
<1>5. CASE file[e] # Nothing
  <2>1. walk'[x] = Past(x, e) /\ at' = at /\ dirs' = dirs /\ file' = [file EXCEPT ![e] = Nothing]
    BY <1>5 DEF DeleteFile, TypeInv, Walks
  <2>2. e \in Present
    BY <1>1, <1>5 DEF Present
  <2> QED BY <1>1, <1>3, <1>4, <2>1, <2>2 DEF Removes, Moves
<1>6. CASE file[e] = Nothing /\ kind = "sftp"
  <2>1. at' = [at EXCEPT ![x] = "failed"] /\ UNCHANGED <<dirs, file>>
    BY <1>6 DEF DeleteFile, NotThere
  <2>2. at'[x] # "delete"
    BY <2>1 DEF TypeInv, Control
  <2>3. ~Accurate(x)
    BY <1>3, <1>6 DEF Accurate, First, Present
  <2> QED BY <2>1, <2>2, <2>3 DEF Stops, Moves
<1>7. CASE file[e] = Nothing /\ kind # "sftp"
  <2>1. walk'[x] = Past(x, e) /\ at' = at /\ UNCHANGED <<dirs, file>>
    BY <1>7 DEF DeleteFile, NotThere, TypeInv, Walks
  <2>2. e \notin Present
    BY <1>7 DEF Present
  <2> QED BY <1>1, <1>3, <1>4, <2>1, <2>2 DEF PassesFile, Moves
<1> QED BY <1>5, <1>6, <1>7

LEMMA MovesUp ==
  ASSUME TypeInv, NEW x \in Deleters, LeaveDir(x), Shape(x), Course(x)
  PROVE  Moves(x)
<1> x \in Callers
  BY DEF Callers
<1>1. at[x] = "delete" /\ Last(walk[x]).left = {} /\ file' = file
  BY DEF LeaveDir
<1>2. PICK dir : dir = InDir(x)
  OBVIOUS
<1>3. dir = Date \/ (dir \in Parts /\ dir # Date)
  BY <1>1, <1>2, ShapeFacts
<1>4. Entries(dir) = {}
  <2>1. CASE Len(walk[x]) = 1
    <3>1. dir = Date /\ LeftParts(x) = {}
      BY <1>1, <1>2, <2>1, ShapeFacts
    <3>2. Date \notin Parts /\ Entries(Date) = dirs \cap Parts
      BY DirNames, EntriesFacts DEF TypeInv
    <3> QED BY <1>2, <3>1, <3>2 DEF Course
  <2>2. CASE Len(walk[x]) = 2
    <3>1. dir \in Parts /\ dir # Date /\ LeftFiles(x) = {}
      BY <1>1, <1>2, <2>2, ShapeFacts
    <3>2. Entries(dir) = {k \in Present : <<k[1]>> = dir}
      BY <3>1, EntriesFacts DEF TypeInv
    <3>3. dir \notin LeftParts(x)
      BY <1>2, <3>1, PartOrder DEF Course
    <3> QED BY <3>1, <3>2, <3>3 DEF Course
  <2> QED BY <1>1, <2>1, <2>2, ShapeFacts
<1>5. PICK stop \in BOOLEAN :
        /\ stop <=> kind = "sftp" /\ dir \notin dirs
        /\ dirs' = dirs \ {dir}
        /\ walk' = [walk EXCEPT ![x] = IF stop THEN <<>> ELSE Front(@)]
        /\ at' = IF walk'[x] # <<>> THEN at ELSE [at EXCEPT ![x] = IF bad'[x] THEN "failed" ELSE "ok"]
  BY <1>2, <1>4 DEF LeaveDir, InDir
<1>6. CASE stop
  <2>1. walk'[x] = <<>> /\ dirs' = dirs
    BY <1>5, <1>6 DEF TypeInv, Walks
  <2>2. at'[x] # "delete"
    BY <1>5, <2>1 DEF TypeInv, Control
  <2>3. ~Accurate(x)
    BY <1>2, <1>5, <1>6 DEF Accurate
  <2> QED BY <1>1, <2>1, <2>2, <2>3 DEF Stops, Moves
<1>7. CASE ~stop /\ Len(walk[x]) = 1
  <2>1. dir = Date /\ walk[x] \in Seq(Frames) /\ walk[x] # <<>>
    BY <1>1, <1>2, <1>7, ShapeFacts
  <2>2. Front(walk[x]) = <<>>
    <3>1. Len(Front(walk[x])) = 0 /\ Front(walk[x]) \in Seq(Frames)
      BY <1>7, <2>1, WalkFacts
    <3> QED BY <3>1, EmptySeq
  <2>3. walk'[x] = <<>>
    BY <1>5, <1>7, <2>2 DEF TypeInv, Walks
  <2>4. at'[x] # "delete"
    BY <1>5, <2>3 DEF TypeInv, Control
  <2> QED BY <1>1, <1>5, <2>1, <2>4 DEF Ends, Moves
<1>8. CASE ~stop /\ Len(walk[x]) = 2
  <2>1. dir \in Parts /\ LeftFiles(x) = {} /\ walk[x] \in Seq(Frames) /\ walk[x] # <<>> /\ walk[x][1].dir = Date
    BY <1>1, <1>2, <1>8, ShapeFacts DEF TypeInv, Walks
  <2>2. PICK t \in Seq(Frames) : t = Front(walk[x])
    BY <2>1, WalkFacts
  <2>3. Len(t) = 1 /\ t[1] = walk[x][1] /\ t # <<>>
    <3>1. Len(t) = 2 - 1 /\ \A i \in 1..(2 - 1) : t[i] = walk[x][i]
      BY <1>8, <2>1, <2>2, WalkFacts
    <3>2. 2 - 1 = 1 /\ 1 \in 1..1
      OBVIOUS
    <3>3. Len(t) = 1 /\ t[1] = walk[x][1]
      BY <3>1, <3>2
    <3>4. t # <<>>
      BY <3>3
    <3> QED BY <3>3, <3>4
  <2>4. walk'[x] = t
    BY <1>5, <1>8, <2>2 DEF TypeInv, Walks
  <2>5. at'[x] = "delete"
    BY <1>1, <1>5, <2>3, <2>4
  <2>6. PICK L \in SUBSET Parts : L = LeftParts(x)
    BY DEF Shape
  <2>7. PICK K \in SUBSET Files : K = {}
    OBVIOUS
  <2>8. PICK d \in {Date} \cup Parts : d = Date
    OBVIOUS
  <2>9. Len(t) = 1 /\ t[1].left = L /\ t[Len(t)].dir = d /\ K = {} /\ Len(t) # 2
    BY <2>1, <2>3, <2>6, <2>7, <2>8 DEF LeftParts
  <2>10. Stands(x, L, d, K)
    BY <2>4, <2>5, <2>9, StandsAt
  <2> QED BY <1>1, <1>2, <1>5, <2>1, <2>6, <2>7, <2>8, <2>10 DEF Rises, Moves
<1> QED BY <1>1, <1>6, <1>7, <1>8, ShapeFacts

LEMMA MovesStep ==
  ASSUME TypeInv, NEW x \in Deleters, at[x] = "delete", Delete(x), breaks = 0, breaks' = 0, Shape(x), Course(x)
  PROVE  Moves(x)
<1>1. ~Break
  BY DEF Break
<1> QED BY <1>1, MovesDir, MovesFile, MovesUp
        DEF Delete, BeginDelete, DeleteList, DeleteBatch, BatchInPart, DeleteBreaks, Goto

(* What another has removed ahead of a deletion comes first: if something is  *)
(* there, so is all that follows.                                             *)
InOrder(x) ==
  /\ \A p, q \in LeftParts(x) : Before(p, q) /\ p \in dirs => q \in dirs
  /\ \A k, l \in LeftFiles(x) : Before(k, l) /\ k \in Present => l \in Present
  /\ InDir(x) \in dirs \cap Parts => LeftParts(x) \subseteq dirs

Way(x) == at[x] = "delete" => Shape(x) /\ Course(x) /\ InOrder(x)

Hope ==
  \/ Date \notin dirs
  \/ \E x \in Deleters : at[x] = "idle" \/ (at[x] = "delete" /\ Accurate(x))

LEMMA WayFacts ==
  ASSUME NEW x, at[x] = "delete", Way(x)
  PROVE  /\ LeftParts(x) \subseteq Parts
         /\ LeftFiles(x) \subseteq Files /\ \A k \in LeftFiles(x) : <<k[1]>> = InDir(x)
         /\ InDir(x) # Date => \A q \in LeftParts(x) : Before(InDir(x), q)
         /\ InDir(x) = Date => LeftFiles(x) = {}
<1>1. \A k \in Files : <<k[1]>> \in Parts
  BY DirNames
<1>2. Date \notin Parts
  BY DirNames
<1> QED BY <1>1, <1>2 DEF Way, Shape, Course

(* A file or a part that somebody removes was the first there was.            *)
LEMMA RemovedIsFirst ==
  ASSUME TypeInv, NEW x \in Deleters, at[x] = "delete", Way(x)
  PROVE  /\ \A e \in Files, k \in Present : Removes(x, e) /\ <<k[1]>> = <<e[1]>> => ~Before(k, e)
         /\ \A p \in dirs \cap Parts : InDir(x) \in Parts => ~Before(p, InDir(x))
<1>1. ASSUME NEW e \in Files, NEW k \in Present, Removes(x, e), <<k[1]>> = <<e[1]>>, Before(k, e)
      PROVE  FALSE
  <2>1. e \in LeftFiles(x) /\ InDir(x) \in Parts /\ \A f \in LeftFiles(x) \ {e} : Before(e, f)
    BY <1>1 DEF Removes, First
  <2>2. <<k[1]>> = InDir(x) /\ InDir(x) # Date
    BY <1>1, <2>1, WayFacts, DirNames
  <2>3. InDir(x) \notin LeftParts(x)
    BY <2>1, <2>2, WayFacts, PartOrder
  <2>4. k \in LeftFiles(x) /\ k \in Files
    BY <2>2, <2>3 DEF Way, Course, Present
  <2>5. k # e /\ ~(Before(e, k) /\ Before(k, e))
    BY <1>1, <2>4, BeforeOrder
  <2> QED BY <1>1, <2>1, <2>4, <2>5
<1>2. ASSUME NEW p \in dirs \cap Parts, InDir(x) \in Parts, Before(p, InDir(x)) PROVE FALSE
  <2>1. p # InDir(x) /\ ~Before(InDir(x), p)
    BY <1>2, PartOrder
  <2>2. InDir(x) # Date
    BY <1>2, DirNames
  <2> QED BY <2>1, <2>2 DEF Way, Course
<1> QED BY <1>1, <1>2

(* What a step does to the tree.                                              *)
LEMMA TreeShrinks ==
  ASSUME TypeInv, NEW x \in Deleters, Moves(x)
  PROVE  /\ dirs' \subseteq dirs /\ Present' \subseteq Present
         /\ \/ UNCHANGED <<dirs, file>>
            \/ \E e \in Files : Removes(x, e) /\ Present' = Present \ {e} /\ dirs' = dirs
            \/ Rises(x) /\ dirs' = dirs \ {InDir(x)} /\ InDir(x) \in Parts /\ Present' = Present
            \/ dirs' = dirs \ {Date} /\ Present' = Present
<1>1. ASSUME NEW e \in Files, Removes(x, e) PROVE Present' = Present \ {e} /\ dirs' = dirs
  BY <1>1 DEF Removes, Present, TypeInv, Store
<1>2. file' = file => Present' = Present
  BY DEF Present
<1> QED BY <1>1, <1>2 DEF Moves, Enters, PassesDir, PassesFile, Rises, Ends, Stops

LEMMA WayOther ==
  ASSUME TypeInv, NEW x \in Deleters, at[x] = "delete", Way(x), Moves(x),
         NEW y \in Deleters, at[y] = "delete", Way(y), at'[y] = at[y], walk'[y] = walk[y]
  PROVE  Way(y)'
<1>1. LeftParts(y)' = LeftParts(y) /\ InDir(y)' = InDir(y) /\ LeftFiles(y)' = LeftFiles(y) /\ Shape(y)'
  BY DEF LeftParts, InDir, LeftFiles, Way, Shape
<1>2. dirs' \subseteq dirs /\ Present' \subseteq Present
  BY TreeShrinks
<1>3. Course(y)'
  BY <1>1, <1>2 DEF Way, Course
<1>4. ASSUME NEW p \in LeftParts(y), NEW q \in LeftParts(y), Before(p, q), p \in dirs' PROVE q \in dirs'
  <2>1. p \in dirs /\ q \in dirs /\ p \in Parts /\ q \in Parts /\ q # Date
    BY <1>2, <1>4, WayFacts, DirNames DEF Way, InOrder
  <2>2. q # InDir(x)
    BY <1>4, <2>1, RemovedIsFirst
  <2> QED BY <2>1, <2>2, TreeShrinks
<1>5. ASSUME NEW k \in LeftFiles(y), NEW l \in LeftFiles(y), Before(k, l), k \in Present' PROVE l \in Present'
  <2>1. k \in Present /\ l \in Present /\ <<k[1]>> = <<l[1]>>
    BY <1>2, <1>5, WayFacts DEF Way, InOrder
  <2>2. \A e \in Files : Removes(x, e) => e # l
    BY <1>5, <2>1, RemovedIsFirst
  <2> QED BY <2>1, <2>2, TreeShrinks DEF Present
<1>6. ASSUME InDir(y) \in dirs' \cap Parts, NEW q \in LeftParts(y) PROVE q \in dirs'
  <2>1. InDir(y) \in dirs \cap Parts /\ q \in dirs /\ q \in Parts /\ q # Date
    BY <1>2, <1>6, WayFacts, DirNames DEF Way, InOrder
  <2>2. Before(InDir(y), q)
    BY <2>1, WayFacts, DirNames
  <2>3. q # InDir(x)
    BY <2>1, <2>2, RemovedIsFirst
  <2> QED BY <2>1, <2>3, TreeShrinks
<1>7. InOrder(y)'
  BY <1>1, <1>4, <1>5, <1>6 DEF InOrder
<1> QED BY <1>1, <1>3, <1>7 DEF Way

LEMMA WayMine ==
  ASSUME TypeInv, NEW x \in Deleters, at[x] = "delete", Way(x), Moves(x)
  PROVE  Way(x)'
<1> DEFINE Stood == at'[x] # "delete" \/ (Shape(x)' /\ Course(x)' /\ InOrder(x)')
<1>0. \A k \in Present : k \in Files /\ <<k[1]>> \in Parts /\ (kind # "s3" => <<k[1]>> \in dirs)
  BY DirNames DEF Present, TypeInv, Tree
<1>00. kind # "s3" /\ Date \notin Parts
  BY DirNames DEF TypeInv, Places, Callers
<1>1. ASSUME NEW e \in Parts, Enters(x, e) PROVE Stood
  <2>1. /\ LeftParts(x)' = LeftParts(x) \ {e} /\ InDir(x)' = e /\ LeftFiles(x)' = Entries(e) /\ Shape(x)'
        /\ dirs' = dirs /\ Present' = Present
    BY <1>1 DEF Enters, Stands, Present
  <2>2. /\ InDir(x) = Date /\ LeftFiles(x) = {} /\ e \in dirs
        /\ e \in LeftParts(x) /\ \A q \in LeftParts(x) \ {e} : Before(e, q)
    BY <1>1, WayFacts DEF Enters, First
  <2>3. Entries(e) = {k \in Present : <<k[1]>> = e}
    BY EntriesFacts DEF TypeInv
  <2>4. Course(x)'
    BY <1>0, <1>00, <2>1, <2>2, <2>3 DEF Way, Course
  <2>5. \A q \in LeftParts(x) \ {e} : q \in dirs
    BY <2>2 DEF Way, InOrder
  <2>6. InOrder(x)'
    BY <2>1, <2>2, <2>3, <2>5 DEF Way, InOrder
  <2> QED BY <2>1, <2>4, <2>6
<1>2. ASSUME NEW e \in Parts, PassesDir(x, e) PROVE Stood
  <2>1. /\ LeftParts(x)' = LeftParts(x) \ {e} /\ InDir(x)' = Date /\ LeftFiles(x)' = {} /\ Shape(x)'
        /\ dirs' = dirs /\ Present' = Present
    BY <1>2 DEF PassesDir, Stands, Present
  <2>2. InDir(x) = Date /\ LeftFiles(x) = {} /\ e \notin dirs
    BY <1>2, WayFacts DEF PassesDir
  <2>3. Course(x)'
    BY <1>0, <1>00, <2>1, <2>2 DEF Way, Course
  <2>4. InOrder(x)'
    BY <1>00, <2>1, <2>2 DEF Way, InOrder
  <2> QED BY <2>1, <2>3, <2>4
<1>3. ASSUME NEW e \in Files, Removes(x, e) \/ PassesFile(x, e) PROVE Stood
  <2>1. /\ LeftParts(x)' = LeftParts(x) /\ InDir(x)' = InDir(x) /\ LeftFiles(x)' = LeftFiles(x) \ {e} /\ Shape(x)'
        /\ dirs' = dirs
    BY <1>3 DEF Removes, PassesFile, Stands
  <2>2. Present' = Present \ {e}
    BY <1>3 DEF Removes, PassesFile, Present, TypeInv, Store
  <2>3. Course(x)'
    BY <2>1, <2>2 DEF Way, Course
  <2>4. InOrder(x)'
    BY <2>1, <2>2 DEF Way, InOrder
  <2> QED BY <2>1, <2>3, <2>4
<1>4. ASSUME Rises(x) PROVE Stood
  <2>1. /\ LeftParts(x)' = LeftParts(x) /\ InDir(x)' = Date /\ LeftFiles(x)' = {} /\ Shape(x)'
        /\ dirs' = dirs \ {InDir(x)} /\ Present' = Present
    BY <1>4 DEF Rises, Stands, Present
  <2>2. InDir(x) \in Parts /\ InDir(x) # Date /\ LeftFiles(x) = {}
    BY <1>00, <1>4 DEF Rises
  <2>3. Course(x)'
    BY <2>1, <2>2 DEF Way, Course
  <2>4. \A q \in LeftParts(x) : q # InDir(x)
    BY <2>2, WayFacts, PartOrder
  <2>5. InOrder(x)'
    BY <1>00, <2>1, <2>2, <2>4 DEF Way, InOrder
  <2> QED BY <2>1, <2>3, <2>5
<1>5. ASSUME Ends(x) \/ Stops(x) PROVE Stood
  BY <1>5 DEF Ends, Stops
<1>6. Stood
  <2> HIDE DEF Stood
  <2> QED BY <1>1, <1>2, <1>3, <1>4, <1>5 DEF Moves
<1> QED BY <1>6 DEF Way

(* A deletion that stands before nothing that has gone keeps standing so      *)
(* unless another removes something; then the other does.                     *)
LEMMA HopeStep ==
  ASSUME TypeInv, Hope, NEW x \in Deleters, at[x] = "delete", Way(x), Moves(x),
         \A y \in Deleters \ {x} : at'[y] = at[y] /\ walk'[y] = walk[y]
  PROVE  Hope'
<1>0. kind # "s3" /\ Date \notin Parts
  BY DirNames DEF TypeInv, Places, Callers
<1>1. CASE Date \notin dirs \/ Ends(x)
  BY <1>1, TreeShrinks DEF Hope, Ends
<1>2. ASSUME NEW e \in Files, Removes(x, e) PROVE Hope'
  <2>1. /\ LeftParts(x)' = LeftParts(x) /\ InDir(x)' = InDir(x) /\ LeftFiles(x)' = LeftFiles(x) \ {e}
        /\ dirs' = dirs /\ at'[x] = "delete"
    BY <1>2 DEF Removes, Stands
  <2>2. e \in Present /\ InDir(x) \in Parts /\ e \in LeftFiles(x) /\ \A f \in LeftFiles(x) \ {e} : Before(e, f)
    BY <1>2 DEF Removes, First
  <2>3. <<e[1]>> = InDir(x) /\ <<e[1]>> \in dirs
    BY <1>0, <2>2, WayFacts DEF TypeInv, Tree
  <2>4. Date \in dirs /\ InDir(x) \in dirs /\ LeftParts(x) \subseteq dirs
    BY <2>2, <2>3 DEF TypeInv, Tree, Way, InOrder
  <2>5. LeftFiles(x) \ {e} \subseteq Present
    BY <2>2 DEF Way, InOrder
  <2>6. Present' = Present \ {e}
    BY <1>2 DEF Removes, Present, TypeInv, Store
  <2>7. Accurate(x)'
    BY <2>1, <2>4, <2>5, <2>6 DEF Accurate
  <2> QED BY <2>1, <2>7 DEF Hope
<1>3. CASE Rises(x) /\ InDir(x) \in dirs
  <2>1. /\ LeftParts(x)' = LeftParts(x) /\ InDir(x)' = Date /\ LeftFiles(x)' = {}
        /\ dirs' = dirs \ {InDir(x)} /\ at'[x] = "delete" /\ InDir(x) \in Parts
    BY <1>3 DEF Rises, Stands
  <2>2. Date \in dirs /\ InDir(x) # Date /\ LeftParts(x) \subseteq dirs
    BY <1>0, <1>3, <2>1 DEF TypeInv, Tree, Way, InOrder
  <2>3. \A q \in LeftParts(x) : q # InDir(x)
    BY <2>1, <2>2, WayFacts, PartOrder
  <2>4. Accurate(x)'
    BY <2>1, <2>2, <2>3 DEF Accurate
  <2> QED BY <2>1, <2>4 DEF Hope
<1>4. ASSUME UNCHANGED <<dirs, file>>, ~Accurate(x), Date \in dirs PROVE Hope'
  <2>1. PICK z \in Deleters \ {x} : at[z] = "idle" \/ (at[z] = "delete" /\ Accurate(z))
    BY <1>4 DEF Hope
  <2>2. at'[z] = at[z] /\ walk'[z] = walk[z] /\ Present' = Present
    BY <1>4, <2>1 DEF Present
  <2>3. Accurate(z)' = Accurate(z)
    BY <1>4, <2>2 DEF Accurate, LeftParts, InDir, LeftFiles
  <2> QED BY <2>1, <2>2, <2>3 DEF Hope
<1>5. ASSUME NEW e \in Parts, Enters(x, e), Date \in dirs PROVE Hope'
  <2>1. CASE ~Accurate(x)
    BY <1>4, <1>5, <2>1 DEF Enters
  <2>2. CASE Accurate(x)
    <3>1. /\ LeftParts(x)' = LeftParts(x) \ {e} /\ InDir(x)' = e /\ LeftFiles(x)' = Entries(e)
          /\ dirs' = dirs /\ Present' = Present /\ at'[x] = "delete" /\ e \in dirs
      BY <1>5 DEF Enters, Stands, Present
    <3>2. Entries(e) \subseteq Present
      BY EntriesFacts DEF TypeInv
    <3>3. Accurate(x)'
      BY <2>2, <3>1, <3>2 DEF Accurate
    <3> QED BY <3>1, <3>3 DEF Hope
  <2> QED BY <2>1, <2>2
<1>6. ASSUME NEW e \in Parts, PassesDir(x, e), Date \in dirs PROVE Hope'
  BY <1>4, <1>6 DEF PassesDir, First, Accurate
<1>7. ASSUME NEW e \in Files, PassesFile(x, e), Date \in dirs PROVE Hope'
  BY <1>4, <1>7 DEF PassesFile, First, Accurate
<1>8. ASSUME Rises(x), InDir(x) \notin dirs, Date \in dirs PROVE Hope'
  BY <1>4, <1>8 DEF Rises, Accurate
<1>9. ASSUME Stops(x), Date \in dirs PROVE Hope'
  BY <1>4, <1>9 DEF Stops
<1> QED BY <1>1, <1>2, <1>3, <1>5, <1>6, <1>7, <1>8, <1>9 DEF Moves

LEMMA WayBegins ==
  ASSUME TypeInv, NEW x \in Deleters, BeginDelete(x), kind # "s3"
  PROVE  /\ UNCHANGED <<dirs, file>>
         /\ at'[x] = "delete" => Way(x)' /\ Accurate(x)'
         /\ Date \in dirs => at'[x] = "delete"
<1> x \in Callers
  BY DEF Callers
<1>1. UNCHANGED <<dirs, file>> /\ Present' = Present
  BY DEF BeginDelete, treeVars, Present
<1>2. CASE Date \notin dirs
  <2>1. at'[x] \in {"failed", "ok"}
    BY <1>2 DEF BeginDelete, Goto, TypeInv, Control
  <2> QED BY <1>1, <1>2, <2>1
<1>3. CASE Date \in dirs
  <2>1. walk'[x] = <<Frame(Date)>> /\ at'[x] = "delete"
    BY <1>3 DEF BeginDelete, Goto, TypeInv, Walks, Control
  <2>2. PICK f \in Frames : f = Frame(Date)
    BY EntriesFacts DEF TypeInv
  <2>3. PICK L \in SUBSET Parts : L = dirs \cap Parts
    OBVIOUS
  <2>4. f.dir = Date /\ f.left = L
    BY <2>2, <2>3, EntriesFacts DEF TypeInv, Frame
  <2>5. PICK s \in Seq(Frames) : s = <<f>>
    <3>1. f \in Frames => <<f>> \in Seq(Frames)
      OBVIOUS
    <3> QED BY <2>2, <3>1
  <2>6. Len(s) = 1 /\ s[1] = f
    BY <2>5
  <2>7. PICK K \in SUBSET Files : K = {}
    OBVIOUS
  <2>8. PICK d \in {Date} \cup Parts : d = Date
    OBVIOUS
  <2>9. Len(s) = 1 /\ s[1].left = L /\ s[Len(s)].dir = d /\ K = {} /\ Len(s) # 2
    BY <2>4, <2>6, <2>7, <2>8
  <2>10. Stands(x, L, d, K)
    BY <2>1, <2>2, <2>5, <2>9, StandsAt
  <2>11. LeftParts(x)' = dirs \cap Parts /\ InDir(x)' = Date /\ LeftFiles(x)' = {} /\ Shape(x)'
    BY <2>3, <2>7, <2>8, <2>10 DEF Stands
  <2>12. \A k \in Present : <<k[1]>> \in dirs \cap Parts
    BY DirNames DEF Present, TypeInv, Tree
  <2>13. Course(x)'
    BY <1>1, <2>11, <2>12 DEF Course
  <2>14. InOrder(x)'
    BY <1>1, <2>11, DirNames DEF InOrder
  <2>15. Accurate(x)'
    BY <1>1, <1>3, <2>11 DEF Accurate
  <2> QED BY <1>1, <2>1, <2>11, <2>13, <2>14, <2>15 DEF Way
<1> QED BY <1>2, <1>3

(* Once somebody has written or a call has broken down, it is not quiet again.*)
LEMMA QuietStep ==
  ASSUME TypeInv, [Next]_vars, Quiet'
  PROVE  /\ Quiet /\ kind' = kind
         /\ \/ \E x \in Deleters : Delete(x)
            \/ /\ UNCHANGED <<dirs, file>>
               /\ \A x \in Deleters : ~Delete(x) /\ calm'[x] = calm[x]
<1>1. ASSUME NEW w \in Writers, Write(w) PROVE FALSE
  BY <1>1, WriteOthers DEF Quiet
<1>2. ASSUME UNCHANGED vars PROVE Quiet
  BY <1>2 DEF Quiet, vars
<1>3. breaks \in Nat
  BY BoundAssumption DEF TypeInv, History
<1>4. Break => breaks' # 0
  BY <1>3 DEF Break
<1>5. ASSUME NEW x \in Deleters, Delete(x) PROVE Quiet
  <2>1. breaks' = breaks \/ Break
    BY <1>5 DEF Delete, BeginDelete, LeaveDir, DeleteList, DeleteBatch, BatchInPart, DeleteBreaks, DeleteDir,
                DeleteFile, NotThere
  <2>2. \A w \in Writers : w # x /\ w \in Callers
    BY CallersAssumption DEF Callers
  <2>3. \A w \in Writers : at'[w] = at[w]
    BY <1>5, <2>2, DeleteOthers
  <2> QED BY <1>4, <2>1, <2>3 DEF Quiet
<1>6. ASSUME NEW r \in Readers, Read(r)
      PROVE  Quiet /\ UNCHANGED <<dirs, file>> /\ \A x \in Deleters : calm'[x] = calm[x]
  <2>1. breaks' = breaks \/ Break
    BY <1>6 DEF Read, Begin, BeginRead, ListDates, WalkRoot, WalkUp, NextKeys, ListingBreaks, WalkDir, WalkFile,
                Open, Skip, Copy, CloseZip
  <2>2. \A w \in Writers \cup Deleters : w # r /\ w \in Callers
    BY CallersAssumption DEF Callers
  <2>3. \A w \in Writers : at'[w] = at[w]
    BY <1>6, <2>2, ReadOthers
  <2>4. calm' = calm \/ calm' = [calm EXCEPT ![r] = Present]
    BY <1>6 DEF Read, Begin, BeginRead, ListDates, WalkRoot, WalkUp, NextKeys, ListingBreaks, WalkDir, WalkFile,
                Open, Skip, Copy, CloseZip, Reading
  <2>5. \A x \in Deleters : calm'[x] = calm[x]
    BY <2>2, <2>4 DEF TypeInv, History
  <2> QED BY <1>4, <1>6, <2>1, <2>3, <2>5, ReadOthers DEF Quiet
<1>7. kind' = kind
  BY WriteOthers, DeleteOthers, ReadOthers DEF Next, Terminated, vars
<1>8. CASE \E x \in Deleters : Delete(x)
  BY <1>5, <1>7, <1>8
<1>9. CASE \A x \in Deleters : ~Delete(x)
  <2>1. (\E r \in Readers : Read(r)) \/ UNCHANGED vars
    BY <1>1, <1>9 DEF Next, Terminated
  <2> QED BY <1>2, <1>6, <1>7, <1>9, <2>1 DEF vars
<1> QED BY <1>8, <1>9

(* In a tree, while it is quiet: every deletion is on its way, and one of     *)
(* them cannot be stopped.                                                    *)
TreePasses ==
  Quiet /\ kind # "s3" => (\A x \in Deleters : Way(x)) /\ (Deleters # {} => Hope)

(* On S3, while it is quiet: none fails, and each still has, or has removed,  *)
(* all there was.                                                             *)
PagePasses ==
  Quiet /\ kind = "s3" =>
    /\ dirs = {}
    /\ \A x \in Deleters : /\ denied[x] = {} /\ at[x] \in {"idle", "page", "batch", "last", "ok"}
                           /\ at[x] # "idle" => Present \subseteq calm[x]

PassInv == DeleteInv /\ TreePasses /\ PagePasses

LEMMA TreePassesStep ==
  ASSUME PassInv, [Next]_vars
  PROVE  TreePasses'
<1> SUFFICES ASSUME Quiet', kind' # "s3"
    PROVE  (\A x \in Deleters : Way(x)') /\ (Deleters # {} => Hope')
  BY DEF TreePasses
<1> USE DEF PassInv, DeleteInv
<1>1. Quiet /\ kind # "s3"
  BY QuietStep
<1>2. (\A x \in Deleters : Way(x)) /\ (Deleters # {} => Hope)
  BY <1>1 DEF TreePasses
<1>3. CASE \A x \in Deleters : ~Delete(x)
  <2>1. UNCHANGED <<dirs, file>>
    BY <1>3, QuietStep
  <2>2. \A x \in Deleters : at'[x] = at[x] /\ walk'[x] = walk[x]
    BY <1>3, DeleterWaits
  <2>3. Present' = Present
    BY <2>1 DEF Present
  <2>4. ASSUME NEW x \in Deleters PROVE Way(x)' /\ (Accurate(x)' <=> Accurate(x))
    <3>1. LeftParts(x)' = LeftParts(x) /\ InDir(x)' = InDir(x) /\ LeftFiles(x)' = LeftFiles(x)
      BY <2>2 DEF LeftParts, InDir, LeftFiles
    <3>2. Way(x)
      BY <1>2
    <3>3. Shape(x)' <=> Shape(x)
      BY <2>2, <3>1 DEF Shape
    <3>4. (Course(x)' <=> Course(x)) /\ (InOrder(x)' <=> InOrder(x)) /\ (Accurate(x)' <=> Accurate(x))
      BY <2>1, <2>3, <3>1 DEF Course, InOrder, Accurate
    <3> QED BY <2>2, <3>2, <3>3, <3>4 DEF Way
  <2> QED BY <1>2, <2>1, <2>2, <2>4 DEF Hope
<1>4. ASSUME NEW x \in Deleters, Delete(x) PROVE (\A y \in Deleters : Way(y)') /\ Hope'
  <2>1. \A y \in Deleters \ {x} : at'[y] = at[y] /\ walk'[y] = walk[y]
    BY <1>4, DeleteOthers DEF Callers
  <2>2. CASE BeginDelete(x)
    <3>1. UNCHANGED <<dirs, file>> /\ Present' = Present
      BY <1>1, <2>2, WayBegins DEF Present
    <3>2. ASSUME NEW y \in Deleters \ {x} PROVE Way(y)'
      <4>1. LeftParts(y)' = LeftParts(y) /\ InDir(y)' = InDir(y) /\ LeftFiles(y)' = LeftFiles(y)
        BY <2>1 DEF LeftParts, InDir, LeftFiles
      <4>2. Way(y)
        BY <1>2
      <4>3. Shape(y)' <=> Shape(y)
        BY <2>1, <4>1 DEF Shape
      <4>4. (Course(y)' <=> Course(y)) /\ (InOrder(y)' <=> InOrder(y))
        BY <3>1, <4>1 DEF Course, InOrder
      <4> QED BY <2>1, <4>2, <4>3, <4>4 DEF Way
    <3>3. Way(x)' /\ (at'[x] = "delete" => Accurate(x)') /\ (Date \in dirs => at'[x] = "delete")
      BY <1>1, <2>2, WayBegins DEF Way
    <3> QED BY <3>1, <3>2, <3>3 DEF Hope
  <2>3. CASE ~BeginDelete(x)
    <3>1. at[x] = "delete"
      BY <1>1, <1>4, <2>3 DEF Delete, LeaveDir, DeleteList, DeleteBatch, BatchInPart, DeleteBreaks, DeleteDir,
                              DeleteFile, Goto, TypeInv, Places, Callers
    <3>2. Shape(x) /\ Course(x) /\ Way(x) /\ breaks = 0 /\ breaks' = 0
      BY <1>1, <1>2, <3>1 DEF Way, Quiet
    <3>3. Moves(x)
      BY <1>4, <3>1, <3>2, MovesStep
    <3>4. Way(x)' /\ Hope'
      BY <1>2, <2>1, <3>1, <3>2, <3>3, WayMine, HopeStep
    <3>5. ASSUME NEW y \in Deleters \ {x} PROVE Way(y)'
      <4>1. CASE at[y] = "delete"
        BY <1>2, <2>1, <3>1, <3>2, <3>3, <4>1, WayOther
      <4>2. CASE at[y] # "delete"
        BY <2>1, <4>2 DEF Way
      <4> QED BY <4>1, <4>2
    <3> QED BY <3>4, <3>5
  <2> QED BY <2>2, <2>3
<1> QED BY <1>3, <1>4

LEMMA PagePassesStep ==
  ASSUME PassInv, [Next]_vars
  PROVE  PagePasses'
<1> DEFINE Passes(x) == /\ denied[x] = {} /\ at[x] \in {"idle", "page", "batch", "last", "ok"}
                        /\ at[x] # "idle" => Present \subseteq calm[x]
<1> SUFFICES ASSUME Quiet', kind' = "s3"
    PROVE  dirs' = {} /\ \A x \in Deleters : Passes(x)'
  BY DEF PagePasses
<1> USE DEF PassInv, DeleteInv
<1>1. Quiet /\ kind = "s3"
  BY QuietStep
<1>2. dirs = {} /\ \A x \in Deleters : Passes(x)
  BY <1>1 DEF PagePasses
<1>3. denied' = denied
  <2> SUFFICES ASSUME NEW x \in Deleters, BatchInPart(x) PROVE FALSE
    BY DeniedStep DEF Denials
  <2>1. breaks = 0 /\ breaks' = 0 /\ breaks' = breaks + 1
    BY <1>1 DEF Quiet, BatchInPart, Break
  <2> QED BY <2>1
<1>4. CASE \A x \in Deleters : ~Delete(x)
  <2>1. UNCHANGED <<dirs, file>> /\ \A x \in Deleters : calm'[x] = calm[x]
    BY <1>4, QuietStep
  <2>2. \A x \in Deleters : at'[x] = at[x]
    BY <1>4, DeleterWaits
  <2>3. Present' = Present
    BY <2>1 DEF Present
  <2> QED BY <1>2, <1>3, <2>1, <2>2, <2>3
<1>5. ASSUME NEW y \in Deleters, Delete(y) PROVE dirs' = {} /\ \A x \in Deleters : Passes(x)'
  <2> y \in Callers
    BY DEF Callers
  <2>0. \A x \in Deleters : x \in Callers
    BY DEF Callers
  <2>1. \A x \in Deleters \ {y} : at'[x] = at[x]
    BY <1>5, <2>0, DeleteOthers
  <2>2. CASE BeginDelete(y)
    <3>1. at'[y] = "page" /\ UNCHANGED <<dirs, file>> /\ calm' = [calm EXCEPT ![y] = Present]
      BY <1>1, <2>2 DEF BeginDelete, Goto, treeVars, TypeInv, Control
    <3>2. Present' = Present
      BY <3>1 DEF Present
    <3>3. calm'[y] = Present /\ \A x \in Deleters \ {y} : calm'[x] = calm[x]
      BY <2>0, <3>1 DEF TypeInv, History
    <3>4. \A x \in Deleters \ {y} : Passes(x)'
      BY <1>2, <1>3, <2>1, <3>2, <3>3
    <3>5. Passes(y)'
      BY <1>2, <1>3, <3>1, <3>2, <3>3
    <3> QED BY <1>2, <3>1, <3>4, <3>5
  <2>3. CASE DeleteList(y)
    <3>1. at[y] = "page" /\ at'[y] \in {"ok", "batch", "last"} /\ UNCHANGED <<dirs, file, calm>>
      BY <2>3 DEF DeleteList, Goto, treeVars, TypeInv, Control
    <3>2. Present' = Present
      BY <3>1 DEF Present
    <3> QED BY <1>2, <1>3, <2>1, <3>1, <3>2
  <2>4. CASE DeleteBatch(y)
    <3>1. PICK K : K = Last(walk[y]).left
      OBVIOUS
    <3>2. /\ at[y] # "idle" /\ at'[y] \in {"page", "ok"} /\ dirs' = dirs
          /\ file' = [k \in Files |-> IF k \in K THEN Nothing ELSE file[k]]
          /\ calm' = [c \in Callers |-> calm[c] \ K]
      BY <2>4, <3>1 DEF DeleteBatch, Goto, Touch, TypeInv, Control
    <3>3. Present' \subseteq Present \ K
      BY <3>2 DEF Present
    <3>4. \A x \in Deleters : calm'[x] = calm[x] \ K
      BY <2>0, <3>2
    <3> QED BY <1>2, <1>3, <2>1, <3>2, <3>3, <3>4
  <2>5. CASE BatchInPart(y) \/ DeleteBreaks(y)
    <3>1. breaks = 0 /\ breaks' = 0 /\ Break
      BY <1>1, <2>5 DEF Quiet, BatchInPart, DeleteBreaks
    <3> QED BY <3>1 DEF Break
  <2>6. CASE LeaveDir(y) \/ \E e \in Files \cup Parts : DeleteDir(y, e) \/ DeleteFile(y, e)
    BY <1>1, <2>6 DEF LeaveDir, DeleteDir, DeleteFile, TypeInv, Places
  <2> QED BY <1>5, <2>2, <2>3, <2>4, <2>5, <2>6 DEF Delete
<1> QED BY <1>4, <1>5

LEMMA PassInvariant == Spec => []PassInv
<1>1. Init => TreePasses /\ PagePasses
  <2> SUFFICES ASSUME Init PROVE TreePasses /\ PagePasses
    OBVIOUS
  <2>1. \A x \in Deleters : x \in Callers /\ at[x] = "idle" /\ ~bad[x]
    BY DEF Init, Callers
  <2>2. (kind = "s3" => dirs = {}) /\ \A x \in Deleters : denied[x] = {}
    BY DEF Init
  <2> QED BY <2>1, <2>2 DEF TreePasses, PagePasses, Way, Hope
<1>2. PassInv /\ [Next]_vars => TreePasses' /\ PagePasses'
  BY TreePassesStep, PagePassesStep
<1> QED BY <1>1, <1>2, DeleteInvariant, PTL DEF Spec, PassInv

(* Of retention passes that delete one date at the same time, nobody writing  *)
(* to it and no call breaking down, one removes all of it: none is stopped by *)
(* what another has removed without that one going on.                        *)
THEOREM OnePassCorrect == Spec => []OnePassFinishes
<1>1. PassInv => OnePassFinishes
  <2> SUFFICES ASSUME PassInv, \A x \in Deleters : at[x] \in Over, Quiet, Deleters # {}
      PROVE  Present = {} /\ Date \notin dirs
    BY DEF OnePassFinishes, Quiet
  <2> USE DEF PassInv, DeleteInv
  <2>1. \A x \in Deleters : at[x] # "idle" /\ at[x] # "delete"
    BY DEF Over
  <2>2. CASE kind # "s3"
    <3>1. Date \notin dirs
      BY <2>1, <2>2 DEF TreePasses, Hope
    <3> QED BY <2>2, <3>1, NoTree
  <2>3. CASE kind = "s3"
    <3>1. PICK x \in Deleters : TRUE
      OBVIOUS
    <3>2. at[x] = "ok" /\ denied[x] = {} /\ Present \subseteq calm[x] /\ dirs = {}
      BY <2>1, <2>3 DEF PagePasses, Over
    <3> QED BY <3>2 DEF Ahead
  <2> QED BY <2>2, <2>3
<1> QED BY <1>1, PassInvariant, PTL
=============================================================================
