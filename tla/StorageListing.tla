---------------------------- MODULE StorageListing ----------------------------
(* StorageBackup.listObjects: a bucket is listed page by page and folder by   *)
(* folder, in one request each, while its users upload and delete objects.    *)
(* The pages are cut by offset, so what changes before the offset shifts the  *)
(* rest.                                                                      *)
EXTENDS Naturals, FiniteSets, SequencesExt

CONSTANTS
  Paths,      \* the paths objects may have: sequences of names; a name is a number
  PageSize,   \* the code's 100
  MaxUploads, MaxRemovals   \* bounds: the changes during one listing

ASSUME BucketAssumption ==
  /\ Paths \subseteq Seq(Nat) \ {<<>>} /\ IsFiniteSet(Paths)
  /\ PageSize \in Nat \ {0}
  /\ MaxUploads \in Nat /\ MaxRemovals \in Nat

VARIABLES
  bucket,     \* the objects in it
  stack,      \* the calls of listObjects, the innermost last
  found,      \* how often an object is in all: 0, 1, or 2 for more than once
  pc,         \* "listing", "done" or "failed"
  \* history
  kept,       \* the objects that were there from the start until now
  vanished,   \* the entries that have left a folder: [prefix, entry]
  uploads, removals
vars == <<bucket, stack, found, pc, kept, vanished, uploads, removals>>

changeVars == <<bucket, kept, vanished, uploads, removals>>

-------------------------------------------------------------------------------
(* The list endpoint: a folder's entries are the objects directly in it and   *)
(* the folders, in the order of their names.                                  *)

EntryOf(p, o) == [name |-> o[Len(p) + 1], folder |-> Len(o) > Len(p) + 1]

Entries(S, p) == {EntryOf(p, o) : o \in {x \in S : IsStrictPrefix(p, x)}}

Before(e, f) ==
  \/ e.name < f.name
  \/ e.name = f.name /\ ~e.folder /\ f.folder

Folders(o) == {SubSeq(o, 1, n) : n \in 0..(Len(o) - 1)}

Rank(es, e) == Cardinality({f \in es : Before(f, e)})

Page(es, offset) == {e \in es : offset <= Rank(es, e) /\ Rank(es, e) < offset + PageSize}

(* A call of listObjects: what it lists, its offset, and of the page at hand  *)
(* what is still to do and whether it was full.                               *)
Call(p) == [prefix |-> p, offset |-> 0, asked |-> FALSE, page |-> {}, full |-> FALSE]

Init ==
  /\ bucket \in SUBSET Paths
  /\ stack = <<Call(<<>>)>>
  /\ found = [o \in Paths |-> 0]
  /\ pc = "listing"
  /\ kept = bucket /\ vanished = {} /\ uploads = 0 /\ removals = 0

Top == Last(stack)
SetTop(call) == stack' = [stack EXCEPT ![Len(stack)] = call]

-------------------------------------------------------------------------------
(* listObjects *)

Request ==
  /\ pc = "listing" /\ ~Top.asked
  /\ LET page == Page(Entries(bucket, Top.prefix), Top.offset)
     IN SetTop([Top EXCEPT !.asked = TRUE, !.page = page,
                           !.full = Cardinality(page) = PageSize])
  /\ UNCHANGED <<found, pc, changeVars>>

(* One request fails: every call on the stack returns the error.              *)
RequestFails ==
  /\ pc = "listing" /\ ~Top.asked
  /\ pc' = "failed"
  /\ UNCHANGED <<stack, found, changeVars>>

NextEntry(e) ==
  /\ pc = "listing" /\ Top.asked /\ e \in Top.page
  /\ \A f \in Top.page \ {e} : Before(e, f)

TakeObject(e) ==
  /\ NextEntry(e) /\ ~e.folder
  /\ found' = [found EXCEPT ![Append(Top.prefix, e.name)] = IF @ = 0 THEN 1 ELSE 2]
  /\ SetTop([Top EXCEPT !.page = @ \ {e}])
  /\ UNCHANGED <<pc, changeVars>>

(* Mutant of EnterFolder: the folder's name is taken for its path.            *)
EnterFolderByName(e) ==
  /\ NextEntry(e) /\ e.folder
  /\ stack' = Append([stack EXCEPT ![Len(stack)].page = @ \ {e}], Call(<<e.name>>))
  /\ UNCHANGED <<found, pc, changeVars>>

(* A folder is listed by a call of its own before the page goes on.           *)
EnterFolder(e) ==
  /\ NextEntry(e) /\ e.folder
  /\ stack' = Append([stack EXCEPT ![Len(stack)].page = @ \ {e}],
                     Call(Append(Top.prefix, e.name)))
  /\ UNCHANGED <<found, pc, changeVars>>

PageIsDone == pc = "listing" /\ Top.asked /\ Top.page = {}

(* Mutants of NextPage: the offset counts pages; it is not moved.             *)
NextPageByOne ==
  /\ PageIsDone /\ Top.full
  /\ SetTop([Top EXCEPT !.offset = @ + 1, !.asked = FALSE])
  /\ UNCHANGED <<found, pc, changeVars>>

NextPageSame ==
  /\ PageIsDone /\ Top.full
  /\ SetTop([Top EXCEPT !.asked = FALSE])
  /\ UNCHANGED <<found, pc, changeVars>>

NextPage ==
  /\ PageIsDone /\ Top.full
  /\ SetTop([Top EXCEPT !.offset = @ + PageSize, !.asked = FALSE])
  /\ UNCHANGED <<found, pc, changeVars>>

(* Mutant of Return: the first page is taken for the last.                    *)
ReturnEarly ==
  /\ PageIsDone
  /\ stack' = Front(stack)
  /\ pc' = IF Len(stack) = 1 THEN "done" ELSE pc
  /\ UNCHANGED <<found, changeVars>>

(* A page that was not full is the last one.                                  *)
Return ==
  /\ PageIsDone /\ ~Top.full
  /\ stack' = Front(stack)
  /\ pc' = IF Len(stack) = 1 THEN "done" ELSE pc
  /\ UNCHANGED <<found, changeVars>>

Step ==
  \/ Request \/ RequestFails \/ NextPage \/ Return
  \/ \E e \in Top.page : TakeObject(e) \/ EnterFolder(e)

-------------------------------------------------------------------------------
(* The bucket's users *)

Upload(o) ==
  /\ pc = "listing" /\ uploads < MaxUploads
  /\ o \in Paths \ bucket
  /\ bucket' = bucket \cup {o}
  /\ uploads' = uploads + 1
  /\ UNCHANGED <<stack, found, pc, kept, vanished, removals>>

(* The folders on the object's path go with it when they become empty.        *)
RemoveObject(o) ==
  /\ pc = "listing" /\ removals < MaxRemovals
  /\ o \in bucket
  /\ bucket' = bucket \ {o}
  /\ kept' = kept \ {o}
  /\ vanished' = vanished \cup
       {v \in {[prefix |-> p, entry |-> EntryOf(p, o)] : p \in Folders(o)} :
          v.entry \notin Entries(bucket', v.prefix)}
  /\ removals' = removals + 1
  /\ UNCHANGED <<stack, found, pc, uploads>>

Over == pc # "listing" /\ UNCHANGED vars

Next ==
  \/ pc = "listing" /\ Step
  \/ \E o \in Paths : Upload(o) \/ RemoveObject(o)
  \/ Over

Spec == Init /\ [][Next]_vars

(* Every request returns (the client has a timeout) and the loop goes on.     *)
FairSpec == Spec /\ WF_vars(pc = "listing" /\ Step)

-------------------------------------------------------------------------------
(* Properties *)

EntryType == [name : Nat, folder : BOOLEAN]
CallType == [prefix : Seq(Nat), offset : Nat, asked : BOOLEAN, page : SUBSET EntryType,
             full : BOOLEAN]

(* Every variable stays in its type, and the calls are nested as the folders. *)
TypeOK ==
  /\ bucket \in SUBSET Paths /\ kept \in SUBSET bucket
  /\ \A i \in 1..Len(stack) :
       /\ stack[i] \in CallType
       /\ Len(stack[i].prefix) = i - 1
       /\ i > 1 => Front(stack[i].prefix) = stack[i - 1].prefix
  /\ (pc = "done") = (stack = <<>>)
  /\ found \in [Paths -> 0..2]
  /\ pc \in {"listing", "done", "failed"}
  /\ vanished \subseteq [prefix : Seq(Nat), entry : EntryType]
  /\ uploads \in 0..MaxUploads /\ removals \in 0..MaxRemovals

(* An object that was there all the time is only missed when an entry that    *)
(* came before its own, in a folder on its path, went away meanwhile: uploads *)
(* lose nothing, and neither do page borders or empty folders.                *)
MissedHasCause ==
  pc = "done" =>
    \A o \in kept : found[o] = 0 =>
      \E v \in vanished : IsStrictPrefix(v.prefix, o) /\ Before(v.entry, EntryOf(v.prefix, o))

(* Without uploads no object is listed twice, and none that was not there.    *)
NothingTwice ==
  pc = "done" /\ uploads = 0 =>
    \A o \in Paths : found[o] <= 1 /\ (removals = 0 => (found[o] = 1) = (o \in bucket))

(* The listing ends: the offset passes every page, the recursion every folder.*)
ListingEnds == <>(pc # "listing")
=============================================================================
