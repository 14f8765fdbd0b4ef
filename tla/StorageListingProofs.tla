------------------------ MODULE StorageListingProofs ------------------------
(* Theorems about StorageListing: for any finite set of paths, any page size  *)
(* and any number of uploads and removals during the listing.                 *)
EXTENDS StorageListing, FiniteSetTheorems, SequenceTheorems, TLAPS

-------------------------------------------------------------------------------
(* The order of a folder's entries *)

LEMMA BeforeOrder ==
  /\ \A e \in EntryType : ~Before(e, e)
  /\ \A e, f \in EntryType : e = f \/ Before(e, f) \/ Before(f, e)
  /\ \A e, f, g \in EntryType : Before(e, f) /\ Before(f, g) => Before(e, g)
<1>1. \A e \in EntryType : e.name \in Nat /\ e.folder \in BOOLEAN /\ e = [name |-> e.name, folder |-> e.folder]
  BY DEF EntryType
<1>2. \A e, f \in EntryType : e = f \/ Before(e, f) \/ Before(f, e)
  <2> SUFFICES ASSUME NEW e \in EntryType, NEW f \in EntryType, e.name = f.name, e # f
               PROVE  Before(e, f) \/ Before(f, e)
    BY <1>1 DEF Before
  <2>1. ~(e.folder <=> f.folder)
    <3> SUFFICES ASSUME e.folder <=> f.folder PROVE FALSE
      OBVIOUS
    <3>1. e.folder = f.folder
      BY <1>1
    <3> QED BY <1>1, <3>1
  <2> QED BY <2>1 DEF Before
<1>3. \A e \in EntryType : ~Before(e, e)
  BY <1>1 DEF Before
<1>4. \A e, f, g \in EntryType : Before(e, f) /\ Before(f, g) => Before(e, g)
  BY <1>1 DEF Before
<1> QED BY <1>2, <1>3, <1>4

LEMMA RankFacts ==
  ASSUME NEW E, E \subseteq EntryType, IsFiniteSet(E)
  PROVE  /\ \A e : Rank(E, e) \in Nat
         /\ \A e \in E : Rank(E, e) < Cardinality(E)
         /\ \A e, f \in E : e # f => Rank(E, e) # Rank(E, f)
<1> DEFINE Preceding(e) == {f \in E : Before(f, e)}
<1>1. ASSUME NEW e
      PROVE  IsFiniteSet(Preceding(e)) /\ Cardinality(Preceding(e)) \in Nat
  <2>1. Preceding(e) \in SUBSET E
    OBVIOUS
  <2> QED BY <2>1, FS_Subset, FS_CardinalityType
<1>2. \A e : Rank(E, e) = Cardinality(Preceding(e))
  BY DEF Rank
<1>3. ASSUME NEW e \in E, NEW S, Preceding(e) \subseteq S, e \in S, S \subseteq E
      PROVE  Cardinality(Preceding(e)) < Cardinality(S)
  <2>1. IsFiniteSet(S) /\ Cardinality(S) \in Nat
    BY <1>3, FS_Subset, FS_CardinalityType
  <2>2. e \notin Preceding(e)
    BY BeforeOrder
  <2>3. Preceding(e) \in SUBSET S
    BY <1>3
  <2>4. Cardinality(Preceding(e)) <= Cardinality(S) /\ (Cardinality(S) = Cardinality(Preceding(e)) => S = Preceding(e))
    BY <2>1, <2>3, FS_Subset
  <2> HIDE DEF Preceding
  <2> QED BY <1>1, <1>3, <2>1, <2>2, <2>4
<1>4. \A e \in E : Rank(E, e) < Cardinality(E)
  <2> SUFFICES ASSUME NEW e \in E PROVE Cardinality(Preceding(e)) < Cardinality(E)
    BY <1>2
  <2>1. Preceding(e) \subseteq E
    OBVIOUS
  <2> QED BY <1>3, <2>1
<1>5. ASSUME NEW e \in E, NEW f \in E, Before(e, f)
      PROVE  Rank(E, e) < Rank(E, f)
  <2>1. Preceding(e) \subseteq Preceding(f) /\ e \in Preceding(f) /\ Preceding(f) \subseteq E
    BY <1>5, BeforeOrder
  <2> QED BY <1>2, <1>3, <2>1
<1>6. \A e : Rank(E, e) \in Nat
  BY <1>1, <1>2
<1>7. \A e, f \in E : e # f => Rank(E, e) # Rank(E, f)
  <2> SUFFICES ASSUME NEW e \in E, NEW f \in E, e # f PROVE Rank(E, e) # Rank(E, f)
    OBVIOUS
  <2>1. Before(e, f) \/ Before(f, e)
    BY BeforeOrder
  <2> QED BY <1>5, <1>6, <2>1
<1> QED BY <1>4, <1>6, <1>7

(* What comes before an entry decides its rank.                               *)
LEMMA RankGrows ==
  ASSUME NEW E, IsFiniteSet(E), NEW F, IsFiniteSet(F), NEW e,
         \A f \in E : Before(f, e) => f \in F
  PROVE  Rank(E, e) <= Rank(F, e)
<1>1. {f \in F : Before(f, e)} \in SUBSET F
  OBVIOUS
<1>2. IsFiniteSet({f \in F : Before(f, e)})
  BY <1>1, FS_Subset
<1>3. {f \in E : Before(f, e)} \in SUBSET {f \in F : Before(f, e)}
  OBVIOUS
<1> QED BY <1>2, <1>3, FS_Subset DEF Rank

(* The ranks have no gaps: a page before an entry is full.                    *)
LEMMA FullPage ==
  ASSUME NEW E, E \subseteq EntryType, IsFiniteSet(E), NEW n \in Nat,
         NEW e \in E, Rank(E, e) >= n + PageSize
  PROVE  Cardinality(Page(E, n)) = PageSize
<1> DEFINE N == Cardinality(E)
           rank == [f \in E |-> Rank(E, f)]
           on == [f \in Page(E, n) |-> Rank(E, f)]
           last == n + PageSize - 1
<1>1. N \in Nat /\ PageSize \in Nat \ {0}
  BY FS_CardinalityType, BucketAssumption
<1>2. rank \in Injection(E, 0..(N - 1))
  <2>1. \A f \in E : Rank(E, f) \in 0..(N - 1)
    BY <1>1, RankFacts
  <2>2. rank \in [E -> 0..(N - 1)]
    BY <2>1
  <2>3. \A f, g \in E : rank[f] = rank[g] => f = g
    BY RankFacts
  <2> HIDE DEF rank, N
  <2> QED BY <2>2, <2>3 DEF Injection, IsInjective
<1>3. IsFiniteSet(0..(N - 1)) /\ Cardinality(0..(N - 1)) = N
  <2> HIDE DEF N
  <2>1. 0 \in Int /\ N - 1 \in Int
    BY <1>1
  <2>2. IsFiniteSet(0..(N - 1)) /\ Cardinality(0..(N - 1)) = IF 0 > N - 1 THEN 0 ELSE (N - 1) - 0 + 1
    BY <2>1, FS_Interval
  <2> QED BY <1>1, <2>2
<1>4. \A k \in 0..(N - 1) : \E f \in E : Rank(E, f) = k
  <2>1. rank \in Surjection(E, 0..(N - 1))
    <3> HIDE DEF rank
    <3> QED BY <1>2, <1>3, FS_Injection
  <2> QED BY <2>1 DEF Surjection
<1>5. IsFiniteSet(Page(E, n)) /\ Page(E, n) \subseteq E
  <2>1. Page(E, n) \in SUBSET E
    BY DEF Page
  <2> QED BY <2>1, FS_Subset
<1>6. on \in [Page(E, n) -> n..last]
  <2>1. \A f \in Page(E, n) : Rank(E, f) \in n..last
    BY <1>1, RankFacts DEF Page
  <2> QED BY <2>1
<1>7. \A k \in n..last : \E f \in Page(E, n) : on[f] = k
  <2> SUFFICES ASSUME NEW k \in n..last PROVE \E f \in Page(E, n) : Rank(E, f) = k
    OBVIOUS
  <2>1. k \in 0..(N - 1)
    BY <1>1, RankFacts
  <2>2. PICK f \in E : Rank(E, f) = k
    BY <1>4, <2>1
  <2>3. f \in Page(E, n)
    BY <1>1, <2>2 DEF Page
  <2> QED BY <2>2, <2>3
<1>8. \A f, g \in Page(E, n) : on[f] = on[g] => f = g
  BY <1>5, RankFacts
<1>9. on \in Surjection(Page(E, n), n..last) /\ on \in Injection(Page(E, n), n..last)
  <2> HIDE DEF on, last
  <2> QED BY <1>6, <1>7, <1>8 DEF Surjection, Injection, IsInjective
<1>10. Cardinality(n..last) = PageSize
  <2>1. n \in Int /\ last \in Int
    BY <1>1
  <2>2. Cardinality(n..last) = IF n > last THEN 0 ELSE last - n + 1
    BY <2>1, FS_Interval
  <2> QED BY <1>1, <2>2
<1>11. Cardinality(n..last) = Cardinality(Page(E, n))
  <2> HIDE DEF on, last
  <2> QED BY <1>5, <1>9, FS_Surjection
<1> QED BY <1>10, <1>11

-------------------------------------------------------------------------------
(* Paths and folders *)

LEMMA PathFacts == \A o \in Paths : o \in Seq(Nat) /\ Len(o) \in Nat \ {0}
<1> SUFFICES ASSUME NEW o \in Paths PROVE o \in Seq(Nat) /\ Len(o) \in Nat \ {0}
  OBVIOUS
<1>1. o \in Seq(Nat) /\ o # <<>>
  BY BucketAssumption
<1> QED BY <1>1, EmptySeq, LenProperties

LEMMA StrictPrefix ==
  ASSUME NEW p \in Seq(Nat), NEW o \in Seq(Nat)
  PROVE  IsStrictPrefix(p, o) <=> Len(p) < Len(o) /\ \A j \in 1..Len(p) : o[j] = p[j]
<1>1. Len(p) \in Nat /\ Len(o) \in Nat
  BY LenProperties
<1>2. SubSeq(p, 1, Len(p)) = p
  BY SubSeqFull
<1>3. CASE Len(p) <= Len(o)
  <2>1. /\ SubSeq(o, 1, Len(p)) \in Seq(Nat) /\ Len(SubSeq(o, 1, Len(p))) = Len(p)
        /\ \A j \in 1..Len(p) : SubSeq(o, 1, Len(p))[j] = o[j]
    BY <1>1, <1>3
  <2>2. p = SubSeq(o, 1, Len(p)) <=> \A j \in 1..Len(p) : o[j] = p[j]
    <3>1. ASSUME \A j \in 1..Len(p) : o[j] = p[j] PROVE p = SubSeq(o, 1, Len(p))
      BY <1>1, <2>1, <3>1, SeqEqual
    <3> QED BY <2>1, <3>1
  <2>3. Len(p) = Len(o) /\ (\A j \in 1..Len(p) : o[j] = p[j]) => p = o
    BY SeqEqual
  <2> QED BY <1>1, <1>2, <1>3, <2>2, <2>3 DEF IsStrictPrefix, IsPrefix
<1>4. CASE ~(Len(p) <= Len(o))
  BY <1>1, <1>4 DEF IsStrictPrefix, IsPrefix
<1> QED BY <1>3, <1>4

LEMMA EntryFacts ==
  ASSUME NEW p \in Seq(Nat), NEW o \in Seq(Nat), IsStrictPrefix(p, o)
  PROVE  /\ EntryOf(p, o) \in EntryType
         /\ EntryOf(p, o).name = o[Len(p) + 1]
         /\ EntryOf(p, o).folder = (Len(o) > Len(p) + 1)
<1>1. Len(p) \in Nat /\ Len(o) \in Nat /\ Len(p) < Len(o)
  BY StrictPrefix, LenProperties
<1>2. o[Len(p) + 1] \in Nat
  BY <1>1, ElementOfSeq
<1> QED BY <1>2 DEF EntryOf, EntryType

LEMMA EntriesFacts ==
  ASSUME NEW S, S \subseteq Paths, NEW p \in Seq(Nat)
  PROVE  /\ Entries(S, p) \subseteq EntryType
         /\ IsFiniteSet(Entries(S, p))
         /\ \A o \in S : IsStrictPrefix(p, o) => EntryOf(p, o) \in Entries(S, p)
         /\ \A e \in Entries(S, p) : \E o \in S : IsStrictPrefix(p, o) /\ e = EntryOf(p, o)
<1> DEFINE U == {x \in S : IsStrictPrefix(p, x)}
           entry == [o \in U |-> EntryOf(p, o)]
<1>1. Entries(S, p) = {EntryOf(p, o) : o \in U}
  BY DEF Entries
<1>2. IsFiniteSet(U)
  <2>1. U \in SUBSET Paths
    OBVIOUS
  <2> QED BY <2>1, BucketAssumption, FS_Subset
<1>3. entry \in Surjection(U, Entries(S, p))
  <2>1. entry \in [U -> Entries(S, p)]
    BY <1>1
  <2>2. \A e \in Entries(S, p) : \E o \in U : entry[o] = e
    BY <1>1
  <2> HIDE DEF U, entry
  <2> QED BY <2>1, <2>2 DEF Surjection
<1>4. IsFiniteSet(Entries(S, p))
  <2> HIDE DEF U, entry
  <2> QED BY <1>2, <1>3, FS_Surjection
<1>5. \A e \in Entries(S, p) : \E o \in S : IsStrictPrefix(p, o) /\ e = EntryOf(p, o)
  BY <1>1
<1>6. Entries(S, p) \subseteq EntryType
  BY <1>5, EntryFacts, PathFacts
<1>7. \A o \in S : IsStrictPrefix(p, o) => EntryOf(p, o) \in Entries(S, p)
  BY <1>1
<1> QED BY <1>4, <1>5, <1>6, <1>7

(* An object directly in the folder, and a folder in it.                      *)
LEMMA Child ==
  ASSUME NEW p \in Seq(Nat), NEW a \in Nat
  PROVE  /\ Append(p, a) \in Seq(Nat) /\ Len(Append(p, a)) = Len(p) + 1 /\ Len(p) \in Nat
         /\ \A j \in 1..Len(p) : Append(p, a)[j] = p[j]
         /\ Append(p, a)[Len(p) + 1] = a
BY AppendProperties, LenProperties

LEMMA ObjectEntry ==
  ASSUME NEW p \in Seq(Nat), NEW o \in Seq(Nat), IsStrictPrefix(p, o), ~EntryOf(p, o).folder
  PROVE  o = Append(p, EntryOf(p, o).name)
<1>1. /\ EntryOf(p, o).name = o[Len(p) + 1] /\ ~(Len(o) > Len(p) + 1)
      /\ EntryOf(p, o).name \in Nat
  BY EntryFacts DEF EntryType
<1>2. Len(p) < Len(o) /\ Len(p) \in Nat /\ Len(o) \in Nat /\ \A j \in 1..Len(p) : o[j] = p[j]
  BY StrictPrefix, LenProperties
<1>3. Len(o) = Len(p) + 1
  BY <1>1, <1>2
<1>4. PICK q \in Seq(Nat) : q = Append(p, EntryOf(p, o).name)
  BY <1>1, Child
<1>5. Len(q) = Len(p) + 1 /\ (\A j \in 1..Len(p) : q[j] = p[j]) /\ q[Len(p) + 1] = o[Len(p) + 1]
  BY <1>1, <1>4, Child
<1>6. ASSUME NEW j \in 1..Len(o) PROVE o[j] = q[j]
  <2>1. j \in 1..Len(p) \/ j = Len(p) + 1
    BY <1>2, <1>3
  <2> QED BY <1>2, <1>5, <2>1
<1> QED BY <1>3, <1>4, <1>5, <1>6, SeqEqual

LEMMA FolderEntry ==
  ASSUME NEW p \in Seq(Nat), NEW o \in Seq(Nat), NEW a \in Nat
  PROVE  IsStrictPrefix(Append(p, a), o) <=>
           IsStrictPrefix(p, o) /\ EntryOf(p, o).name = a /\ EntryOf(p, o).folder
<1>1. PICK q \in Seq(Nat) : q = Append(p, a)
  BY Child
<1>2. Len(q) = Len(p) + 1 /\ Len(p) \in Nat /\ (\A j \in 1..Len(p) : q[j] = p[j]) /\ q[Len(p) + 1] = a
  BY <1>1, Child
<1>3. IsStrictPrefix(q, o) <=> Len(q) < Len(o) /\ \A j \in 1..Len(q) : o[j] = q[j]
  BY StrictPrefix
<1>4. IsStrictPrefix(p, o) <=> Len(p) < Len(o) /\ \A j \in 1..Len(p) : o[j] = p[j]
  BY StrictPrefix
<1>5. Len(o) \in Nat
  BY LenProperties
<1>6. EntryOf(p, o).name = o[Len(p) + 1] /\ EntryOf(p, o).folder = (Len(o) > Len(p) + 1)
  BY DEF EntryOf
<1>7. IsStrictPrefix(q, o) => IsStrictPrefix(p, o) /\ o[Len(p) + 1] = a /\ Len(o) > Len(p) + 1
  BY <1>2, <1>3, <1>4, <1>5
<1>8. ASSUME IsStrictPrefix(p, o), o[Len(p) + 1] = a, Len(o) > Len(p) + 1
      PROVE  IsStrictPrefix(q, o)
  <2>1. \A j \in 1..Len(p) : o[j] = p[j]
    BY <1>4, <1>8
  <2>2. ASSUME NEW j \in 1..Len(q) PROVE o[j] = q[j]
    <3>1. j \in 1..Len(p) \/ j = Len(p) + 1
      BY <1>2
    <3> QED BY <1>2, <1>8, <2>1, <3>1
  <2>3. Len(q) < Len(o)
    BY <1>2, <1>5, <1>8
  <2> QED BY <1>3, <2>2, <2>3
<1> QED BY <1>1, <1>6, <1>7, <1>8

Calls == 1..Len(stack)

(* The entries of the folder a call lists, and the rank its requests have     *)
(* got to.                                                                    *)
Listed(c) == Entries(bucket, c.prefix)
Limit(c)  == IF c.asked THEN c.offset + PageSize ELSE c.offset

(* The folder of the i-th call that the next one lists.                       *)
Towards(i) == [name |-> Top.prefix[i], folder |-> TRUE]

(* The calls follow the innermost one's path; a page has entries there have   *)
(* been; before a request there is none.                                      *)
CallOK(i) ==
  /\ stack[i] \in CallType
  /\ Len(stack[i].prefix) = i - 1
  /\ \A j \in 1..(i - 1) : stack[i].prefix[j] = Top.prefix[j]
  /\ stack[i].page \subseteq Entries(Paths, stack[i].prefix)
  /\ ~stack[i].asked => stack[i].page = {}

Stacked == stack \in Seq(CallType) /\ \A i \in Calls : CallOK(i)

Frame ==
  /\ bucket \subseteq Paths /\ kept \subseteq bucket
  /\ Stacked
  /\ pc \in {"listing", "done", "failed"}
  /\ (pc = "done") = (stack = <<>>)
  /\ found \in [Paths -> 0..2]
  /\ vanished \subseteq [prefix : Seq(Nat), entry : EntryType]
  /\ uploads \in 0..MaxUploads /\ removals \in 0..MaxRemovals

(* An entry the call is done with, or at; one it is still to come to.         *)
Passed(c, e) == e \notin c.page /\ (e \in Listed(c) => Rank(Listed(c), e) < Limit(c))
Beyond(c, e) == Rank(Listed(c), e) >= Limit(c) /\ (c.asked => c.full)

Once ==
  uploads = 0 =>
    /\ \A o \in Paths : found[o] <= 1
    /\ \A i \in Calls :
         /\ \A o \in Paths :
              found[o] > 0 /\ IsStrictPrefix(stack[i].prefix, o) =>
                Passed(stack[i], EntryOf(stack[i].prefix, o))
         /\ i < Len(stack) => Passed(stack[i], Towards(i))
         /\ \A e \in stack[i].page \cap Listed(stack[i]) :
              Rank(Listed(stack[i]), e) < Limit(stack[i])

Still ==
  /\ removals = 0 => vanished = {}
  /\ uploads = 0 /\ removals = 0 =>
       /\ kept = bucket
       /\ \A o \in Paths : found[o] > 0 => o \in bucket
       /\ \A i \in Calls : stack[i].page \subseteq Listed(stack[i])

Cause(o) == \E v \in vanished : IsStrictPrefix(v.prefix, o) /\ Before(v.entry, EntryOf(v.prefix, o))

Done(o) == found[o] > 0 \/ Cause(o)

Ahead(i, e) ==
  \/ e \in stack[i].page
  \/ Beyond(stack[i], e)
  \/ i < Len(stack) /\ e = Towards(i)

Missed ==
  /\ \A i \in Calls : \A o \in kept :
       IsStrictPrefix(stack[i].prefix, o) => Done(o) \/ Ahead(i, EntryOf(stack[i].prefix, o))
  /\ pc = "done" => \A o \in kept : Done(o)
-------------------------------------------------------------------------------
(* What happens to the stack *)

LEMMA CallFields ==
  \A c \in CallType :
    /\ c.prefix \in Seq(Nat) /\ c.offset \in Nat /\ c.asked \in BOOLEAN
    /\ c.page \subseteq EntryType /\ c.full \in BOOLEAN
BY DEF CallType

LEMMA TopFacts ==
  ASSUME Frame, stack # <<>>
  PROVE  /\ Len(stack) \in Nat \ {0} /\ Len(stack) \in Calls
         /\ Top = stack[Len(stack)] /\ Top \in CallType /\ CallOK(Len(stack))
         /\ Top.prefix \in Seq(Nat) /\ Len(Top.prefix) = Len(stack) - 1
         /\ Top.offset \in Nat /\ Top.page \subseteq EntryType
<1>1. stack \in Seq(CallType) /\ \A i \in Calls : CallOK(i)
  BY DEF Frame, Stacked
<1>2. Len(stack) \in Nat \ {0}
  BY <1>1, EmptySeq, LenProperties
<1>3. Len(stack) \in Calls
  BY <1>2 DEF Calls
<1>4. Top = stack[Len(stack)]
  BY DEF Top, Last
<1>5. CallOK(Len(stack))
  BY <1>1, <1>3
<1> QED BY <1>2, <1>3, <1>4, <1>5, CallFields DEF CallOK

LEMMA Replacing ==
  ASSUME NEW s \in Seq(CallType), s # <<>>, NEW c \in CallType
  PROVE  LET t == [s EXCEPT ![Len(s)] = c]
         IN  /\ t \in Seq(CallType) /\ t # <<>> /\ Len(t) = Len(s)
             /\ \A i \in 1..Len(s) : t[i] = IF i = Len(s) THEN c ELSE s[i]
<1>1. Len(s) \in Nat /\ Len(s) # 0
  BY EmptySeq, LenProperties
<1>2. Len(s) \in 1..Len(s)
  BY <1>1
<1> DEFINE t == [s EXCEPT ![Len(s)] = c]
<1>3. t \in Seq(CallType) /\ Len(t) = Len(s)
  BY <1>2, ExceptSeq
<1>4. \A i \in 1..Len(s) : t[i] = IF i = Len(s) THEN c ELSE s[i]
  BY <1>2, ExceptSeq
<1>5. t # <<>>
  <2> HIDE DEF t
  <2> QED BY <1>1, <1>3, EmptySeq
<1> QED BY <1>3, <1>4, <1>5

LEMMA Replaced ==
  ASSUME Frame, stack # <<>>, NEW c \in CallType, c.prefix = Top.prefix, SetTop(c)
  PROVE  /\ stack' \in Seq(CallType) /\ stack' # <<>>
         /\ Len(stack') = Len(stack) /\ Calls' = Calls /\ Top' = c
         /\ \A i \in Calls : stack'[i] = IF i = Len(stack) THEN c ELSE stack[i]
         /\ \A i : Towards(i)' = Towards(i)
<1>1. PICK s \in Seq(CallType) : s = stack /\ s # <<>>
  BY DEF Frame, Stacked
<1>2. stack' = [s EXCEPT ![Len(s)] = c]
  BY <1>1 DEF SetTop
<1>3. /\ stack' \in Seq(CallType) /\ stack' # <<>> /\ Len(stack') = Len(stack)
      /\ \A i \in 1..Len(s) : stack'[i] = IF i = Len(s) THEN c ELSE s[i]
  BY <1>1, <1>2, Replacing
<1>4. Len(s) \in 1..Len(s)
  BY <1>1, TopFacts DEF Calls
<1>5. Top' = c
  BY <1>1, <1>3, <1>4 DEF Top, Last
<1> QED BY <1>1, <1>3, <1>5 DEF Calls, Towards

LEMMA NewCall ==
  ASSUME NEW p \in Seq(Nat)
  PROVE  /\ Call(p) \in CallType /\ Call(p).prefix = p /\ Call(p).offset = 0
         /\ Call(p).asked = FALSE /\ Call(p).page = {}
BY DEF Call, CallType

LEMMA Appending ==
  ASSUME NEW s \in Seq(CallType), NEW d \in CallType
  PROVE  /\ Append(s, d) \in Seq(CallType) /\ Append(s, d) # <<>>
         /\ Len(Append(s, d)) = Len(s) + 1 /\ Append(s, d)[Len(s) + 1] = d
         /\ \A i \in 1..Len(s) : Append(s, d)[i] = s[i]
BY AppendProperties

LEMMA Pushed ==
  ASSUME Frame, stack # <<>>, NEW c \in CallType, c.prefix = Top.prefix, NEW a \in Nat,
         stack' = Append([stack EXCEPT ![Len(stack)] = c], Call(Append(Top.prefix, a)))
  PROVE  /\ stack' \in Seq(CallType) /\ stack' # <<>>
         /\ Len(stack') = Len(stack) + 1
         /\ Top' = Call(Append(Top.prefix, a))
         /\ stack'[Len(stack) + 1] = Call(Append(Top.prefix, a))
         /\ \A i \in Calls : stack'[i] = IF i = Len(stack) THEN c ELSE stack[i]
         /\ \A i \in Calls :
              Towards(i)' = IF i = Len(stack) THEN [name |-> a, folder |-> TRUE] ELSE Towards(i)
<1>1. PICK s \in Seq(CallType) : s = stack /\ s # <<>>
  BY DEF Frame, Stacked
<1>2. PICK t \in Seq(CallType) : t = [s EXCEPT ![Len(s)] = c] /\ Len(t) = Len(s)
                                 /\ \A i \in 1..Len(s) : t[i] = IF i = Len(s) THEN c ELSE s[i]
  <2> DEFINE r == [s EXCEPT ![Len(s)] = c]
  <2>1. /\ r \in Seq(CallType) /\ Len(r) = Len(s)
        /\ \A i \in 1..Len(s) : r[i] = IF i = Len(s) THEN c ELSE s[i]
    BY <1>1, Replacing
  <2>2. r = [s EXCEPT ![Len(s)] = c]
    OBVIOUS
  <2> HIDE DEF r
  <2> QED BY <2>1, <2>2
<1>3. PICK d \in CallType : d = Call(Append(Top.prefix, a)) /\ d.prefix = Append(Top.prefix, a)
  BY TopFacts, Child, NewCall
<1>4. stack' = Append(t, d)
  BY <1>1, <1>2, <1>3
<1>5. /\ stack' \in Seq(CallType) /\ Len(stack') = Len(s) + 1 /\ stack' # <<>>
      /\ stack'[Len(s) + 1] = d
      /\ \A i \in 1..Len(s) : stack'[i] = t[i]
  <2>1. /\ Append(t, d) \in Seq(CallType) /\ Append(t, d) # <<>>
        /\ Len(Append(t, d)) = Len(t) + 1 /\ Append(t, d)[Len(t) + 1] = d
        /\ \A i \in 1..Len(t) : Append(t, d)[i] = t[i]
    BY Appending
  <2>2. Len(t) = Len(s)
    BY <1>2
  <2> QED BY <1>4, <2>1, <2>2
<1>6. Top' = d
  BY <1>5 DEF Top, Last
<1>7. /\ \A j \in 1..(Len(s) - 1) : d.prefix[j] = Top.prefix[j]
      /\ d.prefix[Len(s)] = a
  <2>1. Len(Top.prefix) = Len(s) - 1 /\ Len(s) \in Nat
    BY <1>1, TopFacts
  <2>2. Len(Top.prefix) + 1 = Len(s) /\ Top.prefix \in Seq(Nat)
    BY <2>1, TopFacts
  <2>3. /\ \A j \in 1..Len(Top.prefix) : Append(Top.prefix, a)[j] = Top.prefix[j]
        /\ Append(Top.prefix, a)[Len(Top.prefix) + 1] = a
    BY <2>2, Child
  <2> QED BY <1>3, <2>1, <2>2, <2>3
<1>8. ASSUME NEW i \in Calls PROVE stack'[i] = IF i = Len(stack) THEN c ELSE stack[i]
  <2>1. i \in 1..Len(s)
    BY <1>1 DEF Calls
  <2> QED BY <1>1, <1>2, <1>5, <2>1
<1>9. ASSUME NEW i \in Calls
      PROVE  Towards(i)' = IF i = Len(stack) THEN [name |-> a, folder |-> TRUE] ELSE Towards(i)
  <2>1. i \in 1..(Len(s) - 1) \/ i = Len(s)
    BY <1>1, LenProperties DEF Calls
  <2> QED BY <1>1, <1>6, <1>7, <2>1 DEF Towards
<1> QED BY <1>1, <1>3, <1>5, <1>6, <1>8, <1>9

LEMMA Popped ==
  ASSUME Frame, stack # <<>>, stack' = Front(stack)
  PROVE  /\ stack' \in Seq(CallType)
         /\ Len(stack') = Len(stack) - 1
         /\ stack' = <<>> <=> Len(stack) = 1
         /\ \A i \in 1..(Len(stack) - 1) : stack'[i] = stack[i]
         /\ Len(stack) # 1 => Top' = stack[Len(stack) - 1]
         /\ \A i \in 1..(Len(stack) - 2) : Towards(i)' = Towards(i)
<1>1. PICK s \in Seq(CallType) : s = stack /\ s # <<>>
  BY DEF Frame, Stacked
<1>2. PICK n \in Nat \ {0} : n = Len(s)
  BY <1>1, TopFacts
<1>3. stack' = SubSeq(s, 1, n - 1)
  BY <1>1, <1>2 DEF Front
<1>4. /\ stack' \in Seq(CallType) /\ Len(stack') = n - 1
      /\ \A i \in 1..(n - 1) : stack'[i] = s[i]
  BY <1>2, <1>3
<1>5. stack' = <<>> <=> n = 1
  BY <1>2, <1>4, EmptySeq
<1>6. n # 1 => Top' = s[n - 1]
  <2> HAVE n # 1
  <2>1. n - 1 \in 1..(n - 1)
    BY <1>2
  <2> QED BY <1>4, <2>1 DEF Top, Last
<1>7. ASSUME NEW i \in 1..(n - 2) PROVE Towards(i)' = Towards(i)
  <2>1. n # 1 /\ n - 1 \in 1..n /\ i \in 1..((n - 1) - 1)
    BY <1>2, <1>7
  <2>2. CallOK(n - 1)
    BY <1>1, <1>2, <2>1 DEF Frame, Stacked, Calls
  <2>3. s[n - 1].prefix[i] = Top.prefix[i]
    BY <1>1, <2>1, <2>2 DEF CallOK
  <2> QED BY <1>6, <2>1, <2>3 DEF Towards
<1> QED BY <1>1, <1>2, <1>4, <1>5, <1>6, <1>7

-------------------------------------------------------------------------------
(* What each step does to the innermost call *)

LEMMA Listing ==
  ASSUME Frame, pc = "listing"
  PROVE  stack # <<>>
BY DEF Frame

LEMMA RequestEffect ==
  ASSUME Frame, Request
  PROVE  /\ pc = "listing" /\ stack # <<>> /\ ~Top.asked
         /\ \E c \in CallType :
              /\ SetTop(c) /\ c.prefix = Top.prefix /\ c.offset = Top.offset
              /\ c.asked = TRUE /\ c.page = Page(Listed(Top), Top.offset)
              /\ c.full = (Cardinality(c.page) = PageSize)
<1> pc = "listing" /\ stack # <<>> /\ ~Top.asked
  BY Listing DEF Request
<1>1. PICK c \in CallType : c = Top
  BY TopFacts
<1> DEFINE P == Page(Entries(bucket, Top.prefix), Top.offset)
           d == [c EXCEPT !.asked = TRUE, !.page = P, !.full = Cardinality(P) = PageSize]
<1>2. P \in SUBSET EntryType
  BY TopFacts, EntriesFacts DEF Page, Frame
<1>3. SetTop(d)
  BY <1>1 DEF Request
<1>4. PICK b \in BOOLEAN : b = (Cardinality(P) = PageSize)
  OBVIOUS
<1>5. /\ d \in CallType /\ d.prefix = c.prefix /\ d.offset = c.offset
      /\ d.asked = TRUE /\ d.page = P /\ d.full = (Cardinality(P) = PageSize)
  <2>1. d = [c EXCEPT !.asked = TRUE, !.page = P, !.full = b]
    BY <1>4
  <2> HIDE DEF P, d
  <2>2. d = [prefix |-> c.prefix, offset |-> c.offset, asked |-> TRUE, page |-> P, full |-> b]
    BY <2>1 DEF CallType
  <2> QED BY <1>2, <1>4, <2>2 DEF CallType
<1>6. P = Page(Listed(Top), Top.offset)
  BY DEF Listed
<1> HIDE DEF d, P
<1> QED BY <1>1, <1>3, <1>5, <1>6

LEMMA TakeEffect ==
  ASSUME Frame, NEW e, TakeObject(e)
  PROVE  /\ pc = "listing" /\ stack # <<>> /\ Top.asked /\ e \in Top.page /\ ~e.folder
         /\ \E c \in CallType :
              /\ SetTop(c) /\ c.prefix = Top.prefix /\ c.offset = Top.offset
              /\ c.asked = Top.asked /\ c.page = Top.page \ {e} /\ c.full = Top.full
<1> pc = "listing" /\ stack # <<>> /\ Top.asked /\ e \in Top.page /\ ~e.folder
  BY Listing DEF TakeObject, NextEntry
<1>1. PICK c \in CallType : c = Top
  BY TopFacts
<1>2. PICK P \in SUBSET EntryType : P = c.page \ {e}
  BY <1>1, CallFields
<1>3. [c EXCEPT !.page = @ \ {e}] = [c EXCEPT !.page = P]
  BY <1>2
<1>4. SetTop([c EXCEPT !.page = P])
  BY <1>1, <1>3 DEF TakeObject
<1>5. LET d == [c EXCEPT !.page = P]
      IN  /\ d \in CallType /\ d.prefix = c.prefix /\ d.offset = c.offset
          /\ d.asked = c.asked /\ d.page = P /\ d.full = c.full
  BY BucketAssumption DEF CallType
<1>6. PICK d : d = [c EXCEPT !.page = P]
  OBVIOUS
<1> QED BY <1>1, <1>2, <1>4, <1>5, <1>6

LEMMA EnterEffect ==
  ASSUME Frame, NEW e, EnterFolder(e)
  PROVE  /\ pc = "listing" /\ stack # <<>> /\ Top.asked /\ e \in Top.page /\ e.folder
         /\ e.name \in Nat /\ e = [name |-> e.name, folder |-> TRUE]
         /\ \E c \in CallType :
              /\ stack' = Append([stack EXCEPT ![Len(stack)] = c], Call(Append(Top.prefix, e.name)))
              /\ c.prefix = Top.prefix /\ c.offset = Top.offset
              /\ c.asked = Top.asked /\ c.page = Top.page \ {e} /\ c.full = Top.full
<1> pc = "listing" /\ stack # <<>> /\ Top.asked /\ e \in Top.page /\ e.folder
  BY Listing DEF EnterFolder, NextEntry
<1>1. PICK c \in CallType : c = Top
  BY TopFacts
<1>2. PICK P \in SUBSET EntryType : P = c.page \ {e}
  BY <1>1, CallFields
<1>3. [stack EXCEPT ![Len(stack)].page = @ \ {e}] = [stack EXCEPT ![Len(stack)] = [c EXCEPT !.page = P]]
  <2>1. c = stack[Len(stack)] /\ P = stack[Len(stack)].page \ {e}
    BY <1>1, <1>2, TopFacts
  <2> QED BY <2>1
<1>4. stack' = Append([stack EXCEPT ![Len(stack)] = [c EXCEPT !.page = P]], Call(Append(Top.prefix, e.name)))
  BY <1>3 DEF EnterFolder
<1>5. LET d == [c EXCEPT !.page = P]
      IN  /\ d \in CallType /\ d.prefix = c.prefix /\ d.offset = c.offset
          /\ d.asked = c.asked /\ d.page = P /\ d.full = c.full
  BY BucketAssumption DEF CallType
<1>6. PICK d : d = [c EXCEPT !.page = P]
  OBVIOUS
<1>7. e.name \in Nat /\ e = [name |-> e.name, folder |-> TRUE]
  <2>1. e \in EntryType
    BY TopFacts
  <2>2. e.name \in Nat /\ e.folder \in BOOLEAN /\ e = [name |-> e.name, folder |-> e.folder]
    BY <2>1 DEF EntryType
  <2>3. e.folder = TRUE
    BY <2>2
  <2> QED BY <2>2, <2>3
<1> QED BY <1>1, <1>2, <1>4, <1>5, <1>6, <1>7

LEMMA NextPageEffect ==
  ASSUME Frame, NextPage
  PROVE  /\ pc = "listing" /\ stack # <<>> /\ Top.asked /\ Top.page = {} /\ Top.full
         /\ \E c \in CallType :
              /\ SetTop(c) /\ c.prefix = Top.prefix /\ c.offset = Top.offset + PageSize
              /\ c.asked = FALSE /\ c.page = {}
<1> pc = "listing" /\ stack # <<>> /\ Top.asked /\ Top.page = {} /\ Top.full
  BY Listing DEF NextPage, PageIsDone
<1>1. PICK c \in CallType : c = Top
  BY TopFacts
<1>2. PICK d : d = [c EXCEPT !.offset = c.offset + PageSize, !.asked = FALSE]
  OBVIOUS
<1>3. SetTop(d)
  <2>1. [c EXCEPT !.offset = @ + PageSize, !.asked = FALSE] = [c EXCEPT !.offset = c.offset + PageSize, !.asked = FALSE]
    OBVIOUS
  <2> QED BY <1>1, <1>2, <2>1 DEF NextPage
<1>4. d = [prefix |-> c.prefix, offset |-> c.offset + PageSize, asked |-> FALSE,
           page |-> c.page, full |-> c.full]
  BY <1>2 DEF CallType
<1>5. d \in CallType
  <2>1. c.offset + PageSize \in Nat
    BY CallFields, BucketAssumption
  <2> QED BY <1>4, <2>1 DEF CallType
<1> QED BY <1>1, <1>3, <1>4, <1>5

LEMMA ReturnEffect ==
  ASSUME Frame, Return
  PROVE  /\ pc = "listing" /\ stack # <<>> /\ Top.asked /\ Top.page = {} /\ ~Top.full
         /\ stack' = Front(stack)
         /\ pc' = IF Len(stack) = 1 THEN "done" ELSE pc
BY Listing DEF Return, PageIsDone

-------------------------------------------------------------------------------
(* The type invariant *)

LEMMA FoldersFacts ==
  ASSUME NEW o \in Paths, NEW p
  PROVE  /\ p \in Folders(o) => p \in Seq(Nat)
         /\ p \in Seq(Nat) => (p \in Folders(o) <=> IsStrictPrefix(p, o))
<1>1. o \in Seq(Nat) /\ Len(o) \in Nat \ {0}
  BY PathFacts
<1>2. ASSUME NEW n \in 0..(Len(o) - 1)
      PROVE  /\ SubSeq(o, 1, n) \in Seq(Nat) /\ Len(SubSeq(o, 1, n)) = n
             /\ \A j \in 1..n : SubSeq(o, 1, n)[j] = o[j]
  BY <1>1
<1>3. ASSUME NEW n \in 0..(Len(o) - 1), p = SubSeq(o, 1, n)
      PROVE  p \in Seq(Nat) /\ IsStrictPrefix(p, o)
  <2>1. p \in Seq(Nat) /\ Len(p) = n /\ \A j \in 1..n : p[j] = o[j]
    BY <1>2, <1>3
  <2>2. Len(p) < Len(o) /\ \A j \in 1..Len(p) : o[j] = p[j]
    BY <1>1, <1>3, <2>1
  <2>3. IsStrictPrefix(p, o)
    BY <1>1, <2>1, <2>2, StrictPrefix
  <2> QED BY <2>1, <2>3
<1>4. ASSUME p \in Seq(Nat), IsStrictPrefix(p, o)
      PROVE  p \in Folders(o)
  <2>1. PICK n \in Nat : n = Len(p)
    BY <1>4, LenProperties
  <2>2. n < Len(o) /\ \A j \in 1..n : o[j] = p[j]
    BY <1>1, <1>4, <2>1, StrictPrefix
  <2>3. n \in 0..(Len(o) - 1)
    BY <1>1, <2>2
  <2>4. PICK q \in Seq(Nat) : q = SubSeq(o, 1, n) /\ Len(q) = n /\ \A j \in 1..n : q[j] = o[j]
    BY <1>2, <2>3
  <2>5. p = q
    BY <1>4, <2>1, <2>2, <2>4, SeqEqual
  <2> QED BY <2>3, <2>4, <2>5 DEF Folders
<1> QED BY <1>3, <1>4 DEF Folders

LEMMA SetStacked ==
  ASSUME Frame, stack # <<>>, NEW c \in CallType, c.prefix = Top.prefix, SetTop(c),
         c.page \subseteq Entries(Paths, Top.prefix), ~c.asked => c.page = {}
  PROVE  Stacked' /\ stack' # <<>>
<1>1. /\ stack' \in Seq(CallType) /\ stack' # <<>>
      /\ Len(stack') = Len(stack) /\ Calls' = Calls /\ Top' = c
      /\ \A i \in Calls : stack'[i] = IF i = Len(stack) THEN c ELSE stack[i]
  BY Replaced
<1>2. ASSUME NEW i \in Calls PROVE CallOK(i)'
  <2>1. CallOK(i) /\ CallOK(Len(stack)) /\ Top = stack[Len(stack)]
    BY TopFacts DEF Frame, Stacked
  <2>2. CASE i = Len(stack)
    BY <1>1, <2>1, <2>2 DEF CallOK
  <2>3. CASE i # Len(stack)
    BY <1>1, <2>1, <2>3 DEF CallOK
  <2> QED BY <2>2, <2>3
<1> QED BY <1>1, <1>2 DEF Stacked

LEMMA PushStacked ==
  ASSUME Frame, stack # <<>>, NEW c \in CallType, c.prefix = Top.prefix, NEW a \in Nat,
         stack' = Append([stack EXCEPT ![Len(stack)] = c], Call(Append(Top.prefix, a))),
         c.page \subseteq Top.page, c.asked
  PROVE  Stacked' /\ stack' # <<>>
<1>1. /\ stack' \in Seq(CallType) /\ stack' # <<>>
      /\ Len(stack') = Len(stack) + 1
      /\ Top' = Call(Append(Top.prefix, a))
      /\ stack'[Len(stack) + 1] = Call(Append(Top.prefix, a))
      /\ \A i \in Calls : stack'[i] = IF i = Len(stack) THEN c ELSE stack[i]
  BY Pushed
<1>2. PICK p \in Seq(Nat) : p = Top.prefix /\ Len(p) = Len(stack) - 1
  BY TopFacts
<1>3. /\ Append(p, a) \in Seq(Nat) /\ Len(Append(p, a)) = Len(p) + 1
      /\ \A j \in 1..Len(p) : Append(p, a)[j] = p[j]
  BY Child
<1>4. PICK d \in CallType : /\ d = Call(Append(p, a)) /\ d.prefix = Append(p, a)
                            /\ d.asked = FALSE /\ d.page = {}
  BY <1>3, NewCall
<1>5. Len(stack) \in Nat \ {0}
  BY TopFacts
<1>6. ASSUME NEW i \in Calls PROVE CallOK(i)'
  <2>1. CallOK(i) /\ CallOK(Len(stack)) /\ Top = stack[Len(stack)]
    BY TopFacts DEF Frame, Stacked
  <2>2. i \in 1..Len(stack)
    BY DEF Calls
  <2>3. \A j \in 1..(i - 1) : Top'.prefix[j] = Top.prefix[j]
    BY <1>1, <1>2, <1>3, <1>4, <1>5, <2>2
  <2>4. CASE i = Len(stack)
    <3>1. stack'[i] = c
      BY <1>1, <2>4
    <3>2. c.prefix = stack[i].prefix /\ c.page \subseteq stack[i].page
      BY <2>1, <2>4
    <3>3. /\ Len(c.prefix) = i - 1 /\ \A j \in 1..(i - 1) : c.prefix[j] = Top.prefix[j]
          /\ c.page \subseteq Entries(Paths, c.prefix)
      BY <2>1, <3>2 DEF CallOK
    <3>4. \A j \in 1..(i - 1) : c.prefix[j] = Top'.prefix[j]
      BY <2>3, <3>3
    <3> QED BY <3>1, <3>3, <3>4 DEF CallOK
  <2>5. CASE i # Len(stack)
    <3>1. stack'[i] = stack[i]
      BY <1>1, <2>5
    <3> QED BY <2>1, <2>3, <3>1 DEF CallOK
  <2> QED BY <2>4, <2>5
<1>7. ASSUME NEW i \in Nat, i = Len(stack) + 1 PROVE CallOK(i)'
  <2>1. stack'[i] = d /\ Top' = d
    BY <1>1, <1>2, <1>4, <1>7
  <2>2. Len(d.prefix) = i - 1
    BY <1>2, <1>3, <1>4, <1>5, <1>7
  <2> QED BY <1>4, <2>1, <2>2 DEF CallOK
<1>8. \A i \in Calls' : i \in Calls \/ (i \in Nat /\ i = Len(stack) + 1)
  BY <1>1, <1>5 DEF Calls
<1> QED BY <1>1, <1>6, <1>7, <1>8 DEF Stacked

LEMMA PopStacked ==
  ASSUME Frame, stack # <<>>, stack' = Front(stack)
  PROVE  Stacked' /\ (stack' = <<>> <=> Len(stack) = 1)
<1>1. /\ stack' \in Seq(CallType)
      /\ Len(stack') = Len(stack) - 1
      /\ stack' = <<>> <=> Len(stack) = 1
      /\ \A i \in 1..(Len(stack) - 1) : stack'[i] = stack[i]
      /\ Len(stack) # 1 => Top' = stack[Len(stack) - 1]
  BY Popped
<1>2. PICK n \in Nat \ {0} : n = Len(stack)
  BY TopFacts
<1>3. ASSUME NEW i \in Calls' PROVE CallOK(i)'
  <2>1. i \in 1..(n - 1) /\ n # 1 /\ i \in Calls /\ n - 1 \in Calls
    BY <1>1, <1>2, <1>3 DEF Calls
  <2>2. CallOK(i) /\ CallOK(n - 1)
    BY <2>1 DEF Frame, Stacked
  <2>3. stack'[i] = stack[i] /\ Top' = stack[n - 1]
    BY <1>1, <1>2, <2>1
  <2>4. \A j \in 1..(i - 1) : stack[i].prefix[j] = Top'.prefix[j]
    <3> TAKE j \in 1..(i - 1)
    <3>1. j \in 1..((n - 1) - 1)
      BY <1>2, <2>1
    <3> QED BY <2>2, <2>3, <3>1 DEF CallOK
  <2> QED BY <2>2, <2>3, <2>4 DEF CallOK
<1> QED BY <1>1, <1>3 DEF Stacked

LEMMA PageOf ==
  ASSUME Frame, stack # <<>>
  PROVE  /\ Page(Listed(Top), Top.offset) \subseteq Listed(Top)
         /\ Listed(Top) \subseteq Entries(Paths, Top.prefix)
         /\ Top.page \subseteq Entries(Paths, Top.prefix)
BY TopFacts DEF CallOK, Page, Listed, Entries, Frame

(* The object an entry stands for.                                            *)
LEMMA TakenObject ==
  ASSUME Frame, NEW e, TakeObject(e)
  PROVE  LET o == Append(Top.prefix, e.name)
         IN  /\ o \in Paths /\ IsStrictPrefix(Top.prefix, o) /\ EntryOf(Top.prefix, o) = e
             /\ \A S \in SUBSET Paths : e \in Entries(S, Top.prefix) => o \in S
<1>1. PICK p \in Seq(Nat) : p = Top.prefix
  BY TakeEffect, TopFacts
<1>2. e \in Top.page /\ ~e.folder /\ stack # <<>>
  BY TakeEffect
<1>3. e \in Entries(Paths, p)
  BY <1>1, <1>2, PageOf
<1>4. ASSUME NEW S \in SUBSET Paths, e \in Entries(S, p)
      PROVE  Append(p, e.name) \in S /\ IsStrictPrefix(p, Append(p, e.name)) /\ EntryOf(p, Append(p, e.name)) = e
  <2>1. PICK x \in S : IsStrictPrefix(p, x) /\ e = EntryOf(p, x)
    BY <1>4, EntriesFacts
  <2>2. x \in Seq(Nat)
    BY PathFacts
  <2>3. x = Append(p, e.name)
    BY <1>2, <2>1, <2>2, ObjectEntry
  <2> QED BY <2>1, <2>3
<1> QED BY <1>1, <1>3, <1>4

LEMMA FrameInit == Init => Frame
<1> SUFFICES ASSUME Init PROVE Frame
  OBVIOUS
<1>1. <<>> \in Seq(Nat) /\ Len(<<>>) = 0
  OBVIOUS
<1>2. PICK d \in CallType : d = Call(<<>>) /\ d.prefix = <<>> /\ d.page = {}
  BY <1>1, NewCall
<1>3. stack = <<d>>
  BY <1>2 DEF Init
<1>4. stack \in Seq(CallType) /\ Len(stack) = 1 /\ stack[1] = d /\ stack # <<>>
  BY <1>3
<1>5. CallOK(1)
  BY <1>1, <1>2, <1>4 DEF CallOK
<1>6. Calls = {1}
  BY <1>4 DEF Calls
<1> QED BY <1>4, <1>5, <1>6, BucketAssumption DEF Init, Frame, Stacked

LEMMA FrameNext ==
  ASSUME Frame, [Next]_vars
  PROVE  Frame'
<1> USE DEF Frame
<1>1. CASE UNCHANGED vars
  BY <1>1 DEF vars, Stacked, Calls, CallOK, Top
<1>2. CASE Request
  <2>1. PICK c \in CallType : SetTop(c) /\ c.prefix = Top.prefix /\ c.asked = TRUE /\ c.page = Page(Listed(Top), Top.offset)
    BY <1>2, RequestEffect
  <2>2. stack # <<>>
    BY <1>2, RequestEffect
  <2>3. c.page \subseteq Entries(Paths, Top.prefix)
    BY <2>1, <2>2, PageOf
  <2>4. Stacked' /\ stack' # <<>>
    BY <2>1, <2>2, <2>3, SetStacked
  <2> QED BY <1>2, <2>2, <2>4 DEF Request, changeVars
<1>3. CASE RequestFails
  <2>1. stack # <<>>
    BY <1>3 DEF RequestFails
  <2>2. Stacked' 
    BY <1>3 DEF RequestFails, Stacked, Calls, CallOK, Top
  <2> QED BY <1>3, <2>1, <2>2 DEF RequestFails, changeVars
<1>4. ASSUME NEW e, TakeObject(e) PROVE Frame'
  <2>1. PICK c \in CallType : SetTop(c) /\ c.prefix = Top.prefix /\ c.asked = Top.asked /\ c.page = Top.page \ {e}
    BY <1>4, TakeEffect
  <2>2. stack # <<>> /\ Top.asked
    BY <1>4, TakeEffect
  <2>3. c.page \subseteq Entries(Paths, Top.prefix)
    BY <2>1, <2>2, PageOf
  <2>4. Stacked' /\ stack' # <<>>
    BY <2>1, <2>2, <2>3, SetStacked
  <2>5. found' \in [Paths -> 0..2]
    <3>1. PICK o \in Paths : o = Append(Top.prefix, e.name)
      BY <1>4, TakenObject
    <3>2. found' = [found EXCEPT ![o] = IF @ = 0 THEN 1 ELSE 2]
      BY <1>4, <3>1 DEF TakeObject
    <3> QED BY <3>2
  <2> QED BY <1>4, <2>2, <2>4, <2>5 DEF TakeObject, changeVars
<1>5. ASSUME NEW e, EnterFolder(e) PROVE Frame'
  <2>1. PICK c \in CallType :
          /\ stack' = Append([stack EXCEPT ![Len(stack)] = c], Call(Append(Top.prefix, e.name)))
          /\ c.prefix = Top.prefix /\ c.asked = Top.asked /\ c.page = Top.page \ {e}
    BY <1>5, EnterEffect
  <2>2. stack # <<>> /\ Top.asked /\ e.name \in Nat
    BY <1>5, EnterEffect
  <2>3. Stacked' /\ stack' # <<>>
    BY <2>1, <2>2, PushStacked
  <2> QED BY <1>5, <2>2, <2>3 DEF EnterFolder, changeVars
<1>6. CASE NextPage
  <2>1. PICK c \in CallType : SetTop(c) /\ c.prefix = Top.prefix /\ c.page = {}
    BY <1>6, NextPageEffect
  <2>2. stack # <<>>
    BY <1>6, NextPageEffect
  <2>3. Stacked' /\ stack' # <<>>
    BY <2>1, <2>2, SetStacked
  <2> QED BY <1>6, <2>2, <2>3 DEF NextPage, changeVars
<1>7. CASE Return
  <2>1. stack # <<>> /\ stack' = Front(stack) /\ pc = "listing" /\ pc' = IF Len(stack) = 1 THEN "done" ELSE pc
    BY <1>7, ReturnEffect
  <2>2. Stacked' /\ (stack' = <<>> <=> Len(stack) = 1)
    BY <2>1, PopStacked
  <2> QED BY <1>7, <2>1, <2>2 DEF Return, changeVars
<1>8. ASSUME NEW o \in Paths, Upload(o) PROVE Frame'
  <2>1. Stacked'
    BY <1>8 DEF Upload, Stacked, Calls, CallOK, Top
  <2>2. uploads' \in 0..MaxUploads
    BY <1>8, BucketAssumption DEF Upload
  <2> QED BY <1>8, <2>1, <2>2 DEF Upload
<1>9. ASSUME NEW o \in Paths, RemoveObject(o) PROVE Frame'
  <2>1. Stacked'
    BY <1>9 DEF RemoveObject, Stacked, Calls, CallOK, Top
  <2>2. removals' \in 0..MaxRemovals
    BY <1>9, BucketAssumption DEF RemoveObject
  <2>3. vanished' \subseteq [prefix : Seq(Nat), entry : EntryType]
    <3>1. \A p \in Folders(o) : p \in Seq(Nat) /\ EntryOf(p, o) \in EntryType
      BY FoldersFacts, EntryFacts, PathFacts
    <3> QED BY <1>9, <3>1 DEF RemoveObject
  <2>4. bucket' \subseteq Paths /\ kept' \subseteq bucket'
    BY <1>9 DEF RemoveObject
  <2> QED BY <1>9, <2>1, <2>2, <2>3, <2>4 DEF RemoveObject
<1> QED BY <1>1, <1>2, <1>3, <1>4, <1>5, <1>6, <1>7, <1>8, <1>9 DEF Next, Step, Over

(* TypeOK has the nesting of the calls, of which the innermost one's path is  *)
(* the stronger form.                                                         *)
LEMMA FrameType == Frame => TypeOK
<1> SUFFICES ASSUME Frame PROVE TypeOK
  OBVIOUS
<1>1. ASSUME NEW i \in Calls
      PROVE  /\ stack[i] \in CallType /\ Len(stack[i].prefix) = i - 1
             /\ i > 1 => Front(stack[i].prefix) = stack[i - 1].prefix
  <2>1. CallOK(i)
    BY DEF Frame, Stacked
  <2> SUFFICES ASSUME i > 1 PROVE Front(stack[i].prefix) = stack[i - 1].prefix
    BY <2>1 DEF CallOK
  <2>2. i \in Nat /\ i - 1 \in Calls
    BY LenProperties DEF Calls, Frame, Stacked
  <2>3. CallOK(i - 1)
    BY <2>2 DEF Frame, Stacked
  <2>4. PICK p \in Seq(Nat) : p = stack[i].prefix /\ Len(p) = i - 1
    BY <2>1, CallFields DEF CallOK
  <2>5. PICK q \in Seq(Nat) : q = stack[i - 1].prefix /\ Len(q) = i - 2
    BY <2>2, <2>3, CallFields DEF CallOK
  <2>6. \A j \in 1..(i - 2) : q[j] = p[j]
    <3> TAKE j \in 1..(i - 2)
    <3>1. j \in 1..((i - 1) - 1) /\ j \in 1..(i - 1)
      BY <2>2
    <3> QED BY <2>1, <2>3, <2>4, <2>5, <3>1 DEF CallOK
  <2>7. PICK r \in Seq(Nat) : r = Front(p) /\ Len(r) = i - 2 /\ \A j \in 1..(i - 2) : r[j] = p[j]
    <3>1. PICK m \in Nat : m = i - 2 /\ m = Len(p) - 1
      BY <2>2, <2>4
    <3>2. Front(p) = SubSeq(p, 1, m)
      BY <3>1 DEF Front
    <3>3. m <= Len(p) /\ Len(p) \in Nat
      BY <3>1, LenProperties
    <3>4. /\ SubSeq(p, 1, m) \in Seq(Nat) /\ Len(SubSeq(p, 1, m)) = m
          /\ \A j \in 1..m : SubSeq(p, 1, m)[j] = p[j]
      BY <3>3
    <3> QED BY <3>1, <3>2, <3>4
  <2>8. r = q
    <3>1. Len(r) = Len(q) /\ \A j \in 1..Len(r) : r[j] = q[j]
      BY <2>5, <2>6, <2>7
    <3> QED BY <3>1, SeqEqual
  <2> QED BY <2>4, <2>5, <2>7, <2>8
<1> QED BY <1>1 DEF Frame, TypeOK, Calls

(* The listing keeps its types, and its calls are nested as the folders are:  *)
(* listObjects calls itself with the path of a folder in the one it lists.    *)
THEOREM TypeCorrect == Spec => []TypeOK
<1>1. Frame /\ [Next]_vars => Frame'
  BY FrameNext
<1> QED BY <1>1, FrameInit, FrameType, PTL DEF Spec

-------------------------------------------------------------------------------
(* Without uploads nothing is listed twice *)

LEMMA RankMonotone ==
  ASSUME NEW T \in SUBSET Paths, NEW S \in SUBSET T, NEW p \in Seq(Nat)
  PROVE  /\ Entries(S, p) \subseteq Entries(T, p)
         /\ \A e : /\ Rank(Entries(S, p), e) <= Rank(Entries(T, p), e)
                   /\ Rank(Entries(S, p), e) \in Nat /\ Rank(Entries(T, p), e) \in Nat
<1>1. Entries(S, p) \subseteq Entries(T, p)
  BY DEF Entries
<1>2. /\ IsFiniteSet(Entries(S, p)) /\ Entries(S, p) \subseteq EntryType
      /\ IsFiniteSet(Entries(T, p)) /\ Entries(T, p) \subseteq EntryType
  BY EntriesFacts
<1> QED BY <1>1, <1>2, RankGrows, RankFacts

LEMMA ListedFacts ==
  ASSUME Frame, NEW c \in CallType
  PROVE  /\ Listed(c) \subseteq EntryType /\ IsFiniteSet(Listed(c))
         /\ \A e : Rank(Listed(c), e) \in Nat
         /\ Limit(c) \in Nat
<1>1. c.prefix \in Seq(Nat) /\ c.offset \in Nat
  BY CallFields
<1>2. Listed(c) \subseteq EntryType /\ IsFiniteSet(Listed(c))
  BY <1>1, EntriesFacts DEF Listed, Frame
<1> QED BY <1>1, <1>2, RankFacts, BucketAssumption DEF Limit

(* On a path through the innermost folder, each call is at the folder of the  *)
(* next one.                                                                  *)
LEMMA Along ==
  ASSUME Frame, stack # <<>>, NEW i \in Calls, i < Len(stack),
         NEW o \in Paths, IsStrictPrefix(Top.prefix, o)
  PROVE  EntryOf(stack[i].prefix, o) = Towards(i)
<1>1. CallOK(i) /\ i \in Nat \ {0} /\ Len(stack) \in Nat
  BY TopFacts DEF Frame, Stacked, Calls
<1>2. PICK p \in Seq(Nat) : p = Top.prefix /\ Len(p) = Len(stack) - 1
  BY TopFacts
<1>3. o \in Seq(Nat) /\ Len(o) \in Nat
  BY PathFacts
<1>4. Len(p) < Len(o) /\ \A j \in 1..Len(p) : o[j] = p[j]
  <2>1. IsStrictPrefix(p, o)
    BY <1>2
  <2> QED BY <1>3, <2>1, StrictPrefix
<1>5. i \in 1..Len(p) /\ Len(o) > i
  <2>1. i <= Len(p) /\ Len(p) \in Nat
    BY <1>1, <1>2
  <2>2. Len(p) < Len(o)
    BY <1>4
  <2> QED BY <1>1, <1>3, <2>1, <2>2
<1>6. Len(stack[i].prefix) + 1 = i
  BY <1>1 DEF CallOK
<1>7. o[i] = Top.prefix[i]
  BY <1>2, <1>4, <1>5
<1> QED BY <1>5, <1>6, <1>7 DEF EntryOf, Towards

LEMMA OnceSet ==
  ASSUME Frame, Once, uploads = 0, bucket' = bucket, stack # <<>>,
         NEW c \in CallType, c.prefix = Top.prefix, SetTop(c),
         \A e : Passed(Top, e) => Passed(c, e),
         \A e \in c.page \cap Listed(c) : Rank(Listed(c), e) < Limit(c),
         \A o \in Paths :
           /\ found'[o] <= 1
           /\ found'[o] > 0 =>
                found[o] > 0 \/ (IsStrictPrefix(Top.prefix, o) /\ Passed(c, EntryOf(Top.prefix, o)))
  PROVE  Once'
<1>1. /\ Len(stack') = Len(stack) /\ Calls' = Calls
      /\ \A i \in Calls : stack'[i] = IF i = Len(stack) THEN c ELSE stack[i]
      /\ \A i : Towards(i)' = Towards(i)
  BY Replaced
<1>2. Top = stack[Len(stack)] /\ Len(stack) \in Calls
  BY TopFacts
<1>3. \A d, e : /\ Passed(d, e)' = Passed(d, e) /\ Listed(d)' = Listed(d) /\ Limit(d)' = Limit(d)
  BY DEF Passed, Listed, Limit
<1>4. ASSUME NEW i \in Calls
      PROVE  /\ \A o \in Paths :
                  found'[o] > 0 /\ IsStrictPrefix(stack'[i].prefix, o) =>
                    Passed(stack'[i], EntryOf(stack'[i].prefix, o))
             /\ i < Len(stack) => Passed(stack'[i], Towards(i))
             /\ \A e \in stack'[i].page \cap Listed(stack'[i]) :
                  Rank(Listed(stack'[i]), e) < Limit(stack'[i])
  <2>1. CASE i = Len(stack)
    <3>1. stack'[i] = c /\ ~(i < Len(stack))
      BY <1>1, <2>1, TopFacts
    <3>2. \A o \in Paths : found[o] > 0 /\ IsStrictPrefix(Top.prefix, o) => Passed(Top, EntryOf(Top.prefix, o))
      BY <1>2 DEF Once
    <3> QED BY <3>1, <3>2
  <2>2. CASE i # Len(stack)
    <3>1. stack'[i] = stack[i] /\ i < Len(stack)
      BY <1>1, <2>2, TopFacts DEF Calls
    <3>2. /\ \A o \in Paths :
               found[o] > 0 /\ IsStrictPrefix(stack[i].prefix, o) =>
                 Passed(stack[i], EntryOf(stack[i].prefix, o))
          /\ Passed(stack[i], Towards(i))
          /\ \A e \in stack[i].page \cap Listed(stack[i]) :
               Rank(Listed(stack[i]), e) < Limit(stack[i])
      BY <3>1 DEF Once
    <3>3. \A o \in Paths : IsStrictPrefix(Top.prefix, o) => Passed(stack[i], EntryOf(stack[i].prefix, o))
      BY <3>1, <3>2, Along
    <3> QED BY <3>1, <3>2, <3>3
  <2> QED BY <2>1, <2>2
<1>5. ASSUME NEW i \in Calls'
      PROVE  /\ \A o \in Paths :
                  found'[o] > 0 /\ IsStrictPrefix(stack'[i].prefix, o) =>
                    Passed(stack[i], EntryOf(stack[i].prefix, o))'
             /\ (i < Len(stack) => Passed(stack[i], Towards(i)))'
             /\ (\A e \in stack[i].page \cap Listed(stack[i]) :
                  Rank(Listed(stack[i]), e) < Limit(stack[i]))'
  <2>1. i \in Calls
    BY <1>1
  <2>2. /\ \A o : Passed(stack[i], EntryOf(stack[i].prefix, o))' = Passed(stack'[i], EntryOf(stack'[i].prefix, o))
        /\ Passed(stack[i], Towards(i))' = Passed(stack'[i], Towards(i))
        /\ Listed(stack[i])' = Listed(stack'[i]) /\ Limit(stack[i])' = Limit(stack'[i])
    BY <1>1 DEF Passed, Listed, Limit
  <2> QED BY <1>1, <1>4, <2>1, <2>2
<1> QED BY <1>5 DEF Once

LEMMA OnceRequest ==
  ASSUME Frame, Once, Request
  PROVE  Once'
<1> SUFFICES ASSUME uploads = 0 PROVE Once'
  BY DEF Once, Request, changeVars
<1>1. stack # <<>> /\ ~Top.asked
  BY RequestEffect
<1>2. PICK c \in CallType : /\ SetTop(c) /\ c.prefix = Top.prefix /\ c.offset = Top.offset
                            /\ c.asked = TRUE /\ c.page = Page(Listed(Top), Top.offset)
  BY RequestEffect
<1>3. Listed(c) = Listed(Top) /\ Limit(Top) = Top.offset /\ Limit(c) = Top.offset + PageSize
  BY <1>1, <1>2 DEF Listed, Limit
<1>4. Top.offset \in Nat /\ PageSize \in Nat \ {0} /\ \A e : Rank(Listed(Top), e) \in Nat
  BY <1>1, TopFacts, ListedFacts, BucketAssumption
<1>5. \A e \in c.page : Top.offset <= Rank(Listed(Top), e) /\ Rank(Listed(Top), e) < Top.offset + PageSize /\ e \in Listed(Top)
  BY <1>2 DEF Page
<1>6. ASSUME NEW e, Passed(Top, e) PROVE Passed(c, e)
  <2>1. e \in Listed(Top) => Rank(Listed(Top), e) < Top.offset
    BY <1>3, <1>6 DEF Passed
  <2>2. e \notin c.page
    BY <1>4, <1>5, <2>1
  <2>3. e \in Listed(Top) => Rank(Listed(Top), e) < Top.offset + PageSize
    BY <1>4, <2>1
  <2> QED BY <1>3, <2>2, <2>3 DEF Passed
<1>7. \A e \in c.page \cap Listed(c) : Rank(Listed(c), e) < Limit(c)
  BY <1>3, <1>5
<1>8. found' = found /\ bucket' = bucket /\ \A o \in Paths : found[o] <= 1
  BY DEF Request, changeVars, Once
<1> QED BY <1>1, <1>2, <1>6, <1>7, <1>8, OnceSet

LEMMA OnceNextPage ==
  ASSUME Frame, Once, NextPage
  PROVE  Once'
<1> SUFFICES ASSUME uploads = 0 PROVE Once'
  BY DEF Once, NextPage, changeVars
<1>1. stack # <<>> /\ Top.asked /\ Top.page = {}
  BY NextPageEffect
<1>2. PICK c \in CallType : /\ SetTop(c) /\ c.prefix = Top.prefix
                            /\ c.offset = Top.offset + PageSize /\ c.asked = FALSE /\ c.page = {}
  BY NextPageEffect
<1>3. Listed(c) = Listed(Top) /\ Limit(c) = Limit(Top)
  BY <1>1, <1>2 DEF Listed, Limit
<1>4. found' = found /\ bucket' = bucket /\ \A o \in Paths : found[o] <= 1
  BY DEF NextPage, changeVars, Once
<1>5. \A e : Passed(Top, e) => Passed(c, e)
  BY <1>2, <1>3 DEF Passed
<1>6. \A e \in c.page \cap Listed(c) : Rank(Listed(c), e) < Limit(c)
  BY <1>2
<1> QED BY <1>1, <1>2, <1>4, <1>5, <1>6, OnceSet

(* An entry of the page is passed once it is off it.                          *)
LEMMA PassedNow ==
  ASSUME Frame, Once, uploads = 0, stack # <<>>, NEW e \in Top.page, Top.asked,
         NEW c \in CallType, c.prefix = Top.prefix, c.offset = Top.offset,
         c.asked = Top.asked, c.page = Top.page \ {e}
  PROVE  /\ Listed(c) = Listed(Top) /\ Limit(c) = Limit(Top)
         /\ Passed(c, e) /\ \A f : Passed(Top, f) => Passed(c, f)
         /\ \A f \in c.page \cap Listed(c) : Rank(Listed(c), f) < Limit(c)
         /\ \A o \in Paths : IsStrictPrefix(Top.prefix, o) /\ EntryOf(Top.prefix, o) = e => ~(found[o] > 0)
<1>1. Listed(c) = Listed(Top) /\ Limit(c) = Limit(Top)
  BY DEF Listed, Limit
<1>2. Top = stack[Len(stack)] /\ Len(stack) \in Calls
  BY TopFacts
<1>3. /\ \A f \in Top.page \cap Listed(Top) : Rank(Listed(Top), f) < Limit(Top)
      /\ \A o \in Paths : found[o] > 0 /\ IsStrictPrefix(Top.prefix, o) => Passed(Top, EntryOf(Top.prefix, o))
  BY <1>2 DEF Once
<1>4. ~Passed(Top, e)
  BY DEF Passed
<1>5. Passed(c, e) /\ \A f : Passed(Top, f) => Passed(c, f)
  BY <1>1, <1>3 DEF Passed
<1> QED BY <1>1, <1>3, <1>4, <1>5

LEMMA OnceTake ==
  ASSUME Frame, Once, NEW e, TakeObject(e)
  PROVE  Once'
<1> SUFFICES ASSUME uploads = 0 PROVE Once'
  BY DEF Once, TakeObject, changeVars
<1>1. stack # <<>> /\ Top.asked /\ e \in Top.page
  BY TakeEffect
<1>2. PICK c \in CallType : /\ SetTop(c) /\ c.prefix = Top.prefix /\ c.offset = Top.offset
                            /\ c.asked = Top.asked /\ c.page = Top.page \ {e}
  BY TakeEffect
<1>3. PICK o \in Paths : /\ o = Append(Top.prefix, e.name)
                         /\ IsStrictPrefix(Top.prefix, o) /\ EntryOf(Top.prefix, o) = e
  BY TakenObject
<1>4. /\ Passed(c, e) /\ \A f : Passed(Top, f) => Passed(c, f)
      /\ \A f \in c.page \cap Listed(c) : Rank(Listed(c), f) < Limit(c)
      /\ ~(found[o] > 0)
  BY <1>1, <1>2, <1>3, PassedNow
<1>5. bucket' = bucket /\ found' = [found EXCEPT ![o] = IF @ = 0 THEN 1 ELSE 2]
  BY <1>3 DEF TakeObject, changeVars
<1>6. found \in [Paths -> 0..2] /\ \A x \in Paths : found[x] <= 1
  BY DEF Frame, Once
<1>7. \A x \in Paths : /\ found'[x] <= 1
                       /\ found'[x] > 0 => found[x] > 0 \/ (IsStrictPrefix(Top.prefix, x) /\ Passed(c, EntryOf(Top.prefix, x)))
  <2> TAKE x \in Paths
  <2>1. CASE x = o
    <3>1. found[o] = 0
      BY <1>4, <1>6
    <3>2. found'[x] = 1
      BY <1>5, <1>6, <2>1, <3>1
    <3> QED BY <1>3, <1>4, <2>1, <3>2
  <2>2. CASE x # o
    BY <1>5, <1>6, <2>2
  <2> QED BY <2>1, <2>2
<1> QED BY <1>1, <1>2, <1>4, <1>5, <1>7, OnceSet

LEMMA OnceEnter ==
  ASSUME Frame, Once, NEW e, EnterFolder(e)
  PROVE  Once'
<1> SUFFICES ASSUME uploads = 0 PROVE Once'
  BY DEF Once, EnterFolder, changeVars
<1>1. /\ stack # <<>> /\ Top.asked /\ e \in Top.page
      /\ e.name \in Nat /\ e = [name |-> e.name, folder |-> TRUE]
  BY EnterEffect
<1>2. PICK c \in CallType :
        /\ stack' = Append([stack EXCEPT ![Len(stack)] = c], Call(Append(Top.prefix, e.name)))
        /\ c.prefix = Top.prefix /\ c.offset = Top.offset
        /\ c.asked = Top.asked /\ c.page = Top.page \ {e}
  BY EnterEffect
<1>3. /\ Len(stack') = Len(stack) + 1
      /\ stack'[Len(stack) + 1] = Call(Append(Top.prefix, e.name))
      /\ \A i \in Calls : stack'[i] = IF i = Len(stack) THEN c ELSE stack[i]
      /\ \A i \in Calls : Towards(i)' = IF i = Len(stack) THEN [name |-> e.name, folder |-> TRUE] ELSE Towards(i)
  BY <1>1, <1>2, Pushed
<1>4. /\ Passed(c, e) /\ \A f : Passed(Top, f) => Passed(c, f)
      /\ \A f \in c.page \cap Listed(c) : Rank(Listed(c), f) < Limit(c)
      /\ \A o \in Paths : IsStrictPrefix(Top.prefix, o) /\ EntryOf(Top.prefix, o) = e => ~(found[o] > 0)
  BY <1>1, <1>2, PassedNow
<1>5. bucket' = bucket /\ found' = found /\ uploads' = 0
  BY DEF EnterFolder, changeVars
<1>6. PICK p \in Seq(Nat) : p = Top.prefix
  BY <1>1, TopFacts
<1>7. PICK d : d = Call(Append(p, e.name)) /\ d.prefix = Append(p, e.name) /\ d.page = {}
  BY <1>1, Child, NewCall
<1>8. Len(stack) \in Nat \ {0} /\ Len(stack) \in Calls /\ Top = stack[Len(stack)]
  BY <1>1, TopFacts
<1>9. ASSUME NEW i \in Calls
      PROVE  /\ \A o \in Paths :
                  found[o] > 0 /\ IsStrictPrefix(stack'[i].prefix, o) =>
                    Passed(stack'[i], EntryOf(stack'[i].prefix, o))
             /\ Passed(stack'[i], Towards(i)')
             /\ \A f \in stack'[i].page \cap Listed(stack'[i]) :
                  Rank(Listed(stack'[i]), f) < Limit(stack'[i])
  <2>1. CASE i = Len(stack)
    <3>1. stack'[i] = c /\ Towards(i)' = e
      BY <1>1, <1>3, <2>1
    <3>2. \A o \in Paths : found[o] > 0 /\ IsStrictPrefix(Top.prefix, o) => Passed(Top, EntryOf(Top.prefix, o))
      BY <1>8 DEF Once
    <3> QED BY <1>2, <1>4, <3>1, <3>2
  <2>2. CASE i # Len(stack)
    <3>1. stack'[i] = stack[i] /\ Towards(i)' = Towards(i) /\ i < Len(stack)
      BY <1>3, <1>8, <2>2 DEF Calls
    <3> QED BY <3>1 DEF Once
  <2> QED BY <2>1, <2>2
<1>10. ASSUME NEW o \in Paths, IsStrictPrefix(d.prefix, o)
       PROVE  ~(found[o] > 0)
  <2>1. o \in Seq(Nat)
    BY PathFacts
  <2>2. IsStrictPrefix(p, o) /\ EntryOf(p, o).name = e.name /\ EntryOf(p, o).folder
    BY <1>1, <1>7, <1>10, <2>1, FolderEntry
  <2>3. EntryOf(p, o) = e
    <3>1. EntryOf(p, o) \in EntryType
      BY <2>1, <2>2, EntryFacts
    <3>2. EntryOf(p, o).folder = TRUE /\ EntryOf(p, o) = [name |-> EntryOf(p, o).name, folder |-> EntryOf(p, o).folder]
      BY <2>2, <3>1 DEF EntryType
    <3> QED BY <1>1, <2>2, <3>2
  <2> QED BY <1>4, <1>6, <2>2, <2>3
<1>11. ASSUME NEW i \in Calls'
       PROVE  /\ \A o \in Paths :
                   found'[o] > 0 /\ IsStrictPrefix(stack'[i].prefix, o) =>
                     Passed(stack[i], EntryOf(stack[i].prefix, o))'
              /\ (i < Len(stack) => Passed(stack[i], Towards(i)))'
              /\ (\A f \in stack[i].page \cap Listed(stack[i]) :
                   Rank(Listed(stack[i]), f) < Limit(stack[i]))'
  <2>1. /\ \A o : Passed(stack[i], EntryOf(stack[i].prefix, o))' = Passed(stack'[i], EntryOf(stack'[i].prefix, o))
        /\ Passed(stack[i], Towards(i))' = Passed(stack'[i], Towards(i)')
        /\ Listed(stack[i])' = Listed(stack'[i]) /\ Limit(stack[i])' = Limit(stack'[i])
    BY <1>5 DEF Passed, Listed, Limit
  <2>2. CASE i \in Calls
    BY <1>5, <1>9, <2>1, <2>2
  <2>3. CASE i \notin Calls
    <3>1. i = Len(stack) + 1
      BY <1>3, <1>8, <2>3 DEF Calls
    <3>2. stack'[i] = d /\ ~(i < Len(stack'))
      BY <1>3, <1>6, <1>7, <1>8, <3>1
    <3> QED BY <1>5, <1>7, <1>10, <2>1, <3>2
  <2> QED BY <2>2, <2>3
<1>12. \A o \in Paths : found'[o] <= 1
  BY <1>5 DEF Once
<1> QED BY <1>11, <1>12 DEF Once

LEMMA OnceReturn ==
  ASSUME Frame, Once, Return
  PROVE  Once'
<1> SUFFICES ASSUME uploads = 0 PROVE Once'
  BY DEF Once, Return, changeVars
<1>1. stack # <<>> /\ stack' = Front(stack)
  BY ReturnEffect
<1>2. /\ Len(stack') = Len(stack) - 1
      /\ \A i \in 1..(Len(stack) - 1) : stack'[i] = stack[i]
      /\ \A i \in 1..(Len(stack) - 2) : Towards(i)' = Towards(i)
  BY <1>1, Popped
<1>3. bucket' = bucket /\ found' = found
  BY DEF Return, changeVars
<1>4. Len(stack) \in Nat \ {0}
  BY <1>1, TopFacts
<1>5. ASSUME NEW i \in Calls'
      PROVE  /\ \A o \in Paths :
                  found'[o] > 0 /\ IsStrictPrefix(stack'[i].prefix, o) =>
                    Passed(stack[i], EntryOf(stack[i].prefix, o))'
             /\ (i < Len(stack) => Passed(stack[i], Towards(i)))'
             /\ (\A e \in stack[i].page \cap Listed(stack[i]) :
                  Rank(Listed(stack[i]), e) < Limit(stack[i]))'
  <2>1. i \in Calls /\ stack'[i] = stack[i] /\ i < Len(stack) /\ (i < Len(stack') => Towards(i)' = Towards(i))
    BY <1>2, <1>4 DEF Calls
  <2>2. /\ \A o : Passed(stack[i], EntryOf(stack[i].prefix, o))' = Passed(stack[i], EntryOf(stack[i].prefix, o))
        /\ Passed(stack[i], Towards(i))' = Passed(stack[i], Towards(i)')
        /\ Listed(stack[i])' = Listed(stack[i]) /\ Limit(stack[i])' = Limit(stack[i])
    BY <1>3, <2>1 DEF Passed, Listed, Limit
  <2>3. /\ \A o \in Paths :
             found[o] > 0 /\ IsStrictPrefix(stack[i].prefix, o) =>
               Passed(stack[i], EntryOf(stack[i].prefix, o))
        /\ Passed(stack[i], Towards(i))
        /\ \A e \in stack[i].page \cap Listed(stack[i]) :
             Rank(Listed(stack[i]), e) < Limit(stack[i])
    BY <2>1 DEF Once
  <2> QED BY <1>3, <2>1, <2>2, <2>3
<1>6. \A o \in Paths : found'[o] <= 1
  BY <1>3 DEF Once
<1> QED BY <1>5, <1>6 DEF Once

LEMMA OnceRemove ==
  ASSUME Frame, Once, NEW r \in Paths, RemoveObject(r)
  PROVE  Once'
<1> SUFFICES ASSUME uploads = 0 PROVE Once'
  BY DEF Once, RemoveObject
<1>1. bucket' \subseteq bucket /\ bucket \subseteq Paths /\ stack' = stack /\ found' = found
  BY DEF RemoveObject, Frame
<1>2. ASSUME NEW c \in CallType
      PROVE  /\ Listed(c)' \subseteq Listed(c) /\ Limit(c)' = Limit(c) /\ Limit(c) \in Nat
             /\ \A e : /\ Rank(Listed(c)', e) <= Rank(Listed(c), e)
                       /\ Rank(Listed(c)', e) \in Nat /\ Rank(Listed(c), e) \in Nat
  <2>1. c.prefix \in Seq(Nat)
    BY CallFields
  <2> QED BY <1>1, <2>1, RankMonotone, ListedFacts DEF Listed, Limit
<1>3. ASSUME NEW c \in CallType, NEW e, Passed(c, e) PROVE Passed(c, e)'
  BY <1>2, <1>3 DEF Passed
<1>4. ASSUME NEW i \in Calls
      PROVE  /\ \A o \in Paths :
                  found[o] > 0 /\ IsStrictPrefix(stack[i].prefix, o) =>
                    Passed(stack[i], EntryOf(stack[i].prefix, o))'
             /\ i < Len(stack) => Passed(stack[i], Towards(i))'
             /\ (\A e \in stack[i].page \cap Listed(stack[i]) :
                  Rank(Listed(stack[i]), e) < Limit(stack[i]))'
  <2>1. PICK c \in CallType : c = stack[i] /\ c = stack'[i]
    BY <1>1 DEF Frame, Stacked, CallOK
  <2>2. PICK f : f = Towards(i) /\ f = Towards(i)'
    BY <1>1 DEF Towards, Top
  <2>3. /\ \A o \in Paths : found[o] > 0 /\ IsStrictPrefix(c.prefix, o) => Passed(c, EntryOf(c.prefix, o))
        /\ i < Len(stack) => Passed(c, f)
        /\ \A e \in c.page \cap Listed(c) : Rank(Listed(c), e) < Limit(c)
    BY <2>1, <2>2 DEF Once
  <2>4. /\ \A o \in Paths : found[o] > 0 /\ IsStrictPrefix(c.prefix, o) => Passed(c, EntryOf(c.prefix, o))'
        /\ i < Len(stack) => Passed(c, f)'
    BY <1>3, <2>3
  <2>5. (\A e \in c.page \cap Listed(c) : Rank(Listed(c), e) < Limit(c))'
    BY <1>2, <2>3
  <2>6. /\ \A o : Passed(stack[i], EntryOf(stack[i].prefix, o))' = Passed(c, EntryOf(c.prefix, o))'
        /\ Passed(stack[i], Towards(i))' = Passed(c, f)'
        /\ Listed(stack[i])' = Listed(c)' /\ Limit(stack[i])' = Limit(c)'
    BY <2>1, <2>2 DEF Passed, Listed, Limit
  <2> QED BY <2>1, <2>4, <2>5, <2>6
<1>5. Calls' = Calls /\ Len(stack') = Len(stack)
  BY <1>1 DEF Calls
<1>6. \A o \in Paths : found'[o] <= 1
  BY <1>1 DEF Once
<1> QED BY <1>1, <1>4, <1>5, <1>6 DEF Once

LEMMA OnceInit == Init => Once
<1> SUFFICES ASSUME Init PROVE Once
  OBVIOUS
<1>1. Frame
  BY FrameInit
<1>2. PICK d : d = Call(<<>>) /\ d.page = {}
  BY <<>> \in Seq(Nat), NewCall
<1>3. Len(stack) = 1 /\ stack[1] = d
  BY <1>2 DEF Init
<1>4. Calls = {1}
  BY <1>3 DEF Calls
<1>5. \A o \in Paths : found[o] = 0
  BY DEF Init
<1> QED BY <1>2, <1>3, <1>4, <1>5 DEF Once

LEMMA OnceNext ==
  ASSUME Frame, Once, [Next]_vars
  PROVE  Once'
<1>1. CASE UNCHANGED vars
  BY <1>1 DEF vars, Once, Calls, Passed, Listed, Limit, Towards, Top
<1>2. CASE RequestFails
  BY <1>2 DEF RequestFails, changeVars, Once, Calls, Passed, Listed, Limit, Towards, Top
<1>3. ASSUME NEW o \in Paths, Upload(o) PROVE Once'
  <2>1. uploads \in Nat /\ uploads' = uploads + 1
    BY <1>3, BucketAssumption DEF Frame, Upload
  <2>2. uploads' # 0
    BY <2>1
  <2> QED BY <2>2 DEF Once
<1> QED BY <1>1, <1>2, <1>3, OnceRequest, OnceNextPage, OnceTake, OnceEnter, OnceReturn, OnceRemove DEF Next, Step, Over

-------------------------------------------------------------------------------
(* A bucket nobody changes *)

LEMMA StillSet ==
  ASSUME Frame, Still, stack # <<>>, UNCHANGED <<changeVars, found>>,
         NEW c \in CallType, c.prefix = Top.prefix, SetTop(c),
         uploads = 0 /\ removals = 0 => c.page \subseteq Listed(Top)
  PROVE  Still'
<1>1. /\ Calls' = Calls
      /\ \A i \in Calls : stack'[i] = IF i = Len(stack) THEN c ELSE stack[i]
  BY Replaced
<1>2. \A d : Listed(d)' = Listed(d)
  BY DEF Listed, changeVars
<1>3. Listed(c) = Listed(Top)
  BY DEF Listed
<1>4. ASSUME uploads = 0, removals = 0, NEW i \in Calls PROVE stack'[i].page \subseteq Listed(stack'[i])
  BY <1>1, <1>3, <1>4 DEF Still
<1>5. \A i \in Calls : Listed(stack[i])' = Listed(stack'[i])
  BY <1>2 DEF Listed, changeVars
<1> QED BY <1>1, <1>4, <1>5 DEF Still, changeVars

LEMMA StillTake ==
  ASSUME Frame, Still, NEW e, TakeObject(e)
  PROVE  Still'
<1>1. stack # <<>> /\ e \in Top.page
  BY TakeEffect
<1>2. PICK c \in CallType : SetTop(c) /\ c.prefix = Top.prefix /\ c.page = Top.page \ {e}
  BY TakeEffect
<1>3. PICK o \in Paths : o = Append(Top.prefix, e.name) /\ (e \in Entries(bucket, Top.prefix) => o \in bucket)
  BY TakenObject DEF Frame
<1>4. UNCHANGED changeVars /\ found' = [found EXCEPT ![o] = IF @ = 0 THEN 1 ELSE 2]
  BY <1>3 DEF TakeObject
<1>5. uploads = 0 /\ removals = 0 => Top.page \subseteq Listed(Top)
  BY <1>1, TopFacts DEF Still
<1>6. /\ Calls' = Calls
      /\ \A i \in Calls : stack'[i] = IF i = Len(stack) THEN c ELSE stack[i]
  BY <1>1, <1>2, Replaced
<1>7. ASSUME uploads = 0, removals = 0 PROVE \A x \in Paths : found'[x] > 0 => x \in bucket
  <2>1. o \in bucket
    BY <1>1, <1>3, <1>5, <1>7 DEF Listed
  <2> QED BY <1>4, <1>7, <2>1 DEF Frame, Still
<1>8. ASSUME uploads = 0, removals = 0, NEW i \in Calls PROVE stack'[i].page \subseteq Listed(stack'[i])
  <2>1. Listed(c) = Listed(Top)
    BY <1>2 DEF Listed
  <2> QED BY <1>2, <1>5, <1>6, <1>8, <2>1 DEF Still
<1>9. \A i \in Calls : Listed(stack[i])' = Listed(stack'[i])
  BY <1>4 DEF Listed, changeVars
<1> QED BY <1>4, <1>6, <1>7, <1>8, <1>9 DEF Still, changeVars

LEMMA StillEnter ==
  ASSUME Frame, Still, NEW e, EnterFolder(e)
  PROVE  Still'
<1>1. stack # <<>> /\ e.name \in Nat
  BY EnterEffect
<1>2. PICK c \in CallType :
        /\ stack' = Append([stack EXCEPT ![Len(stack)] = c], Call(Append(Top.prefix, e.name)))
        /\ c.prefix = Top.prefix /\ c.page = Top.page \ {e}
  BY EnterEffect
<1>3. /\ Len(stack') = Len(stack) + 1
      /\ stack'[Len(stack) + 1] = Call(Append(Top.prefix, e.name))
      /\ \A i \in Calls : stack'[i] = IF i = Len(stack) THEN c ELSE stack[i]
  BY <1>1, <1>2, Pushed
<1>4. Call(Append(Top.prefix, e.name)).page = {}
  BY <1>1, TopFacts, Child, NewCall
<1>5. UNCHANGED <<changeVars, found>> /\ Len(stack) \in Nat \ {0} /\ Top = stack[Len(stack)] /\ Len(stack) \in Calls
  BY <1>1, TopFacts DEF EnterFolder
<1>6. ASSUME uploads = 0, removals = 0, NEW i \in Calls' PROVE stack'[i].page \subseteq Listed(stack'[i])
  <2>1. CASE i \in Calls
    <3>1. stack[i].page \subseteq Listed(stack[i]) /\ Top.page \subseteq Listed(Top) /\ Listed(c) = Listed(Top)
      BY <1>2, <1>5, <1>6, <2>1 DEF Still, Listed
    <3> QED BY <1>2, <1>3, <2>1, <3>1
  <2>2. CASE i \notin Calls
    <3>1. i = Len(stack) + 1
      BY <1>3, <1>5, <2>2 DEF Calls
    <3> QED BY <1>3, <1>4, <3>1
  <2> QED BY <2>1, <2>2
<1>7. \A i : Listed(stack[i])' = Listed(stack'[i])
  BY <1>5 DEF Listed, changeVars
<1> QED BY <1>5, <1>6, <1>7 DEF Still, changeVars

LEMMA StillNext ==
  ASSUME Frame, Still, [Next]_vars
  PROVE  Still'
<1>1. CASE UNCHANGED vars
  BY <1>1 DEF vars, Still, Calls, Listed
<1>2. CASE RequestFails
  BY <1>2 DEF RequestFails, changeVars, Still, Calls, Listed
<1>3. CASE Request
  <2>1. PICK c \in CallType : SetTop(c) /\ c.prefix = Top.prefix /\ c.page = Page(Listed(Top), Top.offset)
    BY <1>3, RequestEffect
  <2>2. stack # <<>> /\ UNCHANGED <<changeVars, found>>
    BY <1>3, RequestEffect DEF Request
  <2> QED BY <2>1, <2>2, PageOf, StillSet
<1>4. CASE NextPage
  <2>1. PICK c \in CallType : SetTop(c) /\ c.prefix = Top.prefix /\ c.page = {}
    BY <1>4, NextPageEffect
  <2>2. stack # <<>> /\ UNCHANGED <<changeVars, found>>
    BY <1>4, NextPageEffect DEF NextPage
  <2> QED BY <2>1, <2>2, StillSet
<1>5. CASE Return
  <2>1. stack # <<>> /\ stack' = Front(stack) /\ UNCHANGED <<changeVars, found>>
    BY <1>5, ReturnEffect DEF Return
  <2>2. Len(stack') = Len(stack) - 1 /\ \A i \in 1..(Len(stack) - 1) : stack'[i] = stack[i]
    BY <2>1, Popped
  <2>3. \A i \in Calls' : i \in Calls /\ stack'[i] = stack[i]
    BY <2>1, <2>2, TopFacts DEF Calls
  <2>4. \A i \in Calls' : stack[i]' = stack[i] /\ Listed(stack[i])' = Listed(stack[i])
    BY <2>1, <2>3 DEF Listed, changeVars
  <2> QED BY <2>1, <2>3, <2>4 DEF Still, changeVars
<1>6. ASSUME NEW o \in Paths, Upload(o) PROVE Still'
  <2>1. uploads \in Nat /\ uploads' = uploads + 1
    BY <1>6, BucketAssumption DEF Frame, Upload
  <2>2. uploads' # 0
    BY <2>1
  <2> QED BY <1>6, <2>2 DEF Still, Upload
<1>7. ASSUME NEW o \in Paths, RemoveObject(o) PROVE Still'
  <2>1. removals \in Nat /\ removals' = removals + 1
    BY <1>7, BucketAssumption DEF Frame, RemoveObject
  <2>2. removals' # 0
    BY <2>1
  <2> QED BY <2>2 DEF Still
<1> QED BY <1>1, <1>2, <1>3, <1>4, <1>5, <1>6, <1>7, StillTake, StillEnter DEF Next, Step, Over

LEMMA StillInit == Init => Still
<1> SUFFICES ASSUME Init PROVE Still
  OBVIOUS
<1>1. PICK d : d = Call(<<>>) /\ d.page = {}
  BY <<>> \in Seq(Nat), NewCall
<1>2. Calls = {1} /\ stack[1] = d
  BY <1>1 DEF Init, Calls
<1> QED BY <1>1, <1>2 DEF Init, Still

-------------------------------------------------------------------------------
(* What is missed has a cause *)

LEMMA MissedSet ==
  ASSUME Frame, Missed, stack # <<>>, UNCHANGED <<changeVars, pc>>, pc = "listing",
         NEW c \in CallType, c.prefix = Top.prefix, SetTop(c),
         \A o \in Paths : found[o] > 0 => found'[o] > 0,
         \A o \in kept :
           IsStrictPrefix(Top.prefix, o) =>
             LET e == EntryOf(Top.prefix, o)
             IN  e \in Top.page \/ Beyond(Top, e) => found'[o] > 0 \/ e \in c.page \/ Beyond(c, e)
  PROVE  Missed'
<1>1. /\ Len(stack') = Len(stack) /\ Calls' = Calls
      /\ \A i \in Calls : stack'[i] = IF i = Len(stack) THEN c ELSE stack[i]
      /\ \A i : Towards(i)' = Towards(i)
  BY Replaced
<1>2. Top = stack[Len(stack)] /\ Len(stack) \in Calls /\ Len(stack) \in Nat
  BY TopFacts
<1>3. \A d, e : Beyond(d, e)' = Beyond(d, e)
  BY DEF Beyond, Listed, Limit, changeVars
<1>4. \A o \in kept : (Done(o) => Done(o)') /\ (found'[o] > 0 => Done(o)') /\ o \in Paths
  BY DEF Done, Cause, Frame, changeVars
<1>5. ASSUME NEW i \in Calls, NEW o \in kept, IsStrictPrefix(stack'[i].prefix, o)
      PROVE  LET e == EntryOf(stack'[i].prefix, o)
             IN  \/ Done(o)' \/ e \in stack'[i].page \/ Beyond(stack'[i], e)
                 \/ i < Len(stack) /\ e = Towards(i)
  <2>1. CASE i = Len(stack)
    <3>1. stack'[i] = c /\ ~(i < Len(stack))
      BY <1>1, <1>2, <2>1
    <3>2. Done(o) \/ EntryOf(Top.prefix, o) \in Top.page \/ Beyond(Top, EntryOf(Top.prefix, o))
      BY <1>2, <1>5, <2>1, <3>1 DEF Missed, Ahead
    <3> QED BY <1>4, <1>5, <3>1, <3>2
  <2>2. CASE i # Len(stack)
    <3>1. stack'[i] = stack[i]
      BY <1>1, <2>2
    <3>2. Done(o) \/ Ahead(i, EntryOf(stack[i].prefix, o))
      BY <1>5, <3>1 DEF Missed
    <3> QED BY <1>4, <3>1, <3>2 DEF Ahead
  <2> QED BY <2>1, <2>2
<1>6. \A i \in Calls : \A o : Ahead(i, EntryOf(stack[i].prefix, o))'
        = LET e == EntryOf(stack'[i].prefix, o)
          IN  e \in stack'[i].page \/ Beyond(stack'[i], e) \/ (i < Len(stack) /\ e = Towards(i))
  BY <1>1 DEF Ahead, Beyond, Listed, Limit, changeVars
<1> QED BY <1>1, <1>5, <1>6 DEF Missed, changeVars

LEMMA MissedRequest ==
  ASSUME Frame, Missed, Request
  PROVE  Missed'
<1>1. pc = "listing" /\ stack # <<>> /\ ~Top.asked /\ UNCHANGED <<changeVars, pc, found>>
  BY RequestEffect DEF Request
<1>2. PICK c \in CallType : /\ SetTop(c) /\ c.prefix = Top.prefix /\ c.offset = Top.offset
                            /\ c.asked = TRUE /\ c.page = Page(Listed(Top), Top.offset)
                            /\ c.full = (Cardinality(c.page) = PageSize)
  BY RequestEffect
<1>3. Listed(c) = Listed(Top) /\ Limit(Top) = Top.offset /\ Limit(c) = Top.offset + PageSize
  BY <1>1, <1>2 DEF Listed, Limit
<1>4. /\ Top.offset \in Nat /\ PageSize \in Nat \ {0} /\ Top.page = {}
      /\ Listed(Top) \subseteq EntryType /\ IsFiniteSet(Listed(Top)) /\ \A e : Rank(Listed(Top), e) \in Nat
  BY <1>1, TopFacts, ListedFacts, BucketAssumption DEF CallOK
<1>5. ASSUME NEW o \in kept, IsStrictPrefix(Top.prefix, o), Beyond(Top, EntryOf(Top.prefix, o))
      PROVE  EntryOf(Top.prefix, o) \in c.page \/ Beyond(c, EntryOf(Top.prefix, o))
  <2>1. PICK e \in Listed(Top) : e = EntryOf(Top.prefix, o)
    BY <1>1, <1>5, TopFacts, EntriesFacts DEF Listed, Frame
  <2>2. Rank(Listed(Top), e) >= Top.offset
    BY <1>3, <1>5, <2>1 DEF Beyond
  <2>3. CASE Rank(Listed(Top), e) < Top.offset + PageSize
    BY <1>2, <1>4, <2>1, <2>2, <2>3 DEF Page
  <2>4. CASE Rank(Listed(Top), e) >= Top.offset + PageSize
    <3>1. Cardinality(c.page) = PageSize
      BY <1>2, <1>4, <2>4, FullPage
    <3> QED BY <1>2, <1>3, <2>1, <2>4, <3>1 DEF Beyond
  <2> QED BY <1>4, <2>3, <2>4
<1> QED BY <1>1, <1>2, <1>4, <1>5, MissedSet

LEMMA MissedNextPage ==
  ASSUME Frame, Missed, NextPage
  PROVE  Missed'
<1>1. pc = "listing" /\ stack # <<>> /\ Top.asked /\ Top.page = {} /\ UNCHANGED <<changeVars, pc, found>>
  BY NextPageEffect DEF NextPage
<1>2. PICK c \in CallType : /\ SetTop(c) /\ c.prefix = Top.prefix
                            /\ c.offset = Top.offset + PageSize /\ c.asked = FALSE
  BY NextPageEffect
<1>3. Listed(c) = Listed(Top) /\ Limit(c) = Limit(Top)
  BY <1>1, <1>2 DEF Listed, Limit
<1>4. \A e : Beyond(Top, e) => Beyond(c, e)
  BY <1>2, <1>3 DEF Beyond
<1> QED BY <1>1, <1>2, <1>4, MissedSet

LEMMA MissedTake ==
  ASSUME Frame, Missed, NEW e, TakeObject(e)
  PROVE  Missed'
<1>1. pc = "listing" /\ stack # <<>> /\ ~e.folder /\ UNCHANGED <<changeVars, pc>>
  BY TakeEffect DEF TakeObject
<1>2. PICK c \in CallType : /\ SetTop(c) /\ c.prefix = Top.prefix /\ c.offset = Top.offset
                            /\ c.asked = Top.asked /\ c.page = Top.page \ {e} /\ c.full = Top.full
  BY TakeEffect
<1>3. PICK o \in Paths : o = Append(Top.prefix, e.name)
  BY TakenObject
<1>4. found' = [found EXCEPT ![o] = IF @ = 0 THEN 1 ELSE 2] /\ found \in [Paths -> 0..2]
  BY <1>3 DEF TakeObject, Frame
<1>5. found'[o] > 0 /\ \A x \in Paths : found[x] > 0 => found'[x] > 0
  BY <1>4
<1>6. \A f : Beyond(Top, f) => Beyond(c, f)
  BY <1>2 DEF Beyond, Listed, Limit
<1>7. ASSUME NEW x \in kept, IsStrictPrefix(Top.prefix, x), EntryOf(Top.prefix, x) \in Top.page
      PROVE  found'[x] > 0 \/ EntryOf(Top.prefix, x) \in c.page
  <2> SUFFICES ASSUME EntryOf(Top.prefix, x) = e PROVE found'[x] > 0
    BY <1>2, <1>7
  <2>1. x \in Seq(Nat) /\ Top.prefix \in Seq(Nat)
    BY <1>1, PathFacts, TopFacts DEF Frame
  <2>2. x = Append(Top.prefix, e.name)
    BY <1>1, <1>7, <2>1, ObjectEntry
  <2> QED BY <1>3, <1>5, <2>2
<1> QED BY <1>1, <1>2, <1>5, <1>6, <1>7, MissedSet

LEMMA MissedEnter ==
  ASSUME Frame, Missed, NEW e, EnterFolder(e)
  PROVE  Missed'
<1>1. /\ pc = "listing" /\ stack # <<>> /\ UNCHANGED <<changeVars, pc, found>>
      /\ e.name \in Nat /\ e = [name |-> e.name, folder |-> TRUE]
  BY EnterEffect DEF EnterFolder
<1>2. PICK c \in CallType :
        /\ stack' = Append([stack EXCEPT ![Len(stack)] = c], Call(Append(Top.prefix, e.name)))
        /\ c.prefix = Top.prefix /\ c.offset = Top.offset
        /\ c.asked = Top.asked /\ c.page = Top.page \ {e} /\ c.full = Top.full
  BY EnterEffect
<1>3. /\ Len(stack') = Len(stack) + 1
      /\ stack'[Len(stack) + 1] = Call(Append(Top.prefix, e.name))
      /\ \A i \in Calls : stack'[i] = IF i = Len(stack) THEN c ELSE stack[i]
      /\ \A i \in Calls : Towards(i)' = IF i = Len(stack) THEN [name |-> e.name, folder |-> TRUE] ELSE Towards(i)
  BY <1>1, <1>2, Pushed
<1>4. Top = stack[Len(stack)] /\ Len(stack) \in Calls /\ Len(stack) \in Nat \ {0}
  BY <1>1, TopFacts
<1>5. PICK d \in CallType : d = Call(Append(Top.prefix, e.name)) /\ d.offset = 0 /\ d.asked = FALSE
  <2>1. Top.prefix \in Seq(Nat)
    BY <1>1, TopFacts
  <2>2. Append(Top.prefix, e.name) \in Seq(Nat)
    BY <1>1, <2>1, Child
  <2> QED BY <2>2, NewCall
<1>6. \A f : Beyond(d, f)
  <2>1. Limit(d) = 0 /\ \A f : Rank(Listed(d), f) \in Nat
    BY <1>5, ListedFacts DEF Limit
  <2> QED BY <1>5, <2>1 DEF Beyond
<1>7. \A f : Beyond(Top, f) => Beyond(c, f)
  BY <1>2 DEF Beyond, Listed, Limit
<1>8. \A o : Done(o)' = Done(o)
  BY <1>1 DEF Done, Cause, changeVars
<1>9. ASSUME NEW i \in Calls', NEW o \in kept, IsStrictPrefix(stack'[i].prefix, o)
      PROVE  LET f == EntryOf(stack'[i].prefix, o)
             IN  \/ Done(o) \/ f \in stack'[i].page \/ Beyond(stack'[i], f)
                 \/ i < Len(stack') /\ f = Towards(i)'
  <2>1. CASE i \in Calls /\ i = Len(stack)
    <3>1. stack'[i] = c /\ i < Len(stack')
      BY <1>3, <1>4, <2>1
    <3>2. Towards(i)' = [name |-> e.name, folder |-> TRUE]
      BY <1>3, <2>1
    <3>3. Towards(i)' = e
      BY <1>1, <3>2
    <3>4. Done(o) \/ EntryOf(Top.prefix, o) \in Top.page \/ Beyond(Top, EntryOf(Top.prefix, o))
      BY <1>2, <1>4, <1>9, <2>1, <3>1 DEF Missed, Ahead
    <3> QED BY <1>2, <1>7, <3>1, <3>4, <3>3
  <2>2. CASE i \in Calls /\ i # Len(stack)
    <3>1. stack'[i] = stack[i] /\ Towards(i)' = Towards(i) /\ i < Len(stack') /\ i < Len(stack)
      BY <1>3, <1>4, <2>2 DEF Calls
    <3> QED BY <1>9, <2>2, <3>1 DEF Missed, Ahead
  <2>3. CASE i \notin Calls
    <3>1. i = Len(stack) + 1
      BY <1>3, <1>4, <2>3 DEF Calls
    <3> QED BY <1>3, <1>5, <1>6, <3>1
  <2> QED BY <2>1, <2>2, <2>3
<1>10. \A i : \A o : Ahead(i, EntryOf(stack[i].prefix, o))'
         = LET f == EntryOf(stack'[i].prefix, o)
           IN  f \in stack'[i].page \/ Beyond(stack'[i], f) \/ (i < Len(stack') /\ f = Towards(i)')
  BY <1>1 DEF Ahead, Beyond, Listed, Limit, changeVars
<1> QED BY <1>1, <1>8, <1>9, <1>10 DEF Missed, changeVars

(* Who is below a folder is on the way to its call.                           *)
LEMMA InFolder ==
  ASSUME Frame, stack # <<>>, NEW i \in Calls, i + 1 = Len(stack),
         NEW o \in Paths, IsStrictPrefix(stack[i].prefix, o),
         EntryOf(stack[i].prefix, o) = Towards(i)
  PROVE  IsStrictPrefix(Top.prefix, o)
<1>1. CallOK(i) /\ i \in Nat \ {0}
  BY TopFacts DEF Frame, Stacked, Calls
<1>2. PICK p \in Seq(Nat) : p = stack[i].prefix /\ Len(p) = i - 1 /\ \A j \in 1..(i - 1) : p[j] = Top.prefix[j]
  BY <1>1, CallFields DEF CallOK
<1>3. PICK q \in Seq(Nat) : q = Top.prefix /\ Len(q) = i
  BY <1>1, TopFacts
<1>4. o \in Seq(Nat) /\ Len(o) \in Nat
  BY PathFacts
<1>5. Len(p) < Len(o) /\ \A j \in 1..(i - 1) : o[j] = p[j]
  <2>1. IsStrictPrefix(p, o)
    BY <1>2
  <2>2. Len(p) < Len(o) /\ \A j \in 1..Len(p) : o[j] = p[j]
    BY <1>4, <2>1, StrictPrefix
  <2> QED BY <1>2, <2>2
<1>6. o[i] = q[i] /\ Len(o) > i
  <2>1. EntryOf(p, o) = [name |-> o[i], folder |-> Len(o) > i]
    BY <1>1, <1>2 DEF EntryOf
  <2>2. EntryOf(p, o) = [name |-> q[i], folder |-> TRUE]
    BY <1>2, <1>3 DEF Towards
  <2>3. [name |-> o[i], folder |-> Len(o) > i].name = o[i] /\ [name |-> o[i], folder |-> Len(o) > i].folder = (Len(o) > i)
    OBVIOUS
  <2>4. [name |-> q[i], folder |-> TRUE].name = q[i] /\ [name |-> q[i], folder |-> TRUE].folder = TRUE
    OBVIOUS
  <2>5. o[i] = q[i]
    BY <2>1, <2>2, <2>3, <2>4
  <2>6. (Len(o) > i) = TRUE
    BY <2>1, <2>2, <2>3, <2>4
  <2> QED BY <2>5, <2>6
<1>7. ASSUME NEW j \in 1..Len(q) PROVE o[j] = q[j]
  <2>1. j \in 1..(i - 1) \/ j = i
    BY <1>1, <1>3
  <2> QED BY <1>2, <1>3, <1>5, <1>6, <2>1
<1> QED BY <1>3, <1>4, <1>6, <1>7, StrictPrefix

LEMMA MissedReturn ==
  ASSUME Frame, Missed, Return
  PROVE  Missed'
<1>1. /\ pc = "listing" /\ stack # <<>> /\ Top.asked /\ Top.page = {} /\ ~Top.full
      /\ stack' = Front(stack) /\ UNCHANGED <<changeVars, found>>
  BY ReturnEffect DEF Return
<1>2. /\ Len(stack') = Len(stack) - 1
      /\ \A i \in 1..(Len(stack) - 1) : stack'[i] = stack[i]
      /\ \A i \in 1..(Len(stack) - 2) : Towards(i)' = Towards(i)
  BY <1>1, Popped
<1>3. Top = stack[Len(stack)] /\ Len(stack) \in Calls /\ Len(stack) \in Nat \ {0}
  BY <1>1, TopFacts
<1>4. \A o \in kept : IsStrictPrefix(Top.prefix, o) => Done(o)
  <2> SUFFICES ASSUME NEW o \in kept, IsStrictPrefix(Top.prefix, o) PROVE Done(o)
    OBVIOUS
  <2>1. Done(o) \/ Ahead(Len(stack), EntryOf(Top.prefix, o))
    BY <1>3 DEF Missed
  <2>2. ~Ahead(Len(stack), EntryOf(Top.prefix, o))
    BY <1>1, <1>3 DEF Ahead, Beyond
  <2> QED BY <2>1, <2>2
<1>5. \A o : Done(o)' = Done(o)
  BY <1>1 DEF Done, Cause, changeVars
<1>6. ASSUME NEW i \in Calls', NEW o \in kept, IsStrictPrefix(stack'[i].prefix, o)
      PROVE  LET f == EntryOf(stack'[i].prefix, o)
             IN  \/ Done(o) \/ f \in stack'[i].page \/ Beyond(stack'[i], f)
                 \/ i < Len(stack') /\ f = Towards(i)'
  <2>1. i \in Calls /\ stack'[i] = stack[i] /\ i \in 1..(Len(stack) - 1)
    BY <1>2, <1>3 DEF Calls
  <2>2. Done(o) \/ Ahead(i, EntryOf(stack[i].prefix, o))
    BY <1>6, <2>1 DEF Missed
  <2>3. CASE i + 1 = Len(stack)
    <3>1. EntryOf(stack[i].prefix, o) = Towards(i) => Done(o)
      BY <1>1, <1>4, <1>6, <2>1, <2>3, InFolder DEF Frame
    <3> QED BY <2>1, <2>2, <3>1 DEF Ahead
  <2>4. CASE i + 1 # Len(stack)
    <3>1. i < Len(stack') /\ Towards(i)' = Towards(i)
      BY <1>2, <1>3, <2>1, <2>4
    <3> QED BY <2>1, <2>2, <3>1 DEF Ahead
  <2> QED BY <2>3, <2>4
<1>7. \A i : \A o : Ahead(i, EntryOf(stack[i].prefix, o))'
        = LET f == EntryOf(stack'[i].prefix, o)
          IN  f \in stack'[i].page \/ Beyond(stack'[i], f) \/ (i < Len(stack') /\ f = Towards(i)')
  BY <1>1 DEF Ahead, Beyond, Listed, Limit, changeVars
<1>8. ASSUME pc' = "done" PROVE \A o \in kept : Done(o)
  <2>1. Len(stack) = 1
    BY <1>1, <1>8, ReturnEffect
  <2>2. Top.prefix \in Seq(Nat) /\ Len(Top.prefix) = 0
    BY <1>1, <2>1, TopFacts
  <2>3. \A o \in kept : IsStrictPrefix(Top.prefix, o)
    <3> SUFFICES ASSUME NEW o \in kept PROVE IsStrictPrefix(Top.prefix, o)
      OBVIOUS
    <3>1. o \in Seq(Nat) /\ Len(o) \in Nat \ {0}
      BY PathFacts DEF Frame
    <3> QED BY <2>2, <3>1, StrictPrefix
  <2> QED BY <1>4, <2>3
<1> QED BY <1>1, <1>5, <1>6, <1>7, <1>8 DEF Missed, changeVars

(* While no entry before it goes away, an entry's rank can only grow.         *)
LEMMA MissedChange ==
  ASSUME Frame, Frame', Missed, UNCHANGED <<stack, found, pc>>, pc = "listing",
         kept' \subseteq kept, vanished \subseteq vanished',
         \A o \in kept' : \A c \in CallType :
           IsStrictPrefix(c.prefix, o) /\ ~Cause(o)' =>
             \A f \in Listed(c) : Before(f, EntryOf(c.prefix, o)) => f \in Listed(c)'
  PROVE  Missed'
<1>1. \A o : Done(o) => Done(o)'
  BY DEF Done, Cause
<1>2. ASSUME NEW i \in Calls, NEW o \in kept', IsStrictPrefix(stack[i].prefix, o), ~Done(o)',
             Beyond(stack[i], EntryOf(stack[i].prefix, o))
      PROVE  Beyond(stack[i], EntryOf(stack[i].prefix, o))'
  <2>1. PICK c \in CallType : c = stack[i] /\ c = stack'[i]
    BY DEF Frame, Stacked, CallOK
  <2>2. PICK e : e = EntryOf(c.prefix, o)
    OBVIOUS
  <2>3. PICK E : E = Listed(c) /\ IsFiniteSet(E) /\ (\A x : Rank(E, x) \in Nat) /\ Limit(c) \in Nat
    BY ListedFacts
  <2>4. PICK F : F = Listed(c)' /\ IsFiniteSet(F) /\ \A x : Rank(F, x) \in Nat
    <3>1. c.prefix \in Seq(Nat) /\ bucket' \subseteq Paths
      BY CallFields DEF Frame
    <3>2. IsFiniteSet(Entries(bucket', c.prefix)) /\ Entries(bucket', c.prefix) \subseteq EntryType
      BY <3>1, EntriesFacts
    <3>3. \A x : Rank(Entries(bucket', c.prefix), x) \in Nat
      BY <3>2, RankFacts
    <3> QED BY <3>2, <3>3 DEF Listed
  <2>5. \A f \in E : Before(f, e) => f \in F
    BY <1>2, <2>1, <2>2, <2>3, <2>4 DEF Done
  <2>6. Rank(E, e) <= Rank(F, e)
    BY <2>3, <2>4, <2>5, RankGrows
  <2>7. Rank(E, e) >= Limit(c) /\ (c.asked => c.full)
    BY <1>2, <2>1, <2>2, <2>3 DEF Beyond
  <2>8. Rank(F, e) >= Limit(c)
    BY <2>3, <2>4, <2>6, <2>7
  <2>9. Beyond(stack[i], EntryOf(stack[i].prefix, o))' = (Rank(F, e) >= Limit(c) /\ (c.asked => c.full))
    BY <2>1, <2>2, <2>4 DEF Beyond, Listed, Limit
  <2> QED BY <2>7, <2>8, <2>9
<1>3. Calls' = Calls /\ \A i : stack'[i] = stack[i] /\ Towards(i)' = Towards(i)
  BY DEF Calls, Towards, Top
<1>4. ASSUME NEW i \in Calls, NEW o \in kept', IsStrictPrefix(stack[i].prefix, o)
      PROVE  Done(o)' \/ Ahead(i, EntryOf(stack[i].prefix, o))'
  <2>1. Done(o) \/ Ahead(i, EntryOf(stack[i].prefix, o))
    BY <1>4 DEF Missed
  <2>2. /\ EntryOf(stack[i].prefix, o) \in stack[i].page => Ahead(i, EntryOf(stack[i].prefix, o))'
        /\ i < Len(stack) /\ EntryOf(stack[i].prefix, o) = Towards(i) => Ahead(i, EntryOf(stack[i].prefix, o))'
        /\ Beyond(stack[i], EntryOf(stack[i].prefix, o))' => Ahead(i, EntryOf(stack[i].prefix, o))'
    BY <1>3 DEF Ahead
  <2> QED BY <1>1, <1>2, <1>4, <2>1, <2>2 DEF Ahead
<1> QED BY <1>3, <1>4 DEF Missed

LEMMA MissedUpload ==
  ASSUME Frame, Frame', Missed, NEW o \in Paths, Upload(o)
  PROVE  Missed'
<1>1. \A c : Listed(c) \subseteq Listed(c)'
  BY DEF Upload, Listed, Entries
<1> QED BY <1>1, MissedChange DEF Upload

LEMMA MissedRemove ==
  ASSUME Frame, Frame', Missed, NEW r \in Paths, RemoveObject(r)
  PROVE  Missed'
<1>1. ASSUME NEW o \in kept', NEW c \in CallType, IsStrictPrefix(c.prefix, o), ~Cause(o)',
             NEW f \in Listed(c), Before(f, EntryOf(c.prefix, o)), f \notin Listed(c)'
      PROVE  FALSE
  <2>1. PICK p \in Seq(Nat) : p = c.prefix
    BY CallFields
  <2>2. PICK x \in bucket : IsStrictPrefix(p, x) /\ f = EntryOf(p, x)
    BY <1>1, <2>1 DEF Listed, Entries
  <2>3. x \notin bucket'
    BY <1>1, <2>1, <2>2 DEF Listed, Entries
  <2>4. x = r
    BY <2>2, <2>3 DEF RemoveObject
  <2>5. p \in Folders(r)
    BY <2>1, <2>2, <2>4, FoldersFacts
  <2>6. f \notin Entries(bucket', p)
    BY <1>1, <2>1 DEF Listed
  <2>7. PICK v : v = [prefix |-> p, entry |-> f]
    OBVIOUS
  <2>8. v \in vanished'
    BY <2>2, <2>4, <2>5, <2>6, <2>7 DEF RemoveObject
  <2>9. IsStrictPrefix(v.prefix, o) /\ Before(v.entry, EntryOf(v.prefix, o))
    BY <1>1, <2>1, <2>7
  <2> QED BY <1>1, <2>8, <2>9 DEF Cause
<1>2. kept' \subseteq kept /\ vanished \subseteq vanished' /\ UNCHANGED <<stack, found, pc>> /\ pc = "listing"
  BY DEF RemoveObject
<1> QED BY <1>1, <1>2, MissedChange

LEMMA MissedInit == Init => Missed
<1> SUFFICES ASSUME Init PROVE Missed
  OBVIOUS
<1>1. Frame
  BY FrameInit
<1>2. PICK d \in CallType : d = Call(<<>>) /\ d.offset = 0 /\ d.asked = FALSE
  BY <<>> \in Seq(Nat), NewCall
<1>3. Calls = {1} /\ stack[1] = d
  BY <1>2 DEF Init, Calls
<1>4. \A f : Beyond(d, f)
  <2>1. Limit(d) = 0 /\ \A f : Rank(Listed(d), f) \in Nat
    BY <1>1, <1>2, ListedFacts DEF Limit
  <2> QED BY <1>2, <2>1 DEF Beyond
<1>5. pc # "done"
  BY DEF Init
<1> QED BY <1>3, <1>4, <1>5 DEF Missed, Ahead

LEMMA MissedNext ==
  ASSUME Frame, Frame', Missed, [Next]_vars
  PROVE  Missed'
<1>1. CASE UNCHANGED vars
  BY <1>1 DEF vars, Missed, Calls, Ahead, Beyond, Listed, Limit, Towards, Top, Done, Cause
<1>2. CASE RequestFails
  BY <1>2 DEF RequestFails, changeVars, Missed, Calls, Ahead, Beyond, Listed, Limit, Towards, Top, Done, Cause
<1> QED BY <1>1, <1>2, MissedRequest, MissedNextPage, MissedTake, MissedEnter, MissedReturn,
           MissedUpload, MissedRemove DEF Next, Step, Over

-------------------------------------------------------------------------------
(* The two properties *)

ListInv == Frame /\ Once /\ Still /\ Missed

LEMMA ListInvariant == Spec => []ListInv
<1>1. Init => ListInv
  BY FrameInit, OnceInit, StillInit, MissedInit DEF ListInv
<1>2. ListInv /\ [Next]_vars => ListInv'
  BY FrameNext, OnceNext, StillNext, MissedNext DEF ListInv
<1> QED BY <1>1, <1>2, PTL DEF Spec

(* What listObjects misses of what was there all the time, it misses because  *)
(* an entry before it, in a folder on its path, went away meanwhile.          *)
THEOREM MissedCorrect == Spec => []MissedHasCause
<1>1. ListInv => MissedHasCause
  <2> SUFFICES ASSUME ListInv, pc = "done", NEW o \in kept, found[o] = 0 PROVE Cause(o)
    BY DEF MissedHasCause, Cause
  <2>1. Done(o)
    BY DEF ListInv, Missed
  <2> QED BY <2>1 DEF Done
<1> QED BY <1>1, ListInvariant, PTL

(* Without uploads listObjects lists no object twice, and when nothing is     *)
(* removed either, exactly those of the bucket.                               *)
THEOREM TwiceCorrect == Spec => []NothingTwice
<1>1. ListInv => NothingTwice
  <2> SUFFICES ASSUME ListInv, pc = "done", uploads = 0, NEW o \in Paths
               PROVE  found[o] <= 1 /\ (removals = 0 => (found[o] = 1) = (o \in bucket))
    BY DEF NothingTwice
  <2>1. found[o] <= 1 /\ found[o] \in 0..2
    BY DEF ListInv, Once, Frame
  <2>2. ASSUME removals = 0, found[o] = 1 PROVE o \in bucket
    BY <2>2 DEF ListInv, Still
  <2>3. ASSUME removals = 0, o \in bucket PROVE found[o] = 1
    <3>1. Done(o) /\ ~Cause(o)
      BY <2>3 DEF ListInv, Still, Missed, Cause
    <3> QED BY <2>1, <3>1 DEF Done
  <2> QED BY <2>1, <2>2, <2>3
<1> QED BY <1>1, ListInvariant, PTL

=============================================================================
