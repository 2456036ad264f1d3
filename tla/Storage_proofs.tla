---------------------------- MODULE Storage_proofs ---------------------------
(* What is on disk: the event journal, for any number of processes that      *)
(* prune, start, write and end; the sidecar store and its migration, for any *)
(* number of processes and names; and the catalogue of profiles with the     *)
(* files behind it, for any sequence of keys, results, imports and commands. *)
EXTENDS Journal, ProfileStore, Catalogue, FiniteSetTheorems, SequenceTheorems,
        WellFoundedInduction, TLAPS

-----------------------------------------------------------------------------
(* Journal: directory listings                                               *)

Known == Sessions \cup Past
Listings == {q \in Seq(Known) : IsInjective(q)}

LEMMA FilesOf ==
  ASSUME NEW q \in Listings
  PROVE  /\ q \in Seq(Known) /\ Len(q) \in Nat /\ DOMAIN q = 1..Len(q)
         /\ \A i \in 1..Len(q) : q[i] \in Files(q) /\ q[i] \in Known
         /\ \A f \in Files(q) : \E i \in 1..Len(q) : q[i] = f
         /\ \A i, j \in 1..Len(q) : q[i] = q[j] => i = j
  BY DEF Listings, Files, ToSet, IsInjective

LEMMA FilesCounted ==
  ASSUME NEW q \in Listings
  PROVE  IsFiniteSet(Files(q)) /\ Cardinality(Files(q)) = Len(q)
<1>1. q \in Surjection(1..Len(q), Files(q)) /\ q \in Injection(1..Len(q), Files(q))
  BY FilesOf DEF Surjection, Injection, IsInjective
<1>2. IsFiniteSet(1..Len(q)) /\ Cardinality(1..Len(q)) = Len(q)
  BY FilesOf, FS_Interval
<1> QED
  BY <1>1, <1>2, FS_Surjection

LEMMA EmptyListing == <<>> \in Listings /\ Files(<<>>) = {}
  BY DEF Listings, Files, ToSet, IsInjective

LEMMA DropListed ==
  ASSUME NEW q \in Listings, NEW f
  PROVE  Dropping(q, f) \in Listings /\ Files(Dropping(q, f)) = Files(q) \ {f}
<1>1. CASE f \notin Files(q)
  BY <1>1 DEF Dropping
<1>2. CASE f \in Files(q)
  <2> DEFINE n == Len(q)
             i == CHOOSE k \in DOMAIN q : q[k] = f
             r == RemoveAt(q, i)
  <2>1. i \in 1..n /\ q[i] = f /\ n \in Nat \ {0} /\ q \in Seq(Known)
    BY <1>2, FilesOf
  <2> HIDE DEF i
  <2> DEFINE left == SubSeq(q, 1, i - 1)
             right == SubSeq(q, i + 1, n)
  <2>a. \A j \in 1..n : q[j] \in Known
    BY FilesOf
  <2>b. left \in Seq(Known) /\ Len(left) = i - 1 /\ \A j \in 1..i - 1 : left[j] = q[j]
    <3>1. i - 1 \in Int /\ \A j \in 1..i - 1 : q[j] \in Known
      BY <2>1, <2>a
    <3> QED
      BY <2>1, <3>1, SubSeqProperties
  <2>c. right \in Seq(Known) /\ Len(right) = n - i /\ \A j \in 1..n - i : right[j] = q[i + j]
    <3>1. i + 1 \in Int /\ n \in Int /\ \A j \in i + 1..n : q[j] \in Known
      BY <2>1, <2>a
    <3>2. /\ right \in Seq(Known)
          /\ Len(right) = IF i + 1 <= n THEN n - (i + 1) + 1 ELSE 0
          /\ \A j \in 1..n - (i + 1) + 1 : right[j] = q[(i + 1) + j - 1]
      BY <3>1, SubSeqProperties
    <3> HIDE DEF right
    <3>3. \A j \in 1..n - i : right[j] = q[i + j]
      BY <2>1, <3>2
    <3> QED
      BY <2>1, <3>2, <3>3
  <2> HIDE DEF left, right
  <2>d. r = left \o right
    BY DEF RemoveAt, left, right
  <2>2. r \in Seq(Known) /\ Len(r) = n - 1
    BY <2>1, <2>b, <2>c, <2>d, ConcatProperties
  <2>3. \A j \in 1..n - 1 : r[j] = IF j < i THEN q[j] ELSE q[j + 1]
    <3> TAKE j \in 1..n - 1
    <3>1. r[j] = IF j <= i - 1 THEN left[j] ELSE right[j - (i - 1)]
      BY <2>1, <2>b, <2>c, <2>d, ConcatProperties
    <3>2. CASE j < i
      BY <2>1, <2>b, <3>1, <3>2
    <3>3. CASE ~(j < i)
      <4>1. j - (i - 1) \in 1..n - i /\ i + (j - (i - 1)) = j + 1
        BY <2>1, <3>3
      <4> QED
        BY <2>1, <2>c, <3>1, <3>3, <4>1
    <3> QED
      BY <3>2, <3>3
  <2>4. Dropping(q, f) = r
    BY <1>2 DEF Dropping, i
  <2> HIDE DEF r, n
  <2>5. DOMAIN r = 1..n - 1
    BY <2>2
  <2>6. n = Len(q)
    BY DEF n
  <2>7. IsInjective(r)
    <3>1. \A j, k \in 1..n : q[j] = q[k] => j = k
      BY <2>6, FilesOf
    <3>2. ASSUME NEW j \in 1..n - 1, NEW k \in 1..n - 1, r[j] = r[k] PROVE j = k
      <4>1. PICK a \in 1..n : r[j] = q[a] /\ a = IF j < i THEN j ELSE j + 1
        BY <2>1, <2>3
      <4>2. PICK b \in 1..n : r[k] = q[b] /\ b = IF k < i THEN k ELSE k + 1
        BY <2>1, <2>3
      <4>3. a = b
        BY <3>1, <3>2, <4>1, <4>2
      <4> QED
        BY <2>1, <4>1, <4>2, <4>3
    <3> QED
      BY <2>5, <3>2 DEF IsInjective
  <2>8. ASSUME NEW g \in Files(r) PROVE g \in Files(q) \ {f}
    <3>1. PICK j \in 1..n - 1 : g = r[j]
      BY <2>5, <2>8 DEF Files, ToSet
    <3>2. PICK k \in 1..n : k # i /\ g = q[k]
      BY <2>1, <2>3, <3>1
    <3> QED
      BY <2>1, <2>6, <3>2, FilesOf
  <2>9. ASSUME NEW g \in Files(q) \ {f} PROVE g \in Files(r)
    <3>1. PICK k \in 1..n : g = q[k]
      BY <2>6, <2>9, FilesOf
    <3>2. k # i
      BY <2>1, <2>9, <3>1
    <3>3. CASE k < i
      BY <2>1, <2>3, <2>5, <3>1, <3>3 DEF Files, ToSet
    <3>4. CASE k > i
      <4>1. k - 1 \in 1..n - 1 /\ r[k - 1] = g
        BY <2>1, <2>3, <3>1, <3>4
      <4> QED
        BY <2>5, <4>1 DEF Files, ToSet
    <3> QED
      BY <2>1, <3>1, <3>2, <3>3, <3>4
  <2>10. Files(r) = Files(q) \ {f}
    BY <2>8, <2>9
  <2> QED
    BY <2>2, <2>4, <2>7, <2>10 DEF Listings
<1> QED
  BY <1>1, <1>2

LEMMA PrependListed ==
  ASSUME NEW q \in Listings, NEW s \in Known, s \notin Files(q)
  PROVE  <<s>> \o q \in Listings /\ Files(<<s>> \o q) = Files(q) \cup {s}
<1> DEFINE r == <<s>> \o q
           n == Len(q)
<1>a. <<s>> \in Seq(Known) /\ Len(<<s>>) = 1 /\ <<s>>[1] = s /\ q \in Seq(Known) /\ n \in Nat
  BY FilesOf
<1>b. /\ r \in Seq(Known) /\ Len(r) = 1 + n
      /\ \A j \in 1..1 + n : r[j] = IF j <= 1 THEN <<s>>[j] ELSE q[j - 1]
  BY <1>a, ConcatProperties
<1> HIDE DEF r
<1>1. /\ r \in Seq(Known) /\ Len(r) = n + 1 /\ n \in Nat
      /\ r[1] = s /\ \A j \in 1..n : r[j + 1] = q[j]
  <2>1. \A j \in 1..n : j + 1 \in 1..1 + n /\ ~(j + 1 <= 1) /\ (j + 1) - 1 = j
    BY <1>a
  <2> QED
    BY <1>a, <1>b, <2>1
<1>2. n = Len(q)
  OBVIOUS
<1> HIDE DEF n
<1>3. DOMAIN r = 1..n + 1
  BY <1>1
<1>4. \A j \in 1..n + 1 : j = 1 \/ (j - 1 \in 1..n /\ r[j] = q[j - 1])
  <2> TAKE j \in 1..n + 1
  <2>1. CASE j # 1
    <3>1. j - 1 \in 1..n /\ (j - 1) + 1 = j
      BY <1>1, <2>1
    <3> QED
      BY <1>1, <3>1
  <2> QED
    BY <2>1
<1>q. /\ \A j \in 1..n : q[j] \in Files(q)
      /\ \A j, k \in 1..n : q[j] = q[k] => j = k
  BY <1>2, FilesOf
<1>5. IsInjective(r)
  <2>1. ASSUME NEW j \in 1..n + 1, NEW k \in 1..n + 1, r[j] = r[k] PROVE j = k
    <3>1. CASE j = 1 \/ k = 1
      BY <1>1, <1>4, <1>q, <2>1, <3>1
    <3>2. CASE j # 1 /\ k # 1
      <4>1. /\ j - 1 \in 1..n /\ r[j] = q[j - 1]
            /\ k - 1 \in 1..n /\ r[k] = q[k - 1]
        BY <1>4, <3>2
      <4>2. j - 1 = k - 1
        BY <1>q, <2>1, <4>1
      <4> QED
        BY <1>1, <4>2
    <3> QED
      BY <3>1, <3>2
  <2> QED
    BY <1>3, <2>1 DEF IsInjective
<1>6. ASSUME NEW f \in Files(r) PROVE f \in Files(q) \cup {s}
  <2>1. PICK j \in 1..n + 1 : f = r[j]
    BY <1>3, <1>6 DEF Files, ToSet
  <2> QED
    BY <1>1, <1>4, <1>q, <2>1
<1>7. Files(q) \cup {s} \subseteq Files(r)
  <2>1. s \in Files(r)
    BY <1>1, <1>3 DEF Files, ToSet
  <2>2. ASSUME NEW f \in Files(q) PROVE f \in Files(r)
    <3>1. PICK j \in 1..n : q[j] = f
      BY <1>2, FilesOf
    <3>2. j + 1 \in 1..n + 1 /\ r[j + 1] = f
      BY <1>1, <3>1
    <3> QED
      BY <1>3, <3>2 DEF Files, ToSet
  <2> QED
    BY <2>1, <2>2
<1> QED
  BY <1>1, <1>5, <1>6, <1>7 DEF Listings, r
-----------------------------------------------------------------------------
(* The directory                                                             *)

DirShape ==
    /\ recent \in Listings
    /\ old \subseteq Known /\ since \subseteq Known
    /\ phase \in [Sessions -> Phases]
    /\ doomed \in [Sessions -> SUBSET Known]
    /\ listed \in [Sessions -> SUBSET Known]

\* The file of a process that has not come to create it is nowhere.
FreshInv ==
    \A s \in Sessions : phase[s] \in {"off", "pruning", "opened"} =>
        s \notin Files(recent) /\ \A t \in Sessions : s \notin listed[t]

\* What a pass is going to leave of the files it listed.
Leaves(s) == (Files(recent) \cap listed[s]) \ doomed[s]

\* Of the files the last finished pass found and could remove, and of those a pass
\* under way will leave, there are no more than the retention count.
KeptInv ==
    /\ Cardinality(Files(recent) \ since) <= RetentionCount
    /\ \A s \in Sessions : phase[s] = "pruning" => Cardinality(Leaves(s)) <= RetentionCount

DirInv == DirShape /\ FreshInv /\ KeptInv

LEMMA KnownFinite == IsFiniteSet(Known) /\ RetentionCount \in Nat
  BY JournalAssumption DEF JournalAssumption, Known

LEMMA FilesKnown == ASSUME NEW q \in Listings PROVE Files(q) \subseteq Known
  BY FilesOf

LEMMA FewerStay ==
  ASSUME NEW S \in SUBSET Known, NEW T \in SUBSET S, Cardinality(S) <= RetentionCount
  PROVE  Cardinality(T) <= RetentionCount
<1>1. IsFiniteSet(S) /\ IsFiniteSet(T)
  BY KnownFinite, FS_Subset
<1>2. Cardinality(T) <= Cardinality(S) /\ Cardinality(T) \in Nat /\ Cardinality(S) \in Nat
  BY <1>1, FS_Subset, FS_CardinalityType
<1> QED
  BY <1>2, KnownFinite

LEMMA FirstFew ==
  ASSUME NEW q \in Listings, NEW T, NEW k \in Nat,
         T \subseteq {q[i] : i \in {j \in 1..Len(q) : j <= k}}
  PROVE  Cardinality(T) <= k
<1> DEFINE D == {j \in 1..Len(q) : j <= k}
           R == {q[i] : i \in D}
           g == [i \in D |-> q[i]]
<1>1. IsFiniteSet(1..k) /\ Cardinality(1..k) = k
  BY FS_Interval
<1>2. D \in SUBSET (1..k)
  BY FilesOf
<1>3. IsFiniteSet(D) /\ Cardinality(D) <= k
  BY <1>1, <1>2, FS_Subset
<1>4. g \in Surjection(D, R)
  BY DEF Surjection
<1> HIDE DEF D, g, R
<1>5. IsFiniteSet(R) /\ Cardinality(R) <= Cardinality(D)
  BY <1>3, <1>4, FS_Surjection
<1>6. T \subseteq R
  BY DEF R, D
<1>7. IsFiniteSet(T) /\ Cardinality(T) <= Cardinality(R)
  BY <1>5, <1>6, FS_Subset
<1>8. Cardinality(T) \in Nat /\ Cardinality(R) \in Nat /\ Cardinality(D) \in Nat
  BY <1>3, <1>5, <1>7, FS_CardinalityType
<1> QED
  BY <1>3, <1>5, <1>7, <1>8

\* The first listing: none, or the files of earlier sessions in some order.
LEMMA FirstListing == SetToSeq(Past) \in Listings /\ Files(SetToSeq(Past)) \subseteq Past
<1>1. IsFiniteSet(Past)
  BY JournalAssumption, FS_Subset DEF JournalAssumption
<1>2. ExistsBijection(1..Cardinality(Past), Past) /\ Cardinality(Past) \in Nat
  BY <1>1, FS_CardinalityType
<1>3. \E f \in [1..Cardinality(Past) -> Past] : IsInjective(f)
  BY <1>2 DEF ExistsBijection, Bijection, Injection
<1>4. SetToSeq(Past) \in [1..Cardinality(Past) -> Past] /\ IsInjective(SetToSeq(Past))
  BY <1>3 DEF SetToSeq
<1>5. SetToSeq(Past) \in Seq(Known)
  BY <1>2, <1>4, SeqDef DEF Known
<1>6. Files(SetToSeq(Past)) \subseteq Past
  BY <1>4 DEF Files, ToSet
<1> QED
  BY <1>4, <1>5, <1>6 DEF Listings

LEMMA DirInit == JournalInit => DirInv
<1> SUFFICES ASSUME JournalInit PROVE DirInv
  OBVIOUS
<1>1. recent \in Listings
  BY EmptyListing, FirstListing DEF JournalInit
<1>2. Files(recent) \subseteq Past
  BY <1>1, EmptyListing, FirstListing DEF JournalInit
<1>3. DirShape
  BY <1>1, FilesKnown DEF JournalInit, DirShape, Phases
<1>4. FreshInv
  BY <1>2, JournalAssumption DEF JournalInit, FreshInv, JournalAssumption
<1>5. Cardinality(Files(recent) \ since) = 0
  BY FS_EmptySet DEF JournalInit
<1> QED
  BY <1>3, <1>4, <1>5, KnownFinite DEF JournalInit, DirInv, KeptInv
\* Steps of a process that leave directory, passes and phases alone.
dirVars == <<phase, recent, old, doomed, listed, since>>

LEMMA DirFrame == DirInv /\ UNCHANGED dirVars => DirInv'
  BY DEF dirVars, DirInv, DirShape, FreshInv, KeptInv, Leaves

LEMMA PruneListDir == ASSUME DirInv, NEW s \in Sessions, PruneList(s) PROVE DirInv'
<1>1. /\ phase[s] = "off" /\ phase' = [phase EXCEPT ![s] = "pruning"]
      /\ doomed' = [doomed EXCEPT ![s] = Doomed]
      /\ listed' = [listed EXCEPT ![s] = Files(recent)]
      /\ recent' = recent /\ old' = old /\ since' = since
  BY DEF PruneList
<1>2. recent \in Listings /\ Files(recent) \subseteq Known
  BY FilesKnown DEF DirInv, DirShape
<1>3. Doomed \subseteq Known
  BY <1>2, FilesOf DEF Doomed, DirInv, DirShape
<1>4. DirShape'
  BY <1>1, <1>2, <1>3 DEF DirInv, DirShape, Phases
<1>5. FreshInv'
  BY <1>1, <1>4 DEF DirInv, FreshInv, DirShape
<1>6. Cardinality(Files(recent) \ Doomed) <= RetentionCount
  <2>1. Files(recent) \ Doomed \subseteq
          {recent[i] : i \in {j \in 1..Len(recent) : j <= RetentionCount}}
    <3> SUFFICES ASSUME NEW f \in Files(recent) \ Doomed
                 PROVE  \E i \in 1..Len(recent) : i <= RetentionCount /\ f = recent[i]
      OBVIOUS
    <3>1. PICK i \in 1..Len(recent) : f = recent[i]
      BY <1>2, FilesOf
    <3>2. ~(i > RetentionCount)
      BY <1>2, <3>1, FilesOf DEF Doomed, Stale
    <3> QED
      BY <3>1, <3>2, KnownFinite
  <2> QED
    BY <1>2, <2>1, FirstFew, KnownFinite
<1>7. KeptInv'
  <2>1. Leaves(s)' = Files(recent) \ Doomed
    BY <1>1 DEF Leaves, DirInv, DirShape
  <2>2. \A t \in Sessions \ {s} : Leaves(t)' = Leaves(t) /\ phase'[t] = phase[t]
    BY <1>1 DEF Leaves, DirInv, DirShape
  <2> QED
    BY <1>1, <1>6, <2>1, <2>2 DEF DirInv, KeptInv
<1> QED
  BY <1>4, <1>5, <1>7 DEF DirInv

\* A step after which there is no file that was not there, and nothing that was
\* left is doomed any less, keeps the counts.
LEMMA KeptShrinks ==
  ASSUME DirInv, recent' \in Listings, Files(recent') \subseteq Files(recent), since' = since,
         \A t \in Sessions : phase'[t] = "pruning" =>
            phase[t] = "pruning" /\ Leaves(t)' \subseteq Leaves(t)
  PROVE  KeptInv'
<1>1. Files(recent) \subseteq Known
  BY FilesKnown DEF DirInv, DirShape
<1>2. Cardinality(Files(recent') \ since') <= RetentionCount
  <2>1. Files(recent') \ since' \subseteq Files(recent) \ since
    OBVIOUS
  <2> QED
    BY <1>1, <2>1, FewerStay DEF DirInv, KeptInv
<1>3. ASSUME NEW t \in Sessions, phase'[t] = "pruning"
      PROVE  Cardinality(Leaves(t)') <= RetentionCount
  <2>1. Leaves(t) \in SUBSET Known
    BY <1>1 DEF Leaves
  <2>2. Cardinality(Leaves(t)) <= RetentionCount
    BY <1>3 DEF DirInv, KeptInv
  <2> QED
    BY <1>3, <2>1, <2>2, FewerStay
<1> QED
  BY <1>2, <1>3 DEF KeptInv

LEMMA PruneRemoveDir == ASSUME DirInv, NEW s \in Sessions, PruneRemove(s) PROVE DirInv'
<1>1. PICK f \in doomed[s] :
        /\ recent' = Dropping(recent, f) /\ old' = old \ {f}
        /\ doomed' = [doomed EXCEPT ![s] = @ \ {f}]
        /\ phase' = phase /\ listed' = listed /\ since' = since
  BY DEF PruneRemove
<1>2. recent' \in Listings /\ Files(recent') = Files(recent) \ {f}
  BY <1>1, DropListed DEF DirInv, DirShape
<1>3. DirShape'
  BY <1>1, <1>2 DEF DirInv, DirShape
<1>4. FreshInv'
  BY <1>1, <1>2 DEF DirInv, FreshInv
<1>5. \A t \in Sessions : Leaves(t)' \subseteq Leaves(t)
  <2>1. \A t \in Sessions : doomed'[t] = IF t = s THEN doomed[s] \ {f} ELSE doomed[t]
    BY <1>1 DEF DirInv, DirShape
  <2> QED
    BY <1>1, <1>2, <2>1 DEF Leaves
<1> QED
  BY <1>1, <1>2, <1>3, <1>4, <1>5, KeptShrinks DEF DirInv

LEMMA PruneListFailsDir == ASSUME DirInv, NEW s \in Sessions, PruneListFails(s) PROVE DirInv'
<1>1. /\ phase[s] = "off" /\ phase' = [phase EXCEPT ![s] = "pruning"]
      /\ doomed' = [doomed EXCEPT ![s] = {}] /\ listed' = [listed EXCEPT ![s] = {}]
      /\ UNCHANGED <<recent, old, since>>
  BY DEF PruneListFails
<1>2. DirShape'
  BY <1>1 DEF DirInv, DirShape, Phases
<1>3. FreshInv'
  BY <1>1 DEF DirInv, FreshInv, DirShape
<1>4. Leaves(s)' = {} /\ Cardinality({}) = 0
  BY <1>1, FS_EmptySet DEF Leaves, DirInv, DirShape
<1>5. \A t \in Sessions \ {s} : Leaves(t)' = Leaves(t) /\ phase'[t] = phase[t]
  BY <1>1 DEF Leaves, DirInv, DirShape
<1>6. KeptInv'
  BY <1>1, <1>4, <1>5, KnownFinite DEF DirInv, KeptInv
<1> QED
  BY <1>2, <1>3, <1>6 DEF DirInv

LEMMA PruneRemoveFailsDir ==
  ASSUME DirInv, NEW s \in Sessions, PruneRemoveFails(s)
  PROVE  DirInv'
<1>1. PICK f \in doomed[s] :
        /\ doomed' = [doomed EXCEPT ![s] = @ \ {f}]
        /\ listed' = [listed EXCEPT ![s] = @ \ {f}]
        /\ UNCHANGED <<phase, recent, old, since>>
  BY DEF PruneRemoveFails
<1>2. \A t \in Sessions : /\ doomed'[t] = IF t = s THEN doomed[s] \ {f} ELSE doomed[t]
                          /\ listed'[t] = IF t = s THEN listed[s] \ {f} ELSE listed[t]
  BY <1>1 DEF DirInv, DirShape
<1>3. DirShape'
  BY <1>1 DEF DirInv, DirShape
<1>4. FreshInv'
  BY <1>1, <1>2 DEF DirInv, FreshInv
<1>5. \A t \in Sessions : Leaves(t)' = Leaves(t)
  BY <1>1, <1>2 DEF Leaves
<1>6. KeptInv'
  BY <1>1, <1>5 DEF DirInv, KeptInv
<1> QED
  BY <1>3, <1>4, <1>6 DEF DirInv

LEMMA OpenDir == ASSUME DirInv, NEW s \in Sessions, Open(s) PROVE DirInv'
<1>1. /\ phase[s] = "pruning" /\ doomed[s] = {} /\ phase' = [phase EXCEPT ![s] = "opened"]
      /\ since' = Files(recent) \ listed[s] /\ listed' = [listed EXCEPT ![s] = {}]
      /\ recent' = recent /\ old' = old /\ doomed' = doomed
  BY DEF Open
<1>2. recent \in Listings /\ Files(recent) \subseteq Known
  BY FilesKnown DEF DirInv, DirShape
<1>3. DirShape'
  BY <1>1, <1>2 DEF DirInv, DirShape, Phases
<1>4. FreshInv'
  BY <1>1 DEF DirInv, FreshInv, DirShape
<1>5. Files(recent') \ since' = Leaves(s)
  BY <1>1 DEF Leaves
<1>6. \A t \in Sessions : phase'[t] = "pruning" =>
         phase[t] = "pruning" /\ Leaves(t)' = Leaves(t)
  BY <1>1 DEF Leaves, DirInv, DirShape
<1>7. KeptInv'
  BY <1>1, <1>5, <1>6 DEF DirInv, KeptInv
<1> QED
  BY <1>3, <1>4, <1>7 DEF DirInv

LEMMA CreateFileDir == ASSUME DirInv, NEW s \in Sessions, CreateFile(s) PROVE DirInv'
<1>1. /\ phase[s] = "opened" /\ phase' = [phase EXCEPT ![s] = "running"]
      /\ recent' = <<s>> \o recent /\ since' = since \cup {s}
      /\ old' = old /\ doomed' = doomed /\ listed' = listed
  BY DEF CreateFile
<1>2. s \in Known /\ s \notin Files(recent) /\ \A t \in Sessions : s \notin listed[t]
  BY <1>1 DEF DirInv, FreshInv, Known
<1>3. recent' \in Listings /\ Files(recent') = Files(recent) \cup {s}
  BY <1>1, <1>2, PrependListed DEF DirInv, DirShape
<1>4. DirShape'
  BY <1>1, <1>2, <1>3 DEF DirInv, DirShape, Phases
<1>5. FreshInv'
  BY <1>1, <1>3 DEF DirInv, FreshInv, DirShape
<1>6. Cardinality(Files(recent') \ since') <= RetentionCount
  <2>1. Files(recent') \ since' \subseteq Files(recent) \ since
    BY <1>1, <1>3
  <2>2. Files(recent) \ since \in SUBSET Known
    BY FilesKnown DEF DirInv, DirShape
  <2> QED
    BY <2>1, <2>2, FewerStay DEF DirInv, KeptInv
<1>7. \A t \in Sessions : phase'[t] = "pruning" =>
         phase[t] = "pruning" /\ Leaves(t)' = Leaves(t)
  BY <1>1, <1>2, <1>3 DEF Leaves, DirInv, DirShape
<1>8. KeptInv'
  BY <1>6, <1>7 DEF DirInv, KeptInv
<1> QED
  BY <1>4, <1>5, <1>8 DEF DirInv

LEMMA PersistDir == ASSUME DirInv, NEW s \in Sessions, Persist(s) PROVE DirInv'
<1>1. /\ phase' = phase /\ doomed' = doomed /\ listed' = listed /\ since' = since
      /\ \/ recent' = recent /\ old' = old
         \/ /\ s \in Files(recent) /\ recent' = <<s>> \o Dropping(recent, s)
            /\ old' = old \ {s}
  BY DEF Persist
<1>2. recent' \in Listings /\ Files(recent') = Files(recent)
  <2>1. CASE recent' = recent
    BY <2>1 DEF DirInv, DirShape
  <2>2. CASE s \in Files(recent) /\ recent' = <<s>> \o Dropping(recent, s)
    <3>1. /\ Dropping(recent, s) \in Listings
          /\ Files(Dropping(recent, s)) = Files(recent) \ {s}
      BY DropListed DEF DirInv, DirShape
    <3>2. s \in Known
      BY DEF Known
    <3>3. /\ <<s>> \o Dropping(recent, s) \in Listings
          /\ Files(<<s>> \o Dropping(recent, s)) = Files(Dropping(recent, s)) \cup {s}
      BY <3>1, <3>2, PrependListed
    <3> QED
      BY <2>2, <3>1, <3>3
  <2> QED
    BY <1>1, <2>1, <2>2
<1>3. DirShape'
  BY <1>1, <1>2 DEF DirInv, DirShape
<1>4. FreshInv'
  BY <1>1, <1>2 DEF DirInv, FreshInv
<1>5. \A t \in Sessions : Leaves(t)' = Leaves(t)
  BY <1>1, <1>2 DEF Leaves
<1> QED
  BY <1>1, <1>2, <1>3, <1>4, <1>5, KeptShrinks DEF DirInv

LEMMA PhaseDir ==
  ASSUME DirInv, NEW s \in Sessions, OpenFails(s) \/ Ends(s)
  PROVE  DirInv'
<1>1. /\ \A t \in Sessions : phase'[t] # phase[t] => t = s /\ phase'[t] \in {"drain", "gone"}
      /\ recent' = recent /\ old' = old /\ since' = since
      /\ \A t \in Sessions : \/ doomed'[t] = doomed[t] /\ listed'[t] = listed[t]
                             \/ t = s /\ phase'[t] = "gone" /\ listed'[t] = {}
  BY DEF OpenFails, Ends, DirInv, DirShape
<1>2. DirShape'
  BY DEF OpenFails, Ends, DirInv, DirShape, Phases
<1>3. FreshInv'
  BY <1>1 DEF DirInv, FreshInv
<1>4. \A t \in Sessions : phase'[t] = "pruning" =>
         phase[t] = "pruning" /\ Leaves(t)' = Leaves(t)
  BY <1>1 DEF Leaves
<1>5. KeptInv'
  BY <1>1, <1>4 DEF DirInv, KeptInv
<1> QED
  BY <1>2, <1>3, <1>5 DEF DirInv

LEMMA DirStep == DirInv /\ [JournalNext]_journalVars => DirInv'
<1> SUFFICES ASSUME DirInv, [JournalNext]_journalVars PROVE DirInv'
  OBVIOUS
<1>1. ASSUME NEW s \in Sessions,
             \/ AppendEvent(s) \/ Broadcast(s) \/ PushTail(s) \/ Drain(s)
             \/ Subscribe(s) \/ ReadTail(s) \/ Receive(s)
      PROVE  DirInv'
  <2>1. UNCHANGED dirVars
    BY <1>1 DEF AppendEvent, Broadcast, PushTail, Drain, Subscribe, ReadTail, Receive, dirVars
  <2> QED
    BY <2>1, DirFrame
<1>2. CASE Ages
  <2>1. /\ old' \subseteq Known
        /\ UNCHANGED <<phase, recent, doomed, listed, since>>
    BY <1>2, FilesKnown DEF Ages, DirInv, DirShape
  <2> QED
    BY <2>1 DEF DirInv, DirShape, FreshInv, KeptInv, Leaves
<1>3. CASE UNCHANGED journalVars
  BY <1>3, DirFrame DEF journalVars, dirVars
<1> QED
  BY <1>1, <1>2, <1>3, PruneListDir, PruneRemoveDir, PruneListFailsDir, PruneRemoveFailsDir, OpenDir, CreateFileDir, PersistDir, PhaseDir
  DEF JournalNext

LEMMA DirBounded == DirInv => FilesBounded
<1> SUFFICES ASSUME DirInv PROVE FilesBounded
  OBVIOUS
<1> DEFINE A == Files(recent) \ since
           B == since
<1>1. recent \in Listings /\ A \in SUBSET Known /\ B \in SUBSET Known
  BY FilesKnown DEF DirInv, DirShape
<1>2. IsFiniteSet(A) /\ IsFiniteSet(B) /\ IsFiniteSet(Files(recent))
  BY <1>1, KnownFinite, FS_Subset, FilesCounted
<1>3. Files(recent) \in SUBSET (A \cup B) /\ A \cap B = {}
  OBVIOUS
<1>4. Cardinality(A) <= RetentionCount
  BY DEF DirInv, KeptInv
<1> HIDE DEF A, B
<1>5. IsFiniteSet(A \cup B) /\ Cardinality(A \cup B) = Cardinality(A) + Cardinality(B)
  <2>1. Cardinality(A \cap B) = 0 /\ Cardinality(A) \in Nat /\ Cardinality(B) \in Nat
    BY <1>2, <1>3, FS_EmptySet, FS_CardinalityType
  <2>2. /\ IsFiniteSet(A \cup B)
        /\ Cardinality(A \cup B) = Cardinality(A) + Cardinality(B) - Cardinality(A \cap B)
    BY <1>2, FS_Union
  <2> QED
    BY <2>1, <2>2
<1>6. Cardinality(Files(recent)) <= Cardinality(A \cup B)
  BY <1>3, <1>5, FS_Subset
<1>7. /\ Cardinality(A) \in Nat /\ Cardinality(B) \in Nat
      /\ Cardinality(Files(recent)) = Len(recent)
  BY <1>1, <1>2, FS_CardinalityType, FilesCounted
<1>8. Len(recent) <= RetentionCount + Cardinality(B)
  BY <1>1, <1>4, <1>5, <1>6, <1>7, KnownFinite, FilesOf
<1> QED
  BY <1>8 DEF FilesBounded, B
-----------------------------------------------------------------------------
(* The readers                                                               *)

\* The writer persists, broadcasts and pushes one event before it takes the next.
WriterInv ==
    /\ written \in [Sessions -> Nat] /\ cast \in [Sessions -> Nat]
    /\ tailed \in [Sessions -> Nat]
    /\ \A s \in Sessions : /\ tailed[s] <= cast[s]
                           /\ cast[s] <= written[s]
                           /\ written[s] <= tailed[s] + 1

Watches == [at : {"none", "live", "caught up", "ended"}, from : Nat, next : Nat, seen : Nat]

\* What a subscriber started from had been pushed, but for one event, already when
\* it subscribed, and so when it reads the tail.
WatchInv ==
    /\ watch \in [Sessions -> Watches]
    /\ \A s \in Sessions :
        /\ watch[s].at \in {"live", "caught up"} => watch[s].from < watch[s].next
        /\ watch[s].at = "live" => watch[s].from <= tailed[s] + 1
        /\ watch[s].at = "caught up" => watch[s].from <= watch[s].seen + 1

ReaderInv == WriterInv /\ WatchInv

LEMMA ReaderInit == JournalInit => ReaderInv
<1> SUFFICES ASSUME JournalInit PROVE ReaderInv
  OBVIOUS
<1>1. /\ sent = [s \in Sessions |-> 0] /\ written = sent /\ cast = sent /\ tailed = sent
      /\ watch = [s \in Sessions |-> NoWatch]
  BY DEF JournalInit
<1>2. WriterInv
  BY <1>1 DEF WriterInv
<1>3. NoWatch \in Watches /\ NoWatch.at = "none"
  BY DEF NoWatch, Watches
<1>4. WatchInv
  BY <1>1, <1>3 DEF WatchInv
<1> QED
  BY <1>2, <1>4 DEF ReaderInv

LEMMA StillPushed ==
  ASSUME WatchInv, watch' = watch,
         \A t \in Sessions : tailed[t] <= tailed'[t] /\ tailed'[t] \in Nat /\ tailed[t] \in Nat
  PROVE  WatchInv'
<1>1. \A t \in Sessions : watch[t].from \in Nat
  BY DEF WatchInv, Watches
<1>2. ASSUME NEW t \in Sessions, watch[t].at = "live" PROVE watch[t].from <= tailed'[t] + 1
  <2>1. watch[t].from <= tailed[t] + 1
    BY <1>2 DEF WatchInv
  <2>2. /\ watch[t].from \in Nat /\ tailed[t] \in Nat /\ tailed'[t] \in Nat
        /\ tailed[t] <= tailed'[t]
    BY <1>1
  <2> QED
    BY <2>1, <2>2
<1> QED
  BY <1>2 DEF WatchInv

LEMMA WriterStep ==
  ASSUME ReaderInv, NEW s \in Sessions, Persist(s) \/ Broadcast(s) \/ PushTail(s) \/ Drain(s)
  PROVE  ReaderInv'
<1>1. /\ written \in [Sessions -> Nat] /\ cast \in [Sessions -> Nat]
      /\ tailed \in [Sessions -> Nat]
  BY DEF ReaderInv, WriterInv
<1>2. CASE Persist(s)
  <2>1. /\ written[s] = tailed[s] /\ written' = [written EXCEPT ![s] = @ + 1]
        /\ cast' = cast /\ tailed' = tailed /\ watch' = watch
    BY <1>2 DEF Persist
  <2>2. WriterInv'
    BY <1>1, <2>1 DEF ReaderInv, WriterInv
  <2> QED
    BY <2>1, <2>2 DEF ReaderInv, WatchInv
<1>3. CASE Broadcast(s)
  <2>1. /\ cast[s] < written[s] /\ cast' = [cast EXCEPT ![s] = @ + 1]
        /\ written' = written /\ tailed' = tailed /\ watch' = watch
    BY <1>3 DEF Broadcast
  <2>2. WriterInv'
    BY <1>1, <2>1 DEF ReaderInv, WriterInv
  <2> QED
    BY <2>1, <2>2 DEF ReaderInv, WatchInv
<1>4. CASE PushTail(s)
  <2>1. /\ tailed[s] < cast[s] /\ tailed' = [tailed EXCEPT ![s] = @ + 1]
        /\ written' = written /\ cast' = cast /\ watch' = watch
    BY <1>4 DEF PushTail
  <2>2. WriterInv'
    BY <1>1, <2>1 DEF ReaderInv, WriterInv
  <2>3. \A t \in Sessions : tailed[t] <= tailed'[t] /\ tailed'[t] \in Nat /\ tailed[t] \in Nat
    BY <1>1, <2>1
  <2> QED
    BY <2>1, <2>2, <2>3, StillPushed DEF ReaderInv
<1>5. CASE Drain(s)
  <2>1. /\ written' = [written EXCEPT ![s] = @ + 1] /\ cast' = [cast EXCEPT ![s] = @ + 1]
        /\ tailed' = [tailed EXCEPT ![s] = @ + 1] /\ watch' = watch
    BY <1>5 DEF Drain
  <2>2. WriterInv'
    BY <1>1, <2>1 DEF ReaderInv, WriterInv
  <2>3. \A t \in Sessions : tailed[t] <= tailed'[t] /\ tailed'[t] \in Nat /\ tailed[t] \in Nat
    BY <1>1, <2>1
  <2> QED
    BY <2>1, <2>2, <2>3, StillPushed DEF ReaderInv
<1> QED
  BY <1>2, <1>3, <1>4, <1>5

LEMMA SubscriberStep ==
  ASSUME ReaderInv, NEW s \in Sessions,
         Subscribe(s) \/ ReadTail(s) \/ Receive(s) \/ Ends(s)
  PROVE  ReaderInv'
<1>1. UNCHANGED <<written, cast, tailed>> /\ WriterInv'
  BY DEF Subscribe, ReadTail, Receive, Ends, ReaderInv, WriterInv
<1>2. /\ written[s] \in Nat /\ cast[s] \in Nat /\ tailed[s] \in Nat
      /\ cast[s] <= tailed[s] + 1 /\ tailed' = tailed
  BY <1>1 DEF ReaderInv, WriterInv
<1>3. watch[s] \in Watches /\ watch \in [Sessions -> Watches]
  BY DEF ReaderInv, WatchInv
<1>4. PICK w \in Watches :
        /\ watch' = [watch EXCEPT ![s] = w]
        /\ w.at \in {"live", "caught up"} => w.from < w.next
        /\ w.at = "live" => w.from <= tailed[s] + 1
        /\ w.at = "caught up" => w.from <= w.seen + 1
  <2>1. CASE Subscribe(s)
    <3> DEFINE w == [at |-> "live", from |-> cast[s], next |-> cast[s] + 1, seen |-> 0]
    <3>1. w \in Watches /\ watch' = [watch EXCEPT ![s] = w]
      BY <1>2, <2>1 DEF Subscribe, Watches
    <3>2. w.at = "live" /\ w.from < w.next /\ w.from <= tailed[s] + 1
      BY <1>2
    <3> HIDE DEF w
    <3> QED
      BY <3>1, <3>2
  <2>2. CASE ReadTail(s)
    <3> DEFINE w == [watch[s] EXCEPT !.at = "caught up", !.seen = tailed[s]]
    <3>1. watch[s].at = "live" /\ watch' = [watch EXCEPT ![s] = w]
      BY <1>3, <2>2 DEF ReadTail, Watches
    <3>2. /\ w \in Watches /\ w.at = "caught up" /\ w.from = watch[s].from
          /\ w.next = watch[s].next /\ w.seen = tailed[s]
      BY <1>2, <1>3 DEF Watches
    <3> QED
      BY <3>1, <3>2 DEF ReaderInv, WatchInv
  <2>3. CASE Receive(s)
    <3> DEFINE e == [watch[s] EXCEPT !.at = "ended"]
               n == [watch[s] EXCEPT !.next = @ + 1]
    <3>1. /\ watch[s].at \in {"live", "caught up"}
          /\ \/ watch' = [watch EXCEPT ![s] = e] \/ watch' = [watch EXCEPT ![s] = n]
      BY <1>3, <2>3 DEF Receive, Watches
    <3>a. e \in Watches /\ e.at = "ended"
      BY <1>3 DEF Watches
    <3>b. watch[s].from \in Nat /\ watch[s].next \in Nat /\ watch[s].next + 1 \in Nat
      <4>1. \A r \in Watches : r.from \in Nat /\ r.next \in Nat
        BY DEF Watches
      <4>2. watch[s].from \in Nat /\ watch[s].next \in Nat
        BY <1>3, <4>1
      <4> QED
        BY <4>2
    <3>c. n = [watch[s] EXCEPT !.next = watch[s].next + 1]
      OBVIOUS
    <3>d. n \in Watches
      BY <1>3, <3>b, <3>c DEF Watches
    <3>e. /\ n.at = watch[s].at /\ n.from = watch[s].from
          /\ n.seen = watch[s].seen /\ n.next = watch[s].next + 1
      BY <1>3, <3>c DEF Watches
    <3>2. /\ e \in Watches /\ e.at = "ended"
          /\ n \in Watches /\ n.at = watch[s].at /\ n.from = watch[s].from
          /\ n.seen = watch[s].seen /\ n.next = watch[s].next + 1
          /\ watch[s].from \in Nat /\ watch[s].next \in Nat
      BY <3>a, <3>b, <3>d, <3>e
    <3> HIDE DEF e, n
    <3>3. n.from < n.next
      <4>1. watch[s].from < watch[s].next
        BY <3>1 DEF ReaderInv, WatchInv
      <4> QED
        BY <3>2, <4>1
    <3> QED
      BY <3>1, <3>2, <3>3 DEF ReaderInv, WatchInv
  <2>4. CASE Ends(s)
    <3>1. NoWatch \in Watches /\ watch' = [watch EXCEPT ![s] = NoWatch] /\ NoWatch.at = "none"
      BY <2>4 DEF Ends, NoWatch, Watches
    <3> QED
      BY <3>1
  <2> QED
    BY <2>1, <2>2, <2>3, <2>4
<1>5. \A t \in Sessions : watch'[t] = IF t = s THEN w ELSE watch[t]
  BY <1>3, <1>4
<1>6. watch' \in [Sessions -> Watches]
  BY <1>3, <1>4
<1>7. WatchInv'
  BY <1>2, <1>4, <1>5, <1>6 DEF ReaderInv, WatchInv
<1> QED
  BY <1>1, <1>7 DEF ReaderInv

LEMMA ReaderStep == ReaderInv /\ [JournalNext]_journalVars => ReaderInv'
<1> SUFFICES ASSUME ReaderInv, [JournalNext]_journalVars PROVE ReaderInv'
  OBVIOUS
<1>1. ASSUME UNCHANGED <<written, cast, tailed, watch>> PROVE ReaderInv'
  BY <1>1 DEF ReaderInv, WriterInv, WatchInv
<1>2. ASSUME NEW s \in Sessions,
             \/ PruneList(s) \/ PruneListFails(s) \/ PruneRemove(s) \/ PruneRemoveFails(s)
             \/ Open(s) \/ CreateFile(s) \/ OpenFails(s) \/ AppendEvent(s)
      PROVE  ReaderInv'
  BY <1>1, <1>2 DEF PruneList, PruneListFails, PruneRemove, PruneRemoveFails, Open, CreateFile, OpenFails, AppendEvent
<1>3. CASE Ages \/ UNCHANGED journalVars
  BY <1>1, <1>3 DEF Ages, journalVars
<1> QED
  BY <1>2, <1>3, WriterStep, SubscriberStep DEF JournalNext

LEMMA ReaderCatchesUp == ReaderInv => CatchUpMissesOne
<1> SUFFICES ASSUME ReaderInv, NEW s \in Sessions, watch[s].at = "caught up"
             PROVE  watch[s].from <= watch[s].seen + 1 /\ watch[s].next > watch[s].from
  BY DEF CatchUpMissesOne
<1>1. watch[s].from \in Nat /\ watch[s].next \in Nat
  BY DEF ReaderInv, WatchInv, Watches
<1> QED
  BY <1>1 DEF ReaderInv, WatchInv

-----------------------------------------------------------------------------
\* However many processes prune, start, write and end at the same time, the
\* directory stays bounded, and a subscriber that catches up with the tail misses
\* at most the one event under way when it subscribed (journal/mod.rs, retention.rs).
THEOREM JournalPromisesHolds == JournalSpec => []JournalPromises
<1>1. JournalInit => DirInv /\ ReaderInv
  BY DirInit, ReaderInit
<1>2. DirInv /\ ReaderInv /\ [JournalNext]_journalVars => (DirInv /\ ReaderInv)'
  BY DirStep, ReaderStep
<1>3. DirInv /\ ReaderInv => JournalPromises
  BY DirBounded, ReaderCatchesUp DEF JournalPromises
<1> QED
  BY <1>1, <1>2, <1>3, PTL DEF JournalSpec

-----------------------------------------------------------------------------
(* Types                                                                   *)

\* A file past its age is still there.
OldInv == old \subseteq Files(recent)

LEMMA OldStep == DirInv /\ OldInv /\ [JournalNext]_journalVars => OldInv'
<1> SUFFICES ASSUME DirInv, OldInv, [JournalNext]_journalVars PROVE OldInv'
  OBVIOUS
<1>0. recent \in Listings
  BY DEF DirInv, DirShape
<1>1. ASSUME UNCHANGED <<recent, old>> PROVE OldInv'
  BY <1>1 DEF OldInv
<1>2. ASSUME NEW s \in Sessions, PruneRemove(s) PROVE OldInv'
  <2>1. PICK f : recent' = Dropping(recent, f) /\ old' = old \ {f}
    BY <1>2 DEF PruneRemove
  <2>2. Files(Dropping(recent, f)) = Files(recent) \ {f}
    BY <1>0, DropListed
  <2> QED  BY <2>1, <2>2 DEF OldInv
<1>3. ASSUME NEW s \in Sessions, CreateFile(s) PROVE OldInv'
  <2>1. recent' = <<s>> \o recent /\ old' = old /\ s \in Known
    BY <1>3 DEF CreateFile, Known
  <2>2. s \notin Files(recent)
    BY <1>3 DEF CreateFile, DirInv, FreshInv
  <2>3. Files(<<s>> \o recent) = Files(recent) \cup {s}
    BY <1>0, <2>1, <2>2, PrependListed
  <2> QED  BY <2>1, <2>3 DEF OldInv
<1>4. ASSUME NEW s \in Sessions, Persist(s) PROVE OldInv'
  <2>1. CASE recent' = recent /\ old' = old
    BY <1>1, <2>1
  <2>2. CASE recent' = <<s>> \o Dropping(recent, s) /\ old' = old \ {s}
    <3>1. Dropping(recent, s) \in Listings /\ Files(Dropping(recent, s)) = Files(recent) \ {s}
      BY <1>0, DropListed
    <3>2. Files(<<s>> \o Dropping(recent, s)) = (Files(recent) \ {s}) \cup {s}
      BY <3>1, PrependListed DEF Known
    <3> QED  BY <2>2, <3>2 DEF OldInv
  <2> QED  BY <1>4, <2>1, <2>2 DEF Persist
<1>5. CASE Ages
  BY <1>5 DEF Ages, OldInv
<1>6. ASSUME NEW s \in Sessions,
             \/ PruneList(s) \/ PruneListFails(s) \/ PruneRemoveFails(s) \/ Open(s)
             \/ OpenFails(s) \/ AppendEvent(s) \/ Broadcast(s)
             \/ PushTail(s) \/ Drain(s) \/ Subscribe(s) \/ ReadTail(s) \/ Receive(s) \/ Ends(s)
      PROVE  OldInv'
  BY <1>1, <1>6 DEF PruneList, PruneListFails, PruneRemoveFails, Open, OpenFails, AppendEvent, Broadcast, PushTail, Drain,
     Subscribe, ReadTail, Receive, Ends
<1>7. CASE UNCHANGED journalVars
  BY <1>1, <1>7 DEF journalVars
<1> QED  BY <1>2, <1>3, <1>4, <1>5, <1>6, <1>7 DEF JournalNext

\* The writer is never ahead of what was appended, nor a subscriber of the writer.
AppendedInv ==
    /\ sent \in [Sessions -> 0..MaxEvents]
    /\ \A s \in Sessions :
        /\ written[s] <= sent[s]
        /\ phase[s] \in {"off", "pruning"} => written[s] = 0
    /\ watch \in [Sessions -> Watching]

LEMMA CountsAt ==
  ASSUME ReaderInv, AppendedInv, NEW s \in Sessions
  PROVE  /\ sent[s] \in Nat /\ sent[s] <= MaxEvents /\ MaxEvents \in Nat \ {0}
         /\ written[s] \in 0..MaxEvents /\ cast[s] \in 0..MaxEvents /\ tailed[s] \in 0..MaxEvents
<1>1. /\ sent[s] \in 0..MaxEvents /\ written[s] \in Nat /\ cast[s] \in Nat /\ tailed[s] \in Nat
      /\ tailed[s] <= cast[s] /\ cast[s] <= written[s] /\ written[s] <= sent[s]
  BY DEF AppendedInv, ReaderInv, WriterInv
<1> QED  BY <1>1, JournalAssumption DEF JournalAssumption

LEMMA WatchStep ==
  ASSUME ReaderInv, AppendedInv, NEW s \in Sessions, Subscribe(s) \/ ReadTail(s) \/ Receive(s) \/ Ends(s)
  PROVE  watch' \in [Sessions -> Watching]
<1>0. watch \in [Sessions -> Watching] /\ watch[s] \in Watching
  BY DEF AppendedInv
<1>n. /\ MaxEvents \in Nat \ {0} /\ cast[s] \in 0..MaxEvents /\ tailed[s] \in 0..MaxEvents
      /\ cast[s] + 1 \in 0..MaxEvents + 1 /\ 0 \in 0..MaxEvents /\ 0 \in 0..MaxEvents + 1
  BY CountsAt
<1>1. PICK w \in Watching : watch' = [watch EXCEPT ![s] = w]
  <2>1. CASE Subscribe(s)
    <3> DEFINE w == [at |-> "live", from |-> cast[s], next |-> cast[s] + 1, seen |-> 0]
    <3>1. w \in Watching
      BY <1>n DEF Watching
    <3> QED  BY <2>1, <3>1 DEF Subscribe
  <2>2. CASE ReadTail(s)
    <3> DEFINE w == [watch[s] EXCEPT !.at = "caught up", !.seen = tailed[s]]
    <3>1. w \in Watching
      BY <1>0, <1>n DEF Watching
    <3>2. watch' = [watch EXCEPT ![s] = w]
      BY <1>0, <2>2 DEF ReadTail, Watching
    <3> QED  BY <3>1, <3>2
  <2>3. CASE Receive(s)
    <3> DEFINE e == [watch[s] EXCEPT !.at = "ended"]
               n == [watch[s] EXCEPT !.next = watch[s].next + 1]
    <3>1. watch[s].next <= cast[s] /\ (watch' = [watch EXCEPT ![s] = e] \/ watch' = [watch EXCEPT ![s] = n])
      BY <1>0, <2>3 DEF Receive, Watching
    <3>2. watch[s].next \in 0..MaxEvents + 1
      BY <1>0 DEF Watching
    <3>3. watch[s].next + 1 \in 0..MaxEvents + 1
      BY <1>n, <3>1, <3>2
    <3>4. e \in Watching
      BY <1>0 DEF Watching
    <3>5. n \in Watching
      BY <1>0, <3>3 DEF Watching
    <3> QED  BY <3>1, <3>4, <3>5
  <2>4. CASE Ends(s)
    <3>1. NoWatch \in Watching
      BY <1>n DEF NoWatch, Watching
    <3> QED  BY <2>4, <3>1 DEF Ends
  <2> QED  BY <2>1, <2>2, <2>3, <2>4
<1> QED  BY <1>0, <1>1

LEMMA CountInit == JournalInit => AppendedInv
<1> SUFFICES ASSUME JournalInit PROVE AppendedInv
  OBVIOUS
<1>1. /\ sent = [s \in Sessions |-> 0] /\ written = sent /\ watch = [s \in Sessions |-> NoWatch]
      /\ MaxEvents \in Nat
  BY JournalAssumption DEF JournalInit, JournalAssumption
<1>2. NoWatch \in Watching
  BY <1>1 DEF NoWatch, Watching
<1> QED  BY <1>1, <1>2 DEF AppendedInv

LEMMA CountStep == DirInv /\ ReaderInv /\ AppendedInv /\ [JournalNext]_journalVars => AppendedInv'
<1> SUFFICES ASSUME DirInv, ReaderInv, AppendedInv, [JournalNext]_journalVars PROVE AppendedInv'
  OBVIOUS
<1>0. /\ phase \in [Sessions -> Phases] /\ sent \in [Sessions -> 0..MaxEvents]
      /\ written \in [Sessions -> Nat] /\ MaxEvents \in Nat \ {0}
      /\ \A s \in Sessions : sent[s] \in Nat /\ written[s] \in Nat /\ sent[s] <= MaxEvents
  BY CountsAt, JournalAssumption DEF DirInv, DirShape, AppendedInv, ReaderInv, WriterInv, JournalAssumption
\* A step that writes nothing and sends no process back to its start.
<1>1. ASSUME UNCHANGED <<sent, written, watch>>,
             \A s \in Sessions : phase'[s] \in {"off", "pruning"} => phase[s] \in {"off", "pruning"}
      PROVE  AppendedInv'
  BY <1>1 DEF AppendedInv
<1>2. ASSUME NEW s \in Sessions,
             \/ PruneList(s) \/ PruneListFails(s) \/ PruneRemove(s) \/ PruneRemoveFails(s)
             \/ CreateFile(s) \/ OpenFails(s)
      PROVE  AppendedInv'
  <2>1. /\ UNCHANGED <<sent, written, watch>>
        /\ phase[s] \in {"off", "pruning"} \/ phase'[s] \notin {"off", "pruning"}
        /\ \A t \in Sessions \ {s} : phase'[t] = phase[t]
    BY <1>0, <1>2 DEF PruneList, PruneListFails, PruneRemove, PruneRemoveFails, CreateFile,
       OpenFails
  <2> QED  BY <1>1, <2>1
<1>3. ASSUME NEW s \in Sessions, Open(s) PROVE AppendedInv'
  <2>1. /\ sent' = [sent EXCEPT ![s] = 1] /\ phase' = [phase EXCEPT ![s] = "opened"]
        /\ UNCHANGED <<written, watch>> /\ written[s] = 0
    BY <1>3 DEF Open, AppendedInv
  <2>2. sent' \in [Sessions -> 0..MaxEvents]
    BY <1>0, <2>1
  <2> QED  BY <1>0, <2>1, <2>2 DEF AppendedInv
<1>4. ASSUME NEW s \in Sessions, AppendEvent(s) PROVE AppendedInv'
  <2>1. /\ sent' = [sent EXCEPT ![s] = sent[s] + 1] /\ sent[s] < MaxEvents
        /\ UNCHANGED <<phase, written, watch>>
    BY <1>4 DEF AppendEvent
  <2>2. sent[s] + 1 \in 0..MaxEvents
    BY <1>0, <2>1
  <2>3. sent' \in [Sessions -> 0..MaxEvents]
    BY <1>0, <2>1, <2>2
  <2>4. \A t \in Sessions : written[t] <= sent'[t]
    BY <1>0, <2>1 DEF AppendedInv
  <2> QED  BY <2>1, <2>3, <2>4 DEF AppendedInv
<1>5. ASSUME NEW s \in Sessions, Persist(s) \/ Drain(s) PROVE AppendedInv'
  <2>1. /\ written' = [written EXCEPT ![s] = written[s] + 1] /\ written[s] < sent[s]
        /\ phase[s] \in {"running", "drain"} /\ UNCHANGED <<phase, sent, watch>>
    BY <1>5 DEF Persist, Drain
  <2>2. \A t \in Sessions : written'[t] <= sent[t]
    BY <1>0, <2>1 DEF AppendedInv
  <2> QED  BY <1>0, <2>1, <2>2 DEF AppendedInv
<1>6. ASSUME NEW s \in Sessions, Broadcast(s) \/ PushTail(s) PROVE AppendedInv'
  BY <1>1, <1>6 DEF Broadcast, PushTail
<1>7. ASSUME NEW s \in Sessions, Subscribe(s) \/ ReadTail(s) \/ Receive(s) \/ Ends(s)
      PROVE  AppendedInv'
  <2>1. watch' \in [Sessions -> Watching]
    BY <1>7, WatchStep
  <2>2. /\ UNCHANGED <<sent, written>>
        /\ \A t \in Sessions : phase'[t] \in {"off", "pruning"} => phase[t] \in {"off", "pruning"}
    BY <1>0, <1>7 DEF Subscribe, ReadTail, Receive, Ends
  <2> QED  BY <2>1, <2>2 DEF AppendedInv
<1>8. CASE Ages \/ UNCHANGED journalVars
  BY <1>1, <1>8 DEF Ages, journalVars
<1> QED
  BY <1>2, <1>3, <1>4, <1>5, <1>6, <1>7, <1>8 DEF JournalNext

\* Directory, passes, writers and subscribers keep their types, for any number of
\* processes and events.
THEOREM JournalTypeCorrect == JournalSpec => []JournalTypeOK
<1>1. JournalInit => DirInv /\ OldInv /\ ReaderInv /\ AppendedInv
  BY DirInit, ReaderInit, CountInit DEF JournalInit, OldInv
<1>2. DirInv /\ OldInv /\ ReaderInv /\ AppendedInv => JournalTypeOK
  <2> SUFFICES ASSUME DirInv, OldInv, ReaderInv, AppendedInv PROVE JournalTypeOK
    OBVIOUS
  <2>1. \A s \in Sessions : /\ written[s] \in 0..MaxEvents /\ cast[s] \in 0..MaxEvents
                            /\ tailed[s] \in 0..MaxEvents
    BY CountsAt
  <2>2. \A n \in {sent, written, cast, tailed} : n \in [Sessions -> 0..MaxEvents]
    BY <2>1 DEF AppendedInv, ReaderInv, WriterInv
  <2>3. recent \in Seq(Sessions \cup Past) /\ IsInjective(recent)
    BY DEF DirInv, DirShape, Listings, Known
  <2> QED  BY <2>2, <2>3 DEF DirInv, DirShape, OldInv, AppendedInv, Known, JournalTypeOK
<1> QED
  BY <1>1, <1>2, DirStep, OldStep, ReaderStep, CountStep, PTL DEF JournalSpec

-----------------------------------------------------------------------------
(* ProfileStore: definitions                                                 *)

\* Sidecars, temporary files and operations carry the name they are filed under.
Named ==
    /\ \A n \in StoreNames :
          /\ sidecar[n].is = "full" => sidecar[n].name = n
          /\ sideTmp[n].is = "full" => sideTmp[n].name = n
    /\ \A p \in Starters :
          /\ op[p].at \notin {"idle", "next"} =>
                op[p].rec.is = "full" /\ op[p].rec.name \in StoreNames
          /\ op[p].at = "next" => op[p].kind = "migrate"

Writing(p, n) == op[p].rec.name = n /\ op[p].at \in {"sideFill", "sideRename"}

\* As long as no two processes wrote one temporary file, a sidecar is never
\* half written, and what is about to be renamed is whole.
AloneInv ==
    ~shared =>
        /\ \A n \in StoreNames : sidecar[n].is # "empty"
        /\ \A p, q \in Starters, n \in StoreNames : Writing(p, n) /\ Writing(q, n) => p = q
        /\ \A p \in Starters :
              /\ op[p].at = "sideFill" => held[p] = "tmp"
              /\ op[p].at = "sideRename" => sideTmp[op[p].rec.name].is = "full"

\* As long as nobody died and every write worked, whatever is half written has
\* somebody who will fill it.
FilledInv ==
    ~broke => \A n \in StoreNames :
        /\ sideTmp[n].is = "empty" =>
              \E p \in Starters : op[p].at = "sideFill" /\ op[p].rec.name = n /\ held[p] = "tmp"
        /\ sidecar[n].is = "empty" =>
              \E p \in Starters : op[p].at = "sideFill" /\ op[p].rec.name = n /\ held[p] = "file"

\* Of the files a migration found: those it has not come to, those that have a
\* sidecar, and the one it is writing for.
Reaches(p, c) ==
    \/ c \in todo[p]
    \/ sidecar[c[1]].is # "none"
    \/ op[p].at \in {"sideOpen", "sideFill", "sideRename"} /\ op[p].rec.name = c[1]

CoverInv ==
    \A p \in Starters :
        /\ walk[p].found \subseteq cfgs
        /\ op[p].kind = "migrate" => \A c \in walk[p].found : Reaches(p, c)
        /\ walk[p].over => \A c \in walk[p].found : sidecar[c[1]].is # "none"
        /\ \A c \in walk[p].found :
              Writing(p, c[1]) => sideTmp[c[1]].is # "none" \/ sidecar[c[1]].is # "none"

StoreInv == StoreTypeOK /\ Named /\ AloneInv /\ FilledInv /\ CoverInv

-----------------------------------------------------------------------------
LEMMA ConfigPairs ==
    /\ \A c \in Configs : c[1] \in StoreNames /\ c[2] \in Protos /\ c = <<c[1], c[2]>>
    /\ \A n \in StoreNames, x \in Protos :
          <<n, x>> \in Configs /\ <<n, x>>[1] = n /\ <<n, x>>[2] = x
BY DEF Configs

LEMMA RecordTypes ==
    /\ NoRecord \in SidecarFiles /\ Truncated \in SidecarFiles
    /\ NoRecord.is = "none" /\ Truncated.is = "empty" /\ NoRecord.name = 0
    /\ \A n \in StoreNames, i \in AllIds, x \in Protos :
          /\ SideRecord(n, i, x) \in SidecarFiles
          /\ SideRecord(n, i, x).is = "full" /\ SideRecord(n, i, x).name = n
<1>1. /\ NoRecord \in SidecarFiles /\ NoRecord.is = "none" /\ NoRecord.name = 0
  BY DEF NoRecord, SidecarFiles, Protos
<1>2. Truncated \in SidecarFiles /\ Truncated.is = "empty"
  BY DEF NoRecord, Truncated, SidecarFiles, Protos
<1>3. ASSUME NEW n \in StoreNames, NEW i \in AllIds, NEW x \in Protos
      PROVE  /\ SideRecord(n, i, x) \in SidecarFiles
             /\ SideRecord(n, i, x).is = "full" /\ SideRecord(n, i, x).name = n
  BY DEF SideRecord, SidecarFiles
<1> QED  BY <1>1, <1>2, <1>3

LEMMA IdTypes == /\ StoreIds \subseteq AllIds
                 /\ \A n \in StoreNames : StableId(n) \in AllIds
BY DEF AllIds

OpKinds == {"idle", "insert", "touch", "delete", "migrate"}
OpPlaces == {"idle", "cfgRename", "sideOpen", "sideFill", "sideRename", "rmCfg", "rmSide", "next"}

LEMMA OpTypes ==
    /\ NoOp \in Ops /\ NoOp.at = "idle" /\ NoOp.kind = "idle" /\ NoOp.rec = NoRecord
    /\ \A k \in OpKinds, a \in OpPlaces, r \in SidecarFiles :
          Op(k, a, r) \in Ops /\ Op(k, a, r).kind = k /\ Op(k, a, r).at = a /\ Op(k, a, r).rec = r
    /\ \A o \in Ops : o.kind \in OpKinds /\ o.at \in OpPlaces /\ o.rec \in SidecarFiles
<1>1. NoRecord \in SidecarFiles
  BY RecordTypes
<1>2. NoOp \in Ops /\ NoOp.at = "idle" /\ NoOp.kind = "idle" /\ NoOp.rec = NoRecord
  BY <1>1 DEF NoOp, Ops
<1>3. ASSUME NEW k \in OpKinds, NEW a \in OpPlaces, NEW r \in SidecarFiles
      PROVE  Op(k, a, r) \in Ops /\ Op(k, a, r).kind = k /\ Op(k, a, r).at = a /\ Op(k, a, r).rec = r
  BY DEF Op, Ops, OpKinds, OpPlaces
<1>4. \A o \in Ops : o.kind \in OpKinds /\ o.at \in OpPlaces /\ o.rec \in SidecarFiles
  BY DEF Ops, OpKinds, OpPlaces
<1> QED  BY <1>2, <1>3, <1>4

\* Only the place of p's operation changes.
LEMMA GoesFacts ==
    ASSUME StoreTypeOK, NEW p \in Starters, NEW a \in OpPlaces, Goes(p, a)
    PROVE  /\ op' \in [Starters -> Ops]
           /\ op'[p].kind = op[p].kind /\ op'[p].at = a /\ op'[p].rec = op[p].rec
           /\ \A q \in Starters : q # p => op'[q] = op[q]
<1>1. op \in [Starters -> Ops] /\ op[p] \in Ops
  BY DEF StoreTypeOK
<1>2. op' = [op EXCEPT ![p] = [op[p] EXCEPT !.at = a]]
  BY DEF Goes
<1>3. [op[p] EXCEPT !.at = a] = [kind |-> op[p].kind, at |-> a, rec |-> op[p].rec]
  BY <1>1 DEF Ops
<1>4. [op[p] EXCEPT !.at = a] \in Ops
  BY <1>1, <1>3 DEF Ops, OpPlaces
<1>5. op'[p] = [op[p] EXCEPT !.at = a] /\ \A q \in Starters : q # p => op'[q] = op[q]
  BY <1>1, <1>2
<1> QED  BY <1>1, <1>2, <1>3, <1>4, <1>5

\* p's operation is another one.
LEMMA PutsFacts ==
    ASSUME StoreTypeOK, NEW p \in Starters, NEW o \in Ops, op' = [op EXCEPT ![p] = o]
    PROVE  /\ op' \in [Starters -> Ops] /\ op'[p] = o
           /\ \A q \in Starters : q # p => op'[q] = op[q]
BY DEF StoreTypeOK

LEMMA AfterFacts ==
    ASSUME NEW p \in Starters
    PROVE  /\ AfterSidecar(p) \in Ops /\ AfterSidecar(p).rec = NoRecord
           /\ op[p].kind = "migrate" =>
                 AfterSidecar(p).kind = "migrate" /\ AfterSidecar(p).at = "next"
           /\ op[p].kind # "migrate" => AfterSidecar(p) = NoOp
BY OpTypes, RecordTypes DEF AfterSidecar, OpKinds, OpPlaces

\* What happens to the histories.
LEMMA WalkFacts ==
    ASSUME StoreTypeOK
    PROVE  /\ Ended(walk) \in [Starters -> [found : SUBSET Configs, over : BOOLEAN]]
           /\ \A q \in Starters : Ended(walk)[q].found = walk[q].found /\ ~Ended(walk)[q].over
           /\ \A w \in [Starters -> [found : SUBSET Configs, over : BOOLEAN]] : \A c :
                 /\ WithoutConfig(w, c) \in [Starters -> [found : SUBSET Configs, over : BOOLEAN]]
                 /\ \A q \in Starters : /\ WithoutConfig(w, c)[q].found = w[q].found \ {c}
                                        /\ WithoutConfig(w, c)[q].over = w[q].over
<1> DEFINE Walks == [found : SUBSET Configs, over : BOOLEAN]
<1>1. walk \in [Starters -> Walks]
  BY DEF StoreTypeOK
<1>2. \A x \in Walks : /\ [x EXCEPT !.over = FALSE] \in Walks
                       /\ [x EXCEPT !.over = FALSE].found = x.found
                       /\ [x EXCEPT !.over = FALSE].over = FALSE
  OBVIOUS
<1>3. \A x \in Walks : \A c : /\ [x EXCEPT !.found = @ \ {c}] \in Walks
                              /\ [x EXCEPT !.found = @ \ {c}].found = x.found \ {c}
                              /\ [x EXCEPT !.found = @ \ {c}].over = x.over
  OBVIOUS
<1> HIDE DEF Walks
<1>4. Ended(walk) \in [Starters -> Walks]
  BY <1>1, <1>2 DEF Ended
<1>5. \A q \in Starters : Ended(walk)[q].found = walk[q].found /\ ~Ended(walk)[q].over
  BY <1>1, <1>2 DEF Ended
<1>6. \A w \in [Starters -> Walks] : \A c :
         /\ WithoutConfig(w, c) \in [Starters -> Walks]
         /\ \A q \in Starters : /\ WithoutConfig(w, c)[q].found = w[q].found \ {c}
                                /\ WithoutConfig(w, c)[q].over = w[q].over
  BY <1>3 DEF WithoutConfig
<1> QED  BY <1>4, <1>5, <1>6 DEF Walks
LEMMA MovedFacts ==
    ASSUME StoreTypeOK, NEW p \in Starters, NEW n \in StoreNames
    PROVE  /\ Moved(p, n) \in [Starters -> {"nothing", "tmp", "file", "unlinked"}]
           /\ \A q \in Starters :
                 /\ op[q].rec.name # n => Moved(p, n)[q] = held[q]
                 /\ held[q] = "tmp" /\ op[p].at # "sideRename" => Moved(p, n)[q] = "tmp"
                 /\ held[q] = "tmp" /\ op[p].at = "sideRename" /\ op[q].rec.name = n =>
                       Moved(p, n)[q] = "file"
BY DEF Moved, StoreTypeOK

-----------------------------------------------------------------------------
(* One step per operation *)

\* An operation that writes no sidecar disturbs no writer.
LEMMA QuietWriters ==
    ASSUME StoreInv, NEW p \in Starters,
           op[p].at \notin {"sideFill", "sideRename"}, op'[p].at \notin {"sideFill", "sideRename"},
           \A q \in Starters : q # p => op'[q] = op[q],
           UNCHANGED <<sidecar, sideTmp, held, shared, broke>>
    PROVE  AloneInv' /\ FilledInv'
<1>1. \A q \in Starters : /\ op'[q].at = "sideFill" <=> op[q].at = "sideFill"
                          /\ op'[q].at = "sideRename" <=> op[q].at = "sideRename"
                          /\ op'[q].at \in {"sideFill", "sideRename"} => op'[q] = op[q]
                          /\ op[q].at \in {"sideFill", "sideRename"} => op'[q] = op[q]
  OBVIOUS
<1>2. \A q \in Starters, n \in StoreNames : Writing(q, n)' <=> Writing(q, n)
  BY <1>1 DEF Writing
<1>3. AloneInv'
  BY <1>1, <1>2 DEF StoreInv, AloneInv
<1>4. FilledInv'
  <2>1. SUFFICES ASSUME ~broke, NEW n \in StoreNames
                 PROVE  /\ sideTmp[n].is = "empty" =>
                              \E q \in Starters : op'[q].at = "sideFill" /\ op'[q].rec.name = n /\ held[q] = "tmp"
                        /\ sidecar[n].is = "empty" =>
                              \E q \in Starters : op'[q].at = "sideFill" /\ op'[q].rec.name = n /\ held[q] = "file"
    BY DEF FilledInv
  <2>2. ASSUME NEW q \in Starters, op[q].at = "sideFill"
        PROVE  op'[q] = op[q]
    BY <2>2, <1>1
  <2> QED  BY <2>1, <2>2 DEF StoreInv, FilledInv
<1> QED  BY <1>3, <1>4

LEMMA InsertStep ==
    ASSUME StoreInv, NEW p \in Starters, NEW n \in StoreNames, NEW i \in StoreIds, NEW x \in Protos,
           InsertProfile(p, n, i, x)
    PROVE  StoreInv'
<1> DEFINE o == Op("insert", "cfgRename", SideRecord(n, i, x))
<1>1. o \in Ops /\ o.kind = "insert" /\ o.at = "cfgRename" /\ o.rec.is = "full" /\ o.rec.name = n
  BY RecordTypes, IdTypes, OpTypes DEF OpKinds, OpPlaces
<1> HIDE DEF o
<1>2. op' = [op EXCEPT ![p] = o] /\ op[p] = NoOp
  BY DEF InsertProfile, Starts, o
<1>3. /\ op' \in [Starters -> Ops] /\ op'[p] = o
      /\ \A q \in Starters : q # p => op'[q] = op[q]
  BY <1>1, <1>2, PutsFacts DEF StoreInv
<1>4. /\ cfgTmp' = cfgTmp \cup {<<n, x>>} /\ walk' = Ended(walk)
      /\ UNCHANGED <<cfgs, sidecar, sideTmp, held, todo, shared, broke>>
  BY DEF InsertProfile
<1>5. StoreTypeOK'
  BY <1>3, <1>4, WalkFacts, ConfigPairs DEF StoreInv, StoreTypeOK
<1>6. Named'
  BY <1>1, <1>3, <1>4 DEF StoreInv, Named
<1>7. AloneInv' /\ FilledInv'
  BY <1>1, <1>2, <1>3, <1>4, OpTypes, QuietWriters
<1>8. CoverInv'
  BY <1>1, <1>3, <1>4, WalkFacts DEF StoreInv, CoverInv, Reaches, Writing
<1> QED  BY <1>5, <1>6, <1>7, <1>8 DEF StoreInv

LEMMA FindStep ==
    ASSUME StoreInv, NEW p \in Starters, NEW i \in AllIds, NEW k, NEW a,
           \/ k = "touch" /\ a = "sideOpen"
           \/ k = "delete" /\ a = "rmCfg",
           FindSidecar(p, i, k, a)
    PROVE  StoreInv'
<1>1. PICK n \in StoreNames : sidecar[n].is = "full" /\ Starts(p, Op(k, a, sidecar[n]))
  BY DEF FindSidecar
<1> DEFINE o == Op(k, a, sidecar[n])
<1>2. o \in Ops /\ o.kind = k /\ o.at = a /\ o.rec.is = "full" /\ o.rec.name = n
  BY <1>1, OpTypes DEF OpKinds, OpPlaces, StoreInv, StoreTypeOK, Named
<1> HIDE DEF o
<1>3. op' = [op EXCEPT ![p] = o] /\ op[p] = NoOp
  BY <1>1 DEF Starts, o
<1>4. /\ op' \in [Starters -> Ops] /\ op'[p] = o
      /\ \A q \in Starters : q # p => op'[q] = op[q]
  BY <1>2, <1>3, PutsFacts DEF StoreInv
<1>5. walk' = Ended(walk) /\ UNCHANGED <<cfgs, cfgTmp, sidecar, sideTmp, held, todo, shared, broke>>
  BY DEF FindSidecar, storeFiles
<1>6. StoreTypeOK'
  BY <1>4, <1>5, WalkFacts DEF StoreInv, StoreTypeOK
<1>7. Named'
  BY <1>2, <1>4, <1>5 DEF StoreInv, Named
<1>8. AloneInv' /\ FilledInv'
  BY <1>2, <1>3, <1>4, <1>5, OpTypes, QuietWriters
<1>9. CoverInv'
  BY <1>2, <1>4, <1>5, WalkFacts DEF StoreInv, CoverInv, Reaches, Writing
<1> QED  BY <1>6, <1>7, <1>8, <1>9 DEF StoreInv

LEMMA MigrateStep ==
    ASSUME StoreInv, NEW p \in Starters, Migrate(p)
    PROVE  StoreInv'
<1> DEFINE o == Op("migrate", "next", NoRecord)
           w == [Ended(walk) EXCEPT ![p].found = cfgs]
           Walks == [found : SUBSET Configs, over : BOOLEAN]
<1>1. o \in Ops /\ o.kind = "migrate" /\ o.at = "next"
  BY RecordTypes, OpTypes DEF OpKinds, OpPlaces
<1>2. w \in [Starters -> Walks] /\ w[p].found = cfgs /\ ~w[p].over
      /\ \A q \in Starters : ~w[q].over /\ (q # p => w[q].found = walk[q].found)
  <2>1. Ended(walk) \in [Starters -> Walks] /\ cfgs \in SUBSET Configs
    BY WalkFacts DEF StoreInv, StoreTypeOK
  <2>2. \A y \in Walks : /\ [y EXCEPT !.found = cfgs] \in Walks
                         /\ [y EXCEPT !.found = cfgs].found = cfgs
                         /\ [y EXCEPT !.found = cfgs].over = y.over
    BY <2>1
  <2>3. w = [Ended(walk) EXCEPT ![p] = [Ended(walk)[p] EXCEPT !.found = cfgs]]
    OBVIOUS
  <2> HIDE DEF Walks, w
  <2> QED  BY <2>1, <2>2, <2>3, WalkFacts DEF StoreInv
<1>3. op' = [op EXCEPT ![p] = o] /\ op[p] = NoOp
  BY DEF Migrate, Starts
<1>4. walk' = w /\ todo' = [todo EXCEPT ![p] = cfgs]
      /\ UNCHANGED <<cfgs, cfgTmp, sidecar, sideTmp, held, shared, broke>>
  BY DEF Migrate, storeFiles
<1>5. todo' \in [Starters -> SUBSET Configs] /\ todo'[p] = cfgs
      /\ \A q \in Starters : q # p => todo'[q] = todo[q]
  BY <1>4 DEF StoreInv, StoreTypeOK
<1> HIDE DEF o, w, Walks
<1>6. /\ op' \in [Starters -> Ops] /\ op'[p] = o
      /\ \A q \in Starters : q # p => op'[q] = op[q]
  BY <1>1, <1>3, PutsFacts DEF StoreInv
<1>7. StoreTypeOK'
  BY <1>2, <1>4, <1>5, <1>6 DEF StoreInv, StoreTypeOK, Walks
<1>8. Named'
  BY <1>1, <1>4, <1>6 DEF StoreInv, Named
<1>9. AloneInv' /\ FilledInv'
  BY <1>1, <1>3, <1>4, <1>6, OpTypes, QuietWriters
<1>10. CoverInv'
  BY <1>1, <1>2, <1>4, <1>5, <1>6 DEF StoreInv, CoverInv, Reaches, Writing
<1> QED  BY <1>7, <1>8, <1>9, <1>10 DEF StoreInv

LEMMA MigrateNextStep ==
    ASSUME StoreInv, NEW p \in Starters, MigrateNext(p)
    PROVE  StoreInv'
<1>1. PICK c \in todo[p] :
         /\ todo' = [todo EXCEPT ![p] = @ \ {c}]
         /\ IF c \notin cfgs \/ sidecar[c[1]].is # "none" THEN UNCHANGED op
            ELSE op' = [op EXCEPT ![p] = Op("migrate", "sideOpen",
                                            SideRecord(c[1], StableId(c[1]), c[2]))]
  BY DEF MigrateNext
<1> DEFINE o == Op("migrate", "sideOpen", SideRecord(c[1], StableId(c[1]), c[2]))
<1>2. c \in Configs /\ c[1] \in StoreNames /\ c[2] \in Protos
  BY ConfigPairs DEF StoreInv, StoreTypeOK
<1>3. o \in Ops /\ o.kind = "migrate" /\ o.at = "sideOpen" /\ o.rec.is = "full" /\ o.rec.name = c[1]
  BY <1>2, RecordTypes, IdTypes, OpTypes DEF OpKinds, OpPlaces
<1>4. op[p].at = "next" /\ op[p].kind = "migrate"
      /\ UNCHANGED <<cfgs, cfgTmp, sidecar, sideTmp, held, walk, shared, broke>>
  BY DEF MigrateNext, storeFiles, StoreInv, Named
<1>5. todo' \in [Starters -> SUBSET Configs] /\ todo'[p] = todo[p] \ {c}
      /\ \A q \in Starters : q # p => todo'[q] = todo[q]
  BY <1>1 DEF StoreInv, StoreTypeOK
<1>6. CASE c \notin cfgs \/ sidecar[c[1]].is # "none"
  <2>1. op' = op
    BY <1>1, <1>6
  <2>2. StoreTypeOK' /\ Named'
    BY <2>1, <1>4, <1>5 DEF StoreInv, StoreTypeOK, Named
  <2>3. AloneInv' /\ FilledInv'
    BY <2>1, <1>4, QuietWriters
  <2>4. CoverInv'
    BY <2>1, <1>4, <1>5, <1>6 DEF StoreInv, CoverInv, Reaches, Writing
  <2> QED  BY <2>2, <2>3, <2>4 DEF StoreInv
<1>7. CASE ~(c \notin cfgs \/ sidecar[c[1]].is # "none")
  <2>1. op' = [op EXCEPT ![p] = o]
    BY <1>1, <1>7
  <2> HIDE DEF o
  <2>2. /\ op' \in [Starters -> Ops] /\ op'[p] = o
        /\ \A q \in Starters : q # p => op'[q] = op[q]
    BY <1>3, <2>1, PutsFacts DEF StoreInv
  <2>3. StoreTypeOK'
    BY <1>4, <1>5, <2>2 DEF StoreInv, StoreTypeOK
  <2>4. Named'
    BY <1>2, <1>3, <1>4, <2>2 DEF StoreInv, Named
  <2>5. AloneInv' /\ FilledInv'
    BY <1>3, <1>4, <2>2, QuietWriters
  <2>6. CoverInv'
    BY <1>3, <1>4, <1>5, <2>2 DEF StoreInv, CoverInv, Reaches, Writing
  <2> QED  BY <2>3, <2>4, <2>5, <2>6 DEF StoreInv
<1> QED  BY <1>6, <1>7

LEMMA MigrateDoneStep ==
    ASSUME StoreInv, NEW p \in Starters, MigrateDone(p)
    PROVE  StoreInv'
<1> DEFINE Walks == [found : SUBSET Configs, over : BOOLEAN]
<1>1. /\ op[p].at = "next" /\ op[p].kind = "migrate" /\ todo[p] = {}
      /\ op' = [op EXCEPT ![p] = NoOp] /\ walk' = [walk EXCEPT ![p].over = TRUE]
      /\ UNCHANGED <<cfgs, cfgTmp, sidecar, sideTmp, held, todo, shared, broke>>
  BY DEF MigrateDone, storeFiles, StoreInv, Named
<1>2. /\ op' \in [Starters -> Ops] /\ op'[p] = NoOp
      /\ \A q \in Starters : q # p => op'[q] = op[q]
  BY <1>1, OpTypes, PutsFacts DEF StoreInv
<1>3. /\ walk' \in [Starters -> Walks] /\ walk'[p].found = walk[p].found
      /\ \A q \in Starters : q # p => walk'[q] = walk[q]
  <2>1. walk \in [Starters -> Walks]
    BY DEF StoreInv, StoreTypeOK
  <2>2. \A y \in Walks : /\ [y EXCEPT !.over = TRUE] \in Walks
                         /\ [y EXCEPT !.over = TRUE].found = y.found
    OBVIOUS
  <2>3. walk' = [walk EXCEPT ![p] = [walk[p] EXCEPT !.over = TRUE]]
    BY <1>1
  <2> HIDE DEF Walks
  <2> QED  BY <2>1, <2>2, <2>3
<1>4. StoreTypeOK'
  BY <1>1, <1>2, <1>3 DEF StoreInv, StoreTypeOK
<1>5. Named'
  BY <1>1, <1>2, OpTypes DEF StoreInv, Named
<1>6. AloneInv' /\ FilledInv'
  BY <1>1, <1>2, OpTypes, QuietWriters
<1>7. CoverInv'
  BY <1>1, <1>2, <1>3, OpTypes DEF StoreInv, CoverInv, Reaches, Writing
<1> QED  BY <1>4, <1>5, <1>6, <1>7 DEF StoreInv
LEMMA ConfigRenameStep ==
    ASSUME StoreInv, NEW p \in Starters, ConfigRename(p)
    PROVE  StoreInv'
<1>1. /\ op[p].at = "cfgRename" /\ Goes(p, "sideOpen") /\ "sideOpen" \in OpPlaces
      /\ cfgs' = cfgs \cup {<<op[p].rec.name, op[p].rec.ext>>}
      /\ cfgTmp' = cfgTmp \ {<<op[p].rec.name, op[p].rec.ext>>}
      /\ UNCHANGED <<sidecar, sideTmp, held, todo, walk, shared, broke>>
  BY DEF ConfigRename, OpPlaces
<1>2. /\ op' \in [Starters -> Ops]
      /\ op'[p].kind = op[p].kind /\ op'[p].at = "sideOpen" /\ op'[p].rec = op[p].rec
      /\ \A q \in Starters : q # p => op'[q] = op[q]
  BY <1>1, GoesFacts DEF StoreInv
<1>3. op[p].rec.is = "full" /\ op[p].rec.name \in StoreNames
  BY <1>1 DEF StoreInv, Named
<1>4. op[p].rec.ext \in Protos
  BY DEF StoreInv, StoreTypeOK, Ops, SidecarFiles
<1>5. <<op[p].rec.name, op[p].rec.ext>> \in Configs
  BY <1>3, <1>4, ConfigPairs
<1>6. StoreTypeOK'
  BY <1>1, <1>2, <1>5 DEF StoreInv, StoreTypeOK
<1>7. Named'
  BY <1>1, <1>2, <1>3 DEF StoreInv, Named
<1>8. AloneInv' /\ FilledInv'
  BY <1>1, <1>2, QuietWriters
<1>9. CoverInv'
  BY <1>1, <1>2 DEF StoreInv, CoverInv, Reaches, Writing
<1> QED  BY <1>6, <1>7, <1>8, <1>9 DEF StoreInv

LEMMA SidecarOpenStep ==
    ASSUME StoreInv, NEW p \in Starters, SidecarOpen(p)
    PROVE  StoreInv'
<1> DEFINE n == op[p].rec.name
<1>1. /\ op[p].at = "sideOpen" /\ Goes(p, "sideFill") /\ "sideFill" \in OpPlaces
      /\ held' = [held EXCEPT ![p] = "tmp"]
      /\ sideTmp' = [sideTmp EXCEPT ![n] = Truncated]
      /\ shared' = (shared \/ \E q \in Starters \ {p} : op[q].rec.name = n /\ op[q].at \in {"sideFill", "sideRename"})
      /\ UNCHANGED <<cfgs, cfgTmp, sidecar, todo, walk, broke>>
  BY DEF SidecarOpen, OpPlaces
<1>2. op[p].rec.is = "full" /\ n \in StoreNames
  BY <1>1 DEF StoreInv, Named
<1>3. /\ op' \in [Starters -> Ops]
      /\ op'[p].kind = op[p].kind /\ op'[p].at = "sideFill" /\ op'[p].rec = op[p].rec
      /\ \A q \in Starters : q # p => op'[q] = op[q]
  BY <1>1, GoesFacts DEF StoreInv
<1>4. /\ held' \in [Starters -> {"nothing", "tmp", "file", "unlinked"}] /\ held'[p] = "tmp"
      /\ \A q \in Starters : q # p => held'[q] = held[q]
  BY <1>1 DEF StoreInv, StoreTypeOK
<1>5. /\ sideTmp' \in [StoreNames -> SidecarFiles] /\ sideTmp'[n].is = "empty"
      /\ \A m \in StoreNames : m # n => sideTmp'[m] = sideTmp[m]
  BY <1>1, <1>2, RecordTypes DEF StoreInv, StoreTypeOK
<1>6. shared' \in BOOLEAN /\ (~shared' => ~shared /\ \A q \in Starters \ {p} : ~Writing(q, n))
  BY <1>1 DEF Writing, StoreInv, StoreTypeOK
<1>7. op'[p].rec.name = n
  BY <1>3
<1> HIDE DEF n
<1>8. StoreTypeOK'
  BY <1>1, <1>3, <1>4, <1>5, <1>6 DEF StoreInv, StoreTypeOK
<1>9. Named'
  BY <1>1, <1>2, <1>3, <1>5, <1>7 DEF StoreInv, Named
<1>10. AloneInv'
  <2>1. SUFFICES ASSUME ~shared' PROVE AloneInv'
    BY DEF AloneInv
  <2>2. ~shared /\ \A q \in Starters \ {p} : ~Writing(q, n)
    BY <2>1, <1>6
  <2>3. \A q \in Starters, m \in StoreNames :
           Writing(q, m)' => (q = p /\ m = n) \/ (q # p /\ m # n /\ Writing(q, m))
    BY <2>2, <1>3, <1>7 DEF Writing
  <2>4. \A q, r \in Starters, m \in StoreNames : Writing(q, m)' /\ Writing(r, m)' => q = r
    BY <2>2, <2>3 DEF StoreInv, AloneInv
  <2>5. ASSUME NEW q \in Starters, op'[q].at = "sideRename"
        PROVE  sideTmp'[op'[q].rec.name].is = "full"
    <3>1. q # p /\ op'[q] = op[q]
      BY <2>5, <1>3
    <3>2. op[q].rec.name \in StoreNames /\ op[q].rec.name # n
      BY <2>2, <2>5, <3>1 DEF Writing, StoreInv, Named
    <3>3. sideTmp[op[q].rec.name].is = "full"
      BY <2>2, <2>5, <3>1 DEF StoreInv, AloneInv
    <3> QED  BY <3>1, <3>2, <3>3, <1>5
  <2>6. ASSUME NEW q \in Starters, op'[q].at = "sideFill" PROVE held'[q] = "tmp"
    BY <2>2, <2>6, <1>3, <1>4 DEF StoreInv, AloneInv
  <2>7. \A m \in StoreNames : sidecar'[m].is # "empty"
    BY <2>2, <1>1 DEF StoreInv, AloneInv
  <2> QED  BY <2>4, <2>5, <2>6, <2>7 DEF AloneInv
<1>11. FilledInv'
  <2>1. SUFFICES ASSUME ~broke, NEW m \in StoreNames
                 PROVE  /\ sideTmp'[m].is = "empty" =>
                              \E q \in Starters : op'[q].at = "sideFill" /\ op'[q].rec.name = m /\ held'[q] = "tmp"
                        /\ sidecar[m].is = "empty" =>
                              \E q \in Starters : op'[q].at = "sideFill" /\ op'[q].rec.name = m /\ held'[q] = "file"
    BY <1>1 DEF FilledInv
  <2>2. ASSUME NEW q \in Starters, op[q].at = "sideFill"
        PROVE  op'[q] = op[q] /\ held'[q] = held[q]
    BY <2>2, <1>1, <1>3, <1>4
  <2>3. sidecar[m].is = "empty" =>
           \E q \in Starters : op'[q].at = "sideFill" /\ op'[q].rec.name = m /\ held'[q] = "file"
    BY <2>1, <2>2 DEF StoreInv, FilledInv
  <2>4. CASE m = n
    BY <2>3, <2>4, <1>3, <1>4, <1>7
  <2>5. CASE m # n
    BY <2>1, <2>2, <2>3, <2>5, <1>5 DEF StoreInv, FilledInv
  <2> QED  BY <2>4, <2>5
<1>12. CoverInv'
  <2>1. SUFFICES ASSUME NEW q \in Starters
                 PROVE  /\ walk[q].found \subseteq cfgs
                        /\ op'[q].kind = "migrate" => \A c \in walk[q].found : Reaches(q, c)'
                        /\ walk[q].over => \A c \in walk[q].found : sidecar[c[1]].is # "none"
                        /\ \A c \in walk[q].found :
                              Writing(q, c[1])' => sideTmp'[c[1]].is # "none" \/ sidecar[c[1]].is # "none"
    BY <1>1 DEF CoverInv
  <2>2. \A c \in walk[q].found : c[1] \in StoreNames
    BY ConfigPairs DEF StoreInv, StoreTypeOK
  <2>3. \A c \in walk[q].found : Reaches(q, c) => Reaches(q, c)'
    BY <1>1, <1>3 DEF Reaches
  <2>4. ASSUME NEW c \in walk[q].found, Writing(q, c[1])'
        PROVE  sideTmp'[c[1]].is # "none" \/ sidecar[c[1]].is # "none"
    <3>1. CASE c[1] = n
      BY <3>1, <1>5
    <3>2. CASE c[1] # n
      <4>1. Writing(q, c[1])
        BY <2>4, <3>2, <1>3, <1>7 DEF Writing
      <4> QED  BY <4>1, <3>2, <2>2, <1>5 DEF StoreInv, CoverInv
    <3> QED  BY <3>1, <3>2
  <2>5. op'[q].kind = op[q].kind
    BY <1>3
  <2> QED  BY <2>3, <2>4, <2>5 DEF StoreInv, CoverInv
<1> QED  BY <1>8, <1>9, <1>10, <1>11, <1>12 DEF StoreInv

LEMMA SidecarFillStep ==
    ASSUME StoreInv, NEW p \in Starters, SidecarFill(p)
    PROVE  StoreInv'
<1> DEFINE n == op[p].rec.name
<1>1. /\ op[p].at = "sideFill" /\ Goes(p, "sideRename") /\ "sideRename" \in OpPlaces
      /\ sideTmp' = IF held[p] = "tmp" THEN [sideTmp EXCEPT ![n] = op[p].rec] ELSE sideTmp
      /\ sidecar' = IF held[p] = "file" THEN [sidecar EXCEPT ![n] = op[p].rec] ELSE sidecar
      /\ held' = [held EXCEPT ![p] = "nothing"]
      /\ UNCHANGED <<cfgs, cfgTmp, todo, walk, shared, broke>>
  BY DEF SidecarFill, OpPlaces
<1>2. op[p].rec.is = "full" /\ n \in StoreNames /\ op[p].rec \in SidecarFiles
  BY <1>1, OpTypes DEF StoreInv, Named, StoreTypeOK
<1>3. /\ op' \in [Starters -> Ops]
      /\ op'[p].kind = op[p].kind /\ op'[p].at = "sideRename" /\ op'[p].rec = op[p].rec
      /\ \A q \in Starters : q # p => op'[q] = op[q]
  BY <1>1, GoesFacts DEF StoreInv
<1>4. /\ held' \in [Starters -> {"nothing", "tmp", "file", "unlinked"}]
      /\ \A q \in Starters : q # p => held'[q] = held[q]
  BY <1>1 DEF StoreInv, StoreTypeOK
<1>5. /\ sideTmp' \in [StoreNames -> SidecarFiles]
      /\ sideTmp'[n] = IF held[p] = "tmp" THEN op[p].rec ELSE sideTmp[n]
      /\ \A m \in StoreNames : m # n => sideTmp'[m] = sideTmp[m]
  BY <1>1, <1>2 DEF StoreInv, StoreTypeOK
<1>6. /\ sidecar' \in [StoreNames -> SidecarFiles]
      /\ sidecar'[n] = IF held[p] = "file" THEN op[p].rec ELSE sidecar[n]
      /\ \A m \in StoreNames : m # n => sidecar'[m] = sidecar[m]
  BY <1>1, <1>2 DEF StoreInv, StoreTypeOK
<1>7. op'[p].rec.name = n /\ op[p].rec.name = n
  BY <1>3
<1> HIDE DEF n
<1>8. StoreTypeOK'
  BY <1>1, <1>3, <1>4, <1>5, <1>6 DEF StoreInv, StoreTypeOK
<1>9. Named'
  <2>1. \A m \in StoreNames : /\ sidecar'[m].is = "full" => sidecar'[m].name = m
                              /\ sideTmp'[m].is = "full" => sideTmp'[m].name = m
    BY <1>2, <1>5, <1>6, <1>7 DEF StoreInv, Named
  <2> QED  BY <2>1, <1>1, <1>2, <1>3, <1>7 DEF StoreInv, Named
<1>10. \A q \in Starters, m \in StoreNames : Writing(q, m)' <=> Writing(q, m)
  BY <1>1, <1>3 DEF Writing
<1>11. AloneInv'
  <2>1. SUFFICES ASSUME ~shared PROVE AloneInv'
    BY <1>1 DEF AloneInv
  <2>2. held[p] = "tmp"
    BY <2>1, <1>1 DEF StoreInv, AloneInv
  <2>3. \A m \in StoreNames : sidecar'[m].is # "empty"
    BY <2>1, <1>2, <1>6 DEF StoreInv, AloneInv
  <2>4. \A q, r \in Starters, m \in StoreNames : Writing(q, m)' /\ Writing(r, m)' => q = r
    BY <2>1, <1>10 DEF StoreInv, AloneInv
  <2>5. ASSUME NEW q \in Starters, op'[q].at = "sideRename"
        PROVE  sideTmp'[op'[q].rec.name].is = "full"
    <3>1. op[q].rec.name \in StoreNames /\ op'[q].rec.name = op[q].rec.name
      BY <2>5, <1>1, <1>2, <1>3, <1>7 DEF StoreInv, Named
    <3>2. q # p => sideTmp[op[q].rec.name].is = "full"
      BY <2>1, <2>5, <1>3 DEF StoreInv, AloneInv
    <3> QED  BY <3>1, <3>2, <2>2, <1>2, <1>5, <1>7
  <2>6. ASSUME NEW q \in Starters, op'[q].at = "sideFill" PROVE held'[q] = "tmp"
    BY <2>1, <2>6, <1>3, <1>4 DEF StoreInv, AloneInv
  <2> QED  BY <2>3, <2>4, <2>5, <2>6 DEF AloneInv
<1>12. FilledInv'
  <2>1. SUFFICES ASSUME ~broke, NEW m \in StoreNames
                 PROVE  /\ sideTmp'[m].is = "empty" =>
                              \E q \in Starters : op'[q].at = "sideFill" /\ op'[q].rec.name = m /\ held'[q] = "tmp"
                        /\ sidecar'[m].is = "empty" =>
                              \E q \in Starters : op'[q].at = "sideFill" /\ op'[q].rec.name = m /\ held'[q] = "file"
    BY <1>1 DEF FilledInv
  <2>2. ASSUME NEW q \in Starters, q # p
        PROVE  op'[q] = op[q] /\ held'[q] = held[q]
    BY <2>2, <1>3, <1>4
  <2>3. ASSUME sideTmp'[m].is = "empty"
        PROVE  \E q \in Starters : op'[q].at = "sideFill" /\ op'[q].rec.name = m /\ held'[q] = "tmp"
    <3>1. sideTmp[m].is = "empty" /\ (m = n => held[p] # "tmp")
      BY <2>3, <1>2, <1>5
    <3>2. PICK q \in Starters : op[q].at = "sideFill" /\ op[q].rec.name = m /\ held[q] = "tmp"
      BY <2>1, <3>1 DEF StoreInv, FilledInv
    <3>3. q # p
      BY <3>1, <3>2, <1>7
    <3> QED  BY <2>2, <3>2, <3>3
  <2>4. ASSUME sidecar'[m].is = "empty"
        PROVE  \E q \in Starters : op'[q].at = "sideFill" /\ op'[q].rec.name = m /\ held'[q] = "file"
    <3>1. sidecar[m].is = "empty" /\ (m = n => held[p] # "file")
      BY <2>4, <1>2, <1>6
    <3>2. PICK q \in Starters : op[q].at = "sideFill" /\ op[q].rec.name = m /\ held[q] = "file"
      BY <2>1, <3>1 DEF StoreInv, FilledInv
    <3>3. q # p
      BY <3>1, <3>2, <1>7
    <3> QED  BY <2>2, <3>2, <3>3
  <2> QED  BY <2>3, <2>4
<1>13. CoverInv'
  <2>1. \A m \in StoreNames : /\ sidecar[m].is # "none" => sidecar'[m].is # "none"
                              /\ sideTmp[m].is # "none" => sideTmp'[m].is # "none"
    BY <1>2, <1>5, <1>6
  <2>2. \A q \in Starters : \A c \in walk[q].found : c[1] \in StoreNames
    BY ConfigPairs DEF StoreInv, StoreTypeOK
  <2>3. \A q \in Starters : op'[q].kind = op[q].kind
    BY <1>3
  <2>4. \A q \in Starters : \A c \in walk[q].found : Reaches(q, c) => Reaches(q, c)'
    BY <2>1, <2>2, <1>1, <1>3 DEF Reaches
  <2>5. ASSUME NEW q \in Starters, NEW c \in walk[q].found, Writing(q, c[1])'
        PROVE  sideTmp'[c[1]].is # "none" \/ sidecar'[c[1]].is # "none"
    BY <2>1, <2>2, <2>5, <1>10 DEF StoreInv, CoverInv
  <2> QED  BY <2>1, <2>2, <2>3, <2>4, <2>5, <1>1 DEF StoreInv, CoverInv
<1> QED  BY <1>8, <1>9, <1>11, <1>12, <1>13 DEF StoreInv
LEMMA SidecarRenameStep ==
    ASSUME StoreInv, NEW p \in Starters, SidecarRename(p)
    PROVE  StoreInv'
<1> DEFINE n == op[p].rec.name
<1>1. /\ op[p].at = "sideRename" /\ op' = [op EXCEPT ![p] = AfterSidecar(p)]
      /\ UNCHANGED <<cfgs, cfgTmp, todo, walk, shared, broke>>
  BY DEF SidecarRename
<1>2. /\ sideTmp[n].is = "none" => UNCHANGED <<sidecar, sideTmp, held>>
      /\ sideTmp[n].is # "none" => /\ sidecar' = [sidecar EXCEPT ![n] = sideTmp[n]]
                                   /\ sideTmp' = [sideTmp EXCEPT ![n] = NoRecord]
                                   /\ held' = Moved(p, n)
  BY DEF SidecarRename
<1>3. n \in StoreNames
  BY <1>1 DEF StoreInv, Named
<1>4. /\ op' \in [Starters -> Ops] /\ op'[p] = AfterSidecar(p)
      /\ \A q \in Starters : q # p => op'[q] = op[q]
  BY <1>1, AfterFacts, PutsFacts DEF StoreInv
<1>5. /\ op'[p].at \in {"idle", "next"}
      /\ op'[p].kind = "migrate" => op[p].kind = "migrate"
      /\ op'[p].at = "next" => op'[p].kind = "migrate"
  BY <1>4, AfterFacts, OpTypes
<1>6. op[p].rec.name = n
  OBVIOUS
<1> HIDE DEF n
<1>7. \A q \in Starters, m \in StoreNames : Writing(q, m)' <=> q # p /\ Writing(q, m)
  BY <1>4, <1>5 DEF Writing
<1>8. Writing(p, n)
  BY <1>1, <1>6 DEF Writing
<1>9. CASE sideTmp[n].is = "none"
  <2>1. UNCHANGED <<sidecar, sideTmp, held>>
    BY <1>2, <1>9
  <2>2. shared
    BY <1>1, <1>6, <1>9 DEF StoreInv, AloneInv
  <2>3. StoreTypeOK' /\ Named'
    BY <2>1, <1>1, <1>4, <1>5 DEF StoreInv, StoreTypeOK, Named
  <2>4. AloneInv'
    BY <2>2, <1>1 DEF AloneInv
  <2>5. FilledInv'
    <3>1. \A q \in Starters : op[q].at = "sideFill" => op'[q] = op[q]
      BY <1>1, <1>4
    <3> QED  BY <3>1, <2>1, <1>1 DEF StoreInv, FilledInv
  <2>6. CoverInv'
    <3>1. \A q \in Starters : \A c \in walk[q].found : c[1] \in StoreNames
      BY ConfigPairs DEF StoreInv, StoreTypeOK
    <3>2. \A c \in walk[p].found : c[1] = n => sidecar[n].is # "none"
      BY <1>8, <1>9 DEF StoreInv, CoverInv
    <3>3. \A c \in walk[p].found : Reaches(p, c) => Reaches(p, c)'
      BY <3>2, <2>1, <1>1, <1>6 DEF Reaches
    <3>4. \A q \in Starters : \A c \in walk[q].found : q # p => (Reaches(q, c) => Reaches(q, c)')
      BY <2>1, <1>1, <1>4 DEF Reaches
    <3>5. \A q \in Starters : op'[q].kind = "migrate" => op[q].kind = "migrate"
      BY <1>4, <1>5
    <3> QED  BY <3>1, <3>3, <3>4, <3>5, <2>1, <1>1, <1>7 DEF StoreInv, CoverInv
  <2> QED  BY <2>3, <2>4, <2>5, <2>6 DEF StoreInv
<1>10. CASE sideTmp[n].is # "none"
  <2>1. /\ sidecar' = [sidecar EXCEPT ![n] = sideTmp[n]]
        /\ sideTmp' = [sideTmp EXCEPT ![n] = NoRecord]
        /\ held' = Moved(p, n)
    BY <1>2, <1>10
  <2>2. /\ sidecar' \in [StoreNames -> SidecarFiles] /\ sidecar'[n] = sideTmp[n]
        /\ \A m \in StoreNames : m # n => sidecar'[m] = sidecar[m]
    BY <2>1, <1>3 DEF StoreInv, StoreTypeOK
  <2>3. /\ sideTmp' \in [StoreNames -> SidecarFiles] /\ sideTmp'[n].is = "none"
        /\ \A m \in StoreNames : m # n => sideTmp'[m] = sideTmp[m]
    BY <2>1, <1>3, RecordTypes DEF StoreInv, StoreTypeOK
  <2>4. /\ held' \in [Starters -> {"nothing", "tmp", "file", "unlinked"}]
        /\ \A q \in Starters : /\ op[q].rec.name # n => held'[q] = held[q]
                               /\ held[q] = "tmp" /\ op[q].rec.name = n => held'[q] = "file"
    BY <2>1, <1>1, <1>3, MovedFacts DEF StoreInv
  <2>5. StoreTypeOK'
    BY <2>2, <2>3, <2>4, <1>1, <1>4 DEF StoreInv, StoreTypeOK
  <2>6. Named'
    <3>1. \A m \in StoreNames : /\ sidecar'[m].is = "full" => sidecar'[m].name = m
                                /\ sideTmp'[m].is = "full" => sideTmp'[m].name = m
      BY <2>2, <2>3, <1>3 DEF StoreInv, Named
    <3> QED  BY <3>1, <1>4, <1>5 DEF StoreInv, Named
  <2>7. AloneInv'
    <3>1. SUFFICES ASSUME ~shared PROVE AloneInv'
      BY <1>1 DEF AloneInv
    <3>2. \A q \in Starters : q # p => ~Writing(q, n)
      BY <3>1, <1>3, <1>8 DEF StoreInv, AloneInv
    <3>3. sideTmp[n].is = "full"
      BY <3>1, <1>1, <1>6 DEF StoreInv, AloneInv
    <3>4. \A m \in StoreNames : sidecar'[m].is # "empty"
      BY <3>1, <3>3, <2>2 DEF StoreInv, AloneInv
    <3>5. \A q, r \in Starters, m \in StoreNames : Writing(q, m)' /\ Writing(r, m)' => q = r
      BY <3>1, <1>7 DEF StoreInv, AloneInv
    <3>6. ASSUME NEW q \in Starters, op'[q].at \in {"sideFill", "sideRename"}
          PROVE  q # p /\ op'[q] = op[q] /\ op[q].rec.name \in StoreNames /\ op[q].rec.name # n
      <4>1. q # p /\ op'[q] = op[q]
        BY <3>6, <1>4, <1>5
      <4>2. op[q].rec.name # n
        BY <3>2, <3>6, <4>1 DEF Writing
      <4> QED  BY <3>6, <4>1, <4>2 DEF StoreInv, Named
    <3>7. ASSUME NEW q \in Starters
          PROVE  /\ op'[q].at = "sideFill" => held'[q] = "tmp"
                 /\ op'[q].at = "sideRename" => sideTmp'[op'[q].rec.name].is = "full"
      BY <3>1, <3>6, <2>3, <2>4 DEF StoreInv, AloneInv
    <3> QED  BY <3>4, <3>5, <3>7 DEF AloneInv
  <2>8. FilledInv'
    <3>1. SUFFICES ASSUME ~broke, NEW m \in StoreNames
                   PROVE  /\ sideTmp'[m].is = "empty" =>
                                \E q \in Starters : op'[q].at = "sideFill" /\ op'[q].rec.name = m /\ held'[q] = "tmp"
                          /\ sidecar'[m].is = "empty" =>
                                \E q \in Starters : op'[q].at = "sideFill" /\ op'[q].rec.name = m /\ held'[q] = "file"
      BY <1>1 DEF FilledInv
    <3>2. ASSUME NEW q \in Starters, op[q].at = "sideFill"
          PROVE  op'[q] = op[q]
      BY <3>2, <1>1, <1>4
    <3>3. CASE m = n
      BY <3>1, <3>2, <3>3, <2>2, <2>3, <2>4 DEF StoreInv, FilledInv
    <3>4. CASE m # n
      BY <3>1, <3>2, <3>4, <2>2, <2>3, <2>4 DEF StoreInv, FilledInv
    <3> QED  BY <3>3, <3>4
  <2>9. CoverInv'
    <3>1. \A q \in Starters : \A c \in walk[q].found : c[1] \in StoreNames
      BY ConfigPairs DEF StoreInv, StoreTypeOK
    <3>2. sidecar'[n].is # "none" /\ \A m \in StoreNames : sidecar[m].is # "none" => sidecar'[m].is # "none"
      BY <2>2, <1>10
    <3>3. \A q \in Starters : \A c \in walk[q].found : Reaches(q, c) => Reaches(q, c)'
      <4>1. ASSUME NEW q \in Starters, NEW c \in walk[q].found, Reaches(q, c)
            PROVE  Reaches(q, c)'
        <5>1. CASE q = p
          BY <5>1, <4>1, <3>1, <3>2, <1>1, <1>6 DEF Reaches
        <5>2. CASE q # p
          BY <5>2, <4>1, <3>1, <3>2, <1>1, <1>4 DEF Reaches
        <5> QED  BY <5>1, <5>2
      <4> QED  BY <4>1
    <3>4. \A q \in Starters : op'[q].kind = "migrate" => op[q].kind = "migrate"
      BY <1>4, <1>5
    <3>5. ASSUME NEW q \in Starters, NEW c \in walk[q].found, Writing(q, c[1])'
          PROVE  sideTmp'[c[1]].is # "none" \/ sidecar'[c[1]].is # "none"
      <4>1. Writing(q, c[1])
        BY <3>1, <3>5, <1>7
      <4> QED  BY <4>1, <3>1, <3>2, <2>3 DEF StoreInv, CoverInv
    <3> QED  BY <3>1, <3>2, <3>3, <3>4, <3>5, <1>1 DEF StoreInv, CoverInv
  <2> QED  BY <2>5, <2>6, <2>7, <2>8, <2>9 DEF StoreInv
<1> QED  BY <1>9, <1>10

LEMMA RemoveConfigStep ==
    ASSUME StoreInv, NEW p \in Starters, RemoveConfig(p)
    PROVE  StoreInv'
<1> DEFINE c == <<op[p].rec.name, op[p].rec.ext>>
<1>1. /\ op[p].at = "rmCfg" /\ Goes(p, "rmSide") /\ "rmSide" \in OpPlaces
      /\ cfgs' = cfgs \ {c} /\ walk' = WithoutConfig(walk, c)
      /\ UNCHANGED <<cfgTmp, sidecar, sideTmp, held, todo, shared, broke>>
  BY DEF RemoveConfig, OpPlaces
<1>2. /\ op' \in [Starters -> Ops]
      /\ op'[p].kind = op[p].kind /\ op'[p].at = "rmSide" /\ op'[p].rec = op[p].rec
      /\ \A q \in Starters : q # p => op'[q] = op[q]
  BY <1>1, GoesFacts DEF StoreInv
<1> HIDE DEF c
<1>3. /\ walk' \in [Starters -> [found : SUBSET Configs, over : BOOLEAN]]
      /\ \A q \in Starters : walk'[q].found = walk[q].found \ {c} /\ walk'[q].over = walk[q].over
  BY <1>1, WalkFacts DEF StoreInv, StoreTypeOK
<1>4. StoreTypeOK'
  BY <1>1, <1>2, <1>3 DEF StoreInv, StoreTypeOK
<1>5. Named'
  BY <1>1, <1>2 DEF StoreInv, Named
<1>6. AloneInv' /\ FilledInv'
  BY <1>1, <1>2, QuietWriters
<1>7. CoverInv'
  BY <1>1, <1>2, <1>3 DEF StoreInv, CoverInv, Reaches, Writing
<1> QED  BY <1>4, <1>5, <1>6, <1>7 DEF StoreInv

LEMMA RemoveSidecarStep ==
    ASSUME StoreInv, NEW p \in Starters, RemoveSidecar(p)
    PROVE  StoreInv'
<1> DEFINE n == op[p].rec.name
           Walks == [found : SUBSET Configs, over : BOOLEAN]
<1>1. /\ op[p].at = "rmSide" /\ op' = [op EXCEPT ![p] = NoOp]
      /\ sidecar' = [sidecar EXCEPT ![n] = NoRecord]
      /\ held' = Moved(p, n)
      /\ walk' = [q \in Starters |-> [walk[q] EXCEPT !.found = {c \in @ : c[1] # n}]]
      /\ UNCHANGED <<cfgs, cfgTmp, sideTmp, todo, shared, broke>>
  BY DEF RemoveSidecar
<1>2. n \in StoreNames
  BY <1>1 DEF StoreInv, Named
<1>3. /\ op' \in [Starters -> Ops] /\ op'[p] = NoOp
      /\ \A q \in Starters : q # p => op'[q] = op[q]
  BY <1>1, OpTypes, PutsFacts DEF StoreInv
<1>4. op'[p].at = "idle" /\ op'[p].kind = "idle"
  BY <1>3, OpTypes
<1> HIDE DEF n
<1>5. /\ walk' \in [Starters -> Walks]
      /\ \A q \in Starters : /\ walk'[q].found = {c \in walk[q].found : c[1] # n}
                             /\ walk'[q].over = walk[q].over
  <2>1. walk \in [Starters -> Walks]
    BY DEF StoreInv, StoreTypeOK
  <2>2. \A y \in Walks : /\ [y EXCEPT !.found = {c \in @ : c[1] # n}] \in Walks
                         /\ [y EXCEPT !.found = {c \in @ : c[1] # n}].found = {c \in y.found : c[1] # n}
                         /\ [y EXCEPT !.found = {c \in @ : c[1] # n}].over = y.over
    OBVIOUS
  <2> HIDE DEF Walks
  <2> QED  BY <2>1, <2>2, <1>1
<1>6. /\ sidecar' \in [StoreNames -> SidecarFiles] /\ sidecar'[n].is = "none"
      /\ \A m \in StoreNames : m # n => sidecar'[m] = sidecar[m]
  BY <1>1, <1>2, RecordTypes DEF StoreInv, StoreTypeOK
<1>7. /\ held' \in [Starters -> {"nothing", "tmp", "file", "unlinked"}]
      /\ \A q \in Starters : /\ op[q].rec.name # n => held'[q] = held[q]
                             /\ held[q] = "tmp" => held'[q] = "tmp"
  BY <1>1, <1>2, MovedFacts DEF StoreInv
<1>8. StoreTypeOK'
  BY <1>1, <1>3, <1>5, <1>6, <1>7 DEF StoreInv, StoreTypeOK
<1>9. Named'
  <2>1. \A m \in StoreNames : sidecar'[m].is = "full" => sidecar'[m].name = m
    BY <1>6 DEF StoreInv, Named
  <2> QED  BY <2>1, <1>1, <1>3, <1>4 DEF StoreInv, Named
<1>10. \A q \in Starters : /\ op'[q].at \in {"sideOpen", "sideFill", "sideRename"} => op'[q] = op[q]
                           /\ op[q].at = "sideFill" => op'[q] = op[q]
  BY <1>1, <1>3, <1>4
<1>11. \A q \in Starters, m \in StoreNames : Writing(q, m)' <=> Writing(q, m)
  BY <1>1, <1>3, <1>4 DEF Writing
<1>12. AloneInv'
  <2>1. SUFFICES ASSUME ~shared PROVE AloneInv'
    BY <1>1 DEF AloneInv
  <2>2. \A m \in StoreNames : sidecar'[m].is # "empty"
    BY <2>1, <1>6 DEF StoreInv, AloneInv
  <2>3. \A q, r \in Starters, m \in StoreNames : Writing(q, m)' /\ Writing(r, m)' => q = r
    BY <2>1, <1>11 DEF StoreInv, AloneInv
  <2>4. ASSUME NEW q \in Starters
        PROVE  /\ op'[q].at = "sideFill" => held'[q] = "tmp"
               /\ op'[q].at = "sideRename" => sideTmp'[op'[q].rec.name].is = "full"
    BY <2>1, <1>1, <1>7, <1>10 DEF StoreInv, AloneInv
  <2> QED  BY <2>2, <2>3, <2>4 DEF AloneInv
<1>13. FilledInv'
  <2>1. SUFFICES ASSUME ~broke, NEW m \in StoreNames
                 PROVE  /\ sideTmp[m].is = "empty" =>
                              \E q \in Starters : op'[q].at = "sideFill" /\ op'[q].rec.name = m /\ held'[q] = "tmp"
                        /\ sidecar'[m].is = "empty" =>
                              \E q \in Starters : op'[q].at = "sideFill" /\ op'[q].rec.name = m /\ held'[q] = "file"
    BY <1>1 DEF FilledInv
  <2>2. sideTmp[m].is = "empty" =>
           \E q \in Starters : op'[q].at = "sideFill" /\ op'[q].rec.name = m /\ held'[q] = "tmp"
    <3>1. SUFFICES ASSUME sideTmp[m].is = "empty"
                   PROVE  \E q \in Starters : op'[q].at = "sideFill" /\ op'[q].rec.name = m /\ held'[q] = "tmp"
      OBVIOUS
    <3>2. PICK q \in Starters : op[q].at = "sideFill" /\ op[q].rec.name = m /\ held[q] = "tmp"
      BY <2>1, <3>1 DEF StoreInv, FilledInv
    <3>3. op'[q] = op[q] /\ held'[q] = "tmp"
      BY <3>2, <1>7, <1>10
    <3> QED  BY <3>2, <3>3
  <2>3. ASSUME sidecar'[m].is = "empty"
        PROVE  \E q \in Starters : op'[q].at = "sideFill" /\ op'[q].rec.name = m /\ held'[q] = "file"
    <3>1. m # n /\ sidecar[m].is = "empty"
      BY <2>3, <1>6
    <3>2. PICK q \in Starters : op[q].at = "sideFill" /\ op[q].rec.name = m /\ held[q] = "file"
      BY <2>1, <3>1 DEF StoreInv, FilledInv
    <3>3. op'[q] = op[q] /\ held'[q] = "file"
      BY <3>1, <3>2, <1>7, <1>10
    <3> QED  BY <3>2, <3>3
  <2> QED  BY <2>2, <2>3
<1>14. CoverInv'
  <2>1. \A q \in Starters : \A c \in walk[q].found : c[1] \in StoreNames
    BY ConfigPairs DEF StoreInv, StoreTypeOK
  <2>2. \A q \in Starters : \A c \in walk'[q].found :
           c \in walk[q].found /\ c[1] # n /\ sidecar'[c[1]] = sidecar[c[1]]
    BY <2>1, <1>5, <1>6
  <2>3. \A q \in Starters : op'[q].kind = "migrate" => q # p
    BY <1>4
  <2>4. \A q \in Starters : q # p => \A c \in walk'[q].found : Reaches(q, c) => Reaches(q, c)'
    BY <2>2, <1>1, <1>3 DEF Reaches
  <2>5. \A q \in Starters : \A c \in walk'[q].found : Writing(q, c[1])' => Writing(q, c[1])
    BY <2>1, <2>2, <1>11
  <2> QED  BY <2>1, <2>2, <2>3, <2>4, <2>5, <1>1, <1>3, <1>5 DEF StoreInv, CoverInv
<1> QED  BY <1>8, <1>9, <1>12, <1>13, <1>14 DEF StoreInv
LEMMA WriteFailsStep ==
    ASSUME StoreInv, NEW p \in Starters, WriteFails(p)
    PROVE  StoreInv'
<1> DEFINE n == op[p].rec.name
           Walks == [found : SUBSET Configs, over : BOOLEAN]
<1>1. /\ op[p].at \in {"cfgRename", "sideOpen", "sideFill"}
      /\ op' = [op EXCEPT ![p] = AfterSidecar(p)]
      /\ held' = [held EXCEPT ![p] = "nothing"]
      /\ walk' = [walk EXCEPT ![p].found = {c \in @ : c[1] # n}]
      /\ broke' = TRUE
      /\ UNCHANGED <<cfgs, cfgTmp, sidecar, sideTmp, todo, shared>>
  BY DEF WriteFails, storeFiles
<1>2. n = op[p].rec.name
  OBVIOUS
<1> HIDE DEF n
<1>3. /\ op' \in [Starters -> Ops] /\ op'[p] = AfterSidecar(p)
      /\ \A q \in Starters : q # p => op'[q] = op[q]
  BY <1>1, AfterFacts, PutsFacts DEF StoreInv
<1>4. /\ op'[p].at \in {"idle", "next"}
      /\ op'[p].kind = "migrate" => op[p].kind = "migrate"
      /\ op'[p].at = "next" => op'[p].kind = "migrate"
  BY <1>3, AfterFacts, OpTypes
<1>5. /\ held' \in [Starters -> {"nothing", "tmp", "file", "unlinked"}]
      /\ \A q \in Starters : q # p => held'[q] = held[q]
  BY <1>1 DEF StoreInv, StoreTypeOK
<1>6. /\ walk' \in [Starters -> Walks] /\ walk'[p].found = {c \in walk[p].found : c[1] # n}
      /\ walk'[p].over = walk[p].over
      /\ \A q \in Starters : q # p => walk'[q] = walk[q]
  <2>1. walk \in [Starters -> Walks]
    BY DEF StoreInv, StoreTypeOK
  <2>2. \A y \in Walks : /\ [y EXCEPT !.found = {c \in @ : c[1] # n}] \in Walks
                         /\ [y EXCEPT !.found = {c \in @ : c[1] # n}].found = {c \in y.found : c[1] # n}
                         /\ [y EXCEPT !.found = {c \in @ : c[1] # n}].over = y.over
    OBVIOUS
  <2>3. walk' = [walk EXCEPT ![p] = [walk[p] EXCEPT !.found = {c \in @ : c[1] # n}]]
    BY <1>1
  <2> HIDE DEF Walks
  <2> QED  BY <2>1, <2>2, <2>3
<1>7. StoreTypeOK'
  BY <1>1, <1>3, <1>5, <1>6 DEF StoreInv, StoreTypeOK
<1>8. Named'
  BY <1>1, <1>3, <1>4 DEF StoreInv, Named
<1>9. \A q \in Starters : op'[q].at \in {"sideOpen", "sideFill", "sideRename"} => q # p /\ op'[q] = op[q]
  BY <1>3, <1>4
<1>10. \A q \in Starters : \A m : Writing(q, m)' => q # p /\ Writing(q, m)
  BY <1>9 DEF Writing
<1>11. AloneInv'
  <2>1. SUFFICES ASSUME ~shared PROVE AloneInv'
    BY <1>1 DEF AloneInv
  <2>2. \A q, r \in Starters, m \in StoreNames : Writing(q, m)' /\ Writing(r, m)' => q = r
    BY <2>1, <1>10 DEF StoreInv, AloneInv
  <2>3. ASSUME NEW q \in Starters
        PROVE  /\ op'[q].at = "sideFill" => held'[q] = "tmp"
               /\ op'[q].at = "sideRename" => sideTmp'[op'[q].rec.name].is = "full"
    BY <2>1, <1>1, <1>5, <1>9 DEF StoreInv, AloneInv
  <2> QED  BY <2>1, <2>2, <2>3, <1>1 DEF StoreInv, AloneInv
<1>12. FilledInv'
  BY <1>1 DEF FilledInv
<1>13. CoverInv'
  <2>1. \A q \in Starters : walk'[q].found \subseteq walk[q].found /\ walk'[q].over = walk[q].over
    BY <1>6
  <2>2. \A q \in Starters : op'[q].kind = "migrate" => op[q].kind = "migrate"
    BY <1>3, <1>4
  <2>3. \A c \in walk'[p].found : Reaches(p, c) => Reaches(p, c)'
    BY <1>1, <1>2, <1>6 DEF Reaches
  <2>4. \A q \in Starters : q # p => \A c \in walk'[q].found : Reaches(q, c) => Reaches(q, c)'
    BY <1>1, <1>3 DEF Reaches
  <2> QED  BY <2>1, <2>2, <2>3, <2>4, <1>1, <1>10 DEF StoreInv, CoverInv
<1> QED  BY <1>7, <1>8, <1>11, <1>12, <1>13 DEF StoreInv

LEMMA ProcessDiesStep ==
    ASSUME StoreInv, NEW p \in Starters, ProcessDies(p)
    PROVE  StoreInv'
<1>1. /\ op' = [op EXCEPT ![p] = NoOp] /\ held' = [held EXCEPT ![p] = "nothing"]
      /\ todo' = [todo EXCEPT ![p] = {}] /\ broke' = TRUE
      /\ UNCHANGED <<cfgs, cfgTmp, sidecar, sideTmp, walk, shared>>
  BY DEF ProcessDies, storeFiles
<1>2. /\ op' \in [Starters -> Ops] /\ op'[p] = NoOp
      /\ \A q \in Starters : q # p => op'[q] = op[q]
  BY <1>1, OpTypes, PutsFacts DEF StoreInv
<1>3. op'[p].at = "idle" /\ op'[p].kind = "idle"
  BY <1>2, OpTypes
<1>4. /\ held' \in [Starters -> {"nothing", "tmp", "file", "unlinked"}]
      /\ todo' \in [Starters -> SUBSET Configs]
      /\ \A q \in Starters : q # p => held'[q] = held[q] /\ todo'[q] = todo[q]
  BY <1>1 DEF StoreInv, StoreTypeOK
<1>5. StoreTypeOK'
  BY <1>1, <1>2, <1>4 DEF StoreInv, StoreTypeOK
<1>6. Named'
  BY <1>1, <1>2, <1>3 DEF StoreInv, Named
<1>7. \A q \in Starters : op'[q].at # "idle" => q # p /\ op'[q] = op[q]
  BY <1>2, <1>3
<1>8. \A q \in Starters : \A m : Writing(q, m)' => q # p /\ Writing(q, m)
  BY <1>7 DEF Writing
<1>9. AloneInv'
  <2>1. SUFFICES ASSUME ~shared PROVE AloneInv'
    BY <1>1 DEF AloneInv
  <2>2. \A q, r \in Starters, m \in StoreNames : Writing(q, m)' /\ Writing(r, m)' => q = r
    BY <2>1, <1>8 DEF StoreInv, AloneInv
  <2>3. ASSUME NEW q \in Starters
        PROVE  /\ op'[q].at = "sideFill" => held'[q] = "tmp"
               /\ op'[q].at = "sideRename" => sideTmp'[op'[q].rec.name].is = "full"
    BY <2>1, <1>1, <1>4, <1>7 DEF StoreInv, AloneInv
  <2> QED  BY <2>1, <2>2, <2>3, <1>1 DEF StoreInv, AloneInv
<1>10. FilledInv'
  BY <1>1 DEF FilledInv
<1>11. CoverInv'
  <2>1. \A q \in Starters : op'[q].kind = "migrate" => q # p /\ op[q].kind = "migrate"
    BY <1>2, <1>3
  <2>2. \A q \in Starters : q # p => \A c \in walk[q].found : Reaches(q, c) => Reaches(q, c)'
    BY <1>1, <1>2, <1>4 DEF Reaches
  <2> QED  BY <2>1, <2>2, <1>1, <1>8 DEF StoreInv, CoverInv
<1> QED  BY <1>5, <1>6, <1>9, <1>10, <1>11 DEF StoreInv

\* The App changes config files only, and takes them off the histories.
LEMMA AppStep ==
    ASSUME StoreInv,
           \/ \E c \in Configs : AppImports(c)
           \/ \E c \in Configs : AppDeletes(c)
           \/ \E c \in Configs, n \in StoreNames : AppRenames(c, n)
    PROVE  StoreInv'
<1>1. UNCHANGED <<cfgTmp, sidecar, sideTmp, op, held, todo, shared, broke>>
  BY DEF AppImports, AppDeletes, AppRenames, storeProcs
<1>2. /\ cfgs' \subseteq Configs /\ walk' \in [Starters -> [found : SUBSET Configs, over : BOOLEAN]]
      /\ \A q \in Starters : /\ walk'[q].found \subseteq walk[q].found \cap cfgs'
                             /\ ~walk'[q].over
  <2> DEFINE e == Ended(walk)
             Goal == /\ cfgs' \subseteq Configs /\ walk' \in [Starters -> [found : SUBSET Configs, over : BOOLEAN]]
                     /\ \A q \in Starters : /\ walk'[q].found \subseteq walk[q].found \cap cfgs'
                                            /\ ~walk'[q].over
  <2>1. /\ e \in [Starters -> [found : SUBSET Configs, over : BOOLEAN]]
        /\ \A q \in Starters : e[q].found = walk[q].found /\ ~e[q].over
        /\ \A q \in Starters : walk[q].found \subseteq cfgs
        /\ cfgs \subseteq Configs
    BY WalkFacts DEF StoreInv, StoreTypeOK, CoverInv
  <2>2. \A c : /\ WithoutConfig(e, c) \in [Starters -> [found : SUBSET Configs, over : BOOLEAN]]
               /\ \A q \in Starters : /\ WithoutConfig(e, c)[q].found = e[q].found \ {c}
                                      /\ WithoutConfig(e, c)[q].over = e[q].over
    BY <2>1, WalkFacts DEF StoreInv
  <2> HIDE DEF e
  <2>3. ASSUME NEW c \in Configs, cfgs' = cfgs \cup {c}, walk' = e
        PROVE  Goal
    BY <2>1, <2>3
  <2>4. ASSUME NEW c \in Configs, cfgs' = cfgs \ {c}, walk' = WithoutConfig(e, c)
        PROVE  Goal
    BY <2>1, <2>2, <2>4
  <2>5. ASSUME NEW c \in Configs, NEW n \in StoreNames,
               cfgs' = (cfgs \ {c}) \cup {<<n, c[2]>>}, walk' = WithoutConfig(e, c)
        PROVE  Goal
    <3>1. <<n, c[2]>> \in Configs
      BY ConfigPairs
    <3> QED  BY <2>1, <2>2, <2>5, <3>1
  <2>6. ASSUME NEW c \in Configs, AppImports(c) PROVE Goal
    BY <2>3, <2>6 DEF AppImports, e
  <2>7. ASSUME NEW c \in Configs, AppDeletes(c) PROVE Goal
    BY <2>4, <2>7 DEF AppDeletes, e
  <2>8. ASSUME NEW c \in Configs, NEW n \in StoreNames, AppRenames(c, n) PROVE Goal
    BY <2>5, <2>8 DEF AppRenames, e
  <2> QED  BY <2>6, <2>7, <2>8
<1>3. StoreTypeOK' /\ Named'
  BY <1>1, <1>2 DEF StoreInv, StoreTypeOK, Named
<1>4. AloneInv' /\ FilledInv'
  BY <1>1 DEF StoreInv, AloneInv, FilledInv, Writing
<1>5. CoverInv'
  BY <1>1, <1>2 DEF StoreInv, CoverInv, Reaches, Writing
<1> QED  BY <1>3, <1>4, <1>5 DEF StoreInv

-----------------------------------------------------------------------------
LEMMA StoreInvInit == StoreInit => StoreInv
<1> SUFFICES ASSUME StoreInit PROVE StoreInv
  OBVIOUS
<1>1. /\ op = [p \in Starters |-> NoOp] /\ walk = [p \in Starters |-> [found |-> {}, over |-> FALSE]]
      /\ \A p \in Starters : op[p].at = "idle" /\ op[p].kind = "idle" /\ walk[p].found = {} /\ ~walk[p].over
  BY OpTypes DEF StoreInit
<1>2. \A n \in StoreNames : sidecar[n].is = "none" /\ sideTmp[n].is = "none"
  BY RecordTypes DEF StoreInit
<1>3. StoreTypeOK
  <2>1. cfgs \subseteq Configs /\ cfgTmp \subseteq Configs
    BY StoreAssumption DEF StoreInit
  <2>2. walk \in [Starters -> [found : SUBSET Configs, over : BOOLEAN]]
    BY DEF StoreInit
  <2> QED  BY <2>1, <2>2, OpTypes, RecordTypes DEF StoreInit, StoreTypeOK
<1>4. Named /\ AloneInv /\ FilledInv /\ CoverInv
  BY <1>1, <1>2 DEF Named, AloneInv, FilledInv, CoverInv, Writing
<1> QED  BY <1>3, <1>4 DEF StoreInv

LEMMA StoreInvStep == StoreInv /\ [StoreNext]_storeVars => StoreInv'
<1> SUFFICES ASSUME StoreInv, [StoreNext]_storeVars PROVE StoreInv'
  OBVIOUS
<1>1. ASSUME NEW p \in Starters, Migrate(p) \/ MigrateNext(p) \/ MigrateDone(p)
      PROVE  StoreInv'
  BY <1>1, MigrateStep, MigrateNextStep, MigrateDoneStep
<1>2. ASSUME NEW p \in Starters,
             ConfigRename(p) \/ SidecarOpen(p) \/ SidecarFill(p) \/ SidecarRename(p)
      PROVE  StoreInv'
  BY <1>2, ConfigRenameStep, SidecarOpenStep, SidecarFillStep, SidecarRenameStep
<1>3. ASSUME NEW p \in Starters,
             RemoveConfig(p) \/ RemoveSidecar(p) \/ WriteFails(p) \/ ProcessDies(p)
      PROVE  StoreInv'
  BY <1>3, RemoveConfigStep, RemoveSidecarStep, WriteFailsStep, ProcessDiesStep
<1>4. ASSUME NEW p \in Starters, NEW i \in StoreIds, NEW n \in StoreNames, NEW x \in Protos,
             InsertProfile(p, n, i, x)
      PROVE  StoreInv'
  BY <1>4, InsertStep
<1>5. ASSUME NEW p \in Starters, NEW i \in AllIds,
             FindSidecar(p, i, "touch", "sideOpen") \/ FindSidecar(p, i, "delete", "rmCfg")
      PROVE  StoreInv'
  BY <1>5, FindStep
<1>6. ASSUME NEW c \in Configs,
             AppImports(c) \/ AppDeletes(c) \/ \E n \in StoreNames : AppRenames(c, n)
      PROVE  StoreInv'
  BY <1>6, AppStep
<1>7. CASE UNCHANGED storeVars
  BY <1>7 DEF storeVars, storeFiles, storeProcs, StoreInv, StoreTypeOK, Named, AloneInv, FilledInv,
              CoverInv, Reaches, Writing
<1> QED  BY <1>1, <1>2, <1>3, <1>4, <1>5, <1>6, <1>7 DEF StoreNext

LEMMA StoreInvImplies == StoreInv => StoreRecovers
<1> SUFFICES ASSUME StoreInv PROVE StoreRecovers
  OBVIOUS
<1>1. SidecarsWhole
  <2>1. SUFFICES ASSUME ~(shared /\ broke), \A p \in Starters : op[p] = NoOp,
                        NEW n \in StoreNames, sidecar[n].is # "none"
                 PROVE  sidecar[n].is = "full" /\ sidecar[n].name = n
    BY DEF SidecarsWhole
  <2>2. sidecar[n].is # "empty"
    <3>1. \A p \in Starters : op[p].at # "sideFill"
      BY <2>1, OpTypes
    <3>2. CASE ~shared
      BY <3>2 DEF StoreInv, AloneInv
    <3>3. CASE ~broke
      BY <3>1, <3>3 DEF StoreInv, FilledInv
    <3> QED  BY <2>1, <3>2, <3>3 DEF StoreInv, StoreTypeOK
  <2>3. sidecar[n].is \in {"none", "empty", "full"}
    BY DEF StoreInv, StoreTypeOK, SidecarFiles
  <2> QED  BY <2>1, <2>2, <2>3 DEF StoreInv, Named
<1>2. MigrationCovers
  BY DEF StoreInv, CoverInv, MigrationCovers
<1> QED  BY <1>1, <1>2 DEF StoreRecovers

\* The variables of the store always have their types.
THEOREM StoreTypeCorrect == StoreSpec => []StoreTypeOK
<1>1. StoreInv => StoreTypeOK
  BY DEF StoreInv
<1> QED  BY <1>1, StoreInvInit, StoreInvStep, PTL DEF StoreSpec

\* Any number of vortix processes over any number of files.
THEOREM StoreRecoversHolds == StoreSpec => []StoreRecovers
BY StoreInvInit, StoreInvStep, StoreInvImplies, PTL DEF StoreSpec

-----------------------------------------------------------------------------
(* Catalogue: definitions                                                    *)

CatEntry == [name : Names, ext : ExtKinds, ov : BOOLEAN, id : Nat, used : Nat]
CatKeys  == Names \X ExtKinds

-----------------------------------------------------------------------------
(* Operators of the catalogue                                                 *)

LEMMA LeastNumber ==
    ASSUME NEW T, T \subseteq Nat, T # {}
    PROVE  \E x \in T : \A y \in T : x <= y
<1> DEFINE U == {0 .. k : k \in T}
           R == StrictSubsetOrdering(Nat)
<1>1. \A k \in T : 0 .. k \subseteq Nat /\ IsFiniteSet(0 .. k)
  BY FS_Interval
<1>2. U \subseteq FiniteSubsetsOf(Nat) /\ U # {}
  BY <1>1 DEF FiniteSubsetsOf
<1>3. IsWellFoundedOn(R, FiniteSubsetsOf(Nat))
  BY FS_StrictSubsetOrderingWellFounded
<1> HIDE DEF R
<1>4. PICK u \in U : \A v \in U : ~(<<v, u>> \in R)
  BY <1>2, <1>3, WFMin
<1>5. PICK x \in T : u = 0 .. x
  BY <1>4
<1>6. ASSUME NEW y \in T PROVE x <= y
  <2>1. SUFFICES ASSUME ~(x <= y) PROVE FALSE
    OBVIOUS
  <2>2. x \in Nat /\ y \in Nat /\ y < x
    BY <2>1
  <2>3. 0 .. y \subseteq 0 .. x /\ 0 .. y # 0 .. x
    BY <2>2
  <2>4. <<0 .. y, 0 .. x>> \in R
    BY <1>1, <2>3 DEF R, StrictSubsetOrdering
  <2> QED  BY <1>4, <1>5, <2>4
<1> QED  BY <1>6

LEMMA EntryFields ==
    /\ \A e \in CatEntry : /\ e.name \in Names /\ e.ext \in ExtKinds /\ e.ov \in BOOLEAN
                           /\ e.id \in Nat /\ e.used \in Nat
                           /\ File(e) \in FileRecords /\ Key(e) \in CatKeys
                           /\ File(e).ov = e.ov /\ File(e).name = e.name /\ Key(File(e)) = Key(e)
    /\ \A f \in FileRecords : /\ f.name \in Names /\ f.ext \in ExtKinds /\ f.ov \in BOOLEAN /\ f.id \in Nat
                              /\ Key(f) = <<f.name, f.ext>> /\ Key(f) \in CatKeys
    /\ \A f \in FileRecords, u \in Nat :
          /\ Listing(f, u) \in CatEntry /\ File(Listing(f, u)) = f
          /\ Listing(f, u).used = u /\ Listing(f, u).name = f.name
<1>1. ASSUME NEW e \in CatEntry
      PROVE  /\ e.name \in Names /\ e.ext \in ExtKinds /\ e.ov \in BOOLEAN
             /\ e.id \in Nat /\ e.used \in Nat
             /\ File(e) \in FileRecords /\ Key(e) \in CatKeys
             /\ File(e).ov = e.ov /\ File(e).name = e.name /\ Key(File(e)) = Key(e)
  BY DEF CatEntry, File, FileRecords, Key, CatKeys
<1>2. ASSUME NEW f \in FileRecords
      PROVE  /\ f.name \in Names /\ f.ext \in ExtKinds /\ f.ov \in BOOLEAN /\ f.id \in Nat
             /\ Key(f) = <<f.name, f.ext>> /\ Key(f) \in CatKeys
  BY DEF FileRecords, Key, CatKeys
<1>3. ASSUME NEW f \in FileRecords, NEW u \in Nat
      PROVE  /\ Listing(f, u) \in CatEntry /\ File(Listing(f, u)) = f
             /\ Listing(f, u).used = u /\ Listing(f, u).name = f.name
  BY DEF FileRecords, Listing, CatEntry, File
<1> QED  BY <1>1, <1>2, <1>3

LEMMA NameFacts ==
    /\ Names \subseteq Nat
    /\ \A b \in Bases : 10 * b \in Names
    /\ \A b \in Bases, k \in 0 .. MaxFiles : 10 * b + k \in Names
    /\ 0 \in 0 .. MaxFiles
<1>1. MaxFiles \in Nat /\ Bases \subseteq Nat
  BY CatAssumption
<1>2. \A b \in Bases, k \in 0 .. MaxFiles : 10 * b + k \in Names
  BY DEF Names
<1>3. 0 \in 0 .. MaxFiles
  BY <1>1
<1>4. \A b \in Bases : 10 * b \in Names
  <2> TAKE b \in Bases
  <2>1. 10 * b + 0 \in Names /\ 10 * b + 0 = 10 * b
    BY <1>1, <1>2, <1>3
  <2> QED  BY <2>1
<1>5. Names \subseteq Nat
  BY <1>1 DEF Names
<1> QED  BY <1>2, <1>3, <1>4, <1>5

LEMMA CatListFacts ==
    ASSUME NEW S, NEW s \in Seq(S)
    PROVE  /\ Len(s) \in Nat /\ DOMAIN s = 1 .. Len(s) /\ \A i \in DOMAIN s : s[i] \in S
           /\ IsFiniteSet(DOMAIN s) /\ Cardinality(DOMAIN s) = Len(s)
           /\ \A t : (DOMAIN t = DOMAIN s /\ t = [i \in DOMAIN s |-> t[i]] /\ \A i \in DOMAIN s : t[i] \in S)
                 => t \in Seq(S) /\ Len(t) = Len(s)
           /\ \A d \in S : /\ Append(s, d) \in Seq(S) /\ DOMAIN Append(s, d) = 1 .. Len(s) + 1
                           /\ \A i \in DOMAIN s : Append(s, d)[i] = s[i]
                           /\ Append(s, d)[Len(s) + 1] = d
           /\ \A k \in DOMAIN s, d \in S :
                  LET t == [s EXCEPT ![k] = d]
                  IN  t \in Seq(S) /\ DOMAIN t = DOMAIN s /\ \A i \in DOMAIN s : t[i] = IF i = k THEN d ELSE s[i]
<1>1. Len(s) \in Nat /\ DOMAIN s = 1 .. Len(s) /\ \A i \in DOMAIN s : s[i] \in S
  OBVIOUS
<1>2. IsFiniteSet(DOMAIN s) /\ Cardinality(DOMAIN s) = Len(s)
  <2>1. 1 \in Int /\ Len(s) \in Int
    BY <1>1
  <2>2. IsFiniteSet(1 .. Len(s)) /\ Cardinality(1 .. Len(s)) = IF 1 > Len(s) THEN 0 ELSE Len(s) - 1 + 1
    BY <2>1, FS_Interval
  <2> QED  BY <1>1, <2>2
<1>3. ASSUME NEW t, DOMAIN t = DOMAIN s, t = [i \in DOMAIN s |-> t[i]], \A i \in DOMAIN s : t[i] \in S
      PROVE  t \in Seq(S) /\ Len(t) = Len(s)
  BY <1>1, <1>3
<1>4. ASSUME NEW d \in S
      PROVE  /\ Append(s, d) \in Seq(S) /\ DOMAIN Append(s, d) = 1 .. Len(s) + 1
             /\ \A i \in DOMAIN s : Append(s, d)[i] = s[i]
             /\ Append(s, d)[Len(s) + 1] = d
  OBVIOUS
<1>5. ASSUME NEW k \in DOMAIN s, NEW d \in S
      PROVE  LET t == [s EXCEPT ![k] = d]
             IN  t \in Seq(S) /\ DOMAIN t = DOMAIN s /\ \A i \in DOMAIN s : t[i] = IF i = k THEN d ELSE s[i]
  OBVIOUS
<1> QED  BY <1>1, <1>2, <1>3, <1>4, <1>5

\* position finds an entry of that name, if there is one.
LEMMA PositionSpec ==
    ASSUME NEW l \in Seq(CatEntry), NEW n
    PROVE  /\ Position(l, n) \in Nat
           /\ Position(l, n) # 0 => Position(l, n) \in DOMAIN l /\ l[Position(l, n)].name = n
           /\ Position(l, n) = 0 => \A i \in DOMAIN l : l[i].name # n
<1>1. DOMAIN l = 1 .. Len(l) /\ Len(l) \in Nat
  BY CatListFacts
<1>2. CASE ~\E i \in DOMAIN l : l[i].name = n
  BY <1>2 DEF Position
<1>3. CASE \E i \in DOMAIN l : l[i].name = n
  <2> DEFINE T == {i \in DOMAIN l : l[i].name = n}
  <2>1. T \subseteq Nat /\ T # {}
    BY <1>1, <1>3
  <2>2. PICK x \in T : \A y \in T : x <= y
    BY <2>1, LeastNumber
  <2>3. x \in DOMAIN l /\ l[x].name = n
    BY <2>2
  <2>4. \A j \in 1 .. x - 1 : l[j].name # n
    <3> SUFFICES ASSUME NEW j \in 1 .. x - 1, l[j].name = n PROVE FALSE
      OBVIOUS
    <3>1. j \in DOMAIN l /\ ~(x <= j)
      BY <1>1, <2>3
    <3> QED  BY <2>2, <3>1
  <2> HIDE DEF T
  <2>5. Position(l, n) = CHOOSE i \in DOMAIN l : l[i].name = n /\ \A j \in 1 .. i - 1 : l[j].name # n
    BY <1>3 DEF Position
  <2>6. Position(l, n) \in DOMAIN l /\ l[Position(l, n)].name = n
    BY <2>3, <2>4, <2>5
  <2>7. Position(l, n) # 0 /\ Position(l, n) \in Nat
    BY <1>1, <2>6
  <2> QED  BY <2>6, <2>7
<1> QED  BY <1>2, <1>3

\* Every order is strict, and what it leaves undecided it leaves so throughout.
LEMMA OrderFacts ==
    ASSUME NEW o \in 1 .. 4
    PROVE  /\ \A a \in CatEntry : ~Precedes(o, a, a)
           /\ \A a, b \in CatEntry : ~(Precedes(o, a, b) /\ Precedes(o, b, a))
           /\ \A a, b, c \in CatEntry : Precedes(o, a, b) /\ ~Precedes(o, c, b) => Precedes(o, a, c)
<1>1. \A a \in CatEntry : a.name \in Nat /\ a.used \in Nat /\ a.ov \in BOOLEAN
  BY EntryFields, NameFacts
<1>2. Orders[1] = "NameAsc" /\ Orders[2] = "NameDesc" /\ Orders[3] = "LastUsed" /\ Orders[4] = "Protocol"
  BY DEF Orders
<1>3. CASE o = 1
  <2>1. \A a, b : Precedes(o, a, b) <=> a.name < b.name
    BY <1>2, <1>3 DEF Precedes
  <2> QED  BY <1>1, <2>1
<1>4. CASE o = 2
  <2>1. \A a, b : Precedes(o, a, b) <=> a.name > b.name
    BY <1>2, <1>4 DEF Precedes
  <2> QED  BY <1>1, <2>1
<1>5. CASE o = 3
  <2>1. \A a, b : Precedes(o, a, b) <=> a.used > b.used
    BY <1>2, <1>5 DEF Precedes
  <2> QED  BY <1>1, <2>1
<1>6. CASE o = 4
  <2>1. \A a, b : Precedes(o, a, b) <=> (~a.ov /\ b.ov) \/ (a.ov = b.ov /\ a.name < b.name)
    BY <1>2, <1>6 DEF Precedes
  <2>2. ASSUME NEW a \in CatEntry, NEW b \in CatEntry, NEW c \in CatEntry,
               Precedes(o, a, b), ~Precedes(o, c, b)
        PROVE  Precedes(o, a, c)
    <3>1. a.name < b.name /\ ~(c.name < b.name) => a.name < c.name
      BY <1>1
    <3>2. a.ov \in BOOLEAN /\ b.ov \in BOOLEAN /\ c.ov \in BOOLEAN
      BY <1>1
    <3>3. (~a.ov /\ b.ov) \/ (a.ov = b.ov /\ a.name < b.name)
      BY <2>1, <2>2
    <3>4. ~(~c.ov /\ b.ov) /\ ~(c.ov = b.ov /\ c.name < b.name)
      BY <2>1, <2>2
    <3>5. (~a.ov /\ c.ov) \/ (a.ov = c.ov /\ a.name < c.name)
      BY <3>1, <3>2, <3>3, <3>4
    <3> QED  BY <2>1, <3>5
  <2>3. \A a \in CatEntry : ~Precedes(o, a, a)
    BY <1>1, <2>1
  <2>4. ASSUME NEW a \in CatEntry, NEW b \in CatEntry, Precedes(o, a, b), Precedes(o, b, a) PROVE FALSE
    <3>1. ~(a.name < b.name /\ b.name < a.name)
      BY <1>1
    <3>2. (~a.ov /\ b.ov) \/ (a.ov = b.ov /\ a.name < b.name)
      BY <2>1, <2>4
    <3>3. (~b.ov /\ a.ov) \/ (b.ov = a.ov /\ b.name < a.name)
      BY <2>1, <2>4
    <3> QED  BY <1>1, <3>1, <3>2, <3>3
  <2> QED  BY <2>2, <2>3, <2>4
<1> QED  BY <1>3, <1>4, <1>5, <1>6

\* The same entries in another order.
Shuffled(l, m) ==
    \E f \in [DOMAIN l -> DOMAIN l] :
        /\ \A i, j \in DOMAIN l : f[i] = f[j] => i = j
        /\ \A k \in DOMAIN l : \E i \in DOMAIN l : f[i] = k
        /\ m = [i \in DOMAIN l |-> l[f[i]]]

\* sort_profiles loses no entry and doubles none: the place of an entry is the number
\* of those before it, and no two have the same.
LEMMA SortShuffles ==
    ASSUME NEW l \in Seq(CatEntry), NEW o \in 1 .. 4
    PROVE  Shuffled(l, SortedBy(l, o)) /\ SortedBy(l, o) \in Seq(CatEntry) /\ Len(SortedBy(l, o)) = Len(l)
<1> DEFINE D == DOMAIN l
           Before(j, i) == Precedes(o, l[j], l[i]) \/ (~Precedes(o, l[i], l[j]) /\ j < i)
           Ahead(i) == {j \in D : Before(j, i)}
           g == [i \in D |-> Place(l, o, i)]
<1>1. /\ Len(l) \in Nat /\ D = 1 .. Len(l) /\ \A i \in D : l[i] \in CatEntry
      /\ IsFiniteSet(D) /\ Cardinality(D) = Len(l)
  BY CatListFacts
<1>2. \A i \in D : i \in Nat
  BY <1>1
<1>3. \A i \in D : Place(l, o, i) = Cardinality(Ahead(i)) + 1
  BY DEF Place
<1>4. \A i \in D : /\ IsFiniteSet(Ahead(i)) /\ Cardinality(Ahead(i)) \in Nat
                   /\ Cardinality(Ahead(i)) < Len(l)
  <2> TAKE i \in D
  <2>1. i \notin Ahead(i)
    BY <1>1, <1>2, OrderFacts
  <2>2. Ahead(i) \subseteq D \ {i}
    BY <2>1
  <2> HIDE DEF Ahead
  <2>3. IsFiniteSet(D \ {i}) /\ Cardinality(D \ {i}) = Len(l) - 1
    BY <1>1, FS_RemoveElement
  <2>4. IsFiniteSet(Ahead(i)) /\ Cardinality(Ahead(i)) <= Cardinality(D \ {i})
    BY <2>2, <2>3, FS_Subset
  <2>5. Cardinality(Ahead(i)) \in Nat
    BY <2>4, FS_CardinalityType
  <2> QED  BY <1>1, <2>3, <2>4, <2>5
<1>5. ASSUME NEW i \in D, NEW j \in D, Before(i, j)
      PROVE  Cardinality(Ahead(i)) < Cardinality(Ahead(j))
  <2>1. l[i] \in CatEntry /\ l[j] \in CatEntry /\ i \in Nat /\ j \in Nat
    BY <1>1, <1>2
  <2>2. ASSUME NEW k \in D, Before(k, i) PROVE Before(k, j)
    <3>1. l[k] \in CatEntry /\ k \in Nat
      BY <1>1, <1>2
    <3>2. CASE Precedes(o, l[k], l[i])
      <4>1. ~Precedes(o, l[j], l[i])
        BY <1>5, <2>1, OrderFacts
      <4> QED  BY <2>1, <3>1, <3>2, <4>1, OrderFacts
    <3>3. CASE ~Precedes(o, l[i], l[k]) /\ k < i
      <4>1. CASE Precedes(o, l[i], l[j])
        <5>1. Precedes(o, l[k], l[j])
          <6>1. Precedes(o, l[i], l[j]) /\ ~Precedes(o, l[k], l[j]) => Precedes(o, l[i], l[k])
            BY <2>1, <3>1, OrderFacts
          <6> QED  BY <3>3, <4>1, <6>1
        <5> QED  BY <5>1
      <4>2. CASE ~Precedes(o, l[j], l[i]) /\ i < j
        <5>1. k < j
          BY <2>1, <3>1, <3>3, <4>2
        <5>2. ~Precedes(o, l[j], l[k])
          <6>1. Precedes(o, l[j], l[k]) /\ ~Precedes(o, l[i], l[k]) => Precedes(o, l[j], l[i])
            BY <2>1, <3>1, OrderFacts
          <6> QED  BY <3>3, <4>2, <6>1
        <5> QED  BY <5>1, <5>2
      <4> QED  BY <1>5, <4>1, <4>2
    <3> QED  BY <2>2, <3>2, <3>3
  <2>3. i \in Ahead(j) /\ i \notin Ahead(i)
    BY <1>5, <2>1, OrderFacts
  <2>4. Ahead(i) \subseteq Ahead(j)
    BY <2>2
  <2>5. /\ IsFiniteSet(Ahead(j)) /\ Cardinality(Ahead(j)) \in Nat
        /\ IsFiniteSet(Ahead(i)) /\ Cardinality(Ahead(i)) \in Nat
    BY <1>4
  <2> HIDE DEF Ahead
  <2>6. Cardinality(Ahead(i)) <= Cardinality(Ahead(j)) /\ Cardinality(Ahead(j)) # Cardinality(Ahead(i))
    BY <2>3, <2>4, <2>5, FS_Subset
  <2> QED  BY <2>5, <2>6
<1>6. ASSUME NEW i \in D, NEW j \in D, i # j PROVE Place(l, o, i) # Place(l, o, j)
  <2>1. Before(i, j) \/ Before(j, i)
    <3>1. l[i] \in CatEntry /\ l[j] \in CatEntry /\ i \in Nat /\ j \in Nat
      BY <1>1, <1>2
    <3>2. i < j \/ j < i
      BY <1>6, <3>1
    <3> QED  BY <3>1, <3>2, OrderFacts
  <2> HIDE DEF Before, Ahead
  <2>2. Cardinality(Ahead(i)) # Cardinality(Ahead(j))
    BY <1>4, <1>5, <2>1
  <2> QED  BY <1>3, <1>4, <2>2
<1> HIDE DEF Before, Ahead
<1>7. \A i \in D : Place(l, o, i) \in D
  BY <1>1, <1>3, <1>4
<1>8. g \in Injection(D, D)
  <2>1. g \in [D -> D]
    BY <1>7
  <2> QED  BY <1>6, <2>1 DEF Injection, IsInjective
<1>9. g \in Surjection(D, D)
  BY <1>1, <1>8, FS_Injection
<1>10. \A n \in D : \E i \in D : Place(l, o, i) = n
  <2>1. \A n \in D : \E i \in D : g[i] = n
    BY <1>9 DEF Surjection
  <2> QED  BY <2>1
<1> DEFINE f == [n \in D |-> CHOOSE i \in D : Place(l, o, i) = n]
<1>11. \A n \in D : f[n] \in D /\ Place(l, o, f[n]) = n
  BY <1>10
<1>12. SortedBy(l, o) = [n \in D |-> l[f[n]]]
  BY DEF SortedBy
<1>13. f \in [D -> D] /\ (\A i, j \in D : f[i] = f[j] => i = j) /\ \A k \in D : \E i \in D : f[i] = k
  <2>1. f \in [D -> D]
    BY <1>11
  <2> HIDE DEF f
  <2>2. \A i, j \in D : f[i] = f[j] => i = j
    BY <1>11
  <2>3. \A k \in D : f[Place(l, o, k)] = k
    BY <1>6, <1>7, <1>11
  <2> QED  BY <1>7, <2>1, <2>2, <2>3
<1> HIDE DEF f, g
<1>14. Shuffled(l, SortedBy(l, o))
  BY <1>12, <1>13 DEF Shuffled
<1>15. SortedBy(l, o) \in Seq(CatEntry) /\ Len(SortedBy(l, o)) = Len(l)
  <2>1. DOMAIN SortedBy(l, o) = D /\ \A n \in D : SortedBy(l, o)[n] = l[f[n]]
    BY <1>12
  <2>2. SortedBy(l, o) = [n \in D |-> SortedBy(l, o)[n]]
    BY <1>12, <2>1
  <2>3. \A n \in D : SortedBy(l, o)[n] \in CatEntry
    BY <1>1, <1>13, <2>1
  <2> QED  BY <2>1, <2>2, <2>3, CatListFacts
<1> QED  BY <1>14, <1>15

-----------------------------------------------------------------------------
(* The inductive invariant                                                    *)

CatDialogs == [kind : DialogKinds, idx : Nat, name : Names \cup {0}]
CatEntries == [attempt : 0 .. CatRetries \cup {1}, idx : Nat, auto : BOOLEAN]

\* The data of the list and of the files.
FileTypes ==
    /\ list \in Seq(CatEntry) /\ order \in 1 .. 4
    /\ disk \subseteq FileRecords /\ meta \in [CatKeys -> Nat] /\ auth \subseteq Names
    /\ born \in Nat /\ uses \in Nat /\ late \in BOOLEAN

\* The data of the connections.
ConnTypes ==
    /\ sel \in Nat /\ queue \in Nat
    /\ tunnel \in [Names -> TunnelStates]
    /\ retry \in [Names -> CatEntries]

\* A dialog about a position of l holds the name that is there, and one that asks
\* for credentials is about an OpenVPN profile.
About(l, d) ==
    d.kind \in {"delete", "rename", "auth", "authConnect"} =>
        /\ d.idx \in DOMAIN l /\ l[d.idx].name = d.name
        /\ d.kind \in {"auth", "authConnect"} => l[d.idx].ov

DialogInv == dialog \in CatDialogs /\ (~late => About(list, dialog))

\* No two files have one key, and there are no more than were imported.
OneFileEach(d) == \A f, g \in d : Key(f) = Key(g) => f = g
DiskInv == OneFileEach(disk) /\ IsFiniteSet(disk) /\ Cardinality(disk) <= born

OnDisk(l, d)    == \A i \in DOMAIN l : File(l[i]) \in d
OneKeyEach(l)   == \A i, j \in DOMAIN l : Key(l[i]) = Key(l[j]) => i = j
AllListed(l, d) == \A f \in d : \E i \in DOMAIN l : File(l[i]) = f
UsesSaved(l, m)     == \A i \in DOMAIN l : m[Key(l[i])] >= l[i].used
Secrets(a, d)   == \A n \in a : \E f \in d : f.name = n /\ f.ov

Apart == ran \cap {"rename", "delete"} = {}

ListInv ==
    /\ Apart => OnDisk(list, disk) /\ OneKeyEach(list) /\ UsesSaved(list, meta)
    /\ ran = {} => AllListed(list, disk)
CredentialsInv == Apart /\ ~late => Secrets(auth, disk)

CatInv == FileTypes /\ ConnTypes /\ DialogInv /\ DiskInv /\ ListInv /\ CredentialsInv
-----------------------------------------------------------------------------
(* What the operators on lists preserve                                       *)

\* What is true of every entry of a list is true of it in another order.
LEMMA ShuffledKeeps ==
    ASSUME NEW l \in Seq(CatEntry), NEW m \in Seq(CatEntry), Shuffled(l, m)
    PROVE  /\ \A d : OnDisk(l, d) => OnDisk(m, d)
           /\ \A d : AllListed(l, d) => AllListed(m, d)
           /\ OneKeyEach(l) => OneKeyEach(m)
           /\ \A t : UsesSaved(l, t) => UsesSaved(m, t)
<1>1. PICK f \in [DOMAIN l -> DOMAIN l] :
          /\ \A i, j \in DOMAIN l : f[i] = f[j] => i = j
          /\ \A k \in DOMAIN l : \E i \in DOMAIN l : f[i] = k
          /\ m = [i \in DOMAIN l |-> l[f[i]]]
  BY DEF Shuffled
<1>2. DOMAIN m = DOMAIN l /\ \A i \in DOMAIN l : m[i] = l[f[i]] /\ f[i] \in DOMAIN l
  BY <1>1
<1>3. \A d : OnDisk(l, d) => OnDisk(m, d)
  BY <1>2 DEF OnDisk
<1>4. \A d : AllListed(l, d) => AllListed(m, d)
  <2> TAKE d
  <2> SUFFICES ASSUME AllListed(l, d), NEW g \in d PROVE \E i \in DOMAIN m : File(m[i]) = g
    BY DEF AllListed
  <2>1. PICK k \in DOMAIN l : File(l[k]) = g
    BY DEF AllListed
  <2>2. PICK i \in DOMAIN l : f[i] = k
    BY <1>1
  <2> QED  BY <1>2, <2>1, <2>2
<1>5. OneKeyEach(l) => OneKeyEach(m)
  BY <1>1, <1>2 DEF OneKeyEach
<1>6. \A t : UsesSaved(l, t) => UsesSaved(m, t)
  BY <1>2 DEF UsesSaved
<1> QED  BY <1>3, <1>4, <1>5, <1>6

LEMMA WithoutFacts ==
    ASSUME NEW l \in Seq(CatEntry), NEW i \in DOMAIN l
    PROVE  /\ Without(l, i) \in Seq(CatEntry) /\ Len(Without(l, i)) = Len(l) - 1
           /\ DOMAIN Without(l, i) = 1 .. Len(l) - 1
           /\ \A j \in 1 .. Len(l) - 1 : Without(l, i)[j] = l[IF j < i THEN j ELSE j + 1]
<1> DEFINE s == SubSeq(l, 1, i - 1)
           t == SubSeq(l, i + 1, Len(l))
<1>1. Len(l) \in Nat /\ DOMAIN l = 1 .. Len(l) /\ \A j \in DOMAIN l : l[j] \in CatEntry
  BY CatListFacts
<1>2. i \in Int /\ 1 <= i /\ i <= Len(l)
  BY <1>1
<1>3. \A j \in 1 .. i - 1 : l[j] \in CatEntry
  BY <1>1, <1>2
<1>4. \A j \in i + 1 .. Len(l) : l[j] \in CatEntry
  BY <1>1, <1>2
<1>5. s \in Seq(CatEntry) /\ Len(s) = i - 1 /\ \A j \in 1 .. i - 1 : s[j] = l[j]
  <2>1. 1 \in Int /\ i - 1 \in Int
    BY <1>2
  <2>2. /\ SubSeq(l, 1, i - 1) \in Seq(CatEntry)
        /\ Len(SubSeq(l, 1, i - 1)) = IF 1 <= i - 1 THEN i - 1 - 1 + 1 ELSE 0
        /\ \A j \in 1 .. i - 1 - 1 + 1 : SubSeq(l, 1, i - 1)[j] = l[1 + j - 1]
    BY <1>3, <2>1, SubSeqProperties
  <2>3. i - 1 - 1 + 1 = i - 1 /\ (IF 1 <= i - 1 THEN i - 1 - 1 + 1 ELSE 0) = i - 1
    BY <1>2
  <2>4. \A j \in 1 .. i - 1 : 1 + j - 1 = j
    BY <1>2
  <2> QED  BY <2>2, <2>3, <2>4
<1>6. t \in Seq(CatEntry) /\ Len(t) = Len(l) - i /\ \A j \in 1 .. Len(l) - i : t[j] = l[i + j]
  <2>1. i + 1 \in Int /\ Len(l) \in Int
    BY <1>1, <1>2
  <2>2. /\ SubSeq(l, i + 1, Len(l)) \in Seq(CatEntry)
        /\ Len(SubSeq(l, i + 1, Len(l))) = IF i + 1 <= Len(l) THEN Len(l) - (i + 1) + 1 ELSE 0
        /\ \A j \in 1 .. Len(l) - (i + 1) + 1 : SubSeq(l, i + 1, Len(l))[j] = l[i + 1 + j - 1]
    BY <1>4, <2>1, SubSeqProperties
  <2>3. Len(l) - (i + 1) + 1 = Len(l) - i /\ (IF i + 1 <= Len(l) THEN Len(l) - (i + 1) + 1 ELSE 0) = Len(l) - i
    BY <1>1, <1>2
  <2>4. \A j \in 1 .. Len(l) - i : i + 1 + j - 1 = i + j
    BY <1>1, <1>2
  <2> QED  BY <2>2, <2>3, <2>4
<1> HIDE DEF s, t
<1>7. Without(l, i) = s \o t
  BY DEF Without, s, t
<1>8. /\ s \o t \in Seq(CatEntry) /\ Len(s \o t) = Len(s) + Len(t)
      /\ \A j \in 1 .. Len(s) + Len(t) : (s \o t)[j] = IF j <= Len(s) THEN s[j] ELSE t[j - Len(s)]
  BY <1>5, <1>6, ConcatProperties
<1>9. Len(s) + Len(t) = Len(l) - 1
  BY <1>1, <1>2, <1>5, <1>6
<1>10. ASSUME NEW j \in 1 .. Len(l) - 1
       PROVE  (s \o t)[j] = l[IF j < i THEN j ELSE j + 1]
  <2>1. (s \o t)[j] = IF j <= Len(s) THEN s[j] ELSE t[j - Len(s)]
    BY <1>8, <1>9
  <2>2. CASE j < i
    <3>1. j <= Len(s) /\ j \in 1 .. i - 1
      BY <1>1, <1>2, <1>5, <2>2
    <3> QED  BY <1>5, <2>1, <2>2, <3>1
  <2>3. CASE ~(j < i)
    <3>1. ~(j <= Len(s)) /\ j - Len(s) \in 1 .. Len(l) - i /\ i + (j - Len(s)) = j + 1
      BY <1>1, <1>2, <1>5, <2>3
    <3> QED  BY <1>6, <2>1, <2>3, <3>1
  <2> QED  BY <2>2, <2>3
<1>11. DOMAIN (s \o t) = 1 .. Len(l) - 1
  BY <1>8, <1>9, CatListFacts
<1> QED  BY <1>7, <1>8, <1>9, <1>10, <1>11

\* Deleting an entry and its file: what is left still agrees.
LEMMA WithoutKeeps ==
    ASSUME NEW l \in Seq(CatEntry), NEW i \in DOMAIN l, NEW d, d \subseteq FileRecords,
           OnDisk(l, d), OneKeyEach(l)
    PROVE  LET gone == {f \in d : Key(f) # Key(l[i])}
           IN  /\ OnDisk(Without(l, i), gone) /\ OneKeyEach(Without(l, i))
               /\ AllListed(l, d) => AllListed(Without(l, i), gone)
               /\ \A t : UsesSaved(l, t) => UsesSaved(Without(l, i), t)
<1> DEFINE w == Without(l, i)
           at(j) == IF j < i THEN j ELSE j + 1
           gone == {f \in d : Key(f) # Key(l[i])}
<1>1. /\ DOMAIN w = 1 .. Len(l) - 1
      /\ \A j \in DOMAIN w : w[j] = l[at(j)]
  BY WithoutFacts
<1>2. Len(l) \in Nat /\ DOMAIN l = 1 .. Len(l) /\ \A j \in DOMAIN l : l[j] \in CatEntry
  BY CatListFacts
<1>3. i \in Nat /\ 1 <= i /\ i <= Len(l)
  BY <1>2
<1>4. \A j \in DOMAIN w : at(j) \in DOMAIN l /\ at(j) # i
  BY <1>1, <1>2, <1>3
<1>5. \A j, k \in DOMAIN w : at(j) = at(k) => j = k
  BY <1>1, <1>2, <1>3
<1>6. \A k \in DOMAIN l : k # i => \E j \in DOMAIN w : at(j) = k
  <2> SUFFICES ASSUME NEW k \in DOMAIN l, k # i PROVE \E j \in DOMAIN w : at(j) = k
    OBVIOUS
  <2>1. CASE k < i
    <3>1. k \in 1 .. Len(l) - 1
      BY <1>2, <1>3, <2>1
    <3> QED  BY <1>1, <2>1, <3>1
  <2>2. CASE ~(k < i)
    <3>1. k - 1 \in 1 .. Len(l) - 1 /\ ~(k - 1 < i) /\ k - 1 + 1 = k
      BY <1>2, <1>3, <2>2
    <3> QED  BY <1>1, <3>1
  <2> QED  BY <2>1, <2>2
<1> HIDE DEF w, at
<1>7. \A j \in DOMAIN l : Key(File(l[j])) = Key(l[j])
  BY <1>2, EntryFields
<1>8. OnDisk(w, gone)
  <2> SUFFICES ASSUME NEW j \in DOMAIN w PROVE File(w[j]) \in gone
    BY DEF OnDisk
  <2>1. w[j] = l[at(j)] /\ at(j) \in DOMAIN l /\ at(j) # i
    BY <1>1, <1>4
  <2>2. File(l[at(j)]) \in d /\ Key(l[at(j)]) # Key(l[i])
    BY <2>1 DEF OnDisk, OneKeyEach
  <2> QED  BY <1>7, <2>1, <2>2
<1>9. OneKeyEach(w)
  BY <1>1, <1>4, <1>5 DEF OneKeyEach
<1>10. AllListed(l, d) => AllListed(w, gone)
  <2> SUFFICES ASSUME AllListed(l, d), NEW f \in gone PROVE \E j \in DOMAIN w : File(w[j]) = f
    BY DEF AllListed
  <2>1. PICK k \in DOMAIN l : File(l[k]) = f
    BY DEF AllListed
  <2>2. k # i
    BY <1>7, <2>1
  <2>3. PICK j \in DOMAIN w : at(j) = k
    BY <1>6, <2>2
  <2> QED  BY <1>1, <2>1, <2>3
<1>11. \A t : UsesSaved(l, t) => UsesSaved(w, t)
  BY <1>1, <1>4 DEF UsesSaved
<1> QED  BY <1>8, <1>9, <1>10, <1>11 DEF w

\* save_metadata writes what the list shows.
LEMMA SavedFacts ==
    ASSUME NEW l \in Seq(CatEntry)
    PROVE  /\ Saved(l) \in [CatKeys -> Nat]
           /\ OneKeyEach(l) => UsesSaved(l, Saved(l))
<1>1. \A j \in DOMAIN l : l[j] \in CatEntry
  BY CatListFacts
<1>2. \A j \in DOMAIN l : l[j].used \in Nat /\ Key(l[j]) \in CatKeys
  BY <1>1, EntryFields
<1>3. Saved(l) \in [CatKeys -> Nat]
  <2>1. \A k \in CatKeys : (IF \E i \in DOMAIN l : Key(l[i]) = k
                            THEN l[CHOOSE i \in DOMAIN l : Key(l[i]) = k].used ELSE 0) \in Nat
    <3> TAKE k \in CatKeys
    <3>1. CASE \E i \in DOMAIN l : Key(l[i]) = k
      <4>1. (CHOOSE i \in DOMAIN l : Key(l[i]) = k) \in DOMAIN l
        BY <3>1
      <4> QED  BY <1>2, <3>1, <4>1
    <3>2. CASE ~\E i \in DOMAIN l : Key(l[i]) = k
      BY <3>2
    <3> QED  BY <3>1, <3>2
  <2> QED  BY <2>1 DEF Saved, CatKeys
<1>4. ASSUME OneKeyEach(l), NEW j \in DOMAIN l PROVE Saved(l)[Key(l[j])] >= l[j].used
  <2>1. (CHOOSE i \in DOMAIN l : Key(l[i]) = Key(l[j])) = j
    BY <1>4 DEF OneKeyEach
  <2>2. Saved(l)[Key(l[j])] = l[CHOOSE i \in DOMAIN l : Key(l[i]) = Key(l[j])].used
    BY <1>2 DEF Saved, CatKeys
  <2>3. Saved(l)[Key(l[j])] = l[j].used
    BY <2>1, <2>2, Zenon
  <2>4. l[j].used \in Nat
    BY <1>2
  <2> HIDE DEF Saved
  <2> QED  BY <2>3, <2>4
<1> QED  BY <1>3, <1>4 DEF UsesSaved

\* get_unique_path finds a free name: there are more candidates than files.
LEMMA UniqueNameFree ==
    ASSUME disk \subseteq FileRecords, DiskInv, born \in Nat, born < MaxFiles,
           NEW b \in Bases, NEW x \in ExtKinds
    PROVE  /\ UniqueName(10 * b, x) \in Names
           /\ \A f \in disk : Key(f) # <<UniqueName(10 * b, x), x>>
<1> DEFINE n == 10 * b
           C == 0 .. MaxFiles
           Taken(k) == \E f \in disk : Key(f) = <<n + k, x>>
           T == {k \in C : ~Taken(k)}
<1>1. MaxFiles \in Nat /\ n \in Nat
  BY CatAssumption
<1>2. IsFiniteSet(C) /\ Cardinality(C) = MaxFiles + 1
  <2>1. 0 \in Int /\ MaxFiles \in Int /\ ~(0 > MaxFiles) /\ MaxFiles - 0 + 1 = MaxFiles + 1
    BY <1>1
  <2> QED  BY <2>1, FS_Interval
<1>3. IsFiniteSet(disk) /\ Cardinality(disk) \in Nat /\ Cardinality(disk) <= born
  BY FS_CardinalityType DEF DiskInv
<1>4. Cardinality(disk) < Cardinality(C)
  BY <1>1, <1>2, <1>3
<1> HIDE DEF n
<1>5. T # {}
  <2> SUFFICES ASSUME \A k \in C : Taken(k) PROVE FALSE
    OBVIOUS
  <2> DEFINE at == [k \in C |-> CHOOSE f \in disk : Key(f) = <<n + k, x>>]
  <2>1. \A k \in C : at[k] \in disk /\ Key(at[k]) = <<n + k, x>>
    OBVIOUS
  <2>2. at \in [C -> disk]
    BY <2>1
  <2> HIDE DEF at
  <2>3. PICK k, m \in C : k # m /\ at[k] = at[m]
    BY <1>2, <1>3, <1>4, <2>2, FS_PigeonHole
  <2>4. n + k = n + m
    BY <2>1, <2>3
  <2>5. k \in Nat /\ m \in Nat
    BY <1>1
  <2> QED  BY <1>1, <2>3, <2>4, <2>5
<1>6. PICK k \in T : \A j \in T : k <= j
  <2>1. T \subseteq Nat
    BY <1>1
  <2> HIDE DEF T
  <2> QED  BY <1>5, <2>1, LeastNumber
<1>7. \A j \in 0 .. k - 1 : Taken(j)
  <2> SUFFICES ASSUME NEW j \in 0 .. k - 1, ~Taken(j) PROVE FALSE
    OBVIOUS
  <2>1. k \in 0 .. MaxFiles
    BY <1>6
  <2>2. j \in C /\ ~(k <= j)
    BY <1>1, <2>1
  <2> QED  BY <1>6, <2>2
<1> DEFINE Good(q) == (\A f \in disk : Key(f) # <<n + q, x>>) /\ \A j \in 0 .. q - 1 : \E f \in disk : Key(f) = <<n + j, x>>
           c == CHOOSE q \in C : Good(q)
<1>8. k \in C /\ Good(k)
  BY <1>6, <1>7
<1>9. c \in C /\ Good(c)
  <2> HIDE DEF Good
  <2> QED  BY <1>8
<1>10. UniqueName(n, x) = n + c
  BY DEF UniqueName
<1> HIDE DEF c
<1>11. n + c \in Names
  BY <1>9, NameFacts DEF n
<1> QED  BY <1>9, <1>10, <1>11 DEF n
\* An import adds a file of a free key and an entry for it that was never used.
LEMMA OneMoreListed ==
    ASSUME NEW l \in Seq(CatEntry), NEW d, d \subseteq FileRecords, NEW f \in FileRecords,
           \A g \in d : Key(g) # Key(f)
    PROVE  LET e == Listing(f, 0)
           IN  /\ Append(l, e) \in Seq(CatEntry)
               /\ OnDisk(l, d) => OnDisk(Append(l, e), d \cup {f})
               /\ OnDisk(l, d) /\ OneKeyEach(l) => OneKeyEach(Append(l, e))
               /\ AllListed(l, d) => AllListed(Append(l, e), d \cup {f})
               /\ \A t \in [CatKeys -> Nat] : UsesSaved(l, t) => UsesSaved(Append(l, e), t)
<1> DEFINE e == Listing(f, 0)
           a == Append(l, e)
<1>1. e \in CatEntry /\ File(e) = f /\ e.used = 0
  BY EntryFields
<1>2. Len(l) \in Nat /\ DOMAIN l = 1 .. Len(l) /\ \A i \in DOMAIN l : l[i] \in CatEntry
  BY CatListFacts
<1> HIDE DEF e
<1>3. /\ a \in Seq(CatEntry) /\ DOMAIN a = 1 .. Len(l) + 1
      /\ \A i \in DOMAIN l : a[i] = l[i]
      /\ a[Len(l) + 1] = e
  BY <1>1, CatListFacts
<1> HIDE DEF a
<1>4. DOMAIN a = DOMAIN l \cup {Len(l) + 1} /\ Len(l) + 1 \notin DOMAIN l
  BY <1>2, <1>3
<1>5. Key(e) = Key(f) /\ \A i \in DOMAIN l : Key(File(l[i])) = Key(l[i])
  BY <1>1, <1>2, EntryFields
<1>6. OnDisk(l, d) => OnDisk(a, d \cup {f})
  BY <1>1, <1>3, <1>4 DEF OnDisk
<1>7. OnDisk(l, d) /\ OneKeyEach(l) => OneKeyEach(a)
  <2> SUFFICES ASSUME OnDisk(l, d), OneKeyEach(l), NEW i \in DOMAIN a, NEW j \in DOMAIN a, Key(a[i]) = Key(a[j])
               PROVE  i = j
    BY DEF OneKeyEach
  <2>1. \A k \in DOMAIN l : Key(l[k]) # Key(e)
    BY <1>5 DEF OnDisk
  <2> QED  BY <1>3, <1>4, <2>1 DEF OneKeyEach
<1>8. AllListed(l, d) => AllListed(a, d \cup {f})
  <2> SUFFICES ASSUME AllListed(l, d), NEW g \in d \cup {f} PROVE \E i \in DOMAIN a : File(a[i]) = g
    BY DEF AllListed
  <2>1. CASE g = f
    BY <1>1, <1>3, <1>4, <2>1
  <2>2. CASE g \in d
    <3>1. PICK i \in DOMAIN l : File(l[i]) = g
      BY <2>2 DEF AllListed
    <3> QED  BY <1>3, <1>4, <3>1
  <2> QED  BY <2>1, <2>2
<1>9. ASSUME NEW t \in [CatKeys -> Nat], UsesSaved(l, t) PROVE UsesSaved(a, t)
  <2>1. \A i \in DOMAIN l : t[Key(a[i])] >= a[i].used
    BY <1>3, <1>9 DEF UsesSaved
  <2>2. t[Key(e)] \in Nat
    <3>1. Key(e) \in CatKeys
      BY <1>1, EntryFields
    <3> QED  BY <3>1
  <2>3. t[Key(a[Len(l) + 1])] >= a[Len(l) + 1].used
    BY <1>1, <1>3, <2>2
  <2> QED  BY <1>4, <2>1, <2>3 DEF UsesSaved
<1> QED  BY <1>3, <1>6, <1>7, <1>8, <1>9 DEF a, e

\* A stamped entry keeps its file and its key.
LEMMA StampKeeps ==
    ASSUME NEW l \in Seq(CatEntry), NEW i \in DOMAIN l, NEW u \in Nat
    PROVE  LET m == [l EXCEPT ![i] = [l[i] EXCEPT !.used = u]]
           IN  /\ m \in Seq(CatEntry) /\ DOMAIN m = DOMAIN l
               /\ \A j \in DOMAIN l : File(m[j]) = File(l[j]) /\ Key(m[j]) = Key(l[j])
                                      /\ m[j].name = l[j].name /\ m[j].ov = l[j].ov
<1> DEFINE e == [l[i] EXCEPT !.used = u]
           m == [l EXCEPT ![i] = e]
<1>1. l[i] \in CatEntry
  BY CatListFacts
<1>2. /\ e \in CatEntry /\ e.name = l[i].name /\ e.ext = l[i].ext
      /\ e.ov = l[i].ov /\ e.id = l[i].id
  BY <1>1 DEF CatEntry
<1>3. File(e) = File(l[i]) /\ Key(e) = Key(l[i])
  BY <1>2 DEF File, Key
<1> HIDE DEF e
<1>4. m \in Seq(CatEntry) /\ DOMAIN m = DOMAIN l /\ \A j \in DOMAIN l : m[j] = IF j = i THEN e ELSE l[j]
  BY <1>2, CatListFacts
<1> HIDE DEF m
<1> QED  BY <1>2, <1>3, <1>4 DEF m, e

\* Renaming an entry and its file to a free name.
LEMMA RenameKeeps ==
    ASSUME NEW l \in Seq(CatEntry), NEW i \in DOMAIN l, NEW n \in Names, NEW d, d \subseteq FileRecords,
           OneFileEach(d), \A f \in d : Key(f) # <<n, l[i].ext>>
    PROVE  LET m == [l EXCEPT ![i] = [l[i] EXCEPT !.name = n]]
               moved == {IF Key(f) = Key(l[i]) THEN [f EXCEPT !.name = n] ELSE f : f \in d}
           IN  /\ m \in Seq(CatEntry)
               /\ moved \subseteq FileRecords /\ OneFileEach(moved)
               /\ IsFiniteSet(d) => IsFiniteSet(moved) /\ Cardinality(moved) <= Cardinality(d)
               /\ OnDisk(l, d) /\ OneKeyEach(l) => OnDisk(m, moved) /\ OneKeyEach(m)
               /\ AllListed(l, d) /\ OneKeyEach(l) => AllListed(m, moved)
<1> DEFINE e == l[i]
           r == [e EXCEPT !.name = n]
           m == [l EXCEPT ![i] = r]
           new(f) == IF Key(f) = Key(e) THEN [f EXCEPT !.name = n] ELSE f
           moved == {new(f) : f \in d}
<1>1. /\ \A j \in DOMAIN l : l[j] \in CatEntry /\ Key(File(l[j])) = Key(l[j])
      /\ e \in CatEntry
  BY CatListFacts, EntryFields
<1>2. /\ r \in CatEntry /\ r.name = n /\ r.ext = e.ext /\ r.ov = e.ov /\ r.id = e.id /\ r.used = e.used
  BY <1>1 DEF CatEntry
<1>3. /\ Key(r) = <<n, e.ext>> /\ File(r) = [name |-> n, ext |-> e.ext, ov |-> e.ov, id |-> e.id]
  BY <1>2 DEF Key, File
<1>4. /\ Key(e) = <<e.name, e.ext>>
      /\ File(e) = [name |-> e.name, ext |-> e.ext, ov |-> e.ov, id |-> e.id]
      /\ Key(File(e)) = Key(e)
  BY <1>1 DEF Key, File
<1> HIDE DEF r
<1>5. m \in Seq(CatEntry) /\ DOMAIN m = DOMAIN l /\ \A j \in DOMAIN l : m[j] = IF j = i THEN r ELSE l[j]
  BY <1>2, CatListFacts
<1> HIDE DEF m
<1>6. ASSUME NEW f \in d
      PROVE  /\ new(f) \in FileRecords
             /\ Key(f) = Key(e) => Key(new(f)) = <<n, e.ext>>
             /\ Key(f) # Key(e) => new(f) = f
  <2>1. f \in FileRecords
    OBVIOUS
  <2>2. CASE Key(f) # Key(e)
    BY <2>1, <2>2
  <2>3. CASE Key(f) = Key(e)
    <3>1. new(f) = [f EXCEPT !.name = n]
      BY <2>3
    <3>2. [f EXCEPT !.name = n] \in FileRecords /\ [f EXCEPT !.name = n].name = n /\ [f EXCEPT !.name = n].ext = f.ext
      BY <2>1 DEF FileRecords
    <3>3. f.ext = e.ext
      BY <2>3, <1>4 DEF Key
    <3> QED  BY <2>3, <3>1, <3>2, <3>3 DEF Key
  <2> QED  BY <2>2, <2>3
<1>7. new(File(e)) = File(r)
  <2>1. new(File(e)) = [File(e) EXCEPT !.name = n]
    BY <1>4
  <2>2. [File(e) EXCEPT !.name = n] = [name |-> n, ext |-> e.ext, ov |-> e.ov, id |-> e.id]
    BY <1>4
  <2> QED  BY <1>3, <2>1, <2>2
<1> HIDE DEF new
<1>8. moved \subseteq FileRecords
  BY <1>6
<1>9. OneFileEach(moved)
  <2> SUFFICES ASSUME NEW f \in d, NEW g \in d, Key(new(f)) = Key(new(g)) PROVE new(f) = new(g)
    BY DEF OneFileEach
  <2>1. f = g
    BY <1>6 DEF OneFileEach
  <2> QED  BY <2>1
<1>10. IsFiniteSet(d) => IsFiniteSet(moved) /\ Cardinality(moved) <= Cardinality(d)
  <2> SUFFICES ASSUME IsFiniteSet(d) PROVE IsFiniteSet(moved) /\ Cardinality(moved) <= Cardinality(d)
    OBVIOUS
  <2> DEFINE h == [f \in d |-> new(f)]
  <2>1. h \in Surjection(d, moved)
    BY DEF Surjection
  <2> HIDE DEF h, moved
  <2> QED  BY <2>1, FS_Surjection
<1>11. ASSUME OnDisk(l, d), OneKeyEach(l) PROVE OnDisk(m, moved)
  <2> SUFFICES ASSUME NEW j \in DOMAIN l PROVE File(m[j]) \in moved
    BY <1>5 DEF OnDisk
  <2>1. File(l[j]) \in d /\ Key(File(l[j])) = Key(l[j])
    BY <1>1, <1>11 DEF OnDisk
  <2>2. CASE j = i
    BY <1>5, <1>7, <2>1, <2>2
  <2>3. CASE j # i
    <3>1. Key(l[j]) # Key(e)
      BY <1>11, <2>3 DEF OneKeyEach
    <3> QED  BY <1>5, <1>6, <2>1, <2>3, <3>1
  <2> QED  BY <2>2, <2>3
<1>12. ASSUME OnDisk(l, d), OneKeyEach(l) PROVE OneKeyEach(m)
  <2>1. \A j \in DOMAIN l : Key(l[j]) # Key(r)
    <3> TAKE j \in DOMAIN l
    <3>1. File(l[j]) \in d
      BY <1>12 DEF OnDisk
    <3> QED  BY <1>1, <1>3, <3>1
  <2> SUFFICES ASSUME NEW j \in DOMAIN l, NEW k \in DOMAIN l, Key(m[j]) = Key(m[k]) PROVE j = k
    BY <1>5 DEF OneKeyEach
  <2> QED  BY <1>5, <1>12, <2>1 DEF OneKeyEach
<1>13. ASSUME AllListed(l, d), OneKeyEach(l) PROVE AllListed(m, moved)
  <2> SUFFICES ASSUME NEW f \in d PROVE \E j \in DOMAIN l : File(m[j]) = new(f)
    BY <1>5 DEF AllListed
  <2>1. PICK k \in DOMAIN l : File(l[k]) = f
    BY <1>13 DEF AllListed
  <2>2. Key(f) = Key(l[k])
    BY <1>1, <2>1
  <2>3. CASE k = i
    BY <1>5, <1>7, <2>1, <2>3
  <2>4. CASE k # i
    <3>1. Key(l[k]) # Key(e)
      BY <1>13, <2>4 DEF OneKeyEach
    <3> QED  BY <1>5, <1>6, <2>1, <2>2, <2>4, <3>1
  <2> QED  BY <2>3, <2>4
<1> QED  BY <1>5, <1>8, <1>9, <1>10, <1>11, <1>12, <1>13 DEF m, r, new
-----------------------------------------------------------------------------
(* Steps that leave the list and the files alone                              *)

LEMMA SteadyKeeps ==
    ASSUME CatInv, UNCHANGED <<list, order, disk, meta, auth, born, uses, ran, late>>
    PROVE  FileTypes' /\ DiskInv' /\ ListInv' /\ CredentialsInv'
<1> USE DEF CatInv
<1>1. FileTypes'
  BY DEF FileTypes
<1>2. DiskInv'
  BY DEF DiskInv
<1>3. ListInv'
  BY DEF ListInv, Apart
<1>4. CredentialsInv'
  BY DEF CredentialsInv, Apart
<1> QED  BY <1>1, <1>2, <1>3, <1>4

\* A dialog stays, or one takes its place that is about what it names.
LEMMA DialogKeeps ==
    ASSUME DialogInv, UNCHANGED <<list, late>>,
           dialog' = dialog \/ (dialog' \in CatDialogs /\ About(list, dialog'))
    PROVE  DialogInv'
BY DEF DialogInv

LEMMA DialogForms ==
    /\ NoDialog \in CatDialogs /\ \A l : About(l, NoDialog)
    /\ [NoDialog EXCEPT !.kind = "refused"] \in CatDialogs
    /\ \A l : About(l, [NoDialog EXCEPT !.kind = "refused"])
    /\ NoEntry \in CatEntries
    /\ \A i \in Nat, x \in BOOLEAN : Entry(1, i, x) \in CatEntries
    /\ \A a \in 0 .. CatRetries, i \in Nat, x \in BOOLEAN : Entry(a, i, x) \in CatEntries
<1>1. NoDialog \in CatDialogs /\ \A l : About(l, NoDialog)
  BY DEF NoDialog, CatDialogs, DialogKinds, About
<1>2. /\ [NoDialog EXCEPT !.kind = "refused"] \in CatDialogs
      /\ [NoDialog EXCEPT !.kind = "refused"].kind = "refused"
  BY DEF NoDialog, CatDialogs, DialogKinds
<1>3. \A l : About(l, [NoDialog EXCEPT !.kind = "refused"])
  BY <1>2 DEF About
<1>4. NoEntry \in CatEntries
  BY CatAssumption DEF NoEntry, CatEntries
<1>5. \A i \in Nat, x \in BOOLEAN : Entry(1, i, x) \in CatEntries
  BY DEF Entry, CatEntries
<1>6. \A a \in 0 .. CatRetries, i \in Nat, x \in BOOLEAN : Entry(a, i, x) \in CatEntries
  BY DEF Entry, CatEntries
<1> QED  BY <1>1, <1>2, <1>3, <1>4, <1>5, <1>6

\* The dialogs that are opened about a listed position.
LEMMA DialogOfEntry ==
    ASSUME list \in Seq(CatEntry), NEW i \in DOMAIN list
    PROVE  /\ list[i].name \in Names /\ i \in Nat /\ list[i] \in CatEntry
           /\ \A k \in {"delete", "rename"} : Dialog(k, i) \in CatDialogs /\ About(list, Dialog(k, i))
           /\ list[i].ov => \A k \in {"auth", "authConnect"} : Dialog(k, i) \in CatDialogs /\ About(list, Dialog(k, i))
           /\ LET d == [Dialog("takeover", i) EXCEPT !.idx = 0] IN d \in CatDialogs /\ About(list, d)
<1>1. list[i] \in CatEntry /\ DOMAIN list = 1 .. Len(list) /\ Len(list) \in Nat
  BY CatListFacts
<1>2. list[i].name \in Names /\ i \in Nat
  BY <1>1, EntryFields
<1>3. \A k \in DialogKinds : /\ Dialog(k, i) \in CatDialogs /\ Dialog(k, i).kind = k
                             /\ Dialog(k, i).idx = i /\ Dialog(k, i).name = list[i].name
  BY <1>2 DEF Dialog, CatDialogs
<1>4. \A k \in {"delete", "rename"} : Dialog(k, i) \in CatDialogs /\ About(list, Dialog(k, i))
  BY <1>3 DEF About, DialogKinds
<1>5. list[i].ov => \A k \in {"auth", "authConnect"} : Dialog(k, i) \in CatDialogs /\ About(list, Dialog(k, i))
  BY <1>3 DEF About, DialogKinds
<1>6. LET d == [Dialog("takeover", i) EXCEPT !.idx = 0] IN d \in CatDialogs /\ About(list, d)
  <2>1. /\ [Dialog("takeover", i) EXCEPT !.idx = 0] \in CatDialogs
        /\ [Dialog("takeover", i) EXCEPT !.idx = 0].kind = "takeover"
    BY <1>2 DEF Dialog, CatDialogs, DialogKinds
  <2> QED  BY <2>1 DEF About
<1> QED  BY <1>1, <1>2, <1>4, <1>5, <1>6

\* connect_profile_inner starts a tunnel, opens a dialog about the profile, or refuses.
LEMMA ConnectAtKeeps ==
    ASSUME list \in Seq(CatEntry), NEW t \in [Names -> TunnelStates], NEW i, NEW force, NEW after,
           ConnectAt(i, force, after, t)
    PROVE  /\ tunnel' \in [Names -> TunnelStates]
           /\ dialog' = dialog \/ (dialog' \in CatDialogs /\ About(list, dialog'))
<1>1. CASE ~Listed(i)
  BY <1>1 DEF ConnectAt
<1>2. CASE Listed(i)
  <2>1. i \in DOMAIN list
    BY <1>2 DEF Listed
  <2>2. \/ dialog' = [NoDialog EXCEPT !.kind = "refused"] /\ tunnel' = t
        \/ dialog' = [Dialog("takeover", i) EXCEPT !.idx = 0] /\ tunnel' = t
        \/ list[i].ov /\ dialog' = Dialog("authConnect", i) /\ tunnel' = t
        \/ tunnel' = [t EXCEPT ![list[i].name] = "connecting"] /\ UNCHANGED dialog
    BY <1>2 DEF ConnectAt
  <2>3. CASE dialog' = [NoDialog EXCEPT !.kind = "refused"] /\ tunnel' = t
    BY <2>3, DialogForms
  <2>4. CASE dialog' = [Dialog("takeover", i) EXCEPT !.idx = 0] /\ tunnel' = t
    BY <2>1, <2>4, DialogOfEntry
  <2>5. CASE list[i].ov /\ dialog' = Dialog("authConnect", i) /\ tunnel' = t
    BY <2>1, <2>5, DialogOfEntry
  <2>6. CASE tunnel' = [t EXCEPT ![list[i].name] = "connecting"] /\ UNCHANGED dialog
    BY <2>6 DEF TunnelStates
  <2> QED  BY <2>2, <2>3, <2>4, <2>5, <2>6
<1> QED  BY <1>1, <1>2
-----------------------------------------------------------------------------
(* Every step                                                                 *)

LEMMA SelectKeeps == ASSUME CatInv, Select PROVE CatInv'
<1>1. FileTypes /\ ConnTypes /\ DialogInv
  BY DEF CatInv
<1>2. UNCHANGED <<list, order, disk, meta, auth, born, uses, ran, late, dialog>>
  BY DEF Select, Act, catConn, catFiles
<1>3. ConnTypes'
  <2>1. list \in Seq(CatEntry)
    BY <1>1 DEF FileTypes
  <2>2. DOMAIN list \subseteq Nat
    BY <2>1, CatListFacts
  <2>3. sel' \in Nat
    BY <2>2 DEF Select
  <2>4. UNCHANGED <<queue, tunnel, retry>>
    BY DEF Select, catConn
  <2> QED  BY <1>1, <2>3, <2>4 DEF ConnTypes
<1> QED  BY <1>1, <1>2, <1>3, SteadyKeeps, DialogKeeps DEF CatInv

LEMMA OpenDialogKeeps == ASSUME CatInv, OpenDialog PROVE CatInv'
<1>1. FileTypes /\ ConnTypes /\ DialogInv
  BY DEF CatInv
<1>2. UNCHANGED <<list, order, disk, meta, auth, born, uses, ran, late>>
  BY DEF OpenDialog, Act, catConn, catFiles
<1>3. ConnTypes'
  <2>1. UNCHANGED <<sel, queue, tunnel, retry>>
    BY DEF OpenDialog, catConn
  <2> QED  BY <1>1, <2>1 DEF ConnTypes
<1>4. dialog' \in CatDialogs /\ About(list, dialog')
  <2>1. list \in Seq(CatEntry) /\ sel \in DOMAIN list
    BY <1>1 DEF FileTypes, OpenDialog, Listed
  <2>2. dialog' = Dialog("delete", sel) \/ dialog' = Dialog("rename", sel) \/ (list[sel].ov /\ dialog' = Dialog("auth", sel))
    BY DEF OpenDialog
  <2> QED  BY <2>1, <2>2, DialogOfEntry
<1> QED  BY <1>1, <1>2, <1>3, <1>4, SteadyKeeps, DialogKeeps DEF CatInv

LEMMA CancelKeeps == ASSUME CatInv, Cancel PROVE CatInv'
<1>1. FileTypes /\ ConnTypes /\ DialogInv
  BY DEF CatInv
<1>2. UNCHANGED <<list, order, disk, meta, auth, born, uses, ran, late>>
  BY DEF Cancel, Act, catConn, catFiles
<1>3. ConnTypes'
  <2>1. UNCHANGED <<sel, queue, tunnel, retry>>
    BY DEF Cancel, catConn
  <2> QED  BY <1>1, <2>1 DEF ConnTypes
<1>4. dialog' \in CatDialogs /\ About(list, dialog')
  BY DialogForms DEF Cancel
<1> QED  BY <1>1, <1>2, <1>3, <1>4, SteadyKeeps, DialogKeeps DEF CatInv

LEMMA ToggleKeeps == ASSUME CatInv, Toggle PROVE CatInv'
<1>1. FileTypes /\ ConnTypes /\ DialogInv
  BY DEF CatInv
<1>2. UNCHANGED <<list, order, disk, meta, auth, born, uses, ran, late, sel>>
  BY DEF Toggle, Act, catFiles
<1>3. /\ list \in Seq(CatEntry) /\ sel \in DOMAIN list
      /\ tunnel \in [Names -> TunnelStates] /\ queue \in Nat /\ retry \in [Names -> CatEntries] /\ sel \in Nat
  BY <1>1 DEF FileTypes, ConnTypes, Toggle, Listed
<1>4. retry' \in [Names -> CatEntries]
  <2>1. retry' = [retry EXCEPT ![list[sel].name] = NoEntry]
    BY DEF Toggle
  <2> QED  BY <1>3, <2>1, DialogForms
<1>5. /\ tunnel' \in [Names -> TunnelStates] /\ queue' \in Nat
      /\ dialog' = dialog \/ (dialog' \in CatDialogs /\ About(list, dialog'))
  <2>1. \/ tunnel' = [tunnel EXCEPT ![list[sel].name] = "closing"] /\ UNCHANGED <<dialog, queue>>
        \/ ConnectAt(sel, FALSE, FALSE, tunnel) /\ UNCHANGED queue
        \/ queue' = sel /\ UNCHANGED <<dialog, tunnel>>
        \/ dialog' = [Dialog("takeover", sel) EXCEPT !.idx = 0] /\ UNCHANGED <<queue, tunnel>>
    BY DEF Toggle
  <2>2. CASE tunnel' = [tunnel EXCEPT ![list[sel].name] = "closing"] /\ UNCHANGED <<dialog, queue>>
    BY <1>3, <2>2 DEF TunnelStates
  <2>3. CASE ConnectAt(sel, FALSE, FALSE, tunnel) /\ UNCHANGED queue
    BY <1>3, <2>3, ConnectAtKeeps
  <2>4. CASE queue' = sel /\ UNCHANGED <<dialog, tunnel>>
    BY <1>3, <2>4
  <2>5. CASE dialog' = [Dialog("takeover", sel) EXCEPT !.idx = 0] /\ UNCHANGED <<queue, tunnel>>
    BY <1>3, <2>5, DialogOfEntry
  <2> QED  BY <2>1, <2>2, <2>3, <2>4, <2>5
<1>6. ConnTypes'
  BY <1>2, <1>3, <1>4, <1>5 DEF ConnTypes
<1> QED  BY <1>1, <1>2, <1>5, <1>6, SteadyKeeps, DialogKeeps DEF CatInv

LEMMA TakeoverKeeps == ASSUME CatInv, Takeover PROVE CatInv'
<1>1. FileTypes /\ ConnTypes /\ DialogInv
  BY DEF CatInv
<1>2. UNCHANGED <<list, order, disk, meta, auth, born, uses, ran, late>>
  BY DEF Takeover, Act, catFiles
<1>3. ConnTypes'
  <2>1. list \in Seq(CatEntry) /\ tunnel \in [Names -> TunnelStates] /\ queue \in Nat
    BY <1>1 DEF FileTypes, ConnTypes
  <2>2. Position(list, dialog.name) \in Nat
    BY <2>1, PositionSpec
  <2>3. \/ UNCHANGED <<queue, tunnel>>
        \/ queue' = 0 /\ tunnel' = [tunnel EXCEPT ![dialog.name] = "connecting"]
        \/ queue' = Position(list, dialog.name) /\ UNCHANGED tunnel
        \/ queue' = Position(list, dialog.name) /\ \E m \in Busy : tunnel' = [tunnel EXCEPT ![m] = "closing"]
    BY DEF Takeover
  <2>4. \A n : [tunnel EXCEPT ![n] = "connecting"] \in [Names -> TunnelStates]
    BY <2>1 DEF TunnelStates
  <2>5. \A n : [tunnel EXCEPT ![n] = "closing"] \in [Names -> TunnelStates]
    BY <2>1 DEF TunnelStates
  <2>6. queue' \in Nat /\ tunnel' \in [Names -> TunnelStates]
    BY <2>1, <2>2, <2>3, <2>4, <2>5
  <2>7. UNCHANGED <<sel, retry>>
    BY DEF Takeover
  <2> QED  BY <1>1, <2>6, <2>7 DEF ConnTypes
<1>4. dialog' \in CatDialogs /\ About(list, dialog')
  BY DialogForms DEF Takeover
<1> QED  BY <1>1, <1>2, <1>3, <1>4, SteadyKeeps, DialogKeeps DEF CatInv

LEMMA ConnectFailedKeeps == ASSUME CatInv, NEW n \in Names, ConnectFailed(n) PROVE CatInv'
<1>1. FileTypes /\ ConnTypes /\ DialogInv
  BY DEF CatInv
<1>2. UNCHANGED <<list, order, disk, meta, auth, born, uses, ran, late, dialog, sel>>
  BY DEF ConnectFailed, Seen, Event, catUi, catFiles
<1>3. ConnTypes'
  <2> DEFINE i == Position(list, n)
             a == retry[n].attempt + 1
             again == i # 0 /\ a <= CatRetries /\ queue = 0
  <2>1. list \in Seq(CatEntry) /\ tunnel \in [Names -> TunnelStates] /\ queue \in Nat /\ retry \in [Names -> CatEntries]
    BY <1>1 DEF FileTypes, ConnTypes
  <2>2. i \in Nat
    BY <2>1, PositionSpec
  <2>3. retry[n].attempt \in Nat /\ retry[n].auto \in BOOLEAN /\ CatRetries \in Nat
    BY <2>1, CatAssumption DEF CatEntries
  <2>4. a <= CatRetries => a \in 0 .. CatRetries
    BY <2>3
  <2>5. /\ tunnel' = [tunnel EXCEPT ![n] = "down"]
        /\ retry' = [retry EXCEPT ![n] = IF again THEN Entry(a, i, retry[n].auto) ELSE NoEntry]
        /\ queue' = IF again THEN queue ELSE 0
    BY DEF ConnectFailed
  <2> HIDE DEF i, a
  <2>6. (IF again THEN Entry(a, i, retry[n].auto) ELSE NoEntry) \in CatEntries
    BY <2>2, <2>3, <2>4, DialogForms
  <2> HIDE DEF again
  <2>7. retry' \in [Names -> CatEntries] /\ queue' \in Nat
    BY <2>1, <2>5, <2>6
  <2>8. tunnel' \in [Names -> TunnelStates]
    BY <2>1, <2>5 DEF TunnelStates
  <2> QED  BY <1>1, <1>2, <2>7, <2>8 DEF ConnTypes
<1> QED  BY <1>1, <1>2, <1>3, SteadyKeeps, DialogKeeps DEF CatInv

LEMMA DropKeeps == ASSUME CatInv, NEW n \in Names, Drop(n) PROVE CatInv'
<1>1. FileTypes /\ ConnTypes /\ DialogInv
  BY DEF CatInv
<1>2. UNCHANGED <<list, order, disk, meta, auth, born, uses, ran, late, dialog, sel, queue>>
  BY DEF Drop, Seen, Event, catUi, catFiles
<1>3. ConnTypes'
  <2>1. list \in Seq(CatEntry) /\ tunnel \in [Names -> TunnelStates] /\ retry \in [Names -> CatEntries]
    BY <1>1 DEF FileTypes, ConnTypes
  <2>2. Entry(1, Position(list, n), TRUE) \in CatEntries
    BY <2>1, PositionSpec, DialogForms
  <2>3. /\ tunnel' = [tunnel EXCEPT ![n] = "down"]
        /\ retry' = retry \/ retry' = [retry EXCEPT ![n] = Entry(1, Position(list, n), TRUE)]
    BY DEF Drop
  <2>4. retry' \in [Names -> CatEntries]
    BY <2>1, <2>2, <2>3
  <2>5. tunnel' \in [Names -> TunnelStates]
    BY <2>1, <2>3 DEF TunnelStates
  <2> QED  BY <1>1, <1>2, <2>4, <2>5 DEF ConnTypes
<1> QED  BY <1>1, <1>2, <1>3, SteadyKeeps, DialogKeeps DEF CatInv

LEMMA AdoptKeeps == ASSUME CatInv, NEW n \in Names, Adopt(n) PROVE CatInv'
<1>1. FileTypes /\ ConnTypes /\ DialogInv
  BY DEF CatInv
<1>2. UNCHANGED <<list, order, disk, meta, auth, born, uses, ran, late, dialog, sel, queue, retry>>
  BY DEF Adopt, Seen, Event, catUi, catFiles
<1>3. ConnTypes'
  <2>1. tunnel' = [tunnel EXCEPT ![n] = "up"]
    BY DEF Adopt
  <2> QED  BY <1>1, <1>2, <2>1 DEF ConnTypes, TunnelStates
<1> QED  BY <1>1, <1>2, <1>3, SteadyKeeps, DialogKeeps DEF CatInv

LEMMA ClosedKeeps == ASSUME CatInv, NEW n \in Names, Closed(n) PROVE CatInv'
<1>1. FileTypes /\ ConnTypes /\ DialogInv
  BY DEF CatInv
<1>2. UNCHANGED <<list, order, disk, meta, auth, born, uses, ran, late, sel, retry>>
  BY DEF Closed, Seen, Event, catFiles
<1>3. list \in Seq(CatEntry) /\ [tunnel EXCEPT ![n] = "down"] \in [Names -> TunnelStates]
  BY <1>1 DEF FileTypes, ConnTypes, TunnelStates
<1>4. /\ tunnel' \in [Names -> TunnelStates] /\ queue' \in Nat
      /\ dialog' = dialog \/ (dialog' \in CatDialogs /\ About(list, dialog'))
  <2>1. queue' = 0
    BY DEF Closed
  <2>2. \/ ConnectAt(queue, FALSE, FALSE, [tunnel EXCEPT ![n] = "down"])
        \/ tunnel' = [tunnel EXCEPT ![n] = "down"] /\ UNCHANGED dialog
    BY DEF Closed
  <2>3. CASE ConnectAt(queue, FALSE, FALSE, [tunnel EXCEPT ![n] = "down"])
    BY <1>3, <2>1, <2>3, ConnectAtKeeps
  <2>4. CASE tunnel' = [tunnel EXCEPT ![n] = "down"] /\ UNCHANGED dialog
    BY <1>3, <2>1, <2>4
  <2> QED  BY <2>2, <2>3, <2>4
<1>5. ConnTypes'
  BY <1>1, <1>2, <1>4 DEF ConnTypes
<1> QED  BY <1>1, <1>2, <1>4, <1>5, SteadyKeeps, DialogKeeps DEF CatInv

LEMMA RetryFiresKeeps == ASSUME CatInv, NEW t \in timers, RetryFires(t) PROVE CatInv'
<1>1. FileTypes /\ ConnTypes /\ DialogInv
  BY DEF CatInv
<1>2. UNCHANGED <<list, order, disk, meta, auth, born, uses, ran, late, sel, queue>>
  BY DEF RetryFires, Seen, Event, catFiles
<1>3. list \in Seq(CatEntry) /\ tunnel \in [Names -> TunnelStates] /\ retry \in [Names -> CatEntries]
  BY <1>1 DEF FileTypes, ConnTypes
<1>4. /\ tunnel' \in [Names -> TunnelStates] /\ retry' \in [Names -> CatEntries]
      /\ dialog' = dialog \/ (dialog' \in CatDialogs /\ About(list, dialog'))
  <2>1. \/ UNCHANGED <<tunnel, dialog, retry>>
        \/ retry' = [retry EXCEPT ![list[t.idx].name] = NoEntry] /\ UNCHANGED <<tunnel, dialog>>
        \/ ConnectAt(t.idx, FALSE, FALSE, tunnel) /\ UNCHANGED retry
    BY DEF RetryFires
  <2>2. CASE UNCHANGED <<tunnel, dialog, retry>>
    BY <1>3, <2>2
  <2>3. CASE retry' = [retry EXCEPT ![list[t.idx].name] = NoEntry] /\ UNCHANGED <<tunnel, dialog>>
    BY <1>3, <2>3, DialogForms
  <2>4. CASE ConnectAt(t.idx, FALSE, FALSE, tunnel) /\ UNCHANGED retry
    BY <1>3, <2>4, ConnectAtKeeps
  <2> QED  BY <2>1, <2>2, <2>3, <2>4
<1>5. ConnTypes'
  BY <1>1, <1>2, <1>4 DEF ConnTypes
<1> QED  BY <1>1, <1>2, <1>4, <1>5, SteadyKeeps, DialogKeeps DEF CatInv

LEMMA NetworkChangedKeeps == ASSUME CatInv, NetworkChanged PROVE CatInv'
<1>1. FileTypes /\ ConnTypes /\ DialogInv
  BY DEF CatInv
<1>2. UNCHANGED <<list, order, disk, meta, auth, born, uses, ran, late, dialog, sel, queue, tunnel>>
  BY DEF NetworkChanged, Seen, Event, catUi, catFiles
<1>3. ConnTypes'
  <2>1. list \in Seq(CatEntry) /\ retry \in [Names -> CatEntries]
    BY <1>1 DEF FileTypes, ConnTypes
  <2>2. DOMAIN list \subseteq Nat
    BY <2>1, CatListFacts
  <2>3. PICK idxs \in SUBSET (DOMAIN list) :
            retry' = [n \in Names |->
                        IF \E i \in idxs : list[i].name = n
                        THEN Entry(1, CHOOSE i \in idxs : list[i].name = n, TRUE) ELSE retry[n]]
    BY DEF NetworkChanged
  <2>4. ASSUME NEW n \in Names
        PROVE  (IF \E i \in idxs : list[i].name = n
                THEN Entry(1, CHOOSE i \in idxs : list[i].name = n, TRUE) ELSE retry[n]) \in CatEntries
    <3>1. CASE \E i \in idxs : list[i].name = n
      <4>1. (CHOOSE i \in idxs : list[i].name = n) \in Nat
        BY <2>2, <3>1
      <4> QED  BY <3>1, <4>1, DialogForms
    <3>2. CASE ~\E i \in idxs : list[i].name = n
      BY <2>1, <3>2
    <3> QED  BY <3>1, <3>2
  <2>5. retry' \in [Names -> CatEntries]
    BY <2>3, <2>4
  <2> QED  BY <1>1, <1>2, <2>5 DEF ConnTypes
<1> QED  BY <1>1, <1>2, <1>3, SteadyKeeps, DialogKeeps DEF CatInv
LEMMA SortedKeeps ==
    ASSUME NEW l \in Seq(CatEntry), NEW o \in 1 .. 4
    PROVE  /\ SortedBy(l, o) \in Seq(CatEntry)
           /\ \A n : Position(SortedBy(l, o), n) \in Nat
           /\ \A d : OnDisk(l, d) => OnDisk(SortedBy(l, o), d)
           /\ \A d : AllListed(l, d) => AllListed(SortedBy(l, o), d)
           /\ OneKeyEach(l) => OneKeyEach(SortedBy(l, o))
           /\ \A t : UsesSaved(l, t) => UsesSaved(SortedBy(l, o), t)
<1>1. SortedBy(l, o) \in Seq(CatEntry) /\ Shuffled(l, SortedBy(l, o))
  BY SortShuffles
<1> QED  BY <1>1, ShuffledKeeps, PositionSpec

\* The list is sorted and nothing is on screen that holds a position in it.
LEMMA SortingKeeps ==
    ASSUME CatInv, order' \in 1 .. 4, list' = SortedBy(list, order'),
           UNCHANGED <<disk, meta, auth, born, uses, ran, dialog>>,
           late' \in BOOLEAN, late => late', dialog.kind = "none" \/ late'
    PROVE  FileTypes' /\ DialogInv' /\ DiskInv' /\ ListInv' /\ CredentialsInv'
<1>1. FileTypes /\ DialogInv /\ DiskInv /\ ListInv /\ CredentialsInv
  BY DEF CatInv
<1>2. list \in Seq(CatEntry)
  BY <1>1 DEF FileTypes
<1>3. FileTypes'
  BY <1>1, <1>2, SortedKeeps DEF FileTypes
<1>4. DialogInv'
  <2>1. dialog' \in CatDialogs
    BY <1>1 DEF DialogInv
  <2>2. ~late' => \A l : About(l, dialog')
    BY DEF About
  <2> QED  BY <2>1, <2>2 DEF DialogInv
<1>5. DiskInv'
  BY <1>1 DEF DiskInv
<1>6. ListInv'
  <2>1. Apart => OnDisk(list', disk) /\ OneKeyEach(list') /\ UsesSaved(list', meta)
    BY <1>1, <1>2, SortedKeeps DEF ListInv
  <2>2. ran = {} => AllListed(list', disk)
    BY <1>1, <1>2, SortedKeeps DEF ListInv
  <2> QED  BY <2>1, <2>2 DEF ListInv, Apart
<1>7. CredentialsInv'
  BY <1>1 DEF CredentialsInv, Apart
<1> QED  BY <1>3, <1>4, <1>5, <1>6, <1>7

LEMMA CycleKeeps == ASSUME CatInv, CycleSortOrder PROVE CatInv'
<1>1. FileTypes /\ ConnTypes /\ DialogInv
  BY DEF CatInv
<1>2. /\ order' = (order % 4) + 1 /\ list' = SortedBy(list, order') /\ dialog.kind = "none"
      /\ UNCHANGED <<disk, meta, auth, born, uses, ran, late, dialog, queue, tunnel, retry>>
  BY DEF CycleSortOrder, Act, AtList, catConn, catFiles
<1>3. order' \in 1 .. 4
  <2>1. order \in 1 .. 4
    BY <1>1 DEF FileTypes
  <2> QED  BY <1>2, <2>1
<1>4. list \in Seq(CatEntry) /\ late' \in BOOLEAN /\ (late => late')
  BY <1>1, <1>2 DEF FileTypes
<1>5. ConnTypes'
  <2>1. sel \in Nat
    BY <1>1 DEF ConnTypes
  <2>2. sel' \in Nat
    <3>1. sel' = IF Listed(sel) THEN Position(list', list[sel].name) ELSE sel
      BY DEF CycleSortOrder
    <3>2. \A n : Position(list', n) \in Nat
      BY <1>2, <1>3, <1>4, SortedKeeps
    <3> QED  BY <2>1, <3>1, <3>2
  <2> QED  BY <1>1, <1>2, <2>2 DEF ConnTypes
<1> QED  BY <1>2, <1>3, <1>4, <1>5, SortingKeeps DEF CatInv

LEMMA ImportRejectedKeeps ==
    ASSUME CatInv, ImportRejected, UNCHANGED ran,
           late' \in BOOLEAN, late => late', dialog.kind = "none" \/ late'
    PROVE  CatInv'
<1>1. FileTypes /\ ConnTypes
  BY DEF CatInv
<1>2. list' = SortedBy(list, order) /\ UNCHANGED <<order, sel, dialog, disk, meta, auth, born, uses, queue, tunnel, retry>>
  BY DEF ImportRejected, catConn, catFiles
<1>3. order' \in 1 .. 4 /\ list' = SortedBy(list, order')
  BY <1>1, <1>2 DEF FileTypes
<1>4. ConnTypes'
  BY <1>1, <1>2 DEF ConnTypes
<1> QED  BY <1>2, <1>3, <1>4, SortingKeeps DEF CatInv

\* What import_profile makes.
LEMMA ImportedFacts ==
    ASSUME CatInv, born < MaxFiles, NEW b \in Bases, NEW k \in Kinds
    PROVE  /\ Imported(b, k) \in FileRecords
           /\ \A f \in disk : Key(f) # Key(Imported(b, k))
           /\ disk \cup {Imported(b, k)} \subseteq FileRecords
           /\ OneFileEach(disk \cup {Imported(b, k)})
           /\ IsFiniteSet(disk \cup {Imported(b, k)})
           /\ Cardinality(disk \cup {Imported(b, k)}) <= born + 1
<1> DEFINE f == Imported(b, k)
           D == disk \cup {f}
<1>1. disk \subseteq FileRecords /\ born \in Nat /\ DiskInv
  BY DEF CatInv, FileTypes
<1>2. k[1] \in ExtKinds /\ k[2] \in BOOLEAN
  BY CatAssumption
<1>3. UniqueName(10 * b, k[1]) \in Names /\ \A g \in disk : Key(g) # <<UniqueName(10 * b, k[1]), k[1]>>
  BY <1>1, <1>2, UniqueNameFree
<1>4. f \in FileRecords /\ Key(f) = <<UniqueName(10 * b, k[1]), k[1]>>
  <2>1. f = [name |-> UniqueName(10 * b, k[1]), ext |-> k[1], ov |-> k[2], id |-> born + 1]
    BY DEF Imported
  <2>2. born + 1 \in Nat
    BY <1>1
  <2> HIDE DEF f
  <2> QED  BY <1>2, <1>3, <2>1, <2>2 DEF FileRecords, Key
<1> HIDE DEF f
<1>5. OneFileEach(D)
  BY <1>1, <1>3, <1>4 DEF DiskInv, OneFileEach
<1>6. IsFiniteSet(D) /\ Cardinality(D) <= born + 1
  <2>1. IsFiniteSet(disk) /\ Cardinality(disk) \in Nat /\ Cardinality(disk) <= born
    BY <1>1, FS_CardinalityType DEF DiskInv
  <2>2. IsFiniteSet(D) /\ Cardinality(D) = IF f \in disk THEN Cardinality(disk) ELSE Cardinality(disk) + 1
    BY <2>1, FS_AddElement
  <2> QED  BY <1>1, <2>1, <2>2
<1> QED  BY <1>1, <1>3, <1>4, <1>5, <1>6 DEF f

LEMMA ImportDoneKeeps ==
    ASSUME CatInv, NEW b \in Bases, NEW k \in Kinds, ImportDone(b, k), UNCHANGED <<ran, late>>
    PROVE  CatInv'
<1>1. FileTypes /\ ConnTypes /\ DialogInv /\ DiskInv /\ ListInv /\ CredentialsInv
  BY DEF CatInv
<1>2. PICK f : f = Imported(b, k)
  OBVIOUS
<1>3. PICK a : a = Append(list, Listing(f, 0))
  OBVIOUS
<1>4. /\ born < MaxFiles /\ born' = born + 1 /\ disk' = disk \cup {f}
      /\ list' = SortedBy(a, order) /\ sel' = Position(list', f.name) /\ dialog' = NoDialog
      /\ UNCHANGED <<order, meta, auth, uses, queue, tunnel, retry>>
  BY <1>2, <1>3 DEF ImportDone, catConn
<1>5. /\ list \in Seq(CatEntry) /\ order \in 1 .. 4 /\ disk \subseteq FileRecords
      /\ meta \in [CatKeys -> Nat] /\ born \in Nat
  BY <1>1 DEF FileTypes
<1>6. /\ f \in FileRecords /\ (\A g \in disk : Key(g) # Key(f))
      /\ disk' \subseteq FileRecords /\ OneFileEach(disk') /\ IsFiniteSet(disk') /\ Cardinality(disk') <= born'
  BY <1>2, <1>4, ImportedFacts
<1>7. /\ a \in Seq(CatEntry)
      /\ OnDisk(list, disk) => OnDisk(a, disk')
      /\ OnDisk(list, disk) /\ OneKeyEach(list) => OneKeyEach(a)
      /\ AllListed(list, disk) => AllListed(a, disk')
      /\ UsesSaved(list, meta) => UsesSaved(a, meta)
  BY <1>3, <1>4, <1>5, <1>6, OneMoreListed
<1>8. FileTypes'
  <2>1. list' \in Seq(CatEntry) /\ born' \in Nat
    BY <1>4, <1>5, <1>7, SortedKeeps
  <2> QED  BY <1>1, <1>4, <1>6, <2>1 DEF FileTypes
<1>9. ConnTypes'
  <2>1. sel' \in Nat
    BY <1>4, <1>5, <1>7, SortedKeeps
  <2> QED  BY <1>1, <1>4, <2>1 DEF ConnTypes
<1>10. DialogInv'
  BY <1>4, DialogForms DEF DialogInv
<1>11. DiskInv'
  BY <1>6 DEF DiskInv
<1>12. ListInv'
  <2>1. Apart => OnDisk(list', disk') /\ OneKeyEach(list') /\ UsesSaved(list', meta)
    BY <1>1, <1>4, <1>5, <1>7, SortedKeeps DEF ListInv
  <2>2. ran = {} => AllListed(list', disk')
    BY <1>1, <1>4, <1>5, <1>7, SortedKeeps DEF ListInv
  <2> QED  BY <1>4, <2>1, <2>2 DEF ListInv, Apart
<1>13. CredentialsInv'
  BY <1>1, <1>4 DEF CredentialsInv, Apart, Secrets
<1> QED  BY <1>8, <1>9, <1>10, <1>11, <1>12, <1>13 DEF CatInv

LEMMA ImportKeyKeeps == ASSUME CatInv, ImportKey PROVE CatInv'
<1>1. late \in BOOLEAN /\ dialog.kind = "none"
  BY DEF CatInv, FileTypes, ImportKey, AtList
<1>2. \/ ImportRejected /\ UNCHANGED <<ran, late>>
      \/ UNCHANGED <<ran, late>> /\ \E b \in Bases, k \in Kinds : ImportDone(b, k)
      \/ UNCHANGED <<ran, late, catUi, catConn, catFiles>>
  BY DEF ImportKey, Act
<1>3. CASE ImportRejected /\ UNCHANGED <<ran, late>>
  BY <1>1, <1>3, ImportRejectedKeeps
<1>4. CASE UNCHANGED <<ran, late>> /\ \E b \in Bases, k \in Kinds : ImportDone(b, k)
  BY <1>4, ImportDoneKeeps
<1>5. CASE UNCHANGED <<ran, late, catUi, catConn, catFiles>>
  <2>1. UNCHANGED <<list, order, disk, meta, auth, born, uses, ran, late, dialog, sel, queue, tunnel, retry>>
    BY <1>5 DEF catUi, catConn, catFiles
  <2>2. ConnTypes'
    BY <2>1 DEF CatInv, ConnTypes
  <2>3. DialogInv'
    BY <2>1, DialogKeeps DEF CatInv
  <2> QED  BY <2>1, <2>2, <2>3, SteadyKeeps DEF CatInv
<1> QED  BY <1>2, <1>3, <1>4, <1>5

LEMMA DownloadedKeeps == ASSUME CatInv, Downloaded PROVE CatInv'
<1>1. late \in BOOLEAN
  BY DEF CatInv, FileTypes
<1>2. UNCHANGED ran
  BY DEF Downloaded, Event
<1>3. \/ UNCHANGED late /\ \E b \in Bases, k \in Kinds : ImportDone(b, k)
      \/ ImportRejected /\ late' = (late \/ dialog.kind # "none")
  BY DEF Downloaded
<1>4. CASE UNCHANGED late /\ \E b \in Bases, k \in Kinds : ImportDone(b, k)
  BY <1>2, <1>4, ImportDoneKeeps
<1>5. CASE ImportRejected /\ late' = (late \/ dialog.kind # "none")
  <2>1. late' \in BOOLEAN /\ (late => late') /\ (dialog.kind = "none" \/ late')
    BY <1>5
  <2> QED  BY <1>2, <1>5, <2>1, ImportRejectedKeeps
<1> QED  BY <1>3, <1>4, <1>5

LEMMA CliImportKeeps ==
    ASSUME CatInv, NEW b \in Bases, NEW k \in Kinds, CliImport(b, k)
    PROVE  CatInv'
<1>1. FileTypes /\ ConnTypes /\ DialogInv /\ DiskInv /\ ListInv /\ CredentialsInv
  BY DEF CatInv
<1>2. PICK f : f = Imported(b, k)
  OBVIOUS
<1>3. /\ born < MaxFiles /\ born' = born + 1 /\ disk' = disk \cup {f} /\ ran' = ran \cup {"import"}
      /\ UNCHANGED <<list, order, sel, dialog, meta, auth, late, uses, queue, tunnel, retry>>
  BY <1>2 DEF CliImport, Beside, catUi, catConn
<1>4. disk' \subseteq FileRecords /\ OneFileEach(disk') /\ IsFiniteSet(disk') /\ Cardinality(disk') <= born'
  BY <1>2, <1>3, ImportedFacts
<1>5. FileTypes'
  <2>1. born' \in Nat
    BY <1>1, <1>3 DEF FileTypes
  <2> QED  BY <1>1, <1>3, <1>4, <2>1 DEF FileTypes
<1>6. ConnTypes'
  BY <1>1, <1>3 DEF ConnTypes
<1>7. DialogInv'
  BY <1>1, <1>3 DEF DialogInv
<1>8. DiskInv'
  BY <1>4 DEF DiskInv
<1>9. ListInv'
  <2>1. Apart' => Apart
    BY <1>3 DEF Apart
  <2>2. ran' # {}
    BY <1>3
  <2>3. OnDisk(list, disk) => OnDisk(list, disk')
    BY <1>3 DEF OnDisk
  <2> QED  BY <1>1, <1>3, <2>1, <2>2, <2>3 DEF ListInv
<1>10. CredentialsInv'
  <2>1. Apart' => Apart
    BY <1>3 DEF Apart
  <2> QED  BY <1>1, <1>3, <2>1 DEF CredentialsInv, Secrets
<1> QED  BY <1>5, <1>6, <1>7, <1>8, <1>9, <1>10 DEF CatInv
LEMMA ConfirmDeleteKeeps == ASSUME CatInv, ConfirmDelete PROVE CatInv'
<1>1. FileTypes /\ ConnTypes /\ DialogInv /\ DiskInv /\ ListInv /\ CredentialsInv
  BY DEF CatInv
<1>2. /\ dialog' = IF Listed(dialog.idx) THEN NoDialog ELSE dialog
      /\ UNCHANGED <<order, meta, born, queue, tunnel, retry, uses, ran, late>>
  BY DEF ConfirmDelete, Act, catConn
<1>3. dialog' \in CatDialogs /\ (list' = list => DialogInv') /\ (Listed(dialog.idx) => DialogInv')
  BY <1>1, <1>2, DialogForms DEF DialogInv
<1>4. CASE ~(Listed(dialog.idx) /\ tunnel[list[dialog.idx].name] = "down")
  <2>1. UNCHANGED <<list, disk, auth, sel>> /\ DialogInv'
    BY <1>3, <1>4 DEF ConfirmDelete
  <2>2. ConnTypes'
    BY <1>1, <1>2, <2>1 DEF ConnTypes
  <2> QED  BY <1>2, <2>1, <2>2, SteadyKeeps DEF CatInv
<1>5. CASE Listed(dialog.idx) /\ tunnel[list[dialog.idx].name] = "down"
  <2>1. PICK i : i = dialog.idx
    OBVIOUS
  <2>2. PICK e : e = list[i]
    OBVIOUS
  <2>3. /\ list' = Without(list, i)
        /\ disk' = {f \in disk : Key(f) # Key(e)}
        /\ auth' = IF e.ov THEN auth \ {e.name} ELSE auth
        /\ sel' = IF list' = <<>> THEN 0 ELSE IF sel > Len(list') THEN Len(list') ELSE sel
    BY <1>5, <2>1, <2>2 DEF ConfirmDelete
  <2>4. i \in DOMAIN list /\ list \in Seq(CatEntry) /\ disk \subseteq FileRecords
    BY <1>1, <1>5, <2>1 DEF Listed, FileTypes
  <2>5. list' \in Seq(CatEntry)
    BY <2>3, <2>4, WithoutFacts
  <2>6. FileTypes'
    <3>1. disk' \subseteq disk /\ auth' \subseteq auth
      BY <2>3
    <3> QED  BY <1>1, <1>2, <2>5, <3>1 DEF FileTypes
  <2>7. ConnTypes'
    <3>1. Len(list') \in Nat /\ sel \in Nat
      BY <1>1, <2>5, CatListFacts DEF ConnTypes
    <3>2. sel' \in Nat
      BY <2>3, <3>1
    <3> QED  BY <1>1, <1>2, <3>2 DEF ConnTypes
  <2>8. DiskInv'
    <3>1. disk' \in SUBSET disk /\ IsFiniteSet(disk) /\ Cardinality(disk) <= born /\ born \in Nat /\ OneFileEach(disk)
      BY <1>1, <2>3 DEF DiskInv, FileTypes
    <3>2. IsFiniteSet(disk') /\ Cardinality(disk') <= Cardinality(disk)
      BY <3>1, FS_Subset
    <3>3. Cardinality(disk) \in Nat /\ Cardinality(disk') \in Nat
      BY <3>1, <3>2, FS_CardinalityType
    <3>4. Cardinality(disk') <= born'
      BY <1>2, <3>1, <3>2, <3>3
    <3>5. OneFileEach(disk')
      BY <3>1 DEF OneFileEach
    <3> QED  BY <3>2, <3>4, <3>5 DEF DiskInv
  <2>9. ListInv'
    <3>1. Apart => OnDisk(list, disk) /\ OneKeyEach(list) /\ UsesSaved(list, meta)
      BY <1>1 DEF ListInv
    <3>2. Apart => /\ OnDisk(list', disk') /\ OneKeyEach(list') /\ UsesSaved(list', meta)
                   /\ AllListed(list, disk) => AllListed(list', disk')
      BY <2>2, <2>3, <2>4, <3>1, WithoutKeeps
    <3>3. ran = {} => Apart /\ AllListed(list, disk)
      BY <1>1 DEF ListInv, Apart
    <3> QED  BY <1>2, <3>2, <3>3 DEF ListInv, Apart
  <2>10. CredentialsInv'
    <3> SUFFICES ASSUME Apart, ~late, NEW n \in auth' PROVE \E f \in disk' : f.name = n /\ f.ov
      BY <1>2 DEF CredentialsInv, Apart, Secrets
    <3>1. n \in auth /\ (e.ov => n # e.name)
      BY <2>3
    <3>2. PICK f \in disk : f.name = n /\ f.ov
      BY <1>1, <3>1 DEF CredentialsInv, Secrets
    <3>3. e \in CatEntry /\ File(e) \in disk
      BY <1>1, <2>2, <2>4, CatListFacts DEF ListInv, OnDisk
    <3>4. Key(File(e)) = Key(e) /\ File(e).ov = e.ov /\ Key(e) = <<e.name, e.ext>> /\ Key(f) = <<f.name, f.ext>>
      BY <3>3, EntryFields DEF Key
    <3>5. Key(f) # Key(e)
      <4> SUFFICES ASSUME Key(f) = Key(e) PROVE FALSE
        OBVIOUS
      <4>1. f.name = e.name
        BY <3>4
      <4>2. f = File(e)
        BY <1>1, <3>2, <3>3, <3>4 DEF DiskInv, OneFileEach
      <4> QED  BY <3>1, <3>2, <3>4, <4>1, <4>2
    <3> QED  BY <2>3, <3>2, <3>5
  <2>11. DialogInv'
    BY <1>3, <1>5
  <2> QED  BY <2>6, <2>7, <2>8, <2>9, <2>10, <2>11 DEF CatInv
<1> QED  BY <1>4, <1>5

LEMMA RenameStep == ASSUME CatInv, NEW n \in Names, Rename(n) PROVE CatInv'
<1>1. FileTypes /\ ConnTypes /\ DialogInv /\ DiskInv /\ ListInv /\ CredentialsInv
  BY DEF CatInv
<1>2. dialog' = NoDialog /\ UNCHANGED <<order, born, queue, tunnel, retry, uses, ran, late>>
  BY DEF Rename, Act, catConn
<1>3. dialog' \in CatDialogs /\ About(list, dialog') /\ DialogInv'
  BY <1>2, DialogForms DEF DialogInv
<1> DEFINE Allowed == /\ Listed(dialog.idx)
                      /\ \A f \in disk : Key(f) # <<n, list[dialog.idx].ext>>
                      /\ \E f \in disk : Key(f) = Key(list[dialog.idx])
<1>4. CASE ~Allowed
  <2>1. UNCHANGED <<list, disk, auth, meta, sel>>
    BY <1>4 DEF Rename
  <2>2. ConnTypes'
    BY <1>1, <1>2, <2>1 DEF ConnTypes
  <2> QED  BY <1>2, <1>3, <2>1, <2>2, SteadyKeeps DEF CatInv
<1>5. CASE Allowed
  <2>1. PICK i : i = dialog.idx
    OBVIOUS
  <2>2. PICK e : e = list[i]
    OBVIOUS
  <2>3. PICK m : m = [list EXCEPT ![i] = [list[i] EXCEPT !.name = n]]
    OBVIOUS
  <2>4. /\ disk' = {IF Key(f) = Key(e) THEN [f EXCEPT !.name = n] ELSE f : f \in disk}
        /\ auth' = IF e.ov /\ e.name \in auth THEN (auth \ {e.name}) \cup {n} ELSE auth
        /\ meta' = Saved(m)
        /\ list' = SortedBy(m, order)
        /\ sel' = Position(list', n)
    BY <1>5, <2>1, <2>2, <2>3 DEF Rename
  <2>5. i \in DOMAIN list /\ (\A f \in disk : Key(f) # <<n, e.ext>>)
    BY <1>5, <2>1, <2>2 DEF Listed
  <2>6. list \in Seq(CatEntry) /\ disk \subseteq FileRecords /\ order \in 1 .. 4 /\ OneFileEach(disk)
    BY <1>1 DEF FileTypes, DiskInv
  <2> HIDE DEF Allowed
  <2>7. /\ m \in Seq(CatEntry)
        /\ disk' \subseteq FileRecords /\ OneFileEach(disk')
        /\ IsFiniteSet(disk) => IsFiniteSet(disk') /\ Cardinality(disk') <= Cardinality(disk)
        /\ OnDisk(list, disk) /\ OneKeyEach(list) => OnDisk(m, disk') /\ OneKeyEach(m)
        /\ AllListed(list, disk) /\ OneKeyEach(list) => AllListed(m, disk')
    <3> DEFINE moved == {IF Key(f) = Key(list[i]) THEN [f EXCEPT !.name = n] ELSE f : f \in disk}
               renamed == [list EXCEPT ![i] = [list[i] EXCEPT !.name = n]]
    <3>1. \A f \in disk : Key(f) # <<n, list[i].ext>>
      BY <2>2, <2>5
    <3>2. /\ renamed \in Seq(CatEntry)
          /\ moved \subseteq FileRecords /\ OneFileEach(moved)
          /\ IsFiniteSet(disk) => IsFiniteSet(moved) /\ Cardinality(moved) <= Cardinality(disk)
          /\ OnDisk(list, disk) /\ OneKeyEach(list) => OnDisk(renamed, moved) /\ OneKeyEach(renamed)
          /\ AllListed(list, disk) /\ OneKeyEach(list) => AllListed(renamed, moved)
      BY <2>5, <2>6, <3>1, RenameKeeps
    <3>3. m = renamed /\ disk' = moved
      BY <2>2, <2>3, <2>4
    <3> HIDE DEF moved, renamed
    <3> QED  BY <3>2, <3>3
  <2>8. FileTypes'
    <3>1. list' \in Seq(CatEntry) /\ meta' \in [CatKeys -> Nat]
      BY <2>4, <2>6, <2>7, SortedKeeps, SavedFacts
    <3>2. auth' \subseteq Names
      BY <1>1, <2>4 DEF FileTypes
    <3> QED  BY <1>1, <1>2, <2>7, <3>1, <3>2 DEF FileTypes
  <2>9. ConnTypes'
    <3>1. sel' \in Nat
      BY <2>4, <2>6, <2>7, SortedKeeps
    <3> QED  BY <1>1, <1>2, <3>1 DEF ConnTypes
  <2>10. DiskInv'
    <3>1. IsFiniteSet(disk) /\ Cardinality(disk) <= born /\ born \in Nat
      BY <1>1 DEF DiskInv, FileTypes
    <3>2. Cardinality(disk) \in Nat /\ Cardinality(disk') \in Nat
      BY <2>7, <3>1, FS_CardinalityType
    <3>3. Cardinality(disk') <= born'
      BY <1>2, <2>7, <3>1, <3>2
    <3> QED  BY <2>7, <3>1, <3>3 DEF DiskInv
  <2>11. ListInv'
    <3>1. Apart => OnDisk(list, disk) /\ OneKeyEach(list)
      BY <1>1 DEF ListInv
    <3>2. Apart => OnDisk(list', disk') /\ OneKeyEach(list') /\ UsesSaved(list', meta')
      BY <2>4, <2>6, <2>7, <3>1, SortedKeeps, SavedFacts
    <3>3. ran = {} => Apart /\ AllListed(list, disk)
      BY <1>1 DEF ListInv, Apart
    <3>4. ran = {} => AllListed(list', disk')
      BY <2>4, <2>6, <2>7, <3>1, <3>3, SortedKeeps
    <3> QED  BY <1>2, <3>2, <3>4 DEF ListInv, Apart
  <2>12. CredentialsInv'
    <3> SUFFICES ASSUME Apart, ~late, NEW q \in auth' PROVE \E f \in disk' : f.name = q /\ f.ov
      BY <1>2 DEF CredentialsInv, Apart, Secrets
    <3>1. e \in CatEntry /\ File(e) \in disk
      BY <1>1, <2>2, <2>5, <2>6, CatListFacts DEF ListInv, OnDisk
    <3>2. /\ Key(File(e)) = Key(e) /\ File(e).ov = e.ov /\ Key(e) = <<e.name, e.ext>>
          /\ \A f \in disk : Key(f) = <<f.name, f.ext>>
      BY <3>1, EntryFields DEF Key
    <3>3. \A f \in disk : Key(f) # Key(e) => f \in disk'
      BY <2>4
    <3>4. CASE q = n /\ e.ov
      <4>1. [File(e) EXCEPT !.name = n] \in disk'
        BY <2>4, <3>1, <3>2
      <4>2. [File(e) EXCEPT !.name = n].name = n /\ [File(e) EXCEPT !.name = n].ov = e.ov
        BY <3>1 DEF File
      <4> QED  BY <3>4, <4>1, <4>2
    <3>5. CASE q \in auth /\ (e.ov => q # e.name)
      <4>1. PICK f \in disk : f.name = q /\ f.ov
        BY <1>1, <3>5 DEF CredentialsInv, Secrets
      <4>2. Key(f) # Key(e)
        <5> SUFFICES ASSUME Key(f) = Key(e) PROVE FALSE
          OBVIOUS
        <5>1. f.name = e.name
          BY <3>2
        <5>2. f = File(e)
          BY <1>1, <3>1, <3>2 DEF DiskInv, OneFileEach
        <5> QED  BY <3>2, <3>5, <4>1, <5>1, <5>2
      <4> QED  BY <3>3, <4>1, <4>2
    <3>6. (q = n /\ e.ov) \/ (q \in auth /\ (e.ov => q # e.name))
      BY <2>4
    <3> QED  BY <3>4, <3>5, <3>6
  <2> QED  BY <1>3, <2>8, <2>9, <2>10, <2>11, <2>12 DEF CatInv
<1> QED  BY <1>4, <1>5

LEMMA SubmitAuthKeeps == ASSUME CatInv, NEW save \in BOOLEAN, SubmitAuth(save) PROVE CatInv'
<1>1. FileTypes /\ ConnTypes /\ DialogInv /\ DiskInv /\ ListInv /\ CredentialsInv
  BY DEF CatInv
<1>2. /\ dialog.kind \in {"auth", "authConnect"}
      /\ UNCHANGED <<list, order, sel, queue, retry, uses, disk, meta, born, ran, late>>
  BY DEF SubmitAuth, Act
<1>3. list \in Seq(CatEntry) /\ tunnel \in [Names -> TunnelStates]
  BY <1>1 DEF FileTypes, ConnTypes
<1>4. CASE ~Listed(dialog.idx)
  <2>1. dialog' = NoDialog /\ UNCHANGED <<auth, tunnel>>
    BY <1>4 DEF SubmitAuth
  <2>2. ConnTypes'
    BY <1>1, <1>2, <2>1 DEF ConnTypes
  <2>3. DialogInv'
    BY <2>1, DialogForms DEF DialogInv
  <2> QED  BY <1>2, <2>1, <2>2, <2>3, SteadyKeeps DEF CatInv
<1>5. CASE Listed(dialog.idx)
  <2>1. PICK i \in DOMAIN list : i = dialog.idx
    BY <1>5 DEF Listed
  <2>2. PICK n : n = list[i].name
    OBVIOUS
  <2>3. n \in Names /\ list[i] \in CatEntry
    BY <1>3, <2>2, DialogOfEntry
  <2>4. /\ auth' = auth \cup {n} \/ auth' = auth \ {n}
        /\ \/ dialog' = NoDialog /\ UNCHANGED tunnel
           \/ dialog' = [Dialog("takeover", i) EXCEPT !.idx = 0] /\ UNCHANGED tunnel
           \/ dialog' = NoDialog /\ tunnel' = [tunnel EXCEPT ![n] = "connecting"]
    BY <1>5, <2>1, <2>2 DEF SubmitAuth
  <2>5. dialog' \in CatDialogs /\ About(list, dialog')
    BY <1>3, <2>1, <2>4, DialogOfEntry, DialogForms
  <2>6. DialogInv'
    BY <1>2, <2>5 DEF DialogInv
  <2>7. tunnel' \in [Names -> TunnelStates]
    BY <1>3, <2>4 DEF TunnelStates
  <2>8. ConnTypes'
    BY <1>1, <1>2, <2>7 DEF ConnTypes
  <2>9. FileTypes'
    <3>1. auth' \subseteq Names
      BY <1>1, <2>3, <2>4 DEF FileTypes
    <3> QED  BY <1>1, <1>2, <3>1 DEF FileTypes
  <2>10. DiskInv' /\ ListInv'
    BY <1>1, <1>2 DEF DiskInv, ListInv, Apart
  <2>11. CredentialsInv'
    <3> SUFFICES ASSUME Apart, ~late, NEW q \in auth' PROVE \E f \in disk : f.name = q /\ f.ov
      BY <1>2 DEF CredentialsInv, Apart, Secrets
    <3>1. CASE q \in auth
      BY <1>1, <3>1 DEF CredentialsInv, Secrets
    <3>2. CASE q = n
      <4>1. list[i].ov
        BY <1>1, <1>2, <2>1 DEF DialogInv, About
      <4>2. File(list[i]) \in disk
        BY <1>1, <2>1 DEF ListInv, OnDisk
      <4>3. File(list[i]).name = n /\ File(list[i]).ov
        BY <2>2, <2>3, <4>1, EntryFields
      <4> QED  BY <3>2, <4>2, <4>3
    <3>3. q \in auth \/ q = n
      BY <2>4
    <3> QED  BY <3>1, <3>2, <3>3
  <2> QED  BY <2>6, <2>8, <2>9, <2>10, <2>11 DEF CatInv
<1> QED  BY <1>4, <1>5

LEMMA ConnectOkKeeps == ASSUME CatInv, NEW n \in Names, ConnectOk(n) PROVE CatInv'
<1>1. FileTypes /\ ConnTypes /\ DialogInv /\ DiskInv /\ ListInv /\ CredentialsInv
  BY DEF CatInv
<1>2. list \in Seq(CatEntry) /\ uses \in Nat /\ uses + 1 \in Nat
  BY <1>1 DEF FileTypes
<1>3. PICK i : i = Position(list, n)
  OBVIOUS
<1>4. /\ list' = IF i = 0 THEN list ELSE [list EXCEPT ![i] = [list[i] EXCEPT !.used = uses + 1]]
      /\ meta' = Saved(list') /\ uses' = uses + 1
      /\ tunnel' = [tunnel EXCEPT ![n] = "up"]
      /\ retry' = [retry EXCEPT ![n] = NoEntry]
      /\ UNCHANGED <<order, sel, dialog, queue, disk, auth, born, ran, late>>
  BY <1>3 DEF ConnectOk, Seen, Event
<1>5. i # 0 => i \in DOMAIN list
  BY <1>2, <1>3, PositionSpec
<1>6. /\ list' \in Seq(CatEntry) /\ DOMAIN list' = DOMAIN list
      /\ \A j \in DOMAIN list : File(list'[j]) = File(list[j]) /\ Key(list'[j]) = Key(list[j])
                                /\ list'[j].name = list[j].name /\ list'[j].ov = list[j].ov
  <2>1. CASE i = 0
    BY <1>2, <1>4, <2>1
  <2>2. CASE i # 0
    BY <1>2, <1>4, <1>5, <2>2, StampKeeps
  <2> QED  BY <2>1, <2>2
<1>7. FileTypes'
  <2>1. meta' \in [CatKeys -> Nat]
    BY <1>4, <1>6, SavedFacts
  <2> QED  BY <1>1, <1>2, <1>4, <1>6, <2>1 DEF FileTypes
<1>8. ConnTypes'
  <2>1. tunnel' \in [Names -> TunnelStates] /\ retry' \in [Names -> CatEntries]
    BY <1>1, <1>4, DialogForms DEF ConnTypes, TunnelStates
  <2> QED  BY <1>1, <1>4, <2>1 DEF ConnTypes
<1>9. DialogInv'
  BY <1>1, <1>4, <1>6 DEF DialogInv, About
<1>10. DiskInv'
  BY <1>1, <1>4 DEF DiskInv
<1>11. ListInv'
  <2>1. OnDisk(list, disk) => OnDisk(list', disk)
    BY <1>6 DEF OnDisk
  <2>2. OneKeyEach(list) => OneKeyEach(list')
    BY <1>6 DEF OneKeyEach
  <2>3. AllListed(list, disk) => AllListed(list', disk)
    BY <1>6 DEF AllListed
  <2>4. OneKeyEach(list') => UsesSaved(list', meta')
    BY <1>4, <1>6, SavedFacts
  <2> QED  BY <1>1, <1>4, <2>1, <2>2, <2>3, <2>4 DEF ListInv, Apart
<1>12. CredentialsInv'
  BY <1>1, <1>4 DEF CredentialsInv, Apart
<1> QED  BY <1>7, <1>8, <1>9, <1>10, <1>11, <1>12 DEF CatInv

\* A CLI command that deletes or renames takes the catalogue's promise away, but
\* leaves one file for each key.
LEMMA CliDeleteKeeps == ASSUME CatInv, NEW f \in disk, CliDelete(f) PROVE CatInv'
<1>1. FileTypes /\ ConnTypes /\ DialogInv /\ DiskInv
  BY DEF CatInv
<1>2. /\ disk' = disk \ {f} /\ auth' \subseteq auth /\ ran' = ran \cup {"delete"}
      /\ UNCHANGED <<list, order, sel, dialog, meta, born, late, uses, queue, tunnel, retry>>
  BY DEF CliDelete, Beside, catUi, catConn
<1>3. FileTypes'
  BY <1>1, <1>2 DEF FileTypes
<1>4. ConnTypes' /\ DialogInv'
  BY <1>1, <1>2 DEF ConnTypes, DialogInv
<1>5. DiskInv'
  <2>1. disk' \in SUBSET disk /\ IsFiniteSet(disk) /\ Cardinality(disk) <= born /\ born \in Nat /\ OneFileEach(disk)
    BY <1>1, <1>2 DEF DiskInv, FileTypes
  <2>2. IsFiniteSet(disk') /\ Cardinality(disk') <= Cardinality(disk)
    BY <2>1, FS_Subset
  <2>3. Cardinality(disk) \in Nat /\ Cardinality(disk') \in Nat
    BY <2>1, <2>2, FS_CardinalityType
  <2>4. Cardinality(disk') <= born'
    BY <1>2, <2>1, <2>2, <2>3
  <2>5. OneFileEach(disk')
    BY <2>1 DEF OneFileEach
  <2> QED  BY <2>2, <2>4, <2>5 DEF DiskInv
<1>6. ListInv' /\ CredentialsInv'
  <2>1. ~Apart' /\ ran' # {}
    BY <1>2 DEF Apart
  <2> QED  BY <2>1 DEF ListInv, CredentialsInv
<1> QED  BY <1>3, <1>4, <1>5, <1>6 DEF CatInv

LEMMA CliRenameKeeps == ASSUME CatInv, NEW f \in disk, NEW n \in Names, CliRename(f, n) PROVE CatInv'
<1>1. FileTypes /\ ConnTypes /\ DialogInv /\ DiskInv
  BY DEF CatInv
<1>2. PICK g : g = [f EXCEPT !.name = n]
  OBVIOUS
<1>3. /\ disk' = (disk \ {f}) \cup {g} /\ ran' = ran \cup {"rename"}
      /\ meta' = [k \in CatKeys |-> 0]
      /\ \A h \in disk : Key(h) # <<n, f.ext>>
      /\ UNCHANGED <<list, order, sel, dialog, auth, born, late, uses, queue, tunnel, retry>>
  BY <1>2 DEF CliRename, Beside, catUi, catConn, CatKeys
<1>4. f \in FileRecords
  BY <1>1 DEF FileTypes
<1>5. g \in FileRecords /\ Key(g) = <<n, f.ext>>
  BY <1>2, <1>4 DEF FileRecords, Key
<1>6. FileTypes'
  BY <1>1, <1>3, <1>5 DEF FileTypes
<1>7. ConnTypes' /\ DialogInv'
  BY <1>1, <1>3 DEF ConnTypes, DialogInv
<1>8. DiskInv'
  <2>1. IsFiniteSet(disk) /\ Cardinality(disk) <= born /\ born \in Nat /\ OneFileEach(disk)
    BY <1>1 DEF DiskInv, FileTypes
  <2>2. Cardinality(disk) \in Nat
    BY <2>1, FS_CardinalityType
  <2>3. IsFiniteSet(disk \ {f}) /\ Cardinality(disk \ {f}) = Cardinality(disk) - 1
    BY <2>1, FS_RemoveElement
  <2>4. /\ IsFiniteSet(disk')
        /\ Cardinality(disk') = IF g \in disk \ {f} THEN Cardinality(disk \ {f}) ELSE Cardinality(disk \ {f}) + 1
    BY <1>3, <2>3, FS_AddElement
  <2>5. Cardinality(disk') <= born'
    BY <1>3, <2>1, <2>2, <2>3, <2>4
  <2>6. OneFileEach(disk')
    BY <1>3, <1>5, <2>1 DEF OneFileEach
  <2> QED  BY <2>4, <2>5, <2>6 DEF DiskInv
<1>9. ListInv' /\ CredentialsInv'
  <2>1. ~Apart' /\ ran' # {}
    BY <1>3 DEF Apart
  <2> QED  BY <2>1 DEF ListInv, CredentialsInv
<1> QED  BY <1>6, <1>7, <1>8, <1>9 DEF CatInv
LEMMA CatInitHolds == ASSUME CatInit PROVE CatInv
<1>1. PICK b, c \in Bases, k, q \in Kinds :
          /\ <<b, k[1]>> # <<c, q[1]>>
          /\ disk = {[name |-> 10 * b, ext |-> k[1], ov |-> k[2], id |-> 1],
                     [name |-> 10 * c, ext |-> q[1], ov |-> q[2], id |-> 2]}
  BY DEF CatInit
<1>2. PICK f : f = [name |-> 10 * b, ext |-> k[1], ov |-> k[2], id |-> 1]
  OBVIOUS
<1>3. PICK g : g = [name |-> 10 * c, ext |-> q[1], ov |-> q[2], id |-> 2]
  OBVIOUS
<1>4. disk = {f, g}
  BY <1>1, <1>2, <1>3
<1>5. f \in FileRecords /\ g \in FileRecords
  <2>1. k[1] \in ExtKinds /\ k[2] \in BOOLEAN /\ q[1] \in ExtKinds /\ q[2] \in BOOLEAN
    BY CatAssumption
  <2>2. 10 * b \in Names /\ 10 * c \in Names
    BY NameFacts
  <2> QED  BY <1>2, <1>3, <2>1, <2>2 DEF FileRecords
<1>6. Key(f) # Key(g) /\ f.id = 1 /\ g.id = 2
  <2>1. Key(f) = <<10 * b, k[1]>> /\ Key(g) = <<10 * c, q[1]>>
    BY <1>2, <1>3 DEF Key
  <2>2. b \in Nat /\ c \in Nat
    BY CatAssumption
  <2>3. 10 * b = 10 * c => b = c
    BY <2>2
  <2> QED  BY <1>1, <1>2, <1>3, <2>1, <2>3
<1> DEFINE read == [i \in 1 .. 2 |-> Listing(CHOOSE h \in disk : h.id = i, 0)]
           loaded == SortedBy(read, order)
<1>7. read \in Seq(CatEntry) /\ DOMAIN read = 1 .. 2 /\ read[1] = Listing(f, 0) /\ read[2] = Listing(g, 0)
  <2>1. (CHOOSE h \in disk : h.id = 1) = f /\ (CHOOSE h \in disk : h.id = 2) = g
    BY <1>4, <1>6
  <2>2. Listing(f, 0) \in CatEntry /\ Listing(g, 0) \in CatEntry
    BY <1>5, EntryFields
  <2>3. DOMAIN read = 1 .. 2 /\ read = [i \in 1 .. 2 |-> read[i]]
    OBVIOUS
  <2>4. read[1] = Listing(f, 0)
    <3>1. 1 \in 1 .. 2
      OBVIOUS
    <3>2. read[1] = Listing(CHOOSE h \in disk : h.id = 1, 0)
      BY <3>1
    <3> QED  BY <2>1, <3>2
  <2>5. read[2] = Listing(g, 0)
    <3>1. 2 \in 1 .. 2
      OBVIOUS
    <3>2. read[2] = Listing(CHOOSE h \in disk : h.id = 2, 0)
      BY <3>1
    <3> QED  BY <2>1, <3>2
  <2> HIDE DEF read
  <2>6. \A i \in 1 .. 2 : read[i] \in CatEntry
    <3>1. \A i \in 1 .. 2 : i = 1 \/ i = 2
      OBVIOUS
    <3> QED  BY <2>2, <2>4, <2>5, <3>1
  <2>7. read \in Seq(CatEntry)
    BY <2>3, <2>6
  <2> QED  BY <2>3, <2>4, <2>5, <2>7
<1>8. order \in 1 .. 4
  BY CatAssumption DEF CatInit
<1> HIDE DEF read
<1>9. File(read[1]) = f /\ File(read[2]) = g /\ \A i \in 1 .. 2 : read[i] \in CatEntry /\ Key(File(read[i])) = Key(read[i])
  <2>1. File(Listing(f, 0)) = f /\ File(Listing(g, 0)) = g
    BY <1>5, EntryFields
  <2>2. \A i \in 1 .. 2 : read[i] \in CatEntry
    BY <1>7, CatListFacts
  <2>3. \A i \in 1 .. 2 : Key(File(read[i])) = Key(read[i])
    BY <2>2, EntryFields
  <2> QED  BY <1>7, <2>1, <2>2, <2>3
<1>10. OnDisk(read, disk) /\ OneKeyEach(read) /\ AllListed(read, disk)
  <2>1. DOMAIN read = {1, 2}
    BY <1>7
  <2>2. Key(read[1]) # Key(read[2])
    BY <1>6, <1>9, <2>1
  <2> QED  BY <1>4, <1>9, <2>1, <2>2 DEF OnDisk, OneKeyEach, AllListed
<1>11. PICK used \in 0 .. 2 :
           /\ list = [i \in 1 .. 2 |-> [loaded[i] EXCEPT !.used = IF i = used THEN 1 ELSE 0]]
           /\ tunnel \in {[n \in Names |-> IF used # 0 /\ n = loaded[used].name THEN s ELSE "down"] :
                              s \in {"down", "connecting", "up"}}
  BY DEF CatInit, read, loaded
<1>12. /\ loaded \in Seq(CatEntry) /\ Len(loaded) = Len(read)
       /\ OnDisk(loaded, disk) /\ OneKeyEach(loaded) /\ AllListed(loaded, disk)
  BY <1>7, <1>8, <1>10, SortShuffles, SortedKeeps
<1> HIDE DEF loaded
<1>13. DOMAIN loaded = 1 .. 2
  BY <1>7, <1>12, CatListFacts
<1>14. \A i \in 1 .. 2 : /\ list[i] \in CatEntry /\ File(list[i]) = File(loaded[i]) /\ Key(list[i]) = Key(loaded[i])
  <2> TAKE i \in 1 .. 2
  <2>1. PICK u \in Nat : list[i] = [loaded[i] EXCEPT !.used = u]
    <3>1. list[i] = [loaded[i] EXCEPT !.used = IF i = used THEN 1 ELSE 0]
      BY <1>11
    <3>2. (IF i = used THEN 1 ELSE 0) \in Nat
      OBVIOUS
    <3> QED  BY <3>1, <3>2
  <2>2. loaded[i] \in CatEntry
    BY <1>12, <1>13, CatListFacts
  <2> QED  BY <2>1, <2>2 DEF CatEntry, File, Key
<1>15. DOMAIN list = 1 .. 2 /\ list = [i \in 1 .. 2 |-> list[i]]
  BY <1>11
<1>16. list \in Seq(CatEntry)
  BY <1>14, <1>15
<1>17. /\ uses = 1 /\ meta = Saved(list) /\ sel = 1 /\ dialog = NoDialog /\ queue = 0
       /\ retry = [n \in Names |-> NoEntry] /\ auth = {} /\ born = 2 /\ ran = {} /\ late = FALSE
  BY DEF CatInit
<1>18. FileTypes
  <2>1. meta \in [CatKeys -> Nat]
    BY <1>16, <1>17, SavedFacts
  <2>2. disk \subseteq FileRecords
    BY <1>4, <1>5
  <2> QED  BY <1>8, <1>16, <1>17, <2>1, <2>2 DEF FileTypes
<1>19. ConnTypes
  <2>1. tunnel \in [Names -> TunnelStates]
    BY <1>11 DEF TunnelStates
  <2> QED  BY <1>17, <2>1, DialogForms DEF ConnTypes
<1>20. DialogInv
  BY <1>17, DialogForms DEF DialogInv
<1>21. DiskInv
  <2>1. IsFiniteSet({f}) /\ Cardinality({f}) = 1
    BY FS_Singleton
  <2>2. IsFiniteSet({f} \cup {g}) /\ Cardinality({f} \cup {g}) = IF g \in {f} THEN 1 ELSE 1 + 1
    BY <2>1, FS_AddElement
  <2>3. {f} \cup {g} = disk
    BY <1>4
  <2>4. OneFileEach(disk)
    BY <1>4, <1>6 DEF OneFileEach
  <2> QED  BY <1>17, <2>2, <2>3, <2>4 DEF DiskInv
<1>22. ListInv
  <2>1. OnDisk(list, disk)
    BY <1>12, <1>13, <1>14, <1>15 DEF OnDisk
  <2>2. OneKeyEach(list)
    BY <1>12, <1>13, <1>14, <1>15 DEF OneKeyEach
  <2>3. AllListed(list, disk)
    BY <1>12, <1>13, <1>14, <1>15 DEF AllListed
  <2>4. UsesSaved(list, meta)
    BY <1>16, <1>17, <2>2, SavedFacts
  <2> QED  BY <2>1, <2>2, <2>3, <2>4 DEF ListInv
<1>23. CredentialsInv
  BY <1>17 DEF CredentialsInv, Secrets
<1> QED  BY <1>18, <1>19, <1>20, <1>21, <1>22, <1>23 DEF CatInv

LEMMA CatStep == ASSUME CatInv, [CatNext]_catVars PROVE CatInv'
<1>1. CASE UNCHANGED catVars
  <2>1. UNCHANGED <<list, order, disk, meta, auth, born, uses, ran, late, dialog, sel, queue, tunnel, retry>>
    BY <1>1 DEF catVars, catUi, catConn, catFiles, catHist
  <2>2. ConnTypes'
    BY <2>1 DEF CatInv, ConnTypes
  <2>3. DialogInv'
    BY <2>1, DialogKeeps DEF CatInv
  <2> QED  BY <2>1, <2>2, <2>3, SteadyKeeps DEF CatInv
<1>2. CASE UserKey
  BY <1>2, SelectKeeps, CycleKeeps, ToggleKeeps, TakeoverKeeps, OpenDialogKeeps, CancelKeeps,
     ConfirmDeleteKeeps, ImportKeyKeeps, RenameStep, SubmitAuthKeeps, NameFacts DEF UserKey
<1>3. CASE Arrival
  BY <1>3, DownloadedKeeps, NetworkChangedKeeps, ConnectOkKeeps, ConnectFailedKeeps, DropKeeps,
     AdoptKeeps, ClosedKeeps, RetryFiresKeeps DEF Arrival
<1>4. CASE Command
  BY <1>4, CliImportKeeps, CliDeleteKeeps, CliRenameKeeps, NameFacts DEF Command
<1> QED  BY <1>1, <1>2, <1>3, <1>4 DEF CatNext

\* The list, the files and the dialogs agree in every reachable state.
LEMMA CatInvHolds == CatSpec => []CatInv
<1>1. CatInit => CatInv
  BY CatInitHolds
<1>2. CatInv /\ [CatNext]_catVars => CatInv'
  BY CatStep
<1> QED  BY <1>1, <1>2, PTL DEF CatSpec

\* The catalogue's variables keep their types (VpnRuntime's list and its companions).
THEOREM CatTypeCorrect == CatSpec => []CatTypeOK
<1>1. CatInv => CatTypeOK
  <2> SUFFICES ASSUME CatInv PROVE CatTypeOK
    OBVIOUS
  <2>1. FileTypes /\ ConnTypes /\ DialogInv
    BY DEF CatInv
  <2>2. \A i \in DOMAIN list : File(list[i]) \in FileRecords /\ list[i].used \in Nat
    BY <2>1, CatListFacts, EntryFields DEF FileTypes
  <2> QED  BY <2>1, <2>2 DEF CatTypeOK, FileTypes, ConnTypes, DialogInv, CatDialogs, CatEntries, CatKeys
<1> QED  BY <1>1, CatInvHolds, PTL

\* A dialog that acts on a position acts on the profile it names, whatever happened behind it, unless
\* an import failed meanwhile (confirm_delete, rename_profile, handle_auth_submit).
THEOREM DialogIsRightHolds == CatSpec => []DialogIsRight
<1>1. CatInv => DialogIsRight
  BY DEF CatInv, DialogInv, About, DialogIsRight, Listed
<1> QED  BY <1>1, CatInvHolds, PTL

\* What is on disk is what the list says and what a restart will read, as long as no CLI command
\* renames or deletes beside the TUI (import_profile, confirm_delete, rename_profile, save_metadata).
THEOREM DiskMatchesListHolds == CatSpec => []DiskMatchesList
<1>1. CatInv => DiskMatchesList
  <2> SUFFICES ASSUME CatInv PROVE DiskMatchesList
    OBVIOUS
  <2>1. ListInv /\ CredentialsInv
    BY DEF CatInv
  <2>2. ran = {} => Apart
    BY DEF Apart
  <2>3. FilesMatchList
    BY <2>1, <2>2 DEF ListInv, Apart, FilesMatchList, OnDisk, OneKeyEach, AllListed
  <2>4. NoOrphanSecrets
    BY <2>1 DEF CredentialsInv, Apart, NoOrphanSecrets, Secrets
  <2>5. HistoryKept
    BY <2>1 DEF ListInv, Apart, HistoryKept, UsesSaved
  <2> QED  BY <2>3, <2>4, <2>5 DEF DiskMatchesList
<1> QED  BY <1>1, CatInvHolds, PTL
=============================================================================
