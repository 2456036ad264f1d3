--------------------------- MODULE Interface_proofs --------------------------
(* What the interface reads and how it answers: the registry of tunnels      *)
(* under every sequence of its calls; the panels of the dashboard over it;   *)
(* and the keyboard, dialogs and viewers of the screen, for any number of    *)
(* profiles, any names, texts and pages, and any width and heights of the    *)
(* terminal.                                                                 *)
EXTENDS MCVortixParts, Storage_proofs, Subprocess_proofs, Observation_proofs,
        FiniteSetTheorems, SequenceTheorems, WellFoundedInduction, TLAPS

-----------------------------------------------------------------------------
(* TunnelRegistry: orders and folds                                          *)

\* What holds of 0, and of each number after one it holds of, holds up to n.
LEMMA UpTo ==
    ASSUME NEW n \in Nat, NEW T, T \subseteq 0 .. n, 0 \in T,
           \A k \in 0 .. n : k < n /\ k \in T => k + 1 \in T
    PROVE  T = 0 .. n
<1> SUFFICES ASSUME (0 .. n) \ T # {} PROVE FALSE
  OBVIOUS
<1>1. PICK x \in (0 .. n) \ T : \A y \in (0 .. n) \ T : x <= y
  <2>1. (0 .. n) \ T \subseteq Nat
    OBVIOUS
  <2> QED  BY <2>1, LeastNumber
<1>2. x # 0 /\ x \in Nat /\ x <= n
  BY <1>1
<1>3. x - 1 \in 0 .. n /\ x - 1 < n /\ ~(x <= x - 1) /\ (x - 1) + 1 = x
  BY <1>2
<1>4. x - 1 \in T
  BY <1>1, <1>3
<1> QED  BY <1>1, <1>3, <1>4

\* The sequence InOrder chooses exists: it lists the set from its least member up.
LEMMA InOrderFacts ==
    ASSUME NEW S, S \subseteq Nat, IsFiniteSet(S)
    PROVE  /\ Cardinality(S) \in Nat
           /\ InOrder(S) \in [1 .. Cardinality(S) -> S]
           /\ \A i, j \in 1 .. Cardinality(S) : i < j => InOrder(S)[i] < InOrder(S)[j]
           /\ \A x \in S : \E i \in 1 .. Cardinality(S) : InOrder(S)[i] = x
<1> DEFINE n == Cardinality(S)
           D == 1 .. n
           Upto(x) == {y \in S : y <= x}
           rank(x) == Cardinality(Upto(x))
           g == [x \in S |-> rank(x)]
           Rises(s) == \A i, j \in DOMAIN s : i < j => s[i] < s[j]
<1>1. n \in Nat
  BY FS_CardinalityType
<1>2. ASSUME NEW x \in S
      PROVE  /\ IsFiniteSet(Upto(x)) /\ rank(x) \in Nat /\ rank(x) <= n /\ rank(x) # 0
  <2>1. Upto(x) \subseteq S /\ x \in Upto(x)
    OBVIOUS
  <2> HIDE DEF Upto
  <2>2. IsFiniteSet(Upto(x)) /\ Cardinality(Upto(x)) <= n
    BY <2>1, FS_Subset
  <2>3. Cardinality(Upto(x)) \in Nat /\ Cardinality(Upto(x)) # 0
    BY <2>1, <2>2, FS_CardinalityType, FS_EmptySet
  <2> QED  BY <2>2, <2>3
<1>3. ASSUME NEW x \in S, NEW y \in S, x < y
      PROVE  rank(x) < rank(y)
  <2>1. Upto(x) \subseteq Upto(y) /\ y \in Upto(y) /\ y \notin Upto(x)
    <3>1. x \in Nat /\ y \in Nat /\ \A z \in S : z \in Nat
      OBVIOUS
    <3>2. \A z \in S : z <= x => z <= y
      BY <1>3, <3>1
    <3>3. y <= y /\ ~(y <= x)
      BY <1>3, <3>1
    <3> QED  BY <3>2, <3>3
  <2>2. IsFiniteSet(Upto(x)) /\ IsFiniteSet(Upto(y)) /\ rank(x) \in Nat /\ rank(y) \in Nat
    BY <1>2
  <2> HIDE DEF Upto
  <2>3. Cardinality(Upto(x)) <= Cardinality(Upto(y)) /\ Cardinality(Upto(x)) # Cardinality(Upto(y))
    BY <2>1, <2>2, FS_Subset
  <2> QED  BY <2>2, <2>3
<1> HIDE DEF Upto
<1>4. \A x \in S : rank(x) \in D
  BY <1>1, <1>2
<1> HIDE DEF rank
<1>5. \A x, y \in S : rank(x) = rank(y) => x = y
  <2> SUFFICES ASSUME NEW x \in S, NEW y \in S, rank(x) = rank(y), x # y PROVE FALSE
    OBVIOUS
  <2>1. x < y \/ y < x
    OBVIOUS
  <2>2. rank(x) \in Nat /\ rank(y) \in Nat
    BY <1>2
  <2> QED  BY <1>3, <2>1, <2>2
<1>6. IsFiniteSet(D) /\ Cardinality(D) = n
  BY <1>1, FS_Interval
<1>7. g \in Injection(S, D)
  <2>1. g \in [S -> D]
    BY <1>4
  <2> QED  BY <1>5, <2>1 DEF Injection, IsInjective
<1>8. g \in Surjection(S, D)
  BY <1>6, <1>7, FS_Injection
<1>9. \A i \in D : \E x \in S : rank(x) = i
  <2>1. \A i \in D : \E x \in S : g[x] = i
    BY <1>8 DEF Surjection
  <2> QED  BY <2>1
<1> DEFINE f == [i \in D |-> CHOOSE x \in S : rank(x) = i]
<1>10. \A i \in D : f[i] \in S /\ rank(f[i]) = i
  BY <1>9
<1>11. f \in [D -> S]
  BY <1>10
<1>12. DOMAIN f = D
  OBVIOUS
<1> HIDE DEF f
<1>13. Rises(f)
  <2> SUFFICES ASSUME NEW i \in D, NEW j \in D, i < j PROVE f[i] < f[j]
    BY <1>12
  <2>1. f[i] \in Nat /\ f[j] \in Nat /\ i \in Nat /\ j \in Nat
    <3>1. f[i] \in S /\ f[j] \in S
      BY <1>10
    <3>2. f[i] \in Nat /\ f[j] \in Nat
      BY <3>1
    <3> QED  BY <1>1, <3>2
  <2>2. f[i] # f[j] /\ ~(f[j] < f[i])
    <3>1. rank(f[i]) = i /\ rank(f[j]) = j
      BY <1>10
    <3>2. f[j] < f[i] => j < i
      BY <1>3, <1>10, <3>1
    <3> QED  BY <2>1, <3>1, <3>2
  <2> QED  BY <2>1, <2>2
<1>14. InOrder(S) = CHOOSE s \in [D -> S] : Rises(s)
  BY DEF InOrder
<1> HIDE DEF Rises
<1>15. InOrder(S) \in [D -> S] /\ Rises(InOrder(S))
  BY <1>11, <1>13, <1>14
<1>16. \A i, j \in D : i < j => InOrder(S)[i] < InOrder(S)[j]
  BY <1>15 DEF Rises
<1>17. ASSUME NEW x \in S PROVE \E i \in D : InOrder(S)[i] = x
  <2> DEFINE h == InOrder(S)
  <2>1. h \in [D -> S]
    BY <1>15
  <2>2. h \in Injection(D, S)
    <3>1. \A i, j \in D : h[i] = h[j] => i = j
      <4> SUFFICES ASSUME NEW i \in D, NEW j \in D, h[i] = h[j], i # j PROVE FALSE
        OBVIOUS
      <4>1. i < j \/ j < i
        BY <1>1
      <4>2. h[i] \in Nat /\ h[j] \in Nat
        BY <2>1
      <4> QED  BY <1>16, <4>1, <4>2
    <3> QED  BY <2>1, <3>1 DEF Injection, IsInjective
  <2>3. h \in Surjection(D, S)
    BY <1>6, <2>2, FS_Injection
  <2> QED  BY <2>3 DEF Surjection
<1> QED  BY <1>1, <1>15, <1>16, <1>17

\* A fold over the numbers up to n exists, and stays within X.
Stays(F, n, X)        == \A r \in X : \A k \in 1 .. n : F[<<r, k>>] \in X
FoldsFrom(g, F, n, x) == g[0] = x /\ \A k \in 1 .. n : g[k] = F[<<g[k - 1], k>>]

LEMMA FoldExists ==
    ASSUME NEW n \in Nat, NEW X, NEW x0 \in X, NEW F, Stays(F, n, X)
    PROVE  \E g \in [0 .. n -> X] : FoldsFrom(g, F, n, x0)
<1> DEFINE Folds(g, m) == /\ g \in [0 .. m -> X] /\ g[0] = x0
                          /\ \A k \in 1 .. m : g[k] = F[<<g[k - 1], k>>]
           T == {m \in 0 .. n : \E g : Folds(g, m)}
<1>1. 0 \in T
  <2> DEFINE g0 == [k \in 0 .. 0 |-> x0]
  <2>1. g0 \in [0 .. 0 -> X] /\ g0[0] = x0
    OBVIOUS
  <2> HIDE DEF g0
  <2>2. Folds(g0, 0)
    BY <2>1
  <2> HIDE DEF Folds
  <2>3. \E g : Folds(g, 0)
    BY <2>2
  <2> QED  BY <2>3
<1>2. ASSUME NEW m \in 0 .. n, m < n, m \in T PROVE m + 1 \in T
  <2>1. PICK g : Folds(g, m)
    BY <1>2
  <2> DEFINE h == [k \in 0 .. m + 1 |-> IF k = m + 1 THEN F[<<g[m], m + 1>>] ELSE g[k]]
  <2>2. m \in Nat /\ m \in 0 .. m /\ m + 1 \in 1 .. n /\ m + 1 \in 0 .. n
    BY <1>2
  <2>3. F[<<g[m], m + 1>>] \in X
    BY <2>1, <2>2 DEF Stays
  <2>4. \A k \in 0 .. m + 1 : k # m + 1 => k \in 0 .. m
    BY <2>2
  <2>5. h \in [0 .. m + 1 -> X]
    BY <2>1, <2>3, <2>4
  <2>6. \A k \in 0 .. m : k \in 0 .. m + 1 /\ k # m + 1
    BY <2>2
  <2>7. /\ \A k \in 0 .. m : h[k] = g[k]
        /\ h[m + 1] = F[<<g[m], m + 1>>]
    BY <2>2, <2>6
  <2>8. h[0] = x0
    BY <2>1, <2>2, <2>7
  <2> HIDE DEF h
  <2>9. ASSUME NEW k \in 1 .. m + 1 PROVE h[k] = F[<<h[k - 1], k>>]
    <3>1. CASE k = m + 1
      <4>1. k - 1 = m
        BY <2>2, <3>1
      <4> QED  BY <2>2, <2>7, <3>1, <4>1
    <3>2. CASE k # m + 1
      <4>1. k \in 1 .. m /\ k \in 0 .. m /\ k - 1 \in 0 .. m
        BY <2>2, <3>2
      <4> QED  BY <2>1, <2>7, <4>1
    <3> QED  BY <3>1, <3>2
  <2>10. Folds(h, m + 1)
    BY <2>5, <2>8, <2>9
  <2> QED  BY <2>2, <2>10
<1> HIDE DEF Folds
<1>3. T = 0 .. n
  <2>1. T \subseteq 0 .. n
    OBVIOUS
  <2> HIDE DEF T
  <2> QED  BY <1>1, <1>2, <2>1, UpTo
<1>4. \E g : Folds(g, n)
  BY <1>3
<1> QED  BY <1>4 DEF Folds, FoldsFrom

-----------------------------------------------------------------------------
(* Registries *)

Registries == [state : [Ids -> EntryStates], queued : [Ids -> Ids \cup {0}], primary : Ids \cup {0}]

RegInv == reg \in Registries /\ route \in Ids \cup {0} /\ stopped \in BOOLEAN /\ calls \in Nat

LEMMA RegFacts ==
    /\ Ids \subseteq Nat /\ IsFiniteSet(Ids) /\ 0 \notin Ids
    /\ Down \subseteq EntryStates /\ Standing \subseteq EntryStates
    /\ Down \cap Standing = {} /\ "absent" \notin Down \cup Standing
    /\ \A ups \in Ups : \A p \in Ids : ups[p] \in EntryStates /\ ups[p] \in {"up", "failed"}
    /\ \A downs \in Downs : \A p \in Ids : downs[p] \in EntryStates /\ downs[p] \in Down
<1>1. Down \subseteq EntryStates /\ Standing \subseteq EntryStates
  BY DEF Down, Standing, EntryStates
<1>2. Down \cap Standing = {} /\ "absent" \notin Down \cup Standing
  BY DEF Down, Standing
<1>3. \A ups \in Ups : \A p \in Ids : ups[p] \in EntryStates /\ ups[p] \in {"up", "failed"}
  BY DEF Ups, EntryStates
<1>4. \A downs \in Downs : \A p \in Ids : downs[p] \in EntryStates /\ downs[p] \in Down
  BY <1>1 DEF Downs
<1> QED  BY RegistryAssumption, <1>1, <1>2, <1>3, <1>4

LEMMA ElectedType ==
    ASSUME NEW r \in Registries, route \in Ids \cup {0}
    PROVE  /\ Elected(r) \in Registries
           /\ Elected(r).state = r.state /\ Elected(r).queued = r.queued
           /\ Elected(r).primary = IF route # 0 /\ r.state[route] = "up" THEN route ELSE 0
BY DEF Elected, Registries

LEMMA UpType ==
    ASSUME NEW r \in Registries, NEW p \in Ids, NEW ups \in Ups
    PROVE  /\ Up(r, p, ups) \in Registries
           /\ Up(r, p, ups).queued = r.queued /\ Up(r, p, ups).primary = r.primary
<1>1. ups[p] \in EntryStates
  BY RegFacts
<1> QED  BY <1>1 DEF Up, Registries

LEMMA DownType ==
    ASSUME NEW r \in Registries, NEW p \in Ids, NEW downs \in Downs
    PROVE  /\ TakenDown(r, p, downs) \in Registries
           /\ TakenDown(r, p, downs).queued = r.queued
           /\ TakenDown(r, p, downs).state =
                 [r.state EXCEPT ![p] = IF r.state[p] \in Standing THEN downs[p] ELSE @]
<1>1. downs[p] \in EntryStates
  BY RegFacts
<1> QED  BY <1>1 DEF TakenDown, Registries

Hosts(r) == {h \in Ids : r.state[h] \in Down /\ r.queued[h] # 0}

LEMMA DrainedIs ==
    ASSUME NEW r \in Registries, NEW ups \in Ups, route \in Ids \cup {0}
    PROVE  /\ Drained(r, ups) \in Registries
           /\ Drained(r, ups).queued = [h \in Ids |-> IF h \in Hosts(r) THEN 0 ELSE r.queued[h]]
           /\ Drained(r, ups).state =
                 [p \in Ids |-> IF (\E h \in Hosts(r) : r.queued[h] = p) /\ r.state[p] \in Down
                                THEN ups[p] ELSE r.state[p]]
<1> DEFINE H == Hosts(r)
           fired == {r.queued[h] : h \in H}
           q == [h \in Ids |-> IF h \in H THEN 0 ELSE r.queued[h]]
           s == [p \in Ids |-> IF p \in fired /\ r.state[p] \in Down THEN ups[p] ELSE r.state[p]]
           d == [r EXCEPT !.queued = q, !.state = s]
<1>1. Drained(r, ups) = Elected(d)
  BY DEF Drained, Hosts
<1>2. q \in [Ids -> Ids \cup {0}]
  BY DEF Registries
<1>3. \A p \in Ids : ups[p] \in EntryStates /\ r.state[p] \in EntryStates
  BY RegFacts DEF Registries
<1>4. s \in [Ids -> EntryStates]
  BY <1>3
<1>5. s = [p \in Ids |-> IF (\E h \in Hosts(r) : r.queued[h] = p) /\ r.state[p] \in Down
                         THEN ups[p] ELSE r.state[p]]
  OBVIOUS
<1> HIDE DEF q, s
<1>6. d \in Registries /\ d.queued = q /\ d.state = s
  BY <1>2, <1>4 DEF Registries
<1> HIDE DEF d
<1>7. Elected(d) \in Registries /\ Elected(d).queued = q /\ Elected(d).state = s
  BY <1>6, ElectedType
<1> QED  BY <1>1, <1>5, <1>7 DEF q

LEMMA ReachedType ==
    ASSUME NEW r \in Registries, NEW p \in Ids, NEW ups \in Ups, NEW downs \in Downs,
           route \in Ids \cup {0}
    PROVE  Reached(r, p, ups, downs) \in Registries
BY DownType, DrainedIs DEF Reached

LEMMA CycledType ==
    ASSUME NEW r \in Registries, NEW p \in Ids, NEW ups \in Ups, NEW downs \in Downs,
           route \in Ids \cup {0}
    PROVE  Cycled(r, p, ups, downs) \in Registries
<1>1. TakenDown(r, p, downs) \in Registries
  BY DownType
<1>2. Up(TakenDown(r, p, downs), p, ups) \in Registries
  BY <1>1, UpType
<1> QED  BY <1>2, DrainedIs DEF Cycled

-----------------------------------------------------------------------------
(* disconnect_all *)

Stopped(r, p, ups, downs) ==
    IF r.state[p] = "absent" THEN r ELSE Reached(r, p, ups, downs)

LEMMA StopFold ==
    ASSUME NEW o, o \in Seq(Ids), NEW ups \in Ups, NEW downs \in Downs, RegInv
    PROVE  \E g \in [0 .. Len(o) -> Registries] :
              /\ g[0] = reg
              /\ \A k \in 1 .. Len(o) : g[k] = Stopped(g[k - 1], o[k], ups, downs)
              /\ After(o, LAMBDA r, p : IF r.state[p] = "absent" THEN r
                                        ELSE Reached(r, p, ups, downs)) = g[Len(o)]
<1> DEFINE n == Len(o)
           Eq(g) == g = [k \in 0 .. n |-> IF k = 0 THEN reg
                                          ELSE Stopped(g[k - 1], o[k], ups, downs)]
           c == CHOOSE g : Eq(g)
           F == [a \in Registries \X (1 .. n) |-> Stopped(a[1], o[a[2]], ups, downs)]
<1>1. n \in Nat /\ (\A k \in 1 .. n : o[k] \in Ids) /\ reg \in Registries
  BY DEF RegInv
<1>2. \A r \in Registries : \A k \in 1 .. n : Stopped(r, o[k], ups, downs) \in Registries
  BY <1>1, ReachedType DEF Stopped, RegInv
<1>3. \A r \in Registries : \A k \in 1 .. n : F[<<r, k>>] = Stopped(r, o[k], ups, downs)
  OBVIOUS
<1> HIDE DEF F, n
<1>4. PICK f \in [0 .. n -> Registries] : FoldsFrom(f, F, n, reg)
  <2>1. Stays(F, n, Registries)
    BY <1>2, <1>3 DEF Stays
  <2> QED  BY <1>1, <2>1, FoldExists
<1>5. \A k \in 1 .. n : k - 1 \in 0 .. n /\ k \in 0 .. n
  BY <1>1
<1>6. Eq(f)
  <2>1. \A k \in 1 .. n : f[k] = Stopped(f[k - 1], o[k], ups, downs)
    BY <1>3, <1>4, <1>5 DEF FoldsFrom
  <2>2. \A k \in 0 .. n : k # 0 => k \in 1 .. n
    BY <1>1
  <2>3. \A k \in 0 .. n : f[k] = IF k = 0 THEN reg ELSE Stopped(f[k - 1], o[k], ups, downs)
    BY <1>4, <2>1, <2>2 DEF FoldsFrom
  <2> QED  BY <1>4, <2>3
<1> HIDE DEF Eq
<1>7. Eq(c)
  BY <1>6
<1>8. After(o, LAMBDA r, p : IF r.state[p] = "absent" THEN r ELSE Reached(r, p, ups, downs)) = c[n]
  BY DEF After, Stopped, Eq, n
<1> HIDE DEF c
<1>9. /\ c = [k \in 0 .. n |-> c[k]] /\ c[0] = reg
      /\ \A k \in 1 .. n : c[k] = Stopped(c[k - 1], o[k], ups, downs)
  <2>1. c = [k \in 0 .. n |-> IF k = 0 THEN reg ELSE Stopped(c[k - 1], o[k], ups, downs)]
    BY <1>7 DEF Eq
  <2>2. 0 \in 0 .. n /\ \A k \in 1 .. n : k \in 0 .. n /\ k # 0
    BY <1>1
  <2> QED  BY <2>1, <2>2
<1> DEFINE T == {k \in 0 .. n : c[k] \in Registries}
<1>10. T = 0 .. n
  <2>1. 0 \in T
    BY <1>1, <1>9
  <2>2. ASSUME NEW k \in 0 .. n, k < n, k \in T PROVE k + 1 \in T
    <3>1. k + 1 \in 1 .. n /\ k + 1 \in 0 .. n /\ (k + 1) - 1 = k
      BY <1>1, <2>2
    <3>2. c[k + 1] = Stopped(c[k], o[k + 1], ups, downs)
      BY <1>9, <3>1
    <3> QED  BY <1>2, <2>2, <3>1, <3>2
  <2>3. T \subseteq 0 .. n
    OBVIOUS
  <2> HIDE DEF T
  <2> QED  BY <1>1, <2>1, <2>2, <2>3, UpTo
<1>11. c \in [0 .. n -> Registries]
  BY <1>9, <1>10
<1> QED  BY <1>8, <1>9, <1>11 DEF n

\* The order of disconnect_all: every entry, the secondaries from the least up, and
\* the primary after them.
StopOrder == InOrder(Secondaries) \o (IF reg.primary = 0 THEN <<>> ELSE <<reg.primary>>)

LEMMA StopOrderFacts ==
    ASSUME RegInv
    PROVE  /\ StopOrder \in Seq(Ids)
           /\ \A i \in 1 .. Len(StopOrder) : i < Len(StopOrder) => Has(StopOrder[i])
           /\ \A p \in Ids : Has(p) => \E i \in 1 .. Len(StopOrder) : StopOrder[i] = p
           /\ \A i, j \in 1 .. Len(StopOrder) :
                 j <= i => \/ StopOrder[i] = reg.primary
                           \/ StopOrder[j] <= StopOrder[i] /\ StopOrder[j] # reg.primary
<1> DEFINE S == Secondaries
           m == Cardinality(S)
           s == InOrder(S)
           t == IF reg.primary = 0 THEN <<>> ELSE <<reg.primary>>
           o == StopOrder
           n == Len(o)
<1>1. S \subseteq Ids /\ S \subseteq Nat /\ IsFiniteSet(S)
  <2>1. S \subseteq Ids
    BY DEF Secondaries
  <2> HIDE DEF S
  <2> QED  BY <2>1, RegFacts, FS_Subset
<1>2. reg.primary \in Ids \cup {0}
  BY DEF RegInv, Registries
<1>3. \A p \in Ids : p \in S <=> Has(p) /\ p # reg.primary
  BY DEF Secondaries
<1>4. o = s \o t
  BY DEF StopOrder
<1> HIDE DEF S
<1>5. /\ m \in Nat /\ s \in [1 .. m -> S]
      /\ \A i, j \in 1 .. m : i < j => s[i] < s[j]
      /\ \A x \in S : \E i \in 1 .. m : s[i] = x
  BY <1>1, InOrderFacts
<1> HIDE DEF s, m, o
<1>6. s \in Seq(Ids) /\ Len(s) = m
  <2>1. s \in [1 .. m -> Ids] /\ DOMAIN s = 1 .. m
    BY <1>1, <1>5
  <2>2. s \in Seq(Ids)
    BY <1>5, <2>1, SeqDef
  <2> QED  BY <1>5, <2>1, <2>2, LenProperties
<1>7. t \in Seq(Ids) /\ Len(t) = IF reg.primary = 0 THEN 0 ELSE 1
  BY <1>2
<1>8. /\ o \in Seq(Ids) /\ n = m + Len(t)
      /\ \A i \in 1 .. m : o[i] = s[i]
      /\ reg.primary # 0 => o[m + 1] = reg.primary
  <2>1. o \in Seq(Ids) /\ n = m + Len(t)
    BY <1>4, <1>6, <1>7
  <2>2. \A i \in 1 .. m : o[i] = s[i]
    BY <1>4, <1>5, <1>6, <1>7
  <2>3. reg.primary # 0 => o[m + 1] = reg.primary
    BY <1>4, <1>5, <1>6, <1>7
  <2> QED  BY <2>1, <2>2, <2>3
<1>9. \A i \in 1 .. n : i \in 1 .. m \/ (i = m + 1 /\ n = m + 1 /\ reg.primary # 0)
  BY <1>5, <1>7, <1>8
<1>10. \A i \in 1 .. m : o[i] \in S /\ i \in 1 .. n
  BY <1>5, <1>7, <1>8
<1>11. \A i \in 1 .. n : i < n => Has(o[i])
  <2>1. \A i \in 1 .. n : i < n => i \in 1 .. m
    BY <1>5, <1>9
  <2> QED  BY <1>1, <1>3, <1>10, <2>1
<1>12. \A p \in Ids : Has(p) => \E i \in 1 .. n : o[i] = p
  <2> SUFFICES ASSUME NEW p \in Ids, Has(p) PROVE \E i \in 1 .. n : o[i] = p
    OBVIOUS
  <2>1. CASE p = reg.primary
    <3>1. p # 0
      BY RegFacts
    <3>2. m + 1 \in 1 .. n
      BY <1>5, <1>7, <1>8, <2>1, <3>1
    <3> QED  BY <1>8, <2>1, <3>1, <3>2
  <2>2. CASE p # reg.primary
    <3>1. p \in S
      BY <1>3, <2>2
    <3> QED  BY <1>5, <1>8, <1>10, <3>1
  <2> QED  BY <2>1, <2>2
<1>13. ASSUME NEW i \in 1 .. n, NEW j \in 1 .. n, j <= i, o[i] # reg.primary
       PROVE  o[j] <= o[i] /\ o[j] # reg.primary
  <2>1. i \in 1 .. m
    BY <1>8, <1>9, <1>13
  <2>2. j \in 1 .. m
    BY <1>5, <1>13, <2>1
  <2>3. o[i] = s[i] /\ o[j] = s[j] /\ o[i] \in S /\ o[j] \in S
    BY <1>8, <1>10, <2>1, <2>2
  <2>4. o[i] \in Nat /\ o[j] \in Nat
    BY <1>1, <2>3
  <2>5. o[j] <= o[i]
    <3>1. CASE j = i
      BY <2>4, <3>1
    <3>2. CASE j < i
      <4>1. s[j] < s[i]
        BY <1>5, <2>1, <2>2, <3>2
      <4> QED  BY <2>3, <2>4, <4>1
    <3> QED  BY <1>5, <1>13, <2>1, <2>2, <3>1, <3>2
  <2>6. o[j] # reg.primary
    BY <1>1, <1>3, <2>3
  <2> QED  BY <2>5, <2>6
<1> QED  BY <1>8, <1>11, <1>12, <1>13 DEF o

\* What disconnect_all keeps on its way down the list, after k of its turns: the
\* entries stay the same entries, queues only empty; once a turn was taken, nothing
\* waits behind a tunnel that is down; and a tunnel that stands after its turn was
\* queued behind one whose turn came with its own or later.
Behind(p) ==
    \E h \in Ids : reg.queued[h] = p /\ (h = reg.primary \/ (p <= h /\ p # reg.primary))

SameEntries(r) == \A p \in Ids : r.state[p] = "absent" <=> ~Has(p)
QueuesEmpty(r) == \A h \in Ids : r.queued[h] \in {reg.queued[h], 0}
NoneWaits(r)   == \A h \in Ids : r.state[h] \in Down => r.queued[h] = 0
TurnsTaken(r, k) ==
    \A j \in 1 .. k : r.state[StopOrder[j]] \in Standing => Behind(StopOrder[j])

StopInv(r, k) ==
    /\ r \in Registries /\ SameEntries(r) /\ QueuesEmpty(r)
    /\ k > 0 => NoneWaits(r)
    /\ TurnsTaken(r, k)

LEMMA StopTurn ==
    ASSUME RegInv, NEW k \in Nat, k + 1 \in 1 .. Len(StopOrder), NEW r, StopInv(r, k),
           NEW ups \in Ups, NEW downs \in Downs
    PROVE  StopInv(Stopped(r, StopOrder[k + 1], ups, downs), k + 1)
<1> DEFINE o == StopOrder
           n == Len(o)
           q == o[k + 1]
           s == TakenDown(r, q, downs)
           d == Drained(s, ups)
<1>1. /\ o \in Seq(Ids) /\ n \in Nat /\ q \in Ids /\ \A j \in 1 .. n : o[j] \in Ids
      /\ \A j \in 1 .. k + 1 : j \in 1 .. n /\ j <= k + 1 /\ (j # k + 1 => j \in 1 .. k)
      /\ k + 1 > 0
  BY StopOrderFacts
<1>2. r \in Registries /\ SameEntries(r) /\ QueuesEmpty(r) /\ TurnsTaken(r, k)
  BY DEF StopInv
<1>3. CASE r.state[q] = "absent"
  <2>1. Stopped(r, q, ups, downs) = r
    BY <1>3 DEF Stopped
  <2>2. ~Has(q) /\ k + 1 = n
    <3>1. ~Has(q)
      BY <1>1, <1>2, <1>3 DEF SameEntries
    <3>2. ~(k + 1 < n)
      BY <1>1, <3>1, StopOrderFacts
    <3> QED  BY <1>1, <3>1, <3>2
  <2>3. NoneWaits(r)
    <3>1. CASE k = 0
      <4>1. \A j \in 1 .. n : o[j] = q
        <5>1. n = 1
          BY <2>2, <3>1
        <5>2. \A j \in 1 .. 1 : j = 1
          OBVIOUS
        <5> QED  BY <3>1, <5>1, <5>2
      <4>2. \A p \in Ids : ~Has(p)
        BY <2>2, <4>1, StopOrderFacts
      <4>3. \A p \in Ids : r.state[p] \notin Down
        BY <1>2, <4>2, RegFacts DEF SameEntries
      <4> QED  BY <4>3 DEF NoneWaits
    <3>2. CASE k # 0
      BY <3>2 DEF StopInv
    <3> QED  BY <3>1, <3>2
  <2>4. TurnsTaken(r, k + 1)
    <3> SUFFICES ASSUME NEW j \in 1 .. k + 1, r.state[o[j]] \in Standing PROVE Behind(o[j])
      BY DEF TurnsTaken
    <3>1. j # k + 1
      BY <1>3, RegFacts
    <3> QED  BY <1>1, <1>2, <3>1 DEF TurnsTaken
  <2> QED  BY <1>2, <2>1, <2>3, <2>4 DEF StopInv
<1>4. CASE r.state[q] # "absent"
  <2>1. Stopped(r, q, ups, downs) = d
    BY <1>4 DEF Stopped, Reached
  <2>2. /\ s \in Registries /\ s.queued = r.queued
        /\ s.state = [r.state EXCEPT ![q] = IF r.state[q] \in Standing THEN downs[q] ELSE @]
    BY <1>1, <1>2, DownType
  <2>3. route \in Ids \cup {0}
    BY DEF RegInv
  <2> HIDE DEF s
  <2>4. /\ d \in Registries
        /\ d.queued = [h \in Ids |-> IF h \in Hosts(s) THEN 0 ELSE s.queued[h]]
        /\ d.state = [p \in Ids |-> IF (\E h \in Hosts(s) : s.queued[h] = p) /\ s.state[p] \in Down
                                    THEN ups[p] ELSE s.state[p]]
    BY <2>2, <2>3, DrainedIs
  <2> HIDE DEF d
  <2>5. r.state \in [Ids -> EntryStates] /\ r.queued \in [Ids -> Ids \cup {0}]
    BY <1>2 DEF Registries
  <2>6. /\ \A p \in Ids : p # q => s.state[p] = r.state[p]
        /\ s.state[q] \notin Standing /\ s.state[q] # "absent"
    <3>1. downs[q] \in Down
      BY <1>1, RegFacts
    <3> QED  BY <1>1, <1>4, <2>2, <2>5, <3>1, RegFacts
  <2>7. \A p \in Ids : s.state[p] = "absent" <=> ~Has(p)
    <3>1. Has(q)
      BY <1>1, <1>2, <1>4 DEF SameEntries
    <3> QED  BY <1>1, <1>2, <2>6, <3>1 DEF SameEntries
  <2>8. SameEntries(d)
    <3> SUFFICES ASSUME NEW p \in Ids PROVE d.state[p] = "absent" <=> ~Has(p)
      BY DEF SameEntries
    <3>1. ups[p] # "absent"
      BY RegFacts
    <3>2. d.state[p] = s.state[p] \/ (d.state[p] = ups[p] /\ s.state[p] \in Down)
      BY <2>4
    <3> QED  BY <2>7, <3>1, <3>2, RegFacts
  <2>9. QueuesEmpty(d)
    BY <1>2, <2>2, <2>4 DEF QueuesEmpty
  <2>10. NoneWaits(d)
    <3> SUFFICES ASSUME NEW h \in Ids, d.state[h] \in Down PROVE d.queued[h] = 0
      BY DEF NoneWaits
    <3>1. s.state[h] \in Down
      BY <2>4
    <3> QED  BY <2>4, <3>1 DEF Hosts
  <2>11. TurnsTaken(d, k + 1)
    <3> SUFFICES ASSUME NEW j \in 1 .. k + 1, d.state[o[j]] \in Standing PROVE Behind(o[j])
      BY DEF TurnsTaken
    <3> DEFINE p == o[j]
    <3>1. p \in Ids /\ j \in 1 .. n
      BY <1>1
    <3>2. CASE s.state[p] \in Standing
      <4>1. p # q /\ j \in 1 .. k
        BY <1>1, <2>6, <3>2
      <4>2. r.state[p] \in Standing
        BY <2>6, <3>1, <3>2, <4>1
      <4> QED  BY <1>2, <4>1, <4>2 DEF TurnsTaken
    <3>3. CASE s.state[p] \notin Standing
      <4>1. PICK h \in Hosts(s) : s.queued[h] = p
        BY <2>4, <3>1, <3>3
      <4>2. h \in Ids /\ s.state[h] \in Down /\ r.queued[h] = p /\ p # 0
        BY <2>2, <3>1, <4>1, RegFacts DEF Hosts
      <4>3. reg.queued[h] = p
        BY <1>2, <4>2 DEF QueuesEmpty
      <4>4. PICK i \in 1 .. n : o[i] = h /\ j <= i
        <5>1. CASE k = 0
          <6>1. Has(h)
            BY <2>7, <4>2, RegFacts
          <6>2. PICK i \in 1 .. n : o[i] = h
            BY <4>2, <6>1, StopOrderFacts
          <6>3. j <= i
            BY <1>1, <5>1
          <6> QED  BY <6>2, <6>3
        <5>2. CASE k # 0
          <6>1. NoneWaits(r)
            BY <5>2 DEF StopInv
          <6>2. h = q
            BY <2>6, <4>2, <6>1 DEF NoneWaits
          <6> QED  BY <1>1, <6>2
        <5> QED  BY <5>1, <5>2
      <4>5. h = reg.primary \/ (p <= h /\ p # reg.primary)
        BY <3>1, <4>4, StopOrderFacts
      <4> QED  BY <4>2, <4>3, <4>5 DEF Behind
    <3> QED  BY <3>2, <3>3
  <2> QED  BY <1>1, <2>1, <2>4, <2>8, <2>9, <2>10, <2>11 DEF StopInv
<1> QED  BY <1>3, <1>4

\* disconnect_all leaves a tunnel standing only if it had been queued behind another.
LEMMA StopAll ==
    ASSUME RegInv, DisconnectAll
    PROVE  reg' \in Registries /\ \A p \in Ids : reg'.state[p] \in Standing => Behind(p)
<1> DEFINE o == StopOrder
           n == Len(o)
<1>1. PICK ups \in Ups, downs \in Downs :
          reg' = After(o, LAMBDA r, p : IF r.state[p] = "absent" THEN r
                                        ELSE Reached(r, p, ups, downs))
  BY DEF DisconnectAll, StopOrder
<1>2. o \in Seq(Ids) /\ n \in Nat
  BY StopOrderFacts
<1> HIDE DEF o
<1>3. PICK g \in [0 .. n -> Registries] :
          /\ g[0] = reg
          /\ \A k \in 1 .. n : g[k] = Stopped(g[k - 1], o[k], ups, downs)
          /\ reg' = g[n]
  BY <1>1, <1>2, StopFold
<1> DEFINE T == {k \in 0 .. n : StopInv(g[k], k)}
<1>4. 0 \in T
  <2>1. reg \in Registries /\ reg.queued \in [Ids -> Ids \cup {0}]
    BY DEF RegInv, Registries
  <2>2. SameEntries(reg) /\ QueuesEmpty(reg) /\ TurnsTaken(reg, 0)
    BY <2>1 DEF SameEntries, Has, QueuesEmpty, TurnsTaken
  <2>3. StopInv(reg, 0)
    BY <2>1, <2>2 DEF StopInv
  <2>4. 0 \in 0 .. n
    BY <1>2
  <2> QED  BY <1>3, <2>3, <2>4
<1>5. ASSUME NEW k \in 0 .. n, k < n, k \in T PROVE k + 1 \in T
  <2>1. k \in Nat /\ k + 1 \in 1 .. n /\ k + 1 \in 0 .. n /\ (k + 1) - 1 = k
    BY <1>2, <1>5
  <2>2. g[k + 1] = Stopped(g[k], o[k + 1], ups, downs)
    BY <1>3, <2>1
  <2>3. StopInv(g[k], k)
    BY <1>5
  <2>4. StopInv(Stopped(g[k], o[k + 1], ups, downs), k + 1)
    BY <2>1, <2>3, StopTurn DEF o
  <2> QED  BY <2>1, <2>2, <2>4
<1>6. T = 0 .. n
  <2>1. T \subseteq 0 .. n
    OBVIOUS
  <2> HIDE DEF T
  <2> QED  BY <1>2, <1>4, <1>5, <2>1, UpTo
<1>7. StopInv(reg', n)
  <2>1. n \in 0 .. n
    BY <1>2
  <2> QED  BY <1>3, <1>6, <2>1
<1>8. ASSUME NEW p \in Ids, reg'.state[p] \in Standing PROVE Behind(p)
  <2>1. reg'.state[p] # "absent"
    BY <1>8, RegFacts
  <2>2. Has(p)
    BY <1>7, <2>1 DEF StopInv, SameEntries
  <2>3. PICK j \in 1 .. n : o[j] = p
    BY <2>2, StopOrderFacts DEF o
  <2> QED  BY <1>7, <1>8, <2>3 DEF StopInv, TurnsTaken, o
<1> QED  BY <1>7, <1>8 DEF StopInv

-----------------------------------------------------------------------------
(* Types *)

LEMMA CycleFold ==
    ASSUME NEW o, o \in Seq(Ids), NEW ups \in Ups, NEW downs \in Downs, RegInv
    PROVE  After(o, LAMBDA r, p : Cycled(r, p, ups, downs)) \in Registries
<1> DEFINE n == Len(o)
           Eq(g) == g = [k \in 0 .. n |-> IF k = 0 THEN reg
                                          ELSE Cycled(g[k - 1], o[k], ups, downs)]
           c == CHOOSE g : Eq(g)
           F == [a \in Registries \X (1 .. n) |-> Cycled(a[1], o[a[2]], ups, downs)]
<1>1. n \in Nat /\ (\A k \in 1 .. n : o[k] \in Ids) /\ reg \in Registries
  BY DEF RegInv
<1>2. \A r \in Registries : \A k \in 1 .. n : Cycled(r, o[k], ups, downs) \in Registries
  BY <1>1, CycledType DEF RegInv
<1>3. \A r \in Registries : \A k \in 1 .. n : F[<<r, k>>] = Cycled(r, o[k], ups, downs)
  OBVIOUS
<1> HIDE DEF F, n
<1>4. PICK f \in [0 .. n -> Registries] : FoldsFrom(f, F, n, reg)
  <2>1. Stays(F, n, Registries)
    BY <1>2, <1>3 DEF Stays
  <2> QED  BY <1>1, <2>1, FoldExists
<1>5. \A k \in 1 .. n : k - 1 \in 0 .. n /\ k \in 0 .. n
  BY <1>1
<1>6. Eq(f)
  <2>1. \A k \in 1 .. n : f[k] = Cycled(f[k - 1], o[k], ups, downs)
    BY <1>3, <1>4, <1>5 DEF FoldsFrom
  <2>2. \A k \in 0 .. n : k # 0 => k \in 1 .. n
    BY <1>1
  <2>3. \A k \in 0 .. n : f[k] = IF k = 0 THEN reg ELSE Cycled(f[k - 1], o[k], ups, downs)
    BY <1>4, <2>1, <2>2 DEF FoldsFrom
  <2> QED  BY <1>4, <2>3
<1> HIDE DEF Eq
<1>7. Eq(c)
  BY <1>6
<1>8. After(o, LAMBDA r, p : Cycled(r, p, ups, downs)) = c[n]
  BY DEF After, Eq, n
<1> HIDE DEF c
<1>9. /\ c[0] = reg
      /\ \A k \in 1 .. n : c[k] = Cycled(c[k - 1], o[k], ups, downs)
  <2>1. c = [k \in 0 .. n |-> IF k = 0 THEN reg ELSE Cycled(c[k - 1], o[k], ups, downs)]
    BY <1>7 DEF Eq
  <2>2. 0 \in 0 .. n /\ \A k \in 1 .. n : k \in 0 .. n /\ k # 0
    BY <1>1
  <2> QED  BY <2>1, <2>2
<1> DEFINE T == {k \in 0 .. n : c[k] \in Registries}
<1>10. T = 0 .. n
  <2>1. 0 \in T
    BY <1>1, <1>9
  <2>2. ASSUME NEW k \in 0 .. n, k < n, k \in T PROVE k + 1 \in T
    <3>1. k + 1 \in 1 .. n /\ k + 1 \in 0 .. n /\ (k + 1) - 1 = k
      BY <1>1, <2>2
    <3>2. c[k + 1] = Cycled(c[k], o[k + 1], ups, downs)
      BY <1>9, <3>1
    <3> QED  BY <1>2, <2>2, <3>1, <3>2
  <2>3. T \subseteq 0 .. n
    OBVIOUS
  <2> HIDE DEF T
  <2> QED  BY <1>1, <2>1, <2>2, <2>3, UpTo
<1>11. n \in T
  BY <1>1, <1>10
<1> QED  BY <1>8, <1>11

LEMMA InOrderSeq ==
    ASSUME NEW S, S \subseteq Ids
    PROVE  InOrder(S) \in Seq(Ids)
<1>1. S \subseteq Nat /\ IsFiniteSet(S)
  BY RegFacts, FS_Subset
<1>2. /\ Cardinality(S) \in Nat
      /\ InOrder(S) \in [1 .. Cardinality(S) -> S]
  BY <1>1, InOrderFacts
<1>3. InOrder(S) \in [1 .. Cardinality(S) -> Ids]
  BY <1>2
<1> QED  BY <1>2, <1>3, SeqDef

LEMMA RegInvInit == RegInit => RegInv
<1> SUFFICES ASSUME RegInit PROVE RegInv
  OBVIOUS
<1>1. [p \in Ids |-> "absent"] \in [Ids -> EntryStates] /\ [p \in Ids |-> 0] \in [Ids -> Ids \cup {0}]
  BY DEF EntryStates
<1>2. reg \in Registries
  BY <1>1 DEF RegInit, Registries
<1> QED  BY <1>2 DEF RegInit, RegInv

\* The history of the last call and the count of calls.
LEMMA CountInv ==
    ASSUME RegInv
    PROVE  /\ Call => calls' \in Nat /\ stopped' \in BOOLEAN
           /\ Calls => calls' \in Nat
<1>1. calls \in Nat
  BY DEF RegInv
<1>2. Calls => calls' \in Nat
  BY <1>1 DEF Calls
<1>3. Call => stopped' \in BOOLEAN
  BY DEF Call
<1> QED  BY <1>2, <1>3 DEF Call

\* An assignment to an entry, its queue and the election of a primary.
LEMMA MirrorType ==
    ASSUME NEW r \in Registries, NEW p \in Ids, NEW x \in EntryStates, route \in Ids \cup {0}
    PROVE  /\ [r EXCEPT !.state[p] = x] \in Registries
           /\ [r EXCEPT !.state[p] = x, !.queued[p] = 0] \in Registries
           /\ Gone(r, p) \in Registries
           /\ Elected([r EXCEPT !.state[p] = x]) \in Registries
           /\ Elected(Gone(r, p)) \in Registries
<1>1. [r EXCEPT !.state[p] = x] \in Registries
  BY DEF Registries
<1>2. [r EXCEPT !.state[p] = x, !.queued[p] = 0] \in Registries
  BY DEF Registries
<1>3. Gone(r, p) \in Registries
  BY DEF Gone, Registries, EntryStates
<1> QED  BY <1>1, <1>2, <1>3, ElectedType

LEMMA BookkeepingType ==
    ASSUME RegInv, NEW p \in Ids,
           \/ RemoveEntry(p) \/ SetDisconnected(p) \/ SetConnecting(p) \/ SetDisconnecting(p)
           \/ SetFailed(p)
           \/ \E s \in {"idle", "up"} : Insert(p, s)
           \/ \E s \in {"up", "seen"} : SetConnected(p, s)
           \/ \E q \in Ids : QueueAfterDisconnect(p, q)
    PROVE  RegInv'
<1>1. reg \in Registries /\ route \in Ids \cup {0}
  BY DEF RegInv
<1>2. \A s \in {"idle", "up", "seen", "connecting", "closing", "failed"} : s \in EntryStates
  BY DEF EntryStates
<1>3. CASE RemoveEntry(p)
  BY <1>1, <1>2, <1>3, CountInv, MirrorType DEF RemoveEntry, RegInv
<1>4. CASE SetDisconnected(p)
  BY <1>1, <1>2, <1>4, CountInv, MirrorType DEF SetDisconnected, RegInv
<1>5. CASE SetConnecting(p)
  BY <1>1, <1>2, <1>5, CountInv, MirrorType DEF SetConnecting, Mirror, RegInv
<1>6. CASE SetDisconnecting(p)
  <2>1. reg' \in Registries
    <3>1. Elected(reg) \in Registries
      BY <1>1, ElectedType
    <3>2. Elected([reg EXCEPT !.state[p] = "closing"]) \in Registries
      BY <1>1, <1>2, MirrorType
    <3> QED  BY <1>6, <3>1, <3>2 DEF SetDisconnecting, MirrorAndElect
  <2> QED  BY <1>1, <1>6, <2>1, CountInv DEF SetDisconnecting, RegInv
<1>7. CASE SetFailed(p)
  BY <1>1, <1>2, <1>7, CountInv, MirrorType DEF SetFailed, MirrorAndElect, RegInv
<1>8. ASSUME NEW s \in {"idle", "up"}, Insert(p, s) PROVE RegInv'
  BY <1>1, <1>2, <1>8, CountInv, MirrorType DEF Insert, RegInv
<1>9. ASSUME NEW s \in {"up", "seen"}, SetConnected(p, s) PROVE RegInv'
  BY <1>1, <1>2, <1>9, CountInv, MirrorType DEF SetConnected, MirrorAndElect, RegInv
<1>10. ASSUME NEW q \in Ids, QueueAfterDisconnect(p, q) PROVE RegInv'
  <2>1. [reg EXCEPT !.queued[p] = q] \in Registries
    BY <1>1 DEF Registries
  <2> QED  BY <1>1, <1>10, <2>1, CountInv DEF QueueAfterDisconnect, RegInv
<1> QED  BY <1>3, <1>4, <1>5, <1>6, <1>7, <1>8, <1>9, <1>10

LEMMA ConnectType ==
    ASSUME RegInv, NEW p \in Ids, NEW force \in BOOLEAN, ConnectTunnel(p, force)
    PROVE  RegInv'
<1>1. reg \in Registries /\ route \in Ids \cup {0}
  BY DEF RegInv
<1>2. PICK ups \in Ups :
          reg' = LET r == Up(IF Has(p) THEN reg ELSE [reg EXCEPT !.state[p] = "idle"], p, ups)
                 IN  IF r.state[p] \in Down THEN r ELSE Drained(r, ups)
  BY DEF ConnectTunnel
<1> DEFINE e == IF Has(p) THEN reg ELSE [reg EXCEPT !.state[p] = "idle"]
           r == Up(e, p, ups)
<1>3. e \in Registries
  BY <1>1, MirrorType DEF EntryStates
<1>4. r \in Registries
  <2> HIDE DEF e
  <2> QED  BY <1>3, UpType
<1>5. Drained(r, ups) \in Registries
  <2> HIDE DEF r
  <2> QED  BY <1>1, <1>4, DrainedIs
<1>6. reg' \in {r, Drained(r, ups)}
  BY <1>2
<1>7. reg' \in Registries
  BY <1>4, <1>5, <1>6
<1> QED  BY <1>1, <1>7, CountInv DEF ConnectTunnel, RegInv

LEMMA RegInvStep == RegInv /\ [RegNext]_regVars => RegInv'
<1> SUFFICES ASSUME RegInv, [RegNext]_regVars PROVE RegInv'
  OBVIOUS
<1>1. reg \in Registries /\ route \in Ids \cup {0} /\ \A p \in Ids : p \in Ids \cup {0}
  BY DEF RegInv
<1>2. CASE DisconnectAll
  <2>1. reg' \in Registries
    BY <1>2, StopAll
  <2> QED  BY <1>1, <1>2, <2>1, CountInv DEF DisconnectAll, RegInv
<1>3. CASE ReconnectAll
  <2>1. PICK ups \in Ups, downs \in Downs :
            reg' = After(InOrder({p \in Ids : Has(p)}), LAMBDA r, p : Cycled(r, p, ups, downs))
    BY <1>3 DEF ReconnectAll
  <2>2. InOrder({p \in Ids : Has(p)}) \in Seq(Ids)
    BY InOrderSeq
  <2>3. reg' \in Registries
    BY <2>1, <2>2, CycleFold
  <2> QED  BY <1>1, <1>3, <2>3, CountInv DEF ReconnectAll, RegInv
<1>4. CASE RefreshPrimary
  <2>1. Elected(reg) \in Registries
    BY <1>1, ElectedType
  <2>2. reg' \in Registries
    BY <1>1, <1>4, <2>1, DrainedIs DEF RefreshPrimary
  <2> QED  BY <1>1, <1>4, <2>2, CountInv DEF RefreshPrimary, RegInv
<1>5. CASE RegTick
  <2>1. PICK later \in SUBSET {p \in Ids : reg.state[p] = "connecting"}, ups \in Ups :
            reg' = Drained([reg EXCEPT !.state = [p \in Ids |-> IF p \in later THEN "failed" ELSE @[p]]],
                           ups)
    BY <1>5 DEF RegTick
  <2> DEFINE r == [reg EXCEPT !.state = [p \in Ids |-> IF p \in later THEN "failed" ELSE @[p]]]
  <2>2. r \in Registries
    BY <1>1 DEF Registries, EntryStates
  <2>3. reg' = Drained(r, ups)
    BY <2>1
  <2> HIDE DEF r
  <2>4. reg' \in Registries
    BY <1>1, <2>2, <2>3, DrainedIs
  <2> QED  BY <1>1, <1>5, <2>4, CountInv DEF RegTick, RegInv
<1>6. ASSUME NEW i \in Ids \cup {0}, Feed(i) PROVE RegInv'
  BY <1>1, <1>6, CountInv DEF Feed, RegInv
<1>7. ASSUME NEW p \in Ids, DisconnectTunnel(p) PROVE RegInv'
  BY <1>1, <1>7, CountInv, ReachedType DEF DisconnectTunnel, RegInv
<1>8. ASSUME NEW p \in Ids, Reconnect(p) PROVE RegInv'
  BY <1>1, <1>8, CountInv, CycledType DEF Reconnect, RegInv
<1>9. CASE UNCHANGED regVars
  BY <1>9 DEF regVars, RegInv
<1> QED
  <2>1. ASSUME NEW p \in Ids,
               \/ RemoveEntry(p) \/ SetDisconnected(p) \/ SetConnecting(p) \/ SetDisconnecting(p)
               \/ SetFailed(p) \/ DisconnectTunnel(p) \/ Reconnect(p)
               \/ \E s \in {"idle", "up"} : Insert(p, s)
               \/ \E s \in {"up", "seen"} : SetConnected(p, s)
               \/ \E force \in BOOLEAN : ConnectTunnel(p, force)
               \/ \E q \in Ids : QueueAfterDisconnect(p, q)
        PROVE  RegInv'
    BY <1>7, <1>8, <2>1, BookkeepingType, ConnectType
  <2> QED  BY <1>2, <1>3, <1>4, <1>5, <1>6, <1>9, <2>1 DEF RegNext

\* The registry's entries, queues, primary and route keep their types.
THEOREM RegistryTypeCorrect == RegSpec => []RegTypeOK
<1>1. RegInv => RegTypeOK
  BY DEF RegInv, RegTypeOK, Registries
<1> QED  BY <1>1, RegInvInit, RegInvStep, PTL DEF RegSpec

\* disconnect_all leaves a tunnel standing only if it had been queued behind one
\* whose turn came with its own or later, for any number of profiles and whatever
\* Tunnel::up and Tunnel::down answer (registry.rs, disconnect_all).
THEOREM StopAllStopsHolds == RegSpec => StopAllStops
<1>1. RegInv /\ [RegNext]_regVars =>
        [stopped' =>
           \A p \in Ids : reg'.state[p] \in Standing =>
              \E h \in Ids :
                 /\ reg.queued[h] = p
                 /\ h = reg.primary \/ (p <= h /\ p # reg.primary)]_regVars
  <2> SUFFICES ASSUME RegInv, RegNext, stopped'
               PROVE  \A p \in Ids : reg'.state[p] \in Standing => Behind(p)
    BY DEF Behind
  <2>1. CASE DisconnectAll
    BY <2>1, StopAll
  <2>2. ~DisconnectAll => Call
    BY DEF RegNext, ReconnectAll, RefreshPrimary, RegTick, Feed, RemoveEntry, SetDisconnected,
           SetConnecting, SetDisconnecting, SetFailed, DisconnectTunnel, Reconnect, Insert,
           SetConnected, ConnectTunnel, QueueAfterDisconnect
  <2> QED  BY <2>1, <2>2 DEF Call
<1> QED  BY <1>1, RegInvInit, RegInvStep, PTL DEF RegSpec, StopAllStops

-----------------------------------------------------------------------------
(* Dashboard: the registry as the App drives it                              *)

\* Under the bookkeeping calls nothing is queued, and the primary is a tunnel that is
\* up or, started again under its own name, connecting.
DashInv ==
    /\ RegInv
    /\ \A h \in Ids : reg.queued[h] = 0
    /\ reg.primary # 0 => reg.state[reg.primary] \in {"up", "connecting"}

LEMMA ElectedUp ==
    ASSUME NEW r \in Registries, route \in Ids \cup {0}
    PROVE  Elected(r).primary # 0 => Elected(r).state[Elected(r).primary] = "up"
BY ElectedType

LEMMA DrainedUp ==
    ASSUME NEW r \in Registries, NEW ups \in Ups, route \in Ids \cup {0}
    PROVE  Drained(r, ups).primary # 0 => Drained(r, ups).state[Drained(r, ups).primary] = "up"
<1> DEFINE H == {h \in Ids : r.state[h] \in Down /\ r.queued[h] # 0}
           fired == {r.queued[h] : h \in H}
           q == [h \in Ids |-> IF h \in H THEN 0 ELSE r.queued[h]]
           s == [p \in Ids |-> IF p \in fired /\ r.state[p] \in Down THEN ups[p] ELSE r.state[p]]
           d == [r EXCEPT !.queued = q, !.state = s]
<1>1. Drained(r, ups) = Elected(d)
  BY DEF Drained
<1>2. q \in [Ids -> Ids \cup {0}]
  BY DEF Registries
<1>3. s \in [Ids -> EntryStates]
  BY RegFacts DEF Registries
<1> HIDE DEF q, s
<1>4. d \in Registries
  BY <1>2, <1>3 DEF Registries
<1> HIDE DEF d
<1> QED  BY <1>1, <1>4, ElectedUp

LEMMA DashInvInit == RegInit => DashInv
<1> SUFFICES ASSUME RegInit PROVE DashInv
  OBVIOUS
<1>1. reg.primary = 0 /\ \A h \in Ids : reg.queued[h] = 0
  BY DEF RegInit
<1> QED  BY <1>1, RegInvInit DEF DashInv

LEMMA DashInvStep == DashInv /\ [DashboardNext]_regVars => DashInv'
<1> SUFFICES ASSUME DashInv, [DashboardNext]_regVars PROVE DashInv'
  OBVIOUS
<1>1. RegInv /\ reg \in Registries /\ route \in Ids \cup {0}
  BY DEF DashInv, RegInv
<1>2. /\ \A h \in Ids : reg.queued[h] = 0
      /\ reg.primary # 0 => reg.state[reg.primary] \in {"up", "connecting"}
  BY DEF DashInv
<1>3. reg.state \in [Ids -> EntryStates] /\ reg.queued \in [Ids -> Ids \cup {0}] /\ reg.primary \in Ids \cup {0}
  BY <1>1 DEF Registries
<1>4. RegInv'
  <2>1. [RegNext]_regVars
    BY DEF DashboardNext, RegNext
  <2> QED  BY <1>1, <2>1, RegInvStep
<1> DEFINE Calm == /\ \A h \in Ids : reg'.queued[h] = 0
                   /\ reg'.primary # 0 => reg'.state[reg'.primary] \in {"up", "connecting"}
<1>5. SUFFICES Calm
  BY <1>4 DEF DashInv
<1>6. ASSUME NEW r \in Registries, \A h \in Ids : r.queued[h] = 0, reg' = Elected(r)
      PROVE  Calm
  BY <1>1, <1>6, ElectedType, ElectedUp
<1>7. ASSUME NEW p \in Ids, NEW x \in EntryStates
      PROVE  LET r == [reg EXCEPT !.state[p] = x]
             IN  r \in Registries /\ \A h \in Ids : r.queued[h] = 0
  BY <1>1, <1>2 DEF Registries
<1>8. \A s \in {"up", "seen", "connecting", "closing", "failed"} : s \in EntryStates
  BY DEF EntryStates
<1>9. CASE RefreshPrimary
  <2>1. PICK ups \in Ups : reg' = Drained(Elected(reg), ups)
    BY <1>9 DEF RefreshPrimary
  <2>2. Elected(reg) \in Registries /\ \A h \in Ids : Elected(reg).queued[h] = 0
    BY <1>1, <1>2, ElectedType
  <2>3. \A h \in Ids : Drained(Elected(reg), ups).queued[h] = 0
    <3>1. Drained(Elected(reg), ups).queued =
             [h \in Ids |-> IF h \in Hosts(Elected(reg)) THEN 0 ELSE Elected(reg).queued[h]]
      BY <1>1, <2>2, DrainedIs
    <3> QED  BY <2>2, <3>1
  <2>4. Drained(Elected(reg), ups).primary # 0 =>
           Drained(Elected(reg), ups).state[Drained(Elected(reg), ups).primary] = "up"
    BY <1>1, <2>2, DrainedUp
  <2> QED  BY <2>1, <2>3, <2>4
<1>10. ASSUME NEW i \in Ids \cup {0}, Feed(i) PROVE Calm
  BY <1>2, <1>10 DEF Feed
<1>11. ASSUME NEW p \in Ids, SetDisconnected(p) PROVE Calm
  <2>1. Gone(reg, p) \in Registries
    BY <1>1, <1>3, <1>8 DEF Gone, Registries, EntryStates
  <2>2. \A h \in Ids : Gone(reg, p).queued[h] = 0
    BY <1>1, <1>2, <1>3 DEF Gone, Registries
  <2> QED  BY <1>6, <1>11, <2>1, <2>2 DEF SetDisconnected
<1>12. ASSUME NEW p \in Ids, SetConnecting(p) PROVE Calm
  <2>1. reg' = [reg EXCEPT !.state[p] = "connecting"]
    BY <1>12 DEF SetConnecting, Mirror
  <2>2. /\ reg'.queued = reg.queued /\ reg'.primary = reg.primary
        /\ reg'.state = [reg.state EXCEPT ![p] = "connecting"]
    BY <1>1, <2>1 DEF Registries
  <2> QED  BY <1>2, <1>3, <2>2
<1>13. ASSUME NEW p \in Ids, SetDisconnecting(p) PROVE Calm
  <2>1. reg' = Elected([reg EXCEPT !.state[p] = "closing"]) \/ reg' = Elected(reg)
    BY <1>13 DEF SetDisconnecting, MirrorAndElect
  <2> QED  BY <1>1, <1>2, <1>6, <1>7, <1>8, <2>1
<1>14. ASSUME NEW p \in Ids, SetFailed(p) PROVE Calm
  <2>1. reg' = Elected([reg EXCEPT !.state[p] = "failed"])
    BY <1>14 DEF SetFailed, MirrorAndElect
  <2> QED  BY <1>6, <1>7, <1>8, <2>1
<1>15. ASSUME NEW p \in Ids, NEW s \in {"up", "seen"}, SetConnected(p, s) PROVE Calm
  <2>1. reg' = Elected([reg EXCEPT !.state[p] = s])
    BY <1>15 DEF SetConnected, MirrorAndElect
  <2> QED  BY <1>6, <1>7, <1>8, <2>1
<1>16. CASE UNCHANGED regVars
  BY <1>2, <1>16 DEF regVars
<1> QED  BY <1>9, <1>10, <1>11, <1>12, <1>13, <1>14, <1>15, <1>16 DEF DashboardNext

-----------------------------------------------------------------------------
(* The panels *)

LEMMA PrimaryFacts ==
    ASSUME DashInv
    PROVE  /\ Primary \subseteq Registered /\ Registered \subseteq Ids
           /\ Connected \subseteq Registered /\ Visible \subseteq Registered
           /\ reg.primary = 0 => Primary = {}
           /\ reg.primary # 0 => /\ reg.primary \in Ids /\ Primary = {reg.primary} /\ Has(reg.primary)
                                 /\ reg.primary \in Visible
                                 /\ reg.state[reg.primary] \in {"up", "connecting"}
           /\ \A p \in Primary : p = reg.primary
           /\ 0 \notin Ids
<1>1. reg.primary \in Ids \cup {0} /\ 0 \notin Ids
  BY RegFacts DEF DashInv, RegInv, Registries
<1>2. Primary \subseteq Registered /\ Registered \subseteq Ids /\ Visible \subseteq Registered
  BY DEF Primary, Registered, Visible
<1>3. Connected \subseteq Registered
  BY DEF Connected, Registered, Has
<1>4. reg.primary = 0 => Primary = {}
  BY <1>1, <1>2 DEF Primary
<1>5. ASSUME reg.primary # 0
      PROVE  /\ reg.primary \in Ids /\ Primary = {reg.primary} /\ Has(reg.primary)
             /\ reg.primary \in Visible /\ reg.state[reg.primary] \in {"up", "connecting"}
  <2>1. reg.primary \in Ids /\ reg.state[reg.primary] \in {"up", "connecting"}
    BY <1>1, <1>5 DEF DashInv
  <2>2. Has(reg.primary)
    BY <2>1 DEF Has
  <2>3. reg.primary \in Registered /\ reg.primary \in Visible
    BY <2>1, <2>2 DEF Registered, Visible, Down
  <2> QED  BY <2>1, <2>2, <2>3 DEF Primary
<1>6. \A p \in Primary : p = reg.primary
  BY DEF Primary
<1> QED  BY <1>1, <1>2, <1>3, <1>4, <1>5, <1>6

LEMMA TitleIs ==
    ASSUME DashInv
    PROVE  /\ Title \in {"DISCONNECTED", "NO EXIT", "CONNECTED", "CONNECTING"}
           /\ Title = "DISCONNECTED" <=> Registered = {}
           /\ Title = "NO EXIT" <=> Registered # {} /\ reg.primary = 0
           /\ Title = "CONNECTED" <=> reg.primary # 0 /\ reg.state[reg.primary] = "up"
           /\ Title = "CONNECTING" <=> reg.primary # 0 /\ reg.state[reg.primary] = "connecting"
<1>1. Titles["up"] = "CONNECTED" /\ Titles["connecting"] = "CONNECTING"
  BY DEF Titles
<1>2. CASE Registered = {}
  BY <1>2, PrimaryFacts DEF Title
<1>3. CASE Registered # {} /\ reg.primary = 0
  BY <1>3, PrimaryFacts DEF Title
<1>4. CASE reg.primary # 0
  BY <1>1, <1>4, PrimaryFacts DEF Title
<1> QED  BY <1>2, <1>3, <1>4

LEMMA BannerIs ==
    ASSUME DashInv, NEW v \in Readings
    PROVE  /\ Banner(v) = "EXPOSED" <=> Registered = {}
           /\ Banner(v) \in {"EXPOSED", "PARTIAL", "PROTECTED"}
           /\ Banner(v) = "PROTECTED" <=>
                 /\ Title = "CONNECTED"
                 /\ ~(v.real = v.public \/ v.dns = "leaking" \/ KillswitchAlarm(v.ks) \/ v.cipher = "Insecure")
<1>1. Primary \cap Connected # {} <=> Title = "CONNECTED"
  <2>1. CASE reg.primary = 0
    BY <2>1, PrimaryFacts, TitleIs
  <2>2. CASE reg.primary # 0
    <3>1. reg.primary \in Connected <=> reg.state[reg.primary] = "up"
      BY <2>2, PrimaryFacts DEF Connected
    <3> QED  BY <2>2, <3>1, PrimaryFacts, TitleIs
  <2> QED  BY <2>1, <2>2
<1>2. Title = "CONNECTED" => Registered # {}
  BY TitleIs
<1> QED  BY <1>1, <1>2 DEF Banner

LEMMA TitleFits == ASSUME DashInv PROVE TitleFitsVerdict
<1> SUFFICES ASSUME NEW v \in Readings
             PROVE  /\ Title = "DISCONNECTED" <=> Banner(v) = "EXPOSED"
                    /\ Title = "NO EXIT" <=> ExitIp(v) = "no exit"
                    /\ Banner(v) = "PROTECTED" =>
                          /\ Title = "CONNECTED"
                          /\ Alarms(v) \subseteq {"encryption"} /\ CipherRow(v) # "Insecure"
                          /\ HeaderKs(v.ks) \notin {"Off", "DROPPED"}
                    /\ Title = "CONNECTED" /\ Banner(v) = "PARTIAL" => Alarms(v) # {}
                    /\ HeaderKs(v.ks) = "DROPPED" /\ Registered # {} => KillswitchRow(v) = "VPN dropped"
  BY DEF TitleFitsVerdict
<1>1. /\ v.ks \in KillSwitches /\ v.real \in {"none", "home"} /\ v.public \in {"home", "exit", "pending"}
      /\ v.dns \in {"leaking", "protected"} /\ v.cipher \in {"Modern", "Deprecated", "Insecure"}
  BY DEF Readings
<1>2. /\ v.ks \in {<<"Off", "Disabled">>, <<"Auto", "Armed">>, <<"Auto", "Blocking">>,
                   <<"AlwaysOn", "Armed">>, <<"AlwaysOn", "Blocking">>}
      /\ v.ks[1] \in {"Off", "Auto", "AlwaysOn"}
      /\ KillswitchAlarm(v.ks) <=> v.ks = <<"Auto", "Blocking">> \/ v.ks = <<"Off", "Disabled">>
      /\ HeaderKs(v.ks) = "DROPPED" <=> v.ks = <<"Auto", "Blocking">>
      /\ HeaderKs(v.ks) = "Off" <=> v.ks = <<"Off", "Disabled">>
      /\ v.ks[1] = "Off" <=> v.ks = <<"Off", "Disabled">>
  BY <1>1 DEF KillSwitches, KillswitchAlarm, HeaderKs
<1>3. Title = "DISCONNECTED" <=> Banner(v) = "EXPOSED"
  BY BannerIs, TitleIs
<1>4. Title = "NO EXIT" <=> ExitIp(v) = "no exit"
  <2>1. Primary = {} <=> reg.primary = 0
    BY PrimaryFacts
  <2>2. ExitIp(v) = "no exit" <=> Banner(v) # "EXPOSED" /\ Primary = {}
    BY DEF ExitIp
  <2> QED  BY <2>1, <2>2, BannerIs, TitleIs
<1>5. Title = "CONNECTED" => CipherRow(v) = v.cipher
  <2>1. Title = "CONNECTED" => Primary \cap Connected # {} /\ Primary # {}
    BY PrimaryFacts, TitleIs DEF Connected
  <2> QED  BY <2>1 DEF CipherRow
<1>6. KillswitchRow(v) = "VPN dropped" <=> v.ks = <<"Auto", "Blocking">> /\ Banner(v) # "EXPOSED"
  BY <1>2 DEF KillswitchRow
<1>7. /\ "exit" \in Alarms(v) <=> ExitIp(v) \in {"exposed", "leaking"}
      /\ "dns" \in Alarms(v) <=> v.dns = "leaking" /\ Banner(v) # "EXPOSED"
      /\ "killswitch" \in Alarms(v) <=> KillswitchRow(v) = "VPN dropped" \/ v.ks[1] = "Off"
      /\ "encryption" \in Alarms(v) <=>
            Banner(v) # "EXPOSED" /\ CipherRow(v) \in {"Deprecated", "Insecure"}
      /\ Alarms(v) \subseteq {"exit", "dns", "killswitch", "encryption"}
  BY DEF Alarms
<1>8. Title = "CONNECTED" =>
        (ExitIp(v) \in {"exposed", "leaking"} <=> v.real = v.public)
  <2>1. Title = "CONNECTED" => Banner(v) # "EXPOSED" /\ Primary # {}
    BY BannerIs, PrimaryFacts, TitleIs
  <2> QED  BY <1>1, <2>1 DEF ExitIp
<1>9. ASSUME Banner(v) = "PROTECTED"
      PROVE  /\ Title = "CONNECTED"
             /\ Alarms(v) \subseteq {"encryption"} /\ CipherRow(v) # "Insecure"
             /\ HeaderKs(v.ks) \notin {"Off", "DROPPED"}
  <2>1. /\ Title = "CONNECTED" /\ v.real # v.public /\ v.dns # "leaking"
        /\ ~KillswitchAlarm(v.ks) /\ v.cipher # "Insecure"
    BY <1>9, BannerIs
  <2>2. "exit" \notin Alarms(v) /\ "dns" \notin Alarms(v) /\ "killswitch" \notin Alarms(v)
    BY <1>2, <1>6, <1>7, <1>8, <2>1
  <2> QED  BY <1>2, <1>5, <1>7, <2>1, <2>2
<1>10. ASSUME Title = "CONNECTED", Banner(v) = "PARTIAL" PROVE Alarms(v) # {}
  <2>1. v.real = v.public \/ v.dns = "leaking" \/ KillswitchAlarm(v.ks) \/ v.cipher = "Insecure"
    BY <1>10, BannerIs
  <2> QED  BY <1>2, <1>5, <1>6, <1>7, <1>8, <1>10, <2>1
<1>11. HeaderKs(v.ks) = "DROPPED" /\ Registered # {} => KillswitchRow(v) = "VPN dropped"
  BY <1>2, <1>6, BannerIs
<1> QED  BY <1>3, <1>4, <1>9, <1>10, <1>11

LEMMA OneExitHolds == ASSUME DashInv PROVE OneExit
<1> SUFFICES ASSUME NEW row \in Ids
             PROVE  /\ ShowsExit(row) <=> Title = "CONNECTED" /\ Starred(row, 5)
                    /\ AtRisk(row) \/ FwmarkWarning(row) =>
                          /\ Title \in {"CONNECTED", "CONNECTING", "DISCONNECTING"}
                          /\ \E p \in Ids \ {row} : Starred(p, 5) /\ ~AtRisk(p) /\ p = Shown(0)
                    /\ row \in Visible <=> Badge(row) \notin {"none", "failed"}
  BY DEF OneExit
<1>1. row # 0 /\ Shown(row) = row /\ Shown(0) = reg.primary
  BY PrimaryFacts DEF Shown
<1>2. reg.state[row] \in EntryStates
  BY DEF DashInv, RegInv, Registries
<1>3. ShowsExit(row) <=> row \in Connected /\ row = reg.primary
  BY <1>1 DEF ShowsExit, Body
<1>4. Starred(row, 5) <=> Has(row) /\ row = reg.primary
  BY DEF Starred
<1>5. ShowsExit(row) <=> Title = "CONNECTED" /\ Starred(row, 5)
  <2>1. CASE row = reg.primary
    <3>1. reg.state[row] \in {"up", "connecting"} /\ Has(row)
      BY <1>1, <2>1, PrimaryFacts
    <3>2. row \in Connected <=> reg.state[row] = "up"
      BY <3>1 DEF Connected
    <3> QED  BY <1>1, <1>3, <1>4, <2>1, <3>1, <3>2, TitleIs
  <2>2. CASE row # reg.primary
    BY <1>3, <1>4, <2>2
  <2> QED  BY <2>1, <2>2
<1>6. ASSUME AtRisk(row) \/ FwmarkWarning(row)
      PROVE  /\ Title \in {"CONNECTED", "CONNECTING", "DISCONNECTING"}
             /\ \E p \in Ids \ {row} : Starred(p, 5) /\ ~AtRisk(p) /\ p = Shown(0)
  <2>1. reg.primary # 0 /\ reg.primary # row
    <3>1. AtRisk(row) => reg.primary # 0 /\ reg.primary # row
      BY DEF AtRisk, Role
    <3>2. FwmarkWarning(row) => reg.primary # 0 /\ reg.primary # row
      BY <1>1 DEF FwmarkWarning
    <3> QED  BY <1>6, <3>1, <3>2
  <2>2. Title \in {"CONNECTED", "CONNECTING"}
    BY <2>1, PrimaryFacts, TitleIs
  <2>3. reg.primary \in Ids \ {row} /\ Starred(reg.primary, 5) /\ ~AtRisk(reg.primary)
    BY <2>1, PrimaryFacts DEF Starred, AtRisk, Role
  <2> QED  BY <1>1, <2>2, <2>3
<1>7. row \in Visible <=> Badge(row) \notin {"none", "failed"}
  <2>1. Badges[reg.state[row]] \notin {"none", "failed"} <=> reg.state[row] \notin {"absent", "idle", "failed"}
    BY <1>2 DEF Badges, EntryStates
  <2> QED  BY <2>1 DEF Visible, Registered, Has, Down, Badge
<1> QED  BY <1>5, <1>6, <1>7

-----------------------------------------------------------------------------
(* The strip *)

LEMMA FittingFacts ==
    ASSUME NEW form \in {Narrow, Dots}, NEW room \in Nat, Len(Ordered) \in Nat
    PROVE  LET n == Len(Ordered)
               k == Fitting(form, room)
           IN  /\ k \in 0 .. n
               /\ k > 0 => Cells(form, k) + Overflow(n - k) <= room /\ Cells(form, 1) + Overflow(n - 1) <= room
               /\ k = 0 => n = 0 \/ ~(Cells(form, 1) + Overflow(n - 1) <= room)
<1> DEFINE n == Len(Ordered)
           FitsIn(k) == \A i \in 1 .. k : Cells(form, i) + Overflow(n - i) <= room
           Best(k) == FitsIn(k) /\ (k = n \/ ~FitsIn(k + 1))
           k == Fitting(form, room)
           T == {j \in 0 .. n : ~FitsIn(j)}
<1>1. FitsIn(0)
  OBVIOUS
<1>2. \E j \in 0 .. n : Best(j)
  <2>1. CASE T = {}
    <3>1. n \in 0 .. n
      OBVIOUS
    <3> QED  BY <2>1, <3>1
  <2>2. CASE T # {}
    <3>1. T \subseteq Nat
      OBVIOUS
    <3> HIDE DEF T
    <3>2. PICK x \in T : \A y \in T : x <= y
      BY <2>2, <3>1, LeastNumber
    <3> USE DEF T
    <3> HIDE DEF FitsIn
    <3>3. x \in 0 .. n /\ ~FitsIn(x) /\ x # 0
      BY <1>1, <3>2
    <3>4. x - 1 \in 0 .. n /\ (x - 1) + 1 = x /\ ~(x <= x - 1)
      BY <3>3
    <3>5. FitsIn(x - 1)
      BY <3>2, <3>4
    <3> QED  BY <3>3, <3>4, <3>5
  <2> QED  BY <2>1, <2>2
<1>3. k = CHOOSE j \in 0 .. n : Best(j)
  BY DEF Fitting
<1> HIDE DEF Best, k
<1>4. k \in 0 .. n /\ Best(k)
  BY <1>2, <1>3
<1>5. FitsIn(k) /\ (k = n \/ ~FitsIn(k + 1))
  BY <1>4 DEF Best
<1>6. ASSUME k > 0
      PROVE  Cells(form, k) + Overflow(n - k) <= room /\ Cells(form, 1) + Overflow(n - 1) <= room
  <2>1. k \in 1 .. k /\ 1 \in 1 .. k
    BY <1>4, <1>6
  <2> QED  BY <1>5, <2>1
<1>7. ASSUME k = 0
      PROVE  n = 0 \/ ~(Cells(form, 1) + Overflow(n - 1) <= room)
  <2>1. CASE k = n
    BY <1>7, <2>1
  <2>2. CASE ~FitsIn(1)
    <3>1. \A i \in 1 .. 1 : i = 1
      OBVIOUS
    <3> QED  BY <2>2, <3>1
  <2> QED  BY <1>5, <1>7, <2>1, <2>2
<1> QED  BY <1>4, <1>6, <1>7 DEF k

LEMMA OrderedFacts ==
    ASSUME DashInv
    PROVE  /\ Len(Ordered) \in Nat /\ Len(Ordered) = Cardinality(Visible)
           /\ Len(Ordered) = 0 <=> Visible = {}
           /\ Visible \cap Primary # {} => Head(Ordered) = reg.primary
<1> DEFINE A == Visible \cap Primary
           B == Visible \ Primary
           a == InOrder(A)
           b == InOrder(B)
<1>1. Visible \subseteq Ids /\ IsFiniteSet(Visible)
  BY PrimaryFacts, RegFacts, FS_Subset
<1>2. /\ A \subseteq Ids /\ B \subseteq Ids /\ A \subseteq Nat /\ B \subseteq Nat
      /\ IsFiniteSet(A) /\ IsFiniteSet(B)
  BY <1>1, RegFacts, FS_Intersection, FS_Difference
<1>3. Cardinality(B) = Cardinality(Visible) - Cardinality(A)
  BY <1>1, FS_Difference
<1>4. Cardinality(Visible) \in Nat /\ (Cardinality(Visible) = 0 <=> Visible = {})
  BY <1>1, FS_CardinalityType, FS_EmptySet
<1>5. Ordered = a \o b
  BY DEF Ordered
<1>6. \A p \in A : p = reg.primary
  BY PrimaryFacts
<1> HIDE DEF A, B
<1>7. a \in Seq(Ids) /\ b \in Seq(Ids)
  BY <1>2, InOrderSeq
<1>8. /\ Cardinality(A) \in Nat /\ a \in [1 .. Cardinality(A) -> A]
      /\ Cardinality(B) \in Nat /\ b \in [1 .. Cardinality(B) -> B]
  BY <1>2, InOrderFacts
<1>9. Len(a) = Cardinality(A) /\ Len(b) = Cardinality(B)
  BY <1>7, <1>8, LenProperties
<1> HIDE DEF a, b
<1>10. Len(Ordered) = Len(a) + Len(b)
  BY <1>5, <1>7
<1>11. ASSUME A # {} PROVE Head(Ordered) = reg.primary
  <2>1. Cardinality(A) # 0
    BY <1>2, <1>11, FS_EmptySet
  <2>2. 1 \in 1 .. Len(a)
    BY <1>8, <1>9, <2>1
  <2>3. Ordered[1] = a[1] /\ a[1] \in A
    BY <1>5, <1>7, <1>8, <1>9, <2>2
  <2>4. Ordered \in Seq(Ids) /\ Ordered # <<>>
    BY <1>5, <1>7, <1>8, <1>9, <1>10, <2>1
  <2> QED  BY <1>6, <2>3, <2>4
<1> QED  BY <1>3, <1>4, <1>8, <1>9, <1>10, <1>11 DEF A

LEMMA StripTells == ASSUME DashInv PROVE StripTellsAll
<1> SUFFICES ASSUME NEW b \in Budgets
             PROVE  /\ Strip(b).cells <= b
                    /\ Strip(b).tier = "full" => Strip(b).shown = Cardinality(Visible)
                    /\ Strip(b).tier = "none" => Visible = {} \/ b < 9
  BY OrderedFacts DEF StripTellsAll
<1> DEFINE n == Len(Ordered)
           narrow == Fitting(Narrow, Room(Narrow, b))
           dots == Fitting(Dots, Room(Dots, b))
<1>1. b \in Nat /\ NameWidth \in Nat
  BY DashboardAssumption
<1>2. n \in Nat /\ n = Cardinality(Visible) /\ (n = 0 <=> Visible = {})
  BY OrderedFacts
<1>3. /\ Narrow.tier = "narrow" /\ Narrow.frame = 14 /\ Narrow.step = 3 /\ Narrow.gap = 1
      /\ Dots.tier = "dots" /\ Dots.frame = 5 /\ Dots.step = 1 /\ Dots.gap = 0
  BY DEF Narrow, Dots
<1>4. /\ Room(Narrow, b) = IF b < 14 THEN 0 ELSE b - 14
      /\ Room(Dots, b) = IF b < 5 THEN 0 ELSE b - 5
  BY <1>3 DEF Room
<1>5. Room(Narrow, b) \in Nat /\ Room(Dots, b) \in Nat
  BY <1>1, <1>4
<1>6. \A i \in Int : Cells(Narrow, i) = 3 * i - 1 /\ Cells(Dots, i) = i
  BY <1>3 DEF Cells
<1>7. \A i \in Int : Overflow(i) \in {0, 3}
  BY DEF Overflow
<1>8. /\ narrow \in 0 .. n
      /\ narrow > 0 => /\ Cells(Narrow, narrow) + Overflow(n - narrow) <= Room(Narrow, b)
                       /\ Cells(Narrow, 1) + Overflow(n - 1) <= Room(Narrow, b)
  BY <1>2, <1>5, FittingFacts
<1>9. /\ dots \in 0 .. n
      /\ dots > 0 => /\ Cells(Dots, dots) + Overflow(n - dots) <= Room(Dots, b)
                     /\ Cells(Dots, 1) + Overflow(n - 1) <= Room(Dots, b)
      /\ dots = 0 => n = 0 \/ ~(Cells(Dots, 1) + Overflow(n - 1) <= Room(Dots, b))
  BY <1>2, <1>5, FittingFacts
<1> HIDE DEF n, narrow, dots
<1>10. ASSUME narrow > 0 PROVE 14 + Cells(Narrow, narrow) + Overflow(n - narrow) <= b
  <2>1. Cells(Narrow, 1) = 2 /\ Overflow(n - 1) \in {0, 3}
    BY <1>2, <1>6, <1>7
  <2>2. ~(b < 14)
    BY <1>1, <1>4, <1>8, <1>10, <2>1
  <2>3. Cells(Narrow, narrow) = 3 * narrow - 1 /\ Overflow(n - narrow) \in {0, 3}
    BY <1>2, <1>6, <1>7, <1>8
  <2> QED  BY <1>1, <1>4, <1>8, <1>10, <2>2, <2>3
<1>11. ASSUME dots > 0 PROVE 5 + Cells(Dots, dots) + Overflow(n - dots) <= b
  <2>1. Cells(Dots, 1) = 1 /\ Overflow(n - 1) \in {0, 3}
    BY <1>2, <1>6, <1>7
  <2>2. ~(b < 5)
    BY <1>1, <1>4, <1>9, <1>11, <2>1
  <2>3. Cells(Dots, dots) = dots /\ Overflow(n - dots) \in {0, 3}
    BY <1>2, <1>6, <1>7, <1>9
  <2> QED  BY <1>1, <1>4, <1>9, <1>11, <2>2, <2>3
<1>12. ASSUME n # 0, dots = 0 PROVE b < 9
  <2>1. Cells(Dots, 1) = 1 /\ Overflow(n - 1) \in {0, 3}
    BY <1>2, <1>6, <1>7
  <2> QED  BY <1>1, <1>4, <1>9, <1>12, <2>1
<1>13. Strip(b) = IF n = 0 \/ b < 8 THEN NoStrip
                  ELSE IF FullWidth <= b THEN [tier |-> "full", shown |-> n, cells |-> FullWidth]
                  ELSE IF narrow > 0 THEN StripOf(Narrow, narrow)
                  ELSE IF dots > 0 THEN StripOf(Dots, dots)
                  ELSE NoStrip
  BY DEF Strip, n, narrow, dots
<1>14. /\ StripOf(Narrow, narrow).tier = "narrow"
       /\ StripOf(Narrow, narrow).cells = 14 + Cells(Narrow, narrow) + Overflow(n - narrow)
       /\ StripOf(Dots, dots).tier = "dots"
       /\ StripOf(Dots, dots).cells = 5 + Cells(Dots, dots) + Overflow(n - dots)
       /\ NoStrip.tier = "none" /\ NoStrip.cells = 0
  BY <1>3 DEF StripOf, NoStrip, n
<1> HIDE DEF NoStrip
<1>15. CASE n = 0 \/ b < 8
  <2>1. Strip(b) = NoStrip
    BY <1>13, <1>15
  <2> QED  BY <1>1, <1>2, <1>14, <1>15, <2>1
<1>16. CASE ~(n = 0 \/ b < 8) /\ FullWidth <= b
  <2>1. Strip(b) = [tier |-> "full", shown |-> n, cells |-> FullWidth]
    BY <1>13, <1>16
  <2> QED  BY <1>2, <1>16, <2>1
<1>17. CASE ~(n = 0 \/ b < 8) /\ ~(FullWidth <= b) /\ narrow > 0
  <2>1. Strip(b) = StripOf(Narrow, narrow)
    BY <1>13, <1>17
  <2> QED  BY <1>10, <1>14, <1>17, <2>1
<1>18. CASE ~(n = 0 \/ b < 8) /\ ~(FullWidth <= b) /\ ~(narrow > 0) /\ dots > 0
  <2>1. Strip(b) = StripOf(Dots, dots)
    BY <1>13, <1>18
  <2> QED  BY <1>11, <1>14, <1>18, <2>1
<1>19. CASE ~(n = 0 \/ b < 8) /\ ~(FullWidth <= b) /\ ~(narrow > 0) /\ ~(dots > 0)
  <2>1. Strip(b) = NoStrip
    BY <1>13, <1>19
  <2>2. dots = 0
    BY <1>2, <1>9, <1>19
  <2>3. b < 9 /\ 0 <= b
    BY <1>1, <1>12, <1>19, <2>2
  <2> QED  BY <1>14, <2>1, <2>3
<1> QED  BY <1>15, <1>16, <1>17, <1>18, <1>19

LEMMA PanelsTellOneStory == DashInv => PanelsAgree
BY TitleFits, OneExitHolds, StripTells DEF PanelsAgree

-----------------------------------------------------------------------------
(* Screen: what the keyboard acts on                                         *)

PanelNames == {"Sidebar", "Chart", "ConnectionDetails", "Security", "Logs"}
TabNames   == {"Keys", "Roles", "Sigils", "Guard"}
FieldNames == {"Username", "Password", "Otp", "SaveCheckbox"}

\* Dialogs that are at one of their fields, whose cursor is within the text, and viewers that show a line of the file.
DialogRecords ==
    {m \in [kind : Modes, chars : 0 .. MaxText, cursor : Nat, wide : {1, 2}, yes : BOOLEAN,
            field : FieldNames, hasOtp : BOOLEAN, pass : BOOLEAN, otp : BOOLEAN, scroll : Nat,
            tab : TabNames] :
        m.field = "Otp" => m.hasOtp}
Dialogs == {m \in DialogRecords : m.wide = 1 => m.cursor <= m.chars}
Viewers ==
    {c \in [open : BOOLEAN, scroll : Nat, lines : Nat] :
        c.open => c.scroll = 0 \/ c.scroll < c.lines}
Menus == [kind : {"none", "action", "bulk"}, item : Nat]

Uis == [running : BOOLEAN, profiles : 0 .. MaxProfiles, sel : 0 .. MaxProfiles + 1,
        panel : PanelNames, zoom : PanelNames \cup {"none"}, config : Viewers, menu : Menus,
        mode : Dialogs, toast : BOOLEAN, rows : Heights]

\* A menu and the viewer are never open together, and the marked row of a menu exists
\* in the panel behind it.
Good(u) ==
    /\ u \in Uis
    /\ u.sel > u.profiles => u.sel = 1 /\ u.profiles = 0
    /\ u.menu # NoMenu => ~u.config.open /\ u.menu.item \in 1 .. Len(Actions(u))

-----------------------------------------------------------------------------
(* One field at a time *)

LEMMA AtRest == NoMode \in Dialogs /\ NoConfig \in Viewers /\ NoMenu \in Menus
BY ScreenAssumption DEF NoMode, NoConfig, NoMenu, Dialogs, DialogRecords, Viewers, Menus, Modes, TabNames, FieldNames

LEMMA SetText ==
    ASSUME NEW m \in DialogRecords, NEW n \in 0 .. MaxText, NEW c \in Nat, NEW w \in {1, 2},
           w = 1 => c <= n
    PROVE  [m EXCEPT !.chars = n, !.cursor = c, !.wide = w] \in Dialogs
<1> DEFINE a == [m EXCEPT !.chars = n]
           b == [a EXCEPT !.cursor = c]
           d == [b EXCEPT !.wide = w]
<1>1. a \in DialogRecords /\ a.chars = n
  BY DEF DialogRecords
<1> HIDE DEF a
<1>2. b \in DialogRecords /\ b.chars = n /\ b.cursor = c
  BY <1>1 DEF DialogRecords
<1> HIDE DEF b
<1>3. d \in DialogRecords /\ d.chars = n /\ d.cursor = c /\ d.wide = w
  BY <1>2 DEF DialogRecords
<1> HIDE DEF d
<1>4. d \in Dialogs
  BY <1>3 DEF Dialogs
<1> QED  BY <1>4 DEF a, b, d

LEMMA SetMode ==
    ASSUME NEW u, Good(u), NEW m \in Dialogs
    PROVE  Good([u EXCEPT !.mode = m])
BY DEF Good, Uis, Actions

LEMMA SetToast ==
    ASSUME NEW u, Good(u), NEW t \in BOOLEAN
    PROVE  Good([u EXCEPT !.toast = t])
BY DEF Good, Uis, Actions

LEMMA SetZoom ==
    ASSUME NEW u, Good(u), NEW z \in PanelNames \cup {"none"}
    PROVE  Good([u EXCEPT !.zoom = z])
BY DEF Good, Uis, Actions

LEMMA SetSel ==
    ASSUME NEW u, Good(u), NEW i \in Nat, i <= u.profiles \/ (i = 1 /\ u.profiles = 0)
    PROVE  Good([u EXCEPT !.sel = i])
BY ScreenAssumption DEF Good, Uis, Actions

LEMMA SetPanel ==
    ASSUME NEW u, Good(u), u.menu = NoMenu, NEW p \in PanelNames
    PROVE  Good([u EXCEPT !.panel = p])
BY DEF Good, Uis

LEMMA SetConfig ==
    ASSUME NEW u, Good(u), NEW c \in Viewers, c.open => u.menu = NoMenu
    PROVE  Good([u EXCEPT !.config = c])
BY DEF Good, Uis, Actions

LEMMA SetRows ==
    ASSUME NEW u, Good(u), NEW h \in Heights
    PROVE  Good([u EXCEPT !.rows = h])
BY DEF Good, Uis, Actions

LEMMA NoMenuIsGood ==
    ASSUME NEW u, Good(u)
    PROVE  Good([u EXCEPT !.menu = NoMenu]) /\ [u EXCEPT !.menu = NoMenu].menu = NoMenu
BY AtRest DEF Good, Uis

LEMMA SetMenu ==
    ASSUME NEW u, Good(u), ~u.config.open, NEW k \in {"action", "bulk"}, NEW i \in Nat \ {0},
           i <= Len(IF k = "bulk" THEN BulkActions ELSE SingleActions(u.panel))
    PROVE  Good([u EXCEPT !.menu = [kind |-> k, item |-> i]])
BY DEF Good, Uis, Actions, Menus

LEMMA Overlaid ==
    ASSUME NEW u, Good(u)
    PROVE  Good(CloseOverlay(u))
BY AtRest DEF Good, Uis, CloseOverlay, NoMenu, NoConfig

LEMMA QuitIsGood ==
    ASSUME NEW u, Good(u)
    PROVE  Good(Quit(u))
<1> DEFINE q == Quit(u)
<1>1. u \in Uis /\ 0 \in 0 .. MaxProfiles + 1 /\ "Sidebar" \in PanelNames
  BY ScreenAssumption DEF Good, PanelNames
<1>2. q \in Uis
  BY <1>1, AtRest DEF Uis, Quit
<1>3. q.menu = NoMenu /\ q.sel = 0 /\ q.profiles \in Nat
  BY <1>1, ScreenAssumption DEF Uis, Quit
<1> HIDE DEF q
<1>4. Good(q)
  BY <1>2, <1>3 DEF Good
<1> QED  BY <1>4 DEF q

LEMMA OpenedIsGood ==
    ASSUME NEW u, Good(u), NEW k \in Modes
    PROVE  /\ [NoMode EXCEPT !.kind = k] \in Dialogs
           /\ Good(Opened(u, k))
<1>1. [NoMode EXCEPT !.kind = k] \in Dialogs
  BY AtRest DEF Dialogs, DialogRecords, NoMode
<1> QED  BY <1>1, SetMode DEF Opened

LEMMA ToastedIsGood ==
    ASSUME NEW u, Good(u)
    PROVE  Good(Toasted(u)) /\ \A v \in Perhaps(u) : Good(v)
BY SetToast DEF Toasted, Perhaps

-----------------------------------------------------------------------------
(* Connecting *)

LEMMA GatesGood ==
    ASSUME NEW u, Good(u)
    PROVE  \A v \in Gates(u) : Good(v)
BY OpenedIsGood DEF Gates, Modes

LEMMA ConflictsGood ==
    ASSUME NEW u, Good(u)
    PROVE  \A v \in Conflicts(u) : Good(v)
<1> SUFFICES ASSUME NEW k \in {"Takeover", "RouteOverlap"}
             PROVE  Good([Opened(u, k) EXCEPT !.mode.yes = TRUE])
  BY DEF Conflicts
<1> DEFINE m == [NoMode EXCEPT !.kind = k]
<1>1. k \in Modes
  BY DEF Modes, Asking
<1>2. m \in Dialogs /\ Good(Opened(u, k)) /\ Opened(u, k).mode = m
  BY <1>1, OpenedIsGood DEF Good, Uis, Opened
<1>3. [m EXCEPT !.yes = TRUE] \in Dialogs
  BY <1>2 DEF Dialogs, DialogRecords
<1> HIDE DEF m
<1>4. Good([Opened(u, k) EXCEPT !.mode = [m EXCEPT !.yes = TRUE]])
  BY <1>2, <1>3, SetMode
<1> QED  BY <1>2, <1>4

LEMMA AuthPromptsGood ==
    ASSUME NEW u, Good(u)
    PROVE  \A v \in AuthPrompts(u) : Good(v)
<1> DEFINE o == Opened(u, "AuthPrompt")
           m == [NoMode EXCEPT !.kind = "AuthPrompt"]
<1>1. "AuthPrompt" \in Modes
  BY DEF Modes
<1>2. m \in Dialogs /\ Good(o) /\ o.mode = m
  BY <1>1, OpenedIsGood DEF Good, Uis, Opened
<1> HIDE DEF o, m
<1>3. ASSUME NEW b \in BOOLEAN
      PROVE  Good([o EXCEPT !.mode.hasOtp = b])
  <2>1. m.field = "Username"
    BY DEF m, NoMode
  <2>2. [m EXCEPT !.hasOtp = b] \in Dialogs
    BY <1>2, <2>1 DEF Dialogs, DialogRecords
  <2>3. Good([o EXCEPT !.mode = [m EXCEPT !.hasOtp = b]])
    BY <1>2, <2>2, SetMode
  <2> QED  BY <1>2, <2>3
<1>4. ASSUME NEW wd \in {1, 2}
      PROVE  Good([o EXCEPT !.mode.hasOtp = TRUE, !.mode.pass = TRUE, !.mode.field = "Otp",
                            !.mode.chars = MaxText, !.mode.cursor = MaxText, !.mode.wide = wd])
  <2> DEFINE e == [m EXCEPT !.hasOtp = TRUE, !.pass = TRUE, !.field = "Otp"]
             f == [e EXCEPT !.chars = MaxText, !.cursor = MaxText, !.wide = wd]
             g == [o EXCEPT !.mode.hasOtp = TRUE, !.mode.pass = TRUE, !.mode.field = "Otp",
                            !.mode.chars = MaxText, !.mode.cursor = MaxText, !.mode.wide = wd]
  <2>1. g = [o EXCEPT !.mode = f]
    BY <1>2 DEF Good, Uis, Dialogs, DialogRecords
  <2>2. e \in DialogRecords
    BY <1>2 DEF Dialogs, DialogRecords, FieldNames
  <2> HIDE DEF e
  <2>3. MaxText \in 0 .. MaxText /\ MaxText \in Nat /\ MaxText <= MaxText
    BY ScreenAssumption
  <2>4. f \in Dialogs
    BY <2>2, <2>3, SetText
  <2> HIDE DEF f, g
  <2>5. Good([o EXCEPT !.mode = f])
    BY <1>2, <2>4, SetMode
  <2>6. Good(g)
    BY <2>1, <2>5
  <2> QED  BY <2>6 DEF g
<1> QED  BY <1>3, <1>4 DEF AuthPrompts, o

LEMMA AskGood ==
    ASSUME NEW u, Good(u)
    PROVE  \A v \in AskToConnect(u) : Good(v)
BY GatesGood, ConflictsGood, AuthPromptsGood DEF AskToConnect

-----------------------------------------------------------------------------
(* Messages *)

LEMMA Chosen ==
    ASSUME NEW u, Good(u), Selected(u)
    PROVE  u.sel \in 1 .. u.profiles /\ u.profiles \in Nat
BY ScreenAssumption DEF Good, Uis, Selected

LEMMA OpenConfigGood ==
    ASSUME NEW u, Good(u), u.menu = NoMenu
    PROVE  \A v \in OpenConfig(u) : Good(v)
<1> SUFFICES ASSUME NEW n \in FileLines \cup {0}
             PROVE  Good([u EXCEPT !.config = [open |-> TRUE, scroll |-> 0, lines |-> n]])
  BY DEF OpenConfig
<1>1. [open |-> TRUE, scroll |-> 0, lines |-> n] \in Viewers
  BY ScreenAssumption DEF Viewers
<1> QED  BY <1>1, SetConfig

LEMMA OpenRenameGood ==
    ASSUME NEW u, Good(u)
    PROVE  \A v \in OpenRename(u) : Good(v)
<1> DEFINE o == Opened(u, "Rename")
           m == [NoMode EXCEPT !.kind = "Rename"]
<1>1. m \in Dialogs /\ Good(o) /\ o.mode = m
  BY OpenedIsGood DEF Good, Uis, Opened, Modes
<1> HIDE DEF o, m
<1>2. ASSUME NEW n \in 1 .. MaxText
      PROVE  Good([o EXCEPT !.mode.chars = n, !.mode.cursor = n])
  <2> DEFINE e == [m EXCEPT !.chars = n, !.cursor = n, !.wide = 1]
             f == [m EXCEPT !.chars = n, !.cursor = n]
             g == [o EXCEPT !.mode.chars = n, !.mode.cursor = n]
  <2>1. f \in Dialogs
    <3>1. e \in Dialogs
      <4>1. m \in DialogRecords
        BY <1>1 DEF Dialogs
      <4>2. n \in 0 .. MaxText /\ n \in Nat /\ n <= n /\ 1 \in {1, 2}
        BY ScreenAssumption
      <4> QED  BY <4>1, <4>2, SetText
    <3>2. m.wide = 1
      BY DEF m, NoMode
    <3>3. e = f
      BY <1>1, <3>2 DEF Dialogs, DialogRecords
    <3> QED  BY <3>1, <3>3
  <2>2. g = [o EXCEPT !.mode = f]
    BY <1>1 DEF Good, Uis, Dialogs, DialogRecords
  <2> HIDE DEF f, g
  <2>3. Good([o EXCEPT !.mode = f])
    BY <1>1, <2>1, SetMode
  <2>4. Good(g)
    BY <2>2, <2>3
  <2> QED  BY <2>4 DEF g
<1> QED  BY <1>2, ToastedIsGood DEF OpenRename, o

LEMMA ManageAuthGood ==
    ASSUME NEW u, Good(u)
    PROVE  \A v \in ManageAuth(u) : Good(v)
<1> DEFINE o == Opened(u, "AuthPrompt")
           m == [NoMode EXCEPT !.kind = "AuthPrompt"]
<1>1. m \in Dialogs /\ Good(o) /\ o.mode = m
  BY OpenedIsGood DEF Good, Uis, Opened, Modes
<1> HIDE DEF o, m
<1>2. ASSUME NEW wd \in {1, 2}
      PROVE  Good([o EXCEPT !.mode.chars = MaxText, !.mode.cursor = wd * MaxText,
                            !.mode.wide = wd, !.mode.pass = TRUE])
  <2> DEFINE e == [m EXCEPT !.chars = MaxText, !.cursor = wd * MaxText, !.wide = wd]
             f == [e EXCEPT !.pass = TRUE]
             g == [o EXCEPT !.mode.chars = MaxText, !.mode.cursor = wd * MaxText,
                            !.mode.wide = wd, !.mode.pass = TRUE]
  <2>1. g = [o EXCEPT !.mode = f]
    BY <1>1 DEF Good, Uis, Dialogs, DialogRecords
  <2>2. wd * MaxText \in Nat /\ (wd = 1 => wd * MaxText <= MaxText) /\ MaxText \in 0 .. MaxText
    BY ScreenAssumption
  <2>3. m \in DialogRecords
    BY <1>1 DEF Dialogs
  <2>4. e \in Dialogs
    BY <2>2, <2>3, SetText
  <2> HIDE DEF e
  <2>5. f \in Dialogs
    BY <2>4 DEF Dialogs, DialogRecords
  <2> HIDE DEF f, g
  <2>6. Good([o EXCEPT !.mode = f])
    BY <1>1, <2>5, SetMode
  <2>7. Good(g)
    BY <2>1, <2>6
  <2> QED  BY <2>7 DEF g
<1> QED  BY <1>1, <1>2, ToastedIsGood DEF ManageAuth, o

LEMMA DeleteGood ==
    ASSUME NEW u, Good(u)
    PROVE  \A v \in RequestDelete(u) : Good(v)
<1>1. "ConfirmDelete" \in Modes
  BY DEF Modes, Asking
<1> QED  BY <1>1, ToastedIsGood, OpenedIsGood DEF RequestDelete

LEMMA SortedGood ==
    ASSUME NEW u, Good(u)
    PROVE  \A v \in Sorted(u) : Good(v)
<1>1. ASSUME Selected(u), NEW i \in 1 .. u.profiles
      PROVE  Good(Toasted([u EXCEPT !.sel = i]))
  <2>1. i \in Nat /\ i <= u.profiles
    BY <1>1, Chosen
  <2> QED  BY <2>1, SetSel, ToastedIsGood
<1> QED  BY <1>1, ToastedIsGood DEF Sorted

LEMMA Neighbours ==
    ASSUME NEW S, NEW s \in Seq(S), Len(s) > 0, NEW x \in S, \E i \in DOMAIN s : s[i] = x
    PROVE  PanelAfter(s, x) \in S /\ Before(s, x) \in S
<1> DEFINE n == Len(s)
           i == IndexIn(s, x)
<1>1. i \in 1 .. n /\ n \in Nat \ {0}
  BY DEF IndexIn
<1> HIDE DEF i
<1>2. (i % n) + 1 \in 1 .. n /\ ((i + n - 2) % n) + 1 \in 1 .. n
  BY <1>1
<1>3. s[(i % n) + 1] \in S /\ s[((i + n - 2) % n) + 1] \in S
  BY <1>2
<1> QED  BY <1>3 DEF PanelAfter, Before, i

LEMMA NextPanels ==
    ASSUME NEW p \in PanelNames
    PROVE  PanelAfter(Panels, p) \in PanelNames /\ Before(Panels, p) \in PanelNames
<1>1. Panels \in Seq(PanelNames) /\ Len(Panels) = 5
  BY DEF Panels, PanelNames
<1>2. \E i \in DOMAIN Panels : Panels[i] = p
  <2>1. \E i \in 1 .. 5 : Panels[i] = p
    BY DEF Panels, PanelNames
  <2> QED  BY <1>1, <2>1
<1>3. Panels \in Seq(PanelNames) /\ Len(Panels) > 0
  BY <1>1
<1> QED  BY <1>2, <1>3, Neighbours

LEMMA NextTabs ==
    ASSUME NEW t \in TabNames
    PROVE  PanelAfter(HelpTabs, t) \in TabNames /\ Before(HelpTabs, t) \in TabNames
<1>1. HelpTabs \in Seq(TabNames) /\ Len(HelpTabs) = 4
  BY DEF HelpTabs, TabNames
<1>2. \E i \in DOMAIN HelpTabs : HelpTabs[i] = t
  <2>1. \E i \in 1 .. 4 : HelpTabs[i] = t
    BY DEF HelpTabs, TabNames
  <2> QED  BY <1>1, <2>1
<1>3. HelpTabs \in Seq(TabNames) /\ Len(HelpTabs) > 0
  BY <1>1
<1> QED  BY <1>2, <1>3, Neighbours

LEMMA NextFields ==
    ASSUME NEW b \in BOOLEAN, NEW f \in FieldNames, f = "Otp" => b
    PROVE  /\ PanelAfter(Fields(b), f) \in FieldNames /\ Before(Fields(b), f) \in FieldNames
           /\ ~b => PanelAfter(Fields(b), f) # "Otp" /\ Before(Fields(b), f) # "Otp"
<1>1. CASE b
  <2>1. Fields(b) = <<"Username", "Password", "Otp", "SaveCheckbox">> /\ Len(Fields(b)) = 4
    BY <1>1 DEF Fields
  <2>2. \E i \in 1 .. 4 : Fields(b)[i] = f
    BY <2>1 DEF FieldNames
  <2>3. Fields(b) \in Seq(FieldNames)
    BY <2>1 DEF FieldNames
  <2>4. Len(Fields(b)) > 0 /\ \E i \in DOMAIN Fields(b) : Fields(b)[i] = f
    BY <2>1, <2>2, <2>3
  <2>5. PanelAfter(Fields(b), f) \in FieldNames /\ Before(Fields(b), f) \in FieldNames
    BY <2>3, <2>4, Neighbours
  <2> QED  BY <1>1, <2>5
<1>2. CASE ~b
  <2> DEFINE S == FieldNames \ {"Otp"}
  <2>1. Fields(b) = <<"Username", "Password", "SaveCheckbox">> /\ Len(Fields(b)) = 3
    BY <1>2 DEF Fields
  <2>2. f \in S /\ \E i \in 1 .. 3 : Fields(b)[i] = f
    BY <1>2, <2>1 DEF FieldNames
  <2>3. Fields(b) \in Seq(S)
    BY <2>1 DEF FieldNames
  <2>4. Len(Fields(b)) > 0 /\ \E i \in DOMAIN Fields(b) : Fields(b)[i] = f
    BY <2>1, <2>2, <2>3
  <2> HIDE DEF S
  <2>5. PanelAfter(Fields(b), f) \in S /\ Before(Fields(b), f) \in S
    BY <2>2, <2>3, <2>4, Neighbours
  <2>6. S \subseteq FieldNames /\ "Otp" \notin S
    BY DEF S
  <2> QED  BY <1>2, <2>5, <2>6
<1> QED  BY <1>1, <1>2

LEMMA ActionRows ==
    /\ Len(BulkActions) = 10
    /\ \A p \in PanelNames : Len(SingleActions(p)) \in Nat \ {0}
<1>1. Len(BulkActions) = 10
  BY DEF BulkActions
<1>2. ASSUME NEW p \in PanelNames
      PROVE  Len(SingleActions(p)) \in Nat \ {0}
  BY DEF SingleActions, PanelNames, Flippable
<1> QED  BY <1>1, <1>2

LEMMA ZoomGood ==
    ASSUME NEW u, Good(u)
    PROVE  Good(ToggleZoom(u))
<1>1. u.panel \in PanelNames /\ u \in Uis
  BY DEF Good, Uis
<1>2. Good([u EXCEPT !.zoom = u.panel]) /\ Good([u EXCEPT !.zoom = "none"])
  BY <1>1, SetZoom
<1> QED  BY <1>1, <1>2 DEF ToggleZoom, Uis

LEMMA OpenActionMenuGood ==
    ASSUME NEW u, Good(u), ~u.config.open
    PROVE  Good(OpenActionMenu(u))
<1>1. u.panel \in PanelNames
  BY DEF Good, Uis
<1>2. 1 <= Len(SingleActions(u.panel)) /\ 1 \in Nat \ {0}
  BY <1>1, ActionRows
<1>3. Good([u EXCEPT !.menu = [kind |-> "action", item |-> 1]])
  BY <1>2, SetMenu
<1> QED  BY <1>3 DEF OpenActionMenu

LEMMA MessageGood ==
    ASSUME NEW u, Good(u), u.menu = NoMenu, NEW msg
    PROVE  \A v \in HandleMessage(u, msg) : Good(v)
<1>1. {"Import", "Search", "Help"} \subseteq Modes
  BY DEF Modes
<1>2. u.panel \in PanelNames /\ u \in Uis
  BY DEF Good, Uis
<1>3. Good([u EXCEPT !.panel = PanelAfter(Panels, @)]) /\ Good([u EXCEPT !.panel = Before(Panels, @)])
  <2>1. \A p \in PanelNames : Good([u EXCEPT !.panel = p])
    BY SetPanel
  <2> QED  BY <1>2, <2>1, NextPanels
<1>4. /\ Good(Opened(u, "Import")) /\ Good(Opened(u, "Search")) /\ Good(Opened(u, "Help"))
      /\ Good(ToggleZoom(u)) /\ Good(Quit(u)) /\ Good(u)
      /\ \A v \in AskToConnect(u) : Good(v)
      /\ \A v \in Perhaps(u) : Good(v)
      /\ Good(Toasted(u))
  BY <1>1, OpenedIsGood, ZoomGood, QuitIsGood, AskGood, ToastedIsGood
<1>5. /\ \A v \in OpenConfig(u) : Good(v)
      /\ \A v \in OpenRename(u) : Good(v)
      /\ \A v \in RequestDelete(u) : Good(v)
      /\ \A v \in ManageAuth(u) : Good(v)
      /\ \A v \in Sorted(u) : Good(v)
  BY OpenConfigGood, OpenRenameGood, DeleteGood, ManageAuthGood, SortedGood
<1> QED  BY <1>3, <1>4, <1>5 DEF HandleMessage

-----------------------------------------------------------------------------
(* Keys, layer by layer *)

\* The layer the keyboard belongs to, and the menu that is not there.
LEMMA Layer ==
    ASSUME NEW u, Good(u)
    PROVE  /\ Keyboard(u) = "config" <=> u.config.open
           /\ Keyboard(u) = "menu" <=> u.menu # NoMenu
           /\ u.config.open => u.menu = NoMenu
BY DEF Good, Uis, Dialogs, DialogRecords, Viewers, Keyboard, Modes, Asking, Alerts

LEMMA FireGood ==
    ASSUME NEW u, Good(u), NEW msg
    PROVE  \A v \in Fire(u, msg) : Good(v)
BY NoMenuIsGood, MessageGood DEF Fire

LEMMA MenuKeyGood ==
    ASSUME NEW u, Good(u), u.menu # NoMenu, NEW k
    PROVE  \A v \in MenuKey(u, k) : Good(v)
<1> DEFINE n == Len(Actions(u))
<1>1. /\ u \in Uis /\ u.menu \in Menus /\ ~u.config.open
      /\ u.menu.item \in 1 .. Len(Actions(u))
  BY DEF Good, Uis
<1>2. n \in Nat
  <2>1. u.panel \in PanelNames
    BY <1>1 DEF Uis
  <2> QED  BY <2>1, ActionRows DEF Actions
<1>3. ASSUME NEW i \in 1 .. n
      PROVE  Good([u EXCEPT !.menu.item = i])
  <2> DEFINE g == [u EXCEPT !.menu = [@ EXCEPT !.item = i]]
  <2>1. g \in Uis /\ g.menu.item = i /\ g.menu.kind = u.menu.kind /\ g.panel = u.panel
        /\ g.config = u.config /\ g.sel = u.sel /\ g.profiles = u.profiles
    BY <1>1, <1>2 DEF Uis, Menus
  <2> HIDE DEF g
  <2>2. Actions(g) = Actions(u)
    BY <2>1 DEF Actions
  <2>3. Good(g)
    BY <1>1, <2>1, <2>2 DEF Good
  <2> QED  BY <2>3 DEF g
<1> HIDE DEF n
<1>4. Good([u EXCEPT !.menu.item = IF @ > 1 THEN @ - 1 ELSE n])
  <2>1. (IF u.menu.item > 1 THEN u.menu.item - 1 ELSE n) \in 1 .. n
    BY <1>1, <1>2 DEF n
  <2> QED  BY <1>3, <2>1
<1>5. Good([u EXCEPT !.menu.item = IF @ < n THEN @ + 1 ELSE 1])
  <2>1. (IF u.menu.item < n THEN u.menu.item + 1 ELSE 1) \in 1 .. n
    BY <1>1, <1>2 DEF n
  <2> QED  BY <1>3, <2>1
<1>6. Good(CloseOverlay(u)) /\ \A msg : \A v \in Fire(u, msg) : Good(v)
  BY Overlaid, FireGood
<1> QED  BY <1>4, <1>5, <1>6 DEF MenuKey, n

LEMMA ConfigKeyGood ==
    ASSUME NEW u, Good(u), NEW k
    PROVE  Good(ConfigKey(u, k))
<1>1. /\ u \in Uis /\ u.config \in Viewers /\ u.rows \in Heights /\ (u.config.open => u.menu = NoMenu)
  BY Layer DEF Good, Uis
<1>2. u.rows \in Nat \ {0} /\ u.config.scroll \in Nat /\ u.config.lines \in Nat
      /\ (u.config.open => u.config.scroll = 0 \/ u.config.scroll < u.config.lines)
  BY <1>1, ScreenAssumption DEF Viewers
<1>3. ConfigMax(u) \in Nat /\ (ConfigMax(u) = 0 \/ ConfigMax(u) < u.config.lines)
  BY <1>2 DEF ConfigMax, Minus
<1>4. ASSUME NEW i \in Nat, u.config.open => i = 0 \/ i < u.config.lines
      PROVE  Good([u EXCEPT !.config.scroll = i])
  <2>1. [u.config EXCEPT !.scroll = i] \in Viewers /\ [u.config EXCEPT !.scroll = i].open = u.config.open
    BY <1>1, <1>4 DEF Viewers
  <2>2. Good([u EXCEPT !.config = [u.config EXCEPT !.scroll = i]])
    BY <1>1, <2>1, SetConfig
  <2> QED  BY <2>2
<1>5. Good([u EXCEPT !.config.scroll = Minus(@, 1)])
  <2>1. Minus(u.config.scroll, 1) \in Nat
        /\ (u.config.open => Minus(u.config.scroll, 1) = 0 \/ Minus(u.config.scroll, 1) < u.config.lines)
    BY <1>2 DEF Minus
  <2> QED  BY <1>4, <2>1
<1>6. Good([u EXCEPT !.config.scroll = IF @ < ConfigMax(u) THEN @ + 1 ELSE @])
  <2> DEFINE i == IF u.config.scroll < ConfigMax(u) THEN u.config.scroll + 1 ELSE u.config.scroll
  <2>1. i \in Nat /\ (u.config.open => i = 0 \/ i < u.config.lines)
    BY <1>2, <1>3
  <2> HIDE DEF i
  <2>2. Good([u EXCEPT !.config.scroll = i])
    BY <1>4, <2>1
  <2> QED  BY <2>2 DEF i
<1>7. Good([u EXCEPT !.config.scroll = 0]) /\ Good([u EXCEPT !.config.scroll = ConfigMax(u)])
  BY <1>3, <1>4
<1> QED  BY <1>5, <1>6, <1>7, Overlaid DEF ConfigKey

LEMMA TextKeyGood ==
    ASSUME NEW m \in Dialogs, NEW k
    PROVE  TextKey(m, k) \subseteq Dialogs
<1>1. /\ m \in DialogRecords /\ m.chars \in 0 .. MaxText /\ m.cursor \in Nat /\ m.wide \in {1, 2}
      /\ m.wide = 1 => m.cursor <= m.chars
  BY DEF Dialogs, DialogRecords
<1>2. m.chars \in Nat /\ MaxText \in Nat /\ m.chars <= MaxText
  BY <1>1, ScreenAssumption
<1>3. ASSUME NEW n \in 0 .. MaxText, NEW c \in Nat, m.wide = 1 => c <= n
      PROVE  [m EXCEPT !.chars = n, !.cursor = c] \in Dialogs
  <2>1. [m EXCEPT !.chars = n, !.cursor = c, !.wide = m.wide] \in Dialogs
    BY <1>1, <1>3, SetText
  <2>2. [m EXCEPT !.chars = n, !.cursor = c, !.wide = m.wide] = [m EXCEPT !.chars = n, !.cursor = c]
    BY <1>1 DEF DialogRecords
  <2> QED  BY <2>1, <2>2
<1>4. ASSUME NEW c \in Nat, m.wide = 1 => c <= m.chars
      PROVE  [m EXCEPT !.cursor = c] \in Dialogs
  BY <1>4 DEF Dialogs, DialogRecords
<1>5. ASSUME NEW n \in 0 .. MaxText, m.wide = 1 => m.cursor <= n
      PROVE  [m EXCEPT !.chars = n] \in Dialogs
  BY <1>5 DEF Dialogs, DialogRecords
<1>6. CASE k = "Left"
  <2>1. Minus(m.cursor, 1) \in Nat /\ (m.wide = 1 => Minus(m.cursor, 1) <= m.chars)
    BY <1>1, <1>2 DEF Minus
  <2> QED  BY <1>4, <1>6, <2>1 DEF TextKey, Chars
<1>7. CASE k = "Right"
  <2> DEFINE c == IF m.cursor < m.chars THEN m.cursor + 1 ELSE m.cursor
  <2>1. c \in Nat /\ (m.wide = 1 => c <= m.chars)
    BY <1>1, <1>2
  <2> HIDE DEF c
  <2>2. [m EXCEPT !.cursor = c] \in Dialogs
    BY <1>4, <2>1
  <2> QED  BY <1>7, <2>2 DEF TextKey, Chars, c
<1>8. CASE k \in {"Home", "End"}
  BY <1>2, <1>4, <1>8 DEF TextKey, Chars
<1>9. CASE k = "Backspace"
  <2>1. CASE m.cursor # 0 /\ m.chars # 0
    <3>1. m.chars - 1 \in 0 .. MaxText /\ m.cursor - 1 \in Nat
          /\ (m.wide = 1 => m.cursor - 1 <= m.chars - 1)
      BY <1>1, <1>2, <2>1
    <3>2. [m EXCEPT !.chars = m.chars - 1, !.cursor = m.cursor - 1] \in Dialogs
      BY <1>3, <3>1
    <3>3. TextKey(m, k) = {[m EXCEPT !.chars = @ - 1, !.cursor = @ - 1]}
      BY <1>9, <2>1 DEF TextKey, Chars
    <3>4. [m EXCEPT !.chars = @ - 1, !.cursor = @ - 1]
            = [m EXCEPT !.chars = m.chars - 1, !.cursor = m.cursor - 1]
      BY <1>1 DEF DialogRecords
    <3> QED  BY <3>2, <3>3, <3>4
  <2>2. CASE ~(m.cursor # 0 /\ m.chars # 0)
    BY <1>9, <2>2 DEF TextKey, Chars
  <2> QED  BY <2>1, <2>2
<1>10. CASE k = "Delete"
  <2> DEFINE n == IF m.cursor < m.chars THEN m.chars - 1 ELSE m.chars
  <2>1. n \in 0 .. MaxText /\ (m.wide = 1 => m.cursor <= n)
    BY <1>1, <1>2
  <2> HIDE DEF n
  <2>2. [m EXCEPT !.chars = n] \in Dialogs
    BY <1>5, <2>1
  <2> QED  BY <1>10, <2>2 DEF TextKey, Chars, n
<1>11. CASE k \in Chars /\ m.chars # MaxText
  <2>1. m.chars + 1 \in 0 .. MaxText /\ m.cursor + 1 \in Nat
        /\ (m.wide = 1 => m.cursor + 1 <= m.chars + 1)
    BY <1>1, <1>2, <1>11
  <2>2. [m EXCEPT !.chars = m.chars + 1, !.cursor = m.cursor + 1] \in Dialogs
    BY <1>3, <2>1
  <2>3. TextKey(m, k) = {[m EXCEPT !.chars = @ + 1, !.cursor = @ + 1]}
    BY <1>11 DEF TextKey, Chars
  <2>4. [m EXCEPT !.chars = @ + 1, !.cursor = @ + 1]
          = [m EXCEPT !.chars = m.chars + 1, !.cursor = m.cursor + 1]
    BY <1>1 DEF DialogRecords
  <2> QED  BY <2>2, <2>3, <2>4
<1>12. CASE k \notin {"Left", "Right", "Home", "End", "Backspace", "Delete"} /\ ~(k \in Chars /\ m.chars # MaxText)
  BY <1>12 DEF TextKey, Chars
<1> QED  BY <1>6, <1>7, <1>8, <1>9, <1>10, <1>11, <1>12

LEMMA TypedGood ==
    ASSUME NEW u, Good(u), NEW k
    PROVE  \A v \in Typed(u, k) : Good(v)
<1>1. u.mode \in Dialogs
  BY DEF Good, Uis
<1> QED  BY <1>1, TextKeyGood, SetMode, QuitIsGood DEF Typed

LEMMA CatalogueGrewGood ==
    ASSUME NEW u, Good(u)
    PROVE  \A v \in CatalogueGrew(u) : Good(v)
<1> SUFFICES ASSUME u.profiles # MaxProfiles, NEW i \in {u.sel} \cup 1 .. u.profiles + 1
             PROVE  Good(Toasted(CloseOverlay([u EXCEPT !.profiles = @ + 1, !.sel = i])))
  BY DEF CatalogueGrew
<1> DEFINE g == [u EXCEPT !.profiles = @ + 1, !.sel = i]
<1>1. /\ u \in Uis /\ u.profiles \in 0 .. MaxProfiles /\ u.sel \in 0 .. MaxProfiles + 1
      /\ u.sel > u.profiles => u.sel = 1 /\ u.profiles = 0
  BY DEF Good, Uis
<1>2. /\ u.profiles + 1 \in 0 .. MaxProfiles /\ i \in 0 .. MaxProfiles + 1 /\ i <= u.profiles + 1
  BY <1>1, ScreenAssumption
<1>3. /\ g \in Uis /\ g.profiles = u.profiles + 1 /\ g.sel = i /\ g.menu = u.menu
      /\ g.config = u.config /\ g.panel = u.panel
  BY <1>1, <1>2 DEF Uis
<1> HIDE DEF g
<1>4. Good(g)
  <2>1. Actions(g) = Actions(u)
    BY <1>3 DEF Actions
  <2>2. ~(g.sel > g.profiles)
    BY <1>1, <1>2, <1>3
  <2> QED  BY <1>3, <2>1, <2>2 DEF Good
<1> QED  BY <1>4, Overlaid, ToastedIsGood DEF g

LEMMA ImportKeyGood ==
    ASSUME NEW u, Good(u), NEW k
    PROVE  \A v \in ImportOverlayKey(u, k) : Good(v)
BY Overlaid, ToastedIsGood, CatalogueGrewGood, TypedGood DEF ImportOverlayKey

LEMMA ClosedGood ==
    ASSUME NEW u, Good(u)
    PROVE  Good([u EXCEPT !.mode = NoMode])
BY AtRest, SetMode

LEMMA RenameKeyGood ==
    ASSUME NEW u, Good(u), NEW k
    PROVE  \A v \in RenameKey(u, k) : Good(v)
BY ClosedGood, ToastedIsGood, SortedGood, TypedGood DEF RenameKey

LEMMA SearchKeyGood ==
    ASSUME NEW u, Good(u), NEW k
    PROVE  \A v \in SearchKey(u, k) : Good(v)
<1>1. \A v \in Typed(u, k) : Good(v)
  BY TypedGood
<1>2. ASSUME NEW v, Good(v)
      PROVE  /\ Good([v EXCEPT !.sel = 1])
             /\ \A j \in {v.sel} \cup 1 .. v.profiles : Good([v EXCEPT !.sel = j])
  <2>1. /\ v \in Uis /\ v.profiles \in Nat /\ v.sel \in Nat
        /\ v.sel <= v.profiles \/ (v.sel = 1 /\ v.profiles = 0)
        /\ 1 <= v.profiles \/ v.profiles = 0
    BY <1>2, ScreenAssumption DEF Good, Uis
  <2>2. Good([v EXCEPT !.sel = 1])
    BY <1>2, <2>1, SetSel
  <2>3. ASSUME NEW j \in {v.sel} \cup 1 .. v.profiles
        PROVE  Good([v EXCEPT !.sel = j])
    <3>1. j \in Nat /\ (j <= v.profiles \/ (j = 1 /\ v.profiles = 0))
      BY <2>1
    <3> QED  BY <1>2, <3>1, SetSel
  <2> QED  BY <2>2, <2>3
<1>3. CASE k \in {"Esc", "Enter"}
  BY <1>3, ClosedGood DEF SearchKey
<1>4. CASE k \notin {"Esc", "Enter"} /\ k \notin Chars \union {"Backspace", "Delete"}
  BY <1>1, <1>4 DEF SearchKey
<1>5. CASE k \notin {"Esc", "Enter"} /\ k \in Chars \union {"Backspace", "Delete"}
  <2>1. ASSUME NEW v \in Typed(u, k),
               NEW w \in IF v.mode.chars = 0 THEN {[v EXCEPT !.sel = 1]}
                         ELSE {[v EXCEPT !.sel = j] : j \in {v.sel} \union 1 .. v.profiles}
        PROVE  Good(w)
    BY <1>1, <1>2, <2>1
  <2>2. SearchKey(u, k) =
          UNION {IF v.mode.chars = 0 THEN {[v EXCEPT !.sel = 1]}
                 ELSE {[v EXCEPT !.sel = j] : j \in {v.sel} \union 1 .. v.profiles} : v \in Typed(u, k)}
    BY <1>5 DEF SearchKey
  <2> QED  BY <2>1, <2>2
<1> QED  BY <1>3, <1>4, <1>5

LEMMA DialogFields ==
    ASSUME NEW u, Good(u)
    PROVE  /\ \A b \in BOOLEAN : /\ Good([u EXCEPT !.mode.yes = b])
                                 /\ Good([u EXCEPT !.mode.pass = b])
                                 /\ Good([u EXCEPT !.mode.otp = b])
           /\ \A f \in FieldNames :
                 (f = "Otp" => u.mode.hasOtp) => Good([u EXCEPT !.mode.field = f])
           /\ \A i \in Nat : Good([u EXCEPT !.mode.scroll = i])
           /\ \A i \in Nat, t \in TabNames : Good([u EXCEPT !.mode.tab = t, !.mode.scroll = i])
<1>1. u \in Uis /\ u.mode \in Dialogs
  BY DEF Good, Uis
<1>2. ASSUME NEW b \in BOOLEAN
      PROVE  /\ Good([u EXCEPT !.mode.yes = b])
             /\ Good([u EXCEPT !.mode.pass = b])
             /\ Good([u EXCEPT !.mode.otp = b])
  <2>1. /\ [u.mode EXCEPT !.yes = b] \in Dialogs
        /\ [u.mode EXCEPT !.pass = b] \in Dialogs
        /\ [u.mode EXCEPT !.otp = b] \in Dialogs
    BY <1>1 DEF Dialogs, DialogRecords
  <2> QED  BY <2>1, SetMode
<1>3. ASSUME NEW f \in FieldNames, f = "Otp" => u.mode.hasOtp
      PROVE  Good([u EXCEPT !.mode.field = f])
  <2>1. [u.mode EXCEPT !.field = f] \in Dialogs
    BY <1>1, <1>3 DEF Dialogs, DialogRecords
  <2> QED  BY <2>1, SetMode
<1>4. ASSUME NEW i \in Nat
      PROVE  Good([u EXCEPT !.mode.scroll = i])
  <2>1. [u.mode EXCEPT !.scroll = i] \in Dialogs
    BY <1>1 DEF Dialogs, DialogRecords
  <2> QED  BY <2>1, SetMode
<1>5. ASSUME NEW i \in Nat, NEW t \in TabNames
      PROVE  Good([u EXCEPT !.mode.tab = t, !.mode.scroll = i])
  <2> DEFINE f == [u.mode EXCEPT !.tab = t, !.scroll = i]
             g == [u EXCEPT !.mode.tab = t, !.mode.scroll = i]
  <2>1. f \in Dialogs
    BY <1>1 DEF Dialogs, DialogRecords
  <2>2. g = [u EXCEPT !.mode = f]
    BY <1>1 DEF Uis, Dialogs, DialogRecords
  <2> HIDE DEF f, g
  <2>3. Good(g)
    BY <2>1, <2>2, SetMode
  <2> QED  BY <2>3 DEF g
<1> QED  BY <1>2, <1>3, <1>4, <1>5

LEMMA SubmitGood ==
    ASSUME NEW u, Good(u)
    PROVE  \A v \in AuthSubmit(u) : Good(v)
BY ClosedGood, ToastedIsGood, GatesGood, ConflictsGood DEF AuthSubmit

LEMMA AuthKeyGood ==
    ASSUME NEW u, Good(u), NEW k
    PROVE  \A v \in AuthKey(u, k) : Good(v)
<1> DEFINE m == u.mode
           F == Fields(m.hasOtp)
<1>1. /\ m.field \in FieldNames /\ m.hasOtp \in BOOLEAN /\ (m.field = "Otp" => m.hasOtp)
  BY DEF Good, Uis, Dialogs, DialogRecords
<1>2. /\ PanelAfter(F, m.field) \in FieldNames /\ Before(F, m.field) \in FieldNames
      /\ ~m.hasOtp => PanelAfter(F, m.field) # "Otp" /\ Before(F, m.field) # "Otp"
  BY <1>1, NextFields
<1> HIDE DEF F
<1>3. Good([u EXCEPT !.mode.field = PanelAfter(F, m.field)])
      /\ Good([u EXCEPT !.mode.field = Before(F, m.field)])
  BY <1>2, DialogFields
<1>4. /\ Good([u EXCEPT !.mode.otp = TRUE]) /\ Good([u EXCEPT !.mode.otp = FALSE])
      /\ Good([u EXCEPT !.mode.pass = TRUE]) /\ Good([u EXCEPT !.mode.pass = FALSE])
  BY DialogFields
<1>5. /\ Good(CloseOverlay(u)) /\ Good(Toasted(u)) /\ \A v \in AuthSubmit(u) : Good(v)
      /\ \A v \in Typed(u, k) : Good(v)
  BY Overlaid, ToastedIsGood, SubmitGood, TypedGood
<1>6. AuthKey(u, k) \subseteq
        {CloseOverlay(u), u, Toasted(u),
         [u EXCEPT !.mode.field = PanelAfter(F, m.field)],
         [u EXCEPT !.mode.field = Before(F, m.field)],
         [u EXCEPT !.mode.otp = TRUE], [u EXCEPT !.mode.otp = FALSE],
         [u EXCEPT !.mode.pass = TRUE], [u EXCEPT !.mode.pass = FALSE]}
        \cup AuthSubmit(u) \cup Typed(u, k)
  BY DEF AuthKey, F
<1> QED  BY <1>3, <1>4, <1>5, <1>6

LEMMA HelpRange ==
    ASSUME NEW u, Good(u)
    PROVE  /\ u.mode.scroll \in Nat /\ Minus(HelpLines[u.mode.tab], u.rows) \in Nat
           /\ u.mode.tab \in TabNames
<1>1. u.mode.tab \in TabNames /\ u.rows \in Nat /\ u.mode.scroll \in Nat
  BY ScreenAssumption DEF Good, Uis, Dialogs, DialogRecords
<1>2. HelpLines[u.mode.tab] \in Nat
  BY <1>1, ScreenAssumption DEF TabNames
<1> QED  BY <1>1, <1>2 DEF Minus

LEMMA HelpKeyGood ==
    ASSUME NEW u, Good(u), NEW k
    PROVE  Good(HelpKey(u, k))
<1> DEFINE m   == u.mode
           max == Minus(HelpLines[m.tab], u.rows)
           now == Lesser(m.scroll, max)
<1>1. m.scroll \in Nat /\ max \in Nat /\ m.tab \in TabNames
  BY HelpRange
<1> HIDE DEF max
<1>2. now \in Nat /\ Lesser(now + 1, max) \in Nat /\ Minus(now, 1) \in Nat
  BY <1>1 DEF Lesser, Minus
<1> HIDE DEF now
<1>3. /\ Good([u EXCEPT !.mode.tab = PanelAfter(HelpTabs, m.tab), !.mode.scroll = 0])
      /\ Good([u EXCEPT !.mode.tab = Before(HelpTabs, m.tab), !.mode.scroll = 0])
  BY <1>1, NextTabs, DialogFields
<1>4. \A i \in {Lesser(now + 1, max), Minus(now, 1), 0, max, now} : Good([u EXCEPT !.mode.scroll = i])
  BY <1>1, <1>2, DialogFields
<1>5. Good(CloseOverlay(u))
  BY Overlaid
<1>6. HelpKey(u, k) \in
        {CloseOverlay(u),
         [u EXCEPT !.mode.tab = PanelAfter(HelpTabs, m.tab), !.mode.scroll = 0],
         [u EXCEPT !.mode.tab = Before(HelpTabs, m.tab), !.mode.scroll = 0]}
        \cup {[u EXCEPT !.mode.scroll = i] : i \in {Lesser(now + 1, max), Minus(now, 1), 0, max, now}}
  BY DEF HelpKey, max, now
<1> QED  BY <1>3, <1>4, <1>5, <1>6

LEMMA ConfirmedGood ==
    ASSUME NEW u, Good(u)
    PROVE  \A v \in Confirmed(u) : Good(v)
<1> DEFINE closed == [u EXCEPT !.mode = NoMode]
           kept == Minus(u.profiles, 1)
           g == [closed EXCEPT !.profiles = kept, !.sel = Lesser(@, kept)]
<1>1. Good(closed) /\ closed \in Uis /\ closed.sel = u.sel /\ closed.profiles = u.profiles
  BY ClosedGood DEF Good, Uis
<1>2. /\ closed.profiles \in 0 .. MaxProfiles /\ closed.sel \in 0 .. MaxProfiles + 1
      /\ closed.sel > closed.profiles => closed.sel = 1 /\ closed.profiles = 0
  BY <1>1 DEF Good, Uis
<1> HIDE DEF closed
<1>3. kept \in 0 .. MaxProfiles /\ Lesser(closed.sel, kept) \in 0 .. MaxProfiles + 1
      /\ Lesser(closed.sel, kept) <= kept
  BY <1>1, <1>2, ScreenAssumption DEF Lesser, Minus
<1> HIDE DEF kept
<1>4. Good(g)
  <2>1. /\ g \in Uis /\ g.profiles = kept /\ g.sel = Lesser(closed.sel, kept) /\ g.menu = closed.menu
        /\ g.config = closed.config /\ g.panel = closed.panel
    BY <1>1, <1>3 DEF Uis
  <2> HIDE DEF g
  <2>2. Actions(g) = Actions(closed)
    BY <2>1 DEF Actions
  <2>3. ~(g.sel > g.profiles)
    BY <1>3, <2>1, ScreenAssumption
  <2> QED  BY <1>1, <2>1, <2>2, <2>3 DEF Good
<1> HIDE DEF g
<1>5. /\ Good(Toasted(closed)) /\ Good(Toasted(g)) /\ \A v \in Perhaps(closed) : Good(v)
      /\ \A v \in Gates(closed) : Good(v)
      /\ \A v \in AuthPrompts(closed) : Good(v)
  BY <1>1, <1>4, ToastedIsGood, GatesGood, AuthPromptsGood
<1>6. Confirmed(u) \subseteq
        {u, closed, Toasted(closed), Toasted(g)} \cup Perhaps(closed) \cup Gates(closed) \cup AuthPrompts(closed)
  BY DEF Confirmed, closed, g, kept
<1> QED  BY <1>1, <1>5, <1>6

LEMMA ConfirmKeyGood ==
    ASSUME NEW u, Good(u), NEW k
    PROVE  \A v \in ConfirmKey(u, k) : Good(v)
<1> DEFINE closed == [u EXCEPT !.mode = NoMode]
<1>1. Good(closed) /\ Good(CloseOverlay(u))
  BY ClosedGood, Overlaid
<1> HIDE DEF closed
<1>2. u.mode.yes \in BOOLEAN
  BY DEF Good, Uis, Dialogs, DialogRecords
<1>3. \A b \in BOOLEAN : Good([u EXCEPT !.mode.yes = b])
  BY DialogFields
<1>4. Good([u EXCEPT !.mode.yes = ~u.mode.yes]) /\ Good([u EXCEPT !.mode.yes = TRUE])
      /\ Good([u EXCEPT !.mode.yes = FALSE])
  BY <1>2, <1>3
<1>5. /\ \A v \in Gates(closed) : Good(v)
      /\ \A v \in AuthPrompts(closed) : Good(v)
      /\ \A v \in Confirmed(u) : Good(v)
  BY <1>1, GatesGood, AuthPromptsGood, ConfirmedGood
<1>6. ConfirmKey(u, k) \subseteq
        {u, closed, CloseOverlay(u), [u EXCEPT !.mode.yes = ~u.mode.yes],
         [u EXCEPT !.mode.yes = TRUE], [u EXCEPT !.mode.yes = FALSE]}
        \cup Gates(closed) \cup AuthPrompts(closed) \cup Confirmed(u)
  BY DEF ConfirmKey, closed
<1> QED  BY <1>1, <1>4, <1>5, <1>6

LEMMA MoveKeyGood ==
    ASSUME NEW u, Good(u), NEW k \in {"Down", "Up", "Home", "End", "PageUp", "PageDown"}
    PROVE  Good(MoveKey(u, k))
<1> DEFINE n == LastRow(u)
<1>1. /\ u.profiles \in Nat /\ u.sel \in Nat /\ PageSize \in Nat /\ u \in Uis
      /\ u.sel <= u.profiles \/ (u.sel = 1 /\ u.profiles = 0)
  BY ScreenAssumption DEF Good, Uis
<1>2. n \in Nat /\ 1 <= n /\ u.sel <= n /\ (n <= u.profiles \/ (n = 1 /\ u.profiles = 0))
  BY <1>1 DEF LastRow
<1>3. ASSUME NEW i \in 1 .. n
      PROVE  Good([u EXCEPT !.sel = i])
  <2>1. i \in Nat /\ (i <= u.profiles \/ (i = 1 /\ u.profiles = 0))
    BY <1>1, <1>2
  <2> QED  BY <2>1, SetSel
<1> DEFINE down == IF u.sel = 0 \/ u.sel >= n THEN 1 ELSE u.sel + 1
           up   == IF u.sel = 0 THEN 1 ELSE IF u.sel = 1 THEN n ELSE u.sel - 1
           back == IF u.sel <= PageSize THEN 1 ELSE u.sel - PageSize
           on   == Lesser((IF u.sel = 0 THEN 1 ELSE u.sel) + PageSize, n)
<1> HIDE DEF n
<1>4. down \in 1 .. n /\ up \in 1 .. n /\ back \in 1 .. n /\ on \in 1 .. n /\ 1 \in 1 .. n /\ n \in 1 .. n
  BY <1>1, <1>2 DEF Lesser
<1>5. MoveKey(u, k) \in {[u EXCEPT !.sel = i] : i \in {down, up, 1, n, back, on}}
  BY DEF MoveKey, n
<1> QED  BY <1>3, <1>4, <1>5

LEMMA NormalKeyGood ==
    ASSUME NEW u, Good(u), u.menu = NoMenu, ~u.config.open, NEW k \in Keys
    PROVE  \A v \in NormalKey(u, k) : Good(v)
<1>1. /\ u \in Uis /\ u.profiles \in Nat
      /\ "Sidebar" \in PanelNames /\ "Logs" \in PanelNames
  BY ScreenAssumption DEF Good, Uis, PanelNames
<1>2. /\ \A msg : \A v \in HandleMessage(u, msg) : Good(v)
      /\ \A v \in Perhaps(u) : Good(v)
      /\ Good(Toasted(u)) /\ Good(OpenActionMenu(u))
  BY MessageGood, ToastedIsGood, OpenActionMenuGood
<1>3. /\ Good([u EXCEPT !.zoom = "none"]) /\ Good([u EXCEPT !.panel = "Sidebar"])
      /\ Good([u EXCEPT !.panel = "Logs"])
  BY <1>1, SetZoom, SetPanel
<1>4. Good([u EXCEPT !.menu = [kind |-> "bulk", item |-> 1]])
  <2>1. 1 \in Nat \ {0} /\ 1 <= Len(IF "bulk" = "bulk" THEN BulkActions ELSE SingleActions(u.panel))
    BY ActionRows
  <2> QED  BY <2>1, SetMenu
<1>5. u.profiles >= 1 => \A v \in AskToConnect([u EXCEPT !.sel = 1]) : Good(v)
  <2> SUFFICES ASSUME u.profiles >= 1 PROVE \A v \in AskToConnect([u EXCEPT !.sel = 1]) : Good(v)
    OBVIOUS
  <2>1. 1 \in Nat /\ (1 <= u.profiles \/ (1 = 1 /\ u.profiles = 0))
    BY <1>1
  <2>2. Good([u EXCEPT !.sel = 1])
    BY <2>1, SetSel
  <2> QED  BY <2>2, AskGood
<1>6. Good([Opened(u, "DisconnectAll") EXCEPT !.mode.yes = TRUE])
  <2>1. Good(Opened(u, "DisconnectAll"))
    BY OpenedIsGood DEF Modes, Asking
  <2> QED  BY <2>1, DialogFields
<1>7. \A c \in {"Down", "Up", "Home", "End", "PageUp", "PageDown"} : Good(MoveKey(u, c))
  BY MoveKeyGood
<1>8. CASE k \in {"Tab", "BackTab", "z", "x", "b", "Esc", "PageUp", "PageDown"}
  BY <1>2, <1>3, <1>4, <1>7, <1>8 DEF NormalKey
<1>9. CASE k \in {"Home", "End", "1", "d", "D", "i", "F1", "F5", "?", "/"}
  BY <1>2, <1>3, <1>5, <1>6, <1>7, <1>9 DEF NormalKey
<1>10. CASE k \notin {"Tab", "BackTab", "z", "x", "b", "Esc", "PageUp", "PageDown",
                      "Home", "End", "1", "d", "D", "i", "F1", "F5", "?", "/"}
  BY <1>2, <1>7, <1>10 DEF NormalKey
<1> QED  BY <1>8, <1>9, <1>10

LEMMA ModeKeyGood ==
    ASSUME NEW u, Good(u), u.menu = NoMenu, ~u.config.open, NEW k \in Keys
    PROVE  \A v \in ModeKey(u, k) : Good(v)
BY ImportKeyGood, AuthKeyGood, HelpKeyGood, RenameKeyGood, SearchKeyGood, ConfirmKeyGood,
   Overlaid, NormalKeyGood DEF ModeKey

LEMMA HandleKeyGood ==
    ASSUME NEW u, Good(u), NEW k \in Keys
    PROVE  \A v \in HandleKey(u, k) : Good(v)
<1>1. Good([u EXCEPT !.toast = FALSE]) /\ Good(Quit(u)) /\ Good(ConfigKey(u, k))
  BY SetToast, QuitIsGood, ConfigKeyGood
<1>2. Keyboard(u) = "menu" => \A v \in MenuKey(u, k) : Good(v)
  BY Layer, MenuKeyGood
<1>3. Keyboard(u) \notin {"config", "menu"} => \A v \in ModeKey(u, k) : Good(v)
  BY Layer, ModeKeyGood
<1> QED  BY <1>1, <1>2, <1>3 DEF HandleKey

-----------------------------------------------------------------------------
(* Every step keeps the screen in order *)

LEMMA ScreenStarts == ScreenInit => Good(ui)
<1> SUFFICES ASSUME NEW n \in 0 .. MaxProfiles, NEW h \in Heights,
                    ui = [running |-> TRUE, profiles |-> n, sel |-> IF n > 0 THEN 1 ELSE 0,
                          panel |-> "Sidebar", zoom |-> "none", config |-> NoConfig, menu |-> NoMenu,
                          mode |-> NoMode, toast |-> FALSE, rows |-> h]
             PROVE  Good(ui)
  BY DEF ScreenInit
<1>1. n \in Nat /\ (IF n > 0 THEN 1 ELSE 0) \in 0 .. MaxProfiles + 1
      /\ ~((IF n > 0 THEN 1 ELSE 0) > n)
  BY ScreenAssumption
<1>2. ui \in Uis /\ ui.menu = NoMenu /\ ~(ui.sel > ui.profiles)
  BY <1>1, AtRest DEF Uis, PanelNames
<1> QED  BY <1>2 DEF Good

LEMMA SomeKeyGood == ASSUME Good(ui), SomeKey PROVE Good(ui)'
<1>1. PICK k \in Keys : ui' \in HandleKey(ui, k)
  BY DEF SomeKey
<1>2. \A v \in HandleKey(ui, k) : Good(v)
  BY HandleKeyGood
<1>3. ASSUME NEW v \in HandleKey(ui, k), ui' = v PROVE Good(ui')
  BY <1>2, <1>3
<1> QED  BY <1>1, <1>3

LEMMA ClickGood == ASSUME Good(ui), Click PROVE Good(ui)'
<1>1. /\ ui.menu = NoMenu
      /\ ui.profiles \in Nat
  <2>1. ui.menu = NoMenu
    BY DEF Click, BehindOverlay
  <2>2. ui.profiles \in Nat
    BY ScreenAssumption DEF Good, Uis
  <2> QED  BY <2>1, <2>2
<1>2. \A i \in 1 .. Len(Panels) : Panels[i] \in PanelNames
  BY DEF Panels, PanelNames
<1>3. ASSUME NEW i \in 1 .. Len(Panels)
      PROVE  Good([ui EXCEPT !.panel = Panels[i]])
  BY <1>1, <1>2, SetPanel
<1>4. ASSUME NEW row \in 1 .. ui.profiles
      PROVE  Good([ui EXCEPT !.panel = "Sidebar", !.sel = row])
  <2> DEFINE g == [ui EXCEPT !.panel = "Sidebar"]
  <2>1. Good(g) /\ g.profiles = ui.profiles
    BY <1>1, SetPanel DEF PanelNames, Good, Uis
  <2> HIDE DEF g
  <2>2. row \in Nat /\ row <= g.profiles
    BY <1>1, <2>1
  <2>3. Good([g EXCEPT !.sel = row])
    BY <2>1, <2>2, SetSel
  <2> QED  BY <2>3 DEF g
<1>5. PICK i \in 1 .. Len(Panels) :
        \/ ui' = [ui EXCEPT !.panel = Panels[i]]
        \/ \E row \in 1 .. ui.profiles : ui' = [ui EXCEPT !.panel = "Sidebar", !.sel = row]
  BY DEF Click
<1> QED  BY <1>3, <1>4, <1>5

LEMMA WheelGood == ASSUME Good(ui), Wheel PROVE Good(ui)'
<1> DEFINE max == Minus(HelpLines[ui.mode.tab], ui.rows)
           now == Lesser(ui.mode.scroll, max)
           row == IF ui.sel = 0 THEN 1 ELSE ui.sel
<1>1. ui.mode.scroll \in Nat /\ max \in Nat
  BY HelpRange
<1>2. PICK down \in BOOLEAN :
        \/ ui' = [ui EXCEPT !.mode.scroll = IF down THEN Lesser(now + 3, max) ELSE Minus(now, 3)]
        \/ ui' = ConfigKey(ui, IF down THEN "Down" ELSE "Up")
        \/ down /\ row < ui.profiles /\ ui' = [ui EXCEPT !.sel = row + 1]
        \/ ~down /\ row > 1 /\ ui' = [ui EXCEPT !.sel = row - 1]
  BY DEF Wheel
<1> HIDE DEF max
<1>3. (IF down THEN Lesser(now + 3, max) ELSE Minus(now, 3)) \in Nat
  BY <1>1 DEF Lesser, Minus
<1> HIDE DEF now
<1>4. Good([ui EXCEPT !.mode.scroll = IF down THEN Lesser(now + 3, max) ELSE Minus(now, 3)])
  BY <1>3, DialogFields
<1>5. Good(ConfigKey(ui, IF down THEN "Down" ELSE "Up"))
  BY ConfigKeyGood
<1>6. /\ ui.profiles \in Nat /\ ui.sel \in Nat
      /\ ui.sel <= ui.profiles \/ (ui.sel = 1 /\ ui.profiles = 0)
  BY ScreenAssumption DEF Good, Uis
<1>7. row < ui.profiles => row + 1 \in Nat /\ row + 1 <= ui.profiles
  BY <1>6
<1>8. row > 1 => row - 1 \in Nat /\ row - 1 <= ui.profiles
  BY <1>6
<1>9. /\ row < ui.profiles => Good([ui EXCEPT !.sel = row + 1])
      /\ row > 1 => Good([ui EXCEPT !.sel = row - 1])
  BY <1>7, <1>8, SetSel
<1> QED  BY <1>2, <1>4, <1>5, <1>9

LEMMA BackgroundGood == ASSUME Good(ui), Background PROVE Good(ui)'
<1>1. /\ Good(Toasted(ui))
      /\ \A v \in CatalogueGrew(ui) : Good(v)
      /\ \A v \in AskToConnect(ui) : Good(v)
  BY ToastedIsGood, CatalogueGrewGood, AskGood
<1>2. ui' \in {Toasted(ui)} \union CatalogueGrew(ui) \union AskToConnect(ui)
  BY DEF Background
<1>3. \A v \in {Toasted(ui)} \union CatalogueGrew(ui) \union AskToConnect(ui) : Good(v)
  BY <1>1
<1> QED  BY <1>2, <1>3

LEMMA ScreenKept == ASSUME Good(ui), [ScreenNext]_screenVars PROVE Good(ui)'
<1>1. CASE Resize
  BY <1>1, SetRows DEF Resize
<1>2. CASE ToastExpires
  BY <1>2, SetToast DEF ToastExpires
<1>3. CASE UNCHANGED screenVars
  BY <1>3 DEF screenVars
<1> QED  BY <1>1, <1>2, <1>3, SomeKeyGood, ClickGood, WheelGood, BackgroundGood DEF ScreenNext

-----------------------------------------------------------------------------
(* The way out *)

\* What lies between the user and the bare dashboard.
Covers(u) ==
    {l \in {"toast", "overlay", "zoom"} :
        \/ l = "toast" /\ u.toast
        \/ l = "overlay" /\ BehindOverlay(u)
        \/ l = "zoom" /\ u.zoom # "none"}

LEMMA FewerCovers ==
    ASSUME NEW u, NEW v, Covers(v) \subseteq Covers(u), Covers(v) # Covers(u)
    PROVE  Layers(v) < Layers(u)
<1>1. IsFiniteSet({"toast", "overlay", "zoom"})
  <2>1. IsFiniteSet({"toast"})
    BY FS_Singleton
  <2>2. IsFiniteSet({"toast"} \cup {"overlay"})
    BY <2>1, FS_AddElement
  <2>3. IsFiniteSet(({"toast"} \cup {"overlay"}) \cup {"zoom"})
    BY <2>2, FS_AddElement
  <2>4. ({"toast"} \cup {"overlay"}) \cup {"zoom"} = {"toast", "overlay", "zoom"}
    OBVIOUS
  <2> QED  BY <2>3, <2>4
<1>2. IsFiniteSet(Covers(u))
  BY <1>1, FS_Subset DEF Covers
<1>3. IsFiniteSet(Covers(v)) /\ Cardinality(Covers(v)) <= Cardinality(Covers(u))
      /\ Cardinality(Covers(v)) # Cardinality(Covers(u))
  BY <1>2, FS_Subset
<1>4. Cardinality(Covers(u)) \in Nat /\ Cardinality(Covers(v)) \in Nat
  BY <1>2, <1>3, FS_CardinalityType
<1>5. Layers(u) = Cardinality(Covers(u)) /\ Layers(v) = Cardinality(Covers(v))
  BY DEF Layers, Covers
<1> QED  BY <1>3, <1>4, <1>5

LEMMA Bare ==
    ASSUME NEW u, ~u.toast, ~BehindOverlay(u), u.zoom = "none"
    PROVE  Layers(u) = 0
BY FS_EmptySet DEF Layers

\* A dialog, a menu or the viewer goes, or nothing was there.
LEMMA OverlayGoes ==
    ASSUME NEW u, Good(u), BehindOverlay(u), NEW v, v.toast = u.toast, v.zoom = u.zoom, ~BehindOverlay(v)
    PROVE  Layers(v) < Layers(u)
<1>1. Covers(v) \subseteq Covers(u) /\ "overlay" \in Covers(u) /\ "overlay" \notin Covers(v)
  BY DEF Covers
<1> QED  BY <1>1, FewerCovers

LEMMA EscKey ==
    ASSUME NEW u, Good(u), NEW v \in HandleKey(u, "Esc")
    PROVE  Layers(v) < Layers(u) \/ Layers(u) = 0
<1>1. /\ u \in Uis /\ u.mode.kind \in Modes
  BY DEF Good, Uis, Dialogs, DialogRecords
<1> DEFINE o == CloseOverlay(u)
           c == [u EXCEPT !.mode = NoMode]
<1>2. o.toast = u.toast /\ o.zoom = u.zoom /\ ~BehindOverlay(o)
  BY <1>1 DEF Uis, CloseOverlay, BehindOverlay, NoMode, NoConfig
<1>3. c.toast = u.toast /\ c.zoom = u.zoom /\ c.menu = u.menu /\ c.config = u.config
      /\ c.mode.kind = "Normal"
  BY <1>1 DEF Uis, NoMode
<1> HIDE DEF o, c
<1>4. CASE u.toast
  <2>1. v = [u EXCEPT !.toast = FALSE]
    BY <1>4 DEF HandleKey
  <2>2. ~v.toast /\ v.zoom = u.zoom /\ BehindOverlay(v) = BehindOverlay(u)
    BY <1>1, <2>1 DEF Uis, BehindOverlay
  <2>3. Covers(v) \subseteq Covers(u) /\ "toast" \in Covers(u) /\ "toast" \notin Covers(v)
    BY <1>4, <2>2 DEF Covers
  <2> QED  BY <2>3, FewerCovers
<1>5. CASE ~u.toast /\ Keyboard(u) \in {"config", "menu"}
  <2>1. v = o
    BY <1>5 DEF HandleKey, ConfigKey, MenuKey, o
  <2>2. BehindOverlay(u)
    BY <1>5, Layer DEF BehindOverlay
  <2> QED  BY <1>2, <2>1, <2>2, OverlayGoes
<1>6. CASE ~u.toast /\ Keyboard(u) \notin {"config", "menu"} /\ u.mode.kind # "Normal"
  <2>1. v \in ModeKey(u, "Esc") /\ u.menu = NoMenu /\ ~u.config.open
    BY <1>6, Layer DEF HandleKey
  <2>2. v \in {o, c}
    BY <1>1, <1>6, <2>1 DEF ModeKey, ImportOverlayKey, AuthKey, HelpKey, RenameKey, SearchKey,
       ConfirmKey, Modes, Asking, Alerts, o, c
  <2>3. BehindOverlay(u) /\ ~BehindOverlay(c)
    BY <1>3, <1>6, <2>1 DEF BehindOverlay
  <2> QED  BY <1>2, <1>3, <2>2, <2>3, OverlayGoes
<1>7. CASE ~u.toast /\ Keyboard(u) \notin {"config", "menu"} /\ u.mode.kind = "Normal"
  <2>1. v \in NormalKey(u, "Esc") /\ u.menu = NoMenu /\ ~u.config.open
    BY <1>7, Layer DEF HandleKey, ModeKey, Asking, Alerts
  <2>2. v = [u EXCEPT !.zoom = "none"]
    BY <2>1 DEF NormalKey
  <2>3. ~BehindOverlay(u)
    BY <1>7, <2>1 DEF BehindOverlay
  <2>4. CASE u.zoom = "none"
    BY <1>7, <2>3, <2>4, Bare
  <2>5. CASE u.zoom # "none"
    <3>1. v.toast = u.toast /\ v.zoom = "none" /\ ~BehindOverlay(v)
      BY <1>1, <2>2, <2>3 DEF Uis, BehindOverlay
    <3>2. Covers(v) \subseteq Covers(u) /\ "zoom" \in Covers(u) /\ "zoom" \notin Covers(v)
      BY <2>5, <3>1 DEF Covers
    <3> QED  BY <3>2, FewerCovers
  <2> QED  BY <2>4, <2>5
<1> QED  BY <1>4, <1>5, <1>6, <1>7

-----------------------------------------------------------------------------
LEMMA GoodAnswers == Good(ui) => ScreenAnswers
<1> SUFFICES ASSUME Good(ui) PROVE ScreenAnswers
  OBVIOUS
<1>1. SelectionIsARow
  BY DEF Good, SelectionIsARow
<1>2. TopLayerHasKeys
  BY DEF Good, TopLayerHasKeys, Keyboard, Drawn
<1>3. MarkedRowExists
  BY DEF Good, MarkedRowExists
<1>4. CursorInText
  BY DEF Good, Uis, Dialogs, CursorInText
<1>5. EscLeadsHome
  BY EscKey DEF EscLeadsHome
<1>6. FileInView
  BY DEF Good, Uis, Viewers, FileInView
<1> QED  BY <1>1, <1>2, <1>3, <1>4, <1>5, <1>6 DEF ScreenAnswers

LEMMA GoodTypes == Good(ui) => ScreenTypeOK
<1> SUFFICES ASSUME Good(ui) PROVE ScreenTypeOK
  OBVIOUS
<1>1. /\ ui \in Uis /\ ui.mode.kind \in Modes /\ ui.mode.chars \in 0 .. MaxText
  BY DEF Good, Uis, Dialogs, DialogRecords
<1>2. \A p \in PanelNames : \E i \in DOMAIN Panels : p = Panels[i]
  <2>1. Panels \in Seq(PanelNames) /\ Len(Panels) = 5
    BY DEF Panels, PanelNames
  <2>2. \A p \in PanelNames : \E i \in 1 .. 5 : p = Panels[i]
    BY DEF Panels, PanelNames
  <2> QED  BY <2>1, <2>2
<1> QED  BY <1>1, <1>2 DEF ScreenTypeOK, Uis

\* Every field of the interface keeps its type, whatever is pressed and whatever arrives.
THEOREM ScreenTypeCorrect == ScreenSpec => []ScreenTypeOK
<1>1. Good(ui) /\ [ScreenNext]_screenVars => Good(ui)'
  BY ScreenKept
<1> QED  BY <1>1, ScreenStarts, GoodTypes, PTL DEF ScreenSpec

\* Whatever is pressed, clicked or resized and whatever arrives from the background:
\* the keyboard belongs to what the user sees, acts on rows and characters that exist,
\* and Escape leads back to the dashboard (handle_key, render_overlays).
THEOREM ScreenAnswersHolds == ScreenSpec => []ScreenAnswers
<1>1. Good(ui) /\ [ScreenNext]_screenVars => Good(ui)'
  BY ScreenKept
<1> QED  BY <1>1, ScreenStarts, GoodAnswers, PTL DEF ScreenSpec

-----------------------------------------------------------------------------
(* The parts together *)

\* A step of the parts is a step of each of them, or leaves it alone.
LEMMA PartSteps ==
    [PartsNext]_vars =>
        /\ [StoreNext]_storeVars /\ [DriverNext]_driverVars /\ [TeleNext]_teleVars
        /\ [JournalNext]_journalVars /\ [Declare]_cidrVars /\ [RunnerNext]_runnerVars
        /\ [ScreenNext]_screenVars /\ [ScannerNext]_scanVars
<1>1. CASE UNCHANGED vars
  BY <1>1 DEF vars
<1>2. CASE PartsNext
  BY <1>2 DEF PartsNext, CatalogueStep, RegistryStep, StoreStep, DriversStep, TelemetryStep,
     JournalStep, CidrStep, RunnerStep, ScreenStep, ScannerStep, DashboardStep
<1> QED  BY <1>1, <1>2

\* The part at work stays at work; the catalogue changes in no step of another, nor
\* does the registry but in those of the dashboard.
LEMMA FocusStays ==
    [PartsNext]_vars =>
        /\ focus' = focus
        /\ [CatNext]_catVars
        /\ focus = "dashboard" => [DashboardNext]_regVars
        /\ focus # "dashboard" => [RegNext]_regVars
<1>1. CASE UNCHANGED vars
  BY <1>1 DEF vars
<1>2. CASE PartsNext
  BY <1>2 DEF PartsNext, CatalogueStep, RegistryStep, StoreStep, DriversStep, TelemetryStep,
     JournalStep, CidrStep, RunnerStep, ScreenStep, ScannerStep, DashboardStep
<1> QED  BY <1>1, <1>2

\* Side by side each part keeps to its own specification, so that what is proved of
\* the part alone holds of every behaviour in which it takes turns with the others.
THEOREM PartsKeepTheirSpecs ==
    PartsSpec => /\ StoreSpec /\ DriverSpec /\ TeleSpec /\ JournalSpec /\ CidrSpec
                 /\ RunnerSpec /\ ScreenSpec /\ ScannerSpec
                 /\ focus = "catalogue" => CatSpec
                 /\ focus # "dashboard" => RegSpec
<1> DEFINE InList   == focus = "catalogue"
           NoPanels == focus # "dashboard"
<1>1. PartsInit => /\ StoreInit /\ DriverInit /\ TeleInit /\ JournalInit /\ CidrInit
                   /\ RunnerInit /\ ScreenInit /\ ScannerInit
  BY DEF PartsInit, On, StoreOff, TeleOff, JournalOff, CidrOff, ScreenOff
<1>2. PartsInit => (InList => CatInit) /\ RegInit
  BY DEF PartsInit, On
<1>3. [PartsNext]_vars => (NoPanels <=> NoPanels') /\ [CatNext]_catVars
  BY FocusStays
<1>4. [PartsNext]_vars /\ NoPanels => [RegNext]_regVars
  BY FocusStays
<1>5. PartsSpec => /\ StoreSpec /\ DriverSpec /\ TeleSpec /\ JournalSpec /\ CidrSpec
                   /\ RunnerSpec /\ ScreenSpec /\ ScannerSpec
  BY <1>1, PartSteps, PTL DEF PartsSpec, StoreSpec, DriverSpec, TeleSpec, JournalSpec,
     CidrSpec, RunnerSpec, ScreenSpec, ScannerSpec
<1> HIDE DEF InList, NoPanels
<1>6. PartsSpec => (InList => CatSpec)
  BY <1>2, <1>3, PTL DEF PartsSpec, CatSpec
<1>7. PartsSpec => (NoPanels => RegSpec)
  BY <1>2, <1>3, <1>4, PTL DEF PartsSpec, RegSpec
<1> QED  BY <1>5, <1>6, <1>7 DEF InList, NoPanels

\* Every variable of every part keeps its type.
THEOREM PartsTypeCorrect == PartsSpec => []PartsTypeOK
<1> DEFINE InList   == focus = "catalogue"
           NoPanels == focus # "dashboard"
<1>1. ~InList /\ [PartsNext]_vars => ~InList'
  BY FocusStays
<1>2. ~NoPanels /\ [PartsNext]_vars => ~NoPanels'
  BY FocusStays
<1>3. CidrSpec => []CidrTypeOK
  <2>1. CidrInit => CidrTypeOK
    BY DEF CidrInit, CidrTypeOK
  <2>2. CidrTypeOK /\ [Declare]_cidrVars => CidrTypeOK'
    BY DEF CidrTypeOK, Declare, cidrVars
  <2> QED  BY <2>1, <2>2, PTL DEF CidrSpec
<1>4. PartsSpec => (InList => CatSpec) /\ (NoPanels => RegSpec)
  BY PartsKeepTheirSpecs
<1>5. /\ StoreTypeOK /\ DriverTypeOK /\ TeleTypeOK /\ JournalTypeOK /\ CidrTypeOK
      /\ RunnerTypeOK /\ ScreenTypeOK /\ ScannerTypeOK
      /\ (InList => CatTypeOK) /\ (NoPanels => RegTypeOK)
      => PartsTypeOK
  BY DEF PartsTypeOK
<1> HIDE DEF InList, NoPanels
<1>6. PartsSpec => [](InList => CatTypeOK)
  BY <1>1, <1>4, CatTypeCorrect, PTL DEF PartsSpec
<1>7. PartsSpec => [](NoPanels => RegTypeOK)
  BY <1>2, <1>4, RegistryTypeCorrect, PTL DEF PartsSpec
<1> QED
  BY <1>3, <1>5, <1>6, <1>7, PartsKeepTheirSpecs, StoreTypeCorrect, DriverTypeCorrect,
     TeleTypeCorrect, JournalTypeCorrect, RunnerTypeCorrect, ScreenTypeCorrect,
     ScannerTypeCorrect, PTL

\* The panels of the dashboard, drawn from the registry frame by frame, tell one story
\* after every sequence of the App's calls (render of the header, the sidebar, the
\* connection details and the security guard).
THEOREM DashboardAgreesHolds == PartsSpec => []DashboardAgrees
<1> DEFINE Inv == focus = "dashboard" => DashInv
<1>1. PartsInit => Inv
  BY DashInvInit DEF PartsInit
<1>2. Inv /\ [PartsNext]_vars => Inv'
  BY FocusStays, DashInvStep
<1>3. Inv => DashboardAgrees
  BY PanelsTellOneStory DEF DashboardAgrees
<1> QED  BY <1>1, <1>2, <1>3, PTL DEF PartsSpec
=============================================================================
