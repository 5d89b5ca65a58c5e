------------------------ MODULE DirTreeAlone_proofs ------------------------
(***************************************************************************)
(* What holds of the directory tree while requests come one after another: *)
(* what is live stays under what is live, and no row is above itself.  Two *)
(* requests that overlap can trash a directory while the other puts a row  *)
(* into it, or move two directories into each other, so the invariants are *)
(* about the one request at work: which rows it has read, which of them it *)
(* has changed, and what is left for it to do.                             *)
(***************************************************************************)
EXTENDS DirTree_proofs, WellFoundedInduction

-----------------------------------------------------------------------------
(* Lists that leave nothing out.                                           *)

LEMMA LeastOfNaturals ==
  ASSUME NEW S \in SUBSET Nat, S # {} PROVE \E n \in S : \A m \in S : n <= m
<1>1. PICK n \in S : \A m \in S : ~ (<<m, n>> \in OpToRel(<, Nat))
  BY WFMin, NatLessThanWellFounded
<1>2. ASSUME NEW m \in S PROVE n <= m
  <2>1. ~(m < n)
    BY <1>1, <1>2 DEF OpToRel
  <2> QED BY <2>1
<1> QED BY <1>2

\* Elements that have a place each are listed once each.
LEMMA PlacedIsWhole ==
  ASSUME NEW S, IsFiniteSet(S), NEW place \in [S -> 1 .. Cardinality(S)],
         \A x, y \in S : place[x] = place[y] => x = y
  PROVE  /\ \A x \in S : place[x] \in 1 .. Cardinality(S) /\ Placed(S, place)[place[x]] = x
         /\ \A i, j \in 1 .. Cardinality(S) : Placed(S, place)[i] = Placed(S, place)[j] => i = j
<1> DEFINE n == Cardinality(S) list == Placed(S, place)
<1>1. n \in Nat /\ IsFiniteSet(1 .. n) /\ Cardinality(1 .. n) = n
  BY FS_CardinalityType, FS_Interval
<1>2. place \in Injection(S, 1 .. n)
  BY DEF Injection, IsInjective
<1>3. place \in Surjection(S, 1 .. n)
  BY <1>1, <1>2, FS_Injection
<1>4. ASSUME NEW i \in 1 .. n PROVE list[i] \in S /\ place[list[i]] = i
  <2>1. PICK y \in S : place[y] = i
    BY <1>3, <1>4 DEF Surjection
  <2>2. list[i] = CHOOSE x \in S : \A z \in S : place[z] = i => place[x] = i
    BY <1>4 DEF Placed
  <2>3. \E x \in S : \A z \in S : place[z] = i => place[x] = i
    BY <2>1
  <2> HIDE DEF list
  <2>4. list[i] \in S /\ \A z \in S : place[z] = i => place[list[i]] = i
    BY <2>2, <2>3
  <2> QED BY <2>1, <2>4
<1> HIDE DEF list
<1> QED BY <1>4 DEF list

\* A row comes after those before it in the order of names.
LEMMA RowsHavePlaces ==
  ASSUME NEW K, TableFits(K), NEW S \in SUBSET DOMAIN files
  PROVE  LET place == [x \in S |-> Cardinality({y \in S : NameOrder(y, x)}) + 1] IN
         /\ place \in [S -> 1 .. Cardinality(S)]
         /\ \A x, y \in S : place[x] = place[y] => x = y
<1> DEFINE Under(x) == {y \in S : NameOrder(y, x)}
           place == [x \in S |-> Cardinality(Under(x)) + 1]
<1>1. IsFiniteSet(S) /\ Cardinality(S) \in Nat
  BY TablesAreFinite, FS_CardinalityType
<1>2. \A x \in S : x \in Nat /\ files[x].name \in Nat
  BY DEF TableFits, RowFits
<1>3. ASSUME NEW x \in S PROVE Under(x) \subseteq S /\ x \notin Under(x)
  BY <1>2 DEF NameOrder
<1>4. ASSUME NEW x \in S, NEW y \in S, NameOrder(x, y)
      PROVE  Under(x) \subseteq Under(y) /\ x \in Under(y)
  BY <1>2, <1>4 DEF NameOrder
<1>5. \A x, y \in S : x # y => NameOrder(x, y) \/ NameOrder(y, x)
  BY <1>2 DEF NameOrder
<1> HIDE DEF Under
<1>6. \A x \in S : IsFiniteSet(Under(x)) /\ Cardinality(Under(x)) \in Nat
  BY <1>1, <1>3, FS_Subset, FS_CardinalityType
<1>7. ASSUME NEW x \in S PROVE Cardinality(Under(x)) < Cardinality(S)
  BY <1>1, <1>3, <1>6, FS_Subset
<1>8. ASSUME NEW x \in S, NEW y \in S, NameOrder(x, y)
      PROVE  Cardinality(Under(x)) < Cardinality(Under(y))
  BY <1>3, <1>4, <1>6, <1>8, FS_Subset
<1>9. place \in [S -> 1 .. Cardinality(S)]
  BY <1>1, <1>6, <1>7
<1>10. ASSUME NEW x \in S, NEW y \in S, place[x] = place[y] PROVE x = y
  BY <1>5, <1>6, <1>8, <1>10
<1> QED BY <1>9, <1>10 DEF Under

\* A listing has every child of the directory, once.
LEMMA ChildrenAreListed ==
  ASSUME NEW K, TableFits(K), NEW p
  PROVE  /\ ListChildren(p) \in Seq(ChildrenOf(p))
         /\ \A g \in ChildrenOf(p) : \E i \in 1 .. Len(ListChildren(p)) : ListChildren(p)[i] = g
         /\ \A i, j \in 1 .. Len(ListChildren(p)) : ListChildren(p)[i] = ListChildren(p)[j] => i = j
<1> DEFINE S == ChildrenOf(p) place == [x \in S |-> Cardinality({y \in S : NameOrder(y, x)}) + 1]
           list == ListChildren(p)
<1>1. S \in SUBSET DOMAIN files
  BY DEF ChildrenOf
<1>2. IsFiniteSet(S)
  BY <1>1, TablesAreFinite
<1>3. list = Placed(S, place)
  BY DEF ListChildren, InOrder
<1> HIDE DEF S
<1>4. /\ place \in [S -> 1 .. Cardinality(S)]
      /\ \A x, y \in S : place[x] = place[y] => x = y
  BY <1>1, RowsHavePlaces
<1> HIDE DEF place, list
<1>5. list \in Seq(S)
  BY <1>2, <1>3, PlacedIsList
<1>6. Len(list) = Cardinality(S)
  <2>1. Cardinality(S) \in Nat
    BY <1>2, FS_CardinalityType
  <2> QED BY <1>3, <2>1 DEF Placed
<1> QED BY <1>2, <1>3, <1>4, <1>5, <1>6, PlacedIsWhole DEF S, list

-----------------------------------------------------------------------------
(* The rows of a trashed tree.                                             *)

\* What holds of the first and goes from each to the next holds of all.
LEMMA FromEachToTheNext ==
  ASSUME NEW a \in Int, NEW b \in Int, NEW G,
         \A i \in a .. b : i = a \/ i - 1 \in G => i \in G
  PROVE  \A i \in a .. b : i \in G
<1> DEFINE Bad == {k \in Nat : a + k <= b /\ a + k \notin G}
<1>1. SUFFICES ASSUME Bad # {} PROVE FALSE
  <2>1. ASSUME NEW i \in a .. b, i \notin G PROVE i - a \in Bad
    BY <2>1
  <2> QED BY <1>1, <2>1
<1>2. PICK k \in Bad : \A m \in Bad : k <= m
  BY <1>1, LeastOfNaturals
<1>3. k \in Nat \ {0} /\ a + k <= b /\ a + k \notin G
  <2>1. k \in Nat /\ a + k <= b /\ a + k \notin G
    BY <1>2
  <2>2. k # 0
    BY <2>1
  <2> QED BY <2>1, <2>2
<1>4. k - 1 \notin Bad
  BY <1>2, <1>3
<1>5. a + k - 1 \in G
  BY <1>3, <1>4
<1> QED BY <1>3, <1>5

\* A recursive function over an interval has the values its equation gives.
Iterated(F, X, start, next, m) ==
  F \in [0 .. m -> X] /\ F[0] = start /\ \A n \in 1 .. m : F[n] = next[F[n - 1]]

LEMMA IteratesExist ==
  ASSUME NEW X, NEW start \in X, NEW next \in [X -> X], NEW m \in Nat
  PROVE  \E F : Iterated(F, X, start, next, m)
<1> DEFINE Iterates(F, k) == Iterated(F, X, start, next, k)
           G == {k \in 0 .. m : \E F : Iterates(F, k)}
<1> USE DEF Iterated
<1>1. ASSUME NEW k \in 0 .. m, k = 0 PROVE k \in G
  <2> DEFINE F == [n \in 0 .. 0 |-> start]
  <2>1. F \in [0 .. 0 -> X] /\ F[0] = start /\ \A n \in 1 .. 0 : FALSE
    OBVIOUS
  <2> HIDE DEF F
  <2> QED BY <1>1, <2>1
<1>2. ASSUME NEW k \in 0 .. m, k # 0, k - 1 \in G PROVE k \in G
  <2>1. PICK F : Iterates(F, k - 1)
    BY <1>2
  <2> DEFINE last == next[F[k - 1]] F2 == [n \in 0 .. k |-> IF n = k THEN last ELSE F[n]]
  <2>2. k \in Nat \ {0} /\ k - 1 \in 0 .. k - 1 /\ \A n \in 0 .. k : n = k \/ n \in 0 .. k - 1
    BY <1>2
  <2>3. last \in X
    BY <2>1, <2>2
  <2>4. (\A n \in 0 .. k - 1 : F2[n] = F[n]) /\ F2[k] = last
    <3> HIDE DEF last
    <3> QED BY <2>2
  <2>5. F2 \in [0 .. k -> X]
    <3> HIDE DEF last
    <3> QED BY <2>1, <2>2, <2>3
  <2> HIDE DEF F2
  <2>6. F2[0] = start
    BY <2>1, <2>2, <2>4
  <2>7. ASSUME NEW n \in 1 .. k PROVE F2[n] = next[F2[n - 1]]
    <3>1. n - 1 \in 0 .. k - 1 /\ F2[n - 1] = F[n - 1]
      BY <2>2, <2>4, <2>7
    <3>2. CASE n = k
      BY <2>4, <3>1, <3>2
    <3>3. CASE n # k
      <4>1. n \in 1 .. k - 1 /\ F2[n] = F[n]
        BY <2>2, <2>4, <2>7, <3>3
      <4> QED BY <2>1, <3>1, <4>1
    <3> QED BY <3>2, <3>3
  <2>8. Iterates(F2, k)
    BY <2>5, <2>6, <2>7
  <2> QED BY <2>8
<1> HIDE DEF G
<1>3. m \in G
  <2>1. \A k \in 0 .. m : k = 0 \/ k - 1 \in G => k \in G
    BY <1>1, <1>2
  <2>2. m \in Int /\ 0 \in Int /\ m \in 0 .. m
    OBVIOUS
  <2> QED BY <2>1, <2>2, FromEachToTheNext
<1> QED BY <1>3 DEF G

LEMMA FlattenedIsList ==
  ASSUME NEW T, NEW ss \in Seq(Seq(T)) \ {<<>>}
  PROVE  FlattenSeq(ss) \in Seq(T)
<1> DEFINE n == Len(ss)
           Rec(F, m) == [i \in 1 .. m |-> IF i = 1 THEN ss[i] ELSE F[i - 1] \o ss[i]]
           flatten[i \in 1 .. n] == IF i = 1 THEN ss[i] ELSE flatten[i - 1] \o ss[i]
           G == {m \in 1 .. n : \E F : F = Rec(F, m)}
<1>0. FlattenSeq(ss) = flatten[n]
  BY DEF FlattenSeq
<1>1. n \in Nat \ {0}
  OBVIOUS
<1>2. 1 \in G
  <2> DEFINE F == [i \in 1 .. 1 |-> ss[1]]
  <2>1. F = Rec(F, 1) /\ 1 \in 1 .. n
    BY <1>1
  <2> HIDE DEF F, Rec
  <2> QED BY <2>1
<1>3. ASSUME NEW m \in 1 .. n, m # 1, m - 1 \in G PROVE m \in G
  <2>1. PICK F : F = Rec(F, m - 1)
    BY <1>3
  <2>0. m \in 1 .. n /\ m \in Int /\ m - 1 \in 1 .. m /\ m - 1 # m /\ m # 1
    BY <1>1, <1>3
  <2> DEFINE last == F[m - 1] \o ss[m]
             F2 == [i \in 1 .. m |-> IF i = m THEN last ELSE F[i]]
  <2>2. ASSUME NEW i \in 1 .. m PROVE F2[i] = Rec(F2, m)[i]
    <3>1. CASE i = m
      <4> HIDE DEF last
      <4>1. F2[m] = last /\ F2[m - 1] = F[m - 1]
        BY <2>0
      <4> HIDE DEF F2
      <4>2. Rec(F2, m)[m] = F2[m - 1] \o ss[m]
        <5> DEFINE Here(k) == IF k = 1 THEN ss[k] ELSE F2[k - 1] \o ss[k]
                   R == [k \in 1 .. m |-> Here(k)]
        <5>1. Rec(F2, m) = R
          OBVIOUS
        <5> HIDE DEF Here, Rec
        <5>2. R[m] = Here(m)
          BY <2>0
        <5> HIDE DEF R
        <5>3. Here(m) = F2[m - 1] \o ss[m]
          BY <2>0 DEF Here
        <5> QED BY <5>1, <5>2, <5>3
      <4> QED BY <3>1, <4>1, <4>2 DEF last
    <3>2. CASE i # m
      <4>1. i \in 1 .. m - 1 /\ F2[i] = F[i] /\ (i # 1 => i - 1 \in 1 .. m /\ i - 1 # m)
        BY <3>2, <1>3
      <4>2. F[i] = IF i = 1 THEN ss[i] ELSE F[i - 1] \o ss[i]
        BY <2>1, <4>1
      <4>3. Rec(F2, m)[i] = IF i = 1 THEN ss[i] ELSE F2[i - 1] \o ss[i]
        OBVIOUS
      <4>4. i # 1 => F2[i - 1] = F[i - 1]
        BY <4>1
      <4> QED BY <4>1, <4>2, <4>3, <4>4
    <3> QED BY <3>1, <3>2
  <2>3. F2 = Rec(F2, m)
    <3> DEFINE R == Rec(F2, m)
    <3>1. \A i \in 1 .. m : F2[i] = R[i]
      BY <2>2
    <3>2. F2 = [i \in 1 .. m |-> F2[i]] /\ R = [i \in 1 .. m |-> R[i]]
      OBVIOUS
    <3> HIDE DEF F2, R
    <3>3. F2 = R
      BY <3>1, <3>2
    <3> QED BY <3>3 DEF R
  <2> HIDE DEF F2, Rec
  <2> QED BY <2>0, <2>3
<1> HIDE DEF G
<1>4. n \in G
  <2> HIDE DEF n
  <2>1. \A i \in 1 .. n : i = 1 \/ i - 1 \in G => i \in G
    BY <1>2, <1>3
  <2>2. 1 \in Int /\ n \in Int
    BY <1>1
  <2>3. \A i \in 1 .. n : i \in G
    BY <2>1, <2>2, FromEachToTheNext
  <2> QED BY <1>1, <2>3
<1>5. flatten = [i \in 1 .. n |-> IF i = 1 THEN ss[i] ELSE flatten[i - 1] \o ss[i]]
  <2>1. \E F : F = Rec(F, n)
    BY <1>4 DEF G
  <2>2. SUFFICES \E F : F = [i \in 1 .. n |-> IF i = 1 THEN ss[i] ELSE F[i - 1] \o ss[i]]
    OBVIOUS
  <2> QED BY <2>1
<1> HIDE DEF flatten
<1> DEFINE H == {m \in 1 .. n : flatten[m] \in Seq(T)}
<1>6. 1 \in H
  <2>1. 1 \in 1 .. n /\ flatten[1] = ss[1]
    BY <1>1, <1>5
  <2> QED BY <2>1
<1>7. ASSUME NEW m \in 1 .. n, m # 1, m - 1 \in H PROVE m \in H
  <2>0. m \in 1 .. n /\ m # 1
    BY <1>7
  <2>1. flatten[m] = flatten[m - 1] \o ss[m]
    BY <2>0, <1>5
  <2>2. flatten[m - 1] \in Seq(T) /\ ss[m] \in Seq(T)
    BY <1>1, <1>7
  <2>3. flatten[m - 1] \o ss[m] \in Seq(T)
    BY <2>2
  <2> QED BY <2>0, <2>1, <2>3
<1> HIDE DEF H
<1>8. n \in H
  <2> HIDE DEF n
  <2>1. \A i \in 1 .. n : i = 1 \/ i - 1 \in H => i \in H
    BY <1>6, <1>7
  <2>2. 1 \in Int /\ n \in Int
    BY <1>1
  <2>3. \A i \in 1 .. n : i \in H
    BY <2>1, <2>2, FromEachToTheNext
  <2> QED BY <1>1, <2>3
<1> QED BY <1>0, <1>8 DEF H

\* A list of rows that begins with f, each later one below an earlier one.
FromTop(f, s) ==
  /\ s \in Seq(DOMAIN files) /\ s # <<>> /\ s[1] = f
  /\ \A i \in 2 .. Len(s) : \E j \in 1 .. i - 1 : files[s[i]].parent = s[j]

\* The rows in the recycle bin that are right below g.
Under(g, space) == Those(ListTrash(space), LAMBDA c : files[c].parent = g)

FurtherFrom(s, space) ==
  s \o Those(FlattenSeq(Each(s, LAMBDA g : Under(g, space))), LAMBDA c : c \notin Range(s))

LEMMA UnderIsBelow ==
  ASSUME NEW K, TableFits(K), NEW g, NEW space
  PROVE  Under(g, space) \in Seq({c \in DOMAIN files : files[c].parent = g})
<1> DEFINE all == ListTrash(space)
           S == {i \in DOMAIN all : files[all[i]].parent = g}
<1>1. all \in Seq(DOMAIN files)
  BY TrashIsRows
<1> HIDE DEF all
<1>2. S \in SUBSET DOMAIN all /\ {all[i] : i \in S} \subseteq {c \in DOMAIN files : files[c].parent = g}
  BY <1>1
<1>3. \E place : Under(g, space) = Chosen(all, Placed(S, place))
  BY DEF Under, Those, InOrder, all
<1> HIDE DEF S
<1>4. PICK place : Under(g, space) = Chosen(all, Placed(S, place))
  BY <1>3
<1>5. Under(g, space) \in Seq({all[i] : i \in S})
  BY <1>1, <1>2, <1>4, ChosenAreChosen
<1> QED BY <1>2, <1>5

LEMMA FurtherIsFromTop ==
  ASSUME NEW K, TableFits(K), NEW f, NEW space, NEW s, FromTop(f, s)
  PROVE  FromTop(f, FurtherFrom(s, space))
<1> DEFINE T == {c \in DOMAIN files : \E j \in 1 .. Len(s) : files[c].parent = s[j]}
           rows == Each(s, LAMBDA g : Under(g, space))
           flat == FlattenSeq(rows)
           new == Those(flat, LAMBDA c : c \notin Range(s))
<1>1. s \in Seq(DOMAIN files) /\ s # <<>> /\ s[1] = f /\ Len(s) \in Nat \ {0}
  BY DEF FromTop
<1>2. \A j \in 1 .. Len(s) : Under(s[j], space) \in Seq(T)
  <2> SUFFICES ASSUME NEW j \in 1 .. Len(s) PROVE Under(s[j], space) \in Seq(T)
    OBVIOUS
  <2>1. {c \in DOMAIN files : files[c].parent = s[j]} \subseteq T
    OBVIOUS
  <2>2. Under(s[j], space) \in Seq({c \in DOMAIN files : files[c].parent = s[j]})
    BY UnderIsBelow
  <2> HIDE DEF T
  <2> QED BY <2>1, <2>2
<1> HIDE DEF T
<1>3. rows \in Seq(Seq(T)) \ {<<>>}
  BY <1>1, <1>2 DEF Each
<1> HIDE DEF rows
<1>4. flat \in Seq(T)
  BY <1>3, FlattenedIsList
<1> HIDE DEF flat
<1>5. new \in Seq(T)
  <2>1. {i \in DOMAIN flat : flat[i] \notin Range(s)} \in SUBSET DOMAIN flat
    OBVIOUS
  <2> QED BY <1>4, <2>1, ChosenIsList DEF Those, InOrder
<1>6. FurtherFrom(s, space) = s \o new
  BY DEF FurtherFrom, new, flat, rows
<1> HIDE DEF new
<1> DEFINE more == s \o new
<1>7. /\ Len(more) = Len(s) + Len(new) /\ Len(new) \in Nat
      /\ \A i \in 1 .. Len(more) : more[i] = IF i <= Len(s) THEN s[i] ELSE new[i - Len(s)]
  BY <1>1, <1>5
<1>8. more \in Seq(DOMAIN files)
  <2>1. T \subseteq DOMAIN files
    BY DEF T
  <2> QED BY <1>1, <1>5, <2>1
<1> HIDE DEF more
<1>9. more # <<>> /\ more[1] = f
  BY <1>1, <1>7
<1>10. ASSUME NEW i \in 2 .. Len(more)
       PROVE  \E j \in 1 .. i - 1 : files[more[i]].parent = more[j]
  <2>1. CASE i <= Len(s)
    <3>1. PICK j \in 1 .. i - 1 : files[s[i]].parent = s[j]
      BY <2>1 DEF FromTop
    <3>2. more[i] = s[i] /\ more[j] = s[j]
      BY <1>1, <1>7, <2>1
    <3> QED BY <3>1, <3>2
  <2>2. CASE i > Len(s)
    <3>1. more[i] = new[i - Len(s)] /\ i - Len(s) \in 1 .. Len(new)
      BY <1>1, <1>7, <2>2
    <3>2. new[i - Len(s)] \in T
      BY <1>5, <3>1
    <3>3. PICK j \in 1 .. Len(s) : files[new[i - Len(s)]].parent = s[j]
      BY <3>2 DEF T
    <3>4. more[j] = s[j] /\ j \in 1 .. i - 1
      BY <1>1, <1>7, <2>2
    <3> QED BY <3>1, <3>3, <3>4
  <2> QED BY <1>1, <2>1, <2>2
<1>11. FromTop(f, more)
  BY <1>8, <1>9, <1>10 DEF FromTop
<1> QED BY <1>6, <1>11 DEF more

\* What is restored or purged with f begins with f, and every other row comes
\* after its directory.
LEMMA TrashTreeFromTop ==
  ASSUME NEW K, TableFits(K), NEW f \in DOMAIN files, NEW space
  PROVE  FromTop(f, TrashTreeByID(f, space))
<1> DEFINE Further(s) == FurtherFrom(s, space)
           Wave[n \in 0 .. MaxRows] == IF n = 0 THEN <<f>> ELSE Further(Wave[n - 1])
           found == Wave[Cardinality(DOMAIN files)]
           start == <<f>> X == {s \in Seq(DOMAIN files) : FromTop(f, s)} next == [s \in X |-> Further(s)]
<1>0. TrashTreeByID(f, space) = [i \in 1 .. Cardinality(DOMAIN files \cap Range(found)) |-> found[i]]
  BY DEF TrashTreeByID, FurtherFrom, Under
<1>1. MaxRows \in Nat /\ MaxRows \in Int /\ 0 \in Int /\ MaxRows \in 0 .. MaxRows
  BY RowsAreBounded
<1> HIDE DEF Further
<1>2. start \in X /\ next \in [X -> X]
  <2>1. FromTop(f, start) /\ start \in Seq(DOMAIN files)
    BY DEF FromTop
  <2>2. ASSUME NEW s \in X PROVE Further(s) \in X
    <3>1. FromTop(f, Further(s))
      BY FurtherIsFromTop DEF Further
    <3> QED BY <3>1 DEF FromTop
  <2> HIDE DEF X, start
  <2>3. next \in [X -> X]
    BY <2>2
  <2> QED BY <2>1, <2>3 DEF X
<1>3. Wave = [n \in 0 .. MaxRows |-> IF n = 0 THEN <<f>> ELSE Further(Wave[n - 1])]
  <2>1. \E F : F = [n \in 0 .. MaxRows |-> IF n = 0 THEN start ELSE Further(F[n - 1])]
    <3> HIDE DEF X, start, next
    <3>0. PICK F : Iterated(F, X, start, next, MaxRows)
      BY <1>1, <1>2, IteratesExist
    <3>1. F \in [0 .. MaxRows -> X] /\ F[0] = start /\ \A n \in 1 .. MaxRows : F[n] = next[F[n - 1]]
      BY <3>0 DEF Iterated
    <3> DEFINE R == [n \in 0 .. MaxRows |-> IF n = 0 THEN start ELSE Further(F[n - 1])]
    <3>2. ASSUME NEW n \in 0 .. MaxRows PROVE F[n] = R[n]
      <4>1. n = 0 \/ (n \in 1 .. MaxRows /\ n - 1 \in 0 .. MaxRows)
        BY <1>1, <3>2
      <4>2. n # 0 => F[n - 1] \in X
        BY <3>1, <4>1
      <4>3. \A s \in X : next[s] = Further(s)
        BY DEF next
      <4>4. n # 0 => F[n] = Further(F[n - 1])
        BY <3>1, <4>1, <4>2, <4>3
      <4> QED BY <3>1, <4>4
    <3>3. F = [n \in 0 .. MaxRows |-> F[n]]
      BY <3>1
    <3>4. R = [n \in 0 .. MaxRows |-> R[n]]
      OBVIOUS
    <3>5. F = R
      <4> HIDE DEF R
      <4> QED BY <3>2, <3>3, <3>4
    <3> QED BY <3>5
  <2> QED BY <2>1
<1> HIDE DEF Wave
<1> DEFINE H == {n \in 0 .. MaxRows : FromTop(f, Wave[n])}
<1>6. ASSUME NEW n \in 0 .. MaxRows, n = 0 PROVE n \in H
  <2>1. Wave[0] = <<f>>
    BY <1>1, <1>3
  <2>2. FromTop(f, <<f>>)
    BY DEF FromTop
  <2> QED BY <1>6, <2>1, <2>2
<1>7. ASSUME NEW n \in 0 .. MaxRows, n # 0, n - 1 \in H PROVE n \in H
  <2>1. Wave[n] = Further(Wave[n - 1])
    BY <1>3, <1>7
  <2>2. FromTop(f, Wave[n - 1])
    BY <1>7
  <2>3. FromTop(f, Further(Wave[n - 1]))
    BY <2>2, FurtherIsFromTop DEF Further
  <2> QED BY <2>1, <2>3
<1> HIDE DEF H
<1>8. \A n \in 0 .. MaxRows : n \in H
  <2>1. \A m \in 0 .. MaxRows : m = 0 \/ m - 1 \in H => m \in H
    BY <1>6, <1>7
  <2> QED BY <1>1, <2>1, FromEachToTheNext
<1>9. Cardinality(DOMAIN files) \in 0 .. MaxRows /\ IsFiniteSet(DOMAIN files)
  <2>1. IsFiniteSet(1 .. issued) /\ Cardinality(1 .. issued) = issued /\ issued \in 0 .. MaxRows
    BY FS_Interval DEF TableFits
  <2>2. DOMAIN files \subseteq 1 .. issued
    BY DEF TableFits
  <2>3. IsFiniteSet(DOMAIN files) /\ Cardinality(DOMAIN files) <= issued
    BY <2>1, <2>2, FS_Subset
  <2>4. Cardinality(DOMAIN files) \in Nat
    BY <2>3, FS_CardinalityType
  <2> QED BY <2>1, <2>3, <2>4, RowsAreBounded
<1>10. FromTop(f, found)
  BY <1>8, <1>9 DEF H
<1> HIDE DEF found
<1> DEFINE n == Cardinality(DOMAIN files \cap Range(found))
<1>11. n \in 1 .. Len(found)
  <2>1. found \in Seq(DOMAIN files) /\ found # <<>> /\ found[1] = f
    BY <1>10 DEF FromTop
  <2>2. Len(found) \in Nat \ {0} /\ DOMAIN found = 1 .. Len(found)
    BY <2>1
  <2>3. DOMAIN files \cap Range(found) = Range(found) /\ f \in Range(found)
    BY <2>1, <2>2 DEF Range
  <2>4. IsFiniteSet(Range(found)) /\ Range(found) # {}
    BY <1>9, <2>3, FS_Subset
  <2>5. Cardinality(Range(found)) \in Nat \ {0}
    BY <2>4, FS_CardinalityType, FS_EmptySet
  <2>6. found \in Surjection(1 .. Len(found), Range(found))
    BY <2>1, <2>2 DEF Surjection, Range
  <2>7. IsFiniteSet(1 .. Len(found)) /\ Cardinality(1 .. Len(found)) = Len(found)
    BY <2>2, FS_Interval
  <2>8. Cardinality(Range(found)) <= Len(found)
    BY <2>6, <2>7, FS_Surjection
  <2>9. n = Cardinality(Range(found))
    BY <2>3
  <2> HIDE DEF n
  <2> QED BY <2>2, <2>5, <2>8, <2>9
<1> HIDE DEF n
<1> DEFINE tt == [i \in 1 .. n |-> found[i]]
<1>12. FromTop(f, tt)
  <2>1. found \in Seq(DOMAIN files) /\ found[1] = f /\ Len(found) \in Nat
    BY <1>10 DEF FromTop
  <2>2. tt \in Seq(DOMAIN files) /\ Len(tt) = n /\ (\A i \in 1 .. n : tt[i] = found[i]) /\ tt # <<>>
    BY <1>11, <2>1
  <2> HIDE DEF tt
  <2>3. \A i \in 2 .. n : \E j \in 1 .. i - 1 : files[found[i]].parent = found[j]
    BY <1>10, <1>11, <2>1 DEF FromTop
  <2>4. \A i \in 2 .. n : \E j \in 1 .. i - 1 : files[tt[i]].parent = tt[j]
    BY <1>11, <2>2, <2>3
  <2>5. tt[1] = f
    BY <1>11, <2>1, <2>2
  <2>6. \A i \in 2 .. Len(tt) : \E j \in 1 .. i - 1 : files[tt[i]].parent = tt[j]
    BY <2>2, <2>4
  <2> QED BY <2>2, <2>5, <2>6 DEF FromTop
<1> QED BY <1>0, <1>12 DEF n

-----------------------------------------------------------------------------
(* One request after another.                                              *)

LiveIn(rows, f) == f \in DOMAIN rows /\ rows[f].trashed = 0
Fine(rows, p) == p = None \/ LiveIn(rows, p)
Kids(rows, p) == {f \in DOMAIN rows : LiveIn(rows, f) /\ rows[f].parent = p}

\* A row outside the recycle bin has its directory outside it too.
Upright(rows) == \A f \in DOMAIN rows : LiveIn(rows, f) => Fine(rows, rows[f].parent)

\* The statements of each kind of request.
Trashers == {"trash", "batch_delete", "trash_list", "trash_mark"}
Movers == {"target", "move", "move_into", "climb", "set_parent"}
Copiers == {"target", "copy", "copy_row", "copy_list", "copy_ref"}
Submitters == {"validate", "make_root", "make_dir", "adopt", "reparent", "relocate", "read_source",
               "write_target", "fill_target", "delete_source", "set_path"}
Purgers == {"restore", "purge", "reap"}
Enders == {"untrash", "del_list", "del_row", "del_ref", "del_count", "del_blob", "unlink"}
Undoers == {"undo_put", "undo_incr"}
Others == {"rename", "set_name", "batch_tag", "set_tags", "get_dir", "walk", "stream", "pack",
           "pack_blob", "pack_object", "fetch", "fetch_blobs", "get", "get_blob", "get_object",
           "ls", "ls_page", "dir_size", "ancestors", "stat", "stat_blob", "usage", "show_trash",
           "scan_objects", "scan_blobs", "scan_path", "scan_counts", "scan_count"}

Within(js, C) == \A i \in AllItems(js) : i.do \in C

\* A directory is marked after all that is live in it.
Marked(rows, J) ==
  \A x \in 1 .. Len(J) : J[x].do = "trash_mark" =>
    \A g \in Kids(rows, J[x].id) : \E y \in 1 .. x - 1 : J[y].id = g

Trashing(rows, js) ==
  /\ Within(js, Trashers)
  /\ \A i \in AllItems(js) : i.do \in {"trash_list", "trash_mark"} => i.arg # 0
  /\ \A k \in DOMAIN js : Marked(rows, js[k])

Moving(rows, q, js) ==
  /\ Within(js, Movers)
  /\ \A i \in AllItems(js) : i.do \in {"climb", "set_parent"} => Fine(rows, q.to)

Duplicating(rows, q, js) ==
  /\ Within(js, Copiers)
  /\ js # <<>> => Head(Head(js)).do = "target" \/ Fine(rows, q.to)
  /\ \A i \in AllItems(js) : i.do \in {"copy_row", "copy_list"} => Fine(rows, i.at)

Submitting(rows, l, js) ==
  /\ Within(js, Submitters)
  /\ \A p \in DOMAIN l.made : LiveIn(rows, l.made[p])

\* Rows come out of the recycle bin directory first.
Reviving(rows, J) ==
  \A x \in 1 .. Len(J) : J[x].do = "untrash" =>
    /\ \A y \in 1 .. x - 1 : J[y].do = "untrash"
    /\ J[x].id \in DOMAIN rows =>
         \/ Fine(rows, rows[J[x].id].parent)
         \/ \E y \in 1 .. x - 1 : J[y].id = rows[J[x].id].parent

\* Live rows and all that is above them.
Apex(rows, U) ==
  \A g \in U : LiveIn(rows, g) /\ (rows[g].parent = None \/ rows[g].parent \in U)

Doomed(i) == i.do \in {"del_list", "del_row"}

\* Rows are deleted each once, a directory after all that is live in it; what
\* a deletion does not reach stays.
Once(J) ==
  \A x, y \in 1 .. Len(J) : Doomed(J[x]) /\ Doomed(J[y]) /\ J[x].id = J[y].id => x = y

Leaving(rows, U, J, x) ==
  LET f == J[x].id row == J[x].arg IN
  /\ f \in DOMAIN rows /\ f \notin U /\ rows[f].parent = row.parent
  /\ J[x].do = "del_list" => row.space = J[x].at
  /\ LiveIn(rows, f) \/ \E y \in 1 .. Len(J) : J[y].do = "untrash" /\ J[y].id = f
  /\ \/ row.parent = None \/ row.parent \in U
     \/ \E y \in x + 1 .. Len(J) : J[y].do = "del_row" /\ J[y].id = row.parent

Emptied(rows, J, x) ==
  /\ J[1].do # "untrash"
  /\ \A g \in Kids(rows, J[x].id) : \E y \in 1 .. x - 1 : Doomed(J[y]) /\ J[y].id = g

Felling(rows, J, U) ==
  /\ Once(J)
  /\ \A x \in 1 .. Len(J) : Doomed(J[x]) => Leaving(rows, U, J, x)
  /\ \A x \in 1 .. Len(J) : J[x].do = "del_row" /\ J[x].arg.dir => Emptied(rows, J, x)

\* What was deleted can be put back, last first.
Undone(rows, undo) ==
  \A a \in 1 .. Len(undo) : undo[a].do = "undo_put" =>
    /\ undo[a].id \notin DOMAIN rows
    /\ \/ Fine(rows, undo[a].arg.parent)
       \/ \E b \in a + 1 .. Len(undo) : undo[b].do = "undo_put" /\ undo[b].id = undo[a].arg.parent

Ending(rows, l, J) ==
  /\ \A x \in 1 .. Len(J) : J[x].do \in Enders
  /\ Reviving(rows, J)
  /\ \E U \in SUBSET DOMAIN rows : Apex(rows, U) /\ Felling(rows, J, U)
  /\ (\E x \in 1 .. Len(J) : J[x].do \in Deletion) =>
       Undone(rows, l.undo) /\ (J[1].do = "untrash" => l.undo = <<>>)

PuttingBack(rows, J) ==
  \A x \in 1 .. Len(J) :
    /\ J[x].do \in Undoers
    /\ J[x].do = "undo_put" =>
         /\ J[x].id \in DOMAIN rows => LiveIn(rows, J[x].id)
         /\ \/ Fine(rows, J[x].arg.parent)
            \/ \E y \in 1 .. x - 1 : J[y].do = "undo_put" /\ J[y].id = J[x].arg.parent

Fresh(J) == Len(J) = 1 /\ J[1].do \in Purgers

Purging(rows, faults, l, js) ==
  \A k \in DOMAIN js :
    \/ Fresh(js[k])
    \/ k = 1 /\ Ending(rows, l, js[k])
    \/ k = 1 /\ faults = 0 /\ PuttingBack(rows, js[k])

Orderly(rows, faults, q, l, js) ==
  \/ Within(js, Others)
  \/ Trashing(rows, js)
  \/ Moving(rows, q, js)
  \/ Duplicating(rows, q, js)
  \/ Submitting(rows, l, js)
  \/ Purging(rows, faults, l, js)

OrderlyAt(r) == Orderly(files, budget.faults, request[r], notes[r], jobs[r])

OneBusy == \A r, s \in Workers : jobs[r] # <<>> /\ jobs[s] # <<>> => r = s

AloneInv ==
  /\ budget = [arrivals |-> budget.arrivals, faults |-> budget.faults, crashes |-> budget.crashes]
  /\ budget.faults \in 0 .. 1 /\ clock \in Nat \ {0}
  /\ Alone /\ ~strayed => Upright(files) /\ OneBusy /\ \A r \in Workers : OrderlyAt(r)

-----------------------------------------------------------------------------
(* The jobs that are left.                                                 *)

LEMMA WorkIsJobs ==
  ASSUME NEW K, NEW q, NEW l, NEW js, Working(K, q, l, js) \/ Targeting(js) \/ Validating(K, q, js)
  PROVE  JobsOf(js, AllItems(js))
<1>1. CASE Working(K, q, l, js)
  BY <1>1 DEF Working
<1>2. CASE Targeting(js)
  <2> DEFINE i == Item("target", None) T == AllItems(Tail(js)) \cup {i} first == <<<<i>>>>
  <2>1. js = first \o Tail(js) /\ Tail(js) \in Seq(Seq(AllItems(Tail(js))) \ {<<>>})
    BY <1>2 DEF Targeting, JobsOf
  <2> HIDE DEF i
  <2>2. first \in Seq(Seq(T) \ {<<>>})
    <3>1. i \in T
      OBVIOUS
    <3> HIDE DEF T
    <3> QED BY <3>1
  <2>3. Tail(js) \in Seq(Seq(T) \ {<<>>})
    <3>1. \A x \in Seq(AllItems(Tail(js))) : x \in Seq(T)
      OBVIOUS
    <3> HIDE DEF T
    <3> QED BY <2>1, <3>1
  <2> HIDE DEF T, first
  <2>4. first \o Tail(js) \in Seq(Seq(T) \ {<<>>})
    BY <2>2, <2>3
  <2>5. JobsOf(js, T)
    BY <2>1, <2>4 DEF JobsOf
  <2> QED BY <2>5, ItemsOf
<1>3. CASE Validating(K, q, js)
  <2>1. PICK k \in 1 .. Len(q.arg) + 1 : js = <<Remaining(q.arg, k)>>
    BY <1>3 DEF Validating
  <2> DEFINE some == [i \in 1 .. Len(q.arg) - k + 1 |-> Item("validate", i + k - 1)]
             last == Item("make_root", None)
             T == {Item("validate", n) : n \in Int} \cup {last}
  <2>2. Len(q.arg) \in Nat
    BY <1>3 DEF Validating
  <2>3. some \in Seq(T) /\ last \in T
    <3> HIDE DEF last
    <3>1. last \in T
      OBVIOUS
    <3>2. \A i \in 1 .. Len(q.arg) - k + 1 : Item("validate", i + k - 1) \in T
      BY <2>2
    <3> HIDE DEF T
    <3>3. some \in Seq(T)
      BY <2>2, <3>2
    <3> QED BY <3>1, <3>3
  <2>4. Remaining(q.arg, k) = some \o <<last>>
    BY DEF Remaining
  <2> HIDE DEF T, some, last
  <2>5. some \o <<last>> \in Seq(T) \ {<<>>}
    BY <2>3
  <2>6. JobsOf(js, T)
    BY <2>1, <2>4, <2>5 DEF JobsOf
  <2> QED BY <2>6, ItemsOf
<1> QED BY <1>1, <1>2, <1>3

LEMMA JobsAreJobs ==
  ASSUME NEW K, Fits(K), NEW r \in Workers
  PROVE  JobsOf(jobs[r], AllItems(jobs[r]))
<1>1. Working(K, request[r], notes[r], jobs[r]) \/ Targeting(jobs[r]) \/ Validating(K, request[r], jobs[r])
  BY DEF Fits, WorkFits
<1> QED BY <1>1, WorkIsJobs

\* The jobs after the first item of the first has led to these items.
After(js, items) ==
  LET rest == items \o Tail(Head(js)) IN IF rest = <<>> THEN Tail(js) ELSE <<rest>> \o Tail(js)

LEMMA TailJobs ==
  ASSUME NEW T, NEW js, JobsOf(js, T), js # <<>>
  PROVE  /\ \A k \in DOMAIN Tail(js) : \E m \in DOMAIN js \ {1} : Tail(js)[k] = js[m]
         /\ Head(js) = js[1] /\ 1 \in DOMAIN js
         /\ Head(js) \in Seq(T) \ {<<>>}
         /\ JobsOf(Tail(js), T)
         /\ Tail(Head(js)) \in Seq(T)
<1>1. js \in Seq(Seq(T) \ {<<>>})
  BY DEF JobsOf
<1>2. ASSUME NEW k \in DOMAIN Tail(js) PROVE k + 1 \in DOMAIN js \ {1} /\ Tail(js)[k] = js[k + 1]
  BY <1>1, <1>2
<1>3. Head(js) = js[1] /\ 1 \in DOMAIN js /\ Head(js) \in Seq(T) \ {<<>>}
  BY <1>1
<1>4. Tail(js) \in Seq(Seq(T) \ {<<>>})
  BY <1>1
<1>5. \A J \in Seq(T) \ {<<>>} : Tail(J) \in Seq(T)
  OBVIOUS
<1> QED BY <1>2, <1>3, <1>4, <1>5 DEF JobsOf

LEMMA AfterJobs ==
  ASSUME NEW T, NEW js, JobsOf(js, T), js # <<>>, NEW items \in Seq(T)
  PROVE  /\ \A k \in DOMAIN After(js, items) :
              \/ k = 1 /\ After(js, items)[k] = items \o Tail(Head(js))
              \/ \E m \in DOMAIN js \ {1} : After(js, items)[k] = js[m]
         /\ JobsOf(After(js, items), T)
<1> DEFINE rest == items \o Tail(Head(js)) tail == Tail(js)
<1>1. tail \in Seq(Seq(T) \ {<<>>}) /\ Tail(Head(js)) \in Seq(T)
      /\ \A k \in DOMAIN tail : \E m \in DOMAIN js \ {1} : tail[k] = js[m]
  BY TailJobs DEF JobsOf
<1>2. rest \in Seq(T)
  BY <1>1
<1>3. After(js, items) = IF rest = <<>> THEN tail ELSE <<rest>> \o tail
  BY DEF After
<1> HIDE DEF rest, tail
<1>4. CASE rest = <<>>
  BY <1>1, <1>3, <1>4 DEF JobsOf
<1>5. CASE rest # <<>>
  <2> DEFINE all == <<rest>> \o tail
  <2>1. all \in Seq(Seq(T) \ {<<>>})
    BY <1>1, <1>2, <1>5
  <2>2. ASSUME NEW k \in DOMAIN all
        PROVE  (k = 1 /\ all[k] = rest) \/ (k - 1 \in DOMAIN tail /\ all[k] = tail[k - 1])
    BY <1>1, <2>2
  <2> HIDE DEF all
  <2>3. \A k \in DOMAIN all : (k = 1 /\ all[k] = rest) \/ \E m \in DOMAIN js \ {1} : all[k] = js[m]
    BY <1>1, <2>2
  <2>4. After(js, items) = all
    BY <1>3, <1>5 DEF all
  <2> QED BY <2>1, <2>3, <2>4 DEF JobsOf, rest
<1> QED BY <1>4, <1>5

LEMMA JobsOfMore ==
  ASSUME NEW S, NEW T, NEW js, JobsOf(js, S) PROVE JobsOf(js, T \cup S)
<1> DEFINE U == T \cup S
<1>1. \A x \in Seq(S) : x \in Seq(U)
  OBVIOUS
<1>2. js \in Seq(Seq(S) \ {<<>>})
  BY DEF JobsOf
<1> HIDE DEF U
<1>3. js \in Seq(Seq(U) \ {<<>>})
  BY <1>1, <1>2
<1> QED BY <1>3 DEF JobsOf, U

\* What is left are the items it has led to and some of those before.
LEMMA AfterItems ==
  ASSUME NEW js, JobsOf(js, AllItems(js)), js # <<>>
  PROVE  /\ AllItems(Tail(js)) \subseteq AllItems(js)
         /\ \A T : \A items \in Seq(T) : AllItems(After(js, items)) \subseteq T \cup AllItems(js)
         /\ Head(Head(js)) \in AllItems(js)
<1>1. AllItems(Tail(js)) \subseteq AllItems(js)
  BY TailJobs, ItemsOf
<1>2. ASSUME NEW T, NEW items \in Seq(T)
      PROVE  AllItems(After(js, items)) \subseteq T \cup AllItems(js)
  <2> DEFINE S == AllItems(js) U == T \cup S
  <2>1. JobsOf(js, U)
    BY JobsOfMore
  <2>2. items \in Seq(U)
    OBVIOUS
  <2> HIDE DEF U
  <2>3. JobsOf(After(js, items), U)
    BY <2>1, <2>2, AfterJobs
  <2> QED BY <2>3, ItemsOf DEF U
<1>3. Head(Head(js)) \in AllItems(js)
  <2> DEFINE S == AllItems(js)
  <2>1. Head(js) \in Seq(S) \ {<<>>}
    BY TailJobs
  <2> HIDE DEF S
  <2>2. Head(Head(js)) \in S
    BY <2>1
  <2> QED BY <2>2 DEF S
<1> QED BY <1>1, <1>2, <1>3

LEMMA Joined ==
  ASSUME NEW T, NEW items \in Seq(T), NEW J \in Seq(T), J # <<>>
  PROVE  LET all == items \o Tail(J) n == Len(items) IN
         /\ all \in Seq(T) /\ n \in Nat /\ Len(J) \in Nat \ {0} /\ Len(all) = n + Len(J) - 1
         /\ \A x \in 1 .. n : all[x] = items[x]
         /\ \A m \in 2 .. Len(J) : all[n + m - 1] = J[m]
         /\ \A x \in 1 .. Len(all) : x \in 1 .. n \/ \E m \in 2 .. Len(J) : x = n + m - 1
<1> DEFINE rest == Tail(J) all == items \o rest n == Len(items)
<1>1. /\ rest \in Seq(T) /\ Len(J) \in Nat \ {0} /\ Len(rest) = Len(J) - 1
      /\ \A m \in 2 .. Len(J) : rest[m - 1] = J[m]
  OBVIOUS
<1> HIDE DEF rest
<1>2. /\ all \in Seq(T) /\ n \in Nat /\ Len(all) = n + Len(rest)
      /\ \A x \in 1 .. n : all[x] = items[x]
      /\ \A x \in 1 .. Len(rest) : all[n + x] = rest[x]
  BY <1>1
<1> HIDE DEF all, n
<1>3. ASSUME NEW m \in 2 .. Len(J) PROVE all[n + m - 1] = J[m]
  <2>1. m - 1 \in 1 .. Len(rest) /\ n + (m - 1) = n + m - 1
    BY <1>1, <1>2
  <2>2. all[n + (m - 1)] = rest[m - 1]
    BY <1>2, <2>1
  <2> QED BY <1>1, <2>1, <2>2
<1>4. ASSUME NEW x \in 1 .. Len(all), x \notin 1 .. n PROVE \E m \in 2 .. Len(J) : x = n + m - 1
  <2>1. x - n + 1 \in 2 .. Len(J) /\ x = n + (x - n + 1) - 1
    BY <1>1, <1>2, <1>4
  <2> QED BY <2>1
<1>5. Len(all) = n + Len(J) - 1
  BY <1>1, <1>2
<1> QED BY <1>1, <1>2, <1>3, <1>4, <1>5 DEF all, n, rest

\* What a step leaves of the jobs of its worker.
LEMMA StepLeaves ==
  ASSUME NEW K, Fits(K), NEW r \in Workers
  PROVE  /\ \A items : Goes(r, items) => jobs'[r] = After(jobs[r], items)
         /\ \A code : Fail(r, code) => jobs'[r] = Tail(jobs[r]) /\ request'[r] = request[r]
         /\ \A code : Refuse(r, code) => jobs'[r] = <<>>
<1>1. jobs = [s \in Workers |-> jobs[s]]
  BY DEF Fits, WorkFits
<1> QED BY <1>1 DEF Goes, Leaves, After, Fail, Refuse

LEMMA WithinAfter ==
  ASSUME NEW js, JobsOf(js, AllItems(js)), js # <<>>, NEW C, Within(js, C)
  PROVE  /\ Head(Head(js)).do \in C
         /\ Within(Tail(js), C)
         /\ \A T : \A items \in Seq(T) : (\A i \in T : i.do \in C) => Within(After(js, items), C)
BY AfterItems DEF Within

\* The statement a worker is at tells what kind of request it serves.
LEMMA KindOf ==
  ASSUME NEW K, Fits(K), NEW r \in Workers, jobs[r] # <<>>, OrderlyAt(r)
  PROVE  /\ Now(r).do \in Others => Within(jobs[r], Others)
         /\ Now(r).do \in Trashers => Trashing(files, jobs[r])
         /\ Now(r).do \in Movers => Moving(files, request[r], jobs[r]) \/ Now(r).do = "target"
         /\ Now(r).do \in Copiers => Duplicating(files, request[r], jobs[r]) \/ Now(r).do = "target"
         /\ Now(r).do = "target" =>
              Moving(files, request[r], jobs[r]) \/ Duplicating(files, request[r], jobs[r])
         /\ Now(r).do \in Submitters => Submitting(files, notes[r], jobs[r])
         /\ Now(r).do \in Purgers \cup Enders \cup Undoers =>
              Purging(files, budget.faults, notes[r], jobs[r])
<1> DEFINE js == jobs[r] do == Now(r).do
<1>1. JobsOf(js, AllItems(js)) /\ do = Head(Head(js)).do
  BY JobsAreJobs DEF Now
<1>2. \A C : Within(js, C) => do \in C
  BY <1>1, WithinAfter
<1>3. ASSUME Purging(files, budget.faults, notes[r], js) PROVE do \in Purgers \cup Enders \cup Undoers
  <2>1. 1 \in DOMAIN js /\ Head(js) = js[1] /\ js[1] \in Seq(AllItems(js)) \ {<<>>}
    BY <1>1, TailJobs
  <2>2. do = js[1][1].do /\ 1 \in 1 .. Len(js[1])
    BY <1>1, <2>1
  <2> QED BY <1>3, <2>1, <2>2 DEF Purging, Fresh, Ending, PuttingBack
<1> HIDE DEF js, do
<1>4. \/ Within(js, Others) /\ do \in Others
      \/ Trashing(files, js) /\ do \in Trashers
      \/ Moving(files, request[r], js) /\ do \in Movers
      \/ Duplicating(files, request[r], js) /\ do \in Copiers
      \/ Submitting(files, notes[r], js) /\ do \in Submitters
      \/ Purging(files, budget.faults, notes[r], js) /\ do \in Purgers \cup Enders \cup Undoers
  BY <1>2, <1>3 DEF OrderlyAt, Orderly, Trashing, Moving, Duplicating, Submitting, js
<1> QED BY <1>4 DEF js, do, Others, Trashers, Movers, Copiers, Submitters, Purgers, Enders, Undoers

-----------------------------------------------------------------------------
(* Requests that leave the tree as it is.                                  *)

\* A step ends the job or goes on with items of these kinds.
StaysIn(r, C) ==
  \/ \E code : Fail(r, code) \/ Refuse(r, code)
  \/ Goes(r, <<>>)
  \/ \E i : i.do \in C /\ Goes(r, <<i>>)
  \/ \E T : \E items \in Seq(T) : (\A i \in T : i.do \in C) /\ Goes(r, items)

LEMMA StaysWithin ==
  ASSUME NEW K, Fits(K), NEW r \in Workers, jobs[r] # <<>>,
         NEW C, Within(jobs[r], C), StaysIn(r, C)
  PROVE  Within(jobs'[r], C)
<1> DEFINE js == jobs[r]
<1>1. JobsOf(js, AllItems(js))
  BY JobsAreJobs
<1>2. Within(<<>>, C)
  BY DEF Within, AllItems
<1>3. ASSUME NEW T, NEW items \in Seq(T), \A i \in T : i.do \in C, Goes(r, items)
      PROVE  Within(jobs'[r], C)
  <2>1. jobs'[r] = After(js, items)
    BY <1>3, StepLeaves
  <2> HIDE DEF js
  <2>2. Within(After(js, items), C)
    BY <1>1, <1>3, WithinAfter DEF js
  <2> QED BY <2>1, <2>2
<1>4. ASSUME NEW i, i.do \in C, Goes(r, <<i>>) PROVE Within(jobs'[r], C)
  <2> DEFINE T == {i} items == <<i>>
  <2>1. items \in Seq(T) /\ (\A j \in T : j.do \in C) /\ Goes(r, items)
    BY <1>4
  <2> HIDE DEF T, items
  <2> QED BY <2>1, <1>3
<1>5. ASSUME Goes(r, <<>>) PROVE Within(jobs'[r], C)
  <2> DEFINE T == {i \in {0} : FALSE} items == <<>>
  <2>1. items \in Seq(T) /\ (\A j \in T : j.do \in C) /\ Goes(r, items)
    BY <1>5
  <2> HIDE DEF T, items
  <2> QED BY <2>1, <1>3
<1>6. ASSUME NEW code, Fail(r, code) PROVE Within(jobs'[r], C)
  BY <1>1, <1>6, StepLeaves, WithinAfter
<1>7. ASSUME NEW code, Refuse(r, code) PROVE Within(jobs'[r], C)
  BY <1>2, <1>7, StepLeaves
<1> QED BY <1>3, <1>4, <1>5, <1>6, <1>7 DEF StaysIn

LEMMA Reworded ==
  ASSUME NEW i, IsItem(i), NEW do
  PROVE  LET j == [i EXCEPT !.do = do] IN
         IsItem(j) /\ j.do = do /\ j.id = i.id /\ j.at = i.at /\ j.arg = i.arg
BY DEF IsItem

LEMMA DirManifestGoesOn ==
  ASSUME NEW K, Fits(K), NEW r \in Workers,
         GetDirManifest(r) \/ WalkDir(r) \/ StreamDir(r)
  PROVE  Now(r).do \in Others /\ StaysIn(r, Others)
<1> DEFINE f == Now(r).id
<1>1. TableFits(K)
  BY DEF Fits
<1>2. CASE GetDirManifest(r)
  <2> DEFINE walk == ItemFor("walk", f, <<>>) stream == Item("stream", f)
             T == {walk, stream} items == <<walk, stream>>
  <2>1. Goes(r, items) \/ \E code : Fail(r, code)
    BY <1>2 DEF GetDirManifest, Then
  <2>2. walk.do \in Others /\ stream.do \in Others
    BY ItemsAreItems DEF Others
  <2> HIDE DEF walk, stream
  <2>3. items \in Seq(T) /\ \A i \in T : i.do \in Others
    BY <2>2
  <2> HIDE DEF items, T
  <2>4. Now(r).do \in Others
    BY <1>2 DEF GetDirManifest, At, Others
  <2> QED BY <2>1, <2>3, <2>4 DEF StaysIn
<1>3. CASE WalkDir(r)
  <2> DEFINE prefix == Now(r).arg
             children == ListChildren(f)
             dirs == Those(children, LAMBDA g : files[g].dir)
             items == Each(dirs, LAMBDA g : ItemFor("walk", g, RelPath(g, prefix)))
             T == {ItemFor("walk", g, RelPath(g, prefix)) : g \in DOMAIN files}
  <2>1. Goes(r, items)
    BY <1>3 DEF WalkDir, Finding, ThenNoting
  <2>2. dirs \in Seq(DOMAIN files)
    <3>1. children \in Seq(DOMAIN files)
      BY <1>1, ChildrenAreRows
    <3> HIDE DEF children
    <3> QED BY <3>1, ChosenIsList DEF Those, InOrder
  <2> HIDE DEF dirs
  <2>3. items \in Seq(T)
    BY <2>2 DEF Each
  <2>4. \A i \in T : i.do \in Others
    BY ItemsAreItems DEF Others
  <2> HIDE DEF items, T
  <2>5. Now(r).do \in Others
    BY <1>3 DEF WalkDir, At, Others
  <2> QED BY <2>1, <2>3, <2>4, <2>5 DEF StaysIn
<1>4. CASE StreamDir(r)
  <2> DEFINE list == notes[r].found
             sorted == Sorted(list, LAMBDA a, b : PathOrder(a.path, b.path))
             items == Each(sorted, LAMBDA e : ItemAt("pack", e.file, e.path))
             T == {ItemAt("pack", e.file, e.path) : e \in Range(list)}
  <2>1. Now(r).do = "stream" /\ jobs[r] # <<>> /\ Goes(r, items)
    BY <1>4 DEF StreamDir, At, Then
  <2>2. list \in Seq(Range(list))
    <3>1. request[r].op # "scan" /\ LocalsFit(K, request[r], notes[r])
      BY <2>1, PlainWorks DEF Good, Special
    <3> QED BY <3>1 DEF LocalsFit, IsList
  <2>3. sorted \in Seq(Range(list))
    <3> HIDE DEF list
    <3> QED BY <2>2, ChosenIsList DEF Sorted, InOrder
  <2>4. items \in Seq(T)
    <3> HIDE DEF sorted, list
    <3> QED BY <2>3 DEF Each
  <2>5. \A i \in T : i.do \in Others
    BY ItemsAreItems DEF Others
  <2> HIDE DEF items, T
  <2> QED BY <2>1, <2>4, <2>5 DEF StaysIn, Others
<1> QED BY <1>2, <1>3, <1>4

LEMMA PackGoesOn ==
  ASSUME NEW K, Fits(K), NEW r \in Workers, Pack(r) \/ PackBlob(r) \/ PackObject(r)
  PROVE  Now(r).do \in Others /\ StaysIn(r, Others)
<1>1. jobs[r] # <<>> /\ Now(r).do \in {"pack", "pack_blob", "pack_object"}
  BY DEF Pack, PackBlob, PackObject, At
<1>2. IsItem(Now(r))
  BY <1>1, PlainWorks DEF Special, Good
<1>3. Now(r).do \in Others
  BY <1>1 DEF Others
<1>4. CASE Pack(r)
  <2> DEFINE sha == files[Now(r).id].sha next == [Now(r) EXCEPT !.do = "pack_blob", !.arg = sha]
  <2>1. Goes(r, <<>>) \/ Goes(r, <<next>>)
    BY <1>4 DEF Pack, Then, Done
  <2> HIDE DEF sha
  <2>2. ASSUME NEW i, i = next PROVE i.do = "pack_blob"
    BY <1>2, <2>2 DEF IsItem
  <2> HIDE DEF next
  <2> QED BY <1>3, <2>1, <2>2 DEF StaysIn, Others
<1>5. CASE PackBlob(r)
  <2> DEFINE arg == <<Now(r).arg, GetBlobBySha(Now(r).arg).path>>
             next == [Now(r) EXCEPT !.do = "pack_object", !.arg = arg]
  <2>1. Goes(r, <<>>) \/ Goes(r, <<next>>)
    BY <1>5 DEF PackBlob, Then, Done
  <2> HIDE DEF arg
  <2>2. ASSUME NEW i, i = next PROVE i.do = "pack_object"
    BY <1>2, <2>2 DEF IsItem
  <2> HIDE DEF next
  <2> QED BY <1>3, <2>1, <2>2 DEF StaysIn, Others
<1>6. CASE PackObject(r)
  BY <1>3, <1>6 DEF PackObject, Done, Then, Sending, ThenNoting, StaysIn
<1> QED BY <1>4, <1>5, <1>6

LEMMA FetchGoesOn ==
  ASSUME NEW K, Fits(K), NEW r \in Workers, FetchFiles(r) \/ FetchBlobs(r)
  PROVE  Now(r).do \in Others /\ StaysIn(r, Others)
<1>1. CASE FetchFiles(r)
  <2> DEFINE ids == Those(request[r].ids, LAMBDA f :
                      /\ f \in GetFilesByIDs(request[r].ids)
                      /\ ~files[f].dir /\ files[f].space = request[r].space)
             arg == Each(ids, LAMBDA f : [name |-> files[f].name, sha |-> files[f].sha])
             next == ItemFor("fetch_blobs", None, arg)
  <2>1. Now(r).do \in Others
    BY <1>1 DEF FetchFiles, At, Others
  <2>2. Goes(r, <<next>>)
    BY <1>1 DEF FetchFiles, Then
  <2> HIDE DEF arg
  <2>3. next.do \in Others
    BY ItemsAreItems DEF Others
  <2> HIDE DEF next
  <2> QED BY <2>1, <2>2, <2>3 DEF StaysIn
<1>2. CASE FetchBlobs(r)
  <2> DEFINE all == Now(r).arg
             entries == Those(all, LAMBDA e : e.sha \in GetBlobsBySha({e.sha}))
             x(i) == <<entries[i].sha, blobs[entries[i].sha].path>>
             item(i) == [Item("pack_object", None) EXCEPT
                           !.at = NumberedName(entries, i),
                           !.arg = x(i)]
             list == [i \in 1 .. Len(entries) |-> item(i)]
             items == Sorted(list, LAMBDA p, q : PathOrder(p.at, q.at))
             T == {item(i) : i \in 1 .. Len(entries)}
  <2>1. jobs[r] # <<>> /\ Now(r).do = "fetch_blobs"
    BY <1>2 DEF FetchBlobs, At
  <2>2. Fail(r, 404) \/ Goes(r, items)
    BY <1>2 DEF FetchBlobs, Then
  <2>3. all \in Seq(Range(all))
    BY <2>1, PlainWorks DEF Good, IsList, Special
  <2>4. entries \in Seq(Range(all))
    <3> HIDE DEF all
    <3> QED BY <2>3, ChosenIsList DEF Those, InOrder
  <2>5. list \in Seq(T)
    <3> HIDE DEF entries, item
    <3> QED BY <2>4
  <2>6. items \in Seq(T)
    <3> HIDE DEF list, T
    <3> QED BY <2>5, ChosenIsList DEF Sorted, InOrder
  <2>7. \A i \in T : i.do \in Others
    <3>1. ASSUME NEW n, NEW i, i = item(n) PROVE i.do = "pack_object"
      <4> HIDE DEF x, entries
      <4> QED BY <3>1 DEF Item
    <3> HIDE DEF item
    <3> QED BY <3>1 DEF Others
  <2> HIDE DEF items, T
  <2> QED BY <2>1, <2>2, <2>6, <2>7 DEF StaysIn, Others
<1> QED BY <1>1, <1>2

LEMMA GetGoesOn ==
  ASSUME NEW r \in Workers, GetFileContent(r) \/ GetBlob(r) \/ GetObject(r)
  PROVE  Now(r).do \in Others /\ StaysIn(r, Others)
<1>1. Now(r).do \in Others
  BY DEF GetFileContent, GetBlob, GetObject, At, Others
<1>2. CASE GetFileContent(r)
  <2> DEFINE next == ItemFor("get_blob", Now(r).id, files[Now(r).id].sha)
  <2>1. (\E code : Fail(r, code)) \/ Goes(r, <<next>>)
    BY <1>2 DEF GetFileContent, Then
  <2>2. next.do \in Others
    BY ItemsAreItems DEF Others
  <2> HIDE DEF next
  <2> QED BY <1>1, <2>1, <2>2 DEF StaysIn
<1>3. CASE GetBlob(r)
  <2> DEFINE sha == Now(r).arg arg == Normalized(ParseRange(request[r].arg), Size[sha])
             next == [Item("get_object", GetBlobBySha(sha).path) EXCEPT !.at = sha, !.arg = arg]
  <2>1. (\E code : Fail(r, code)) \/ Goes(r, <<next>>)
    BY <1>3 DEF GetBlob, Then
  <2> HIDE DEF arg
  <2>2. next.do \in Others
    BY DEF Item, Others
  <2> HIDE DEF next
  <2> QED BY <1>1, <2>1, <2>2 DEF StaysIn
<1>4. CASE GetObject(r)
  BY <1>1, <1>4 DEF GetObject, Sending, ThenNoting, StaysIn
<1> QED BY <1>2, <1>3, <1>4

LEMMA ListingGoesOn ==
  ASSUME NEW K, Fits(K), NEW r \in Workers, NEW store,
         ListDirPage(r) \/ ListedPage(r, store)
  PROVE  Now(r).do \in Others /\ StaysIn(r, Others)
<1>1. TableFits(K)
  BY DEF Fits
<1>2. CASE ListDirPage(r)
  <2> DEFINE dir == request[r].to up == IF dir = None THEN None ELSE files[dir].parent
             next == ItemAt("ls_page", dir, up)
  <2>1. Now(r).do \in Others
    BY <1>2 DEF ListDirPage, At, Others
  <2>2. Goes(r, <<next>>) \/ \E code : Fail(r, code)
    BY <1>2 DEF ListDirPage, Then
  <2>3. next.do \in Others
    BY ItemsAreItems DEF Others
  <2> HIDE DEF next
  <2> QED BY <2>1, <2>2, <2>3 DEF StaysIn
<1>3. CASE ListedPage(r, store)
  <2> DEFINE dir == Now(r).id q == request[r].arg
             rows == IF dir = None THEN RootsOf(request[r].space) ELSE ChildrenOf(dir)
             page == ListPage(rows, q.type, q.page, q.perPage)
             dirs == Those(page.children, LAMBDA f : files[f].dir)
             next == ItemFor("ancestors", Now(r).at, <<>>)
             up == IF Now(r).at = None THEN <<>> ELSE <<next>>
             sizes == Each(dirs, LAMBDA f : ItemAt("dir_size", f, f))
             items == sizes \o up
             T == {ItemAt("dir_size", f, f) : f \in DOMAIN files} \cup {next}
  <2>1. jobs[r] # <<>> /\ Now(r).do = "ls_page" /\ Now(r).do \in Others
    BY <1>3 DEF ListedPage, At, Others
  <2>2. Fail(r, 500) \/ Goes(r, items)
    BY <1>3 DEF ListedPage, Finding, ThenNoting
  <2>3. q.page \in Nat /\ q.perPage \in Nat
    BY <2>1, PlainWorks DEF Good, Special
  <2>4. page.children \in Seq(DOMAIN files)
    <3>1. rows \in SUBSET DOMAIN files
      BY DEF RootsOf, ChildrenOf
    <3> HIDE DEF rows, q
    <3> QED BY <1>1, <2>3, <3>1, PageIsRows
  <2> HIDE DEF page
  <2>5. dirs \in Seq(DOMAIN files)
    BY <2>4, ChosenIsList DEF Those, InOrder
  <2>6. \A i \in T : i.do \in Others
    BY ItemsAreItems DEF Others
  <2> HIDE DEF dirs, next
  <2>7. sizes \in Seq(T)
    BY <2>5 DEF Each
  <2>8. up \in Seq(T)
    <3>1. next \in T
      OBVIOUS
    <3> HIDE DEF T
    <3> QED BY <3>1
  <2> HIDE DEF sizes, up, T
  <2>9. items \in Seq(T)
    BY <2>7, <2>8
  <2> HIDE DEF items
  <2> QED BY <2>1, <2>2, <2>6, <2>9 DEF StaysIn
<1> QED BY <1>2, <1>3

LEMMA DirSizeGoesOn ==
  ASSUME NEW K, Fits(K), NEW r \in Workers, DirTotalSize(r) \/ GetAncestors(r)
  PROVE  Now(r).do \in Others /\ StaysIn(r, Others)
<1>1. TableFits(K)
  BY DEF Fits
<1>2. CASE DirTotalSize(r)
  <2> DEFINE d == Now(r).at
             children == ListChildren(Now(r).id)
             dirs == Those(children, LAMBDA f : files[f].dir)
             items == Each(dirs, LAMBDA f : ItemAt("dir_size", f, d))
             T == {ItemAt("dir_size", f, d) : f \in DOMAIN files}
  <2>1. Now(r).do \in Others
    BY <1>2 DEF DirTotalSize, At, Others
  <2>2. Goes(r, items)
    BY <1>2 DEF DirTotalSize, ThenNoting
  <2>3. dirs \in Seq(DOMAIN files)
    <3>1. children \in Seq(DOMAIN files)
      BY <1>1, ChildrenAreRows
    <3> HIDE DEF children
    <3> QED BY <3>1, ChosenIsList DEF Those, InOrder
  <2> HIDE DEF dirs
  <2>4. items \in Seq(T)
    BY <2>3 DEF Each
  <2>5. \A i \in T : i.do \in Others
    BY ItemsAreItems DEF Others
  <2> HIDE DEF items, T
  <2> QED BY <2>1, <2>2, <2>4, <2>5 DEF StaysIn
<1>3. CASE GetAncestors(r)
  <2> DEFINE f == Now(r).id up == <<f>> \o Now(r).arg
             next == ItemFor("ancestors", files[f].parent, up)
  <2>1. Now(r).do \in Others
    BY <1>3 DEF GetAncestors, At, Others
  <2>2. Goes(r, <<>>) \/ Goes(r, <<next>>)
    BY <1>3 DEF GetAncestors, Then, Done
  <2> HIDE DEF up
  <2>3. next.do \in Others
    BY ItemsAreItems DEF Others
  <2> HIDE DEF next
  <2> QED BY <2>1, <2>2, <2>3 DEF StaysIn
<1> QED BY <1>2, <1>3

LEMMA StatGoesOn ==
  ASSUME NEW r \in Workers, Stat(r) \/ StatBlob(r) \/ Usage(r) \/ ShowTrash(r)
  PROVE  Now(r).do \in Others /\ StaysIn(r, Others)
<1>1. Now(r).do \in Others
  BY DEF Stat, StatBlob, Usage, ShowTrash, At, Others
<1>2. CASE Stat(r)
  <2> DEFINE f == Now(r).id next == ItemFor("stat_blob", f, files[f].sha)
  <2>1. (\E code : Fail(r, code)) \/ Goes(r, <<>>) \/ Goes(r, <<next>>)
    BY <1>2 DEF Stat, Finding, ThenNoting
  <2>2. next.do \in Others
    BY ItemsAreItems DEF Others
  <2> HIDE DEF next
  <2> QED BY <1>1, <2>1, <2>2 DEF StaysIn
<1>3. CASE StatBlob(r) \/ Usage(r) \/ ShowTrash(r)
  <2>1. Goes(r, <<>>)
    BY <1>3 DEF StatBlob, Usage, ShowTrash, Finding, ThenNoting
  <2> QED BY <1>1, <2>1 DEF StaysIn
<1> QED BY <1>2, <1>3

LEMMA ScanGoesOn ==
  ASSUME NEW r \in Workers,
         ScanObjects(r) \/ ScanBlobs(r) \/ ScanPath(r) \/ ScanCounts(r) \/ ScanCount(r)
  PROVE  Now(r).do \in Others /\ StaysIn(r, Others)
<1> DEFINE list == SetToSeq(ListAllBlobs)
<1>1. Now(r).do \in Others
  BY DEF ScanObjects, ScanBlobs, ScanPath, ScanCounts, ScanCount, At, Others
<1>2. list \in Seq(ListAllBlobs)
  BY BlobsAreListed
<1>3. CASE ScanBlobs(r)
  <2> DEFINE items == Each(list, LAMBDA sha : ItemFor("scan_path", sha, blobs[sha].path))
             T == {ItemFor("scan_path", sha, blobs[sha].path) : sha \in ListAllBlobs}
  <2>1. Goes(r, items)
    BY <1>3 DEF ScanBlobs, Then
  <2>2. \A i \in T : i.do \in Others
    BY ItemsAreItems DEF Others
  <2> HIDE DEF list
  <2>3. items \in Seq(T)
    BY <1>2 DEF Each
  <2> HIDE DEF items, T
  <2> QED BY <1>1, <2>1, <2>2, <2>3 DEF StaysIn
<1>4. CASE ScanCounts(r)
  <2> DEFINE items == Each(list, LAMBDA sha : ItemFor("scan_count", sha, blobs[sha].refs))
             T == {ItemFor("scan_count", sha, blobs[sha].refs) : sha \in ListAllBlobs}
  <2>1. Goes(r, items)
    BY <1>4 DEF ScanCounts, Then
  <2>2. \A i \in T : i.do \in Others
    BY ItemsAreItems DEF Others
  <2> HIDE DEF list
  <2>3. items \in Seq(T)
    BY <1>2 DEF Each
  <2> HIDE DEF items, T
  <2> QED BY <1>1, <2>1, <2>2, <2>3 DEF StaysIn
<1>5. CASE ScanObjects(r) \/ ScanPath(r) \/ ScanCount(r)
  <2>1. Goes(r, <<>>)
    BY <1>5 DEF ScanObjects, ScanPath, ScanCount, Finding, ThenNoting
  <2> QED BY <1>1, <2>1 DEF StaysIn
<1> QED BY <1>3, <1>4, <1>5

LEMMA RenamingGoesOn ==
  ASSUME NEW r \in Workers, Rename(r) \/ SetName(r) \/ BatchTag(r) \/ SetTags(r)
  PROVE  Now(r).do \in Others /\ StaysIn(r, Others)
<1>1. Now(r).do \in Others
  BY DEF Rename, SetName, BatchTag, SetTags, At, Others
<1>2. CASE SetName(r) \/ SetTags(r)
  <2>1. Goes(r, <<>>)
    BY <1>2 DEF SetName, SetTags, Done, Then
  <2> QED BY <1>1, <2>1 DEF StaysIn
<1>3. CASE Rename(r) \/ BatchTag(r)
  <2>1. (\E code : Fail(r, code)) \/ \E do \in {"set_name", "set_tags"} : Goes(r, <<Item(do, Now(r).id)>>)
    BY <1>3 DEF Rename, BatchTag, Then
  <2>2. \A do : Item(do, Now(r).id).do = do
    BY ItemsAreItems
  <2> QED BY <1>1, <2>1, <2>2 DEF StaysIn, Others
<1> QED BY <1>2, <1>3

\* Rows are where they were, in the recycle bin or not.
SameTree(rows, rows2) ==
  /\ DOMAIN rows2 = DOMAIN rows
  /\ \A f \in DOMAIN rows : rows2[f].trashed = rows[f].trashed /\ rows2[f].parent = rows[f].parent

LEMMA SameIsUpright ==
  ASSUME NEW rows, NEW rows2, SameTree(rows, rows2)
  PROVE  /\ \A f : LiveIn(rows2, f) <=> LiveIn(rows, f)
         /\ \A f : Fine(rows2, f) <=> Fine(rows, f)
         /\ \A f : Kids(rows2, f) = Kids(rows, f)
         /\ Upright(rows) => Upright(rows2)
BY DEF SameTree, LiveIn, Fine, Kids, Upright

\* They change names and tags, or nothing.
LEMMA OthersLeaveTree ==
  ASSUME NEW K, Fits(K), NEW r \in Workers, NEW store,
         ArchiveStep(r, store) \/ Rename(r) \/ SetName(r) \/ BatchTag(r) \/ SetTags(r)
  PROVE  SameTree(files, files')
<1>1. CASE SetName(r)
  <2> DEFINE f == Now(r).id name == request[r].name path == <<name>>
             row == [files[f] EXCEPT !.name = name, !.path = path]
  <2>1. files' = IF f \in DOMAIN files THEN Updated(f, row) ELSE files
    BY <1>1 DEF SetName, FilesOnly, RenameFile
  <2> HIDE DEF path
  <2>2. ASSUME f \in DOMAIN files, NEW y, y = row
        PROVE  y.trashed = files[f].trashed /\ y.parent = files[f].parent
    <3>1. IsRow(files[f])
      BY <2>2 DEF Fits, TableFits, RowFits
    <3> HIDE DEF f, name
    <3> QED BY <2>2, <3>1 DEF IsRow
  <2> HIDE DEF row
  <2> QED BY <2>1, <2>2 DEF SameTree, Updated
<1>2. CASE ~SetName(r)
  <2>1. files' = files
    BY <1>2 DEF ArchiveStep, GetDirManifest, WalkDir, StreamDir, Pack, PackBlob, PackObject,
         FetchFiles, FetchBlobs, GetFileContent, GetBlob, GetObject, ListDirPage, ListedPage,
         DirTotalSize, GetAncestors, Stat, StatBlob, Usage, ShowTrash, ScanObjects, ScanBlobs,
         ScanPath, ScanCounts, ScanCount, Rename, BatchTag, SetTags, Read, tableVars
  <2> QED BY <2>1 DEF SameTree
<1> QED BY <1>1, <1>2

LEMMA OthersGoOn ==
  ASSUME NEW K, Fits(K), NEW r \in Workers, OrderlyAt(r), Upright(files), NEW store,
         ArchiveStep(r, store) \/ Rename(r) \/ SetName(r) \/ BatchTag(r) \/ SetTags(r)
  PROVE  Upright(files') /\ Within(jobs'[r], Others)
<1>1. jobs[r] # <<>>
  BY DEF ArchiveStep, GetDirManifest, WalkDir, StreamDir, Pack, PackBlob, PackObject, FetchFiles,
         FetchBlobs, GetFileContent, GetBlob, GetObject, ListDirPage, ListedPage, DirTotalSize,
         GetAncestors, Stat, StatBlob, Usage, ShowTrash, ScanObjects, ScanBlobs, ScanPath,
         ScanCounts, ScanCount, Rename, SetName, BatchTag, SetTags, At
<1>2. Now(r).do \in Others /\ StaysIn(r, Others)
  BY DirManifestGoesOn, PackGoesOn, FetchGoesOn, GetGoesOn, ListingGoesOn, DirSizeGoesOn,
     StatGoesOn, ScanGoesOn, RenamingGoesOn DEF ArchiveStep
<1>3. Within(jobs'[r], Others)
  BY <1>1, <1>2, KindOf, StaysWithin
<1> QED BY <1>3, OthersLeaveTree, SameIsUpright

-----------------------------------------------------------------------------
(* Trash.                                                                  *)

LEMMA LiveIsLiveIn ==
  /\ \A f : Live(f) <=> LiveIn(files, f)
  /\ \A p : ChildrenOf(p) = Kids(files, p)
BY DEF Live, LiveIn, ChildrenOf, Kids

\* Fewer children, and the first item done or listed: the marks stay in order.
LEMMA MarkedOn ==
  ASSUME NEW T, NEW js, JobsOf(js, T), js # <<>>,
         NEW rows, NEW rows2, \A p : Kids(rows2, p) \subseteq Kids(rows, p),
         \A k \in DOMAIN js : Marked(rows, js[k])
  PROVE  /\ \A k \in DOMAIN Tail(js) : Marked(rows2, Tail(js)[k])
         /\ \A items \in Seq(T) :
              /\ Marked(rows2, items)
              /\ \/ \E y \in 1 .. Len(items) : items[y].id = Head(Head(js)).id
                 \/ \A p : Head(Head(js)).id \notin Kids(rows2, p)
              => \A k \in DOMAIN After(js, items) : Marked(rows2, After(js, items)[k])
<1>1. ASSUME NEW J, Marked(rows, J) PROVE Marked(rows2, J)
  BY <1>1 DEF Marked
<1>2. \A k \in DOMAIN js : Marked(rows2, js[k])
  BY <1>1
<1>3. \A k \in DOMAIN Tail(js) : Marked(rows2, Tail(js)[k])
  <2>1. ASSUME NEW k \in DOMAIN Tail(js) PROVE Marked(rows2, Tail(js)[k])
    <3>1. PICK m \in DOMAIN js \ {1} : Tail(js)[k] = js[m]
      BY <2>1, TailJobs
    <3> QED BY <1>2, <3>1
  <2> QED BY <2>1
<1>4. ASSUME NEW items \in Seq(T), Marked(rows2, items),
             \/ \E y \in 1 .. Len(items) : items[y].id = Head(Head(js)).id
             \/ \A p : Head(Head(js)).id \notin Kids(rows2, p)
      PROVE  \A k \in DOMAIN After(js, items) : Marked(rows2, After(js, items)[k])
  <2> DEFINE J == Head(js) n == Len(items) all == items \o Tail(J) i == Head(Head(js))
  <2>1. J \in Seq(T) /\ J # <<>> /\ J = js[1] /\ 1 \in DOMAIN js
    BY TailJobs
  <2>2. Marked(rows2, J) /\ i = J[1]
    BY <1>2, <2>1
  <2> HIDE DEF J
  <2>3. /\ n \in Nat /\ Len(J) \in Nat \ {0} /\ Len(all) = n + Len(J) - 1
        /\ \A x \in 1 .. n : all[x] = items[x]
        /\ \A m \in 2 .. Len(J) : all[n + m - 1] = J[m]
        /\ \A x \in 1 .. Len(all) : x \in 1 .. n \/ \E m \in 2 .. Len(J) : x = n + m - 1
    BY <2>1, Joined
  <2>4. (\E y \in 1 .. n : items[y].id = i.id) \/ \A p : i.id \notin Kids(rows2, p)
    BY <1>4
  <2> HIDE DEF all, n, i
  <2>5. ASSUME NEW x \in 1 .. Len(all), all[x].do = "trash_mark", NEW g \in Kids(rows2, all[x].id)
        PROVE  \E y \in 1 .. x - 1 : all[y].id = g
    <3>1. CASE x \in 1 .. n
      <4>1. items[x].do = "trash_mark" /\ g \in Kids(rows2, items[x].id) /\ x \in 1 .. Len(items)
        BY <2>3, <2>5, <3>1 DEF n
      <4>2. PICK y \in 1 .. x - 1 : items[y].id = g
        <5> HIDE DEF Kids
        <5> QED BY <1>4, <4>1 DEF Marked
      <4>3. all[y] = items[y]
        BY <2>3, <3>1
      <4> QED BY <4>2, <4>3
    <3>2. CASE x \notin 1 .. n
      <4>1. PICK m \in 2 .. Len(J) : x = n + m - 1
        BY <2>3, <3>2
      <4>2. J[m].do = "trash_mark" /\ g \in Kids(rows2, J[m].id)
        BY <2>3, <2>5, <4>1
      <4>3. PICK z \in 1 .. m - 1 : J[z].id = g
        <5>1. m \in 1 .. Len(J)
          BY <2>3, <4>1
        <5> HIDE DEF Kids
        <5> QED BY <2>2, <4>2, <5>1 DEF Marked
      <4>4. CASE z = 1
        <5>1. PICK y \in 1 .. n : items[y].id = i.id
          BY <2>2, <2>4, <4>2, <4>3, <4>4
        <5>2. y \in 1 .. x - 1 /\ all[y].id = g
          BY <2>2, <2>3, <4>1, <4>3, <4>4, <5>1
        <5> QED BY <5>2
      <4>5. CASE z # 1
        <5>1. n + z - 1 \in 1 .. x - 1 /\ all[n + z - 1] = J[z]
          BY <2>3, <4>1, <4>3, <4>5
        <5> QED BY <4>3, <5>1
      <4> QED BY <4>4, <4>5
    <3> QED BY <3>1, <3>2
  <2>6. Marked(rows2, all)
    BY <2>5 DEF Marked
  <2>7. ASSUME NEW k \in DOMAIN After(js, items) PROVE Marked(rows2, After(js, items)[k])
    <3>1. After(js, items)[k] = items \o Tail(Head(js)) \/ \E m \in DOMAIN js : After(js, items)[k] = js[m]
      BY AfterJobs
    <3> QED BY <1>2, <2>6, <3>1 DEF all, J
  <2> QED BY <2>7
<1> QED BY <1>3, <1>4

\* The row that is trashed is listed if it is a directory.
LEMMA TrashTreeIsMarked ==
  ASSUME NEW K, TableFits(K), NEW f \in DOMAIN files, NEW at
  PROVE  /\ TrashTree(f, at).do \in {"trash_list", "trash_mark"} /\ TrashTree(f, at).id = f
         /\ TrashTree(f, at).arg = at
         /\ TrashTree(f, at).do = "trash_mark" => Kids(files, f) = {}
<1> DEFINE do == IF files[f].dir THEN "trash_list" ELSE "trash_mark"
<1>1. TrashTree(f, at).do = do /\ TrashTree(f, at).id = f /\ TrashTree(f, at).arg = at
  BY ItemsAreItems DEF TrashTree
<1>2. ASSUME NEW g \in Kids(files, f) PROVE files[f].dir
  <2>1. f # None
    BY NoneIsNoValue DEF TableFits
  <2>2. RowFits(K, g, files[g]) /\ files[g].parent = f
    BY <1>2 DEF Kids, TableFits
  <2>3. RowFits(K, f, files[f])
    BY DEF TableFits
  <2> QED BY <2>1, <2>2, <2>3 DEF RowFits, Inside, IsDir
<1> QED BY <1>1, <1>2

LEMMA TrashGoesOn ==
  ASSUME NEW K, Fits(K), NEW r \in Workers, OrderlyAt(r), Upright(files),
         clock # 0, Trash(r) \/ TrashList(r) \/ TrashMark(r) \/ BatchDelete(r)
  PROVE  Upright(files') /\ Trashing(files', jobs'[r])
<1> DEFINE js == jobs[r] i == Now(r) T == AllItems(js) f == i.id
<1>1. jobs[r] # <<>> /\ js # <<>> /\ i.do \in Trashers /\ TableFits(K)
  BY DEF Trash, TrashList, TrashMark, BatchDelete, At, Trashers, Fits
<1>2. Trashing(files, js) /\ JobsOf(js, T) /\ i = Head(Head(js)) /\ IsItem(i)
  BY <1>1, KindOf, JobsAreJobs, PlainWorks DEF Now, Good, Special, Trashers
<1>3. \A k \in DOMAIN js : Marked(files, js[k])
  BY <1>2 DEF Trashing
<1>4. ASSUME NEW code, Fail(r, code), \A p : Kids(files', p) \subseteq Kids(files, p)
      PROVE  Trashing(files', jobs'[r])
  <2>1. jobs'[r] = Tail(js) /\ Within(Tail(js), Trashers)
    BY <1>1, <1>2, <1>4, StepLeaves, WithinAfter DEF Trashing
  <2>2. \A k \in DOMAIN Tail(js) : Marked(files', Tail(js)[k])
    BY <1>1, <1>2, <1>3, <1>4, MarkedOn
  <2>3. AllItems(Tail(js)) \subseteq AllItems(js)
    BY <1>1, <1>2, AfterItems
  <2>4. \A x \in AllItems(Tail(js)) : x.do \in {"trash_list", "trash_mark"} => x.arg # 0
    BY <1>2, <2>3 DEF Trashing
  <2> QED BY <2>1, <2>2, <2>4 DEF Trashing
\* The job goes on with these items, in order.
<1>5. ASSUME NEW S, NEW items \in Seq(S), Goes(r, items),
             \A x \in S : x.do \in Trashers /\ (x.do \in {"trash_list", "trash_mark"} => x.arg # 0),
             \A p : Kids(files', p) \subseteq Kids(files, p), Marked(files', items),
             (\E y \in 1 .. Len(items) : items[y].id = f) \/ \A p : f \notin Kids(files', p)
      PROVE  Trashing(files', jobs'[r])
  <2> DEFINE U == S \cup T
  <2>1. jobs'[r] = After(js, items)
    BY <1>5, StepLeaves
  <2>2. Within(After(js, items), Trashers)
    BY <1>1, <1>2, <1>5, WithinAfter DEF Trashing
  <2>3. JobsOf(js, U)
    BY <1>2, JobsOfMore
  <2>4. items \in Seq(U)
    OBVIOUS
  <2> HIDE DEF U, T
  <2>5. \A k \in DOMAIN After(js, items) : Marked(files', After(js, items)[k])
    BY <1>1, <1>2, <1>3, <1>5, <2>3, <2>4, MarkedOn
  <2>6. AllItems(After(js, items)) \subseteq S \cup AllItems(js)
    BY <1>1, <1>2, <1>5, AfterItems DEF T
  <2>7. \A x \in AllItems(After(js, items)) : x.do \in {"trash_list", "trash_mark"} => x.arg # 0
    BY <1>2, <1>5, <2>6 DEF Trashing
  <2> QED BY <2>1, <2>2, <2>5, <2>7 DEF Trashing
<1> HIDE DEF js, T
\* The same with one item for the same row.
<1>6. ASSUME NEW x, x.do \in Trashers, x.id = f, x.do \in {"trash_list", "trash_mark"} => x.arg # 0, Goes(r, <<x>>), files' = files,
             x.do = "trash_mark" => Kids(files, f) = {}
      PROVE  Trashing(files', jobs'[r])
  <2> DEFINE S == {x} items == <<x>>
  <2>1. items \in Seq(S) /\ Len(items) = 1 /\ items[1] = x
    OBVIOUS
  <2>2. \A y \in S : y.do \in Trashers /\ (y.do \in {"trash_list", "trash_mark"} => y.arg # 0)
    BY <1>6
  <2> HIDE DEF S, items
  <2>3. Marked(files', items)
    BY <1>6, <2>1 DEF Marked
  <2>4. Goes(r, items)
    BY <1>6 DEF items
  <2> QED BY <1>5, <1>6, <2>1, <2>2, <2>3, <2>4
<1>7. CASE Trash(r)
  <2> DEFINE x == TrashTree(f, clock)
  <2>1. files' = files
    BY <1>7 DEF Trash, Read, tableVars
  <2>2. (f \in DOMAIN files /\ Goes(r, <<x>>)) \/ \E code : Fail(r, code)
    BY <1>7, FoundIsLive DEF Trash, Then
  <2>3. f \in DOMAIN files => x.do \in Trashers /\ x.id = f /\ x.arg # 0 /\ (x.do = "trash_mark" => Kids(files, f) = {})
    BY <1>1, TrashTreeIsMarked DEF Trashers
  <2> HIDE DEF x, i, f
  <2> QED BY <1>4, <1>6, <2>1, <2>2, <2>3
<1>8. CASE BatchDelete(r)
  <2> DEFINE x == Item("trash", f)
  <2>1. files' = files
    BY <1>8 DEF BatchDelete, Read, tableVars
  <2>2. Goes(r, <<x>>) \/ \E code : Fail(r, code)
    BY <1>8 DEF BatchDelete, Then
  <2>3. x.do \in Trashers /\ x.id = f /\ x.do \notin {"trash_list", "trash_mark"}
    BY ItemsAreItems DEF Trashers
  <2> HIDE DEF x, i, f
  <2> QED BY <1>4, <1>6, <2>1, <2>2, <2>3
<1>9. CASE TrashMark(r)
  <2> DEFINE row == [files[f] EXCEPT !.trashed = i.arg]
  <2>1. CASE Live(f)
    <3>1. files' = Updated(f, row) /\ Goes(r, <<>>) /\ f \in DOMAIN files
      BY <1>9, <2>1 DEF TrashMark, FilesOnly, MoveFileToTrash, Done, Then, Live
    <3>2. row.parent = files[f].parent
      BY <1>1, <3>1 DEF TableFits, RowFits, IsRow
    <3> HIDE DEF row
    <3>3. /\ DOMAIN files' = DOMAIN files
          /\ \A g \in DOMAIN files : g # f => files'[g] = files[g]
          /\ files'[f].parent = files[f].parent
      BY <3>1, <3>2 DEF Updated
    <3>4. Kids(files, f) = {}
      <4>1. 1 \in DOMAIN js /\ Head(js) = js[1] /\ js[1] \in Seq(T) \ {<<>>}
        BY <1>1, <1>2, TailJobs
      <4>2. js[1][1] = i /\ 1 \in 1 .. Len(js[1])
        BY <1>2, <4>1
      <4>3. i.do = "trash_mark"
        BY <1>9 DEF TrashMark, At
      <4>4. Marked(files, js[1])
        BY <1>3, <4>1
      <4> HIDE DEF i
      <4>5. ASSUME NEW g \in Kids(files, f) PROVE \E y \in 1 .. 0 : js[1][y].id = g
        <5> DEFINE first == js[1][1]
        <5>1. first.do = "trash_mark" /\ first.id = f
          BY <4>2, <4>3 DEF f
        <5>2. \A h \in Kids(files, first.id) : \E y \in 1 .. 1 - 1 : js[1][y].id = h
          <6> HIDE DEF js
          <6> QED BY <4>2, <4>4, <5>1 DEF Marked
        <5> HIDE DEF first, js, f
        <5> QED BY <4>5, <5>1, <5>2
      <4> QED BY <4>5
    <3>5. files'[f].trashed # 0
      <4>1. i \in AllItems(js)
        BY <1>1, <1>2, AfterItems DEF T
      <4>2. i.do = "trash_mark"
        BY <1>9 DEF TrashMark, At
      <4>3. i.arg # 0
        BY <1>2, <4>1, <4>2 DEF Trashing
      <4>4. row.trashed = i.arg
        BY <1>1, <3>1 DEF TableFits, RowFits, IsRow, row
      <4> QED BY <3>1, <4>3, <4>4 DEF Updated
    <3> HIDE DEF i, f
    <3>6. \A g : LiveIn(files', g) <=> (LiveIn(files, g) /\ g # f)
      BY <3>3, <3>5 DEF LiveIn
    <3>7. \A p : Kids(files', p) \subseteq Kids(files, p) /\ f \notin Kids(files', p)
      BY <3>3, <3>6 DEF Kids
    <3>8. Upright(files')
      BY <3>3, <3>4, <3>6 DEF Upright, Fine, Kids
    <3>9. Trashing(files', jobs'[r])
      <4> DEFINE items == <<>> S == {}
      <4>1. items \in Seq(S) /\ Len(items) = 0
        OBVIOUS
      <4>2. Goes(r, items)
        BY <3>1
      <4>3. \A x \in S : x.do \in Trashers /\ (x.do \in {"trash_list", "trash_mark"} => x.arg # 0)
        OBVIOUS
      <4> HIDE DEF items, S
      <4>4. Marked(files', items)
        BY <4>1 DEF Marked
      <4> QED BY <1>5, <3>7, <4>1, <4>2, <4>3, <4>4
    <3> QED BY <3>8, <3>9
  <2>2. CASE ~Live(f)
    <3>1. files' = files /\ Fail(r, 404)
      BY <1>9, <2>2 DEF TrashMark, Read, tableVars
    <3> QED BY <1>4, <3>1
  <2> QED BY <2>1, <2>2
<1>10. CASE TrashList(r)
  <2> DEFINE rows == ListChildren(f)
             last == [i EXCEPT !.do = "trash_mark"]
             some == Each(rows, LAMBDA g : TrashTree(g, i.arg))
             S == {TrashTree(g, i.arg) : g \in DOMAIN files} \cup {last}
             items == some \o <<last>>
  <2>1. files' = files /\ Goes(r, items)
    BY <1>10 DEF TrashList, Then, Read, tableVars
  <2>2. i.arg # 0
    <3>1. i \in AllItems(js)
      BY <1>1, <1>2, AfterItems DEF T
    <3>2. i.do = "trash_list"
      BY <1>10 DEF TrashList, At
    <3> QED BY <1>2, <3>1, <3>2 DEF Trashing
  <2>3. last.do = "trash_mark" /\ last.id = f /\ last.arg # 0
    <3> HIDE DEF i
    <3>1. IsItem(i)
      BY <1>2
    <3> QED BY <2>2, <3>1, Reworded DEF f
  <2> HIDE DEF last
  <2>4. \A x \in S : x.do \in Trashers /\ (x.do \in {"trash_list", "trash_mark"} => x.arg # 0)
    BY <1>1, <2>2, <2>3, TrashTreeIsMarked DEF Trashers
  <2>5. rows \in Seq(ChildrenOf(f)) /\ Len(rows) \in Nat /\ ChildrenOf(f) = Kids(files, f)
    BY <1>1, ChildrenAreListed, LiveIsLiveIn
  <2> HIDE DEF rows, i, f
  <2>6. /\ Len(some) = Len(rows)
        /\ \A x \in 1 .. Len(rows) : /\ rows[x] \in DOMAIN files
                                     /\ some[x] = TrashTree(rows[x], i.arg)
        /\ DOMAIN some = 1 .. Len(rows) /\ some = [x \in 1 .. Len(rows) |-> some[x]]
    <3>1. \A x \in 1 .. Len(rows) : rows[x] \in DOMAIN files
      BY <2>5 DEF Kids
    <3> QED BY <2>5, <3>1 DEF Each
  <2> HIDE DEF some
  <2>7. some \in Seq(S) /\ last \in S
    <3>1. \A x \in 1 .. Len(rows) : some[x] \in S
      BY <2>6
    <3>2. last \in S
      OBVIOUS
    <3> HIDE DEF S
    <3> QED BY <2>5, <2>6, <3>1, <3>2
  <2> HIDE DEF S
  <2>8. /\ items \in Seq(S) /\ Len(items) = Len(rows) + 1 /\ items[Len(rows) + 1] = last
        /\ \A x \in 1 .. Len(rows) : items[x] = some[x]
    BY <2>5, <2>6, <2>7
  <2> HIDE DEF items
  <2>9. ASSUME NEW x \in 1 .. Len(items), items[x].do = "trash_mark", NEW g \in Kids(files', items[x].id)
        PROVE  \E y \in 1 .. x - 1 : items[y].id = g
    <3>1. CASE x = Len(rows) + 1
      <4>1. g \in ChildrenOf(f)
        BY <2>1, <2>3, <2>5, <2>8, <2>9, <3>1
      <4>2. PICK y \in 1 .. Len(rows) : rows[y] = g
        BY <1>1, <4>1, ChildrenAreListed DEF rows
      <4>3. items[y].id = g
        BY <1>1, <2>6, <2>8, <4>2, TrashTreeIsMarked
      <4> QED BY <2>5, <3>1, <4>2, <4>3
    <3>2. CASE x \in 1 .. Len(rows)
      <4>1. items[x] = TrashTree(rows[x], i.arg) /\ rows[x] \in DOMAIN files
        BY <2>6, <2>8, <3>2
      <4>2. Kids(files, rows[x]) = {} /\ items[x].id = rows[x]
        BY <1>1, <2>9, <4>1, TrashTreeIsMarked
      <4> QED BY <2>1, <2>9, <4>2
    <3> QED BY <2>5, <2>8, <3>1, <3>2
  <2>10. Marked(files', items)
    BY <2>9 DEF Marked
  <2>11. \E y \in 1 .. Len(items) : items[y].id = f
    <3>1. Len(items) \in 1 .. Len(items) /\ items[Len(items)].id = f
      BY <2>3, <2>5, <2>8
    <3> QED BY <3>1
  <2>12. \A p : Kids(files', p) \subseteq Kids(files, p)
    BY <2>1
  <2>13. Trashing(files', jobs'[r])
    BY <1>5, <2>1, <2>4, <2>8, <2>10, <2>11, <2>12
  <2> QED BY <2>1, <2>13
<1> QED BY <1>7, <1>8, <1>9, <1>10

-----------------------------------------------------------------------------
(* Moves, copies and manifests.                                            *)

\* What is left of a request are the items this one has led to and some of
\* those before.
LEMMA LeftToDo ==
  ASSUME NEW K, Fits(K), NEW r \in Workers, jobs[r] # <<>>
  PROVE  /\ \A T : \A items \in Seq(T) : Goes(r, items) =>
              AllItems(jobs'[r]) \subseteq T \cup AllItems(jobs[r])
         /\ \A i : Goes(r, <<i>>) => AllItems(jobs'[r]) \subseteq {i} \cup AllItems(jobs[r])
         /\ Goes(r, <<>>) => AllItems(jobs'[r]) \subseteq AllItems(jobs[r])
         /\ \A code : Fail(r, code) =>
              AllItems(jobs'[r]) \subseteq AllItems(jobs[r]) /\ request'[r] = request[r]
         /\ \A code : Refuse(r, code) => jobs'[r] = <<>> /\ AllItems(jobs'[r]) = {}
         /\ Now(r) \in AllItems(jobs[r])
<1> DEFINE js == jobs[r]
<1>1. JobsOf(js, AllItems(js)) /\ js # <<>> /\ Now(r) = Head(Head(js))
  BY JobsAreJobs DEF Now
<1>2. ASSUME NEW T, NEW items \in Seq(T), Goes(r, items)
      PROVE  AllItems(jobs'[r]) \subseteq T \cup AllItems(js)
  <2>1. jobs'[r] = After(js, items)
    BY <1>2, StepLeaves
  <2>2. AllItems(After(js, items)) \subseteq T \cup AllItems(js)
    BY <1>1, AfterItems
  <2> QED BY <2>1, <2>2
<1>3. ASSUME NEW i, Goes(r, <<i>>) PROVE AllItems(jobs'[r]) \subseteq {i} \cup AllItems(js)
  <2> DEFINE T == {i} items == <<i>>
  <2>1. items \in Seq(T) /\ Goes(r, items)
    BY <1>3
  <2> HIDE DEF T, items
  <2>2. AllItems(jobs'[r]) \subseteq T \cup AllItems(js)
    BY <1>2, <2>1
  <2> QED BY <2>2 DEF T
<1>4. ASSUME Goes(r, <<>>) PROVE AllItems(jobs'[r]) \subseteq AllItems(js)
  <2> DEFINE T == {} items == <<>>
  <2>1. items \in Seq(T) /\ Goes(r, items)
    BY <1>4
  <2> HIDE DEF T, items
  <2>2. AllItems(jobs'[r]) \subseteq T \cup AllItems(js)
    BY <1>2, <2>1
  <2> QED BY <2>2 DEF T
<1>5. AllItems(Tail(js)) \subseteq AllItems(js) /\ Now(r) \in AllItems(js)
  BY <1>1, AfterItems
<1>6. AllItems(<<>>) = {}
  BY DEF AllItems
<1> HIDE DEF AllItems
<1> QED BY <1>2, <1>3, <1>4, <1>5, <1>6, StepLeaves

\* A row goes into a directory that is not in the recycle bin.
LEMMA MovedIsUpright ==
  ASSUME Upright(files), NEW f \in DOMAIN files, NEW row, files' = Updated(f, row),
         row.trashed = files[f].trashed, Fine(files, row.parent)
  PROVE  /\ Upright(files')
         /\ \A p : LiveIn(files', p) <=> LiveIn(files, p)
         /\ \A p : Fine(files', p) <=> Fine(files, p)
<1>1. /\ DOMAIN files' = DOMAIN files /\ \A g \in DOMAIN files : g # f => files'[g] = files[g]
      /\ files'[f] = row
  BY DEF Updated
<1>2. \A p : LiveIn(files', p) <=> LiveIn(files, p)
  BY <1>1 DEF LiveIn
<1>3. \A p : Fine(files', p) <=> Fine(files, p)
  BY <1>2 DEF Fine
<1>4. ASSUME NEW g \in DOMAIN files', LiveIn(files', g) PROVE Fine(files', files'[g].parent)
  <2>1. CASE g = f
    BY <1>1, <1>3, <2>1
  <2>2. CASE g # f
    BY <1>1, <1>2, <1>3, <1>4, <2>2 DEF Upright
  <2> QED BY <2>1, <2>2
<1>5. Upright(files')
  BY <1>4 DEF Upright
<1> QED BY <1>2, <1>3, <1>5

LEMMA MoveGoesOn ==
  ASSUME NEW K, Fits(K), NEW r \in Workers, Upright(files), Moving(files, request[r], jobs[r]),
         CheckTarget(r) \/ MoveFile(r) \/ MoveInto(r) \/ ClimbOn(r) \/ SetParent(r)
  PROVE  Upright(files') /\ Moving(files', request'[r], jobs'[r])
<1> DEFINE q == request[r] f == Now(r).id to == q.to js == jobs[r]
<1>1. js # <<>> /\ request' = request /\ Now(r) \in AllItems(js)
  <2>1. jobs[r] # <<>> /\ request' = request
    BY DEF CheckTarget, MoveFile, MoveInto, ClimbOn, SetParent, At, Done, Then, Fail, Refuse
  <2> QED BY <2>1, LeftToDo
\* It goes on with this item, or with none.
<1>2. ASSUME NEW i, AllItems(jobs'[r]) \subseteq {i} \cup AllItems(js), i.do \in Movers,
             i.do \in {"climb", "set_parent"} => Fine(files, to), files' = files
      PROVE  Moving(files', request'[r], jobs'[r])
  BY <1>1, <1>2 DEF Moving, Within
<1>3. ASSUME AllItems(jobs'[r]) \subseteq AllItems(js), Fine(files, to) => Fine(files', to)
      PROVE  Moving(files', request'[r], jobs'[r])
  BY <1>1, <1>3 DEF Moving, Within
<1>4. ASSUME NEW i, Goes(r, <<i>>) PROVE AllItems(jobs'[r]) \subseteq {i} \cup AllItems(js)
  BY <1>1, <1>4, LeftToDo
<1>5. ASSUME Goes(r, <<>>) \/ (\E code : Fail(r, code)) \/ (\E code : Refuse(r, code))
      PROVE  AllItems(jobs'[r]) \subseteq AllItems(js)
  BY <1>1, <1>5, LeftToDo
<1>6. \A g : Verdict(g, q.space) = 200 => Fine(files, g)
  BY FoundIsLive, LiveIsLiveIn DEF Fine
<1>7. CASE CheckTarget(r)
  <2>1. files' = files
    BY <1>7 DEF CheckTarget, Read, tableVars
  <2>2. Goes(r, <<>>) \/ (\E code : Refuse(r, code))
    BY <1>7 DEF CheckTarget, Done, Then
  <2> QED BY <1>3, <1>5, <2>1, <2>2
<1>8. CASE MoveFile(r)
  <2> DEFINE set == Item("set_parent", f) into == Item("move_into", f)
  <2>1. files' = files
    BY <1>8 DEF MoveFile, Read, tableVars
  <2>2. (\E code : Fail(r, code)) \/ (to = None /\ Goes(r, <<set>>)) \/ Goes(r, <<into>>)
    BY <1>8 DEF MoveFile, Then
  <2>3. set.do = "set_parent" /\ into.do = "move_into"
    BY ItemsAreItems
  <2>4. set.do \in Movers /\ into.do \in Movers /\ into.do \notin {"climb", "set_parent"}
    BY <2>3 DEF Movers
  <2>5. to = None => Fine(files, to)
    BY DEF Fine
  <2> HIDE DEF set, into, to, js
  <2>6. CASE \E code : Fail(r, code)
    BY <1>3, <1>5, <2>1, <2>6
  <2>7. CASE to = None /\ Goes(r, <<set>>)
    BY <1>2, <1>4, <2>1, <2>4, <2>5, <2>7
  <2>8. CASE Goes(r, <<into>>)
    BY <1>2, <1>4, <2>1, <2>4, <2>8
  <2> QED BY <2>1, <2>2, <2>6, <2>7, <2>8
\* A step of the walk up.
<1>9. ASSUME NEW current, NEW seen, Goes(r, Climb(f, current, seen)), files' = files, Fine(files, to)
      PROVE  Moving(files', request'[r], jobs'[r])
  <2> DEFINE set == Item("set_parent", f)
             next == [Item("climb", f) EXCEPT !.at = files[current].parent, !.arg = seen]
  <2>1. Climb(f, current, seen) = <<set>> \/ Climb(f, current, seen) = <<next>>
    BY DEF Climb
  <2>2. set.do = "set_parent"
    BY ItemsAreItems
  <2>3. next.do = "climb"
    <3>1. ASSUME NEW i, i = next PROVE i.do = "climb"
      BY <3>1 DEF Item
    <3> QED BY <3>1
  <2>4. set.do \in Movers /\ next.do \in Movers
    BY <2>2, <2>3 DEF Movers
  <2> HIDE DEF set, next, js, to
  <2>5. Goes(r, <<set>>) \/ Goes(r, <<next>>)
    BY <1>9, <2>1
  <2> QED BY <1>2, <1>4, <1>9, <2>4, <2>5
<1>10. CASE MoveInto(r)
  <2>1. files' = files
    BY <1>10 DEF MoveInto, Read, tableVars
  <2>2. (\E code : Fail(r, code)) \/ (Verdict(to, q.space) = 200 /\ Goes(r, Climb(f, to, {to})))
    BY <1>10 DEF MoveInto, Then
  <2> QED BY <1>3, <1>5, <1>6, <1>9, <2>1, <2>2
<1>11. ASSUME Now(r).do \in {"climb", "set_parent"} PROVE Fine(files, to)
  BY <1>1, <1>11 DEF Moving
<1>12. CASE ClimbOn(r)
  <2> DEFINE p == Now(r).at seen == Now(r).arg set == Item("set_parent", f)
  <2>1. files' = files /\ Now(r).do = "climb"
    BY <1>12 DEF ClimbOn, Read, tableVars, At
  <2>2. (\E code : Fail(r, code)) \/ Goes(r, <<set>>) \/ Goes(r, Climb(f, p, seen \cup {p}))
    BY <1>12 DEF ClimbOn, Then
  <2>3. set.do = "set_parent"
    BY ItemsAreItems
  <2>4. set.do \in Movers
    BY <2>3 DEF Movers
  <2> HIDE DEF set, to, js
  <2>5. CASE Goes(r, <<set>>)
    BY <1>2, <1>4, <1>11, <2>1, <2>4, <2>5
  <2> QED BY <1>3, <1>5, <1>9, <1>11, <2>1, <2>2, <2>5
<1>13. CASE SetParent(r)
  <2>1. files' = UpdateFileParent(f, to) /\ Goes(r, <<>>) /\ Fine(files, to)
    BY <1>11, <1>13 DEF SetParent, FilesOnly, Done, Then, At
  <2>2. CASE f \in DOMAIN files
    <3> DEFINE row == [files[f] EXCEPT !.parent = to]
    <3>1. files' = Updated(f, row)
      BY <2>1, <2>2 DEF UpdateFileParent
    <3>2. IsRow(files[f])
      BY <2>2 DEF Fits, TableFits, RowFits
    <3>3. row.trashed = files[f].trashed /\ row.parent = to
      BY <3>2 DEF IsRow
    <3> HIDE DEF row, f, to
    <3>4. Upright(files') /\ \A p : Fine(files', p) <=> Fine(files, p)
      BY <2>1, <2>2, <3>1, <3>3, MovedIsUpright
    <3> QED BY <1>3, <1>5, <2>1, <3>4
  <2>3. CASE f \notin DOMAIN files
    <3>1. files' = files
      BY <2>1, <2>3 DEF UpdateFileParent
    <3> QED BY <1>3, <1>5, <2>1, <3>1
  <2> QED BY <2>2, <2>3
<1> QED BY <1>7, <1>8, <1>10, <1>12, <1>13

\* A new row goes into the table live.
LEMMA InsertIsUpright ==
  ASSUME NEW K, TableFits(K), Upright(files), NEW row, IsRow(row), Insert(row),
         Fine(files, row.parent)
  PROVE  /\ Upright(files') /\ LiveIn(files', issued + 1)
         /\ \A p : LiveIn(files, p) => LiveIn(files', p)
         /\ \A p : Fine(files, p) => Fine(files', p)
<1> DEFINE f == issued + 1 new == [row EXCEPT !.trashed = 0]
<1>1. f \notin DOMAIN files
  BY DEF TableFits
<1>2. new.trashed = 0 /\ new.parent = row.parent
  BY DEF IsRow
<1>3. files' = [g \in DOMAIN files \cup {f} |-> IF g = f THEN new ELSE files[g]]
  BY DEF Insert, PutFile
<1> HIDE DEF f, new
<1>4. /\ DOMAIN files' = DOMAIN files \cup {f}
      /\ \A g \in DOMAIN files : files'[g] = files[g]
      /\ files'[f].trashed = 0 /\ files'[f].parent = row.parent
  BY <1>1, <1>2, <1>3
<1>5. LiveIn(files', f) /\ \A p : LiveIn(files, p) => LiveIn(files', p)
  BY <1>4 DEF LiveIn
<1>6. \A p : Fine(files, p) => Fine(files', p)
  BY <1>5 DEF Fine
<1>7. ASSUME NEW g \in DOMAIN files', LiveIn(files', g) PROVE Fine(files', files'[g].parent)
  <2>1. CASE g = f
    BY <1>4, <1>6, <2>1
  <2>2. CASE g # f
    <3>1. g \in DOMAIN files /\ LiveIn(files, g)
      BY <1>4, <1>7, <2>2 DEF LiveIn
    <3> QED BY <1>4, <1>6, <3>1 DEF Upright
  <2> QED BY <2>1, <2>2
<1>8. Upright(files')
  BY <1>7 DEF Upright
<1> QED BY <1>5, <1>6, <1>8 DEF f

LEMMA CopyGoesOn ==
  ASSUME NEW K, Fits(K), NEW r \in Workers, Upright(files), Duplicating(files, request[r], jobs[r]),
         CheckTarget(r) \/ Copy(r) \/ CopyRow(r) \/ CopyList(r) \/ CopyReference(r)
  PROVE  Upright(files') /\ Duplicating(files', request'[r], jobs'[r])
<1> DEFINE q == request[r] i == Now(r) to == q.to js == jobs[r]
<1>1. js # <<>> /\ request' = request /\ i \in AllItems(js) /\ i.do \in Copiers
  <2>1. jobs[r] # <<>> /\ request' = request
    BY DEF CheckTarget, Copy, CopyRow, CopyList, CopyReference, At, Done, Then, Fail, Refuse
  <2>2. i \in AllItems(js)
    BY <2>1, LeftToDo
  <2> QED BY <2>1, <2>2 DEF Duplicating, Within
<1>2. i.do # "target" => Fine(files, to)
  BY <1>1 DEF Duplicating, Now
<1>3. i.do \in {"copy_row", "copy_list"} => Fine(files, i.at)
  BY <1>1 DEF Duplicating
<1>4. ASSUME NEW S, AllItems(jobs'[r]) \subseteq S \cup AllItems(js), \A x \in S : x.do \in Copiers,
             \A x \in S : x.do \in {"copy_row", "copy_list"} => Fine(files', x.at),
             Fine(files, to), \A p : Fine(files, p) => Fine(files', p)
      PROVE  Duplicating(files', request'[r], jobs'[r])
  BY <1>1, <1>4 DEF Duplicating, Within
<1>5. ASSUME AllItems(jobs'[r]) \subseteq AllItems(js), Fine(files, to), files' = files
      PROVE  Duplicating(files', request'[r], jobs'[r])
  BY <1>1, <1>5 DEF Duplicating, Within
<1>6. ASSUME Goes(r, <<>>) \/ \E code : Fail(r, code) PROVE AllItems(jobs'[r]) \subseteq AllItems(js)
  BY <1>1, <1>6, LeftToDo
<1>7. CASE CheckTarget(r)
  <2>1. files' = files
    BY <1>7 DEF CheckTarget, Read, tableVars
  <2>2. (Goes(r, <<>>) /\ (to = None \/ Verdict(to, q.space) = 200)) \/ (\E code : Refuse(r, code))
    BY <1>7 DEF CheckTarget, Done, Then
  <2>3. to = None \/ Verdict(to, q.space) = 200 => Fine(files, to)
    BY FoundIsLive, LiveIsLiveIn DEF Fine
  <2>4. CASE \E code : Refuse(r, code)
    <3>1. jobs'[r] = <<>> /\ AllItems(jobs'[r]) = {}
      BY <1>1, <2>4, LeftToDo
    <3> QED BY <2>1, <3>1 DEF Duplicating, Within
  <2> QED BY <1>5, <1>6, <2>1, <2>2, <2>3, <2>4
\* The row that is to be copied, and where to.
<1>8. ASSUME NEW f, NEW at PROVE Copying(f, at).do = "copy_row" /\ Copying(f, at).at = at
  <2>1. ASSUME NEW x, x = Copying(f, at) PROVE x.do = "copy_row" /\ x.at = at
    BY <2>1 DEF Copying, Item
  <2> QED BY <2>1
<1>9. CASE Copy(r)
  <2> DEFINE next == Copying(i.id, to) S == {next}
  <2>1. files' = files /\ i.do = "copy"
    BY <1>9 DEF Copy, Read, tableVars, At
  <2>2. (\E code : Fail(r, code)) \/ Goes(r, <<next>>)
    BY <1>9 DEF Copy, Then
  <2>3. next.do = "copy_row" /\ next.at = to
    BY <1>8
  <2> HIDE DEF next, to, i, js
  <2>4. CASE Goes(r, <<next>>)
    <3>1. AllItems(jobs'[r]) \subseteq S \cup AllItems(js)
      BY <1>1, <2>4, LeftToDo DEF js
    <3>2. \A x \in S : x.do \in Copiers /\ x.at = to
      BY <2>3 DEF Copiers
    <3> HIDE DEF S
    <3> QED BY <1>2, <1>4, <2>1, <3>1, <3>2
  <2> QED BY <1>2, <1>5, <1>6, <2>1, <2>2, <2>4
<1>10. CASE CopyList(r)
  <2> DEFINE rows == ListChildren(i.id) items == Each(rows, LAMBDA g : Copying(g, i.at))
             S == {Copying(g, i.at) : g \in DOMAIN files}
  <2>1. files' = files /\ i.do = "copy_list" /\ Goes(r, items)
    BY <1>10 DEF CopyList, Read, tableVars, At, Then
  <2>2. items \in Seq(S)
    <3>1. rows \in Seq(DOMAIN files)
      BY ChildrenAreRows DEF Fits
    <3> HIDE DEF rows
    <3> QED BY <3>1 DEF Each
  <2>3. \A x \in S : x.do = "copy_row" /\ x.at = i.at
    BY <1>8
  <2> HIDE DEF items, S
  <2>4. AllItems(jobs'[r]) \subseteq S \cup AllItems(js)
    BY <1>1, <2>1, <2>2, LeftToDo
  <2>5. \A x \in S : x.do \in Copiers
    BY <2>3 DEF Copiers
  <2> HIDE DEF i, to, js
  <2> QED BY <1>2, <1>3, <1>4, <2>1, <2>3, <2>4, <2>5
<1>11. CASE CopyReference(r)
  <2>1. files' = files /\ i.do = "copy_ref" /\ Goes(r, <<>>)
    BY <1>11 DEF CopyReference, BlobsOnly, At, Done, Then
  <2> QED BY <1>2, <1>5, <1>6, <2>1
<1>12. CASE CopyRow(r)
  <2> DEFINE row == i.arg new == [row EXCEPT !.space = q.space, !.parent = i.at]
             list == ItemAt("copy_list", i.id, issued + 1) ref == ItemFor("copy_ref", i.id, row.sha)
             next == IF row.dir THEN list ELSE ref
             S == {next}
  <2>1. Insert(new) /\ i.do = "copy_row" /\ Goes(r, <<next>>)
    BY <1>12 DEF CopyRow, At, Then
  <2>2. IsRow(row)
    BY <1>1, <2>1, PlainWorks DEF Good, Special
  <2>3. IsRow(new) /\ new.parent = i.at
    <3> HIDE DEF i
    <3>1. ASSUME NEW x, x = [row EXCEPT !.space = q.space, !.parent = i.at] PROVE IsRow(x) /\ x.parent = i.at
      BY <2>2, <3>1 DEF IsRow
    <3> QED BY <3>1
  <2>4. /\ list.do = "copy_list" /\ list.at = issued + 1 /\ ref.do = "copy_ref"
    BY ItemsAreItems
  <2> HIDE DEF new, list, ref, i, to, js
  <2>5. /\ Upright(files') /\ LiveIn(files', issued + 1)
        /\ \A p : Fine(files, p) => Fine(files', p)
    BY <1>3, <2>1, <2>3, InsertIsUpright DEF Fits
  <2>6. \A x \in S : x.do \in Copiers /\ (x.do \in {"copy_row", "copy_list"} => Fine(files', x.at))
    BY <2>4, <2>5 DEF Copiers, Fine
  <2>7. AllItems(jobs'[r]) \subseteq S \cup AllItems(js)
    BY <1>1, <2>1, LeftToDo DEF js
  <2> HIDE DEF S
  <2> QED BY <1>2, <1>4, <2>1, <2>5, <2>6, <2>7
<1> QED BY <1>7, <1>9, <1>10, <1>11, <1>12

\* Each step of a manifest is for directories it has made.
LEMMA SubmittingOn ==
  ASSUME NEW K, Fits(K), NEW r \in Workers, jobs[r] # <<>>, Submitting(files, notes[r], jobs[r]),
         NEW S, AllItems(jobs'[r]) \subseteq S \cup AllItems(jobs[r]), \A x \in S : x.do \in Submitters,
         \A p : LiveIn(files, p) => LiveIn(files', p),
         \A p \in DOMAIN notes'[r].made :
           \/ p \in DOMAIN notes[r].made /\ notes'[r].made[p] = notes[r].made[p]
           \/ LiveIn(files', notes'[r].made[p])
  PROVE  Submitting(files', notes'[r], jobs'[r])
<1>1. Within(jobs'[r], Submitters)
  BY DEF Submitting, Within
<1>2. \A p \in DOMAIN notes'[r].made : LiveIn(files', notes'[r].made[p])
  BY DEF Submitting
<1> QED BY <1>1, <1>2 DEF Submitting

\* A directory of the manifest goes into the table.
LEMMA MadeIsLive ==
  ASSUME NEW K, Fits(K), Upright(files), NEW r \in Workers, jobs[r] # <<>>,
         Submitting(files, notes[r], jobs[r]),
         NEW parent, NEW name, NEW path, NEW space, Insert(NewDir(space, parent, name, path)),
         Fine(files, parent), notes' = [notes EXCEPT ![r] = Made(r, path)],
         NEW S, AllItems(jobs'[r]) \subseteq S \cup AllItems(jobs[r]), \A x \in S : x.do \in Submitters
  PROVE  Upright(files') /\ Submitting(files', notes'[r], jobs'[r])
<1> DEFINE row == NewDir(space, parent, name, path)
<1>1. IsRow(row) /\ row.parent = parent /\ Insert(row)
  BY NewDirIsRow
<1> HIDE DEF row
<1>2. /\ Upright(files') /\ LiveIn(files', issued + 1)
      /\ \A p : LiveIn(files, p) => LiveIn(files', p)
  BY <1>1, InsertIsUpright DEF Fits
<1>3. notes'[r] = Made(r, path) /\ LocalsFit(K, request[r], notes[r])
  BY DEF Fits, WorkFits
<1>4. /\ DOMAIN Made(r, path).made = DOMAIN notes[r].made \cup {path}
      /\ Made(r, path).made[path] = issued + 1
      /\ \A p \in DOMAIN notes[r].made : p # path => Made(r, path).made[p] = notes[r].made[p]
  <2> DEFINE made == [p \in DOMAIN notes[r].made \cup {path} |->
                        IF p = path THEN issued + 1 ELSE notes[r].made[p]]
  <2>1. Made(r, path).made = made
    BY <1>3 DEF Made, LocalsFit
  <2>2. /\ DOMAIN made = DOMAIN notes[r].made \cup {path} /\ made[path] = issued + 1
        /\ \A p \in DOMAIN notes[r].made : p # path => made[p] = notes[r].made[p]
    OBVIOUS
  <2> HIDE DEF made
  <2> QED BY <2>1, <2>2
<1>5. \A p \in DOMAIN notes'[r].made :
        \/ p \in DOMAIN notes[r].made /\ notes'[r].made[p] = notes[r].made[p]
        \/ LiveIn(files', notes'[r].made[p])
  BY <1>2, <1>3, <1>4
<1>6. Submitting(files', notes'[r], jobs'[r])
  BY <1>2, <1>5, SubmittingOn
<1> QED BY <1>2, <1>6

LEMMA SubmitGoesOn ==
  ASSUME NEW K, Fits(K), NEW r \in Workers, Upright(files), Submitting(files, notes[r], jobs[r]),
         \/ ValidateEntry(r) \/ MakeRoot(r) \/ MakeDir(r) \/ Adopt(r) \/ Reparent(r)
         \/ Relocate(r) \/ ReadSource(r) \/ WriteTarget(r) \/ FillTarget(r)
         \/ DeleteSource(r) \/ SetPath(r)
  PROVE  Upright(files') /\ Submitting(files', notes'[r], jobs'[r])
<1> DEFINE q == request[r] i == Now(r) l == notes[r] js == jobs[r]
<1>1. jobs[r] # <<>> /\ js # <<>>
  BY DEF ValidateEntry, MakeRoot, MakeDir, Adopt, Reparent, Relocate, ReadSource, WriteTarget,
         FillTarget, DeleteSource, SetPath, At
<1>2. notes = [s \in Workers |-> notes[s]] /\ LocalsFit(K, q, l)
  BY DEF Fits, WorkFits
\* Nothing but the items is changed.
<1>3. ASSUME notes'[r].made = l.made, files' = files, NEW S,
             AllItems(jobs'[r]) \subseteq S \cup AllItems(js), \A x \in S : x.do \in Submitters
      PROVE  Upright(files') /\ Submitting(files', notes'[r], jobs'[r])
  BY <1>1, <1>3, SubmittingOn
<1>4. ASSUME notes'[r].made = l.made, files' = files, AllItems(jobs'[r]) \subseteq AllItems(js)
      PROVE  Upright(files') /\ Submitting(files', notes'[r], jobs'[r])
  <2> DEFINE S == {}
  <2>1. AllItems(jobs'[r]) \subseteq S \cup AllItems(js) /\ \A x \in S : x.do \in Submitters
    BY <1>4
  <2> HIDE DEF S
  <2> QED BY <1>3, <1>4, <2>1
<1>5. ASSUME NEW code, Refuse(r, code) PROVE notes'[r].made = l.made /\ AllItems(jobs'[r]) \subseteq AllItems(js)
  BY <1>1, <1>2, <1>5, LeftToDo DEF Refuse, LocalsFit
<1>6. ASSUME Done(r) PROVE notes'[r].made = l.made /\ AllItems(jobs'[r]) \subseteq AllItems(js)
  BY <1>1, <1>6, LeftToDo DEF Done, Then
<1>7. ASSUME NEW x, Then(r, <<x>>) PROVE notes'[r].made = l.made /\ AllItems(jobs'[r]) \subseteq {x} \cup AllItems(js)
  BY <1>1, <1>7, LeftToDo DEF Then
<1>8. CASE ValidateEntry(r)
  <2>1. files' = files /\ (Done(r) \/ \E code : Refuse(r, code))
    BY <1>8 DEF ValidateEntry, Read, tableVars
  <2> QED BY <1>4, <1>5, <1>6, <2>1
\* The item changes its kind, and what goes with it.
<1>9. ASSUME NEW x, x.do \in Submitters, Then(r, <<x>>), files' = files
      PROVE  Upright(files') /\ Submitting(files', notes'[r], jobs'[r])
  <2> DEFINE S == {x}
  <2>1. notes'[r].made = l.made /\ AllItems(jobs'[r]) \subseteq S \cup AllItems(js) /\ \A y \in S : y.do \in Submitters
    BY <1>7, <1>9
  <2> HIDE DEF S
  <2> QED BY <1>3, <1>9, <2>1
<1>10. ASSUME i.do \notin Special PROVE IsItem(i) /\ Good(K, q, l, i)
  BY <1>1, <1>10, PlainWorks DEF Good
<1>11. CASE Relocate(r) \/ ReadSource(r) \/ WriteTarget(r)
  <2>1. files' = files /\ IsItem(i)
    BY <1>10, <1>11 DEF Relocate, ReadSource, WriteTarget, Read, ObjectsOnly, tableVars, At, Special
  <2>2. ASSUME NEW do, NEW arg PROVE [i EXCEPT !.do = do, !.arg = arg].do = do
    <3>1. ASSUME NEW x, x = [i EXCEPT !.do = do, !.arg = arg] PROVE x.do = do
      <4> HIDE DEF i
      <4> QED BY <2>1, <3>1 DEF IsItem
    <3> QED BY <3>1
  <2>3. \/ Done(r)
        \/ \E do \in {"read_source", "write_target", "fill_target"} : \E arg :
             Then(r, <<[i EXCEPT !.do = do, !.arg = arg]>>)
    BY <1>11 DEF Relocate, ReadSource, WriteTarget
  <2>4. {"read_source", "write_target", "fill_target"} \subseteq Submitters
    BY DEF Submitters
  <2>5. ASSUME NEW do \in {"read_source", "write_target", "fill_target"}, NEW arg, Then(r, <<[i EXCEPT !.do = do, !.arg = arg]>>)
        PROVE  Upright(files') /\ Submitting(files', notes'[r], jobs'[r])
    <3> DEFINE x == [i EXCEPT !.do = do, !.arg = arg]
    <3>1. x.do \in Submitters /\ Then(r, <<x>>)
      BY <2>2, <2>4, <2>5
    <3> HIDE DEF x
    <3> QED BY <1>9, <2>1, <3>1
  <2> QED BY <1>4, <1>6, <2>1, <2>3, <2>5
<1>12. CASE FillTarget(r) \/ DeleteSource(r)
  <2>1. files' = files /\ IsItem(i)
    BY <1>10, <1>12 DEF FillTarget, DeleteSource, Read, ObjectsOnly, tableVars, At, Special
  <2>2. PICK do \in {"delete_source", "set_path"} : Then(r, <<[i EXCEPT !.do = do]>>)
    BY <1>12 DEF FillTarget, DeleteSource, MoveOn
  <2> DEFINE x == [i EXCEPT !.do = do]
  <2>3. x.do \in Submitters
    <3>1. x.do = do
      BY <2>1, Reworded
    <3> HIDE DEF x
    <3> QED BY <3>1 DEF Submitters
  <2>4. Then(r, <<x>>)
    BY <2>2
  <2> HIDE DEF x
  <2> QED BY <1>9, <2>1, <2>3, <2>4
<1>13. CASE SetPath(r)
  <2>1. files' = files /\ Done(r)
    BY <1>13 DEF SetPath, BlobsOnly
  <2> QED BY <1>4, <1>6, <2>1
<1>14. CASE Adopt(r)
  <2> DEFINE first == [i EXCEPT !.do = "reparent"]
             then == [i EXCEPT !.do = "relocate", !.at = files[i.id].sha]
             items == <<first, then>> S == {first, then}
  <2>1. files' = files /\ IsItem(i)
    BY <1>10, <1>14 DEF Adopt, Read, tableVars, At, Special
  <2>2. Done(r) \/ Then(r, items)
    BY <1>14 DEF Adopt
  <2>3. first.do = "reparent"
    BY <2>1, Reworded
  <2>4. then.do = "relocate"
    <3>1. ASSUME NEW at, NEW x, x = [i EXCEPT !.do = "relocate", !.at = at] PROVE x.do = "relocate"
      <4> HIDE DEF i
      <4> QED BY <2>1, <3>1 DEF IsItem
    <3> QED BY <3>1
  <2> HIDE DEF first, then
  <2>5. items \in Seq(S) /\ \A x \in S : x.do \in Submitters
    BY <2>3, <2>4 DEF Submitters
  <2> HIDE DEF items, S
  <2>6. CASE Then(r, items)
    <3>1. notes'[r].made = l.made /\ Goes(r, items)
      BY <2>6 DEF Then
    <3>2. AllItems(jobs'[r]) \subseteq S \cup AllItems(js)
      BY <1>1, <2>5, <3>1, LeftToDo
    <3> QED BY <1>3, <2>1, <2>5, <3>1, <3>2
  <2> QED BY <1>4, <1>6, <2>1, <2>2, <2>6
\* A directory of the manifest that files may go into.
<1>15. ASSUME i.do \in {"make_dir", "reparent"}, NEW path PROVE Fine(files, ParentID(r, path))
  <2>1. <<>> \in DOMAIN l.made
    BY <1>10, <1>15 DEF Good, Special
  <2>2. \A p \in DOMAIN l.made : LiveIn(files, l.made[p])
    BY DEF Submitting
  <2> QED BY <2>1, <2>2 DEF ParentID, Fine
<1>16. CASE Reparent(r)
  <2> DEFINE f == i.id to == ParentID(r, i.arg)
  <2>1. files' = ReparentFile(f, to, i.arg) /\ Done(r) /\ i.do = "reparent"
    BY <1>16 DEF Reparent, FilesOnly, At
  <2>2. CASE f \notin DOMAIN files
    <3>1. files' = files
      BY <2>1, <2>2 DEF ReparentFile
    <3> QED BY <1>4, <1>6, <2>1, <3>1
  <2>3. CASE f \in DOMAIN files
    <3> DEFINE row == [files[f] EXCEPT !.parent = to, !.path = i.arg]
    <3>1. files' = Updated(f, row)
      BY <2>1, <2>3 DEF ReparentFile
    <3>2. row.parent = to /\ row.trashed = files[f].trashed
      <4>1. ASSUME NEW new, new = row PROVE new.parent = to /\ new.trashed = files[f].trashed
        <5>1. IsRow(files[f])
          BY <2>3 DEF Fits, TableFits, RowFits
        <5> HIDE DEF to, f, i
        <5> QED BY <4>1, <5>1 DEF IsRow, row
      <4> QED BY <4>1
    <3> HIDE DEF row
    <3>3. Fine(files, to)
      BY <1>15, <2>1
    <3> HIDE DEF to, f
    <3>4. Upright(files') /\ \A p : LiveIn(files', p) <=> LiveIn(files, p)
      BY <2>3, <3>1, <3>2, <3>3, MovedIsUpright
    <3> DEFINE S == {}
    <3>5. /\ AllItems(jobs'[r]) \subseteq S \cup AllItems(js) /\ \A x \in S : x.do \in Submitters
          /\ notes'[r].made = l.made
      BY <1>6, <2>1
    <3> HIDE DEF S
    <3>6. Submitting(files', notes'[r], jobs'[r])
      BY <1>1, <3>4, <3>5, SubmittingOn
    <3> QED BY <3>4, <3>6
  <2> QED BY <2>2, <2>3
<1>17. CASE MakeDir(r)
  <2> DEFINE path == i.arg parent == ParentID(r, path) S == {}
  <2>1. /\ Insert(NewDir(q.space, parent, Last(path), path)) /\ Goes(r, <<>>)
        /\ notes' = [notes EXCEPT ![r] = Made(r, path)] /\ i.do = "make_dir"
    BY <1>17 DEF MakeDir, ThenNoting, At
  <2>2. Fine(files, parent)
    BY <1>15, <2>1
  <2>3. AllItems(jobs'[r]) \subseteq S \cup AllItems(js) /\ \A x \in S : x.do \in Submitters
    BY <1>1, <2>1, LeftToDo
  <2> HIDE DEF path, parent, S
  <2> QED BY <1>1, <2>1, <2>2, <2>3, MadeIsLive
<1>18. CASE MakeRoot(r)
  <2> DEFINE dirs == Each(DirPaths(q.arg), LAMBDA p : ItemFor("make_dir", 0, p))
             those == Each(q.arg, LAMBDA e : ItemFor("adopt", e.file, e.path))
             items == dirs \o those
             D == {ItemFor("make_dir", 0, p) : p \in Seq(Nat)}
             A == {ItemFor("adopt", e.file, e.path) : e \in [path : Seq(Nat), file : Nat]}
             S == D \cup A
  <2>1. /\ Insert(NewDir(q.space, None, DirName(q), <<>>)) /\ Goes(r, items)
        /\ notes' = [notes EXCEPT ![r] = Made(r, <<>>)] /\ i.do = "make_root"
    BY <1>18 DEF MakeRoot, ThenNoting, At
  <2>2. q.arg \in Seq([path : Seq(Nat), file : Nat])
    BY <1>1, <2>1, ValidatingWorks
  <2>3. dirs \in Seq(S)
    <3> DEFINE paths == DirPaths(q.arg) Dirs == Seq(Nat) \ {<<>>}
    <3>1. paths \in Seq(Dirs)
      BY <2>2, DirPathsAreListed
    <3>2. \A p \in Dirs : ItemFor("make_dir", 0, p) \in S
      OBVIOUS
    <3> HIDE DEF paths, Dirs, S
    <3>3. Each(paths, LAMBDA p : ItemFor("make_dir", 0, p)) \in Seq(S)
      BY <3>1, <3>2 DEF Each
    <3> QED BY <3>3 DEF paths
  <2>4. those \in Seq(S)
    <3> DEFINE E == [path : Seq(Nat), file : Nat] entries == q.arg
    <3>1. \A e \in E : ItemFor("adopt", e.file, e.path) \in S
      OBVIOUS
    <3> HIDE DEF E, S, entries
    <3>2. entries \in Seq(E)
      BY <2>2 DEF E, entries
    <3>3. Each(entries, LAMBDA e : ItemFor("adopt", e.file, e.path)) \in Seq(S)
      BY <3>1, <3>2 DEF Each
    <3> QED BY <3>3 DEF entries
  <2>5. \A x \in S : x.do \in Submitters
    <3>1. \A x \in D : x.do = "make_dir"
      BY ItemsAreItems
    <3>2. \A x \in A : x.do = "adopt"
      BY ItemsAreItems
    <3> HIDE DEF D, A
    <3> QED BY <3>1, <3>2 DEF Submitters
  <2> HIDE DEF dirs, those, S
  <2>6. items \in Seq(S)
    BY <2>3, <2>4
  <2> HIDE DEF items
  <2>7. AllItems(jobs'[r]) \subseteq S \cup AllItems(js)
    BY <1>1, <2>1, <2>6, LeftToDo
  <2>8. Fine(files, None)
    BY DEF Fine
  <2> QED BY <1>1, <2>1, <2>5, <2>7, <2>8, MadeIsLive
<1> QED BY <1>8, <1>11, <1>12, <1>13, <1>14, <1>16, <1>17, <1>18

-----------------------------------------------------------------------------
(* Restores and purges.                                                    *)

\* The first of the jobs is the one that the worker is at, the others have
\* not begun.
LEMMA FirstJob ==
  ASSUME NEW K, Fits(K), NEW r \in Workers, jobs[r] # <<>>,
         NEW faults, NEW l, Purging(files, faults, l, jobs[r])
  PROVE  LET J == Head(jobs[r]) IN
         /\ J \in Seq(AllItems(jobs[r])) /\ J # <<>> /\ Len(J) \in Nat \ {0} /\ J[1] = Now(r)
         /\ Now(r).do \in Purgers => Fresh(J)
         /\ Now(r).do \in Enders => Ending(files, l, J)
         /\ Now(r).do \in Undoers => faults = 0 /\ PuttingBack(files, J)
         /\ \A m \in DOMAIN jobs[r] \ {1} : Fresh(jobs[r][m])
<1> DEFINE js == jobs[r] J == Head(js) T == AllItems(js)
<1>1. JobsOf(js, T) /\ js # <<>> /\ Now(r) = Head(J)
  BY JobsAreJobs DEF Now
<1>2. J \in Seq(T) \ {<<>>} /\ J = js[1] /\ 1 \in DOMAIN js
  BY <1>1, TailJobs
<1>3. \/ Fresh(J) \/ Ending(files, l, J) \/ (faults = 0 /\ PuttingBack(files, J))
  BY <1>2 DEF Purging
<1>4. \A m \in DOMAIN js \ {1} : Fresh(js[m])
  BY DEF Purging
<1> HIDE DEF J, T
<1>5. Len(J) \in Nat \ {0} /\ J[1] = Now(r) /\ 1 \in 1 .. Len(J)
  BY <1>1, <1>2
<1>6. /\ Fresh(J) => Now(r).do \in Purgers
      /\ Ending(files, l, J) => Now(r).do \in Enders
      /\ PuttingBack(files, J) => Now(r).do \in Undoers
  BY <1>5 DEF Fresh, Ending, PuttingBack
<1>7. Purgers \cap Enders = {} /\ Purgers \cap Undoers = {} /\ Enders \cap Undoers = {}
  BY DEF Purgers, Enders, Undoers
<1> QED BY <1>2, <1>3, <1>4, <1>5, <1>6, <1>7 DEF J, T

LEMMA PurgingOn ==
  ASSUME NEW K, Fits(K), NEW r \in Workers, jobs[r] # <<>>,
         NEW faults, NEW l, Purging(files, faults, l, jobs[r]),
         NEW faults2, NEW l2, NEW rows2
  PROVE  /\ \A code : Fail(r, code) => Purging(rows2, faults2, l2, jobs'[r])
         /\ \A T : \A items \in Seq(T) :
              LET J2 == items \o Tail(Head(jobs[r])) IN
              Goes(r, items) /\ (Ending(rows2, l2, J2) \/ (faults2 = 0 /\ PuttingBack(rows2, J2)))
                => Purging(rows2, faults2, l2, jobs'[r])
<1> DEFINE js == jobs[r] S == AllItems(js)
<1>1. JobsOf(js, S) /\ js # <<>>
  BY JobsAreJobs
<1>2. \A m \in DOMAIN js \ {1} : Fresh(js[m])
  BY FirstJob
<1>3. ASSUME NEW code, Fail(r, code) PROVE Purging(rows2, faults2, l2, jobs'[r])
  <2>1. jobs'[r] = Tail(js)
    BY <1>3, StepLeaves
  <2> HIDE DEF js, S
  <2>2. \A k \in DOMAIN Tail(js) : \E m \in DOMAIN js \ {1} : Tail(js)[k] = js[m]
    BY <1>1, TailJobs
  <2>3. ASSUME NEW k \in DOMAIN Tail(js) PROVE Fresh(Tail(js)[k])
    <3>1. PICK m \in DOMAIN js \ {1} : Tail(js)[k] = js[m]
      BY <2>2, <2>3
    <3> QED BY <1>2, <3>1
  <2> QED BY <2>1, <2>3 DEF Purging
<1>4. ASSUME NEW T, NEW items \in Seq(T), Goes(r, items), NEW J2, J2 = items \o Tail(Head(js)),
             Ending(rows2, l2, J2) \/ (faults2 = 0 /\ PuttingBack(rows2, J2))
      PROVE  Purging(rows2, faults2, l2, jobs'[r])
  <2> DEFINE U == T \cup S
  <2>1. JobsOf(js, U)
    BY <1>1, JobsOfMore
  <2>2. items \in Seq(U)
    OBVIOUS
  <2>3. jobs'[r] = After(js, items)
    BY <1>4, StepLeaves
  <2> HIDE DEF U, js
  <2>4. ASSUME NEW k \in DOMAIN After(js, items)
        PROVE  (k = 1 /\ After(js, items)[k] = J2) \/ Fresh(After(js, items)[k])
    <3>1. \/ k = 1 /\ After(js, items)[k] = items \o Tail(Head(js))
          \/ \E m \in DOMAIN js \ {1} : After(js, items)[k] = js[m]
      BY <1>1, <2>1, <2>2, <2>4, AfterJobs
    <3> QED BY <1>2, <1>4, <3>1
  <2> QED BY <1>4, <2>3, <2>4 DEF Purging
<1> QED BY <1>3, <1>4

\* J2 is J with items in the place of its first.
Splices(J2, items, J) ==
  LET n == Len(items) IN
  /\ n \in Nat /\ Len(J) \in Nat \ {0} /\ Len(J2) = n + Len(J) - 1
  /\ \A x \in 1 .. n : J2[x] = items[x]
  /\ \A m \in 2 .. Len(J) : J2[n + m - 1] = J[m]
  /\ \A x \in 1 .. Len(J2) : x \in 1 .. n \/ \E m \in 2 .. Len(J) : x = n + m - 1

\* An item is done, and what it leads to neither deletes rows nor brings them
\* back: what the rest relies on is still there.
Survives(rows, rows2, i) ==
  /\ \A f \in DOMAIN rows2 : f \in DOMAIN rows /\ rows2[f].parent = rows[f].parent
  /\ \A f \in DOMAIN rows : (Doomed(i) /\ f = i.id) \/ f \in DOMAIN rows2
  /\ \A f : LiveIn(rows, f) => (Doomed(i) /\ f = i.id) \/ LiveIn(rows2, f)
  /\ i.do # "untrash" => \A p : Kids(rows2, p) \subseteq Kids(rows, p)
  /\ i.do = "untrash" => LiveIn(rows2, i.id)
  /\ Doomed(i) => i.id \notin DOMAIN rows2

Plain(i) == i.do \in Enders \ {"untrash", "del_list", "del_row"}

LEMMA RevivingOn ==
  ASSUME NEW rows, NEW rows2, NEW J, NEW J2, NEW items, Splices(J2, items, J),
         \A x \in 1 .. Len(items) : Plain(items[x]), J[1].do = "untrash" => Len(items) = 0,
         Survives(rows, rows2, J[1]), Reviving(rows, J)
  PROVE  Reviving(rows2, J2)
<1> DEFINE n == Len(items)
<1>1. ASSUME NEW x \in 1 .. Len(J2), J2[x].do = "untrash"
      PROVE  \E m \in 2 .. Len(J) : x = m - 1 /\ J[m].do = "untrash" /\ n = 0 /\ J[1].do = "untrash"
                                    /\ J2[x] = J[m]
  <2>1. PICK m \in 2 .. Len(J) : x = n + m - 1 /\ J2[x] = J[m]
    BY <1>1 DEF Splices, Plain
  <2>2. m \in 1 .. Len(J) /\ 1 \in 1 .. m - 1
    BY DEF Splices
  <2>3. J[1].do = "untrash"
    BY <1>1, <2>1, <2>2 DEF Reviving
  <2>4. n = 0
    BY <2>3
  <2> QED BY <1>1, <2>1, <2>3, <2>4
<1>2. ASSUME NEW x \in 1 .. Len(J2), J2[x].do = "untrash"
      PROVE  /\ \A y \in 1 .. x - 1 : J2[y].do = "untrash"
             /\ J2[x].id \in DOMAIN rows2 =>
                  \/ Fine(rows2, rows2[J2[x].id].parent)
                  \/ \E y \in 1 .. x - 1 : J2[y].id = rows2[J2[x].id].parent
  <2>1. PICK m \in 2 .. Len(J) : x = m - 1 /\ J[m].do = "untrash" /\ n = 0 /\ J[1].do = "untrash"
                                 /\ J2[x] = J[m]
    BY <1>1, <1>2
  <2>2. m \in 1 .. Len(J) /\ \A y \in 1 .. x - 1 : y + 1 \in 2 .. Len(J) /\ y + 1 \in 1 .. m - 1 /\ J2[y] = J[y + 1]
    <3>1. \A k \in 2 .. Len(J) : J2[k - 1] = J[k]
      BY <2>1 DEF Splices
    <3>2. ASSUME NEW y \in 1 .. x - 1 PROVE y + 1 \in 2 .. Len(J) /\ y + 1 \in 1 .. m - 1 /\ y + 1 - 1 = y
      BY <2>1, <3>2 DEF Splices
    <3>3. m \in 1 .. Len(J)
      BY DEF Splices
    <3> QED BY <3>1, <3>2, <3>3
  <2>3. \A y \in 1 .. m - 1 : J[y].do = "untrash"
    BY <2>1, <2>2 DEF Reviving
  <2>4. \A y \in 1 .. x - 1 : J2[y].do = "untrash"
    BY <2>2, <2>3
  <2>5. ASSUME J2[x].id \in DOMAIN rows2
        PROVE  \/ Fine(rows2, rows2[J2[x].id].parent)
               \/ \E y \in 1 .. x - 1 : J2[y].id = rows2[J2[x].id].parent
    <3> DEFINE f == J[m].id p == rows[f].parent
    <3>1. f \in DOMAIN rows /\ rows2[f].parent = p
      BY <2>1, <2>5 DEF Survives
    <3>2. Fine(rows, p) \/ \E y \in 1 .. m - 1 : J[y].id = p
      BY <2>1, <2>2, <3>1 DEF Reviving
    <3> HIDE DEF f, p
    <3>3. ASSUME Fine(rows, p) PROVE Fine(rows2, p)
      <4>1. ~Doomed(J[1])
        BY <2>1 DEF Doomed
      <4> QED BY <3>3, <4>1 DEF Fine, Survives
    <3>4. ASSUME NEW y \in 1 .. m - 1, J[y].id = p
          PROVE  Fine(rows2, p) \/ \E z \in 1 .. x - 1 : J2[z].id = p
      <4>1. CASE y = 1
        BY <2>1, <3>4, <4>1 DEF Survives, Fine
      <4>2. CASE y # 1
        <5>1. y - 1 \in 1 .. x - 1 /\ (y - 1) + 1 = y
          BY <2>1, <3>4, <4>2 DEF Splices
        <5>2. J2[y - 1] = J[y]
          BY <2>2, <5>1
        <5> QED BY <3>4, <5>1, <5>2
      <4> QED BY <4>1, <4>2
    <3>5. Fine(rows2, p) \/ \E z \in 1 .. x - 1 : J2[z].id = p
      BY <3>2, <3>3, <3>4
    <3> QED BY <2>1, <3>1, <3>5 DEF f
  <2> QED BY <2>4, <2>5
<1> QED BY <1>2 DEF Reviving

\* Positions after the items put in.
LEMMA Shifted ==
  ASSUME NEW J, NEW J2, NEW items, Splices(J2, items, J), NEW m \in 2 .. Len(J)
  PROVE  m \in 1 .. Len(J) /\ Len(items) + m - 1 \in 1 .. Len(J2) /\ J2[Len(items) + m - 1] = J[m]
BY DEF Splices

LEMMA Later ==
  ASSUME NEW J, NEW J2, NEW items, Splices(J2, items, J), NEW m \in 2 .. Len(J)
  PROVE  /\ m \in 1 .. Len(J) /\ Len(items) + m - 1 \in 1 .. Len(J2) /\ J2[Len(items) + m - 1] = J[m]
         /\ \A y \in 1 .. m - 1 : y = 1 \/ (y \in 2 .. Len(J) /\ Len(items) + y - 1 \in 1 .. Len(items) + m - 1 - 1)
         /\ \A y \in m + 1 .. Len(J) :
              y \in 2 .. Len(J) /\ Len(items) + y - 1 \in Len(items) + m - 1 + 1 .. Len(J2)
BY DEF Splices

LEMMA FellingOn ==
  ASSUME NEW rows, NEW rows2, NEW J, NEW J2, NEW items, Splices(J2, items, J),
         \A x \in 1 .. Len(items) : Plain(items[x]), J[1].do # "del_list",
         Survives(rows, rows2, J[1]), Reviving(rows, J),
         NEW U \in SUBSET DOMAIN rows, Apex(rows, U), Felling(rows, J, U)
  PROVE  U \in SUBSET DOMAIN rows2 /\ Apex(rows2, U) /\ Felling(rows2, J2, U)
<1> DEFINE n == Len(items) e == J[1].id
<1>0. \A m \in 2 .. Len(J) : n + m - 1 \in 1 .. Len(J2) /\ J2[n + m - 1] = J[m]
  BY Shifted
<1>1. 1 \in 1 .. Len(J) /\ n \in Nat
  BY DEF Splices
<1>2. Doomed(J[1]) => e \notin U
  BY <1>1 DEF Felling, Leaving
<1>3. \A g \in U : LiveIn(rows2, g) /\ rows2[g].parent = rows[g].parent
  <2>1. ASSUME NEW g \in U PROVE LiveIn(rows2, g)
    BY <1>2, <2>1 DEF Apex, Survives
  <2>2. ASSUME NEW g \in U PROVE rows2[g].parent = rows[g].parent
    BY <2>1 DEF LiveIn, Survives
  <2> QED BY <2>1, <2>2
<1>4. U \in SUBSET DOMAIN rows2 /\ Apex(rows2, U)
  BY <1>3 DEF Apex, LiveIn
\* What is doomed was so before.
<1>5. ASSUME NEW x \in 1 .. Len(J2), Doomed(J2[x])
      PROVE  \E m \in 2 .. Len(J) : x = n + m - 1 /\ J2[x] = J[m]
  BY <1>5 DEF Splices, Plain, Doomed
<1>6. Once(J2)
  <2>1. ASSUME NEW x \in 1 .. Len(J2), NEW y \in 1 .. Len(J2), Doomed(J2[x]), Doomed(J2[y]), J2[x].id = J2[y].id
        PROVE  x = y
    <3>1. PICK m \in 2 .. Len(J) : x = n + m - 1 /\ J2[x] = J[m]
      BY <1>5, <2>1
    <3>2. PICK k \in 2 .. Len(J) : y = n + k - 1 /\ J2[y] = J[k]
      BY <1>5, <2>1
    <3>3. m \in 1 .. Len(J) /\ k \in 1 .. Len(J)
      BY Later
    <3>4. m = k
      BY <2>1, <3>1, <3>2, <3>3 DEF Felling, Once
    <3> QED BY <3>1, <3>2, <3>4
  <2> QED BY <2>1 DEF Once
<1>7. ASSUME NEW m \in 2 .. Len(J), Doomed(J[m]) PROVE ~(Doomed(J[1]) /\ J[m].id = e)
  <2>1. m \in 1 .. Len(J) /\ m # 1
    BY Later, <1>1
  <2> QED BY <1>1, <1>7, <2>1 DEF Felling, Once
<1>8. ASSUME NEW x \in 1 .. Len(J2), Doomed(J2[x]) PROVE Leaving(rows2, U, J2, x)
  <2>1. PICK m \in 2 .. Len(J) : x = n + m - 1 /\ J2[x] = J[m]
    BY <1>5, <1>8
  <2> DEFINE f == J[m].id row == J[m].arg
  <2>2. m \in 1 .. Len(J) /\ Leaving(rows, U, J, m) /\ ~(Doomed(J[1]) /\ f = e)
    BY <1>7, <1>8, <2>1, Later DEF Felling
  <2>3. f \in DOMAIN rows2 /\ f \notin U /\ rows2[f].parent = row.parent
    BY <2>2 DEF Leaving, Survives
  <2>4. J[m].do = "del_list" => row.space = J[m].at
    BY <2>2 DEF Leaving
  <2>5. LiveIn(rows2, f) \/ \E y \in 1 .. Len(J2) : J2[y].do = "untrash" /\ J2[y].id = f
    <3>1. LiveIn(rows, f) => LiveIn(rows2, f)
      BY <2>2 DEF Survives
    <3>2. ASSUME NEW y \in 1 .. Len(J), J[y].do = "untrash", J[y].id = f
          PROVE  LiveIn(rows2, f) \/ \E z \in 1 .. Len(J2) : J2[z].do = "untrash" /\ J2[z].id = f
      <4>1. CASE y = 1
        BY <3>2, <4>1 DEF Survives
      <4>2. CASE y # 1
        <5>1. y \in 2 .. Len(J)
          BY <1>1, <3>2, <4>2 DEF Splices
        <5>2. n + y - 1 \in 1 .. Len(J2) /\ J2[n + y - 1] = J[y]
          BY <1>0, <5>1
        <5> QED BY <3>2, <5>2
      <4> QED BY <4>1, <4>2
    <3>3. LiveIn(rows, f) \/ \E y \in 1 .. Len(J) : J[y].do = "untrash" /\ J[y].id = f
      BY <2>2 DEF Leaving
    <3> QED BY <3>1, <3>2, <3>3
  <2>6. \/ row.parent = None \/ row.parent \in U
        \/ \E y \in x + 1 .. Len(J2) : J2[y].do = "del_row" /\ J2[y].id = row.parent
    <3>1. ASSUME NEW y \in m + 1 .. Len(J), J[y].do = "del_row", J[y].id = row.parent
          PROVE  \E z \in x + 1 .. Len(J2) : J2[z].do = "del_row" /\ J2[z].id = row.parent
      <4>1. y \in 2 .. Len(J) /\ n + y - 1 \in x + 1 .. Len(J2)
        BY <2>1, Later
      <4>2. J2[n + y - 1] = J[y]
        BY <1>0, <4>1
      <4> QED BY <3>1, <4>1, <4>2
    <3> QED BY <2>2, <3>1 DEF Leaving
  <2> HIDE DEF Doomed
  <2> QED BY <2>1, <2>3, <2>4, <2>5, <2>6 DEF Leaving
<1>9. ASSUME NEW x \in 1 .. Len(J2), J2[x].do = "del_row", J2[x].arg.dir PROVE Emptied(rows2, J2, x)
  <2>1. PICK m \in 2 .. Len(J) : x = n + m - 1 /\ J2[x] = J[m]
    BY <1>5, <1>9 DEF Doomed
  <2>2. m \in 1 .. Len(J) /\ Emptied(rows, J, m)
    BY <1>9, <2>1, Later DEF Felling
  <2>3. J[1].do # "untrash"
    BY <2>2 DEF Emptied
  <2>4. J2[1].do # "untrash"
    <3>1. CASE 1 \in 1 .. n
      BY <3>1 DEF Splices, Plain
    <3>2. CASE 1 \notin 1 .. n
      <4>1. n = 0 /\ 2 \in 2 .. Len(J) /\ 2 \in 1 .. Len(J) /\ 1 \in 1 .. 2 - 1 /\ n + 2 - 1 = 1
        BY <1>1, <2>1, <3>2 DEF Splices
      <4>2. J2[1] = J[2]
        BY <4>1, Shifted
      <4> QED BY <2>3, <4>1, <4>2 DEF Reviving
    <3> QED BY <3>1, <3>2
  <2>5. ASSUME NEW g \in Kids(rows2, J[m].id) PROVE \E y \in 1 .. x - 1 : Doomed(J2[y]) /\ J2[y].id = g
    <3>1. g \in Kids(rows, J[m].id) /\ g \in DOMAIN rows2
      BY <2>3 DEF Survives, Kids
    <3>2. PICK y \in 1 .. m - 1 : Doomed(J[y]) /\ J[y].id = g
      BY <2>2, <3>1 DEF Emptied
    <3>3. y # 1
      BY <3>1, <3>2 DEF Survives
    <3>4. y \in 2 .. Len(J) /\ n + y - 1 \in 1 .. x - 1
      BY <2>1, <3>2, <3>3, Later
    <3>5. J2[n + y - 1] = J[y]
      BY <1>0, <3>4
    <3> QED BY <3>2, <3>4, <3>5
  <2> QED BY <2>1, <2>4, <2>5 DEF Emptied
<1> QED BY <1>4, <1>6, <1>8, <1>9 DEF Felling

LEMMA SplicedJobs ==
  ASSUME NEW T, NEW items \in Seq(T), NEW J \in Seq(T), J # <<>>
  PROVE  Splices(items \o Tail(J), items, J)
<1> DEFINE J2 == items \o Tail(J) n == Len(items)
<1>1. n \in Nat /\ Len(J) \in Nat \ {0} /\ Len(J2) = n + Len(J) - 1
  BY Joined
<1>2. \A x \in 1 .. n : J2[x] = items[x]
  BY Joined
<1>3. \A m \in 2 .. Len(J) : J2[n + m - 1] = J[m]
  BY Joined
<1>4. \A x \in 1 .. Len(J2) : x \in 1 .. n \/ \E m \in 2 .. Len(J) : x = n + m - 1
  BY Joined
<1> HIDE DEF J2
<1>5. Splices(J2, items, J)
  BY <1>1, <1>2, <1>3, <1>4 DEF Splices
<1> QED BY <1>5 DEF J2

LEMMA EndingOn ==
  ASSUME NEW rows, NEW rows2, NEW J, NEW J2, NEW items, Splices(J2, items, J),
         \A x \in 1 .. Len(items) : Plain(items[x]) /\ (items[x].do \in Deletion => J[1].do \in Deletion),
         J[1].do # "del_list", J[1].do = "untrash" => Len(items) = 0,
         Survives(rows, rows2, J[1]), NEW l, NEW l2, Ending(rows, l, J),
         (\E x \in 1 .. Len(J) : J[x].do \in Deletion) => Undone(rows2, l2.undo),
         J[1].do = "untrash" => l2.undo = l.undo
  PROVE  Ending(rows2, l2, J2)
<1> DEFINE n == Len(items)
<1>1. Reviving(rows, J) /\ \A x \in 1 .. Len(J) : J[x].do \in Enders
  BY DEF Ending
<1>2. PICK U \in SUBSET DOMAIN rows : Apex(rows, U) /\ Felling(rows, J, U)
  BY DEF Ending
<1>3. Reviving(rows2, J2)
  BY <1>1, RevivingOn
<1>4. U \in SUBSET DOMAIN rows2 /\ Apex(rows2, U) /\ Felling(rows2, J2, U)
  BY <1>1, <1>2, FellingOn
<1>5. ASSUME NEW x \in 1 .. Len(J2) PROVE x \in 1 .. n \/ \E m \in 1 .. Len(J) : J2[x] = J[m]
  <2>1. ASSUME NEW m \in 2 .. Len(J), x = n + m - 1 PROVE m \in 1 .. Len(J) /\ J2[x] = J[m]
    BY <2>1, Shifted
  <2>2. x \in 1 .. n \/ \E m \in 2 .. Len(J) : x = n + m - 1
    BY <1>5 DEF Splices
  <2> HIDE DEF n
  <2> QED BY <2>1, <2>2
<1>6. ASSUME NEW x \in 1 .. n PROVE J2[x] = items[x]
  BY <1>6 DEF Splices
<1>7. 1 \in 1 .. Len(J)
  BY DEF Splices
<1>8. ASSUME NEW x \in 1 .. Len(J2) PROVE J2[x].do \in Enders
  BY <1>1, <1>5, <1>6 DEF Plain
<1>9. ASSUME NEW x \in 1 .. Len(J2), J2[x].do \in Deletion
      PROVE  \E m \in 1 .. Len(J) : J[m].do \in Deletion
  BY <1>5, <1>6, <1>7, <1>9
<1>10. ASSUME J2[1].do = "untrash", NEW x \in 1 .. Len(J2), J2[x].do \in Deletion
       PROVE  l2.undo = <<>>
  <2>1. n \in Nat /\ 1 \in 1 .. Len(J2)
    BY <1>10 DEF Splices
  <2>2. n = 0
    <3>1. 1 \notin 1 .. n
      BY <1>6, <1>10 DEF Plain
    <3> QED BY <2>1, <3>1
  <2>3. PICK m \in 2 .. Len(J) : 1 = n + m - 1
    BY <2>1, <2>2 DEF Splices
  <2>4. J2[1] = J[m] /\ m \in 1 .. Len(J) /\ 1 \in 1 .. m - 1
    BY <2>1, <2>2, <2>3, Shifted
  <2>5. J[1].do = "untrash"
    BY <1>1, <1>10, <2>4 DEF Reviving
  <2>6. \E k \in 1 .. Len(J) : J[k].do \in Deletion
    BY <1>9, <1>10
  <2> QED BY <2>5, <2>6 DEF Ending
<1>11. \E V \in SUBSET DOMAIN rows2 : Apex(rows2, V) /\ Felling(rows2, J2, V)
  BY <1>4
<1> HIDE DEF n
<1> QED BY <1>3, <1>8, <1>9, <1>10, <1>11 DEF Ending

LEMMA EndingGoesOn ==
  ASSUME NEW K, Fits(K), NEW r \in Workers, jobs[r] # <<>>, NEW faults,
         Purging(files, faults, notes[r], jobs[r]),
         Now(r).do \in Enders, Now(r).do # "del_list", NEW T, NEW items \in Seq(T), Goes(r, items),
         \A x \in 1 .. Len(items) : Plain(items[x]) /\ (items[x].do \in Deletion => Now(r).do \in Deletion),
         Now(r).do = "untrash" => Len(items) = 0,
         NEW rows2, NEW l2, NEW faults2, Survives(files, rows2, Now(r)),
         (\E x \in 1 .. Len(Head(jobs[r])) : Head(jobs[r])[x].do \in Deletion) => Undone(rows2, l2.undo),
         Now(r).do = "untrash" => l2.undo = notes[r].undo
  PROVE  Purging(rows2, faults2, l2, jobs'[r])
<1> DEFINE J == Head(jobs[r]) S == AllItems(jobs[r]) U == T \cup S J2 == items \o Tail(J)
<1>1. J \in Seq(S) /\ J # <<>> /\ J[1] = Now(r) /\ Ending(files, notes[r], J)
  BY FirstJob
<1> HIDE DEF J, S
<1>2. items \in Seq(U) /\ J \in Seq(U)
  BY <1>1
<1> HIDE DEF U
<1>3. Splices(J2, items, J)
  BY <1>1, <1>2, SplicedJobs
<1> HIDE DEF J2
<1>4. (\E x \in 1 .. Len(J) : J[x].do \in Deletion) => Undone(rows2, l2.undo)
  BY DEF J
<1>5. Ending(rows2, l2, J2)
  BY <1>1, <1>3, <1>4, EndingOn
<1> QED BY <1>5, PurgingOn DEF J2, J

\* The rows are as they were: what can be undone, too.
LEMMA NothingLost ==
  ASSUME NEW i, ~Doomed(i), i.do # "untrash"
  PROVE  \A rows : Survives(rows, rows, i)
BY DEF Survives, Doomed

\* The rest of the undo stack.
LEMMA MoreUndone ==
  ASSUME NEW K, NEW q, NEW l, LocalsFit(K, q, l), NEW i, NEW rows, Undone(rows, l.undo), i.do # "undo_put"
  PROVE  Undone(rows, Append(l.undo, i))
<1> DEFINE undo == l.undo more == Append(undo, i) n == Len(undo)
<1>1. undo \in Seq(Range(undo))
  BY DEF LocalsFit, IsList
<1> HIDE DEF undo
<1>2. /\ n \in Nat /\ Len(more) = n + 1 /\ more[n + 1] = i
      /\ \A a \in 1 .. n : more[a] = undo[a]
  BY <1>1
<1> HIDE DEF more, n
<1>3. ASSUME NEW a \in 1 .. Len(more), more[a].do = "undo_put"
      PROVE  /\ more[a].id \notin DOMAIN rows
             /\ \/ Fine(rows, more[a].arg.parent)
                \/ \E b \in a + 1 .. Len(more) : more[b].do = "undo_put" /\ more[b].id = more[a].arg.parent
  <2>1. a \in 1 .. Len(undo) /\ more[a] = undo[a]
    BY <1>2, <1>3 DEF n
  <2>2. /\ undo[a].id \notin DOMAIN rows
        /\ \/ Fine(rows, undo[a].arg.parent)
           \/ \E b \in a + 1 .. Len(undo) : undo[b].do = "undo_put" /\ undo[b].id = undo[a].arg.parent
    BY <1>3, <2>1 DEF Undone, undo
  <2>3. \A b \in a + 1 .. Len(undo) : b \in a + 1 .. Len(more) /\ more[b] = undo[b]
    BY <1>2, <2>1 DEF n
  <2> QED BY <2>1, <2>2, <2>3
<1>4. Undone(rows, more)
  BY <1>3 DEF Undone
<1> QED BY <1>4 DEF more, undo

LEMMA ReferenceGoesOn ==
  ASSUME NEW K, Fits(K), NEW r \in Workers, NEW faults, Purging(files, faults, notes[r], jobs[r]),
         DeleteReference(r) \/ DeleteCount(r) \/ DeferUnlink(r) \/ UnlinkPending(r)
  PROVE  files' = files /\ Purging(files', faults, notes'[r], jobs'[r])
<1> DEFINE i == Now(r) l == notes[r] J == Head(jobs[r])
<1>1. jobs[r] # <<>> /\ i.do \in {"del_ref", "del_count", "del_blob", "unlink"} /\ files' = files
  BY DEF DeleteReference, DeleteCount, DeferUnlink, UnlinkPending, At, Read, tableVars, BlobsOnly, ObjectsOnly
<1>2. /\ i.do \in Enders /\ i.do # "del_list" /\ i.do # "untrash" /\ Plain(i)
      /\ Survives(files, files, i) /\ IsItem(i) /\ LocalsFit(K, request[r], l)
  <2>1. i.do \in Enders /\ i.do # "del_list" /\ i.do # "untrash" /\ Plain(i) /\ ~Doomed(i)
    BY <1>1 DEF Enders, Plain, Doomed
  <2>2. IsItem(i) /\ LocalsFit(K, request[r], l)
    BY <1>1, PlainWorks DEF Good, Special
  <2>3. Survives(files, files, i)
    BY <2>1, NothingLost
  <2> QED BY <2>1, <2>2, <2>3
<1>3. Ending(files, l, J)
  BY <1>1, <1>2, FirstJob
<1>4. notes = [s \in Workers |-> notes[s]]
  BY DEF Fits, WorkFits
\* It goes on with some plain items, and undoes no less.
<1>5. ASSUME NEW T, NEW items \in Seq(T), Goes(r, items), \A x \in 1 .. Len(items) : Plain(items[x]),
             \A x \in 1 .. Len(items) : items[x].do \in Deletion => i.do \in Deletion,
             Undone(files, l.undo) => Undone(files, notes'[r].undo)
      PROVE  Purging(files', faults, notes'[r], jobs'[r])
  <2> DEFINE l2 == notes'[r]
  <2>1. (\E x \in 1 .. Len(J) : J[x].do \in Deletion) => Undone(files, l2.undo)
    BY <1>3, <1>5 DEF Ending
  <2> HIDE DEF l2
  <2>2. Purging(files, faults, l2, jobs'[r])
    BY <1>1, <1>2, <1>5, <2>1, EndingGoesOn
  <2> QED BY <1>1, <2>2 DEF l2
<1>6. ASSUME Goes(r, <<>>), Undone(files, l.undo) => Undone(files, notes'[r].undo)
      PROVE  Purging(files', faults, notes'[r], jobs'[r])
  <2> DEFINE items == <<>> T == {}
  <2>1. items \in Seq(T) /\ Goes(r, items) /\ Len(items) = 0
    BY <1>6
  <2> HIDE DEF items, T
  <2>2. \A x \in 1 .. Len(items) : FALSE
    BY <2>1
  <2> QED BY <1>5, <1>6, <2>1, <2>2
<1>7. ASSUME NEW x, Goes(r, <<x>>), Plain(x), x.do \in Deletion => i.do \in Deletion,
             Undone(files, l.undo) => Undone(files, notes'[r].undo)
      PROVE  Purging(files', faults, notes'[r], jobs'[r])
  <2> DEFINE items == <<x>> T == {x}
  <2>1. items \in Seq(T) /\ Goes(r, items) /\ Len(items) = 1 /\ items[1] = x
    BY <1>7
  <2> HIDE DEF items, T, i
  <2>2. \A y \in 1 .. Len(items) : items[y] = x
    BY <2>1
  <2> QED BY <1>5, <1>7, <2>1, <2>2
<1>8. CASE DeleteReference(r)
  <2> DEFINE x == [i EXCEPT !.do = "del_count"]
  <2>1. Goes(r, <<x>>) /\ notes' = notes /\ i.do = "del_ref"
    BY <1>8 DEF DeleteReference, Then, At
  <2>2. x.do = "del_count"
    BY <1>2, Reworded
  <2> HIDE DEF x, i
  <2>3. Plain(x) /\ (x.do \in Deletion => i.do \in Deletion)
    BY <2>1, <2>2 DEF Plain, Enders, Deletion
  <2> QED BY <1>1, <1>7, <2>1, <2>3
<1>9. CASE DeleteCount(r)
  <2> DEFINE x == [i EXCEPT !.do = "del_blob"] undo == [i EXCEPT !.do = "undo_incr"]
  <2>1. /\ Goes(r, <<x>>) \/ Goes(r, <<>>)
        /\ notes' = [notes EXCEPT ![r] = [l EXCEPT !.undo = Append(@, undo)]]
    BY <1>9 DEF DeleteCount, Undoable, ThenNoting
  <2>2. x.do = "del_blob" /\ undo.do = "undo_incr"
    BY <1>2, Reworded
  <2> HIDE DEF x, undo, i
  <2>3. Plain(x) /\ x.do \notin Deletion
    BY <2>2 DEF Plain, Enders, Deletion
  <2>4. notes'[r].undo = Append(l.undo, undo)
    <3> DEFINE more == Append(l.undo, undo)
    <3>1. notes'[r] = [l EXCEPT !.undo = more]
      BY <1>4, <2>1
    <3> HIDE DEF more
    <3>2. notes'[r].undo = more
      BY <1>2, <3>1 DEF LocalsFit
    <3> QED BY <3>2 DEF more
  <2>5. Undone(files, l.undo) => Undone(files, notes'[r].undo)
    BY <1>2, <2>2, <2>4, MoreUndone
  <2> QED BY <1>1, <1>6, <1>7, <2>1, <2>3, <2>5
\* Only the objects that are to go are noted.
<1>10. ASSUME NEW pending, notes' = [notes EXCEPT ![r] = [l EXCEPT !.pending = pending]]
       PROVE  notes'[r].undo = l.undo
  BY <1>2, <1>4, <1>10 DEF LocalsFit
<1>11. CASE DeferUnlink(r)
  <2>1. Goes(r, <<>>)
    BY <1>11 DEF DeferUnlink, Done, Then, ThenNoting
  <2>2. notes' = notes \/ \E pending : notes' = [notes EXCEPT ![r] = [l EXCEPT !.pending = pending]]
    BY <1>11 DEF DeferUnlink, Done, Then, ThenNoting
  <2>3. notes'[r].undo = l.undo
    BY <1>10, <2>2
  <2> QED BY <1>1, <1>6, <2>1, <2>3
<1>12. CASE UnlinkPending(r)
  <2>1. (Goes(r, <<>>) \/ Goes(r, <<i>>)) /\ i.do = "unlink"
    BY <1>12 DEF UnlinkPending, Done, Then, ThenNoting, At
  <2>2. notes' = notes \/ \E pending : notes' = [notes EXCEPT ![r] = [l EXCEPT !.pending = pending]]
    BY <1>12 DEF UnlinkPending, Done, Then, ThenNoting
  <2>3. notes'[r].undo = l.undo
    BY <1>10, <2>2
  <2> QED BY <1>1, <1>2, <1>6, <1>7, <2>1, <2>3
<1> QED BY <1>1, <1>8, <1>9, <1>11, <1>12

\* A row comes out of the recycle bin after its directory.
LEMMA UntrashGoesOn ==
  ASSUME NEW K, Fits(K), NEW r \in Workers, Upright(files), NEW faults,
         Purging(files, faults, notes[r], jobs[r]), Untrash(r)
  PROVE  Upright(files') /\ Purging(files', faults, notes'[r], jobs'[r])
<1> DEFINE i == Now(r) l == notes[r] J == Head(jobs[r]) f == i.id
<1>1. jobs[r] # <<>> /\ i.do = "untrash"
  BY DEF Untrash, At
<1>2. i.do \in Enders /\ i.do # "del_list" /\ ~Doomed(i)
  BY <1>1 DEF Enders, Doomed
<1>3. Ending(files, l, J) /\ Len(J) \in Nat \ {0} /\ J[1] = i
  BY <1>1, <1>2, FirstJob
<1>4. CASE f \in DOMAIN files /\ ~Live(f)
  <2> DEFINE row == [files[f] EXCEPT !.trashed = 0]
  <2>1. files' = Updated(f, row) /\ Goes(r, <<>>) /\ notes' = notes
    BY <1>4 DEF Untrash, FilesOnly, RestoreFile, Done, Then
  <2>2. row.trashed = 0 /\ row.parent = files[f].parent
    <3>1. IsRow(files[f])
      BY <1>4 DEF Fits, TableFits, RowFits
    <3> QED BY <3>1 DEF IsRow
  <2>3. Fine(files, files[f].parent)
    <3>1. 1 \in 1 .. Len(J) /\ \A y \in 1 .. 1 - 1 : FALSE
      BY <1>3
    <3> HIDE DEF i, J
    <3>2. f \in DOMAIN files => \/ Fine(files, files[f].parent)
                                \/ \E y \in 1 .. 1 - 1 : J[y].id = files[f].parent
      BY <1>1, <1>3, <3>1 DEF Ending, Reviving
    <3> QED BY <1>4, <3>1, <3>2
  <2> HIDE DEF row
  <2>4. /\ DOMAIN files' = DOMAIN files /\ \A g \in DOMAIN files : g # f => files'[g] = files[g]
        /\ files'[f].trashed = 0 /\ \A g \in DOMAIN files : files'[g].parent = files[g].parent
    <3> HIDE DEF f
    <3> QED BY <1>4, <2>1, <2>2 DEF Updated
  <2>5. LiveIn(files', f) /\ \A g : LiveIn(files, g) => LiveIn(files', g)
    BY <1>4, <2>4 DEF LiveIn
  <2>6. \A p : Fine(files, p) => Fine(files', p)
    BY <2>5 DEF Fine
  <2>7. Upright(files')
    <3>1. ASSUME NEW g \in DOMAIN files', LiveIn(files', g) PROVE Fine(files', files'[g].parent)
      <4>1. CASE g = f
        BY <2>3, <2>4, <2>6, <3>1, <4>1
      <4>2. CASE g # f
        <5>1. g \in DOMAIN files /\ LiveIn(files, g)
          BY <2>4, <3>1, <4>2 DEF LiveIn
        <5> QED BY <2>4, <2>6, <5>1 DEF Upright
      <4> QED BY <4>1, <4>2
    <3> QED BY <3>1 DEF Upright
  <2>8. Survives(files, files', i)
    BY <1>1, <1>2, <2>4, <2>5 DEF Survives
  <2>9. ASSUME \E x \in 1 .. Len(J) : J[x].do \in Deletion PROVE Undone(files', l.undo)
    <3>1. l.undo = <<>>
      BY <1>1, <1>3, <2>9 DEF Ending
    <3>2. \A a \in 1 .. Len(l.undo) : FALSE
      BY <3>1
    <3> QED BY <3>2 DEF Undone
  <2>10. Purging(files', faults, l, jobs'[r])
    <3> DEFINE items == <<>> T == {} rows2 == files'
    <3>1. items \in Seq(T) /\ Goes(r, items) /\ Len(items) = 0
      BY <2>1
    <3> HIDE DEF items, T
    <3>2. \A x \in 1 .. Len(items) : FALSE
      BY <3>1
    <3>3. Survives(files, rows2, i) /\ ((\E x \in 1 .. Len(J) : J[x].do \in Deletion) => Undone(rows2, l.undo))
      BY <2>8, <2>9
    <3> HIDE DEF rows2
    <3>4. Purging(rows2, faults, l, jobs'[r])
      BY <1>1, <1>2, <3>1, <3>2, <3>3, EndingGoesOn
    <3> QED BY <3>4 DEF rows2
  <2> QED BY <2>1, <2>7, <2>10
<1>5. CASE ~(f \in DOMAIN files /\ ~Live(f))
  <2>1. files' = files /\ Fail(r, 404)
    BY <1>5 DEF Untrash, Read, tableVars
  <2>2. Purging(files, faults, notes'[r], jobs'[r])
    BY <1>1, <2>1, PurgingOn
  <2> QED BY <2>1, <2>2
<1> QED BY <1>4, <1>5

\* What is live in a directory that is deleted has been deleted before it.
LEMMA DeletedIsEmpty ==
  ASSUME NEW K, Fits(K), NEW r \in Workers, jobs[r] # <<>>, Now(r).do = "del_row",
         NEW l, Ending(files, l, Head(jobs[r])), Head(jobs[r])[1] = Now(r), Len(Head(jobs[r])) \in Nat \ {0}
  PROVE  Kids(files, Now(r).id) = {}
<1> DEFINE i == Now(r) J == Head(jobs[r]) f == i.id
<1>1. RowFits(K, f, i.arg) /\ TableFits(K)
  BY PlainWorks DEF Good, Special, Fits
<1>2. CASE i.arg.dir
  <2>1. 1 \in 1 .. Len(J) /\ \A y \in 1 .. 1 - 1 : FALSE
    OBVIOUS
  <2> HIDE DEF i, J
  <2>2. \A g \in Kids(files, J[1].id) : \E y \in 1 .. 1 - 1 : Doomed(J[y]) /\ J[y].id = g
    BY <1>2, <2>1 DEF Ending, Felling, Emptied, i, J
  <2> QED BY <2>1, <2>2 DEF i, J
<1>3. CASE ~i.arg.dir
  <2>1. ~K.rows[f].dir /\ f # None
    BY <1>1, <1>3, NoneIsNoValue DEF RowFits, TableFits
  <2> HIDE DEF f, i
  <2>2. ASSUME NEW g \in Kids(files, f) PROVE FALSE
    <3>1. RowFits(K, g, files[g]) /\ files[g].parent = f
      BY <1>1, <2>2 DEF Kids, TableFits
    <3> QED BY <2>1, <3>1 DEF RowFits, Inside, IsDir
  <2> QED BY <2>2 DEF f, i
<1> QED BY <1>2, <1>3

LEMMA DeleteRowGoesOn ==
  ASSUME NEW K, Fits(K), NEW r \in Workers, Upright(files), NEW faults,
         Purging(files, faults, notes[r], jobs[r]), DeleteRow(r)
  PROVE  Upright(files') /\ Purging(files', faults, notes'[r], jobs'[r])
<1> DEFINE i == Now(r) l == notes[r] J == Head(jobs[r]) f == i.id row == i.arg
<1>1. jobs[r] # <<>> /\ i.do = "del_row" /\ files' = DeleteFile(f)
  BY DEF DeleteRow, At, FilesOnly
<1>2. i.do \in Enders /\ i.do # "del_list" /\ i.do # "untrash" /\ i.do \in Deletion /\ Doomed(i)
  BY <1>1 DEF Enders, Deletion, Doomed
<1>3. Ending(files, l, J) /\ Len(J) \in Nat \ {0} /\ J[1] = i
  BY <1>1, <1>2, FirstJob
<1>4. Kids(files, f) = {}
  BY <1>1, <1>3, DeletedIsEmpty
<1> HIDE DEF f
<1>5. /\ DOMAIN files' = DOMAIN files \ {f} /\ \A g \in DOMAIN files' : files'[g] = files[g]
  BY <1>1 DEF DeleteFile
<1>6. \A g : LiveIn(files', g) <=> LiveIn(files, g) /\ g # f
  BY <1>5 DEF LiveIn
<1>7. \A p : p # f /\ Fine(files, p) => Fine(files', p)
  BY <1>6 DEF Fine
<1>8. Upright(files')
  <2>1. ASSUME NEW g \in DOMAIN files', LiveIn(files', g) PROVE Fine(files', files'[g].parent)
    <3>1. g \in DOMAIN files /\ LiveIn(files, g) /\ files'[g] = files[g]
      BY <1>5, <1>6, <2>1
    <3>2. files[g].parent # f
      BY <1>4, <3>1 DEF Kids
    <3>3. Fine(files, files[g].parent)
      BY <3>1 DEF Upright
    <3> QED BY <1>7, <3>1, <3>2, <3>3
  <2> QED BY <2>1 DEF Upright
<1>9. Survives(files, files', i)
  <2>1. \A p : Kids(files', p) \subseteq Kids(files, p)
    BY <1>5, <1>6 DEF Kids
  <2> QED BY <1>2, <1>5, <1>6, <2>1 DEF Survives, f
<1> DEFINE put == ItemFor("undo_put", f, row) ref == ItemFor("del_ref", f, row.sha)
           more == Append(l.undo, put) n == Len(l.undo)
<1>10. put.do = "undo_put" /\ put.id = f /\ put.arg = row /\ ref.do = "del_ref"
  BY ItemsAreItems
<1>11. /\ Goes(r, <<>>) \/ Goes(r, <<ref>>)
       /\ notes' = [notes EXCEPT ![r] = [l EXCEPT !.undo = Append(@, put)]]
  BY DEF DeleteRow, Undoable, ThenNoting, f
<1> HIDE DEF put, ref
<1>12. LocalsFit(K, request[r], l) /\ notes = [s \in Workers |-> notes[s]]
  BY DEF Fits, WorkFits
<1>13. notes'[r].undo = more
  <2> HIDE DEF more
  <2>1. notes'[r] = [l EXCEPT !.undo = more]
    BY <1>11, <1>12 DEF more
  <2> QED BY <1>12, <2>1 DEF LocalsFit
<1>14. /\ n \in Nat /\ Len(more) = n + 1 /\ more[n + 1] = put
       /\ \A a \in 1 .. n : more[a] = l.undo[a]
  <2> DEFINE undo == l.undo
  <2>1. undo \in Seq(Range(undo))
    BY <1>12 DEF LocalsFit, IsList
  <2> HIDE DEF undo
  <2>2. /\ Len(undo) \in Nat /\ Len(Append(undo, put)) = Len(undo) + 1
        /\ Append(undo, put)[Len(undo) + 1] = put
        /\ \A a \in 1 .. Len(undo) : Append(undo, put)[a] = undo[a]
    BY <2>1
  <2> QED BY <2>2 DEF undo
<1> HIDE DEF more
\* Its directory is there still, or is to be deleted later.
<1>15. Fine(files', row.parent)
  <2>1. PICK U \in SUBSET DOMAIN files : Apex(files, U) /\ Felling(files, J, U)
    BY <1>3 DEF Ending
  <2>2. 1 \in 1 .. Len(J) /\ Doomed(J[1])
    BY <1>2, <1>3
  <2> HIDE DEF i, J
  <2>3. Leaving(files, U, J, 1) /\ Once(J)
    BY <2>1, <2>2 DEF Felling
  <2>4. \/ row.parent = None \/ row.parent \in U
        \/ \E y \in 2 .. Len(J) : J[y].do = "del_row" /\ J[y].id = row.parent
    BY <1>3, <2>3 DEF Leaving
  <2>5. CASE row.parent = None
    BY <2>5 DEF Fine
  <2>6. CASE row.parent \in U
    <3>1. LiveIn(files, row.parent)
      BY <2>1, <2>6 DEF Apex
    <3>2. row.parent # f
      BY <1>3, <2>3, <2>6 DEF Leaving, f
    <3> QED BY <1>6, <3>1, <3>2 DEF Fine
  <2>7. ASSUME NEW y \in 2 .. Len(J), J[y].do = "del_row", J[y].id = row.parent PROVE Fine(files', row.parent)
    <3>1. y \in 1 .. Len(J) /\ y # 1 /\ Doomed(J[y])
      BY <1>3, <2>7 DEF Doomed
    <3>2. row.parent # f
      BY <1>3, <2>2, <2>3, <2>7, <3>1 DEF Once, f
    <3>3. Leaving(files, U, J, y)
      BY <2>1, <3>1 DEF Felling
    <3>4. ASSUME NEW z \in 1 .. Len(J), J[z].do = "untrash" PROVE FALSE
      <4>1. z # 1
        BY <1>2, <1>3, <3>4
      <4>2. 1 \in 1 .. z - 1
        BY <1>3, <3>4, <4>1
      <4> QED BY <1>2, <1>3, <3>4, <4>2 DEF Ending, Reviving
    <3>5. LiveIn(files, row.parent)
      BY <2>7, <3>3, <3>4 DEF Leaving
    <3> QED BY <1>6, <3>2, <3>5 DEF Fine
  <2> QED BY <2>4, <2>5, <2>6, <2>7
<1>16. Undone(files', more)
  <2>1. Undone(files, l.undo)
    <3>1. \E x \in 1 .. Len(J) : J[x].do \in Deletion
      BY <1>2, <1>3
    <3> QED BY <1>3, <3>1 DEF Ending
  <2>2. ASSUME NEW a \in 1 .. Len(more), more[a].do = "undo_put"
        PROVE  /\ more[a].id \notin DOMAIN files'
               /\ \/ Fine(files', more[a].arg.parent)
                  \/ \E b \in a + 1 .. Len(more) : more[b].do = "undo_put" /\ more[b].id = more[a].arg.parent
    <3>1. CASE a = n + 1
      BY <1>5, <1>10, <1>14, <1>15, <3>1
    <3>2. CASE a # n + 1
      <4> DEFINE p == l.undo[a].arg.parent
      <4>1. a \in 1 .. n /\ more[a] = l.undo[a]
        BY <1>14, <2>2, <3>2
      <4>2. /\ l.undo[a].id \notin DOMAIN files
            /\ Fine(files, p) \/ \E b \in a + 1 .. n : l.undo[b].do = "undo_put" /\ l.undo[b].id = p
        BY <2>1, <2>2, <4>1 DEF Undone
      <4>3. ASSUME Fine(files, p), p # f PROVE Fine(files', p)
        BY <1>7, <4>3
      <4>4. ASSUME p = f PROVE \E c \in a + 1 .. Len(more) : more[c].do = "undo_put" /\ more[c].id = p
        <5>1. n + 1 \in a + 1 .. Len(more)
          BY <1>14, <4>1
        <5> QED BY <1>10, <1>14, <4>4, <5>1
      <4>5. ASSUME NEW b \in a + 1 .. n, l.undo[b].do = "undo_put", l.undo[b].id = p
            PROVE  \E c \in a + 1 .. Len(more) : more[c].do = "undo_put" /\ more[c].id = p
        <5>1. b \in a + 1 .. Len(more) /\ more[b] = l.undo[b]
          BY <1>14, <4>1, <4>5
        <5> QED BY <4>5, <5>1
      <4> HIDE DEF p
      <4>6. Fine(files', p) \/ \E c \in a + 1 .. Len(more) : more[c].do = "undo_put" /\ more[c].id = p
        BY <4>2, <4>3, <4>4, <4>5
      <4> QED BY <1>5, <4>1, <4>2, <4>6 DEF p
    <3> QED BY <3>1, <3>2
  <2> QED BY <2>2 DEF Undone
\* It goes on with the reference of a file, if it is one.
<1>17. ASSUME NEW T, NEW items \in Seq(T), Goes(r, items), \A x \in 1 .. Len(items) : Plain(items[x])
       PROVE  Purging(files', faults, notes'[r], jobs'[r])
  <2> DEFINE rows2 == files' l2 == notes'[r]
  <2>1. Undone(rows2, l2.undo) /\ Survives(files, rows2, i)
    BY <1>9, <1>13, <1>16
  <2>2. \A x \in 1 .. Len(items) : Plain(items[x]) /\ (items[x].do \in Deletion => Now(r).do \in Deletion)
    BY <1>2, <1>17
  <2> HIDE DEF rows2, l2
  <2>3. Purging(rows2, faults, l2, jobs'[r])
    BY <1>1, <1>2, <1>17, <2>1, <2>2, EndingGoesOn
  <2> QED BY <2>3 DEF rows2, l2
<1>18. CASE Goes(r, <<>>)
  <2> DEFINE items == <<>> T == {}
  <2>1. items \in Seq(T) /\ Goes(r, items) /\ Len(items) = 0
    BY <1>18
  <2> HIDE DEF items, T
  <2>2. \A x \in 1 .. Len(items) : Plain(items[x])
    BY <2>1
  <2> QED BY <1>8, <1>17, <2>1, <2>2
<1>19. CASE Goes(r, <<ref>>)
  <2> DEFINE items == <<ref>> T == {ref}
  <2>1. items \in Seq(T) /\ Goes(r, items) /\ Len(items) = 1 /\ items[1] = ref
    BY <1>19
  <2> HIDE DEF items, T
  <2>2. Plain(ref)
    BY <1>10 DEF Plain, Enders
  <2>3. \A x \in 1 .. Len(items) : Plain(items[x])
    BY <2>1, <2>2
  <2> QED BY <1>8, <1>17, <2>1, <2>3
<1> QED BY <1>11, <1>18, <1>19

\* A directory that is to be deleted lists what is in it: these rows go before
\* it, and nothing else is to delete them.
LEMMA FellingChildren ==
  ASSUME NEW rows, NEW J, NEW J2, NEW items, Splices(J2, items, J),
         NEW n \in Nat, Len(items) = n + 1,
         NEW f, f = J[1].id, f # None, J[1].do = "del_list",
         items[n + 1].do = "del_row", items[n + 1].id = f, items[n + 1].arg = J[1].arg,
         \A x \in 1 .. n :
           /\ Doomed(items[x]) /\ items[x].id \in Kids(rows, f) /\ items[x].arg = rows[items[x].id]
           /\ items[x].do = "del_list" => items[x].arg.space = items[x].at
           /\ items[x].do = "del_row" => ~items[x].arg.dir,
         \A x, y \in 1 .. n : items[x].id = items[y].id => x = y,
         \A g \in Kids(rows, f) : \E x \in 1 .. n : items[x].id = g,
         Reviving(rows, J), NEW U \in SUBSET DOMAIN rows, Apex(rows, U), Felling(rows, J, U)
  PROVE  Felling(rows, J2, U)
<1>1. 1 \in 1 .. Len(J) /\ Doomed(J[1]) /\ Len(J) \in Nat
  BY DEF Splices, Doomed
<1>2. Once(J) /\ Leaving(rows, U, J, 1)
  BY <1>1 DEF Felling
<1>3. ASSUME NEW y \in 1 .. Len(J), J[y].do = "untrash" PROVE FALSE
  <2>1. y # 1
    BY <1>3
  <2>2. 1 \in 1 .. y - 1
    BY <1>1, <1>3, <2>1
  <2> QED BY <1>3, <2>2 DEF Reviving
<1>4. ASSUME NEW y \in 2 .. Len(J), Doomed(J[y]) PROVE J[y].id # f
  <2>1. y \in 1 .. Len(J) /\ y # 1
    BY <1>1
  <2> QED BY <1>1, <1>2, <1>4, <2>1 DEF Once
<1>5. f \in DOMAIN rows /\ f \notin U /\ LiveIn(rows, f) /\ rows[f].parent = J[1].arg.parent
  BY <1>2, <1>3 DEF Leaving
<1>6. ASSUME NEW g \in Kids(rows, f) PROVE g \in DOMAIN rows /\ LiveIn(rows, g) /\ rows[g].parent = f /\ g \notin U /\ g # f
  <2>1. g \in DOMAIN rows /\ LiveIn(rows, g) /\ rows[g].parent = f
    BY <1>6 DEF Kids
  <2>2. g \notin U
    BY <1>5, <2>1 DEF Apex
  <2>3. g # f
    <3>1. ASSUME g = f PROVE FALSE
      <4>1. PICK y \in 2 .. Len(J) : J[y].do = "del_row" /\ J[y].id = f
        BY <1>2, <1>5, <2>1, <3>1 DEF Leaving
      <4> QED BY <1>4, <4>1 DEF Doomed
    <3> QED BY <3>1
  <2> QED BY <2>1, <2>2, <2>3
<1>7. ASSUME NEW m \in 2 .. Len(J), Doomed(J[m]) PROVE J[m].id \notin Kids(rows, f) /\ J[m].id # f
  <2>1. m \in 1 .. Len(J) /\ Leaving(rows, U, J, m)
    BY <1>1, <1>7 DEF Felling
  <2>2. ASSUME J[m].id \in Kids(rows, f) PROVE FALSE
    <3>1. J[m].arg.parent = f
      BY <1>6, <2>1, <2>2 DEF Leaving
    <3>2. PICK y \in m + 1 .. Len(J) : J[y].do = "del_row" /\ J[y].id = f
      BY <1>5, <2>1, <3>1 DEF Leaving
    <3>3. y \in 2 .. Len(J)
      BY <3>2
    <3> QED BY <1>4, <3>2, <3>3 DEF Doomed
  <2> QED BY <1>4, <1>7, <2>2
\* Where the items are.
<1>8. /\ \A m \in 2 .. Len(J) : n + m \in 1 .. Len(J2) /\ J2[n + m] = J[m]
      /\ n + 1 \in 1 .. Len(J2) /\ J2[n + 1] = items[n + 1]
      /\ \A x \in 1 .. n : x \in 1 .. Len(J2) /\ J2[x] = items[x]
  <2>1. Len(J2) = n + Len(J) /\ \A x \in 1 .. n + 1 : J2[x] = items[x]
    BY DEF Splices
  <2>2. \A m \in 2 .. Len(J) : J2[n + 1 + m - 1] = J[m] /\ n + 1 + m - 1 = n + m
    BY DEF Splices
  <2>3. \A m \in 2 .. Len(J) : n + m \in 1 .. Len(J2) /\ J2[n + m] = J[m]
    BY <1>1, <2>1, <2>2
  <2>4. n + 1 \in 1 .. n + 1 /\ n + 1 \in 1 .. Len(J2)
    BY <1>1, <2>1
  <2>5. \A x \in 1 .. n : x \in 1 .. Len(J2) /\ x \in 1 .. n + 1
    BY <1>1, <2>1
  <2> QED BY <2>1, <2>3, <2>4, <2>5
<1>9. ASSUME NEW x \in 1 .. Len(J2) PROVE x \in 1 .. n \/ x = n + 1 \/ \E m \in 2 .. Len(J) : x = n + m
  <2>1. x \in 1 .. n + 1 \/ \E m \in 2 .. Len(J) : x = n + 1 + m - 1
    BY <1>9 DEF Splices
  <2> QED BY <2>1
<1>10. Once(J2)
  <2>1. ASSUME NEW x \in 1 .. Len(J2), Doomed(J2[x])
        PROVE  \/ x \in 1 .. n /\ J2[x].id = items[x].id /\ J2[x].id \in Kids(rows, f)
               \/ x = n + 1 /\ J2[x].id = f
               \/ \E m \in 2 .. Len(J) : x = n + m /\ J2[x] = J[m] /\ Doomed(J[m])
    BY <1>8, <1>9, <2>1
  <2>3. ASSUME NEW x \in 1 .. Len(J2), Doomed(J2[x])
        PROVE  /\ J2[x].id \in Kids(rows, f) => x \in 1 .. n /\ J2[x].id = items[x].id
               /\ J2[x].id = f => x = n + 1
    <3>1. CASE x \in 1 .. n /\ J2[x].id = items[x].id /\ J2[x].id \in Kids(rows, f)
      <4>1. J2[x].id # f
        BY <1>6, <3>1
      <4> QED BY <3>1, <4>1
    <3>2. CASE x = n + 1 /\ J2[x].id = f
      <4>1. J2[x].id \notin Kids(rows, f)
        BY <1>6, <3>2
      <4> QED BY <3>2, <4>1
    <3>3. ASSUME NEW m \in 2 .. Len(J), J2[x] = J[m], Doomed(J[m])
          PROVE  J2[x].id \notin Kids(rows, f) /\ J2[x].id # f
      BY <1>7, <3>3
    <3> QED BY <2>1, <2>3, <3>1, <3>2, <3>3
  <2>2. ASSUME NEW x \in 1 .. Len(J2), NEW y \in 1 .. Len(J2), Doomed(J2[x]), Doomed(J2[y]), J2[x].id = J2[y].id
        PROVE  x = y
    <3> DEFINE g == J2[x].id
    <3>1. CASE g \in Kids(rows, f)
      <4>1. x \in 1 .. n /\ J2[x].id = items[x].id
        BY <2>2, <2>3, <3>1
      <4>2. y \in 1 .. n /\ J2[y].id = items[y].id
        BY <2>2, <2>3, <3>1
      <4> QED BY <2>2, <4>1, <4>2
    <3>2. CASE g = f
      <4>1. x = n + 1
        BY <2>2, <2>3, <3>2
      <4>2. y = n + 1
        BY <2>2, <2>3, <3>2
      <4> QED BY <4>1, <4>2
    <3>3. CASE g \notin Kids(rows, f) /\ g # f
      <4>1. PICK m \in 2 .. Len(J) : x = n + m /\ J2[x] = J[m] /\ Doomed(J[m])
        BY <2>1, <2>2, <3>3
      <4>2. PICK k \in 2 .. Len(J) : y = n + k /\ J2[y] = J[k] /\ Doomed(J[k])
        BY <2>1, <2>2, <3>3
      <4>3. m \in 1 .. Len(J) /\ k \in 1 .. Len(J)
        BY <1>1
      <4>4. m = k
        BY <1>2, <2>2, <4>1, <4>2, <4>3 DEF Once
      <4> QED BY <4>1, <4>2, <4>4
    <3> QED BY <3>1, <3>2, <3>3
  <2> QED BY <2>2 DEF Once
<1>11. ASSUME NEW x \in 1 .. Len(J2), Doomed(J2[x]) PROVE Leaving(rows, U, J2, x)
  <2>1. CASE x \in 1 .. n
    <3> DEFINE g == items[x].id
    <3>1. J2[x] = items[x] /\ g \in Kids(rows, f) /\ items[x].arg = rows[g]
          /\ (items[x].do = "del_list" => items[x].arg.space = items[x].at)
      BY <1>8, <2>1
    <3>2. g \in DOMAIN rows /\ LiveIn(rows, g) /\ rows[g].parent = f /\ g \notin U
      BY <1>6, <3>1
    <3>3. n + 1 \in x + 1 .. Len(J2) /\ J2[n + 1].do = "del_row" /\ J2[n + 1].id = f
      BY <1>8, <2>1
    <3> QED BY <3>1, <3>2, <3>3 DEF Leaving
  <2>2. CASE x = n + 1
    <3>1. J2[x].do = "del_row" /\ J2[x].id = f /\ J2[x].arg = J[1].arg
      BY <1>8, <2>2
    <3> DEFINE p == J[1].arg.parent
    <3>2. p = None \/ p \in U \/ \E y \in 2 .. Len(J) : J[y].do = "del_row" /\ J[y].id = p
      BY <1>2 DEF Leaving
    <3>3. ASSUME NEW y \in 2 .. Len(J), J[y].do = "del_row", J[y].id = p
          PROVE  \E z \in x + 1 .. Len(J2) : J2[z].do = "del_row" /\ J2[z].id = p
      <4>1. n + y \in x + 1 .. Len(J2)
        BY <1>8, <2>2
      <4> QED BY <1>8, <3>3, <4>1
    <3>4. p = None \/ p \in U \/ \E z \in x + 1 .. Len(J2) : J2[z].do = "del_row" /\ J2[z].id = p
      BY <3>2, <3>3
    <3> QED BY <1>5, <3>1, <3>4 DEF Leaving
  <2>3. ASSUME NEW m \in 2 .. Len(J), x = n + m PROVE Leaving(rows, U, J2, x)
    <3>1. J2[x] = J[m] /\ m \in 1 .. Len(J)
      BY <1>1, <1>8, <2>3
    <3>2. Leaving(rows, U, J, m)
      BY <1>11, <3>1 DEF Felling
    <3> DEFINE p == J[m].arg.parent
    <3>3. LiveIn(rows, J[m].id)
      BY <1>3, <3>2 DEF Leaving
    <3>4. ASSUME NEW y \in m + 1 .. Len(J), J[y].do = "del_row", J[y].id = p
          PROVE  \E z \in x + 1 .. Len(J2) : J2[z].do = "del_row" /\ J2[z].id = p
      <4>1. y \in 2 .. Len(J)
        BY <1>1, <3>4
      <4>2. n + y \in x + 1 .. Len(J2) /\ J2[n + y] = J[y]
        BY <1>8, <2>3, <4>1
      <4> QED BY <3>4, <4>2
    <3>5. p = None \/ p \in U \/ \E z \in x + 1 .. Len(J2) : J2[z].do = "del_row" /\ J2[z].id = p
      BY <3>2, <3>4 DEF Leaving
    <3> QED BY <3>1, <3>2, <3>3, <3>5 DEF Leaving
  <2> QED BY <1>9, <2>1, <2>2, <2>3
<1>12. ASSUME NEW x \in 1 .. Len(J2), J2[x].do = "del_row", J2[x].arg.dir PROVE Emptied(rows, J2, x)
  <2>1. J2[1].do # "untrash"
    <3>1. CASE n = 0
      <4>1. J2[1].do = "del_row"
        BY <1>8, <3>1
      <4> QED BY <4>1
    <3>2. CASE n # 0
      <4>1. 1 \in 1 .. n
        BY <3>2
      <4>2. J2[1].do \in {"del_list", "del_row"}
        BY <1>8, <4>1 DEF Doomed
      <4> QED BY <4>2
    <3> QED BY <3>1, <3>2
  <2>2. x \notin 1 .. n
    BY <1>8, <1>12
  <2>3. CASE x = n + 1
    <3>1. J2[x].id = f
      BY <1>8, <2>3
    <3>2. ASSUME NEW g \in Kids(rows, f) PROVE \E y \in 1 .. x - 1 : Doomed(J2[y]) /\ J2[y].id = g
      <4>1. PICK y \in 1 .. n : items[y].id = g
        BY <3>2
      <4>2. y \in 1 .. x - 1 /\ J2[y] = items[y] /\ Doomed(items[y])
        BY <1>8, <2>3, <4>1
      <4> QED BY <4>1, <4>2
    <3> QED BY <2>1, <3>1, <3>2 DEF Emptied
  <2>4. ASSUME NEW m \in 2 .. Len(J), x = n + m PROVE Emptied(rows, J2, x)
    <3>1. J2[x] = J[m] /\ m \in 1 .. Len(J)
      BY <1>1, <1>8, <2>4
    <3>2. Emptied(rows, J, m)
      BY <1>12, <3>1 DEF Felling
    <3>3. ASSUME NEW g \in Kids(rows, J[m].id) PROVE \E y \in 1 .. x - 1 : Doomed(J2[y]) /\ J2[y].id = g
      <4>1. PICK y \in 1 .. m - 1 : Doomed(J[y]) /\ J[y].id = g
        BY <3>2, <3>3 DEF Emptied
      <4>2. CASE y = 1
        <5>1. n + 1 \in 1 .. x - 1 /\ J2[n + 1].id = f /\ J2[n + 1].do = "del_row"
          BY <1>8, <2>4
        <5>2. Doomed(J2[n + 1])
          BY <5>1 DEF Doomed
        <5> QED BY <4>1, <4>2, <5>1, <5>2
      <4>3. CASE y # 1
        <5>1. y \in 2 .. Len(J) /\ n + y \in 1 .. x - 1
          BY <1>1, <2>4, <4>1, <4>3
        <5>2. J2[n + y] = J[y]
          BY <1>8, <5>1
        <5> QED BY <4>1, <5>1, <5>2
      <4> QED BY <4>2, <4>3
    <3> QED BY <2>1, <3>1, <3>3 DEF Emptied
  <2> QED BY <1>9, <2>2, <2>3, <2>4
<1> QED BY <1>10, <1>11, <1>12 DEF Felling

\* What deletes a row is about the row as it was seen.
LEMMA DeletingIsDoomed ==
  ASSUME NEW f, NEW row, NEW space
  PROVE  LET i == Deleting(f, row, space) IN
         /\ Doomed(i) /\ i.id = f /\ i.at = space /\ i.arg = row
         /\ i.do = IF row.dir THEN "del_list" ELSE "del_row"
<1> DEFINE i == Deleting(f, row, space) do == IF row.dir THEN "del_list" ELSE "del_row"
<1>1. do \in {"del_list", "del_row"}
  OBVIOUS
<1>2. i = [Item(do, f) EXCEPT !.at = space, !.arg = row]
  BY DEF Deleting
<1> HIDE DEF do, i
<1>3. i.do = do /\ i.id = f /\ i.at = space /\ i.arg = row
  BY <1>2 DEF Item
<1>4. Doomed(i)
  BY <1>1, <1>3 DEF Doomed
<1> QED BY <1>3, <1>4 DEF i, do

\* A directory that is to be deleted lists what is in it.
LEMMA DeleteListGoesOn ==
  ASSUME NEW K, Fits(K), NEW r \in Workers, Upright(files), NEW faults,
         Purging(files, faults, notes[r], jobs[r]), DeleteList(r)
  PROVE  Upright(files') /\ Purging(files', faults, notes'[r], jobs'[r])
<1> DEFINE i == Now(r) l == notes[r] J == Head(jobs[r]) f == i.id row == i.arg space == i.at
           rows == ListChildren(f)
           some == Each(rows, LAMBDA g : Deleting(g, files[g], space))
           last == ItemFor("del_row", f, row)
           items == some \o <<last>>
           n == Len(rows)
           J2 == items \o Tail(J)
<1>1. jobs[r] # <<>> /\ i.do = "del_list" /\ files' = files
  BY DEF DeleteList, At, Read, tableVars
<1>2. i.do \in Enders /\ i.do \in Deletion /\ Doomed(i) /\ i.do \notin Special
  BY <1>1 DEF Enders, Deletion, Doomed, Special
<1>3. Ending(files, l, J) /\ J \in Seq(AllItems(jobs[r])) /\ J # <<>> /\ Len(J) \in Nat \ {0} /\ J[1] = i
  BY <1>1, <1>2, FirstJob
<1>4. TableFits(K) /\ RowFits(K, f, row)
  BY <1>1, <1>2, PlainWorks DEF Good, Fits
<1>5. PICK U \in SUBSET DOMAIN files : Apex(files, U) /\ Felling(files, J, U)
  BY <1>3 DEF Ending
<1>6. Leaving(files, U, J, 1)
  BY <1>2, <1>3, <1>5 DEF Felling
<1>7. f \in DOMAIN files /\ row.space = space /\ f # None
  <2>1. f \in DOMAIN files /\ row.space = space
    BY <1>1, <1>3, <1>6 DEF Leaving
  <2> QED BY <1>4, <2>1, NoneIsNoValue DEF TableFits
<1>8. Then(r, items)
  BY <1>7 DEF DeleteList
<1>9. Goes(r, items) /\ notes' = notes
  BY <1>8 DEF Then
<1>10. last.do = "del_row" /\ last.id = f /\ last.arg = row
  BY ItemsAreItems
<1>11. /\ rows \in Seq(Kids(files, f)) /\ n \in Nat
       /\ \A g \in Kids(files, f) : \E x \in 1 .. n : rows[x] = g
       /\ \A x, y \in 1 .. n : rows[x] = rows[y] => x = y
  BY <1>4, ChildrenAreListed, LiveIsLiveIn
<1>12. \A x \in 1 .. n : rows[x] \in Kids(files, f)
  BY <1>11
<1>13. /\ DOMAIN some = 1 .. n /\ some = [x \in 1 .. n |-> some[x]]
       /\ \A x \in 1 .. n : some[x] = Deleting(rows[x], files[rows[x]], space)
  <2> HIDE DEF rows
  <2> QED BY <1>11 DEF Each
<1> HIDE DEF rows, last, some, n
<1>14. ASSUME NEW x \in 1 .. n
       PROVE  /\ Doomed(some[x]) /\ some[x].id = rows[x] /\ some[x].arg = files[rows[x]]
              /\ some[x].do = "del_list" => some[x].arg.space = some[x].at
              /\ some[x].do = "del_row" => ~some[x].arg.dir
  <2> DEFINE g == rows[x]
  <2>1. /\ Doomed(some[x]) /\ some[x].id = g /\ some[x].at = space /\ some[x].arg = files[g]
        /\ some[x].do = IF files[g].dir THEN "del_list" ELSE "del_row"
    BY <1>13, DeletingIsDoomed
  <2>2. files[g].space = space
    <3>1. RowFits(K, g, files[g]) /\ files[g].parent = f
      BY <1>4, <1>12 DEF Kids, TableFits
    <3> QED BY <1>4, <1>7, <3>1 DEF RowFits, Inside, IsDir, Held
  <2> QED BY <2>1, <2>2
<1> DEFINE T == {some[x] : x \in 1 .. n} \cup {last}
<1>15. some \in Seq(T) /\ last \in T
  <2>1. \A x \in 1 .. n : some[x] \in T
    OBVIOUS
  <2>2. last \in T
    OBVIOUS
  <2>3. n \in Nat /\ some = [x \in 1 .. n |-> some[x]]
    BY <1>11, <1>13
  <2> HIDE DEF T
  <2>4. some \in [1 .. n -> T]
    BY <2>1, <2>3
  <2> QED BY <2>2, <2>3, <2>4
<1> HIDE DEF T
<1>16. /\ items \in Seq(T) /\ Len(items) = n + 1 /\ items[n + 1] = last
       /\ \A x \in 1 .. n : items[x] = some[x]
  BY <1>11, <1>13, <1>15
<1> HIDE DEF items
<1>17. Splices(J2, items, J)
  <2> DEFINE S == AllItems(jobs[r]) V == T \cup S
  <2>1. J \in Seq(S) /\ J # <<>>
    BY <1>3
  <2> HIDE DEF J, S
  <2>2. items \in Seq(V) /\ J \in Seq(V)
    BY <1>16, <2>1
  <2> HIDE DEF V
  <2> QED BY <2>1, <2>2, SplicedJobs
<1> HIDE DEF J2
<1>18. Felling(files, J2, U)
  <2>1. \A x \in 1 .. n :
          /\ Doomed(items[x]) /\ items[x].id \in Kids(files, f) /\ items[x].arg = files[items[x].id]
          /\ items[x].do = "del_list" => items[x].arg.space = items[x].at
          /\ items[x].do = "del_row" => ~items[x].arg.dir
    BY <1>12, <1>14, <1>16
  <2>5. \A x \in 1 .. n : items[x].id = rows[x]
    BY <1>14, <1>16
  <2>2. \A x, y \in 1 .. n : items[x].id = items[y].id => x = y
    BY <1>11, <2>5
  <2>3. \A g \in Kids(files, f) : \E x \in 1 .. n : items[x].id = g
    BY <1>11, <2>5
  <2>4. f = J[1].id /\ J[1].do = "del_list" /\ items[n + 1].do = "del_row" /\ items[n + 1].id = f
        /\ items[n + 1].arg = J[1].arg /\ Reviving(files, J)
    BY <1>1, <1>3, <1>10, <1>16 DEF Ending
  <2>6. n \in Nat /\ Len(items) = n + 1 /\ f # None
    BY <1>7, <1>11, <1>16
  <2> HIDE DEF f, J
  <2> QED BY <1>5, <1>17, <2>1, <2>2, <2>3, <2>4, <2>6, FellingChildren
<1>19. ASSUME NEW x \in 1 .. Len(J2) PROVE J2[x].do \in Enders /\ J2[x].do # "untrash"
  <2>1. CASE x \in 1 .. n
    <3>1. J2[x] = items[x]
      BY <1>11, <1>16, <1>17, <2>1 DEF Splices
    <3> QED BY <1>14, <1>16, <2>1, <3>1 DEF Doomed, Enders
  <2>2. CASE x = n + 1
    <3>1. J2[x] = items[x]
      BY <1>11, <1>16, <1>17, <2>2 DEF Splices
    <3> QED BY <1>10, <1>16, <2>2, <3>1 DEF Enders
  <2>3. ASSUME NEW m \in 2 .. Len(J), J2[x] = J[m] PROVE J2[x].do \in Enders /\ J2[x].do # "untrash"
    <3>1. m \in 1 .. Len(J) /\ 1 \in 1 .. m - 1
      BY <1>3
    <3>2. J[m].do # "untrash"
      BY <1>1, <1>3, <3>1 DEF Ending, Reviving
    <3> QED BY <1>3, <2>3, <3>1, <3>2 DEF Ending
  <2>4. x \in 1 .. n + 1 \/ \E m \in 2 .. Len(J) : x = Len(items) + m - 1
    BY <1>16, <1>17 DEF Splices
  <2>5. \A m \in 2 .. Len(J) : J2[Len(items) + m - 1] = J[m]
    BY <1>17 DEF Splices
  <2>6. x \in 1 .. n + 1 => x \in 1 .. n \/ x = n + 1
    BY <1>11
  <2> HIDE DEF J
  <2>7. ASSUME NEW m \in 2 .. Len(J), x = Len(items) + m - 1 PROVE J2[x] = J[m]
    BY <2>5, <2>7
  <2> QED BY <2>1, <2>2, <2>3, <2>4, <2>6, <2>7
<1>20. Reviving(files, J2)
  BY <1>19 DEF Reviving
<1>21. Undone(files, l.undo)
  <2>1. \E x \in 1 .. Len(J) : J[x].do \in Deletion
    BY <1>2, <1>3
  <2> QED BY <1>3, <2>1 DEF Ending
<1>22. Ending(files, l, J2)
  <2>1. Len(J2) > 0 => 1 \in 1 .. Len(J2)
    BY <1>17 DEF Splices
  <2>2. J2[1].do # "untrash"
    <3>1. Len(J2) = Len(items) + Len(J) - 1
      BY <1>17 DEF Splices
    <3>2. 1 \in 1 .. Len(J2)
      <4> HIDE DEF J
      <4> QED BY <1>3, <1>11, <1>16, <3>1
    <3> QED BY <1>19, <3>2
  <2> QED BY <1>5, <1>18, <1>19, <1>20, <1>21, <2>2 DEF Ending
<1>23. Purging(files, faults, l, jobs'[r])
  BY <1>1, <1>9, <1>16, <1>22, PurgingOn DEF J2
<1> QED BY <1>1, <1>9, <1>23

LEMMA InTrashIsTrashed ==
  ASSUME NEW K, TableFits(K), NEW f, NEW space, InTrash(f, space)
  PROVE  f \in DOMAIN files /\ files[f].space = space /\ files[f].trashed # 0
<1> DEFINE S == {g \in DOMAIN files : files[g].space = space /\ files[g].trashed # 0}
<1>1. ListTrash(space) \in Seq(S)
  BY TablesAreFinite, PlacedIsList DEF ListTrash, InOrder
<1> HIDE DEF S
<1>2. f \in S
  BY <1>1 DEF InTrash, Range
<1> QED BY <1>2 DEF S

\* A tree comes out of the recycle bin from its top.
LEMMA RevivingTree ==
  ASSUME NEW f, NEW s, FromTop(f, s), Fine(files, files[f].parent), NEW J, Len(J) \in Nat, Len(s) <= Len(J),
         \A x \in 1 .. Len(s) : J[x].do = "untrash" /\ J[x].id = s[x],
         \A x \in Len(s) + 1 .. Len(J) : J[x].do # "untrash"
  PROVE  Reviving(files, J)
<1>1. Len(s) \in Nat \ {0} /\ s[1] = f
  BY DEF FromTop
<1>2. ASSUME NEW x \in 1 .. Len(J), J[x].do = "untrash"
      PROVE  /\ \A y \in 1 .. x - 1 : J[y].do = "untrash"
             /\ J[x].id \in DOMAIN files =>
                  \/ Fine(files, files[J[x].id].parent)
                  \/ \E y \in 1 .. x - 1 : J[y].id = files[J[x].id].parent
  <2>1. x \in 1 .. Len(s)
    BY <1>1, <1>2
  <2>2. \A y \in 1 .. x - 1 : y \in 1 .. Len(s)
    BY <1>1, <2>1
  <2>3. CASE x = 1
    BY <1>1, <2>1, <2>3
  <2>4. CASE x # 1
    <3>1. x \in 2 .. Len(s)
      BY <2>1, <2>4
    <3>2. PICK j \in 1 .. x - 1 : files[s[x]].parent = s[j]
      BY <3>1 DEF FromTop
    <3>3. J[x].id = s[x] /\ J[j].id = s[j]
      BY <2>1, <2>2, <3>2
    <3> QED BY <2>2, <3>2, <3>3
  <2> QED BY <2>2, <2>3, <2>4
<1> QED BY <1>2 DEF Reviving

\* All that is outside the recycle bin.
LEMMA AllIsApex ==
  ASSUME Upright(files)
  PROVE  LET U == {g \in DOMAIN files : LiveIn(files, g)} IN
         U \in SUBSET DOMAIN files /\ Apex(files, U)
<1> DEFINE U == {g \in DOMAIN files : LiveIn(files, g)}
<1>1. ASSUME NEW g \in U PROVE LiveIn(files, g) /\ (files[g].parent = None \/ files[g].parent \in U)
  <2>1. Fine(files, files[g].parent)
    BY DEF Upright
  <2> QED BY <2>1 DEF Fine, LiveIn
<1>2. Apex(files, U)
  BY <1>1 DEF Apex
<1> QED BY <1>2

\* A job of its own goes on with a tree that leaves the recycle bin, and with
\* what comes after that.
LEMMA RestoreGoesOn ==
  ASSUME NEW K, Fits(K), NEW r \in Workers, Upright(files), NEW faults, ~Strays(r),
         Purging(files, faults, notes[r], jobs[r]), RestoreFromTrash(r) \/ PurgeFromTrash(r)
  PROVE  Upright(files') /\ Purging(files', faults, notes'[r], jobs'[r])
<1> DEFINE i == Now(r) l == notes[r] J == Head(jobs[r]) f == i.id space == i.arg
           s == TrashTreeByID(f, space) n == Len(s) first == Untrashing(f, space)
           U == {g \in DOMAIN files : LiveIn(files, g)}
<1>1. jobs[r] # <<>> /\ i.do \in {"restore", "purge"} /\ files' = files
  BY DEF RestoreFromTrash, PurgeFromTrash, At, Read, tableVars
<1>2. Fresh(J) /\ J \in Seq(AllItems(jobs[r])) /\ J # <<>>
  BY <1>1, FirstJob DEF Purgers
<1>3. \A T : \A items \in Seq(T) : items \o Tail(J) = items
  <2> SUFFICES ASSUME NEW T, NEW items \in Seq(T) PROVE items \o Tail(J) = items
    OBVIOUS
  <2> DEFINE S == AllItems(jobs[r])
  <2>1. J \in Seq(S) /\ Len(J) = 1
    BY <1>2 DEF Fresh
  <2> HIDE DEF J, S
  <2>2. Tail(J) = <<>>
    <3>1. J # <<>>
      BY <1>2 DEF J
    <3>2. Tail(J) \in Seq(S) /\ Len(Tail(J)) = 0
      BY <2>1, <3>1
    <3> QED BY <3>2
  <2>3. items \o <<>> = items
    OBVIOUS
  <2> QED BY <2>2, <2>3
<1>4. CASE ~InTrash(f, space)
  <2>1. Fail(r, 404)
    BY <1>4 DEF RestoreFromTrash, PurgeFromTrash
  <2> QED BY <1>1, <2>1, PurgingOn
<1>5. CASE InTrash(f, space)
  <2>1. f \in DOMAIN files /\ files[f].space = space /\ files[f].trashed # 0 /\ TableFits(K)
    BY <1>5, InTrashIsTrashed DEF Fits
  <2>2. Fine(files, files[f].parent)
    <3>1. At(r, "restore") \/ At(r, "purge")
      BY DEF RestoreFromTrash, PurgeFromTrash
    <3>2. files[f].parent = None \/ Live(files[f].parent)
      BY <1>5, <3>1 DEF Strays
    <3> QED BY <3>2, LiveIsLiveIn DEF Fine
  <2>3. FromTop(f, s)
    BY <2>1, TrashTreeFromTop
  <2>4. s \in Seq(DOMAIN files) /\ n \in Nat \ {0} /\ s[1] = f
    BY <2>3 DEF FromTop
  <2> HIDE DEF s
  <2>5. /\ DOMAIN first = 1 .. n /\ first = [x \in 1 .. n |-> first[x]]
        /\ \A x \in 1 .. n : first[x] = Item("untrash", s[x])
    BY <2>4 DEF Untrashing, Each, s
  <2>6. \A x \in 1 .. n : first[x].do = "untrash" /\ first[x].id = s[x]
    <3> SUFFICES ASSUME NEW x \in 1 .. n PROVE first[x].do = "untrash" /\ first[x].id = s[x]
      OBVIOUS
    <3>1. first[x] = Item("untrash", s[x])
      BY <2>5
    <3> QED BY <3>1 DEF Item
  <2> HIDE DEF first, n
  <2>7. CASE RestoreFromTrash(r)
    <3> DEFINE T == {first[x] : x \in 1 .. n}
    <3>1. first \in Seq(T) /\ Len(first) = n
      <4>1. n \in Nat /\ first \in [1 .. n -> T]
        BY <2>4, <2>5
      <4> HIDE DEF T
      <4> QED BY <4>1
    <3> HIDE DEF T
    <3>2. Goes(r, first) /\ notes' = notes
      BY <1>5, <2>7 DEF RestoreFromTrash, Then, first
    <3>3. Reviving(files, first)
      BY <2>2, <2>3, <2>4, <2>6, <3>1, RevivingTree DEF n
    <3>4. Felling(files, first, U)
      <4>1. \A x \in 1 .. Len(first) : first[x].do = "untrash"
        BY <2>6, <3>1
      <4>2. \A x \in 1 .. Len(first) : ~Doomed(first[x]) /\ first[x].do # "del_row"
        BY <4>1 DEF Doomed
      <4> HIDE DEF U
      <4> QED BY <4>2 DEF Felling, Once
    <3>5. \A x \in 1 .. Len(first) : first[x].do \in Enders \ Deletion
      BY <2>6, <3>1 DEF Enders, Deletion
    <3>6. \E V \in SUBSET DOMAIN files : Apex(files, V) /\ Felling(files, first, V)
      BY <3>4, AllIsApex
    <3>7. Ending(files, l, first)
      BY <3>3, <3>5, <3>6 DEF Ending
    <3>8. Purging(files, faults, l, jobs'[r])
      BY <1>1, <1>3, <3>1, <3>2, <3>7, PurgingOn
    <3> QED BY <1>1, <3>2, <3>8
  <2>8. CASE PurgeFromTrash(r)
    <3> DEFINE del == Deleting(f, files[f], space)
               end == ItemFor("unlink", f, files[f].dir)
               items == first \o <<del, end>>
               l2 == [l EXCEPT !.undo = <<>>, !.pending = <<>>]
               T == {first[x] : x \in 1 .. n} \cup {del, end}
    <3>1. Goes(r, items) /\ notes' = [notes EXCEPT ![r] = l2]
      BY <1>5, <2>8 DEF PurgeFromTrash, ThenNoting, first
    <3>2. /\ Doomed(del) /\ del.id = f /\ del.at = space /\ del.arg = files[f]
          /\ del.do = IF files[f].dir THEN "del_list" ELSE "del_row"
          /\ end.do = "unlink"
      BY DeletingIsDoomed, ItemsAreItems
    <3>3. notes'[r].undo = <<>>
      <4>1. LocalsFit(K, request[r], l) /\ notes = [w \in Workers |-> notes[w]]
        BY DEF Fits, WorkFits
      <4>2. ASSUME NEW m, NEW none, NEW m2, m2 = [m EXCEPT !.undo = none, !.pending = none],
                   m = [status |-> m.status, undo |-> m.undo, pending |-> m.pending,
                        made |-> m.made, found |-> m.found, sent |-> m.sent]
            PROVE  m2.undo = none
        BY <4>2
      <4>3. l2.undo = <<>>
        BY <4>1, <4>2 DEF LocalsFit
      <4> HIDE DEF l2
      <4> QED BY <3>1, <4>1, <4>3
    <3> HIDE DEF del, end, l2
    <3>4. /\ items \in Seq(T) /\ Len(items) = n + 2 /\ items[n + 1] = del /\ items[n + 2] = end
          /\ \A x \in 1 .. n : items[x] = first[x]
      <4>1. n \in Nat /\ first \in [1 .. n -> T] /\ del \in T /\ end \in T
        BY <2>4, <2>5
      <4> HIDE DEF T
      <4>2. first \in Seq(T) /\ Len(first) = n
        BY <4>1
      <4> QED BY <4>1, <4>2
    <3> HIDE DEF items, T
    <3>5. \A x \in 1 .. Len(items) : x \in 1 .. n \/ x = n + 1 \/ x = n + 2
      BY <2>4, <3>4
    <3>6. \A x \in 1 .. Len(items) : items[x].do \in Enders
      BY <2>6, <3>2, <3>4, <3>5 DEF Enders, Doomed
    <3>7. Reviving(files, items)
      <4>1. \A x \in n + 1 .. Len(items) : items[x].do # "untrash"
        <5>1. \A x \in n + 1 .. Len(items) : x = n + 1 \/ x = n + 2
          BY <2>4, <3>4
        <5> QED BY <3>2, <3>4, <5>1 DEF Doomed
      <4>2. \A x \in 1 .. n : items[x].do = "untrash" /\ items[x].id = s[x]
        BY <2>6, <3>4
      <4>3. Len(items) \in Nat /\ n <= Len(items)
        BY <2>4, <3>4
      <4> QED BY <2>2, <2>3, <4>1, <4>2, <4>3, RevivingTree DEF n
    <3>8. ASSUME NEW x \in 1 .. Len(items), Doomed(items[x]) PROVE x = n + 1
      BY <2>6, <3>2, <3>4, <3>5, <3>8 DEF Doomed
    <3>9. Leaving(files, U, items, n + 1)
      <4>1. 1 \in 1 .. Len(items) /\ items[1].do = "untrash" /\ items[1].id = f
        <5>1. 1 \in 1 .. n /\ 1 \in 1 .. Len(items)
          BY <2>4, <3>4
        <5> QED BY <2>4, <2>6, <3>4, <5>1
      <4>2. f \notin U
        BY <2>1 DEF LiveIn
      <4>3. files[f].parent = None \/ files[f].parent \in U
        BY <2>2 DEF Fine, LiveIn
      <4> HIDE DEF U
      <4> QED BY <2>1, <3>2, <3>4, <4>1, <4>2, <4>3 DEF Leaving
    <3> HIDE DEF U
    <3>10. Felling(files, items, U)
      <4>1. Once(items)
        BY <3>8 DEF Once
      <4>2. ASSUME NEW x \in 1 .. Len(items), items[x].do = "del_row", items[x].arg.dir PROVE FALSE
        <5>1. x = n + 1
          BY <3>8, <4>2 DEF Doomed
        <5> QED BY <3>2, <3>4, <4>2, <5>1
      <4> QED BY <3>8, <3>9, <4>1, <4>2 DEF Felling
    <3>11. Undone(files, notes'[r].undo)
      <4>1. \A a \in 1 .. Len(<<>>) : FALSE
        OBVIOUS
      <4> QED BY <3>3, <4>1 DEF Undone
    <3>12. \E V \in SUBSET DOMAIN files : Apex(files, V) /\ Felling(files, items, V)
      BY <3>10, AllIsApex DEF U
    <3> DEFINE l3 == notes'[r]
    <3>13. Undone(files, l3.undo) /\ l3.undo = <<>>
      BY <3>3, <3>11
    <3> HIDE DEF l3
    <3>14. Ending(files, l3, items)
      BY <3>6, <3>7, <3>12, <3>13 DEF Ending
    <3>15. Purging(files, faults, l3, jobs'[r])
      BY <1>1, <1>3, <3>1, <3>4, <3>14, PurgingOn
    <3> QED BY <1>1, <3>15 DEF l3
  <2> QED BY <2>7, <2>8
<1> QED BY <1>4, <1>5

-----------------------------------------------------------------------------
(* What was deleted comes back.                                            *)

LEMMA PuttingBackOn ==
  ASSUME NEW rows, NEW rows2, NEW J, NEW J2, NEW items, Splices(J2, items, J), Len(items) = 0,
         PuttingBack(rows, J), \A g : LiveIn(rows, g) => LiveIn(rows2, g),
         \A g \in DOMAIN rows2 : g \in DOMAIN rows \/ LiveIn(rows2, g),
         J[1].do = "undo_put" => LiveIn(rows2, J[1].id)
  PROVE  PuttingBack(rows2, J2)
<1>1. /\ Len(J) \in Nat \ {0} /\ Len(J2) = Len(J) - 1
      /\ \A m \in 2 .. Len(J) : J2[m - 1] = J[m]
  BY DEF Splices
<1>2. \A p : Fine(rows, p) => Fine(rows2, p)
  BY DEF Fine
<1>3. ASSUME NEW x \in 1 .. Len(J2)
      PROVE  /\ J2[x].do \in Undoers
             /\ J2[x].do = "undo_put" =>
                  /\ J2[x].id \in DOMAIN rows2 => LiveIn(rows2, J2[x].id)
                  /\ \/ Fine(rows2, J2[x].arg.parent)
                     \/ \E y \in 1 .. x - 1 : J2[y].do = "undo_put" /\ J2[y].id = J2[x].arg.parent
  <2> DEFINE m == x + 1 i == J[m] p == i.arg.parent
  <2>1. m \in 2 .. Len(J) /\ m \in 1 .. Len(J) /\ m - 1 = x /\ x \in Nat
    BY <1>1, <1>3
  <2>2. J2[x] = i
    BY <1>1, <2>1
  <2>3. /\ i.do \in Undoers
        /\ i.do = "undo_put" =>
             /\ i.id \in DOMAIN rows => LiveIn(rows, i.id)
             /\ Fine(rows, p) \/ \E y \in 1 .. m - 1 : J[y].do = "undo_put" /\ J[y].id = p
    BY <2>1 DEF PuttingBack
  <2> HIDE DEF i, p
  <2>4. ASSUME NEW y \in 1 .. m - 1, J[y].do = "undo_put", J[y].id = p
        PROVE  Fine(rows2, p) \/ \E z \in 1 .. x - 1 : J2[z].do = "undo_put" /\ J2[z].id = p
    <3>1. CASE y = 1
      BY <2>4, <3>1 DEF Fine
    <3>2. CASE y # 1
      <4>1. y - 1 \in 1 .. x - 1 /\ y \in 2 .. Len(J)
        BY <2>1, <2>4, <3>2
      <4>2. J2[y - 1] = J[y]
        BY <1>1, <4>1
      <4> QED BY <2>4, <4>1, <4>2
    <3> QED BY <3>1, <3>2
  <2>5. i.do = "undo_put" =>
          Fine(rows2, p) \/ \E z \in 1 .. x - 1 : J2[z].do = "undo_put" /\ J2[z].id = p
    BY <1>2, <2>3, <2>4
  <2>6. i.do = "undo_put" /\ i.id \in DOMAIN rows2 => LiveIn(rows2, i.id)
    BY <2>3
  <2> QED BY <2>2, <2>3, <2>5, <2>6 DEF p
<1> QED BY <1>3 DEF PuttingBack

\* A row comes back after its directory.
LEMMA UndoGoesOn ==
  ASSUME NEW K, Fits(K), NEW r \in Workers, Upright(files), NEW faults,
         Purging(files, faults, notes[r], jobs[r]), UndoPut(r) \/ UndoDecr(r)
  PROVE  Upright(files') /\ Purging(files', faults, notes'[r], jobs'[r])
<1> DEFINE i == Now(r) l == notes[r] J == Head(jobs[r]) f == i.id row == i.arg
           new == [row EXCEPT !.trashed = 0] T == {} items == <<>> J2 == items \o Tail(J)
<1>1. jobs[r] # <<>> /\ i.do \in {"undo_put", "undo_incr"} /\ i.do \notin Special
  BY DEF UndoPut, UndoDecr, At, Special
<1>2. faults = 0 /\ PuttingBack(files, J) /\ J \in Seq(AllItems(jobs[r])) /\ J # <<>>
      /\ Len(J) \in Nat \ {0} /\ J[1] = i
  BY <1>1, FirstJob DEF Undoers
<1>3. i.do = "undo_put" => RowFits(K, f, row)
  BY <1>1, PlainWorks DEF Good
<1>4. Goes(r, items) /\ notes' = notes
  BY DEF UndoPut, UndoDecr, Done, Then
<1>5. items \in Seq(T) /\ Len(items) = 0
  OBVIOUS
<1> HIDE DEF T, items
<1>6. Splices(J2, items, J)
  <2> DEFINE S == AllItems(jobs[r]) V == T \cup S
  <2>1. J \in Seq(S) /\ J # <<>>
    BY <1>2
  <2> HIDE DEF J, S
  <2>2. items \in Seq(V) /\ J \in Seq(V)
    BY <1>5, <2>1
  <2> HIDE DEF V
  <2> QED BY <2>1, <2>2, SplicedJobs
<1> HIDE DEF J2
<1>7. ASSUME /\ \A g : LiveIn(files, g) => LiveIn(files', g)
             /\ \A g \in DOMAIN files' : g \in DOMAIN files \/ LiveIn(files', g)
             /\ i.do = "undo_put" => LiveIn(files', f)
      PROVE  Purging(files', faults, l, jobs'[r])
  <2> DEFINE rows2 == files'
  <2>1. /\ \A g : LiveIn(files, g) => LiveIn(rows2, g)
        /\ \A g \in DOMAIN rows2 : g \in DOMAIN files \/ LiveIn(rows2, g)
        /\ J[1].do = "undo_put" => LiveIn(rows2, J[1].id)
    BY <1>2, <1>7
  <2> HIDE DEF rows2, J
  <2>2. PuttingBack(rows2, J2)
    BY <1>2, <1>5, <1>6, <2>1, PuttingBackOn
  <2>3. Purging(rows2, faults, l, jobs'[r])
    BY <1>1, <1>2, <1>4, <1>5, <2>2, PurgingOn DEF J2, J
  <2> QED BY <2>3 DEF rows2
<1>8. CASE i.do = "undo_put" /\ f \notin DOMAIN files
  <2>1. files' = PutFile(f, row)
    BY <1>8 DEF UndoPut, UndoDecr, At, FilesOnly
  <2>2. new.trashed = 0 /\ new.parent = row.parent
    BY <1>3, <1>8 DEF RowFits, IsRow
  <2>3. files' = [g \in DOMAIN files \cup {f} |-> IF g = f THEN new ELSE files[g]]
    BY <2>1 DEF PutFile
  <2>4. Fine(files, row.parent)
    <3>1. 1 \in 1 .. Len(J) /\ \A y \in 1 .. 1 - 1 : FALSE
      BY <1>2
    <3> HIDE DEF J, i
    <3>2. \/ Fine(files, J[1].arg.parent)
          \/ \E y \in 1 .. 1 - 1 : J[y].do = "undo_put" /\ J[y].id = J[1].arg.parent
      BY <1>2, <1>8, <3>1 DEF PuttingBack
    <3> QED BY <1>2, <3>1, <3>2
  <2> HIDE DEF f, new, row
  <2>5. /\ DOMAIN files' = DOMAIN files \cup {f}
        /\ \A g \in DOMAIN files : files'[g] = files[g]
        /\ files'[f].trashed = 0 /\ files'[f].parent = row.parent
    BY <1>8, <2>2, <2>3
  <2>6. LiveIn(files', f) /\ \A g : LiveIn(files, g) => LiveIn(files', g)
    BY <2>5 DEF LiveIn
  <2>7. \A p : Fine(files, p) => Fine(files', p)
    BY <2>6 DEF Fine
  <2>8. ASSUME NEW g \in DOMAIN files', LiveIn(files', g) PROVE Fine(files', files'[g].parent)
    <3>1. CASE g = f
      BY <2>4, <2>5, <2>7, <3>1
    <3>2. CASE g # f
      <4>1. g \in DOMAIN files /\ LiveIn(files, g)
        BY <2>5, <2>8, <3>2 DEF LiveIn
      <4> QED BY <2>5, <2>7, <4>1 DEF Upright
    <3> QED BY <3>1, <3>2
  <2>9. \A g \in DOMAIN files' : g \in DOMAIN files \/ LiveIn(files', g)
    BY <2>5, <2>6
  <2>10. Upright(files')
    BY <2>8 DEF Upright
  <2> QED BY <1>4, <1>7, <2>6, <2>9, <2>10
<1>9. CASE ~(i.do = "undo_put" /\ f \notin DOMAIN files)
  <2>1. files' = files
    BY <1>9 DEF UndoPut, UndoDecr, At, BlobsOnly, Read, tableVars
  <2>2. i.do = "undo_put" => LiveIn(files, f)
    <3>1. 1 \in 1 .. Len(J)
      BY <1>2
    <3> HIDE DEF J, i
    <3>2. J[1].do = "undo_put" => (J[1].id \in DOMAIN files => LiveIn(files, J[1].id))
      BY <1>2, <3>1 DEF PuttingBack
    <3> QED BY <1>2, <1>9, <3>2
  <2> QED BY <1>4, <1>7, <2>1, <2>2
<1> QED BY <1>8, <1>9

\* A deletion that fails turns into putting back what it has deleted.
LEMMA RollbackGoesOn ==
  ASSUME NEW K, Fits(K), NEW r \in Workers, jobs[r] # <<>>, NEW faults,
         Purging(files, faults, notes[r], jobs[r]), Now(r).do \in Deletion, NEW code, Rollback(r, code),
         NEW l2
  PROVE  Purging(files, 0, l2, jobs'[r])
<1> DEFINE i == Now(r) l == notes[r] J == Head(jobs[r]) js == jobs[r] undo == l.undo n == Len(undo)
           back == Reverse(undo) S == AllItems(js) T == Range(undo)
<1>1. i.do \in Enders
  BY DEF Enders, Deletion
<1>2. Ending(files, l, J) /\ Len(J) \in Nat \ {0} /\ J[1] = i
      /\ \A m \in DOMAIN js \ {1} : Fresh(js[m])
  BY <1>1, FirstJob
<1>3. Undone(files, undo)
  <2>1. 1 \in 1 .. Len(J) /\ J[1].do \in Deletion
    BY <1>2
  <2> HIDE DEF J
  <2> QED BY <1>2, <2>1 DEF Ending
<1>4. undo \in Seq(T) /\ \A u \in T : u.do \in Undoers
  <2>1. LocalsFit(K, request[r], l)
    BY DEF Fits, WorkFits
  <2> QED BY <2>1 DEF LocalsFit, IsList, Undoers
<1>5. jobs'[r] = (IF undo = <<>> THEN <<>> ELSE <<back>>) \o Tail(js)
  <2>1. jobs = [s \in Workers |-> jobs[s]]
    BY DEF Fits, WorkFits
  <2> QED BY <2>1 DEF Rollback
<1>6. n \in Nat /\ Len(back) = n /\ \A x \in 1 .. n : n - x + 1 \in 1 .. n /\ back[x] = undo[n - x + 1]
  <2> HIDE DEF T, undo
  <2>1. n \in Nat
    BY <1>4
  <2>2. back = [x \in 1 .. n |-> undo[(n - x) + 1]]
    BY DEF Reverse
  <2> HIDE DEF n
  <2> QED BY <2>1, <2>2
<1> HIDE DEF back
<1>7. ASSUME NEW x \in 1 .. Len(back)
      PROVE  /\ back[x].do \in Undoers
             /\ back[x].do = "undo_put" =>
                  /\ back[x].id \notin DOMAIN files
                  /\ \/ Fine(files, back[x].arg.parent)
                     \/ \E y \in 1 .. x - 1 : back[y].do = "undo_put" /\ back[y].id = back[x].arg.parent
  <2> DEFINE a == n - x + 1
  <2>1. a \in 1 .. Len(undo) /\ back[x] = undo[a] /\ undo[a] \in T
    <3> HIDE DEF undo, T
    <3> QED BY <1>4, <1>6, <1>7
  <2>2. back[x].do \in Undoers
    BY <1>4, <2>1
  <2>3. ASSUME NEW b \in a + 1 .. Len(undo)
        PROVE  n - b + 1 \in 1 .. x - 1 /\ back[n - b + 1] = undo[b]
    <3> HIDE DEF undo
    <3>1. n - b + 1 \in 1 .. x - 1 /\ n - b + 1 \in 1 .. n /\ n - (n - b + 1) + 1 = b
      BY <1>6, <1>7, <2>3
    <3>2. back[n - b + 1] = undo[n - (n - b + 1) + 1]
      BY <1>6, <3>1
    <3> QED BY <3>1, <3>2
  <2> HIDE DEF a, undo
  <2>4. undo[a].do = "undo_put" =>
          /\ undo[a].id \notin DOMAIN files
          /\ \/ Fine(files, undo[a].arg.parent)
             \/ \E b \in a + 1 .. Len(undo) : undo[b].do = "undo_put" /\ undo[b].id = undo[a].arg.parent
    BY <1>3, <2>1 DEF Undone
  <2> QED BY <2>1, <2>2, <2>3, <2>4
<1>8. PuttingBack(files, back)
  BY <1>7 DEF PuttingBack
<1>9. JobsOf(js, S) /\ js # <<>>
  BY JobsAreJobs
<1> HIDE DEF js, S, undo, J, l, i
<1>10. ASSUME NEW k \in DOMAIN jobs'[r] PROVE (k = 1 /\ jobs'[r][k] = back) \/ Fresh(jobs'[r][k])
  <2>1. ASSUME NEW m \in DOMAIN Tail(js) PROVE Fresh(Tail(js)[m])
    <3>1. PICK d \in DOMAIN js \ {1} : Tail(js)[m] = js[d]
      BY <1>9, <2>1, TailJobs
    <3> QED BY <1>2, <3>1
  <2> DEFINE tail == Tail(js)
  <2>2. tail \in Seq(Seq(S) \ {<<>>})
    BY <1>9, TailJobs DEF JobsOf
  <2> HIDE DEF tail
  <2>3. CASE undo = <<>>
    <3>1. jobs'[r] = tail
      BY <1>5, <2>2, <2>3 DEF tail
    <3> QED BY <1>10, <2>1, <3>1 DEF tail
  <2>4. CASE undo # <<>>
    <3>1. jobs'[r] = <<back>> \o tail
      BY <1>5, <2>4 DEF tail
    <3>2. (k = 1 /\ jobs'[r][k] = back) \/ (k - 1 \in DOMAIN tail /\ jobs'[r][k] = tail[k - 1])
      BY <1>10, <2>2, <3>1
    <3> QED BY <2>1, <3>2 DEF tail
  <2> QED BY <2>3, <2>4
<1> QED BY <1>8, <1>10 DEF Purging

\* The janitor's purges are requests like those of the users.
LEMMA ReapGoesOn ==
  ASSUME NEW K, Fits(K), NEW r \in Workers, NEW store, Reap(r, store)
  PROVE  /\ files' = files /\ \A rows, faults, l : Purging(rows, faults, l, jobs'[r])
         /\ \A k \in DOMAIN jobs'[r] : Fresh(jobs'[r][k])
<1> DEFINE due == Those(ListAllFiles, ExpiredRoot) js == Overdue(store, ExpiredRoot)
           one(f) == ItemFor("purge", f, files[f].space)
<1>1. files' = files /\ jobs'[r] = js
  <2>1. jobs = [s \in Workers |-> jobs[s]]
    BY DEF Fits, WorkFits
  <2> QED BY <2>1 DEF Reap, Read, tableVars
<1>2. due \in Seq(DOMAIN files)
  <2>1. ListAllFiles \in Seq(DOMAIN files)
    BY AllFilesAreRows DEF Fits
  <2>2. {i \in DOMAIN ListAllFiles : ExpiredRoot(ListAllFiles[i])} \in SUBSET DOMAIN ListAllFiles
    OBVIOUS
  <2> QED BY <2>1, <2>2, ChosenIsList DEF Those, InOrder
<1>3. js = <<>> \/ js = Each(due, LAMBDA f : <<one(f)>>)
  BY DEF Overdue
<1> HIDE DEF due
<1>4. ASSUME NEW f PROVE Fresh(<<one(f)>>)
  <2>1. one(f).do = "purge"
    BY ItemsAreItems
  <2> HIDE DEF one
  <2> QED BY <2>1 DEF Fresh, Purgers
<1> HIDE DEF one, js
<1>5. ASSUME NEW k \in DOMAIN js PROVE Fresh(js[k])
  <2>1. CASE js = <<>>
    BY <1>5, <2>1
  <2>2. CASE js = Each(due, LAMBDA f : <<one(f)>>)
    <3>1. k \in 1 .. Len(due) /\ js[k] = <<one(due[k])>>
      BY <1>2, <1>5, <2>2 DEF Each
    <3> QED BY <1>4, <3>1
  <2> QED BY <1>3, <2>1, <2>2
<1> QED BY <1>1, <1>5 DEF Purging

-----------------------------------------------------------------------------
(* A call that fails.                                                      *)

\* The rest of the items of a directory whose size cannot be told.
LEMMA SizeLeavesItems ==
  ASSUME NEW K, Fits(K), NEW r \in Workers, jobs[r] # <<>>, SizeFails(r)
  PROVE  AllItems(jobs'[r]) \subseteq AllItems(jobs[r])
<1> DEFINE js == jobs[r] T == AllItems(js) d == Now(r).at
           rest == Those(Head(js), LAMBDA i : i.do # "dir_size" \/ i.at # d)
           after == IF rest = <<>> THEN Tail(js) ELSE <<rest>> \o Tail(js)
<1>1. JobsOf(js, T) /\ js # <<>>
  BY JobsAreJobs
<1>2. Head(js) \in Seq(T) /\ Tail(js) \in Seq(Seq(T) \ {<<>>})
  BY <1>1, TailJobs DEF JobsOf
<1>3. jobs'[r] = after
  <2>1. jobs = [s \in Workers |-> jobs[s]]
    BY DEF Fits, WorkFits
  <2> QED BY <2>1 DEF SizeFails, Leaves
<1> HIDE DEF T, js, d
<1>4. rest \in Seq(T)
  BY <1>2, ChosenIsList DEF Those, InOrder
<1> HIDE DEF rest
<1>5. after \in Seq(Seq(T) \ {<<>>})
  <2>1. CASE rest = <<>>
    BY <1>2, <2>1
  <2>2. CASE rest # <<>>
    <3>1. <<rest>> \in Seq(Seq(T) \ {<<>>})
      BY <1>4, <2>2
    <3>2. <<rest>> \o Tail(js) \in Seq(Seq(T) \ {<<>>})
      BY <1>2, <3>1
    <3> QED BY <2>2, <3>2
  <2> QED BY <2>1, <2>2
<1>6. JobsOf(jobs'[r], T)
  BY <1>3, <1>5 DEF JobsOf
<1> QED BY <1>6, ItemsOf DEF T, js

\* What a fault leads to.
LEMMA FaultLeads ==
  ASSUME NEW K, Fits(K), NEW r \in Workers, Fault(r)
  PROVE  /\ jobs[r] # <<>> /\ files' = files /\ request' = request /\ budget.faults > 0
         /\ budget' = [budget EXCEPT !.faults = @ - 1]
         /\ Now(r).do \in Deletion => Rollback(r, 500)
         /\ Now(r).do \in Ignored => Done(r)
         /\ Now(r).do = "target" => Refuse(r, 500)
         /\ Now(r).do \notin Ignored \cup Deletion \cup {"target", "dir_size", "unlink"} => Fail(r, 500)
         /\ Now(r).do \notin Deletion \cup {"unlink"} =>
              /\ \/ notes' = notes
                 \/ \E x : notes' = [notes EXCEPT ![r].status = x]
                 \/ \E y : notes' = [notes EXCEPT ![r].sent = y]
              /\ AllItems(jobs'[r]) \subseteq AllItems(jobs[r])
         /\ Now(r).do = "unlink" =>
              \/ Fail(r, 500)
              \/ \E x : ThenNoting(r, <<Now(r)>>, [notes[r] EXCEPT !.pending = x])
<1> DEFINE do == Now(r).do
<1>1. jobs[r] # <<>> /\ files' = files /\ budget.faults > 0 /\ budget' = [budget EXCEPT !.faults = @ - 1]
  BY DEF Fault, Read, ObjectsOnly, tableVars
<1>2. CASE do \in Ignored
  <2>1. Done(r) /\ do \notin Deletion \cup {"target", "dir_size", "unlink"}
    BY <1>2 DEF Fault, Ignored, Deletion
  <2>2. AllItems(jobs'[r]) \subseteq AllItems(jobs[r]) /\ notes' = notes /\ request' = request
    BY <1>1, <2>1, LeftToDo DEF Done, Then
  <2> QED BY <1>1, <1>2, <2>1, <2>2
<1>3. CASE do \in Deletion
  <2>1. Rollback(r, 500) /\ do \notin Ignored \cup {"target", "dir_size", "unlink"}
    BY <1>3 DEF Fault, Ignored, Deletion
  <2>2. request' = request
    BY <2>1 DEF Rollback
  <2> QED BY <1>1, <1>3, <2>1, <2>2
<1>4. CASE do = "target"
  <2>1. Refuse(r, 500) /\ do \notin Ignored \cup Deletion \cup {"unlink"}
    BY <1>4 DEF Fault, Ignored, Deletion
  <2>2. AllItems(jobs'[r]) = {}
    BY <1>1, <2>1, LeftToDo
  <2>3. (\E x : notes' = [notes EXCEPT ![r].status = x]) /\ request' = request
    BY <2>1 DEF Refuse
  <2> QED BY <1>1, <1>4, <2>1, <2>2, <2>3
<1>5. CASE do = "dir_size"
  <2>1. SizeFails(r) /\ do \notin Ignored \cup Deletion \cup {"target", "unlink"}
    BY <1>5 DEF Fault, Ignored, Deletion
  <2>2. AllItems(jobs'[r]) \subseteq AllItems(jobs[r])
    BY <1>1, <2>1, SizeLeavesItems
  <2>3. (\E x : notes' = [notes EXCEPT ![r].sent = x]) /\ request' = request
    BY <2>1 DEF SizeFails
  <2> QED BY <1>1, <1>5, <2>1, <2>2, <2>3
<1>6. CASE do = "unlink"
  <2>1. do \notin Ignored \cup Deletion \cup {"target", "dir_size"}
    BY <1>6 DEF Ignored, Deletion
  <2>2. Fail(r, 500) \/ \E x : ThenNoting(r, <<Now(r)>>, [notes[r] EXCEPT !.pending = x])
    BY <1>6 DEF Fault, Ignored, Deletion
  <2>3. request' = request
    BY <2>2 DEF Fail, ThenNoting
  <2> QED BY <1>1, <1>6, <2>1, <2>2, <2>3
<1>7. CASE do \notin Ignored \cup Deletion \cup {"target", "dir_size", "unlink"}
  <2>1. Fail(r, 500)
    BY <1>7 DEF Fault
  <2>2. AllItems(jobs'[r]) \subseteq AllItems(jobs[r])
    <3>1. jobs'[r] = Tail(jobs[r])
      BY <2>1, StepLeaves
    <3>2. AllItems(Tail(jobs[r])) \subseteq AllItems(jobs[r])
      BY <1>1, JobsAreJobs, AfterItems
    <3> QED BY <3>1, <3>2
  <2>3. (notes' = notes \/ \E x : notes' = [notes EXCEPT ![r].status = x]) /\ request' = request
    BY <2>1 DEF Fail
  <2> QED BY <1>1, <1>7, <2>1, <2>2, <2>3
<1> QED BY <1>2, <1>3, <1>4, <1>5, <1>6, <1>7

\* Each kind of request stays orderly when a call fails.
LEMMA FaultOfPurge ==
  ASSUME NEW K, Fits(K), NEW r \in Workers, Fault(r),
         Purging(files, budget.faults, notes[r], jobs[r])
  PROVE  Purging(files, 0, notes'[r], jobs'[r])
<1> DEFINE i == Now(r) l == notes[r] J == Head(jobs[r]) l2 == notes'[r]
<1>1. jobs[r] # <<>> /\ budget.faults > 0
  BY FaultLeads
<1>2. J[1] = i /\ Len(J) \in Nat \ {0} /\ i.do \in Purgers \cup Enders \cup Undoers
  <2>1. J[1] = i /\ Len(J) \in Nat \ {0}
    BY <1>1, FirstJob
  <2>2. 1 \in DOMAIN jobs[r] /\ J = jobs[r][1]
    <3>1. JobsOf(jobs[r], AllItems(jobs[r]))
      BY JobsAreJobs
    <3> QED BY <1>1, <3>1, TailJobs
  <2>3. \/ Fresh(J) \/ Ending(files, l, J) \/ PuttingBack(files, J)
    BY <2>2 DEF Purging
  <2> HIDE DEF J, i
  <2>4. 1 \in 1 .. Len(J)
    BY <2>1
  <2> QED BY <2>1, <2>3, <2>4 DEF Fresh, Ending, PuttingBack
<1>3. i.do \notin Undoers
  <2>1. i.do \in Undoers => budget.faults = 0
    BY <1>1, FirstJob
  <2> QED BY <1>1, <2>1
<1>4. CASE i.do \in Deletion
  BY <1>1, <1>4, FaultLeads, RollbackGoesOn
<1>5. CASE i.do \in Purgers \cup {"untrash"}
  <2>1. i.do \notin Ignored \cup Deletion \cup {"target", "dir_size", "unlink"}
    BY <1>5 DEF Purgers, Ignored, Deletion
  <2>2. Fail(r, 500)
    BY <2>1, FaultLeads
  <2> HIDE DEF l2
  <2>3. Purging(files, 0, l2, jobs'[r])
    BY <1>1, <2>2, PurgingOn
  <2> QED BY <2>3 DEF l2
<1>6. CASE i.do \in {"del_blob", "unlink"}
  <2>1. i.do \in Enders /\ i.do # "del_list" /\ i.do # "untrash" /\ Plain(i) /\ ~Doomed(i) /\ i.do \notin Deletion
        /\ i.do \notin Special
    BY <1>6 DEF Enders, Plain, Doomed, Deletion, Special
  <2>2. Ending(files, l, J) /\ Survives(files, files, i) /\ LocalsFit(K, request[r], l)
    BY <1>1, <2>1, FirstJob, NothingLost, PlainWorks
  <2>3. notes = [s \in Workers |-> notes[s]]
    BY DEF Fits, WorkFits
  \* It goes on with some plain items, and undoes no less.
  <2>4. ASSUME NEW T, NEW items \in Seq(T), Goes(r, items), \A x \in 1 .. Len(items) : items[x] = i,
               l2.undo = l.undo
        PROVE  Purging(files, 0, l2, jobs'[r])
    <3>1. (\E x \in 1 .. Len(J) : J[x].do \in Deletion) => Undone(files, l2.undo)
      BY <2>2, <2>4 DEF Ending
    <3>2. \A x \in 1 .. Len(items) : Plain(items[x]) /\ (items[x].do \in Deletion => i.do \in Deletion)
      BY <2>1, <2>4
    <3> HIDE DEF l2
    <3> QED BY <1>1, <2>1, <2>2, <2>4, <3>1, <3>2, EndingGoesOn
  <2>5. CASE Done(r)
    <3> DEFINE T == {} items == <<>>
    <3>1. items \in Seq(T) /\ Goes(r, items) /\ Len(items) = 0 /\ l2.undo = l.undo
      BY <2>5 DEF Done, Then
    <3> HIDE DEF T, items, l2
    <3>2. \A x \in 1 .. Len(items) : items[x] = i
      BY <3>1
    <3>3. Purging(files, 0, l2, jobs'[r])
      BY <2>4, <3>1, <3>2
    <3> QED BY <3>3 DEF l2
  <2>6. ASSUME NEW x, ThenNoting(r, <<i>>, [l EXCEPT !.pending = x]) PROVE Purging(files, 0, l2, jobs'[r])
    <3> DEFINE T == {i} items == <<i>>
    <3>1. items \in Seq(T) /\ Goes(r, items) /\ Len(items) = 1 /\ items[1] = i
      BY <2>6 DEF ThenNoting
    <3>2. notes' = [notes EXCEPT ![r] = [l EXCEPT !.pending = x]]
      BY <2>6 DEF ThenNoting
    <3>3. l2.undo = l.undo
      BY <2>2, <2>3, <3>2 DEF LocalsFit
    <3> HIDE DEF T, items, l2
    <3>4. \A y \in 1 .. Len(items) : items[y] = i
      BY <3>1
    <3> QED BY <2>4, <3>1, <3>3, <3>4
  <2>7. CASE Fail(r, 500)
    <3> HIDE DEF l2
    <3>1. Purging(files, 0, l2, jobs'[r])
      BY <1>1, <2>7, PurgingOn
    <3> QED BY <3>1 DEF l2
  <2>8. i.do = "del_blob" => i.do \in Ignored
    BY DEF Ignored
  <2>9. Done(r) \/ Fail(r, 500) \/ \E x : ThenNoting(r, <<i>>, [l EXCEPT !.pending = x])
    BY <1>6, <2>8, FaultLeads
  <2> QED BY <2>5, <2>6, <2>7, <2>9
<1> QED BY <1>2, <1>3, <1>4, <1>5, <1>6 DEF Purgers, Enders, Undoers, Deletion

LEMMA FaultGoesOn ==
  ASSUME NEW K, Fits(K), NEW r \in Workers, OrderlyAt(r), Fault(r)
  PROVE  files' = files /\ Orderly(files', 0, request'[r], notes'[r], jobs'[r])
<1> DEFINE js == jobs[r] i == Now(r) l == notes[r] q == request[r]
<1>1. /\ js # <<>> /\ files' = files /\ request' = request
      /\ JobsOf(js, AllItems(js)) /\ i = Head(Head(js)) /\ i \in AllItems(js)
  <2>1. js # <<>> /\ files' = files /\ request' = request
    BY FaultLeads
  <2>2. JobsOf(js, AllItems(js)) /\ i = Head(Head(js))
    BY JobsAreJobs DEF Now
  <2>3. i \in AllItems(js)
    BY <2>1, LeftToDo
  <2> QED BY <2>1, <2>2, <2>3
<1>2. CASE Within(js, Others)
  <2>1. i.do \notin Deletion \cup {"unlink"}
    BY <1>1, <1>2 DEF Within, Others, Deletion
  <2>2. Within(jobs'[r], Others)
    BY <1>2, <2>1, FaultLeads DEF Within
  <2> QED BY <1>1, <2>2 DEF Orderly
<1>3. CASE Trashing(files, js)
  <2>1. i.do \in Trashers
    BY <1>1, <1>3 DEF Trashing, Within
  <2>2. Fail(r, 500)
    <3>1. i.do \notin Ignored \cup Deletion \cup {"target", "dir_size", "unlink"}
      BY <2>1 DEF Trashers, Ignored, Deletion
    <3> QED BY <3>1, FaultLeads
  <2>3. jobs'[r] = Tail(js) /\ AllItems(jobs'[r]) \subseteq AllItems(js)
    BY <1>1, <2>2, StepLeaves, LeftToDo
  <2>4. \A k \in DOMAIN Tail(js) : Marked(files, Tail(js)[k])
    BY <1>1, <1>3, MarkedOn DEF Trashing
  <2>5. Trashing(files', jobs'[r])
    BY <1>1, <1>3, <2>3, <2>4 DEF Trashing, Within
  <2> QED BY <1>1, <2>5 DEF Orderly
<1>4. CASE Moving(files, q, js)
  <2>1. i.do \in Movers
    BY <1>1, <1>4 DEF Moving, Within
  <2>2. i.do \notin Deletion \cup {"unlink"}
    BY <2>1 DEF Movers, Deletion
  <2>3. AllItems(jobs'[r]) \subseteq AllItems(js) /\ request'[r] = q
    BY <1>1, <2>2, FaultLeads
  <2>4. Moving(files', request'[r], jobs'[r])
    BY <1>1, <1>4, <2>3 DEF Moving, Within
  <2> QED BY <1>1, <2>4 DEF Orderly
<1>5. CASE Duplicating(files, q, js)
  <2>1. i.do \in Copiers
    BY <1>1, <1>5 DEF Duplicating, Within
  <2>2. i.do \notin Deletion \cup {"unlink"}
    BY <2>1 DEF Copiers, Deletion
  <2>3. CASE i.do = "target"
    <3>1. jobs'[r] = <<>> /\ AllItems(jobs'[r]) = {}
      BY <1>1, <2>3, FaultLeads, LeftToDo
    <3>2. Within(jobs'[r], Others)
      BY <3>1 DEF Within
    <3> QED BY <1>1, <3>2 DEF Orderly
  <2>4. CASE i.do # "target"
    <3>1. Fine(files, q.to)
      BY <1>1, <1>5, <2>4 DEF Duplicating
    <3>2. AllItems(jobs'[r]) \subseteq AllItems(js)
      BY <2>2, FaultLeads
    <3>3. Duplicating(files', request'[r], jobs'[r])
      BY <1>1, <1>5, <3>1, <3>2 DEF Duplicating, Within
    <3> QED BY <1>1, <3>3 DEF Orderly
  <2> QED BY <2>3, <2>4
<1>6. CASE Submitting(files, l, js)
  <2>1. i.do \in Submitters
    BY <1>1, <1>6 DEF Submitting, Within
  <2>2. i.do \notin Deletion \cup {"unlink"}
    BY <2>1 DEF Submitters, Deletion
  <2>3. AllItems(jobs'[r]) \subseteq AllItems(js)
    BY <2>2, FaultLeads
  <2>4. notes'[r].made = l.made
    <3>1. notes = [s \in Workers |-> notes[s]] /\ LocalsFit(K, q, l)
      BY DEF Fits, WorkFits
    <3>2. \/ notes' = notes \/ \E x : notes' = [notes EXCEPT ![r].status = x]
          \/ \E x : notes' = [notes EXCEPT ![r].sent = x]
      BY <2>2, FaultLeads
    <3> QED BY <3>1, <3>2 DEF LocalsFit
  <2>5. Submitting(files', notes'[r], jobs'[r])
    BY <1>1, <1>6, <2>3, <2>4 DEF Submitting, Within
  <2> QED BY <1>1, <2>5 DEF Orderly
<1>7. CASE Purging(files, budget.faults, l, js)
  BY <1>1, <1>7, FaultOfPurge DEF Orderly
<1> QED BY <1>2, <1>3, <1>4, <1>5, <1>6, <1>7 DEF OrderlyAt, Orderly

-----------------------------------------------------------------------------
(* A worker at work, and the others.                                       *)

\* The other workers stay where they are.
KeepsTo(r) == \A s \in Workers : s # r => jobs'[s] = jobs[s]

LEMMA KeepsToItself ==
  ASSUME NEW K, Fits(K), NEW r \in Workers
  PROVE  /\ \A items : Goes(r, items) => KeepsTo(r)
         /\ \A items : Then(r, items) => KeepsTo(r)
         /\ \A items, n : ThenNoting(r, items, n) => KeepsTo(r)
         /\ \A items, i : Undoable(r, items, i) => KeepsTo(r)
         /\ Done(r) => KeepsTo(r)
         /\ \A code : Fail(r, code) => KeepsTo(r)
         /\ \A code : Refuse(r, code) => KeepsTo(r)
         /\ \A code : Rollback(r, code) => KeepsTo(r)
         /\ SizeFails(r) => KeepsTo(r)
<1>1. jobs = [s \in Workers |-> jobs[s]]
  BY DEF Fits, WorkFits
<1>2. \A js : jobs' = [jobs EXCEPT ![r] = js] => KeepsTo(r)
  BY <1>1 DEF KeepsTo
<1>3. ASSUME NEW items, Goes(r, items) PROVE KeepsTo(r)
  BY <1>2, <1>3 DEF Goes, Leaves
<1>4. ASSUME NEW code, Fail(r, code) \/ Refuse(r, code) \/ Rollback(r, code) PROVE KeepsTo(r)
  BY <1>2, <1>4 DEF Fail, Refuse, Rollback
<1>5. ASSUME SizeFails(r) PROVE KeepsTo(r)
  BY <1>2, <1>5 DEF SizeFails, Leaves
<1> QED BY <1>3, <1>4, <1>5 DEF Then, ThenNoting, Undoable, Done

LEMMA DirectoryKeeps ==
  ASSUME NEW K, Fits(K), NEW r \in Workers, NEW store, DirectoryStep(r, store)
  PROVE  jobs[r] # <<>> /\ KeepsTo(r)
<1>1. CASE Trash(r) \/ TrashList(r) \/ TrashMark(r) \/ BatchDelete(r)
  BY <1>1, KeepsToItself DEF Trash, TrashList, TrashMark, BatchDelete, At
<1>2. CASE RestoreFromTrash(r) \/ Untrash(r) \/ PurgeFromTrash(r)
  BY <1>2, KeepsToItself DEF RestoreFromTrash, Untrash, PurgeFromTrash, At
<1>3. CASE DeleteList(r) \/ DeleteRow(r) \/ DeleteReference(r) \/ DeleteCount(r)
  BY <1>3, KeepsToItself DEF DeleteList, DeleteRow, DeleteReference, DeleteCount, At
<1>4. CASE DeferUnlink(r) \/ UnlinkPending(r) \/ UndoPut(r) \/ UndoDecr(r)
  BY <1>4, KeepsToItself DEF DeferUnlink, UnlinkPending, UndoPut, UndoDecr, At
<1>5. CASE Reap(r, store)
  <2>1. jobs = [s \in Workers |-> jobs[s]]
    BY DEF Fits, WorkFits
  <2>2. jobs[r] # <<>> /\ jobs' = [jobs EXCEPT ![r] = Overdue(store, ExpiredRoot)]
    BY <1>5 DEF Reap, At
  <2> QED BY <2>1, <2>2 DEF KeepsTo
<1>6. CASE CheckTarget(r) \/ MoveFile(r) \/ MoveInto(r)
  BY <1>6, KeepsToItself DEF CheckTarget, MoveFile, MoveInto, At
<1>7. CASE ClimbOn(r) \/ SetParent(r)
  BY <1>7, KeepsToItself DEF ClimbOn, SetParent, At
<1>8. CASE Rename(r) \/ SetName(r) \/ BatchTag(r) \/ SetTags(r)
  BY <1>8, KeepsToItself DEF Rename, SetName, BatchTag, SetTags, At
<1> QED BY <1>1, <1>2, <1>3, <1>4, <1>5, <1>6, <1>7, <1>8 DEF DirectoryStep

LEMMA ManifestKeeps ==
  ASSUME NEW K, Fits(K), NEW r \in Workers, ManifestStep(r)
  PROVE  jobs[r] # <<>> /\ KeepsTo(r)
<1>1. CASE ValidateEntry(r) \/ MakeRoot(r) \/ MakeDir(r)
  BY <1>1, KeepsToItself DEF ValidateEntry, MakeRoot, MakeDir, At
<1>2. CASE Adopt(r) \/ Reparent(r) \/ Relocate(r) \/ ReadSource(r)
  BY <1>2, KeepsToItself DEF Adopt, Reparent, Relocate, ReadSource, At
<1>3. CASE WriteTarget(r) \/ FillTarget(r) \/ DeleteSource(r) \/ SetPath(r)
  BY <1>3, KeepsToItself DEF WriteTarget, FillTarget, DeleteSource, SetPath, MoveOn, At
<1>4. CASE Copy(r) \/ CopyRow(r) \/ CopyList(r) \/ CopyReference(r)
  BY <1>4, KeepsToItself DEF Copy, CopyRow, CopyList, CopyReference, At
<1> QED BY <1>1, <1>2, <1>3, <1>4 DEF ManifestStep

LEMMA ArchiveKeeps ==
  ASSUME NEW K, Fits(K), NEW r \in Workers, NEW store, ArchiveStep(r, store)
  PROVE  jobs[r] # <<>> /\ KeepsTo(r)
<1>1. jobs[r] # <<>>
  BY DEF ArchiveStep, GetDirManifest, WalkDir, StreamDir, Pack, PackBlob, PackObject, FetchFiles,
         FetchBlobs, GetFileContent, GetBlob, GetObject, ListDirPage, ListedPage, DirTotalSize,
         GetAncestors, Stat, StatBlob, Usage, ShowTrash, ScanObjects, ScanBlobs, ScanPath,
         ScanCounts, ScanCount, At
<1>2. StaysIn(r, Others)
  BY DirManifestGoesOn, PackGoesOn, FetchGoesOn, GetGoesOn, ListingGoesOn, DirSizeGoesOn,
     StatGoesOn, ScanGoesOn DEF ArchiveStep
<1>3. KeepsTo(r)
  BY <1>2, KeepsToItself DEF StaysIn
<1> QED BY <1>1, <1>3

LEMMA FaultKeeps ==
  ASSUME NEW K, Fits(K), NEW r \in Workers, Fault(r)
  PROVE  jobs[r] # <<>> /\ KeepsTo(r)
<1>1. jobs[r] # <<>>
  BY DEF Fault
<1>2. CASE Now(r).do \in Ignored
  BY <1>1, <1>2, KeepsToItself DEF Fault
<1>3. CASE Now(r).do \notin Ignored /\ Now(r).do \in Deletion
  <2>1. Rollback(r, 500)
    BY <1>3, FaultLeads
  <2> QED BY <1>1, <2>1, KeepsToItself
<1>4. CASE Now(r).do \notin Ignored \cup Deletion
  <2>1. \/ Refuse(r, 500) \/ SizeFails(r) \/ Fail(r, 500)
        \/ ThenNoting(r, <<Now(r)>>, [notes[r] EXCEPT !.pending = Tail(@)])
    BY <1>4 DEF Fault
  <2> QED BY <1>1, <2>1, KeepsToItself
<1> QED BY <1>2, <1>3, <1>4

-----------------------------------------------------------------------------
(* Requests that come one after another.                                   *)

LEMMA DirectoryGoesOn ==
  ASSUME NEW K, Fits(K), NEW r \in Workers, OrderlyAt(r), Upright(files), clock # 0, ~Strays(r),
         NEW store, DirectoryStep(r, store)
  PROVE  Upright(files') /\ Orderly(files', budget.faults, request'[r], notes'[r], jobs'[r])
<1> DEFINE faults == budget.faults do == Now(r).do
           Next2 == Upright(files') /\ Orderly(files', faults, request'[r], notes'[r], jobs'[r])
<1>1. jobs[r] # <<>>
  BY DirectoryKeeps
<1>2. ASSUME Upright(files'), Purging(files', faults, notes'[r], jobs'[r]) PROVE Next2
  BY <1>2 DEF Orderly
<1>3. ASSUME do \in Purgers \cup Enders \cup Undoers PROVE Purging(files, faults, notes[r], jobs[r])
  BY <1>1, <1>3, KindOf
<1>4. CASE Trash(r) \/ TrashList(r) \/ TrashMark(r) \/ BatchDelete(r)
  <2>1. Upright(files') /\ Trashing(files', jobs'[r])
    BY <1>4, TrashGoesOn
  <2> QED BY <2>1 DEF Orderly
<1>5. CASE CheckTarget(r)
  <2>1. do = "target"
    BY <1>5 DEF CheckTarget, At
  <2>2. CASE Moving(files, request[r], jobs[r])
    <3>1. Upright(files') /\ Moving(files', request'[r], jobs'[r])
      BY <1>5, <2>2, MoveGoesOn
    <3> QED BY <3>1 DEF Orderly
  <2>3. CASE Duplicating(files, request[r], jobs[r])
    <3>1. Upright(files') /\ Duplicating(files', request'[r], jobs'[r])
      BY <1>5, <2>3, CopyGoesOn
    <3> QED BY <3>1 DEF Orderly
  <2> QED BY <1>1, <2>1, <2>2, <2>3, KindOf
<1>6. CASE MoveFile(r) \/ MoveInto(r) \/ ClimbOn(r) \/ SetParent(r)
  <2>1. do \in Movers /\ do # "target"
    BY <1>6 DEF MoveFile, MoveInto, ClimbOn, SetParent, At, Movers
  <2>2. Moving(files, request[r], jobs[r])
    BY <1>1, <2>1, KindOf
  <2>3. Upright(files') /\ Moving(files', request'[r], jobs'[r])
    BY <1>6, <2>2, MoveGoesOn
  <2> QED BY <2>3 DEF Orderly
<1>7. CASE Rename(r) \/ SetName(r) \/ BatchTag(r) \/ SetTags(r)
  <2>1. Upright(files') /\ Within(jobs'[r], Others)
    BY <1>7, OthersGoOn
  <2> QED BY <2>1 DEF Orderly
<1>8. CASE RestoreFromTrash(r) \/ PurgeFromTrash(r)
  <2>1. do \in Purgers
    BY <1>8 DEF RestoreFromTrash, PurgeFromTrash, At, Purgers
  <2> QED BY <1>2, <1>3, <1>8, <2>1, RestoreGoesOn
<1>9. CASE Untrash(r)
  <2>1. do \in Enders
    BY <1>9 DEF Untrash, At, Enders
  <2> QED BY <1>2, <1>3, <1>9, <2>1, UntrashGoesOn
<1>10. CASE DeleteList(r)
  <2>1. do \in Enders
    BY <1>10 DEF DeleteList, At, Enders
  <2> QED BY <1>2, <1>3, <1>10, <2>1, DeleteListGoesOn
<1>11. CASE DeleteRow(r)
  <2>1. do \in Enders
    BY <1>11 DEF DeleteRow, At, Enders
  <2> QED BY <1>2, <1>3, <1>11, <2>1, DeleteRowGoesOn
<1>12. CASE DeleteReference(r) \/ DeleteCount(r) \/ DeferUnlink(r) \/ UnlinkPending(r)
  <2>1. do \in Enders
    BY <1>12 DEF DeleteReference, DeleteCount, DeferUnlink, UnlinkPending, At, Enders
  <2>2. files' = files /\ Purging(files', faults, notes'[r], jobs'[r])
    BY <1>3, <1>12, <2>1, ReferenceGoesOn
  <2> QED BY <1>2, <2>2
<1>13. CASE UndoPut(r) \/ UndoDecr(r)
  <2>1. do \in Undoers
    BY <1>13 DEF UndoPut, UndoDecr, At, Undoers
  <2> QED BY <1>2, <1>3, <1>13, <2>1, UndoGoesOn
<1>14. CASE Reap(r, store)
  <2>1. files' = files /\ Purging(files', faults, notes'[r], jobs'[r])
    BY <1>14, ReapGoesOn
  <2> QED BY <1>2, <2>1
<1> QED
  BY <1>4, <1>5, <1>6, <1>7, <1>8, <1>9, <1>10, <1>11, <1>12, <1>13, <1>14 DEF DirectoryStep

LEMMA WorkGoesOn ==
  ASSUME NEW K, Fits(K), NEW r \in Workers, OrderlyAt(r), Upright(files), clock # 0, ~Strays(r), Work(r)
  PROVE  /\ Upright(files') /\ OrderlyAt(r)' /\ jobs[r] # <<>> /\ KeepsTo(r)
<1>1. budget' = budget
  BY DEF Work
<1>2. ASSUME Upright(files'), Orderly(files', budget.faults, request'[r], notes'[r], jobs'[r])
      PROVE  Upright(files') /\ OrderlyAt(r)'
  BY <1>1, <1>2 DEF OrderlyAt
<1>3. CASE DirectoryStep(r, setup.store)
  BY <1>2, <1>3, DirectoryGoesOn, DirectoryKeeps
<1>4. CASE ManifestStep(r)
  <2>1. jobs[r] # <<>> /\ KeepsTo(r)
    BY <1>4, ManifestKeeps
  <2>2. CASE Copy(r) \/ CopyRow(r) \/ CopyList(r) \/ CopyReference(r)
    <3>1. Now(r).do \in Copiers /\ Now(r).do # "target"
      BY <2>2 DEF Copy, CopyRow, CopyList, CopyReference, At, Copiers
    <3>2. Duplicating(files, request[r], jobs[r])
      BY <2>1, <3>1, KindOf
    <3>3. Upright(files') /\ Duplicating(files', request'[r], jobs'[r])
      BY <2>2, <3>2, CopyGoesOn
    <3> QED BY <1>2, <2>1, <3>3 DEF Orderly
  <2>3. CASE \/ ValidateEntry(r) \/ MakeRoot(r) \/ MakeDir(r) \/ Adopt(r) \/ Reparent(r)
             \/ Relocate(r) \/ ReadSource(r) \/ WriteTarget(r) \/ FillTarget(r)
             \/ DeleteSource(r) \/ SetPath(r)
    <3>1. Now(r).do \in Submitters
      BY <2>3 DEF ValidateEntry, MakeRoot, MakeDir, Adopt, Reparent, Relocate, ReadSource, WriteTarget,
                  FillTarget, DeleteSource, SetPath, At, Submitters
    <3>2. Submitting(files, notes[r], jobs[r])
      BY <2>1, <3>1, KindOf
    <3>3. Upright(files') /\ Submitting(files', notes'[r], jobs'[r])
      BY <2>3, <3>2, SubmitGoesOn
    <3> QED BY <1>2, <2>1, <3>3 DEF Orderly
  <2> QED BY <1>4, <2>2, <2>3 DEF ManifestStep
<1>5. CASE ArchiveStep(r, setup.store)
  <2>1. Upright(files') /\ Within(jobs'[r], Others)
    BY <1>5, OthersGoOn
  <2>2. jobs[r] # <<>> /\ KeepsTo(r)
    BY <1>5, ArchiveKeeps
  <2> QED BY <1>2, <2>1, <2>2 DEF Orderly
<1> QED BY <1>3, <1>4, <1>5 DEF Work

-----------------------------------------------------------------------------
(* Arrivals, failures and crashes.                                         *)

\* Jobs whose items are all of one kind.
LEMMA WithinKind ==
  ASSUME NEW js, NEW T, JobsOf(js, T), NEW C, \A i \in T : i.do \in C
  PROVE  Within(js, C) /\ \A k \in DOMAIN js : \A x \in 1 .. Len(js[k]) : js[k][x] \in T
<1>1. AllItems(js) \subseteq T
  BY ItemsOf
<1>2. \A k \in DOMAIN js : js[k] \in Seq(T)
  BY DEF JobsOf
<1>3. \A job \in Seq(T) : \A x \in 1 .. Len(job) : job[x] \in T
  OBVIOUS
<1> QED BY <1>1, <1>2, <1>3 DEF Within

\* What a request starts with: no walk, no deletion, nothing to put back.
Openings == Others \cup Trashers \cup Submitters \cup Purgers \cup {"target", "move", "copy"}

Opens(rows, faults, q, js) == Orderly(rows, faults, q, NoNotes, js) /\ Within(js, Openings)

LEMMA AgendaIsOrderly ==
  ASSUME NEW q, WellFormed(q), NEW rows, NEW faults
  PROVE  Opens(rows, faults, q, Agenda(q))
<1> DEFINE S == Nat \cup {None} ids == q.ids js == Agenda(q)
           Alike == {"batch_tag", "rename", "get_dir", "get", "ls", "stat", "usage", "show_trash"}
<1>1. ids \in Seq(S)
  BY DEF WellFormed
<1>2. \A do : JobsOf(JobsFor(do, ids), ItemsFor(do, S))
  <2> HIDE DEF ids, S
  <2> QED BY <1>1, EachIDWorks
<1>3. \A do : \A i \in ItemsFor(do, S) : i.do = do
  BY ItemsAreItems DEF ItemsFor
<1>0. \A all : Within(all, Others) => Opens(rows, faults, q, all)
  BY DEF Opens, Orderly, Within, Openings
\* A single job of a single item.
<1>4. ASSUME NEW i, js = <<<<i>>>>, i.do \in Others \cup Purgers
      PROVE  Opens(rows, faults, q, js)
  <2> DEFINE T == {i} job == <<i>> one == <<job>>
  <2>1. job \in Seq(T) /\ job # <<>> /\ Len(job) = 1 /\ job[1] = i
    OBVIOUS
  <2> HIDE DEF job, T
  <2>2. one \in Seq(Seq(T) \ {<<>>}) /\ \A k \in DOMAIN one : one[k] = job
    BY <2>1
  <2> HIDE DEF one
  <2>3. JobsOf(one, T)
    BY <2>2 DEF JobsOf
  <2>4. i.do \in Purgers => Purging(rows, faults, NoNotes, one)
    BY <2>1, <2>2 DEF Purging, Fresh
  <2>5. \A C : i.do \in C => Within(one, C)
    <3>1. \A j \in T : j = i
      BY DEF T
    <3> QED BY <2>3, <3>1, WithinKind
  <2>6. js = one
    BY <1>4 DEF one, job
  <2> HIDE DEF js
  <2>7. CASE i.do \in Others
    BY <1>0, <2>5, <2>6, <2>7
  <2>8. CASE i.do \in Purgers
    <3>1. Within(one, Openings)
      BY <2>5, <2>8 DEF Openings
    <3> QED BY <2>4, <2>6, <2>8, <3>1 DEF Opens, Orderly
  <2> QED BY <1>4, <2>7, <2>8
<1>5. CASE q.op = "submit"
  <2> DEFINE entries == q.arg some == [i \in 1 .. Len(entries) |-> Item("validate", i)]
             last == Item("make_root", None) job == some \o <<last>> one == <<job>>
             T == {Item("validate", i) : i \in Nat} \cup {last}
  <2>1. Len(entries) \in Nat
    BY <1>5 DEF WellFormed
  <2>2. some \in Seq(T) /\ last \in T
    <3> HIDE DEF last
    <3>1. last \in T /\ \A i \in 1 .. Len(entries) : Item("validate", i) \in T
      BY <2>1
    <3> HIDE DEF T
    <3> QED BY <2>1, <3>1
  <2>3. \A i \in T : i.do \in Submitters
    BY ItemsAreItems DEF Submitters
  <2>4. js = one
    BY <1>5 DEF Agenda
  <2> HIDE DEF T, some, last
  <2>5. job \in Seq(T) \ {<<>>}
    BY <2>2
  <2> HIDE DEF job
  <2>6. JobsOf(one, T)
    BY <2>5 DEF JobsOf
  <2> HIDE DEF one, js
  <2>7. Within(js, Submitters)
    BY <2>3, <2>4, <2>6, WithinKind
  <2>8. DOMAIN NoNotes.made = {}
    BY DEF NoNotes
  <2>9. Opens(rows, faults, q, js)
    BY <2>7, <2>8 DEF Opens, Orderly, Submitting, Within, Openings
  <2> QED BY <2>9 DEF js
<1>6. ASSUME NEW do \in Alike, js = JobsFor(do, ids) PROVE Opens(rows, faults, q, js)
  <2>1. do \in Others
    BY DEF Others
  <2> HIDE DEF js, ids, S, Alike
  <2>2. Within(js, Others)
    BY <1>2, <1>3, <1>6, <2>1, WithinKind
  <2> QED BY <1>0, <2>2
<1>7. ASSUME NEW do \in {"trash", "batch_delete"}, js = JobsFor(do, ids)
      PROVE  Opens(rows, faults, q, js)
  <2>1. do \in Trashers
    BY DEF Trashers
  <2> HIDE DEF js, ids, S
  <2>2. Within(js, Trashers) /\ Within(js, {do})
        /\ \A k \in DOMAIN js : \A x \in 1 .. Len(js[k]) : js[k][x] \in ItemsFor(do, S)
    BY <1>2, <1>3, <1>7, <2>1, WithinKind
  <2>3. \A k \in DOMAIN js : Marked(rows, js[k])
    BY <1>3, <2>2 DEF Marked
  <2>4. Trashing(rows, js)
    BY <2>2, <2>3 DEF Trashing, Within
  <2>5. Within(js, Openings)
    BY <2>2 DEF Within, Openings
  <2> QED BY <2>4, <2>5 DEF Opens, Orderly
<1>8. CASE q.op \in {"batch_move", "batch_copy"}
  <2> DEFINE do == IF q.op = "batch_move" THEN "move" ELSE "copy"
             i == Item("target", None) rest == JobsFor(do, ids) U == ItemsFor(do, S)
             T == U \cup {i} job == <<i>> first == <<job>> all == first \o rest
  <2>1. js = all
    BY <1>8 DEF Agenda, JobsFor
  <2>2. i.do = "target"
    BY ItemsAreItems
  <2>3. JobsOf(rest, U) /\ \A j \in U : j.do = do
    BY <1>2, <1>3
  <2>4. (q.op = "batch_move" /\ do = "move") \/ (q.op = "batch_copy" /\ do = "copy")
    BY <1>8
  <2> HIDE DEF do, i, rest, U
  <2>5. JobsOf(rest, T)
    <3>1. JobsOf(rest, {i} \cup U)
      BY <2>3, JobsOfMore
    <3>2. {i} \cup U = T
      OBVIOUS
    <3> QED BY <3>1, <3>2
  <2>6. \A j \in T : j.do = do \/ j.do = "target"
    BY <2>2, <2>3
  <2>7. job \in Seq(T) \ {<<>>} /\ Head(job) = i
    <3>1. i \in T
      OBVIOUS
    <3> HIDE DEF T
    <3> QED BY <3>1
  <2> HIDE DEF T, job
  <2>8. first \in Seq(Seq(T) \ {<<>>}) /\ rest \in Seq(Seq(T) \ {<<>>}) /\ Len(first) = 1 /\ first[1] = job
    BY <2>5, <2>7 DEF JobsOf
  <2> HIDE DEF first
  <2>9. all \in Seq(Seq(T) \ {<<>>}) /\ Head(all) = job
    <3>1. ASSUME NEW V, NEW a \in Seq(V), NEW b \in Seq(V), Len(a) = 1
          PROVE  a \o b \in Seq(V) /\ a \o b # <<>> /\ (a \o b)[1] = a[1]
      <4>1. a \o b \in Seq(V) /\ Len(a \o b) = 1 + Len(b) /\ Len(b) \in Nat /\ (a \o b)[1] = a[1]
        <5>1. a \o b \in Seq(V) /\ Len(a \o b) = Len(a) + Len(b) /\ Len(b) \in Nat
          OBVIOUS
        <5>2. \A x \in 1 .. Len(a) : (a \o b)[x] = a[x]
          OBVIOUS
        <5>3. 1 \in 1 .. Len(a)
          BY <3>1
        <5> QED BY <3>1, <5>1, <5>2, <5>3
      <4>2. Len(<<>>) = 0
        OBVIOUS
      <4> DEFINE ab == a \o b
      <4> HIDE DEF ab
      <4>3. ab # <<>>
        BY <4>1, <4>2 DEF ab
      <4> QED BY <4>1, <4>3 DEF ab
    <3>2. all \in Seq(Seq(T) \ {<<>>}) /\ all # <<>> /\ all[1] = job
      BY <2>8, <3>1
    <3> HIDE DEF all
    <3> QED BY <3>2
  <2> HIDE DEF all, js
  <2>10. JobsOf(all, T) /\ Head(Head(all)).do = "target"
    BY <2>2, <2>7, <2>9 DEF JobsOf
  <2>11. Within(js, {do, "target"})
    BY <2>1, <2>6, <2>10, WithinKind
  <2>12. Within(js, Openings)
    BY <2>4, <2>11 DEF Within, Openings
  <2>13. CASE do = "move"
    <3>1. Moving(rows, q, js)
      BY <2>11, <2>13 DEF Moving, Within, Movers
    <3> QED BY <2>12, <3>1 DEF Opens, Orderly, js
  <2>14. CASE do = "copy"
    <3>1. Duplicating(rows, q, js)
      BY <2>1, <2>10, <2>11, <2>14 DEF Duplicating, Within, Copiers
    <3> QED BY <2>12, <3>1 DEF Opens, Orderly, js
  <2> QED BY <2>4, <2>13, <2>14
<1>9. CASE q.op \in {"restore", "purge"}
  <2> DEFINE i == ItemFor(q.op, ids[1], q.space)
  <2>1. js = <<<<i>>>>
    BY <1>9 DEF Agenda
  <2>2. i.do \in Purgers
    BY <1>9, ItemsAreItems DEF Purgers
  <2> HIDE DEF i, js
  <2>3. Opens(rows, faults, q, js)
    BY <1>4, <2>1, <2>2
  <2> QED BY <2>3 DEF js
<1>10. CASE q.op = "batch_download"
  <2> DEFINE i == Item("fetch", None)
  <2>1. js = <<<<i>>>>
    BY <1>10 DEF Agenda
  <2>2. i.do \in Others
    BY ItemsAreItems DEF Others
  <2> HIDE DEF i, js
  <2>3. Opens(rows, faults, q, js)
    BY <1>4, <2>1, <2>2
  <2> QED BY <2>3 DEF js
<1>11. CASE q.op = "scan"
  <2> DEFINE a == Item("scan_objects", None) b == Item("scan_blobs", None) c == Item("scan_counts", None)
             T == {a, b, c} job == <<a, b, c>> one == <<job>>
  <2>1. js = one
    BY <1>11 DEF Agenda
  <2>2. a.do \in Others /\ b.do \in Others /\ c.do \in Others
    BY ItemsAreItems DEF Others
  <2> HIDE DEF a, b, c
  <2>3. job \in Seq(T) \ {<<>>} /\ \A i \in T : i.do \in Others
    BY <2>2
  <2> HIDE DEF job, T
  <2>4. JobsOf(one, T)
    BY <2>3 DEF JobsOf
  <2> HIDE DEF one, js
  <2>5. Within(js, Others)
    BY <2>1, <2>3, <2>4, WithinKind
  <2> QED BY <1>0, <2>5 DEF js
<1>12. CASE q.op = "trash"
  <2>1. js = JobsFor("trash", ids)
    BY <1>12 DEF Agenda, JobsFor
  <2> QED BY <1>7, <2>1
<1>13. CASE q.op = "batch_delete"
  <2>1. js = JobsFor("batch_delete", ids)
    BY <1>13 DEF Agenda, JobsFor
  <2> QED BY <1>7, <2>1
<1>14. CASE q.op = "batch_tags"
  <2>1. js = JobsFor("batch_tag", ids)
    BY <1>14 DEF Agenda, JobsFor
  <2> QED BY <1>6, <2>1
<1>15. CASE q.op \in Alike \ {"batch_tag"}
  <2>1. js = JobsFor(q.op, ids)
    BY <1>15 DEF Agenda, JobsFor
  <2> QED BY <1>6, <1>15, <2>1
<1> QED
  BY <1>5, <1>8, <1>9, <1>10, <1>11, <1>12, <1>13, <1>14, <1>15 DEF WellFormed, Operations

-----------------------------------------------------------------------------
(* The invariant of requests that come one after another.                  *)

LEMMA NothingIsOrderly ==
  ASSUME NEW rows, NEW faults, NEW q, NEW l PROVE Orderly(rows, faults, q, l, <<>>)
<1>1. AllItems(<<>>) = {}
  BY DEF AllItems
<1> HIDE DEF AllItems
<1>2. Within(<<>>, Others)
  BY <1>1 DEF Within
<1> QED BY <1>2 DEF Orderly

\* The others have nothing to do.
LEMMA OneIsBusy ==
  ASSUME NEW r \in Workers, \A s \in Workers : s # r => jobs'[s] = <<>>, OrderlyAt(r)'
  PROVE  OneBusy' /\ \A s \in Workers : OrderlyAt(s)'
<1>1. ASSUME NEW s \in Workers, s # r PROVE OrderlyAt(s)'
  <2>1. jobs'[s] = <<>>
    BY <1>1
  <2> QED BY <2>1, NothingIsOrderly DEF OrderlyAt
<1>2. OneBusy'
  BY DEF OneBusy
<1> QED BY <1>1, <1>2

LEMMA ArriveIsOrderly ==
  ASSUME NEW K, Fits(K), NEW r \in Slots, Arrive(r), Alone, Upright(files)
  PROVE  Upright(files') /\ OneBusy' /\ \A s \in Workers : OrderlyAt(s)'
<1>1. PICK q \in setup.requests : Start(r, q, Agenda(q))
  BY DEF Arrive
<1>2. WellFormed(q) /\ r \in Workers
  BY SetupsAreServed DEF Fits, Workers
<1>3. files' = files /\ request'[r] = q /\ jobs'[r] = Agenda(q) /\ notes'[r] = NoNotes
  BY <1>1, <1>2 DEF Start, Read, tableVars, Fits, WorkFits
<1>4. \A s \in Workers : s # r => jobs'[s] = <<>>
  <2>1. Idle /\ jobs = [s \in Workers |-> jobs[s]] /\ jobs' = [jobs EXCEPT ![r] = Agenda(q)]
    BY <1>1 DEF Arrive, MayStart, Start, Fits, WorkFits
  <2> QED BY <2>1 DEF Idle
<1>5. Orderly(files', budget'.faults, q, NoNotes, Agenda(q))
  BY <1>2, AgendaIsOrderly DEF Opens
<1>6. OrderlyAt(r)'
  BY <1>3, <1>5 DEF OrderlyAt
<1> QED BY <1>2, <1>3, <1>4, <1>6, OneIsBusy

LEMMA ReapTickIsOrderly ==
  ASSUME NEW K, Fits(K), ReapTick, Alone, Upright(files)
  PROVE  Upright(files') /\ OneBusy' /\ \A s \in Workers : OrderlyAt(s)'
<1> DEFINE q == [op |-> "reap", ids |-> <<>>, to |-> None, space |-> None, name |-> None, arg |-> clock]
           i == Item("reap", None) T == {i} job == <<i>> first == <<job>>
<1>1. Start(Janitor, q, first) /\ Idle /\ Janitor \in Workers
  BY DEF ReapTick, MayStart, Workers
<1>2. i.do = "reap"
  BY ItemsAreItems
<1> HIDE DEF i, q
<1>3. job \in Seq(T) \ {<<>>} /\ Len(job) = 1 /\ job[1] = i
  OBVIOUS
<1> HIDE DEF job, T
<1>4. \A k \in DOMAIN first : first[k] = job
  OBVIOUS
<1> HIDE DEF first
<1>5. files' = files /\ jobs'[Janitor] = first
  BY <1>1 DEF Start, Read, tableVars, Fits, WorkFits
<1>6. \A s \in Workers : s # Janitor => jobs'[s] = <<>>
  <2>1. jobs = [s \in Workers |-> jobs[s]] /\ jobs' = [jobs EXCEPT ![Janitor] = first]
    BY <1>1 DEF Start, Fits, WorkFits
  <2> QED BY <1>1, <2>1 DEF Idle
<1>7. Purging(files', budget'.faults, notes'[Janitor], first)
  BY <1>2, <1>3, <1>4 DEF Purging, Fresh, Purgers
<1>8. OrderlyAt(Janitor)'
  BY <1>5, <1>7 DEF OrderlyAt, Orderly
<1> QED BY <1>1, <1>5, <1>6, <1>8, OneIsBusy

LEMMA InitIsAlone == Init => AloneInv
<1> SUFFICES ASSUME Init PROVE AloneInv
  OBVIOUS
<1>1. \A r \in Workers : jobs[r] = <<>>
  BY DEF Init, InitWork
<1>2. \A r \in Workers : OrderlyAt(r)
  BY <1>1, NothingIsOrderly DEF OrderlyAt
<1>3. Upright(files)
  <2>1. Planted(files)
    BY SetupsAreServed DEF Init
  <2>2. PICK n \in 0 .. MaxRows :
          /\ files \in [1 .. n -> Row]
          /\ \A f \in 1 .. n : LET p == files[f].parent IN
               p # None => p < f /\ (files[f].trashed = 0 => files[p].trashed = 0)
    BY <2>1 DEF Planted
  <2>3. ASSUME NEW f \in 1 .. n, files[f].trashed = 0, files[f].parent # None
        PROVE  files[f].parent \in 1 .. n /\ files[files[f].parent].trashed = 0
    <3>1. files[f].parent \in Nat \ {0} /\ files[f].parent < f
      BY <2>2, <2>3 DEF Row, IDs
    <3>2. f \in Nat /\ f <= n /\ n \in Nat
      BY RowsAreBounded
    <3> QED BY <2>2, <2>3, <3>1, <3>2
  <2> QED BY <2>2, <2>3 DEF Upright, LiveIn, Fine
<1>4. budget = [arrivals |-> setup.arrivals, faults |-> 1, crashes |-> setup.crashes] /\ clock = 1
  BY DEF Init
<1>5. /\ budget = [arrivals |-> budget.arrivals, faults |-> budget.faults, crashes |-> budget.crashes]
      /\ budget.faults \in 0 .. 1 /\ clock \in Nat \ {0}
  BY <1>4
<1>6. OneBusy
  BY <1>1 DEF OneBusy
<1> QED BY <1>2, <1>3, <1>5, <1>6 DEF AloneInv

\* Only the ticker moves the clock.
LEMMA ClockStays ==
  ASSUME NEW r, Work(r) PROVE clock' = clock
<1>1. Read \/ (\E f : FilesOnly(f)) \/ (\E b : BlobsOnly(b)) \/ (\E o : ObjectsOnly(o)) => clock' = clock
  BY DEF Read, tableVars, FilesOnly, BlobsOnly, ObjectsOnly
<1>2. ASSUME DirectoryStep(r, setup.store) PROVE clock' = clock
  <2>1. CASE Trash(r) \/ TrashList(r) \/ TrashMark(r) \/ BatchDelete(r)
    BY <1>1, <2>1 DEF Trash, TrashList, TrashMark, BatchDelete
  <2>2. CASE RestoreFromTrash(r) \/ Untrash(r) \/ PurgeFromTrash(r)
    BY <1>1, <2>2 DEF RestoreFromTrash, Untrash, PurgeFromTrash
  <2>3. CASE DeleteList(r) \/ DeleteRow(r) \/ DeleteReference(r) \/ DeleteCount(r)
    BY <1>1, <2>3 DEF DeleteList, DeleteRow, DeleteReference, DeleteCount
  <2>4. CASE DeferUnlink(r) \/ UnlinkPending(r) \/ UndoPut(r) \/ UndoDecr(r)
    BY <1>1, <2>4 DEF DeferUnlink, UnlinkPending, UndoPut, UndoDecr
  <2>5. CASE Reap(r, setup.store) \/ CheckTarget(r) \/ MoveFile(r) \/ MoveInto(r)
    BY <1>1, <2>5 DEF Reap, CheckTarget, MoveFile, MoveInto
  <2>6. CASE ClimbOn(r) \/ SetParent(r) \/ Rename(r) \/ SetName(r) \/ BatchTag(r) \/ SetTags(r)
    BY <1>1, <2>6 DEF ClimbOn, SetParent, Rename, SetName, BatchTag, SetTags
  <2> QED BY <1>2, <2>1, <2>2, <2>3, <2>4, <2>5, <2>6 DEF DirectoryStep
<1>3. ASSUME ManifestStep(r) PROVE clock' = clock
  <2>1. CASE ValidateEntry(r) \/ MakeRoot(r) \/ MakeDir(r) \/ Adopt(r) \/ Reparent(r)
    BY <1>1, <2>1 DEF ValidateEntry, MakeRoot, MakeDir, Adopt, Reparent, Insert
  <2>2. CASE \/ Relocate(r) \/ ReadSource(r) \/ WriteTarget(r) \/ FillTarget(r)
             \/ DeleteSource(r) \/ SetPath(r)
    BY <1>1, <2>2 DEF Relocate, ReadSource, WriteTarget, FillTarget, DeleteSource, SetPath
  <2>3. CASE Copy(r) \/ CopyRow(r) \/ CopyList(r) \/ CopyReference(r)
    BY <1>1, <2>3 DEF Copy, CopyRow, CopyList, CopyReference, Insert
  <2> QED BY <1>3, <2>1, <2>2, <2>3 DEF ManifestStep
<1>4. ASSUME ArchiveStep(r, setup.store) PROVE clock' = clock
  <2>1. Read
    BY <1>4 DEF ArchiveStep, GetDirManifest, WalkDir, StreamDir, Pack, PackBlob, PackObject,
         FetchFiles, FetchBlobs, GetFileContent, GetBlob, GetObject, ListDirPage, ListedPage,
         DirTotalSize, GetAncestors, Stat, StatBlob, Usage, ShowTrash, ScanObjects, ScanBlobs,
         ScanPath, ScanCounts, ScanCount
  <2> QED BY <1>1, <2>1
<1> QED BY <1>2, <1>3, <1>4 DEF Work

\* No step goes back in time, or lets more fail than one call.
LEMMA BudgetShrinks ==
  ASSUME TreeInv, AloneInv, [Next]_vars
  PROVE  /\ setup' = setup /\ (strayed => strayed')
         /\ budget' = [arrivals |-> budget'.arrivals, faults |-> budget'.faults, crashes |-> budget'.crashes]
         /\ budget'.faults \in 0 .. 1 /\ clock' \in Nat \ {0}
<1>1. /\ budget = [arrivals |-> budget.arrivals, faults |-> budget.faults, crashes |-> budget.crashes]
      /\ budget.faults \in 0 .. 1 /\ clock \in Nat \ {0}
  BY DEF AloneInv
<1>2. PICK K : Fits(K)
  BY DEF TreeInv
<1>3. ASSUME NEW r \in Slots, Arrive(r)
      PROVE  /\ setup' = setup /\ strayed' = strayed /\ clock' = clock
             /\ budget' = [budget EXCEPT !.arrivals = @ - 1]
  BY <1>3 DEF Arrive, Start, Read, tableVars, history
<1>4. ASSUME ReapTick PROVE UNCHANGED <<setup, strayed, clock, budget>>
  BY <1>4 DEF ReapTick, Start, Read, tableVars, history
<1>5. ASSUME NEW r \in Workers, Work(r) PROVE UNCHANGED <<setup, clock, budget>> /\ (strayed => strayed')
  <2>1. setup' = setup /\ budget' = budget /\ (strayed => strayed')
    BY <1>5 DEF Work
  <2>2. clock' = clock
    BY <1>5, ClockStays DEF Work
  <2> QED BY <2>1, <2>2
<1>6. ASSUME NEW r \in Workers, Fault(r)
      PROVE  /\ setup' = setup /\ strayed' = strayed /\ clock' = clock /\ budget.faults > 0
             /\ budget' = [budget EXCEPT !.faults = @ - 1]
  BY <1>6 DEF Fault, Read, ObjectsOnly, tableVars, history
<1>7. ASSUME Crash
      PROVE  /\ setup' = setup /\ strayed' = strayed /\ clock' = clock
             /\ budget' = [budget EXCEPT !.crashes = @ - 1]
  BY <1>7 DEF Crash, tableVars
<1>8. ASSUME Tick PROVE UNCHANGED <<setup, strayed, budget>> /\ clock' = clock + 1
  BY <1>8 DEF Tick, history
<1>9. CASE UNCHANGED vars
  BY <1>1, <1>9 DEF vars, tableVars, history
<1>10. CASE Next
  BY <1>1, <1>3, <1>4, <1>5, <1>6, <1>7, <1>8, <1>10 DEF Next
<1> QED BY <1>9, <1>10

LEMMA NextIsAlone == TreeInv /\ AloneInv /\ [Next]_vars => AloneInv'
<1> SUFFICES ASSUME TreeInv, AloneInv, [Next]_vars PROVE AloneInv'
  OBVIOUS
<1>1. /\ setup' = setup /\ (strayed => strayed')
      /\ budget' = [arrivals |-> budget'.arrivals, faults |-> budget'.faults, crashes |-> budget'.crashes]
      /\ budget'.faults \in 0 .. 1 /\ clock' \in Nat \ {0}
  BY BudgetShrinks
<1>2. SUFFICES ASSUME Alone', ~strayed'
               PROVE  Upright(files') /\ OneBusy' /\ \A r \in Workers : OrderlyAt(r)'
  BY <1>1 DEF AloneInv
<1>3. Alone /\ ~strayed
  BY <1>1, <1>2 DEF Alone
<1>4. Upright(files) /\ OneBusy /\ (\A r \in Workers : OrderlyAt(r))
      /\ clock # 0 /\ budget.faults \in 0 .. 1
      /\ budget = [arrivals |-> budget.arrivals, faults |-> budget.faults, crashes |-> budget.crashes]
  BY <1>3 DEF AloneInv
<1>5. PICK K : Fits(K)
  BY DEF TreeInv
<1>6. ASSUME NEW r \in Workers, jobs[r] # <<>>, KeepsTo(r) PROVE \A s \in Workers : s # r => jobs'[s] = <<>>
  BY <1>4, <1>6 DEF OneBusy, KeepsTo
<1>7. ASSUME NEW r \in Slots, Arrive(r)
      PROVE  Upright(files') /\ OneBusy' /\ \A s \in Workers : OrderlyAt(s)'
  BY <1>3, <1>4, <1>5, <1>7, ArriveIsOrderly
<1>8. CASE ReapTick
  BY <1>3, <1>4, <1>5, <1>8, ReapTickIsOrderly
<1>9. ASSUME NEW r \in Workers, Work(r)
      PROVE  Upright(files') /\ OneBusy' /\ \A s \in Workers : OrderlyAt(s)'
  <2>1. ~Strays(r)
    BY <1>2, <1>9 DEF Work
  <2>2. Upright(files') /\ OrderlyAt(r)' /\ jobs[r] # <<>> /\ KeepsTo(r)
    BY <1>4, <1>5, <1>9, <2>1, WorkGoesOn
  <2> QED BY <1>6, <2>2, OneIsBusy
<1>10. ASSUME NEW r \in Workers, Fault(r)
       PROVE  Upright(files') /\ OneBusy' /\ \A s \in Workers : OrderlyAt(s)'
  <2>1. files' = files /\ Orderly(files', 0, request'[r], notes'[r], jobs'[r])
    BY <1>4, <1>5, <1>10, FaultGoesOn
  <2>2. budget'.faults = 0
    <3>1. budget.faults > 0 /\ budget' = [budget EXCEPT !.faults = @ - 1]
      BY <1>10 DEF Fault
    <3> QED BY <1>4, <3>1
  <2>3. OrderlyAt(r)'
    BY <2>1, <2>2 DEF OrderlyAt
  <2>4. jobs[r] # <<>> /\ KeepsTo(r)
    BY <1>5, <1>10, FaultKeeps
  <2> QED BY <1>4, <1>6, <2>1, <2>3, <2>4, OneIsBusy
<1>11. CASE Crash
  <2>1. files' = files /\ \A r \in Workers : jobs'[r] = <<>>
    BY <1>11 DEF Crash, tableVars
  <2> QED BY <1>4, <2>1, NothingIsOrderly DEF OrderlyAt, OneBusy
<1>12. CASE Tick \/ UNCHANGED vars
  <2>1. UNCHANGED <<files, request, jobs, notes, budget>>
    BY <1>12 DEF Tick, vars, tableVars, workVars
  <2> QED BY <1>4, <2>1 DEF OrderlyAt, OneBusy
<1> QED BY <1>7, <1>8, <1>9, <1>10, <1>11, <1>12 DEF Next

LEMMA AloneIsLive == AloneInv => LiveUnderLive
<1>1. \A f : Live(f) <=> LiveIn(files, f)
  BY LiveIsLiveIn
<1> QED BY <1>1 DEF AloneInv, Upright, Fine, LiveUnderLive, LiveIn

\* While requests come one after another and nobody restores or purges a row
\* whose directory is in the recycle bin, a row outside the recycle bin has its directory outside
\* it too (trash.go:22, trash.go:72): in every state between two statements of
\* a trash, a restore, a purge, a move, a copy or a manifest, also when one of
\* them fails and what a purge has deleted is put back (upload.go:1111), or
\* when the process is killed.
THEOREM LiveStaysUnderLive == Spec => []LiveUnderLive
BY InitFits, NextFits, InitIsAlone, NextIsAlone, AloneIsLive, PTL DEF Spec

-----------------------------------------------------------------------------
(* No row is above itself.                                                 *)

\* A rank for every row that is or was, smaller above than below.
Ranked(rows, rank) ==
  \A f \in DOMAIN rows : rows[f].parent # None => rank[rows[f].parent] < rank[f]

\* What is put back goes below its directory.
Puts(rank, i) == i.do = "undo_put" /\ i.arg.parent # None => rank[i.arg.parent] < rank[i.id]

Restful(rank, l, js) ==
  /\ \A i \in AllItems(js) : Puts(rank, i)
  /\ (\E i \in AllItems(js) : i.do \in Deletion) => \A i \in Range(l.undo) : Puts(rank, i)

\* The rows above to are in a set without f: f can go below to.
Clear(rows, f, to) ==
  \E U : /\ to \in U /\ f \notin U
         /\ \A g \in U : g \in DOMAIN rows /\ rows[g].parent # None => rows[g].parent \in U

\* The walk up from to has seen these live rows, one after another, and not f;
\* p is above the last.
Climbing(rows, f, to, p, seen) ==
  /\ to \in seen /\ f \notin seen /\ p # None
  /\ \A g \in seen : LiveIn(rows, g) /\ (rows[g].parent = None \/ rows[g].parent \in seen \cup {p})
  /\ \E g \in seen : rows[g].parent = p

Climbers == {"move_into", "climb", "set_parent"}

Led(rows, to, i) ==
  /\ i.do = "move_into" => i.id # to
  /\ i.do = "climb" => Climbing(rows, i.id, to, i.at, i.arg)
  /\ i.do = "set_parent" => to = None \/ Clear(rows, i.id, to)

\* Only the item a worker is at belongs to a walk.
Walking(rows, q, js) ==
  \A k \in DOMAIN js : \A x \in 1 .. Len(js[k]) :
    js[k][x].do \in Climbers => k = 1 /\ x = 1 /\ Led(rows, q.to, js[k][x])

Climbless(js) == \A i \in AllItems(js) : i.do \notin Climbers

Ranks == [Nat -> Nat]
Settled(rows, q, l, js) ==
  \E rank \in Ranks : Ranked(rows, rank) /\ Restful(rank, l, js) /\ Walking(rows, q, js)

RankInv ==
  Alone /\ ~strayed =>
    \E rank \in Ranks :
      /\ Ranked(files, rank)
      /\ \A r \in Workers : Restful(rank, notes[r], jobs[r]) /\ Walking(files, request[r], jobs[r])

\* Items and their places.
LEMMA ItemsAndPlaces ==
  ASSUME NEW T, NEW js, JobsOf(js, T)
  PROVE  /\ \A k \in DOMAIN js : \A x \in 1 .. Len(js[k]) : js[k][x] \in AllItems(js)
         /\ \A i \in AllItems(js) : \E k \in DOMAIN js : \E x \in 1 .. Len(js[k]) : js[k][x] = i
<1>1. \A k \in DOMAIN js : js[k] \in Seq(T)
  BY DEF JobsOf
<1>2. \A job \in Seq(T) : DOMAIN job = 1 .. Len(job)
  OBVIOUS
<1>3. \A k \in DOMAIN js : DOMAIN js[k] = 1 .. Len(js[k])
  BY <1>1, <1>2
<1>4. ASSUME NEW k \in DOMAIN js, NEW x \in 1 .. Len(js[k]) PROVE js[k][x] \in AllItems(js)
  BY <1>3, <1>4 DEF AllItems, Range
<1>5. ASSUME NEW i \in AllItems(js) PROVE \E k \in DOMAIN js : \E x \in 1 .. Len(js[k]) : js[k][x] = i
  <2>1. PICK k \in DOMAIN js : i \in Range(js[k])
    BY <1>5 DEF AllItems
  <2>2. PICK x \in DOMAIN js[k] : js[k][x] = i
    BY <2>1 DEF Range
  <2> QED BY <1>3, <2>2
<1> QED BY <1>4, <1>5

LEMMA ClimblessWalks ==
  ASSUME NEW T, NEW js, JobsOf(js, T), Climbless(js)
  PROVE  \A rows, q : Walking(rows, q, js)
BY ItemsAndPlaces DEF Walking, Climbless

LEMMA NothingWalks == Climbless(<<>>) /\ \A rows, q : Walking(rows, q, <<>>)
BY DEF Climbless, AllItems, Walking

LEMMA NothingRests == \A rank, l : Restful(rank, l, <<>>)
<1>1. AllItems(<<>>) = {}
  BY DEF AllItems
<1> QED BY <1>1 DEF Restful

\* A worker that is at something else has no walk under way.
LEMMA NoWalk ==
  ASSUME NEW T, NEW js, JobsOf(js, T), js # <<>>, NEW rows, NEW q, Walking(rows, q, js),
         Head(Head(js)).do \notin Climbers
  PROVE  Climbless(js)
<1>1. Head(js) = js[1] /\ js[1] \in Seq(T) \ {<<>>}
  BY TailJobs
<1>2. Head(js[1]) = js[1][1]
  BY <1>1
<1>3. ASSUME NEW i \in AllItems(js), i.do \in Climbers PROVE FALSE
  <2>1. PICK k \in DOMAIN js : \E x \in 1 .. Len(js[k]) : js[k][x] = i
    BY <1>3, ItemsAndPlaces
  <2>2. PICK x \in 1 .. Len(js[k]) : js[k][x] = i
    BY <2>1
  <2>3. k = 1 /\ x = 1
    BY <1>3, <2>2 DEF Walking
  <2> QED BY <1>1, <1>2, <1>3, <2>2, <2>3
<1> QED BY <1>3 DEF Climbless

\* What comes after the item a worker is at is no part of a walk.
LEMMA RestIsClimbless ==
  ASSUME NEW T, NEW js, JobsOf(js, T), js # <<>>, NEW rows, NEW q, Walking(rows, q, js)
  PROVE  /\ Climbless(Tail(js))
         /\ \A m \in 2 .. Len(Head(js)) : Head(js)[m].do \notin Climbers
         /\ \A m \in DOMAIN js \ {1} : \A x \in 1 .. Len(js[m]) : js[m][x].do \notin Climbers
<1> DEFINE tail == Tail(js)
<1>0. Head(js) = js[1] /\ js[1] \in Seq(T) /\ 1 \in DOMAIN js
  BY TailJobs DEF JobsOf
<1>1. JobsOf(tail, T)
  BY TailJobs
<1>6. \A k \in DOMAIN tail : \E m \in DOMAIN js \ {1} : tail[k] = js[m]
  BY TailJobs
<1> HIDE DEF tail
<1>2. \A m \in 2 .. Len(js[1]) : m \in 1 .. Len(js[1]) /\ m # 1
  BY <1>0
<1>3. \A m \in 2 .. Len(js[1]) : js[1][m].do \notin Climbers
  BY <1>0, <1>2 DEF Walking
<1>4. \A m \in DOMAIN js \ {1} : \A x \in 1 .. Len(js[m]) : js[m][x].do \notin Climbers
  BY DEF Walking
<1>5. ASSUME NEW i \in AllItems(tail) PROVE i.do \notin Climbers
  <2>1. PICK k \in DOMAIN tail : \E x \in 1 .. Len(tail[k]) : tail[k][x] = i
    BY <1>1, <1>5, ItemsAndPlaces
  <2>2. PICK m \in DOMAIN js \ {1} : tail[k] = js[m]
    BY <1>6
  <2> QED BY <1>4, <2>1, <2>2
<1> QED BY <1>0, <1>3, <1>4, <1>5 DEF Climbless, tail

\* What belongs to a walk is among the items put in.
WalksBy(js, items) ==
  \A k \in DOMAIN js : \A x \in 1 .. Len(js[k]) :
    js[k][x].do \in Climbers => k = 1 /\ x \in 1 .. Len(items) /\ js[k][x] = items[x]

\* A step of a walk, and the end of one.
LEMMA WalkLeaves ==
  ASSUME NEW K, Fits(K), NEW r \in Workers, jobs[r] # <<>>, NEW rows, NEW q, Walking(rows, q, jobs[r]),
         NEW T, NEW items \in Seq(T), Goes(r, items)
  PROVE  WalksBy(jobs'[r], items)
<1> DEFINE js == jobs[r] S == AllItems(js) U == T \cup S J == Head(js) all == items \o Tail(J)
           js2 == After(js, items)
<1>1. JobsOf(js, S) /\ js # <<>>
  BY JobsAreJobs
<1>2. jobs'[r] = js2
  BY StepLeaves
<1>3. JobsOf(js, U) /\ items \in Seq(U)
  <2>1. items \in Seq(U)
    OBVIOUS
  <2>2. JobsOf(js, U)
    BY <1>1, JobsOfMore
  <2> QED BY <2>1, <2>2
<1> HIDE DEF js, U, J
<1>4. /\ \A m \in 2 .. Len(J) : J[m].do \notin Climbers
      /\ \A m \in DOMAIN js \ {1} : \A x \in 1 .. Len(js[m]) : js[m][x].do \notin Climbers
  BY <1>1, RestIsClimbless DEF js, J
<1>5. J \in Seq(U) /\ J # <<>>
  BY <1>1, <1>3, TailJobs DEF J
<1>6. \A k \in DOMAIN js2 : (k = 1 /\ js2[k] = all) \/ \E m \in DOMAIN js \ {1} : js2[k] = js[m]
  BY <1>1, <1>3, AfterJobs DEF J
<1>7. /\ \A x \in 1 .. Len(items) : all[x] = items[x]
      /\ \A m \in 2 .. Len(J) : all[Len(items) + m - 1] = J[m]
      /\ \A x \in 1 .. Len(all) : x \in 1 .. Len(items) \/ \E m \in 2 .. Len(J) : x = Len(items) + m - 1
  <2>1. ASSUME NEW V, items \in Seq(V), J \in Seq(V)
        PROVE  /\ \A x \in 1 .. Len(items) : all[x] = items[x]
               /\ \A m \in 2 .. Len(J) : all[Len(items) + m - 1] = J[m]
               /\ \A x \in 1 .. Len(all) : x \in 1 .. Len(items) \/ \E m \in 2 .. Len(J) : x = Len(items) + m - 1
    BY <1>5, <2>1, Joined
  <2> QED BY <1>3, <1>5, <2>1
<1> HIDE DEF js2, all
<1>8. ASSUME NEW k \in DOMAIN js2, NEW x \in 1 .. Len(js2[k]), js2[k][x].do \in Climbers
      PROVE  k = 1 /\ x \in 1 .. Len(items) /\ js2[k][x] = items[x]
  <2>1. k = 1 /\ js2[k] = all
    BY <1>4, <1>6, <1>8
  <2>2. x \in 1 .. Len(items)
    <3>1. ASSUME NEW m \in 2 .. Len(J), x = Len(items) + m - 1 PROVE FALSE
      BY <1>4, <1>7, <1>8, <2>1, <3>1
    <3> QED BY <1>7, <1>8, <2>1, <3>1
  <2> QED BY <1>7, <2>1, <2>2
<1> QED BY <1>2, <1>8 DEF WalksBy

LEMMA WalkOn ==
  ASSUME NEW K, Fits(K), NEW r \in Workers, jobs[r] # <<>>, NEW rows, NEW q, Walking(rows, q, jobs[r])
  PROVE  /\ \A code : Fail(r, code) \/ Refuse(r, code) => \A rows2, q2 : Walking(rows2, q2, jobs'[r])
         /\ Goes(r, <<>>) => \A rows2, q2 : Walking(rows2, q2, jobs'[r])
         /\ \A i, rows2, q2 : Goes(r, <<i>>) /\ (i.do \in Climbers => Led(rows2, q2.to, i)) =>
              Walking(rows2, q2, jobs'[r])
<1> DEFINE js == jobs[r] S == AllItems(js)
<1>1. JobsOf(js, S) /\ js # <<>>
  BY JobsAreJobs
<1>2. ASSUME NEW code, Fail(r, code) \/ Refuse(r, code), NEW rows2, NEW q2
      PROVE  Walking(rows2, q2, jobs'[r])
  <2>1. jobs'[r] = Tail(js) \/ jobs'[r] = <<>>
    BY <1>2, StepLeaves
  <2> DEFINE tail == Tail(js)
  <2> HIDE DEF js
  <2>2. Climbless(tail)
    BY <1>1, RestIsClimbless DEF js
  <2>3. JobsOf(tail, S)
    BY <1>1, TailJobs DEF JobsOf
  <2> HIDE DEF tail, S
  <2>4. Walking(rows2, q2, tail)
    BY <2>2, <2>3, ClimblessWalks
  <2> QED BY <2>1, <2>4, NothingWalks DEF tail
<1>3. ASSUME Goes(r, <<>>), NEW rows2, NEW q2 PROVE Walking(rows2, q2, jobs'[r])
  <2> DEFINE items == <<>> T == {}
  <2>1. items \in Seq(T) /\ Goes(r, items) /\ Len(items) = 0
    BY <1>3
  <2> HIDE DEF items, T, js
  <2>2. WalksBy(jobs'[r], items)
    BY <2>1, WalkLeaves
  <2>3. \A x : x \notin 1 .. Len(items)
    BY <2>1
  <2> QED BY <2>2, <2>3 DEF Walking, WalksBy
<1>4. ASSUME NEW i, Goes(r, <<i>>)
      PROVE  \A k \in DOMAIN jobs'[r] : \A x \in 1 .. Len(jobs'[r][k]) :
               jobs'[r][k][x].do \in Climbers => k = 1 /\ x = 1 /\ jobs'[r][k][x] = i
  <2> DEFINE items == <<i>> T == {i}
  <2>1. items \in Seq(T) /\ Goes(r, items) /\ Len(items) = 1 /\ items[1] = i
    BY <1>4
  <2> HIDE DEF items, T, js
  <2>2. WalksBy(jobs'[r], items)
    BY <2>1, WalkLeaves
  <2>3. \A x \in 1 .. Len(items) : x = 1 /\ items[x] = i
    BY <2>1
  <2> QED BY <2>2, <2>3 DEF WalksBy
<1>5. ASSUME NEW i, NEW rows2, NEW q2, Goes(r, <<i>>), i.do \in Climbers => Led(rows2, q2.to, i)
      PROVE  Walking(rows2, q2, jobs'[r])
  BY <1>4, <1>5 DEF Walking
<1> QED BY <1>2, <1>3, <1>5

\* Rows and what is above them have numbers.
LEMMA RowsAreNumbered ==
  ASSUME NEW K, TableFits(K)
  PROVE  \A f \in DOMAIN files :
           f \in 1 .. issued /\ (files[f].parent = None \/ files[f].parent \in 1 .. issued)
BY DEF TableFits, RowFits, Inside, IsDir, Held

\* A table of the same rows, or of fewer, each where it was.
KeptBelow(rows, rows2) == \A f \in DOMAIN rows2 : f \in DOMAIN rows /\ rows2[f].parent = rows[f].parent

LEMMA KeptIsRanked ==
  ASSUME NEW rows, NEW rows2, KeptBelow(rows, rows2), NEW rank, Ranked(rows, rank)
  PROVE  Ranked(rows2, rank)
BY DEF KeptBelow, Ranked

\* A row goes below one that is not below it: what is not above that one is
\* ranked anew.
LEMMA MovedIsRanked ==
  ASSUME NEW K, TableFits(K), NEW rank \in Ranks, Ranked(files, rank), NEW f \in DOMAIN files, NEW row,
         files' = Updated(f, row),
         row.parent = None \/ (row.parent \in Nat /\ Clear(files, f, row.parent))
  PROVE  \E rank2 \in Ranks : Ranked(files', rank2)
<1> DEFINE to == row.parent
<1>1. /\ DOMAIN files' = DOMAIN files /\ \A g \in DOMAIN files : g # f => files'[g] = files[g]
      /\ files'[f] = row
  BY DEF Updated
<1>2. CASE to = None
  BY <1>1, <1>2 DEF Ranked
<1>3. CASE to \in Nat /\ Clear(files, f, to)
  <2>1. PICK U : /\ to \in U /\ f \notin U
                 /\ \A g \in U : g \in DOMAIN files /\ files[g].parent # None => files[g].parent \in U
    BY <1>3 DEF Clear
  <2> DEFINE rank2 == [g \in Nat |-> IF g \in U THEN rank[g] ELSE rank[g] + rank[to] + 1]
  <2> HIDE DEF to
  <2>2. \A g \in Nat : rank[g] \in Nat
    BY DEF Ranks
  <2>3. rank2 \in Ranks
    BY <1>3, <2>2 DEF Ranks
  <2>4. \A g \in Nat : rank2[g] = IF g \in U THEN rank[g] ELSE rank[g] + rank[to] + 1
    OBVIOUS
  <2> HIDE DEF rank2
  <2>5. ASSUME NEW g \in DOMAIN files', files'[g].parent # None PROVE rank2[files'[g].parent] < rank2[g]
    <3>1. g \in DOMAIN files /\ g \in Nat /\ f \in Nat /\ rank[to] \in Nat /\ rank[g] \in Nat
      BY <1>1, <1>3, <2>2, <2>5, RowsAreNumbered
    <3>2. CASE g = f
      <4>1. files'[g].parent = to
        BY <1>1, <3>2 DEF to
      <4>2. rank2[to] = rank[to] /\ rank2[g] = rank[g] + rank[to] + 1
        BY <1>3, <2>1, <2>4, <3>1, <3>2
      <4> QED BY <3>1, <4>1, <4>2
    <3>3. CASE g # f
      <4> DEFINE p == files[g].parent
      <4>1. files'[g].parent = p /\ p # None /\ p \in Nat
        BY <1>1, <2>5, <3>1, <3>3, RowsAreNumbered
      <4>2. rank[p] < rank[g] /\ rank[p] \in Nat
        BY <2>2, <3>1, <4>1 DEF Ranked
      <4>3. g \in U => p \in U
        BY <2>1, <3>1, <4>1
      <4> HIDE DEF p
      <4>4. rank2[p] < rank2[g]
        BY <2>4, <3>1, <4>1, <4>2, <4>3
      <4> QED BY <4>1, <4>4
    <3> QED BY <3>2, <3>3
  <2> QED BY <2>3, <2>5 DEF Ranked
<1> QED BY <1>2, <1>3

\* A new row is below all that is above it.
LEMMA InsertIsRanked ==
  ASSUME NEW K, TableFits(K), NEW rank \in Ranks, Ranked(files, rank), NEW row, IsRow(row), Insert(row),
         row.parent = None \/ row.parent \in 1 .. issued
  PROVE  \E rank2 \in Ranks : Ranked(files', rank2)
<1> DEFINE f == issued + 1 new == [row EXCEPT !.trashed = 0] to == row.parent
           rank2 == [g \in Nat |-> IF g = f THEN IF to = None THEN 0 ELSE rank[to] + 1 ELSE rank[g]]
<1>1. f \notin DOMAIN files /\ issued \in Nat /\ f \in Nat
  BY DEF TableFits
<1>2. new.parent = to
  BY DEF IsRow
<1>3. files' = [g \in DOMAIN files \cup {f} |-> IF g = f THEN new ELSE files[g]]
  BY DEF Insert, PutFile
<1>4. to = None \/ (to \in Nat /\ to # f)
  BY <1>1
<1>5. \A g \in DOMAIN files : g \in Nat /\ g # f
                              /\ (files[g].parent = None \/ (files[g].parent \in Nat /\ files[g].parent # f))
  BY <1>1, RowsAreNumbered
<1>6. \A g \in Nat : rank[g] \in Nat
  BY DEF Ranks
<1> HIDE DEF f, new, to
<1>7. rank2 \in Ranks
  BY <1>4, <1>6 DEF Ranks
<1>8. \A g \in Nat : rank2[g] = IF g = f THEN IF to = None THEN 0 ELSE rank[to] + 1 ELSE rank[g]
  OBVIOUS
<1> HIDE DEF rank2
<1>9. ASSUME NEW g \in DOMAIN files', files'[g].parent # None PROVE rank2[files'[g].parent] < rank2[g]
  <2>1. CASE g = f
    <3>1. files'[g].parent = to
      BY <1>2, <1>3, <2>1
    <3>2. to \in Nat /\ to # f /\ to # None
      BY <1>4, <1>9, <3>1
    <3>3. rank2[to] = rank[to] /\ rank2[g] = rank[to] + 1 /\ rank[to] \in Nat
      BY <1>1, <1>6, <1>8, <2>1, <3>2 DEF f
    <3> QED BY <3>1, <3>3
  <2>2. CASE g # f
    <3>1. g \in DOMAIN files /\ files'[g] = files[g]
      BY <1>3, <1>9, <2>2
    <3>2. files[g].parent \in Nat /\ files[g].parent # f /\ g \in Nat
      BY <1>5, <1>9, <3>1
    <3>3. rank[files[g].parent] < rank[g]
      BY <1>9, <3>1 DEF Ranked
    <3> QED BY <1>8, <2>2, <3>1, <3>2, <3>3
  <2> QED BY <2>1, <2>2
<1> QED BY <1>7, <1>9 DEF Ranked

\* What the walk has come to.
LEMMA WalkUp ==
  ASSUME Upright(files), NEW f, NEW to, NEW p, NEW seen, Climbing(files, f, to, p, seen)
  PROVE  /\ Live(p)
         /\ p \in seen => Clear(files, f, to)
         /\ p # f /\ files[p].parent = None => Clear(files, f, to)
         /\ p # f /\ files[p].parent # None => Climbing(files, f, to, files[p].parent, seen \cup {p})
<1>1. /\ to \in seen /\ f \notin seen /\ p # None
      /\ \A g \in seen : LiveIn(files, g) /\ (files[g].parent = None \/ files[g].parent \in seen \cup {p})
      /\ \E g \in seen : files[g].parent = p
  BY DEF Climbing
<1>2. LiveIn(files, p)
  <2>1. PICK g \in seen : files[g].parent = p
    BY <1>1
  <2>2. LiveIn(files, g) /\ g \in DOMAIN files
    BY <1>1 DEF LiveIn
  <2> QED BY <1>1, <2>1, <2>2 DEF Upright, Fine
<1>3. ASSUME p \in seen PROVE Clear(files, f, to)
  <2>1. \A g \in seen : g \in DOMAIN files /\ files[g].parent # None => files[g].parent \in seen
    BY <1>1, <1>3
  <2> QED BY <1>1, <2>1 DEF Clear
<1> DEFINE U == seen \cup {p}
<1>4. \A g \in U : LiveIn(files, g)
  BY <1>1, <1>2
<1>5. ASSUME p # f, files[p].parent = None PROVE Clear(files, f, to)
  <2>1. \A g \in U : g \in DOMAIN files /\ files[g].parent # None => files[g].parent \in U
    BY <1>1, <1>5
  <2>2. to \in U /\ f \notin U
    BY <1>1, <1>5
  <2> HIDE DEF U
  <2> QED BY <2>1, <2>2 DEF Clear
<1>6. ASSUME p # f, files[p].parent # None PROVE Climbing(files, f, to, files[p].parent, U)
  <2>1. to \in U /\ f \notin U /\ p \in U
    BY <1>1, <1>6
  <2>2. \A g \in U : files[g].parent = None \/ files[g].parent \in U \cup {files[p].parent}
    BY <1>1
  <2> HIDE DEF U
  <2> QED BY <1>4, <1>6, <2>1, <2>2 DEF Climbing
<1> QED BY <1>2, <1>3, <1>5, <1>6, LiveIsLiveIn

\* The walk begins.
LEMMA WalkStarts ==
  ASSUME NEW f, NEW to, Live(to), f # to
  PROVE  /\ files[to].parent = None => Clear(files, f, to)
         /\ files[to].parent # None => Climbing(files, f, to, files[to].parent, {to})
<1> DEFINE U == {to}
<1>1. to \in U /\ f \notin U /\ (\A g \in U : g = to)
  OBVIOUS
<1>2. LiveIn(files, to)
  BY LiveIsLiveIn
<1> HIDE DEF U
<1>3. files[to].parent = None => Clear(files, f, to)
  BY <1>1 DEF Clear
<1>4. files[to].parent # None => Climbing(files, f, to, files[to].parent, U)
  BY <1>1, <1>2 DEF Climbing
<1> QED BY <1>3, <1>4 DEF U

LEMMA MoveWalks ==
  ASSUME NEW K, Fits(K), NEW r \in Workers, Upright(files), Moving(files, request[r], jobs[r]),
         Walking(files, request[r], jobs[r]), NEW rank \in Ranks, Ranked(files, rank),
         CheckTarget(r) \/ MoveFile(r) \/ MoveInto(r) \/ ClimbOn(r) \/ SetParent(r)
  PROVE  /\ Walking(files', request'[r], jobs'[r])
         /\ \E rank2 \in Ranks : Ranked(files', rank2)
<1> DEFINE q == request[r] f == Now(r).id to == q.to js == jobs[r] S == AllItems(js)
<1>1. js # <<>> /\ request' = request
  BY DEF CheckTarget, MoveFile, MoveInto, ClimbOn, SetParent, At, Done, Then, Fail, Refuse
<1>2. Now(r).do \in Climbers => Led(files, to, Now(r))
  <2>1. JobsOf(js, S) /\ js # <<>>
    BY <1>1, JobsAreJobs
  <2> HIDE DEF S
  <2>2. 1 \in DOMAIN js /\ Head(js) = js[1] /\ js[1] \in Seq(S) \ {<<>>}
    BY <2>1, TailJobs DEF JobsOf
  <2>3. 1 \in 1 .. Len(js[1]) /\ Now(r) = js[1][1]
    BY <2>2 DEF Now
  <2> QED BY <2>2, <2>3 DEF Walking
\* The rows stay, and it goes on with this item, or with none.
<1>3. ASSUME files' = files, NEW i, Goes(r, <<i>>), i.do \in Climbers => Led(files, to, i)
      PROVE  /\ Walking(files', request'[r], jobs'[r])
             /\ \E rank2 \in Ranks : Ranked(files', rank2)
  BY <1>1, <1>3, WalkOn
<1>4. ASSUME Goes(r, <<>>) \/ (\E code : Fail(r, code)) \/ (\E code : Refuse(r, code))
      PROVE  Walking(files', request'[r], jobs'[r])
  BY <1>1, <1>4, WalkOn
<1>5. CASE CheckTarget(r)
  <2>1. files' = files
    BY <1>5 DEF CheckTarget, Read, tableVars
  <2>2. Goes(r, <<>>) \/ (\E code : Refuse(r, code))
    BY <1>5 DEF CheckTarget, Done, Then
  <2> QED BY <1>4, <2>1, <2>2
<1>6. CASE MoveFile(r)
  <2> DEFINE set == Item("set_parent", f) into == Item("move_into", f)
  <2>1. files' = files
    BY <1>6 DEF MoveFile, Read, tableVars
  <2>2. (\E code : Fail(r, code)) \/ (to = None /\ Goes(r, <<set>>)) \/ (to # f /\ Goes(r, <<into>>))
    BY <1>6 DEF MoveFile, Then
  <2>3. set.do = "set_parent" /\ into.do = "move_into" /\ into.id = f
    BY ItemsAreItems
  <2> HIDE DEF set, into, to, js, f
  <2>4. to = None => Led(files, to, set)
    BY <2>3 DEF Led
  <2>5. to # f => Led(files, to, into)
    BY <2>3 DEF Led
  <2> QED BY <1>3, <1>4, <2>1, <2>2, <2>4, <2>5
\* A step of the walk up.
<1>7. ASSUME NEW current, NEW seen, Goes(r, Climb(f, current, seen)), files' = files,
             files[current].parent = None => Clear(files, f, to),
             files[current].parent # None => Climbing(files, f, to, files[current].parent, seen)
      PROVE  /\ Walking(files', request'[r], jobs'[r])
             /\ \E rank2 \in Ranks : Ranked(files', rank2)
  <2> DEFINE set == Item("set_parent", f) p == files[current].parent
             next == [Item("climb", f) EXCEPT !.at = p, !.arg = seen]
  <2>1. (p = None /\ Climb(f, current, seen) = <<set>>) \/ (p # None /\ Climb(f, current, seen) = <<next>>)
    BY DEF Climb
  <2>2. set.do = "set_parent" /\ set.id = f
    BY ItemsAreItems
  <2>3. next.do = "climb" /\ next.id = f /\ next.at = p /\ next.arg = seen
    <3>1. ASSUME NEW i, i = next PROVE i.do = "climb" /\ i.id = f /\ i.at = p /\ i.arg = seen
      BY <3>1 DEF Item
    <3> QED BY <3>1
  <2> HIDE DEF set, next, js, to, f, p
  <2>4. p = None => Led(files, to, set)
    BY <1>7, <2>2 DEF Led, p
  <2>5. p # None => Led(files, to, next)
    BY <1>7, <2>3 DEF Led, p
  <2>6. (p = None /\ Goes(r, <<set>>)) \/ (p # None /\ Goes(r, <<next>>))
    BY <1>7, <2>1
  <2> QED BY <1>3, <1>7, <2>4, <2>5, <2>6
<1>8. CASE MoveInto(r)
  <2>1. files' = files /\ Now(r).do = "move_into"
    BY <1>8 DEF MoveInto, Read, tableVars, At
  <2>2. (\E code : Fail(r, code)) \/ (Verdict(to, q.space) = 200 /\ Goes(r, Climb(f, to, {to})))
    BY <1>8 DEF MoveInto, Then
  <2>3. f # to
    BY <1>2, <2>1 DEF Led, Climbers
  <2>4. Verdict(to, q.space) = 200 => Live(to)
    BY FoundIsLive
  <2> HIDE DEF to, f, q
  <2>5. Live(to) => /\ files[to].parent = None => Clear(files, f, to)
                    /\ files[to].parent # None => Climbing(files, f, to, files[to].parent, {to})
    BY <2>3, WalkStarts
  <2> QED BY <1>4, <1>7, <2>1, <2>2, <2>4, <2>5
<1>9. CASE ClimbOn(r)
  <2> DEFINE p == Now(r).at seen == Now(r).arg set == Item("set_parent", f)
  <2>1. files' = files /\ Now(r).do = "climb"
    BY <1>9 DEF ClimbOn, Read, tableVars, At
  <2>2. Climbing(files, f, to, p, seen)
    BY <1>2, <2>1 DEF Led, Climbers
  <2>3. \/ \E code : Fail(r, code)
        \/ (~Live(p) \/ p \in seen) /\ Goes(r, <<set>>)
        \/ p # f /\ Goes(r, Climb(f, p, seen \cup {p}))
    BY <1>9 DEF ClimbOn, Then
  <2>4. set.do = "set_parent" /\ set.id = f
    BY ItemsAreItems
  <2> HIDE DEF set, to, js, f, p, seen
  <2>5. /\ Live(p)
        /\ p \in seen => Clear(files, f, to)
        /\ p # f /\ files[p].parent = None => Clear(files, f, to)
        /\ p # f /\ files[p].parent # None => Climbing(files, f, to, files[p].parent, seen \cup {p})
    BY <2>2, WalkUp
  <2>6. p \in seen => Led(files, to, set)
    BY <2>4, <2>5 DEF Led
  <2>7. CASE \E code : Fail(r, code)
    BY <1>4, <2>1, <2>7
  <2>8. CASE p \in seen /\ Goes(r, <<set>>)
    BY <1>3, <2>1, <2>6, <2>8
  <2>9. CASE p # f /\ Goes(r, Climb(f, p, seen \cup {p}))
    BY <1>7, <2>1, <2>5, <2>9
  <2> QED BY <2>3, <2>5, <2>7, <2>8, <2>9
<1>10. CASE SetParent(r)
  <2>1. files' = UpdateFileParent(f, to) /\ Goes(r, <<>>) /\ Now(r).do = "set_parent"
    BY <1>10 DEF SetParent, FilesOnly, Done, Then, At
  <2>2. to = None \/ Clear(files, f, to)
    BY <1>2, <2>1 DEF Led, Climbers
  <2>3. to = None \/ to \in Nat
    <3>1. Fine(files, to)
      <4>1. Now(r) \in AllItems(js)
        BY <1>1, LeftToDo
      <4> QED BY <2>1, <4>1 DEF Moving
    <3>2. \A g \in DOMAIN files : g \in Nat
      BY RowsAreNumbered DEF Fits, TableFits
    <3> QED BY <3>1, <3>2 DEF Fine, LiveIn
  <2>4. CASE f \in DOMAIN files
    <3> DEFINE row == [files[f] EXCEPT !.parent = to]
    <3>1. files' = Updated(f, row)
      BY <2>1, <2>4 DEF UpdateFileParent
    <3>2. IsRow(files[f]) /\ TableFits(K)
      BY <2>4 DEF Fits, TableFits, RowFits
    <3>3. row.parent = to
      BY <3>2 DEF IsRow
    <3> HIDE DEF row, f, to
    <3>4. \E rank2 \in Ranks : Ranked(files', rank2)
      BY <2>2, <2>3, <2>4, <3>1, <3>2, <3>3, MovedIsRanked
    <3> QED BY <1>4, <2>1, <3>4
  <2>5. CASE f \notin DOMAIN files
    <3>1. files' = files
      BY <2>1, <2>5 DEF UpdateFileParent
    <3> QED BY <1>4, <2>1, <3>1
  <2> QED BY <2>4, <2>5
<1> QED BY <1>5, <1>6, <1>8, <1>9, <1>10

\* Only a purge deletes rows and puts them back, only a move walks.
LEMMA KindsRest ==
  ASSUME NEW js, NEW rows, NEW q, NEW l,
         \/ Within(js, Others) \/ Trashing(rows, js) \/ Moving(rows, q, js)
         \/ Duplicating(rows, q, js) \/ Submitting(rows, l, js)
  PROVE  \A rank, l2 : Restful(rank, l2, js)
<1> DEFINE C == Others \cup Trashers \cup Movers \cup Copiers \cup Submitters
<1>1. \A i \in AllItems(js) : i.do \in C
  BY DEF Within, Trashing, Moving, Duplicating, Submitting
<1>2. "undo_put" \notin C /\ \A do \in Deletion : do \notin C
  BY DEF Others, Trashers, Movers, Copiers, Submitters, Deletion
<1> HIDE DEF C
<1> QED BY <1>1, <1>2 DEF Restful, Puts

LEMMA KindsAreClimbless ==
  ASSUME NEW T, NEW js, JobsOf(js, T), NEW rows, NEW q, NEW l, NEW faults,
         \/ Within(js, Others) \/ Trashing(rows, js) \/ Duplicating(rows, q, js)
         \/ Submitting(rows, l, js) \/ Purging(rows, faults, l, js)
  PROVE  Climbless(js)
<1>1. ASSUME Within(js, Others) \/ Trashing(rows, js) \/ Duplicating(rows, q, js) \/ Submitting(rows, l, js)
      PROVE  Climbless(js)
  <2> DEFINE C == Others \cup Trashers \cup Copiers \cup Submitters
  <2>1. \A i \in AllItems(js) : i.do \in C
    BY <1>1 DEF Within, Trashing, Duplicating, Submitting
  <2>2. \A do \in Climbers : do \notin C
    BY DEF Others, Trashers, Copiers, Submitters, Climbers
  <2> HIDE DEF C
  <2> QED BY <2>1, <2>2 DEF Climbless
<1>2. ASSUME Purging(rows, faults, l, js) PROVE Climbless(js)
  <2> DEFINE C == Purgers \cup Enders \cup Undoers
  <2>1. ASSUME NEW i \in AllItems(js) PROVE i.do \in C
    <3>1. PICK k \in DOMAIN js : \E x \in 1 .. Len(js[k]) : js[k][x] = i
      BY ItemsAndPlaces
    <3>2. PICK x \in 1 .. Len(js[k]) : js[k][x] = i
      BY <3>1
    <3>3. Fresh(js[k]) \/ Ending(rows, l, js[k]) \/ PuttingBack(rows, js[k])
      BY <1>2 DEF Purging
    <3> QED BY <3>2, <3>3 DEF Fresh, Ending, PuttingBack
  <2>2. \A do \in Climbers : do \notin C
    BY DEF Purgers, Enders, Undoers, Climbers
  <2> HIDE DEF C
  <2> QED BY <2>1, <2>2 DEF Climbless
<1> QED BY <1>1, <1>2

LEMMA KindsSettle ==
  ASSUME NEW T, NEW js, JobsOf(js, T), NEW rows, NEW q, NEW l,
         \/ Within(js, Others) \/ Trashing(rows, js) \/ Duplicating(rows, q, js) \/ Submitting(rows, l, js),
         NEW rows2, \E rank2 \in Ranks : Ranked(rows2, rank2), NEW q2, NEW l2
  PROVE  Settled(rows2, q2, l2, js)
<1>1. \A rank : Restful(rank, l2, js)
  BY KindsRest
<1>2. Climbless(js)
  BY KindsAreClimbless
<1>3. Walking(rows2, q2, js)
  BY <1>2, ClimblessWalks
<1> QED BY <1>1, <1>3 DEF Settled

\* Listings, archives, names and tags.
LEMMA OthersSettle ==
  ASSUME NEW K, Fits(K), NEW r \in Workers, OrderlyAt(r), Upright(files), NEW store,
         ArchiveStep(r, store) \/ Rename(r) \/ SetName(r) \/ BatchTag(r) \/ SetTags(r),
         NEW rank \in Ranks, Ranked(files, rank), JobsOf(jobs'[r], AllItems(jobs'[r]))
  PROVE  Settled(files', request'[r], notes'[r], jobs'[r])
<1>1. Within(jobs'[r], Others)
  BY OthersGoOn
<1>2. KeptBelow(files, files')
  BY OthersLeaveTree DEF SameTree, KeptBelow
<1>3. Ranked(files', rank)
  BY <1>2, KeptIsRanked
<1> QED BY <1>1, <1>3, KindsSettle

LEMMA TrashSettles ==
  ASSUME NEW K, Fits(K), NEW r \in Workers, OrderlyAt(r), Upright(files), clock # 0,
         Trash(r) \/ TrashList(r) \/ TrashMark(r) \/ BatchDelete(r),
         NEW rank \in Ranks, Ranked(files, rank), JobsOf(jobs'[r], AllItems(jobs'[r]))
  PROVE  Settled(files', request'[r], notes'[r], jobs'[r])
<1> DEFINE f == Now(r).id at == Now(r).arg
<1>1. Trashing(files', jobs'[r])
  BY TrashGoesOn
<1>2. KeptBelow(files, files')
  <2>1. files' = files \/ (Live(f) /\ files' = MoveFileToTrash(f, at))
    BY DEF Trash, TrashList, TrashMark, BatchDelete, Read, tableVars, FilesOnly
  <2> HIDE DEF f, at
  <2>2. ASSUME Live(f), NEW row, row = [files[f] EXCEPT !.trashed = at] PROVE row.parent = files[f].parent
    <3>1. IsRow(files[f])
      BY <2>2 DEF Fits, TableFits, RowFits, Live
    <3> QED BY <2>2, <3>1 DEF IsRow
  <2> QED BY <2>1, <2>2 DEF KeptBelow, MoveFileToTrash, Updated
<1>3. Ranked(files', rank)
  BY <1>2, KeptIsRanked
<1> QED BY <1>1, <1>3, KindsSettle

LEMMA MoveSettles ==
  ASSUME NEW K, Fits(K), NEW r \in Workers, Upright(files), Moving(files, request[r], jobs[r]),
         CheckTarget(r) \/ MoveFile(r) \/ MoveInto(r) \/ ClimbOn(r) \/ SetParent(r),
         Walking(files, request[r], jobs[r]), NEW rank \in Ranks, Ranked(files, rank)
  PROVE  Settled(files', request'[r], notes'[r], jobs'[r])
<1>1. Moving(files', request'[r], jobs'[r])
  BY MoveGoesOn
<1>2. \A rank2 : Restful(rank2, notes'[r], jobs'[r])
  BY <1>1, KindsRest
<1>3. Walking(files', request'[r], jobs'[r]) /\ \E rank2 \in Ranks : Ranked(files', rank2)
  BY MoveWalks
<1> QED BY <1>2, <1>3 DEF Settled

LEMMA CopySettles ==
  ASSUME NEW K, Fits(K), NEW r \in Workers, Upright(files), Duplicating(files, request[r], jobs[r]),
         CheckTarget(r) \/ Copy(r) \/ CopyRow(r) \/ CopyList(r) \/ CopyReference(r),
         NEW rank \in Ranks, Ranked(files, rank), JobsOf(jobs'[r], AllItems(jobs'[r]))
  PROVE  Settled(files', request'[r], notes'[r], jobs'[r])
<1>1. Duplicating(files', request'[r], jobs'[r])
  BY CopyGoesOn
<1>2. \E rank2 \in Ranks : Ranked(files', rank2)
  <2>1. CASE CopyRow(r)
    <3> DEFINE i == Now(r) row == i.arg new == [row EXCEPT !.space = request[r].space, !.parent = i.at]
    <3>1. Insert(new) /\ i.do = "copy_row" /\ jobs[r] # <<>>
      BY <2>1 DEF CopyRow, At
    <3>2. IsRow(row)
      BY <3>1, PlainWorks DEF Good, Special
    <3>3. IsRow(new) /\ new.parent = i.at
      <4> HIDE DEF i
      <4>1. ASSUME NEW x, x = [row EXCEPT !.space = request[r].space, !.parent = i.at]
            PROVE  IsRow(x) /\ x.parent = i.at
        BY <3>2, <4>1 DEF IsRow
      <4> QED BY <4>1
    <3>4. Fine(files, i.at)
      <4>1. i \in AllItems(jobs[r])
        BY <3>1, LeftToDo
      <4> QED BY <3>1, <4>1 DEF Duplicating
    <3> HIDE DEF new, i
    <3>5. TableFits(K) /\ (new.parent = None \/ new.parent \in 1 .. issued)
      BY <3>3, <3>4, RowsAreNumbered DEF Fine, LiveIn, Fits
    <3> QED BY <3>1, <3>3, <3>5, InsertIsRanked
  <2>2. CASE ~CopyRow(r)
    <3>1. files' = files
      BY <2>2 DEF CheckTarget, Copy, CopyList, CopyReference, Read, tableVars, BlobsOnly
    <3> QED BY <3>1
  <2> QED BY <2>1, <2>2
<1> QED BY <1>1, <1>2, KindsSettle

\* A file is above nothing.
LEMMA FilesAreClear ==
  ASSUME NEW K, TableFits(K), NEW f, NEW space, IsFile(K, f, space), NEW to, NEW space2, IsDir(K, to, space2)
  PROVE  to \in Nat /\ Clear(files, f, to)
<1> DEFINE U == Nat \ {f}
<1>1. to \in Nat /\ to # f
  BY DEF IsDir, IsFile, Held, TableFits
<1>2. ASSUME NEW g \in DOMAIN files, files[g].parent # None PROVE files[g].parent \in Nat \ {f}
  <2>1. files[g].parent \in Nat
    BY <1>2, RowsAreNumbered
  <2>2. files[g].parent # f
    BY <1>2 DEF TableFits, RowFits, Inside, IsDir, IsFile
  <2> QED BY <2>1, <2>2
<1>3. to \in U /\ f \notin U /\ \A g \in U : g \in DOMAIN files /\ files[g].parent # None => files[g].parent \in U
  BY <1>1, <1>2
<1> HIDE DEF U
<1>4. Clear(files, f, to)
  BY <1>3 DEF Clear
<1> QED BY <1>1, <1>4

LEMMA SubmitSettles ==
  ASSUME NEW K, Fits(K), NEW r \in Workers, Upright(files), Submitting(files, notes[r], jobs[r]),
         \/ ValidateEntry(r) \/ MakeRoot(r) \/ MakeDir(r) \/ Adopt(r) \/ Reparent(r)
         \/ Relocate(r) \/ ReadSource(r) \/ WriteTarget(r) \/ FillTarget(r)
         \/ DeleteSource(r) \/ SetPath(r),
         NEW rank \in Ranks, Ranked(files, rank), JobsOf(jobs'[r], AllItems(jobs'[r]))
  PROVE  Settled(files', request'[r], notes'[r], jobs'[r])
<1> DEFINE q == request[r] i == Now(r)
<1>1. Submitting(files', notes'[r], jobs'[r])
  BY SubmitGoesOn
<1>2. TableFits(K)
  BY DEF Fits
<1>3. ASSUME jobs[r] # <<>>, i.do \in {"make_dir", "reparent"}, NEW path
      PROVE  /\ Good(K, q, notes[r], i)
             /\ IsDir(K, ParentID(r, path), q.space) /\ ParentID(r, path) \in 1 .. issued
  <2>1. Good(K, q, notes[r], i) /\ LocalsFit(K, q, notes[r])
    BY <1>3, PlainWorks DEF Special
  <2>2. <<>> \in DOMAIN notes[r].made
    BY <1>3, <2>1 DEF Good
  <2>3. IsDir(K, ParentID(r, path), q.space)
    BY <2>1, <2>2, ParentIsMade
  <2> QED BY <1>2, <2>1, <2>3 DEF IsDir, Held, TableFits
<1>4. ASSUME NEW parent, NEW name, NEW path, Insert(NewDir(q.space, parent, name, path)),
             parent = None \/ parent \in 1 .. issued
      PROVE  \E rank2 \in Ranks : Ranked(files', rank2)
  <2> DEFINE row == NewDir(q.space, parent, name, path)
  <2>1. IsRow(row) /\ row.parent = parent
    BY NewDirIsRow
  <2>2. Insert(row)
    BY <1>4
  <2> HIDE DEF row
  <2> QED BY <1>2, <1>4, <2>1, <2>2, InsertIsRanked
<1>5. \E rank2 \in Ranks : Ranked(files', rank2)
  <2>1. CASE MakeRoot(r)
    <3>1. Insert(NewDir(q.space, None, DirName(q), <<>>))
      BY <2>1 DEF MakeRoot
    <3> QED BY <1>4, <3>1
  <2>2. CASE MakeDir(r)
    <3> DEFINE path == i.arg
    <3>1. Insert(NewDir(q.space, ParentID(r, path), Last(path), path)) /\ jobs[r] # <<>> /\ i.do = "make_dir"
      BY <2>2 DEF MakeDir, At
    <3>2. ParentID(r, path) \in 1 .. issued
      BY <1>3, <3>1
    <3> HIDE DEF path
    <3> QED BY <1>4, <3>1, <3>2
  <2>3. CASE Reparent(r)
    <3> DEFINE f == i.id path == i.arg to == ParentID(r, path)
    <3>1. files' = ReparentFile(f, to, path) /\ jobs[r] # <<>> /\ i.do = "reparent"
      BY <2>3 DEF Reparent, FilesOnly, At
    <3>2. IsFile(K, f, q.space) /\ IsDir(K, to, q.space)
      BY <1>3, <3>1 DEF Good
    <3> HIDE DEF to, f, path, q
    <3>3. CASE f \notin DOMAIN files
      BY <3>1, <3>3 DEF ReparentFile
    <3>4. CASE f \in DOMAIN files
      <4> DEFINE row == [files[f] EXCEPT !.parent = to, !.path = path]
      <4>1. files' = Updated(f, row)
        BY <3>1, <3>4 DEF ReparentFile
      <4>2. row.parent = to
        <5>1. ASSUME NEW new, new = row PROVE new.parent = to
          <6>1. IsRow(files[f])
            BY <1>2, <3>4 DEF TableFits, RowFits
          <6> QED BY <5>1, <6>1 DEF IsRow, row
        <5> QED BY <5>1
      <4>3. to \in Nat /\ Clear(files, f, to)
        BY <1>2, <3>2, FilesAreClear
      <4> HIDE DEF row
      <4> QED BY <1>2, <3>4, <4>1, <4>2, <4>3, MovedIsRanked
    <3> QED BY <3>3, <3>4
  <2>4. CASE ~MakeRoot(r) /\ ~MakeDir(r) /\ ~Reparent(r)
    <3>1. files' = files
      BY <2>4 DEF ValidateEntry, Adopt, Relocate, ReadSource, WriteTarget, FillTarget, DeleteSource,
           SetPath, Read, tableVars, ObjectsOnly, BlobsOnly
    <3> QED BY <3>1
  <2> QED BY <2>1, <2>2, <2>3, <2>4
<1> QED BY <1>1, <1>5, KindsSettle

\* What is left are some of the items before and those it has led to, and it
\* undoes no more than what goes below its directory.
LEMMA RestsOn ==
  ASSUME NEW rank, NEW l, NEW js, Restful(rank, l, js), NEW l2, NEW js2, NEW S,
         AllItems(js2) \subseteq S \cup AllItems(js),
         \A i \in S : i.do # "undo_put",
         (\E i \in S : i.do \in Deletion) => (\E i \in AllItems(js) : i.do \in Deletion) \/ Range(l2.undo) = {},
         \A i \in Range(l2.undo) : i \in Range(l.undo) \/ Puts(rank, i)
  PROVE  Restful(rank, l2, js2)
<1>1. \A i \in AllItems(js2) : Puts(rank, i)
  BY DEF Restful, Puts
<1>2. ASSUME \E i \in AllItems(js2) : i.do \in Deletion, NEW u \in Range(l2.undo) PROVE Puts(rank, u)
  <2>1. \E i \in AllItems(js) : i.do \in Deletion
    BY <1>2
  <2> QED BY <1>2, <2>1 DEF Restful
<1> QED BY <1>1, <1>2 DEF Restful

\* The items that bring a tree out of the recycle bin.
LEMMA UntrashingIsListed ==
  ASSUME NEW K, TableFits(K), NEW f \in DOMAIN files, NEW space
  PROVE  /\ Untrashing(f, space) \in Seq({Item("untrash", g) : g \in DOMAIN files})
         /\ \A i \in {Item("untrash", g) : g \in DOMAIN files} : i.do = "untrash"
<1> DEFINE s == TrashTreeByID(f, space) D == DOMAIN files T == {Item("untrash", g) : g \in D}
<1>1. s \in Seq(D)
  BY TrashTreeFromTop DEF FromTop
<1>2. \A i \in T : i.do = "untrash"
  BY ItemsAreItems
<1>3. \A g \in D : Item("untrash", g) \in T
  OBVIOUS
<1> HIDE DEF s, T, D
<1>4. Each(s, LAMBDA g : Item("untrash", g)) \in Seq(T)
  BY <1>1, <1>3 DEF Each
<1> QED BY <1>2, <1>4 DEF Untrashing, s, T, D

\* Steps that put nothing back and do not start to delete.
LEMMA RestsAt ==
  ASSUME NEW K, Fits(K), NEW r \in Workers, jobs[r] # <<>>, NEW rank, Restful(rank, notes[r], jobs[r]),
         NEW S, AllItems(jobs'[r]) \subseteq S \cup AllItems(jobs[r]),
         \A i \in S : i.do # "undo_put" /\ (i.do \in Deletion => Now(r).do \in Deletion),
         \A u \in Range(notes'[r].undo) : u \in Range(notes[r].undo) \/ Puts(rank, u)
  PROVE  Restful(rank, notes'[r], jobs'[r])
<1> DEFINE l == notes[r] l2 == notes'[r] js == jobs[r] js2 == jobs'[r]
<1>1. Now(r) \in AllItems(js)
  BY LeftToDo
<1> HIDE DEF l, l2, js, js2
<1>2. \A i \in AllItems(js2) : Puts(rank, i)
  BY DEF Restful, Puts, js, js2
<1>3. ASSUME NEW i \in AllItems(js2), i.do \in Deletion, NEW u \in Range(l2.undo) PROVE Puts(rank, u)
  <2>1. \E d \in AllItems(js) : d.do \in Deletion
    BY <1>1, <1>3 DEF js, js2
  <2> QED BY <1>3, <2>1 DEF Restful, js, l, l2
<1> QED BY <1>2, <1>3 DEF Restful, js2, l2

LEMMA UndoStays ==
  ASSUME NEW K, Fits(K), NEW r \in Workers,
         \/ notes' = notes
         \/ \E x : notes' = [notes EXCEPT ![r].status = x]
         \/ \E x : notes' = [notes EXCEPT ![r].sent = x]
         \/ \E x : notes' = [notes EXCEPT ![r] = [notes[r] EXCEPT !.pending = x]]
  PROVE  notes'[r].undo = notes[r].undo
<1>1. LocalsFit(K, request[r], notes[r]) /\ notes = [s \in Workers |-> notes[s]]
  BY DEF Fits, WorkFits
<1>2. ASSUME NEW x, notes' = [notes EXCEPT ![r].status = x] PROVE notes'[r].undo = notes[r].undo
  BY <1>1, <1>2 DEF LocalsFit
<1>3. ASSUME NEW x, notes' = [notes EXCEPT ![r].sent = x] PROVE notes'[r].undo = notes[r].undo
  BY <1>1, <1>3 DEF LocalsFit
<1>4. ASSUME NEW x, notes' = [notes EXCEPT ![r] = [notes[r] EXCEPT !.pending = x]]
      PROVE  notes'[r].undo = notes[r].undo
  BY <1>1, <1>4 DEF LocalsFit
<1> QED BY <1>2, <1>3, <1>4

\* What a step adds to the undo stack is all that is new there.
LEMMA UndoGrows ==
  ASSUME NEW K, Fits(K), NEW r \in Workers, NEW undo,
         notes' = [notes EXCEPT ![r] = [notes[r] EXCEPT !.undo = Append(@, undo)]]
  PROVE  \A u \in Range(notes'[r].undo) : u \in Range(notes[r].undo) \/ u = undo
<1> DEFINE l == notes[r] old == l.undo more == Append(old, undo)
<1>1. LocalsFit(K, request[r], l) /\ notes = [s \in Workers |-> notes[s]]
  BY DEF Fits, WorkFits
<1>2. notes'[r].undo = more
  <2>1. notes'[r] = [l EXCEPT !.undo = more]
    BY <1>1
  <2> HIDE DEF more
  <2> QED BY <1>1, <2>1 DEF LocalsFit
<1>3. old \in Seq(Range(old))
  BY <1>1 DEF LocalsFit, IsList
<1>4. \A u \in Range(more) : u \in Range(old) \/ u = undo
  <2> DEFINE T == Range(old) \cup {undo}
  <2>1. more \in Seq(T)
    <3>1. undo \in T /\ \A s \in Seq(Range(old)) : s \in Seq(T)
      OBVIOUS
    <3>2. old \in Seq(T)
      BY <1>3, <3>1
    <3> HIDE DEF T, old
    <3> QED BY <3>1, <3>2
  <2> HIDE DEF T, more
  <2>2. \A x \in DOMAIN more : more[x] \in T
    BY <2>1
  <2> QED BY <2>2 DEF Range, T
<1> QED BY <1>2, <1>4

\* What is put back was undone in its order.
LEMMA RollbackRests ==
  ASSUME NEW K, Fits(K), NEW r \in Workers, jobs[r] # <<>>, Now(r).do \in Deletion,
         NEW code, Rollback(r, code), NEW rank, Restful(rank, notes[r], jobs[r])
  PROVE  Restful(rank, notes'[r], jobs'[r])
<1> DEFINE l == notes[r] js == jobs[r] undo == l.undo back == Reverse(undo) S == AllItems(js) T == Range(undo)
           U == T \cup S first == IF undo = <<>> THEN <<>> ELSE <<back>> tail == Tail(js)
<1>1. Now(r) \in S /\ JobsOf(js, S)
  BY LeftToDo, JobsAreJobs
<1>2. \A u \in T : Puts(rank, u)
  BY <1>1 DEF Restful
<1>3. \A i \in U : Puts(rank, i)
  BY <1>2 DEF Restful
<1>4. notes'[r].undo = undo
  <2>1. notes' = notes \/ \E x : notes' = [notes EXCEPT ![r].status = x]
    BY DEF Rollback
  <2> QED BY <2>1, UndoStays
<1>5. jobs'[r] = first \o tail
  <2>1. jobs = [s \in Workers |-> jobs[s]]
    BY DEF Fits, WorkFits
  <2> QED BY <2>1 DEF Rollback
<1>6. undo \in Seq(T)
  <2>1. LocalsFit(K, request[r], l)
    BY DEF Fits, WorkFits
  <2> QED BY <2>1 DEF LocalsFit, IsList
<1>7. tail \in Seq(Seq(U) \ {<<>>})
  <2>1. JobsOf(tail, S)
    BY <1>1, TailJobs
  <2> HIDE DEF tail, S
  <2>2. JobsOf(tail, U)
    BY <2>1, JobsOfMore
  <2> QED BY <2>2 DEF JobsOf
<1>8. first \in Seq(Seq(U) \ {<<>>})
  <2>1. CASE undo = <<>>
    BY <2>1
  <2>2. CASE undo # <<>>
    <3>1. back \in Seq(T) /\ back # <<>>
      <4> HIDE DEF T, undo
      <4>1. back = [x \in 1 .. Len(undo) |-> undo[(Len(undo) - x) + 1]]
        BY DEF Reverse
      <4>2. Len(undo) \in Nat \ {0} /\ \A x \in 1 .. Len(undo) : undo[x] \in T
        BY <1>6, <2>2
      <4>3. \A x \in 1 .. Len(undo) : Len(undo) - x + 1 \in 1 .. Len(undo)
        BY <4>2
      <4> DEFINE n == Len(undo)
      <4>4. back \in [1 .. n -> T]
        BY <4>1, <4>2, <4>3
      <4> HIDE DEF n, back
      <4>5. n \in Nat \ {0}
        BY <4>2 DEF n
      <4>6. back \in Seq(T)
        BY <4>4, <4>5
      <4>7. Len(back) = n
        BY <4>4, <4>5
      <4> QED BY <4>5, <4>6, <4>7
    <3> HIDE DEF back, S, T
    <3>2. back \in Seq(U) \ {<<>>}
      BY <3>1
    <3> HIDE DEF U
    <3>3. <<back>> \in Seq(Seq(U) \ {<<>>})
      BY <3>2
    <3> QED BY <2>2, <3>3
  <2> QED BY <2>1, <2>2
<1> HIDE DEF first, tail, U
<1>9. JobsOf(jobs'[r], U)
  <2>1. first \o tail \in Seq(Seq(U) \ {<<>>})
    BY <1>7, <1>8
  <2> QED BY <1>5, <2>1 DEF JobsOf
<1>10. AllItems(jobs'[r]) \subseteq U
  BY <1>9, ItemsOf
<1> HIDE DEF undo, T
<1>11. \A i \in AllItems(jobs'[r]) : Puts(rank, i)
  BY <1>3, <1>10
<1>12. \A u \in Range(notes'[r].undo) : Puts(rank, u)
  BY <1>2, <1>4 DEF T
<1> QED BY <1>11, <1>12 DEF Restful

\* Restore and purge start with a tree that leaves the recycle bin.
LEMMA RestoreRests ==
  ASSUME NEW K, Fits(K), NEW r \in Workers, RestoreFromTrash(r) \/ PurgeFromTrash(r),
         NEW rank, Restful(rank, notes[r], jobs[r])
  PROVE  Restful(rank, notes'[r], jobs'[r])
<1> DEFINE f == Now(r).id space == Now(r).arg first == Untrashing(f, space)
           T == {Item("untrash", g) : g \in DOMAIN files}
<1>1. jobs[r] # <<>>
  BY DEF RestoreFromTrash, PurgeFromTrash, At
<1>2. ASSUME InTrash(f, space) PROVE first \in Seq(T) /\ \A i \in T : i.do = "untrash"
  <2>1. f \in DOMAIN files /\ TableFits(K)
    BY <1>2, InTrashIsTrashed DEF Fits
  <2> QED BY <2>1, UntrashingIsListed
<1>3. CASE ~InTrash(f, space)
  <2> DEFINE S == {}
  <2>1. Fail(r, 404)
    BY <1>3 DEF RestoreFromTrash, PurgeFromTrash
  <2>2. notes'[r].undo = notes[r].undo
    BY <2>1, UndoStays DEF Fail
  <2>3. AllItems(jobs'[r]) \subseteq S \cup AllItems(jobs[r]) /\ \A i \in S : FALSE
    BY <1>1, <2>1, LeftToDo
  <2> HIDE DEF S
  <2> QED BY <1>1, <2>2, <2>3, RestsAt
<1>4. CASE InTrash(f, space) /\ RestoreFromTrash(r)
  <2>1. Goes(r, first) /\ notes' = notes
    BY <1>4 DEF RestoreFromTrash, Then
  <2>2. first \in Seq(T) /\ \A i \in T : i.do # "undo_put" /\ i.do \notin Deletion
    BY <1>2, <1>4 DEF Deletion
  <2> HIDE DEF first, T
  <2>3. AllItems(jobs'[r]) \subseteq T \cup AllItems(jobs[r])
    BY <1>1, <2>1, <2>2, LeftToDo
  <2> QED BY <1>1, <2>1, <2>2, <2>3, RestsAt
<1>5. CASE InTrash(f, space) /\ PurgeFromTrash(r)
  <2> DEFINE del == Deleting(f, files[f], space) end == ItemFor("unlink", f, files[f].dir)
             none == <<>> items == first \o <<del, end>> S == T \cup {del, end}
             l2 == [notes[r] EXCEPT !.undo = none, !.pending = none]
  <2>1. Goes(r, items) /\ notes' = [notes EXCEPT ![r] = l2]
    BY <1>5 DEF PurgeFromTrash, ThenNoting
  <2>2. Doomed(del) /\ end.do = "unlink"
    BY DeletingIsDoomed, ItemsAreItems
  <2> HIDE DEF del, end
  <2>3. items \in Seq(S)
    <3>1. first \in Seq(T)
      BY <1>2, <1>5
    <3> HIDE DEF T, first
    <3>2. first \in Seq(S) /\ <<del, end>> \in Seq(S)
      BY <3>1
    <3> HIDE DEF S
    <3> QED BY <3>2
  <2>4. \A i \in S : i.do # "undo_put"
    BY <1>2, <1>5, <2>2 DEF Doomed
  <2>5. notes'[r].undo = none
    <3>1. LocalsFit(K, request[r], notes[r]) /\ notes = [w \in Workers |-> notes[w]]
      BY DEF Fits, WorkFits
    <3> HIDE DEF none
    <3>2. l2.undo = none
      BY <3>1 DEF LocalsFit
    <3> HIDE DEF l2
    <3> QED BY <2>1, <3>1, <3>2
  <2> HIDE DEF items, S, l2
  <2>6. AllItems(jobs'[r]) \subseteq S \cup AllItems(jobs[r])
    BY <1>1, <2>1, <2>3, LeftToDo
  <2>7. Range(notes'[r].undo) = {}
    BY <2>5 DEF Range
  <2>8. \A i \in AllItems(jobs'[r]) : Puts(rank, i)
    BY <2>4, <2>6 DEF Restful, Puts
  <2> QED BY <2>7, <2>8 DEF Restful
<1> QED BY <1>3, <1>4, <1>5

\* Steps of a purge that neither delete a row nor fail.
LEMMA EndingRests ==
  ASSUME NEW K, Fits(K), NEW r \in Workers,
         \/ Untrash(r) \/ DeleteReference(r) \/ DeleteCount(r) \/ DeferUnlink(r) \/ UnlinkPending(r)
         \/ UndoPut(r) \/ UndoDecr(r),
         NEW rank, Restful(rank, notes[r], jobs[r])
  PROVE  Restful(rank, notes'[r], jobs'[r])
<1> DEFINE i == Now(r)
<1>0. jobs[r] # <<>> /\ i.do \notin Special
  BY DEF Untrash, DeleteReference, DeleteCount, DeferUnlink, UnlinkPending, UndoPut, UndoDecr, At, Special
<1>1. jobs[r] # <<>> /\ IsItem(i)
  BY <1>0, PlainWorks DEF Good
<1>2. ASSUME AllItems(jobs'[r]) \subseteq AllItems(jobs[r]),
             \A u \in Range(notes'[r].undo) : u \in Range(notes[r].undo) \/ Puts(rank, u)
      PROVE  Restful(rank, notes'[r], jobs'[r])
  <2> DEFINE S == {}
  <2>1. AllItems(jobs'[r]) \subseteq S \cup AllItems(jobs[r]) /\ \A x \in S : FALSE
    BY <1>2
  <2> HIDE DEF S
  <2> QED BY <1>1, <1>2, <2>1, RestsAt
<1>3. ASSUME NEW x, AllItems(jobs'[r]) \subseteq {x} \cup AllItems(jobs[r]),
             x.do # "undo_put", x.do \in Deletion => i.do \in Deletion,
             \A u \in Range(notes'[r].undo) : u \in Range(notes[r].undo) \/ Puts(rank, u)
      PROVE  Restful(rank, notes'[r], jobs'[r])
  <2> DEFINE S == {x}
  <2>1. AllItems(jobs'[r]) \subseteq S \cup AllItems(jobs[r])
        /\ \A y \in S : y.do # "undo_put" /\ (y.do \in Deletion => i.do \in Deletion)
    BY <1>3
  <2> HIDE DEF S
  <2> QED BY <1>1, <1>3, <2>1, RestsAt
<1>4. CASE Untrash(r) \/ UndoPut(r) \/ UndoDecr(r)
  <2>1. Goes(r, <<>>) \/ Fail(r, 404)
    BY <1>4 DEF Untrash, UndoPut, UndoDecr, Done, Then
  <2>2. notes'[r].undo = notes[r].undo
    BY <1>4, UndoStays DEF Untrash, UndoPut, UndoDecr, Done, Then, Fail
  <2>3. AllItems(jobs'[r]) \subseteq AllItems(jobs[r])
    BY <1>1, <2>1, LeftToDo
  <2> QED BY <1>2, <2>2, <2>3
<1>5. CASE DeleteReference(r)
  <2> DEFINE x == [i EXCEPT !.do = "del_count"]
  <2>1. Goes(r, <<x>>) /\ notes' = notes /\ i.do = "del_ref"
    BY <1>5 DEF DeleteReference, Then, At
  <2>2. x.do = "del_count"
    BY <1>1, Reworded
  <2> HIDE DEF x, i
  <2>3. AllItems(jobs'[r]) \subseteq {x} \cup AllItems(jobs[r])
    BY <1>1, <2>1, LeftToDo
  <2> QED BY <1>3, <2>1, <2>2, <2>3 DEF Deletion
<1>6. CASE DeleteCount(r)
  <2> DEFINE x == [i EXCEPT !.do = "del_blob"] undo == [i EXCEPT !.do = "undo_incr"]
  <2>1. /\ Goes(r, <<x>>) \/ Goes(r, <<>>)
        /\ notes' = [notes EXCEPT ![r] = [notes[r] EXCEPT !.undo = Append(@, undo)]]
    BY <1>6 DEF DeleteCount, Undoable, ThenNoting
  <2>2. x.do = "del_blob" /\ undo.do = "undo_incr"
    BY <1>1, Reworded
  <2> HIDE DEF x, undo, i
  <2>3. \A u \in Range(notes'[r].undo) : u \in Range(notes[r].undo) \/ Puts(rank, u)
    <3>1. \A u \in Range(notes'[r].undo) : u \in Range(notes[r].undo) \/ u = undo
      BY <2>1, UndoGrows
    <3>2. Puts(rank, undo)
      BY <2>2 DEF Puts
    <3> QED BY <3>1, <3>2
  <2>4. \/ AllItems(jobs'[r]) \subseteq {x} \cup AllItems(jobs[r])
        \/ AllItems(jobs'[r]) \subseteq AllItems(jobs[r])
    BY <1>1, <2>1, LeftToDo
  <2> QED BY <1>2, <1>3, <2>2, <2>3, <2>4 DEF Deletion
<1>7. CASE DeferUnlink(r) \/ UnlinkPending(r)
  <2>1. (Goes(r, <<>>) \/ Goes(r, <<i>>)) /\ i.do \in {"del_blob", "unlink"}
    BY <1>7 DEF DeferUnlink, UnlinkPending, Done, Then, ThenNoting, At
  <2>2. notes' = notes \/ \E x : notes' = [notes EXCEPT ![r] = [notes[r] EXCEPT !.pending = x]]
    BY <1>7 DEF DeferUnlink, UnlinkPending, Done, Then, ThenNoting
  <2>3. notes'[r].undo = notes[r].undo
    BY <2>2, UndoStays
  <2>4. AllItems(jobs'[r]) \subseteq AllItems(jobs[r])
    <3>1. i \in AllItems(jobs[r])
      BY <1>1, LeftToDo
    <3> HIDE DEF i
    <3> QED BY <1>1, <2>1, <3>1, LeftToDo
  <2> QED BY <1>2, <2>3, <2>4
<1> QED BY <1>4, <1>5, <1>6, <1>7

LEMMA DeleteListRests ==
  ASSUME NEW K, Fits(K), NEW r \in Workers, DeleteList(r), NEW rank, Restful(rank, notes[r], jobs[r])
  PROVE  Restful(rank, notes'[r], jobs'[r])
<1> DEFINE i == Now(r) f == i.id space == i.at row == i.arg kids == ListChildren(f)
           one(g) == Deleting(g, files[g], space) last == ItemFor("del_row", f, row)
           some == Each(kids, one) items == some \o <<last>>
           T == {one(g) : g \in DOMAIN files} \cup {last}
<1>1. jobs[r] # <<>> /\ i.do \in Deletion
  BY DEF DeleteList, At, Deletion
<1>2. CASE row.space # space
  <2>1. Rollback(r, 403)
    BY <1>2 DEF DeleteList
  <2> QED BY <1>1, <2>1, RollbackRests
<1>3. CASE row.space = space
  <2>1. Goes(r, items) /\ notes' = notes
    BY <1>3 DEF DeleteList, Then
  <2>2. kids \in Seq(DOMAIN files)
    BY ChildrenAreRows DEF Fits
  <2>3. \A j \in T : j.do # "undo_put"
    <3>1. last.do = "del_row" /\ \A g : Doomed(one(g))
      BY ItemsAreItems, DeletingIsDoomed
    <3> HIDE DEF one, last
    <3> QED BY <3>1 DEF Doomed
  <2> HIDE DEF kids, last, one, i
  <2>4. items \in Seq(T)
    <3>1. \A x \in 1 .. Len(kids) : kids[x] \in DOMAIN files
      BY <2>2
    <3>2. some = [x \in 1 .. Len(kids) |-> one(kids[x])] /\ Len(kids) \in Nat
      BY <2>2 DEF Each
    <3>3. last \in T /\ \A g \in DOMAIN files : one(g) \in T
      OBVIOUS
    <3> HIDE DEF T, some
    <3>4. some \in Seq(T) /\ <<last>> \in Seq(T)
      BY <3>1, <3>2, <3>3
    <3> QED BY <3>4
  <2> HIDE DEF items, T
  <2>5. AllItems(jobs'[r]) \subseteq T \cup AllItems(jobs[r])
    BY <1>1, <2>1, <2>4, LeftToDo
  <2>6. \A j \in T : j.do # "undo_put" /\ (j.do \in Deletion => Now(r).do \in Deletion)
    BY <1>1, <2>3 DEF i
  <2> QED BY <1>1, <2>1, <2>5, <2>6, RestsAt
<1> QED BY <1>2, <1>3

\* A row that is deleted is ranked as it is.
LEMMA DeleteRowRests ==
  ASSUME NEW K, Fits(K), NEW r \in Workers, NEW faults, Purging(files, faults, notes[r], jobs[r]), DeleteRow(r),
         NEW rank, Ranked(files, rank), Restful(rank, notes[r], jobs[r])
  PROVE  Restful(rank, notes'[r], jobs'[r])
<1> DEFINE i == Now(r) J == Head(jobs[r]) f == i.id row == i.arg
           put == ItemFor("undo_put", f, row) ref == ItemFor("del_ref", f, row.sha) S == {ref}
<1>1. jobs[r] # <<>> /\ i.do = "del_row"
  BY DEF DeleteRow, At
<1>2. i.do \in Enders /\ i.do \in Deletion /\ Doomed(i)
  BY <1>1 DEF Enders, Deletion, Doomed
<1>3. Ending(files, notes[r], J) /\ Len(J) \in Nat \ {0} /\ J[1] = i
  BY <1>1, <1>2, FirstJob
<1>4. put.do = "undo_put" /\ put.id = f /\ put.arg = row /\ ref.do = "del_ref"
  BY ItemsAreItems
<1>5. /\ Goes(r, <<>>) \/ Goes(r, <<ref>>)
      /\ notes' = [notes EXCEPT ![r] = [notes[r] EXCEPT !.undo = Append(@, put)]]
  BY DEF DeleteRow, Undoable, ThenNoting
<1>6. f \in DOMAIN files /\ files[f].parent = row.parent
  <2>1. PICK U \in SUBSET DOMAIN files : Apex(files, U) /\ Felling(files, J, U)
    BY <1>3 DEF Ending
  <2>2. 1 \in 1 .. Len(J) /\ Doomed(J[1])
    BY <1>2, <1>3
  <2> HIDE DEF i, J
  <2>3. Leaving(files, U, J, 1)
    BY <2>1, <2>2 DEF Felling
  <2> QED BY <1>3, <2>3 DEF Leaving
<1> HIDE DEF put, ref
<1>7. Puts(rank, put)
  BY <1>4, <1>6 DEF Puts, Ranked
<1>8. \A u \in Range(notes'[r].undo) : u \in Range(notes[r].undo) \/ Puts(rank, u)
  <2>1. \A u \in Range(notes'[r].undo) : u \in Range(notes[r].undo) \/ u = put
    BY <1>5, UndoGrows
  <2> QED BY <1>7, <2>1
<1>9. AllItems(jobs'[r]) \subseteq S \cup AllItems(jobs[r])
  BY <1>1, <1>5, LeftToDo
<1>10. \A j \in S : j.do # "undo_put" /\ (j.do \in Deletion => Now(r).do \in Deletion)
  BY <1>2, <1>4
<1> HIDE DEF S
<1> QED BY <1>1, <1>8, <1>9, <1>10, RestsAt

LEMMA FreshRests ==
  ASSUME NEW js, JobsOf(js, AllItems(js)), \A k \in DOMAIN js : Fresh(js[k])
  PROVE  Climbless(js) /\ \A rank, l : Restful(rank, l, js)
<1>1. ASSUME NEW i \in AllItems(js) PROVE i.do \in Purgers
  <2>1. PICK k \in DOMAIN js : \E x \in 1 .. Len(js[k]) : js[k][x] = i
    BY ItemsAndPlaces
  <2>2. PICK x \in 1 .. Len(js[k]) : js[k][x] = i
    BY <2>1
  <2>3. x = 1 /\ js[k][1].do \in Purgers
    BY <2>2 DEF Fresh
  <2> QED BY <2>2, <2>3
<1>2. "undo_put" \notin Purgers /\ (\A do \in Deletion : do \notin Purgers) /\ \A do \in Climbers : do \notin Purgers
  BY DEF Purgers, Deletion, Climbers
<1> QED BY <1>1, <1>2 DEF Climbless, Restful, Puts

\* What a purge deletes, and what comes back, is ranked as before.
LEMMA PurgeIsRanked ==
  ASSUME NEW K, Fits(K), NEW r \in Workers,
         \/ RestoreFromTrash(r) \/ PurgeFromTrash(r) \/ Untrash(r) \/ DeleteList(r) \/ DeleteRow(r)
         \/ DeleteReference(r) \/ DeleteCount(r) \/ DeferUnlink(r) \/ UnlinkPending(r)
         \/ UndoPut(r) \/ UndoDecr(r),
         NEW rank, Ranked(files, rank), Restful(rank, notes[r], jobs[r])
  PROVE  Ranked(files', rank)
<1> DEFINE i == Now(r) f == i.id
<1>1. CASE Untrash(r) /\ files' # files
  <2> DEFINE row == [files[f] EXCEPT !.trashed = 0]
  <2>1. f \in DOMAIN files /\ files' = Updated(f, row)
    BY <1>1 DEF Untrash, FilesOnly, RestoreFile, Read, tableVars
  <2>2. row.parent = files[f].parent
    <3>1. IsRow(files[f])
      BY <2>1 DEF Fits, TableFits, RowFits
    <3> QED BY <3>1 DEF IsRow
  <2> HIDE DEF f, row
  <2>3. KeptBelow(files, files')
    BY <2>1, <2>2 DEF KeptBelow, Updated
  <2> QED BY <2>3, KeptIsRanked
<1>2. CASE DeleteRow(r)
  <2>1. files' = DeleteFile(f)
    BY <1>2 DEF DeleteRow, FilesOnly
  <2> HIDE DEF f
  <2>2. KeptBelow(files, files')
    BY <2>1 DEF KeptBelow, DeleteFile
  <2> QED BY <2>2, KeptIsRanked
<1>3. CASE UndoPut(r) /\ files' # files
  <2> DEFINE row == i.arg new == [row EXCEPT !.trashed = 0]
  <2>1. jobs[r] # <<>> /\ i.do = "undo_put" /\ f \notin DOMAIN files /\ files' = PutFile(f, row)
    BY <1>3 DEF UndoPut, At, FilesOnly, Read, tableVars
  <2>2. RowFits(K, f, row)
    BY <2>1, PlainWorks DEF Good, Special
  <2>3. new.parent = row.parent
    BY <2>2 DEF RowFits, IsRow
  <2>4. row.parent # None => rank[row.parent] < rank[f]
    <3>1. i \in AllItems(jobs[r])
      BY <2>1, LeftToDo
    <3> HIDE DEF i
    <3>2. Puts(rank, i)
      BY <3>1 DEF Restful
    <3> QED BY <2>1, <3>2 DEF Puts
  <2> HIDE DEF new, f, row
  <2>5. DOMAIN files' = DOMAIN files \cup {f} /\ \A g \in DOMAIN files' : files'[g] = IF g = f THEN new ELSE files[g]
    BY <2>1 DEF PutFile, new
  <2> QED BY <2>3, <2>4, <2>5 DEF Ranked
<1>4. CASE ~(Untrash(r) /\ files' # files) /\ ~DeleteRow(r) /\ ~(UndoPut(r) /\ files' # files)
  <2>1. files' = files
    BY <1>4 DEF RestoreFromTrash, PurgeFromTrash, DeleteList, DeleteReference, DeleteCount, DeferUnlink,
         UnlinkPending, UndoDecr, Read, tableVars, BlobsOnly, ObjectsOnly
  <2> QED BY <2>1
<1> QED BY <1>1, <1>2, <1>3, <1>4

LEMMA PurgeSettles ==
  ASSUME NEW K, Fits(K), NEW r \in Workers, Upright(files), ~Strays(r),
         NEW faults, Purging(files, faults, notes[r], jobs[r]),
         \/ RestoreFromTrash(r) \/ PurgeFromTrash(r) \/ Untrash(r) \/ DeleteList(r) \/ DeleteRow(r)
         \/ DeleteReference(r) \/ DeleteCount(r) \/ DeferUnlink(r) \/ UnlinkPending(r)
         \/ UndoPut(r) \/ UndoDecr(r),
         NEW rank \in Ranks, Ranked(files, rank), Restful(rank, notes[r], jobs[r]),
         JobsOf(jobs'[r], AllItems(jobs'[r]))
  PROVE  Settled(files', request'[r], notes'[r], jobs'[r])
<1>1. Purging(files', faults, notes'[r], jobs'[r])
  BY RestoreGoesOn, UntrashGoesOn, DeleteListGoesOn, DeleteRowGoesOn, ReferenceGoesOn, UndoGoesOn
<1>2. Climbless(jobs'[r])
  BY <1>1, KindsAreClimbless
<1>3. Walking(files', request'[r], jobs'[r])
  BY <1>2, ClimblessWalks
<1>4. Restful(rank, notes'[r], jobs'[r])
  BY RestoreRests, EndingRests, DeleteListRests, DeleteRowRests
<1>5. Ranked(files', rank)
  BY PurgeIsRanked
<1> QED BY <1>3, <1>4, <1>5 DEF Settled

LEMMA ReapSettles ==
  ASSUME NEW K, Fits(K), NEW r \in Workers, NEW store, Reap(r, store), NEW rank \in Ranks, Ranked(files, rank),
         JobsOf(jobs'[r], AllItems(jobs'[r]))
  PROVE  Settled(files', request'[r], notes'[r], jobs'[r])
<1>1. files' = files /\ \A k \in DOMAIN jobs'[r] : Fresh(jobs'[r][k])
  BY ReapGoesOn
<1>2. Climbless(jobs'[r]) /\ Restful(rank, notes'[r], jobs'[r])
  BY <1>1, FreshRests
<1>3. Walking(files', request'[r], jobs'[r])
  BY <1>2, ClimblessWalks
<1> QED BY <1>1, <1>2, <1>3 DEF Settled

\* One step of one request.
LEMMA DirectorySettles ==
  ASSUME NEW K, Fits(K), NEW r \in Workers, OrderlyAt(r), Upright(files), clock # 0, ~Strays(r),
         NEW store, DirectoryStep(r, store), NEW rank \in Ranks, Ranked(files, rank),
         Restful(rank, notes[r], jobs[r]), Walking(files, request[r], jobs[r]),
         JobsOf(jobs'[r], AllItems(jobs'[r]))
  PROVE  Settled(files', request'[r], notes'[r], jobs'[r])
<1> DEFINE do == Now(r).do
<1>1. jobs[r] # <<>>
  BY DirectoryKeeps
<1>2. CASE Trash(r) \/ TrashList(r) \/ TrashMark(r) \/ BatchDelete(r)
  BY <1>2, TrashSettles
<1>3. CASE CheckTarget(r)
  <2>1. do = "target"
    BY <1>3 DEF CheckTarget, At
  <2>2. CASE Moving(files, request[r], jobs[r])
    BY <1>3, <2>2, MoveSettles
  <2>3. CASE Duplicating(files, request[r], jobs[r])
    BY <1>3, <2>3, CopySettles
  <2> QED BY <1>1, <2>1, <2>2, <2>3, KindOf
<1>4. CASE MoveFile(r) \/ MoveInto(r) \/ ClimbOn(r) \/ SetParent(r)
  <2>1. do \in Movers /\ do # "target"
    BY <1>4 DEF MoveFile, MoveInto, ClimbOn, SetParent, At, Movers
  <2>2. Moving(files, request[r], jobs[r])
    BY <1>1, <2>1, KindOf
  <2> QED BY <1>4, <2>2, MoveSettles
<1>5. CASE Rename(r) \/ SetName(r) \/ BatchTag(r) \/ SetTags(r)
  BY <1>5, OthersSettle
<1>6. CASE Reap(r, store)
  BY <1>6, ReapSettles
<1>7. CASE \/ RestoreFromTrash(r) \/ PurgeFromTrash(r) \/ Untrash(r) \/ DeleteList(r) \/ DeleteRow(r)
           \/ DeleteReference(r) \/ DeleteCount(r) \/ DeferUnlink(r) \/ UnlinkPending(r)
           \/ UndoPut(r) \/ UndoDecr(r)
  <2>1. do \in Purgers \cup Enders \cup Undoers
    BY <1>7 DEF RestoreFromTrash, PurgeFromTrash, Untrash, DeleteList, DeleteRow, DeleteReference, DeleteCount,
         DeferUnlink, UnlinkPending, UndoPut, UndoDecr, At, Purgers, Enders, Undoers
  <2>2. Purging(files, budget.faults, notes[r], jobs[r])
    BY <1>1, <2>1, KindOf
  <2> QED BY <1>7, <2>2, PurgeSettles
<1> QED BY <1>2, <1>3, <1>4, <1>5, <1>6, <1>7 DEF DirectoryStep

LEMMA WorkSettles ==
  ASSUME NEW K, Fits(K), NEW r \in Workers, OrderlyAt(r), Upright(files), clock # 0, ~Strays(r), Work(r),
         NEW rank \in Ranks, Ranked(files, rank),
         Restful(rank, notes[r], jobs[r]), Walking(files, request[r], jobs[r]),
         JobsOf(jobs'[r], AllItems(jobs'[r]))
  PROVE  Settled(files', request'[r], notes'[r], jobs'[r])
<1>1. CASE DirectoryStep(r, setup.store)
  BY <1>1, DirectorySettles
<1>2. CASE ManifestStep(r)
  <2>1. jobs[r] # <<>>
    BY <1>2, ManifestKeeps
  <2>2. CASE Copy(r) \/ CopyRow(r) \/ CopyList(r) \/ CopyReference(r)
    <3>1. Now(r).do \in Copiers /\ Now(r).do # "target"
      BY <2>2 DEF Copy, CopyRow, CopyList, CopyReference, At, Copiers
    <3>2. Duplicating(files, request[r], jobs[r])
      BY <2>1, <3>1, KindOf
    <3> QED BY <2>2, <3>2, CopySettles
  <2>3. CASE \/ ValidateEntry(r) \/ MakeRoot(r) \/ MakeDir(r) \/ Adopt(r) \/ Reparent(r)
             \/ Relocate(r) \/ ReadSource(r) \/ WriteTarget(r) \/ FillTarget(r)
             \/ DeleteSource(r) \/ SetPath(r)
    <3>1. Now(r).do \in Submitters
      BY <2>3 DEF ValidateEntry, MakeRoot, MakeDir, Adopt, Reparent, Relocate, ReadSource, WriteTarget,
                  FillTarget, DeleteSource, SetPath, At, Submitters
    <3>2. Submitting(files, notes[r], jobs[r])
      BY <2>1, <3>1, KindOf
    <3> QED BY <2>3, <3>2, SubmitSettles
  <2> QED BY <1>2, <2>2, <2>3 DEF ManifestStep
<1>3. CASE ArchiveStep(r, setup.store)
  BY <1>3, OthersSettle
<1> QED BY <1>1, <1>2, <1>3 DEF Work

LEMMA FaultSettles ==
  ASSUME NEW K, Fits(K), NEW r \in Workers, OrderlyAt(r), Fault(r), NEW rank \in Ranks, Ranked(files, rank),
         Restful(rank, notes[r], jobs[r]), Walking(files, request[r], jobs[r]),
         JobsOf(jobs'[r], AllItems(jobs'[r]))
  PROVE  Settled(files', request'[r], notes'[r], jobs'[r])
<1> DEFINE do == Now(r).do js == jobs[r]
<1>1. jobs[r] # <<>> /\ files' = files
  BY FaultLeads
<1>2. CASE do \in Deletion
  <2>1. Rollback(r, 500)
    BY <1>2, FaultLeads
  <2>2. Restful(rank, notes'[r], jobs'[r])
    BY <1>1, <1>2, <2>1, RollbackRests
  <2>3. do \in Enders
    BY <1>2 DEF Deletion, Enders
  <2>4. Purging(files, budget.faults, notes[r], jobs[r])
    BY <1>1, <2>3, KindOf
  <2>5. Purging(files, 0, notes'[r], jobs'[r])
    BY <2>4, FaultOfPurge
  <2>6. Climbless(jobs'[r])
    BY <2>5, KindsAreClimbless
  <2>7. Walking(files', request'[r], jobs'[r])
    BY <2>6, ClimblessWalks
  <2> QED BY <1>1, <2>2, <2>7 DEF Settled
<1>3. CASE do \notin Deletion
  <2>1. /\ AllItems(jobs'[r]) \subseteq AllItems(js)
        /\ \/ notes' = notes
           \/ \E x : notes' = [notes EXCEPT ![r].status = x]
           \/ \E x : notes' = [notes EXCEPT ![r].sent = x]
           \/ \E x : notes' = [notes EXCEPT ![r] = [notes[r] EXCEPT !.pending = x]]
    <3>1. CASE do # "unlink"
      <4>1. do \notin Deletion \cup {"unlink"}
        BY <1>3, <3>1
      <4>2. AllItems(jobs'[r]) \subseteq AllItems(js)
        BY <4>1, FaultLeads
      <4>3. \/ notes' = notes
            \/ \E x : notes' = [notes EXCEPT ![r].status = x]
            \/ \E y : notes' = [notes EXCEPT ![r].sent = y]
        BY <4>1, FaultLeads
      <4> QED BY <4>2, <4>3
    <3>2. CASE Fail(r, 500)
      <4>1. notes' = notes \/ \E x : notes' = [notes EXCEPT ![r].status = x]
        BY <3>2 DEF Fail
      <4>2. AllItems(jobs'[r]) \subseteq AllItems(js)
        BY <1>1, <3>2, LeftToDo
      <4> QED BY <4>1, <4>2
    <3>3. ASSUME NEW x, ThenNoting(r, <<Now(r)>>, [notes[r] EXCEPT !.pending = x])
          PROVE  /\ AllItems(jobs'[r]) \subseteq AllItems(js)
                 /\ notes' = [notes EXCEPT ![r] = [notes[r] EXCEPT !.pending = x]]
      <4> DEFINE i == Now(r)
      <4>1. Goes(r, <<i>>) /\ notes' = [notes EXCEPT ![r] = [notes[r] EXCEPT !.pending = x]] /\ i \in AllItems(js)
        BY <1>1, <3>3, LeftToDo DEF ThenNoting
      <4> HIDE DEF i
      <4>2. AllItems(jobs'[r]) \subseteq {i} \cup AllItems(js)
        BY <1>1, <4>1, LeftToDo
      <4> QED BY <4>1, <4>2
    <3>4. do = "unlink" => Fail(r, 500) \/ \E x : ThenNoting(r, <<Now(r)>>, [notes[r] EXCEPT !.pending = x])
      BY FaultLeads
    <3> QED BY <3>1, <3>2, <3>3, <3>4
  <2>2. notes'[r].undo = notes[r].undo
    BY <2>1, UndoStays
  <2>3. Restful(rank, notes'[r], jobs'[r])
    BY <2>1, <2>2 DEF Restful
  <2>4. Walking(files', request'[r], jobs'[r])
    <3>1. CASE do \in Climbers
      <4>1. do \notin Ignored \cup Deletion \cup {"target", "dir_size", "unlink"}
        BY <3>1 DEF Climbers, Ignored, Deletion
      <4>2. Fail(r, 500)
        BY <4>1, FaultLeads
      <4> QED BY <1>1, <4>2, WalkOn
    <3>2. CASE do \notin Climbers
      <4>1. JobsOf(js, AllItems(js)) /\ Head(Head(js)).do \notin Climbers
        BY <3>2, JobsAreJobs DEF Now
      <4>2. Climbless(js)
        BY <1>1, <4>1, NoWalk
      <4>3. Climbless(jobs'[r])
        BY <2>1, <4>2 DEF Climbless
      <4> QED BY <4>3, ClimblessWalks
    <3> QED BY <3>1, <3>2
  <2> QED BY <1>1, <2>3, <2>4 DEF Settled
<1> QED BY <1>2, <1>3

-----------------------------------------------------------------------------
(* Requests start without a walk and without anything to undo.             *)

LEMMA OpeningSettles ==
  ASSUME NEW js, JobsOf(js, AllItems(js)), Within(js, Openings)
  PROVE  (\A rows, q : Walking(rows, q, js)) /\ \A rank, l : Restful(rank, l, js)
<1>1. "undo_put" \notin Openings /\ (\A do \in Deletion : do \notin Openings) /\ \A do \in Climbers : do \notin Openings
  BY DEF Openings, Others, Trashers, Submitters, Purgers, Deletion, Climbers
<1>2. \A i \in AllItems(js) : i.do \in Openings
  BY DEF Within
<1>3. Climbless(js)
  BY <1>1, <1>2 DEF Climbless
<1>4. \A rank, l : Restful(rank, l, js)
  BY <1>1, <1>2 DEF Restful, Puts
<1> QED BY <1>3, <1>4, ClimblessWalks

\* The others have nothing to do.
LEMMA OneIsSettled ==
  ASSUME NEW r \in Workers, \A s \in Workers : s # r => jobs'[s] = <<>>,
         Settled(files', request'[r], notes'[r], jobs'[r])
  PROVE  RankInv'
<1>1. PICK rank \in Ranks :
        Ranked(files', rank) /\ Restful(rank, notes'[r], jobs'[r]) /\ Walking(files', request'[r], jobs'[r])
  BY DEF Settled
<1>2. ASSUME NEW s \in Workers PROVE Restful(rank, notes'[s], jobs'[s]) /\ Walking(files', request'[s], jobs'[s])
  <2>1. CASE s = r
    BY <1>1, <2>1
  <2>2. CASE s # r
    <3>1. jobs'[s] = <<>>
      BY <2>2
    <3> QED BY <3>1, NothingWalks, NothingRests
  <2> QED BY <2>1, <2>2
<1> QED BY <1>1, <1>2 DEF RankInv

-----------------------------------------------------------------------------
(* The invariant of the ranks.                                             *)

LEMMA InitIsRanked == Init => RankInv
<1> SUFFICES ASSUME Init PROVE RankInv
  OBVIOUS
<1> DEFINE rank == [n \in Nat |-> n]
<1>1. \A r \in Workers : jobs[r] = <<>>
  BY DEF Init, InitWork
<1>2. rank \in Ranks
  BY DEF Ranks
<1>3. Ranked(files, rank)
  <2>1. Planted(files)
    BY SetupsAreServed DEF Init
  <2>2. PICK n \in 0 .. MaxRows :
          /\ files \in [1 .. n -> Row]
          /\ \A f \in 1 .. n : LET p == files[f].parent IN p # None => p < f
    BY <2>1 DEF Planted
  <2>3. ASSUME NEW f \in 1 .. n, files[f].parent # None
        PROVE  files[f].parent \in Nat /\ f \in Nat /\ files[f].parent < f
    BY <2>2, <2>3 DEF Row, IDs
  <2>4. ASSUME NEW f \in DOMAIN files, files[f].parent # None PROVE rank[files[f].parent] < rank[f]
    <3> DEFINE p == files[f].parent
    <3>1. f \in 1 .. n
      BY <2>2
    <3>2. p \in Nat /\ f \in Nat /\ p < f
      BY <2>3, <2>4, <3>1
    <3> HIDE DEF p
    <3>3. rank[p] < rank[f]
      BY <3>2
    <3> QED BY <3>3 DEF p
  <2> HIDE DEF rank
  <2> QED BY <2>4 DEF Ranked
<1> HIDE DEF rank
<1>4. \A r \in Workers : Restful(rank, notes[r], jobs[r]) /\ Walking(files, request[r], jobs[r])
  BY <1>1, NothingWalks, NothingRests
<1> QED BY <1>2, <1>3, <1>4 DEF RankInv

\* What a worker has left to do is a list of jobs.
LEMMA JobsStayJobs ==
  ASSUME TreeInv', NEW r \in Workers PROVE JobsOf(jobs'[r], AllItems(jobs'[r]))
<1>1. PICK K : Fits(K)'
  BY DEF TreeInv
<1>2. \/ Working(K, request'[r], notes'[r], jobs'[r])
      \/ Targeting(jobs'[r]) \/ Validating(K, request'[r], jobs'[r])
  BY <1>1 DEF Fits, WorkFits
<1> QED BY <1>2, WorkIsJobs

LEMMA ArriveSettles ==
  ASSUME NEW K, Fits(K), TreeInv', NEW r \in Slots, Arrive(r), Alone,
         NEW rank \in Ranks, Ranked(files, rank)
  PROVE  RankInv'
<1>1. PICK q \in setup.requests : Start(r, q, Agenda(q))
  BY DEF Arrive
<1>2. WellFormed(q) /\ r \in Workers
  BY SetupsAreServed DEF Fits, Workers
<1>3. files' = files /\ jobs'[r] = Agenda(q)
  BY <1>1, <1>2 DEF Start, Read, tableVars, Fits, WorkFits
<1>4. \A s \in Workers : s # r => jobs'[s] = <<>>
  <2>1. Idle /\ jobs = [s \in Workers |-> jobs[s]] /\ jobs' = [jobs EXCEPT ![r] = Agenda(q)]
    BY <1>1 DEF Arrive, MayStart, Start, Fits, WorkFits
  <2> QED BY <2>1 DEF Idle
<1>5. JobsOf(jobs'[r], AllItems(jobs'[r]))
  BY <1>2, JobsStayJobs
<1>6. Within(jobs'[r], Openings)
  <2>1. Opens(files, 0, q, Agenda(q))
    BY <1>2, AgendaIsOrderly
  <2> QED BY <1>3, <2>1 DEF Opens
<1>7. Restful(rank, notes'[r], jobs'[r]) /\ Walking(files', request'[r], jobs'[r])
  BY <1>5, <1>6, OpeningSettles
<1>8. Settled(files', request'[r], notes'[r], jobs'[r])
  BY <1>3, <1>7 DEF Settled
<1> QED BY <1>2, <1>4, <1>8, OneIsSettled

LEMMA ReapTickSettles ==
  ASSUME NEW K, Fits(K), TreeInv', ReapTick, Alone, NEW rank \in Ranks, Ranked(files, rank)
  PROVE  RankInv'
<1> DEFINE q == [op |-> "reap", ids |-> <<>>, to |-> None, space |-> None, name |-> None, arg |-> clock]
           i == Item("reap", None) first == <<<<i>>>>
<1>1. Start(Janitor, q, first) /\ Idle /\ Janitor \in Workers
  BY DEF ReapTick, MayStart, Workers
<1>2. i.do = "reap"
  BY ItemsAreItems
<1> HIDE DEF i, q
<1>3. AllItems(first) \subseteq {i}
  BY DEF AllItems, Range
<1> HIDE DEF first
<1>4. files' = files /\ jobs'[Janitor] = first
  BY <1>1 DEF Start, Read, tableVars, Fits, WorkFits
<1>5. \A s \in Workers : s # Janitor => jobs'[s] = <<>>
  <2>1. jobs = [s \in Workers |-> jobs[s]] /\ jobs' = [jobs EXCEPT ![Janitor] = first]
    BY <1>1 DEF Start, Fits, WorkFits
  <2> QED BY <1>1, <2>1 DEF Idle
<1>6. JobsOf(jobs'[Janitor], AllItems(jobs'[Janitor]))
  BY <1>1, JobsStayJobs
<1>7. Within(jobs'[Janitor], Openings)
  <2>1. "reap" \in Openings
    BY DEF Openings, Purgers
  <2> QED BY <1>2, <1>3, <1>4, <2>1 DEF Within
<1>8. Restful(rank, notes'[Janitor], jobs'[Janitor]) /\ Walking(files', request'[Janitor], jobs'[Janitor])
  BY <1>6, <1>7, OpeningSettles
<1>9. Settled(files', request'[Janitor], notes'[Janitor], jobs'[Janitor])
  BY <1>4, <1>8 DEF Settled
<1> QED BY <1>1, <1>5, <1>9, OneIsSettled

LEMMA NextIsRanked == TreeInv /\ TreeInv' /\ AloneInv /\ RankInv /\ [Next]_vars => RankInv'
<1> SUFFICES ASSUME TreeInv, TreeInv', AloneInv, RankInv, [Next]_vars PROVE RankInv'
  OBVIOUS
<1>1. setup' = setup /\ (strayed => strayed')
  BY BudgetShrinks
<1>2. SUFFICES ASSUME Alone', ~strayed' PROVE RankInv'
  BY DEF RankInv
<1>3. Alone /\ ~strayed
  BY <1>1, <1>2 DEF Alone
<1>4. Upright(files) /\ OneBusy /\ (\A r \in Workers : OrderlyAt(r)) /\ clock # 0
  BY <1>3 DEF AloneInv
<1>5. PICK K : Fits(K)
  BY DEF TreeInv
<1>6. PICK rank \in Ranks :
        /\ Ranked(files, rank)
        /\ \A r \in Workers : Restful(rank, notes[r], jobs[r]) /\ Walking(files, request[r], jobs[r])
  BY <1>3 DEF RankInv
<1>7. ASSUME NEW r \in Workers, jobs[r] # <<>>, KeepsTo(r) PROVE \A s \in Workers : s # r => jobs'[s] = <<>>
  BY <1>4, <1>7 DEF OneBusy, KeepsTo
<1>8. ASSUME NEW r \in Slots, Arrive(r) PROVE RankInv'
  BY <1>3, <1>5, <1>6, <1>8, ArriveSettles
<1>9. CASE ReapTick
  BY <1>3, <1>5, <1>6, <1>9, ReapTickSettles
<1>10. ASSUME NEW r \in Workers, Work(r) PROVE RankInv'
  <2>1. ~Strays(r)
    BY <1>2, <1>10 DEF Work
  <2>2. JobsOf(jobs'[r], AllItems(jobs'[r]))
    BY JobsStayJobs
  <2>3. Settled(files', request'[r], notes'[r], jobs'[r])
    BY <1>4, <1>5, <1>6, <1>10, <2>1, <2>2, WorkSettles
  <2>4. jobs[r] # <<>> /\ KeepsTo(r)
    BY <1>4, <1>5, <1>10, <2>1, WorkGoesOn
  <2> QED BY <1>7, <2>3, <2>4, OneIsSettled
<1>11. ASSUME NEW r \in Workers, Fault(r) PROVE RankInv'
  <2>1. JobsOf(jobs'[r], AllItems(jobs'[r]))
    BY JobsStayJobs
  <2>2. Settled(files', request'[r], notes'[r], jobs'[r])
    BY <1>4, <1>5, <1>6, <1>11, <2>1, FaultSettles
  <2>3. jobs[r] # <<>> /\ KeepsTo(r)
    BY <1>5, <1>11, FaultKeeps
  <2> QED BY <1>7, <2>2, <2>3, OneIsSettled
<1>12. CASE Crash
  <2>1. files' = files /\ \A r \in Workers : jobs'[r] = <<>>
    BY <1>12 DEF Crash, tableVars
  <2>2. \A r \in Workers : Restful(rank, notes'[r], jobs'[r]) /\ Walking(files', request'[r], jobs'[r])
    BY <2>1, NothingWalks, NothingRests
  <2> QED BY <1>6, <2>1, <2>2 DEF RankInv
<1>13. CASE Tick \/ UNCHANGED vars
  <2>1. UNCHANGED <<files, request, jobs, notes>>
    BY <1>13 DEF Tick, vars, tableVars, workVars
  <2> QED BY <1>6, <2>1 DEF RankInv
<1> QED BY <1>8, <1>9, <1>10, <1>11, <1>12, <1>13 DEF Next

\* All rows above a row rank below it.
LEMMA AboveRanksBelow ==
  ASSUME NEW K, TableFits(K), NEW rank \in Ranks, Ranked(files, rank), NEW f \in DOMAIN files
  PROVE  f \notin Above(f)
<1> DEFINE Further(seen) == seen \cup {files[g].parent : g \in seen \cap DOMAIN files}
           first == {files[f].parent}
           Up[n \in 0 .. MaxRows] == IF n = 0 THEN first ELSE Further(Up[n - 1])
           Lower(U) == \A g \in U : g \in Nat => rank[g] < rank[f]
           X == {U \in SUBSET (Nat \cup {None}) : Lower(U)}
           next == [U \in X |-> Further(U)]
<1>1. Above(f) = Up[Cardinality(DOMAIN files)]
  BY DEF Above
<1>2. MaxRows \in Nat /\ MaxRows \in Int /\ 0 \in Int /\ MaxRows \in 0 .. MaxRows
  BY RowsAreBounded
<1>3. \A g \in DOMAIN files : g \in Nat /\ (files[g].parent = None \/ files[g].parent \in Nat)
  <2>1. issued \in Nat
    BY RowsAreBounded DEF TableFits
  <2> QED BY <2>1, RowsAreNumbered
<1>4. \A g \in Nat : rank[g] \in Nat
  BY DEF Ranks
<1>5. \A g \in DOMAIN files : files[g].parent \in Nat => rank[files[g].parent] < rank[g]
  BY NoneIsNoValue DEF Ranked
<1>6. first \in X
  BY <1>3, <1>5
<1>7. ASSUME NEW U \in X PROVE Further(U) \in X
  <2>1. U \in SUBSET (Nat \cup {None}) /\ Lower(U)
    BY DEF X
  <2>2. Further(U) \in SUBSET (Nat \cup {None})
    BY <1>3, <2>1
  <2>3. ASSUME NEW g \in U \cap DOMAIN files, files[g].parent \in Nat PROVE rank[files[g].parent] < rank[f]
    <3>1. rank[files[g].parent] < rank[g] /\ rank[g] < rank[f]
      BY <1>3, <1>5, <2>1, <2>3
    <3>2. rank[files[g].parent] \in Nat /\ rank[g] \in Nat /\ rank[f] \in Nat
      BY <1>3, <1>4, <2>3
    <3> QED BY <3>1, <3>2
  <2>4. Lower(Further(U))
    BY <2>1, <2>3
  <2> QED BY <2>2, <2>4
<1> HIDE DEF X, Further, first
<1>8. next \in [X -> X]
  BY <1>7
<1>9. \A U \in X : next[U] = Further(U)
  OBVIOUS
<1> HIDE DEF next
<1>10. Up = [n \in 0 .. MaxRows |-> IF n = 0 THEN first ELSE Further(Up[n - 1])]
  <2>1. \E F : F = [n \in 0 .. MaxRows |-> IF n = 0 THEN first ELSE Further(F[n - 1])]
    <3>1. PICK F : Iterated(F, X, first, next, MaxRows)
      BY <1>2, <1>6, <1>8, IteratesExist
    <3>2. F \in [0 .. MaxRows -> X] /\ F[0] = first /\ \A n \in 1 .. MaxRows : F[n] = next[F[n - 1]]
      BY <3>1 DEF Iterated
    <3> DEFINE R == [n \in 0 .. MaxRows |-> IF n = 0 THEN first ELSE Further(F[n - 1])]
    <3>3. ASSUME NEW n \in 0 .. MaxRows PROVE F[n] = R[n]
      <4>1. n = 0 \/ (n \in 1 .. MaxRows /\ n - 1 \in 0 .. MaxRows)
        BY <1>2, <3>3
      <4>2. n # 0 => F[n - 1] \in X
        BY <3>2, <4>1
      <4>3. n # 0 => F[n] = Further(F[n - 1])
        BY <1>9, <3>2, <4>1, <4>2
      <4> QED BY <3>2, <4>3
    <3>4. F = [n \in 0 .. MaxRows |-> F[n]]
      BY <3>2
    <3>5. R = [n \in 0 .. MaxRows |-> R[n]]
      OBVIOUS
    <3>6. F = R
      <4> HIDE DEF R
      <4> QED BY <3>3, <3>4, <3>5
    <3> QED BY <3>6
  <2> QED BY <2>1
<1> HIDE DEF Up
<1> DEFINE H == {n \in 0 .. MaxRows : Up[n] \in X}
<1>11. ASSUME NEW n \in 0 .. MaxRows, n = 0 \/ n - 1 \in H PROVE n \in H
  <2>1. CASE n = 0
    BY <1>6, <1>10, <2>1
  <2>2. CASE n # 0
    <3>1. Up[n - 1] \in X
      BY <1>11, <2>2
    <3>2. Up[n] = Further(Up[n - 1])
      BY <1>10, <2>2
    <3> QED BY <1>7, <3>1, <3>2
  <2> QED BY <2>1, <2>2
<1> HIDE DEF H
<1>12. \A n \in 0 .. MaxRows : n \in H
  BY <1>2, <1>11, FromEachToTheNext
<1>13. Cardinality(DOMAIN files) \in 0 .. MaxRows
  <2>1. IsFiniteSet(1 .. issued) /\ Cardinality(1 .. issued) = issued /\ issued \in 0 .. MaxRows
    BY FS_Interval DEF TableFits
  <2>2. DOMAIN files \subseteq 1 .. issued
    BY DEF TableFits
  <2>3. IsFiniteSet(DOMAIN files) /\ Cardinality(DOMAIN files) <= issued
    BY <2>1, <2>2, FS_Subset
  <2>4. Cardinality(DOMAIN files) \in Nat
    BY <2>3, FS_CardinalityType
  <2> QED BY <2>1, <2>3, <2>4, RowsAreBounded
<1>14. Above(f) \in X
  BY <1>1, <1>12, <1>13 DEF H
<1>15. f \in Nat /\ rank[f] \in Nat
  BY <1>3, <1>4
<1> QED BY <1>14, <1>15 DEF X

LEMMA RankIsNoCycle == TreeInv /\ RankInv => NoCycleAlone
<1> SUFFICES ASSUME TreeInv, RankInv, Alone, ~strayed, NEW f \in DOMAIN files PROVE f \notin Above(f)
  BY DEF NoCycleAlone, NoCycle
<1>1. PICK K : Fits(K)
  BY DEF TreeInv
<1>2. PICK rank \in Ranks : Ranked(files, rank)
  BY DEF RankInv
<1> QED BY <1>1, <1>2, AboveRanksBelow DEF Fits

\* "A directory cannot move into its own descendant, or it would make a cycle
\* that cannot be walked" (upload.go:886): while requests come one after
\* another and nobody restores or purges a row whose directory is in the
\* recycle bin, no row is above itself, in every state between two statements
\* of a move, a manifest, a purge and what it puts back, a restore or a copy,
\* whatever fails on the way. The walk up of a move ends at a row without a
\* parent; nothing between its first step and the write of the parent changes a
\* row above the target.
THEOREM TreeStaysTree == Spec => []NoCycleAlone
BY InitFits, NextFits, InitIsAlone, NextIsAlone, InitIsRanked, NextIsRanked, RankIsNoCycle, PTL DEF Spec

=============================================================================
