------------------------ MODULE ChunkLimiter_proofs ------------------------
(***************************************************************************)
(* Proofs about ChunkLimiter: permits are conserved.  The permits taken    *)
(* cover the weights of the requests that hold some, a release takes its   *)
(* request out of the holders and the waiters it serves in, and only a     *)
(* body that cannot be read leaves the holders with its permits behind.    *)
(***************************************************************************)
EXTENDS ChunkLimiter, FiniteSetTheorems, SequenceTheorems, TLAPS

Places == {"idle", "blocked", "granted", "reading", "touching", "submitting", "waiting"}
Stages == {"none", "queued", "running", "persisted"}

\* Whom nobody else gives permits to: requests in line.
InLine(line, where) ==
  /\ line \in Seq(Requests)
  /\ \A i \in 1 .. Len(line) : where[line[i]] = "blocked"
  /\ \A i, j \in 1 .. Len(line) : line[i] = line[j] => i = j

\* What the steps keep: the line holds blocked requests, each once; a request
\* with a task is past the semaphore; the permits taken cover the holders.
TypesHold ==
  /\ used \in 0 .. Capacity
  /\ pc \in [Requests -> Places]
  /\ task \in [Requests -> Stages]
  /\ queue \in Seq(Requests)
PermitInv ==
  /\ TypesHold
  /\ InLine(waiters, pc)
  /\ \A r \in Requests : task[r] # "none" => pc[r] \in {"waiting", "idle"}
  /\ Total(Holders) <= used

-----------------------------------------------------------------------------
(* The permits of a set of requests.                                       *)

LEMMA TotalType ==
  ASSUME NEW S
  PROVE  IsFiniteSet(Permits(S)) /\ Total(S) \in Nat
<1>1. IsFiniteSet(Requests \X (1 .. Capacity))
  <2>1. IsFiniteSet(1 .. Capacity)
    BY WeightsFit, FS_Interval
  <2> QED BY <2>1, RequestsAreFinite, FS_Product
<1>2. Permits(S) \subseteq Requests \X (1 .. Capacity)
  BY DEF Permits
<1> QED BY <1>1, <1>2, FS_Subset, FS_CardinalityType DEF Total

LEMMA TotalAdds ==
  ASSUME NEW S, NEW T, S \intersect T = {}
  PROVE  Total(S \union T) = Total(S) + Total(T)
<1>1. Permits(S \union T) = Permits(S) \union Permits(T)
  BY DEF Permits
<1>2. Permits(S) \intersect Permits(T) = {}
  BY DEF Permits
<1>3. /\ IsFiniteSet(Permits(S)) /\ Cardinality(Permits(S)) \in Nat
      /\ IsFiniteSet(Permits(T)) /\ Cardinality(Permits(T)) \in Nat
  BY TotalType DEF Total
<1>4. Cardinality(Permits(S) \union Permits(T)) =
        Cardinality(Permits(S)) + Cardinality(Permits(T)) - Cardinality({})
  BY <1>2, <1>3, FS_Union
<1>5. Cardinality({}) = 0
  BY FS_EmptySet
<1>6. Cardinality(Permits(S \union T)) = Cardinality(Permits(S)) + Cardinality(Permits(T))
  <2>1. Cardinality(Permits(S) \union Permits(T)) =
          Cardinality(Permits(S)) + Cardinality(Permits(T)) - 0
    BY <1>4, <1>5
  <2>2. \A m, n \in Nat : m + n - 0 = m + n
    OBVIOUS
  <2>3. Cardinality(Permits(S)) + Cardinality(Permits(T)) - 0 =
          Cardinality(Permits(S)) + Cardinality(Permits(T))
    BY <1>3, <2>2
  <2> QED BY <1>1, <2>1, <2>3, Zenon
<1> QED BY <1>6 DEF Total

LEMMA TotalGrows ==
  ASSUME NEW S, NEW T, S \subseteq T
  PROVE  Total(S) <= Total(T)
<1>1. Permits(S) \subseteq Permits(T)
  BY DEF Permits
<1> QED BY <1>1, TotalType, FS_Subset DEF Total

LEMMA TotalOne ==
  ASSUME NEW r \in Requests
  PROVE  Total({r}) = Weight[r] /\ Weight[r] \in 1 .. Capacity
<1> DEFINE f == [i \in 1 .. Weight[r] |-> <<r, i>>]
<1>1. Weight[r] \in 1 .. Capacity /\ Capacity \in Nat
  BY WeightsFit
<1>2. f \in Bijection(1 .. Weight[r], Permits({r}))
  <2>1. f \in [1 .. Weight[r] -> Permits({r})]
    BY <1>1 DEF Permits
  <2>2. \A i, j \in 1 .. Weight[r] : f[i] = f[j] => i = j
    OBVIOUS
  <2>3. \A p \in Permits({r}) : \E i \in 1 .. Weight[r] : f[i] = p
    <3> SUFFICES ASSUME NEW p \in Permits({r}) PROVE \E i \in 1 .. Weight[r] : f[i] = p
      OBVIOUS
    <3>1. p = <<r, p[2]>> /\ p[2] \in 1 .. Weight[r]
      BY <1>1 DEF Permits
    <3> QED BY <3>1
  <2> HIDE DEF f
  <2> QED BY <2>1, <2>2, <2>3 DEF Bijection, Injection, Surjection, IsInjective
<1> HIDE DEF f
<1>3. ExistsBijection(1 .. Weight[r], Permits({r}))
  BY <1>2 DEF ExistsBijection
<1>4. IsFiniteSet(1 .. Weight[r]) /\ Cardinality(1 .. Weight[r]) = Weight[r]
  BY <1>1, FS_Interval
<1> QED BY <1>1, <1>3, <1>4, FS_Bijection DEF Total

LEMMA TotalWith ==
  ASSUME NEW S, NEW r \in Requests, r \notin S
  PROVE  Total(S \union {r}) = Total(S) + Weight[r]
<1>1. S \intersect {r} = {}
  OBVIOUS
<1>2. Total(S \union {r}) = Total(S) + Total({r})
  BY <1>1, TotalAdds
<1> QED BY <1>2, TotalOne

LEMMA TotalWithout ==
  ASSUME NEW S, NEW r \in Requests, r \in S
  PROVE  Total(S \ {r}) = Total(S) - Weight[r]
<1>1. Total((S \ {r}) \union {r}) = Total(S \ {r}) + Weight[r]
  BY TotalWith
<1>2. (S \ {r}) \union {r} = S
  OBVIOUS
<1>3. Total(S) = Total(S \ {r}) + Weight[r]
  BY <1>1, <1>2
<1>4. Total(S \ {r}) \in Nat /\ Weight[r] \in Nat
  BY TotalType, TotalOne, WeightsFit
<1> QED BY <1>3, <1>4

-----------------------------------------------------------------------------
(* The line.                                                               *)

\* Whoever is served joins the holders, and the rest of the line stays.
LEMMA NotifyServes ==
  ASSUME NEW u \in Nat, NEW line, NEW where \in [Requests -> Places],
         InLine(line, where), Notify(u, line, where)
  PROVE  \E L \in SUBSET Requests :
           /\ \A r \in L : where[r] = "blocked"
           /\ used' = u + Total(L) /\ used' \in 0 .. Capacity
           /\ pc' = [r \in Requests |-> IF r \in L THEN "granted" ELSE where[r]]
           /\ InLine(waiters', pc')
<1>1. PICK n \in 0 .. Len(line) :
        LET lucky == {line[i] : i \in 1 .. n}
        IN /\ used' = u + Total(lucky) /\ used' <= Capacity
           /\ waiters' = SubSeq(line, n + 1, Len(line))
           /\ pc' = [r \in Requests |-> IF r \in lucky THEN "granted" ELSE where[r]]
  BY DEF Notify
<1> DEFINE L == {line[i] : i \in 1 .. n}
<1>2. /\ line \in Seq(Requests) /\ Len(line) \in Nat /\ n \in Nat /\ n <= Len(line)
      /\ \A i \in 1 .. Len(line) : line[i] \in Requests /\ where[line[i]] = "blocked"
      /\ \A i, j \in 1 .. Len(line) : line[i] = line[j] => i = j
  BY <1>1 DEF InLine
<1>3. L \in SUBSET Requests /\ \A r \in L : where[r] = "blocked"
  BY <1>2
<1>4. used' = u + Total(L) /\ used' \in 0 .. Capacity
  BY <1>1, TotalType, WeightsFit
<1>5. /\ waiters' \in Seq(Requests) /\ Len(waiters') = Len(line) - n
      /\ \A i \in 1 .. Len(waiters') : waiters'[i] = line[i + n]
  <2>1. \A i \in n + 1 .. Len(line) : line[i] \in Requests
    BY <1>2
  <2>2. /\ SubSeq(line, n + 1, Len(line)) \in Seq(Requests)
        /\ Len(SubSeq(line, n + 1, Len(line))) =
             IF n + 1 <= Len(line) THEN Len(line) - (n + 1) + 1 ELSE 0
        /\ \A i \in 1 .. Len(line) - (n + 1) + 1 :
             SubSeq(line, n + 1, Len(line))[i] = line[(n + 1) + i - 1]
    <3>1. n + 1 \in Int /\ Len(line) \in Int
      BY <1>2
    <3> QED BY <2>1, <3>1, SubSeqProperties
  <2>3. /\ waiters' \in Seq(Requests)
        /\ Len(waiters') = IF n + 1 <= Len(line) THEN Len(line) - (n + 1) + 1 ELSE 0
        /\ \A i \in 1 .. Len(line) - (n + 1) + 1 : waiters'[i] = line[(n + 1) + i - 1]
    BY <1>1, <2>2
  <2>4. Len(waiters') = Len(line) - n /\ Len(line) - (n + 1) + 1 = Len(line) - n
    BY <1>2, <2>3
  <2>5. \A i \in 1 .. Len(line) - n : (n + 1) + i - 1 = i + n
    BY <1>2
  <2> QED BY <2>3, <2>4, <2>5
<1>6. \A i \in 1 .. Len(waiters') : i + n \in 1 .. Len(line) /\ waiters'[i] \notin L
  <2> SUFFICES ASSUME NEW i \in 1 .. Len(waiters')
               PROVE  i + n \in 1 .. Len(line) /\ waiters'[i] \notin L
    OBVIOUS
  <2>1. i + n \in 1 .. Len(line)
    BY <1>2, <1>5
  <2>2. \A j \in 1 .. n : line[j] # line[i + n]
    BY <1>2, <2>1
  <2> QED BY <1>5, <2>1, <2>2
<1>7. pc' = [r \in Requests |-> IF r \in L THEN "granted" ELSE where[r]]
  BY <1>1
<1> HIDE DEF L
<1>8. InLine(waiters', pc')
  <2>1. \A i \in 1 .. Len(waiters') : pc'[waiters'[i]] = "blocked"
    <3> SUFFICES ASSUME NEW i \in 1 .. Len(waiters') PROVE pc'[waiters'[i]] = "blocked"
      OBVIOUS
    <3>1. i + n \in 1 .. Len(line) /\ waiters'[i] = line[i + n] /\ waiters'[i] \notin L
      BY <1>5, <1>6
    <3>2. waiters'[i] \in Requests /\ where[waiters'[i]] = "blocked"
      BY <1>2, <3>1
    <3> QED BY <1>7, <3>1, <3>2
  <2>2. ASSUME NEW i \in 1 .. Len(waiters'), NEW j \in 1 .. Len(waiters'),
               waiters'[i] = waiters'[j]
        PROVE  i = j
    <3>1. line[i + n] = line[j + n]
      BY <1>5, <2>2
    <3>2. i + n = j + n
      BY <1>2, <1>6, <3>1
    <3> QED BY <1>2, <1>5, <3>2
  <2> QED BY <1>5, <2>1, <2>2 DEF InLine
<1> QED BY <1>3, <1>4, <1>7, <1>8

\* A waiter that leaves the line from the middle or the head.
LEMMA LeavesLine ==
  ASSUME NEW line, NEW where \in [Requests -> Places], InLine(line, where),
         NEW i \in 1 .. Len(line), NEW to \in Places
  PROVE  InLine(RemoveAt(line, i), [where EXCEPT ![line[i]] = to])
<1> DEFINE rest == RemoveAt(line, i)
           gone == [where EXCEPT ![line[i]] = to]
           at(k) == IF k < i THEN k ELSE k + 1
<1>1. /\ line \in Seq(Requests) /\ Len(line) \in Nat /\ i \in Int
      /\ \A k \in 1 .. Len(line) : line[k] \in Requests /\ where[line[k]] = "blocked"
      /\ \A k, j \in 1 .. Len(line) : line[k] = line[j] => k = j
  BY DEF InLine
<1>2. /\ rest \in Seq(Requests) /\ Len(rest) = Len(line) - 1
      /\ \A k \in 1 .. Len(rest) : rest[k] = line[at(k)]
  <2> DEFINE a == SubSeq(line, 1, i - 1)
             b == SubSeq(line, i + 1, Len(line))
  <2>1. /\ a \in Seq(Requests) /\ Len(a) = i - 1
        /\ \A k \in 1 .. i - 1 : a[k] = line[k]
    <3>1. /\ i - 1 \in Int
          /\ \A k \in 1 .. i - 1 : line[k] \in Requests
      BY <1>1
    <3>2. /\ a \in Seq(Requests)
          /\ Len(a) = IF 1 <= i - 1 THEN i - 1 - 1 + 1 ELSE 0
          /\ \A k \in 1 .. i - 1 - 1 + 1 : a[k] = line[1 + k - 1]
      BY <3>1, SubSeqProperties
    <3>3. /\ i - 1 - 1 + 1 = i - 1
          /\ \A k \in 1 .. i - 1 : 1 + k - 1 = k
          /\ (IF 1 <= i - 1 THEN i - 1 - 1 + 1 ELSE 0) = i - 1
      BY <1>1
    <3> HIDE DEF a
    <3> QED BY <3>2, <3>3
  <2>2. /\ b \in Seq(Requests) /\ Len(b) = Len(line) - i
        /\ \A k \in 1 .. Len(line) - i : b[k] = line[k + i]
    <3>1. /\ i + 1 \in Int /\ Len(line) \in Int
          /\ \A k \in i + 1 .. Len(line) : line[k] \in Requests
      BY <1>1
    <3>2. /\ b \in Seq(Requests)
          /\ Len(b) = IF i + 1 <= Len(line) THEN Len(line) - (i + 1) + 1 ELSE 0
          /\ \A k \in 1 .. Len(line) - (i + 1) + 1 : b[k] = line[(i + 1) + k - 1]
      BY <3>1, SubSeqProperties
    <3>3. /\ Len(line) - (i + 1) + 1 = Len(line) - i
          /\ \A k \in 1 .. Len(line) - i : (i + 1) + k - 1 = k + i
          /\ (IF i + 1 <= Len(line) THEN Len(line) - (i + 1) + 1 ELSE 0) = Len(line) - i
      BY <1>1
    <3> HIDE DEF b
    <3> QED BY <3>2, <3>3
  <2>3. rest = a \o b
    BY DEF RemoveAt
  <2> HIDE DEF a, b, rest
  <2>4. /\ rest \in Seq(Requests) /\ Len(rest) = Len(a) + Len(b)
        /\ \A k \in 1 .. Len(a) + Len(b) :
             rest[k] = IF k <= Len(a) THEN a[k] ELSE b[k - Len(a)]
    BY <2>1, <2>2, <2>3, ConcatProperties
  <2>5. Len(rest) = Len(line) - 1 /\ Len(a) + Len(b) = Len(line) - 1
    BY <1>1, <2>1, <2>2, <2>4
  <2>6. ASSUME NEW k \in 1 .. Len(rest) PROVE rest[k] = line[at(k)]
    <3>1. CASE k < i
      <4>1. k <= Len(a) /\ k \in 1 .. i - 1
        BY <1>1, <2>1, <2>5, <3>1
      <4> QED BY <2>1, <2>4, <2>5, <3>1, <4>1
    <3>2. CASE ~ (k < i)
      <4>1. ~ (k <= Len(a)) /\ k - Len(a) = k - i + 1 /\ k - i + 1 \in 1 .. Len(line) - i
        BY <1>1, <2>1, <2>5, <3>2
      <4>2. rest[k] = b[k - i + 1]
        BY <2>4, <2>5, <4>1
      <4>3. b[k - i + 1] = line[k - i + 1 + i] /\ k - i + 1 + i = k + 1
        BY <1>1, <2>2, <2>5, <4>1
      <4> QED BY <3>2, <4>2, <4>3
    <3> QED BY <3>1, <3>2
  <2> QED BY <2>4, <2>5, <2>6
<1>3. \A k \in 1 .. Len(rest) : at(k) \in 1 .. Len(line) /\ at(k) # i
  BY <1>1, <1>2
<1>4. \A k \in 1 .. Len(rest) : gone[rest[k]] = "blocked"
  <2> SUFFICES ASSUME NEW k \in 1 .. Len(rest) PROVE gone[rest[k]] = "blocked"
    OBVIOUS
  <2>1. line[at(k)] # line[i] /\ line[at(k)] \in Requests /\ where[line[at(k)]] = "blocked"
    BY <1>1, <1>3
  <2> QED BY <1>2, <2>1
<1>5. ASSUME NEW k \in 1 .. Len(rest), NEW j \in 1 .. Len(rest), rest[k] = rest[j]
      PROVE  k = j
  <2>1. at(k) = at(j)
    <3> HIDE DEF at, rest
    <3>1. line[at(k)] = line[at(j)]
      BY <1>2, <1>5
    <3>2. at(k) \in 1 .. Len(line) /\ at(j) \in 1 .. Len(line)
      BY <1>3
    <3> QED BY <1>1, <3>1, <3>2
  <2> QED BY <1>1, <1>2, <2>1
<1> QED BY <1>2, <1>4, <1>5 DEF InLine

-----------------------------------------------------------------------------
(* The steps.                                                              *)

\* Permits and holders move together, or a request returns early.
Balanced ==
  \/ Leaked' = Leaked
  \/ \E r \in Requests : ReturnsEarly(r) /\ Leaked' = Leaked + Weight[r]

LEMMA HoldersAre ==
  ASSUME TypesHold
  PROVE  /\ Holders \in SUBSET Requests
         /\ \A r \in Requests :
              r \in Holders <=> \/ pc[r] \in {"granted", "reading", "touching", "submitting"}
                                \/ task[r] # "none"
         /\ Total(Holders) \in Nat /\ used \in Nat /\ Capacity \in Nat
BY TotalType, WeightsFit DEF TypesHold, Holders, Buffering, Stages

\* What a step adds up to, from what it does to the holders.
LEMMA SumsUp ==
  ASSUME PermitInv, TypesHold', InLine(waiters', pc'),
         \A r \in Requests : task'[r] # "none" => pc'[r] \in {"waiting", "idle"},
         NEW d \in Int, Total(Holders') = Total(Holders) + d, used' = used + d
  PROVE  PermitInv' /\ Leaked' = Leaked
<1>1. /\ Total(Holders) \in Nat /\ used \in Nat /\ Total(Holders') \in Nat
      /\ used' \in Nat /\ Total(Holders) <= used
  BY HoldersAre, TotalType DEF PermitInv, TypesHold
<1>2. Total(Holders') <= used' /\ used' - Total(Holders') = used - Total(Holders)
  BY <1>1
<1> QED BY <1>2 DEF PermitInv, Leaked

\* A holder gives its permits back, and waiters take their place.
LEMMA ReleaseBalances ==
  ASSUME PermitInv, NEW r \in Requests, NEW to \in {"waiting", "idle"},
         r \in Holders, pc[r] # "blocked", Release(r, to),
         task' = [task EXCEPT ![r] = "none"], UNCHANGED queue
  PROVE  PermitInv' /\ Leaked' = Leaked
<1> DEFINE where == [pc EXCEPT ![r] = to]
<1>1. /\ pc \in [Requests -> Places] /\ task \in [Requests -> Stages]
      /\ queue \in Seq(Requests) /\ used \in Nat /\ Total(Holders) \in Nat
      /\ Total(Holders) <= used /\ Holders \in SUBSET Requests
      /\ \A x \in Requests : task[x] # "none" => pc[x] \in {"waiting", "idle"}
      /\ Weight[r] \in Nat
  <2>1. Total(Holders) \in Nat /\ Holders \in SUBSET Requests
    BY HoldersAre DEF PermitInv
  <2>2. Weight[r] \in Nat
    BY WeightsFit
  <2> QED BY <2>1, <2>2, WeightsFit DEF PermitInv, TypesHold
<1>2. Total(Holders \ {r}) = Total(Holders) - Weight[r]
  BY TotalWithout
<1>3. used - Weight[r] \in Nat
  <2>1. Total(Holders \ {r}) \in Nat
    BY TotalType
  <2> QED BY <1>1, <1>2, <2>1
<1>4. where \in [Requests -> Places] /\ InLine(waiters, where)
  <2>1. \A i \in 1 .. Len(waiters) : pc[waiters[i]] = "blocked" /\ waiters[i] \in Requests
    BY DEF PermitInv, InLine
  <2>2. \A i \in 1 .. Len(waiters) : where[waiters[i]] = "blocked"
    BY <1>1, <2>1
  <2> QED BY <1>1, <2>2 DEF Places, PermitInv, InLine
<1> HIDE DEF where
<1>5. PICK L \in SUBSET Requests :
        /\ \A x \in L : where[x] = "blocked"
        /\ used' = used - Weight[r] + Total(L) /\ used' \in 0 .. Capacity
        /\ pc' = [x \in Requests |-> IF x \in L THEN "granted" ELSE where[x]]
        /\ InLine(waiters', pc')
  <2>1. Notify(used - Weight[r], waiters, where)
    BY DEF Release, where
  <2> QED BY <1>3, <1>4, <2>1, NotifyServes
<1>6. \A x \in L : x # r /\ pc[x] = "blocked" /\ task[x] = "none" /\ x \notin Holders
  BY <1>1, <1>5, HoldersAre DEF where, PermitInv
<1>7. /\ \A x \in L : pc'[x] = "granted"
      /\ \A x \in Requests \ (L \union {r}) : pc'[x] = pc[x]
      /\ pc'[r] = to /\ r \notin L
      /\ pc' \in [Requests -> Places] /\ task' \in [Requests -> Stages]
  BY <1>1, <1>4, <1>5, <1>6 DEF where, Places, Stages
<1>8. TypesHold'
  BY <1>1, <1>5, <1>7 DEF TypesHold
<1>9. \A x \in Requests : task'[x] # "none" => pc'[x] \in {"waiting", "idle"}
  BY <1>1, <1>6, <1>7
<1>10. Holders' = (Holders \ {r}) \union L
  <2>1. \A x \in Requests :
          x \in Holders' <=> \/ pc'[x] \in {"granted", "reading", "touching", "submitting"}
                             \/ task'[x] # "none"
    BY <1>8 DEF TypesHold, Holders, Buffering, Stages
  <2>2. Holders' \in SUBSET Requests
    BY DEF Holders, Buffering
  <2>3. ASSUME NEW x \in Requests
        PROVE  x \in Holders' <=> x \in (Holders \ {r}) \union L
    <3>1. CASE x \in L
      BY <1>7, <2>1, <3>1
    <3>2. CASE x = r
      BY <1>1, <1>7, <2>1, <3>2
    <3>3. CASE x \notin L \union {r}
      <4>1. pc'[x] = pc[x] /\ task'[x] = task[x]
        BY <1>1, <1>7, <3>3
      <4>2. x \in Holders <=> \/ pc[x] \in {"granted", "reading", "touching", "submitting"}
                              \/ task[x] # "none"
        BY HoldersAre DEF PermitInv
      <4> QED BY <2>1, <3>3, <4>1, <4>2
    <3> QED BY <3>1, <3>2, <3>3
  <2> QED BY <1>1, <2>2, <2>3
<1>11. Total(Holders') = Total(Holders) - Weight[r] + Total(L)
  <2>1. (Holders \ {r}) \intersect L = {}
    BY <1>6
  <2> QED BY <1>2, <1>10, <2>1, TotalAdds
<1> DEFINE d == Total(L) - Weight[r]
<1>12. /\ d \in Int /\ Total(Holders') = Total(Holders) + d /\ used' = used + d
  BY <1>1, <1>5, <1>11, TotalType
<1> HIDE DEF d
<1> QED BY <1>5, <1>8, <1>9, <1>12, SumsUp

\* Whoever moves on outside the line leaves it as it is.
LEMMA LineKept ==
  ASSUME PermitInv, waiters' = waiters,
         \A x \in Requests : pc[x] = "blocked" => pc'[x] = "blocked"
  PROVE  InLine(waiters', pc')
BY DEF PermitInv, InLine

\* A step that takes no permit and leaves the holders as they are.
LEMMA HoldersKept ==
  ASSUME PermitInv, TypesHold', UNCHANGED <<used, waiters>>,
         \A x \in Requests : pc[x] = "blocked" => pc'[x] = "blocked",
         \A x \in Requests : task'[x] # "none" => pc'[x] \in {"waiting", "idle"},
         \A x \in Requests : x \in Holders' <=> x \in Holders
  PROVE  PermitInv' /\ Leaked' = Leaked
<1>1. Holders' = Holders
  BY DEF Holders, Buffering
<1>2. InLine(waiters', pc')
  BY LineKept
<1>3. Total(Holders') = Total(Holders) + 0 /\ used' = used + 0
  BY <1>1, HoldersAre DEF PermitInv
<1> QED BY <1>2, <1>3, SumsUp

\* A request that finds permits takes them, any other joins the line.
LEMMA AcquireBalances ==
  ASSUME PermitInv, NEW r \in Requests, Acquire(r)
  PROVE  PermitInv' /\ Leaked' = Leaked
<1> USE DEF Acquire, Goto, Places, Stages
<1>1. /\ pc \in [Requests -> Places] /\ task \in [Requests -> Stages]
      /\ queue \in Seq(Requests) /\ used \in 0 .. Capacity /\ Capacity \in Nat
      /\ \A x \in Requests : task[x] # "none" => pc[x] \in {"waiting", "idle"}
      /\ Weight[r] \in 1 .. Capacity /\ pc[r] = "idle" /\ task[r] = "none"
      /\ UNCHANGED <<task, queue>>
  BY WeightsFit DEF PermitInv, TypesHold
<1>2. \A x \in Requests :
        x \in Holders <=> pc[x] \in {"granted", "reading", "touching", "submitting"} \/ task[x] # "none"
  BY HoldersAre DEF PermitInv
<1>3. TypesHold'
  BY <1>1 DEF TypesHold
<1>4. \A x \in Requests : task'[x] # "none" => pc'[x] \in {"waiting", "idle"}
  BY <1>1
<1>5. \A x \in Requests :
        x \in Holders' <=> pc'[x] \in {"granted", "reading", "touching", "submitting"} \/ task'[x] # "none"
  BY <1>3 DEF TypesHold, Holders, Buffering
<1>6. CASE pc' = [pc EXCEPT ![r] = "reading"] /\ used' = used + Weight[r] /\ waiters' = waiters
  <2>1. Holders' = Holders \union {r} /\ r \notin Holders
    <3>1. Holders \in SUBSET Requests /\ Holders' \in SUBSET Requests
      BY DEF Holders, Buffering
    <3>2. \A x \in Requests : x \in Holders' <=> x \in Holders \union {r}
      BY <1>1, <1>2, <1>5, <1>6
    <3> QED BY <1>1, <1>2, <3>1, <3>2
  <2>2. Total(Holders') = Total(Holders) + Weight[r]
    BY <2>1, TotalWith
  <2>3. InLine(waiters', pc')
    BY <1>1, <1>6, LineKept
  <2> QED BY <1>1, <1>3, <1>4, <1>6, <2>2, <2>3, SumsUp
<1>7. CASE pc' = [pc EXCEPT ![r] = "blocked"] /\ used' = used /\ waiters' = Append(waiters, r)
  <2>1. Holders' = Holders
    <3>1. Holders \in SUBSET Requests /\ Holders' \in SUBSET Requests
      BY DEF Holders, Buffering
    <3>2. \A x \in Requests : x \in Holders' <=> x \in Holders
      BY <1>1, <1>2, <1>5, <1>7
    <3> QED BY <3>1, <3>2
  <2>2. Total(Holders') = Total(Holders) + 0 /\ used' = used + 0
    BY <1>1, <1>7, <2>1, TotalType
  <2>3. /\ waiters \in Seq(Requests) /\ Len(waiters) \in Nat
        /\ \A i \in 1 .. Len(waiters) : pc[waiters[i]] = "blocked" /\ waiters[i] \in Requests
        /\ \A i, j \in 1 .. Len(waiters) : waiters[i] = waiters[j] => i = j
    BY DEF PermitInv, InLine
  <2>4. /\ waiters' \in Seq(Requests) /\ Len(waiters') = Len(waiters) + 1
        /\ \A i \in 1 .. Len(waiters) : waiters'[i] = waiters[i]
        /\ waiters'[Len(waiters) + 1] = r
    BY <1>7, <2>3, AppendProperties
  <2>5. \A i \in 1 .. Len(waiters) : waiters[i] # r
    BY <1>1, <2>3
  <2>6. \A i \in 1 .. Len(waiters') : pc'[waiters'[i]] = "blocked"
    BY <1>1, <1>7, <2>3, <2>4
  <2>7. ASSUME NEW i \in 1 .. Len(waiters'), NEW j \in 1 .. Len(waiters'),
               waiters'[i] = waiters'[j]
        PROVE  i = j
    <3>1. (i \in 1 .. Len(waiters) \/ i = Len(waiters) + 1) /\ (j \in 1 .. Len(waiters) \/ j = Len(waiters) + 1)
      BY <2>3, <2>4
    <3> QED BY <2>3, <2>4, <2>5, <2>7, <3>1
  <2>8. InLine(waiters', pc')
    BY <2>4, <2>6, <2>7 DEF InLine
  <2> QED BY <1>3, <1>4, <2>2, <2>8, SumsUp
<1> QED BY <1>6, <1>7

\* A waiter whose context ends leaves the line; from its head, it may let
\* others in.
LEMMA CancelBalances ==
  ASSUME PermitInv, NEW r \in Requests, CancelBlocked(r)
  PROVE  PermitInv' /\ Leaked' = Leaked
<1> DEFINE gone == [pc EXCEPT ![r] = "idle"]
<1>1. /\ pc \in [Requests -> Places] /\ task \in [Requests -> Stages]
      /\ queue \in Seq(Requests) /\ used \in 0 .. Capacity /\ Capacity \in Nat
      /\ \A x \in Requests : task[x] # "none" => pc[x] \in {"waiting", "idle"}
      /\ pc[r] = "blocked" /\ UNCHANGED <<task, queue>>
  BY WeightsFit DEF PermitInv, TypesHold, CancelBlocked
<1>2. PICK i \in 1 .. Len(waiters) :
        /\ waiters[i] = r
        /\ IF i = 1 THEN Notify(used, RemoveAt(waiters, i), gone)
                    ELSE waiters' = RemoveAt(waiters, i) /\ pc' = gone /\ UNCHANGED used
  BY DEF CancelBlocked
<1>3. InLine(RemoveAt(waiters, i), gone) /\ gone \in [Requests -> Places]
  <2>1. "idle" \in Places
    BY DEF Places
  <2>2. InLine(RemoveAt(waiters, i), [pc EXCEPT ![waiters[i]] = "idle"])
    BY <1>1, <2>1, LeavesLine DEF PermitInv
  <2> QED BY <1>1, <1>2, <2>2 DEF Places
<1>4. \A x \in Requests : gone[x] = IF x = r THEN "idle" ELSE pc[x]
  BY <1>1
<1> HIDE DEF gone
<1>5. PICK L \in SUBSET Requests :
        /\ \A x \in L : gone[x] = "blocked"
        /\ used' = used + Total(L) /\ used' \in 0 .. Capacity
        /\ pc' = [x \in Requests |-> IF x \in L THEN "granted" ELSE gone[x]]
        /\ InLine(waiters', pc')
  <2>1. CASE i = 1
    <3>1. used \in Nat /\ Notify(used, RemoveAt(waiters, i), gone)
      BY <1>1, <1>2, <2>1
    <3> QED BY <1>3, <3>1, NotifyServes
  <2>2. CASE i # 1
    <3>1. waiters' = RemoveAt(waiters, i) /\ pc' = gone /\ used' = used
      BY <1>2, <2>2
    <3>2. Total({}) = 0
      <4>1. Permits({}) = {}
        BY DEF Permits
      <4> QED BY <4>1, FS_EmptySet DEF Total
    <3>3. pc' = [x \in Requests |-> IF x \in {} THEN "granted" ELSE gone[x]]
      BY <1>3, <3>1
    <3>4. used' = used + Total({}) /\ used' \in 0 .. Capacity
      BY <1>1, <3>1, <3>2
    <3> QED BY <1>3, <3>1, <3>3, <3>4
  <2> QED BY <2>1, <2>2
<1>6. \A x \in L : x # r /\ pc[x] = "blocked" /\ task[x] = "none" /\ x \notin Holders
  BY <1>1, <1>4, <1>5, HoldersAre DEF PermitInv
<1>7. \A x \in Requests : pc'[x] = IF x \in L THEN "granted" ELSE IF x = r THEN "idle" ELSE pc[x]
  BY <1>4, <1>5
<1>8. TypesHold'
  <2>1. pc' \in [Requests -> Places]
    BY <1>3, <1>5 DEF Places
  <2> QED BY <1>1, <1>5, <2>1 DEF TypesHold
<1>9. \A x \in Requests : task'[x] # "none" => pc'[x] \in {"waiting", "idle"}
  BY <1>1, <1>6, <1>7
<1>10. Holders' = Holders \union L
  <2>1. \A x \in Requests :
          x \in Holders' <=> pc'[x] \in {"granted", "reading", "touching", "submitting"} \/ task'[x] # "none"
    BY <1>8 DEF TypesHold, Holders, Buffering, Stages
  <2>2. Holders \in SUBSET Requests /\ Holders' \in SUBSET Requests
    BY DEF Holders, Buffering
  <2>3. \A x \in Requests :
          x \in Holders <=> pc[x] \in {"granted", "reading", "touching", "submitting"} \/ task[x] # "none"
    BY HoldersAre DEF PermitInv
  <2>4. \A x \in Requests : x \in Holders' <=> x \in Holders \union L
    BY <1>1, <1>6, <1>7, <2>1, <2>3
  <2> QED BY <2>2, <2>4
<1>11. Total(Holders') = Total(Holders) + Total(L) /\ Total(L) \in Int
  <2>1. Holders \intersect L = {}
    BY <1>6
  <2> QED BY <1>10, <2>1, TotalAdds, TotalType
<1> QED BY <1>5, <1>8, <1>9, <1>11, SumsUp

LEMMA PermitStep ==
  ASSUME PermitInv, [Next]_vars
  PROVE  PermitInv' /\ Balanced
<1>1. /\ pc \in [Requests -> Places] /\ task \in [Requests -> Stages]
      /\ queue \in Seq(Requests) /\ used \in 0 .. Capacity /\ Capacity \in Nat
      /\ \A x \in Requests : task[x] # "none" => pc[x] \in {"waiting", "idle"}
  BY WeightsFit DEF PermitInv, TypesHold
<1>2. \A x \in Requests :
        x \in Holders <=> pc[x] \in {"granted", "reading", "touching", "submitting"} \/ task[x] # "none"
  BY HoldersAre DEF PermitInv
<1> DEFINE Calm == PermitInv' /\ Leaked' = Leaked
           Same == \A x \in Requests : x \in Holders' <=> x \in Holders
           Past == \A x \in Requests : task'[x] # "none" => pc'[x] \in {"waiting", "idle"}
           Still == \A x \in Requests : pc[x] = "blocked" => pc'[x] = "blocked"
           Held == \A x \in Requests :
                     x \in Holders' <=> \/ pc'[x] \in {"granted", "reading", "touching", "submitting"}
                                        \/ task'[x] # "none"
<1>3. ASSUME TypesHold', Past, Still, UNCHANGED <<used, waiters>>, Held => Same PROVE Calm
  <2>1. Held
    BY <1>3 DEF TypesHold, Holders, Buffering, Stages
  <2> QED BY <1>3, <2>1, HoldersKept
<1>4. ASSUME NEW r \in Requests, ReadFails(r) \/ RejectLong(r) \/ TouchFails(r)
      PROVE  PermitInv' /\ Balanced
  <2> USE <1>4 DEF ReadFails, RejectLong, TouchFails, Goto
  <2>1. TypesHold' /\ Past /\ ReturnsEarly(r)
    BY <1>1 DEF TypesHold, Places, ReturnsEarly
  <2>2. Holders' = Holders \ {r} /\ r \in Holders
    <3>1. Held
      BY <2>1 DEF TypesHold, Holders, Buffering, Stages
    <3>2. Holders \in SUBSET Requests /\ Holders' \in SUBSET Requests
      BY DEF Holders, Buffering
    <3>3. \A x \in Requests : x \in Holders' <=> x \in Holders \ {r}
      BY <1>1, <1>2, <3>1
    <3> QED BY <1>2, <3>2, <3>3
  <2>3. Total(Holders') = Total(Holders) - Weight[r] /\ Weight[r] \in Nat
    BY <2>2, TotalWithout, WeightsFit
  <2>4. InLine(waiters', pc')
    BY <1>1, LineKept
  <2>5. Total(Holders) \in Nat /\ Total(Holders') \in Nat /\ used' = used /\ Total(Holders) <= used
    BY TotalType DEF PermitInv
  <2>6. Total(Holders') <= used' /\ used' - Total(Holders') = used - Total(Holders) + Weight[r]
    BY <1>1, <2>3, <2>5
  <2> QED BY <2>1, <2>4, <2>6 DEF PermitInv, Balanced, Leaked
<1>5. ASSUME NEW r \in Requests, Resume(r) \/ ReadBody(r) \/ TouchSession(r) PROVE Calm
  <2> USE <1>5 DEF Resume, ReadBody, TouchSession, Goto
  <2>1. TypesHold' /\ Past /\ Still /\ UNCHANGED <<used, waiters>>
    BY <1>1 DEF TypesHold, Places
  <2>2. Held => Same
    BY <1>1, <1>2
  <2> QED BY <1>3, <2>1, <2>2
<1>6. ASSUME NEW r \in Requests, Submit(r) PROVE Calm
  <2> USE <1>6 DEF Submit, Goto, TaskGoto
  <2>1. TypesHold' /\ Past /\ Still /\ UNCHANGED <<used, waiters>>
    BY <1>1, AppendProperties DEF TypesHold, Places, Stages
  <2>2. Held => Same
    BY <1>1, <1>2
  <2> QED BY <1>3, <2>1, <2>2
<1>7. ASSUME NEW r \in Requests, Answer(r) \/ Disconnect(r) PROVE Calm
  <2> USE <1>7 DEF Answer, Disconnect, Goto
  <2>1. TypesHold' /\ Past /\ Still /\ UNCHANGED <<used, waiters>>
    BY <1>1 DEF TypesHold, Places
  <2>2. Held => Same
    BY <1>1, <1>2
  <2> QED BY <1>3, <2>1, <2>2
<1>8. ASSUME NEW r \in Requests, Persist(r) PROVE Calm
  <2> USE <1>8 DEF Persist, TaskGoto
  <2>1. TypesHold' /\ Past /\ Still /\ UNCHANGED <<used, waiters>>
    BY <1>1 DEF TypesHold, Stages
  <2>2. Held => Same
    BY <1>1, <1>2
  <2> QED BY <1>3, <2>1, <2>2
<1>9. ASSUME TakeTask PROVE Calm
  <2> USE <1>9 DEF TakeTask, TaskGoto
  <2>1. Head(queue) \in Requests /\ Tail(queue) \in Seq(Requests)
    BY <1>1, HeadTailProperties
  <2>2. TypesHold' /\ Past /\ Still /\ UNCHANGED <<used, waiters>>
    BY <1>1, <2>1 DEF TypesHold, Stages
  <2>3. Held => Same
    BY <1>1, <1>2, <2>1
  <2> QED BY <1>3, <2>2, <2>3
<1>10. ASSUME NEW r \in Requests, CancelGranted(r) PROVE Calm
  <2>1. /\ r \in Holders /\ pc[r] # "blocked" /\ Release(r, "idle")
        /\ task' = [task EXCEPT ![r] = "none"] /\ UNCHANGED queue
    BY <1>1, <1>2, <1>10 DEF CancelGranted
  <2> QED BY <2>1, ReleaseBalances
<1>11. ASSUME NEW r \in Requests, SubmitFails(r) PROVE Calm
  <2>1. /\ r \in Holders /\ pc[r] # "blocked" /\ Release(r, "idle")
        /\ task' = [task EXCEPT ![r] = "none"] /\ UNCHANGED queue
    BY <1>1, <1>2, <1>11 DEF SubmitFails
  <2> QED BY <2>1, ReleaseBalances
<1>12. ASSUME NEW r \in Requests, FinishTask(r) PROVE Calm
  <2>1. /\ r \in Holders /\ pc[r] \in {"waiting", "idle"} /\ Release(r, pc[r])
        /\ task' = [task EXCEPT ![r] = "none"] /\ UNCHANGED queue
    BY <1>1, <1>2, <1>12 DEF FinishTask, TaskGoto
  <2> QED BY <2>1, ReleaseBalances
<1>13. ASSUME UNCHANGED vars PROVE Calm
  <2>1. TypesHold' /\ Past /\ Still /\ UNCHANGED <<used, waiters>>
    BY <1>1, <1>13 DEF TypesHold, vars
  <2>2. Held => Same
    BY <1>2, <1>13 DEF vars
  <2> QED BY <1>3, <2>1, <2>2
<1> HIDE DEF Calm
<1>14. CASE Calm
  BY <1>14 DEF Calm, Balanced
<1> QED
  BY <1>4, <1>5, <1>6, <1>7, <1>8, <1>9, <1>10, <1>11, <1>12, <1>13, <1>14,
     AcquireBalances, CancelBalances
  DEF Next, RequestStep, WorkerStep, Balanced

LEMMA PermitInvInit == Init => PermitInv
<1> SUFFICES ASSUME Init PROVE PermitInv
  OBVIOUS
<1>1. TypesHold
  BY WeightsFit DEF Init, TypesHold, Places, Stages
<1>2. Holders = {}
  BY DEF Init, Holders, Buffering
<1>3. Total(Holders) = 0
  <2>1. Permits({}) = {}
    BY DEF Permits
  <2> QED BY <1>2, <2>1, FS_EmptySet DEF Total
<1>4. InLine(waiters, pc)
  BY EmptySeq DEF Init, InLine
<1> QED BY <1>1, <1>3, <1>4 DEF Init, PermitInv

\* The chunk bodies in memory, those of requests that have gone included, never
\* weigh more than MaxInFlightBytes (appendChunkForSession, worker pool).
THEOREM MemoryIsBounded == Spec => []BufferedWithinLimit
<1>1. Init => PermitInv
  BY PermitInvInit
<1>2. PermitInv /\ [Next]_vars => PermitInv'
  BY PermitStep
<1>3. PermitInv => BufferedWithinLimit
  <2> SUFFICES ASSUME PermitInv PROVE BufferedWithinLimit
    OBVIOUS
  <2>1. Total(Buffering) <= Total(Holders)
    BY TotalGrows DEF Holders
  <2>2. /\ Total(Buffering) \in Nat /\ Total(Holders) \in Nat /\ Total(Holders) <= used
        /\ used \in 0 .. Capacity /\ Capacity \in Nat
    BY TotalType, WeightsFit DEF PermitInv, TypesHold
  <2> QED BY <2>1, <2>2 DEF BufferedWithinLimit
<1> QED BY <1>1, <1>2, <1>3, PTL DEF Spec

\* No step but a return between the semaphore and the pool loses permits, and
\* that one loses those of its request: cancelled waits, full queues,
\* disconnects and workers give back exactly what was taken
\* (semaphore.Weighted, appendChunkForSession).
THEOREM PermitsLostEarlyOnly == Spec => OnlyEarlyReturnsLeak
<1>1. Init => PermitInv
  BY PermitInvInit
<1>2. PermitInv /\ [Next]_vars => PermitInv'
  BY PermitStep
<1>3. PermitInv /\ [Next]_vars =>
        [\/ Leaked' = Leaked
         \/ \E r \in Requests : ReturnsEarly(r) /\ Leaked' = Leaked + Weight[r]]_vars
  BY PermitStep DEF Balanced
<1> QED BY <1>1, <1>2, <1>3, PTL DEF Spec, OnlyEarlyReturnsLeak
=============================================================================
