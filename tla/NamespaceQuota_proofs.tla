------------------------ MODULE NamespaceQuota_proofs ------------------------
(***************************************************************************)
(* Proofs about NamespaceQuota for any number of uploads, any sizes and    *)
(* either database.                                                        *)
(***************************************************************************)
EXTENDS NamespaceQuota, FiniteSetTheorems, TLAPS

\* The faults after which no handler can clean up are left out.
Cleanable == Faults \intersect {"release", "expire", "crash"} = {}

\* A row has a size, so that an identifier in use is never taken again; and
\* a handler that has started has asked for some bytes.
RowsSized == \A f \in live \union trashed : rowSize[f] # 0
SizeAsked == \A r \in Uploads : pc[r] # "new" => size[r] \in Sizes

WellFormed == TypeOK /\ RowsSized /\ SizeAsked

-----------------------------------------------------------------------------
LEMMA WellFormedInit == Init => WellFormed
BY DEF Init, WellFormed, TypeOK, RowsSized, SizeAsked, Uploads

\* The steps of CreateSession, Finalize and Abort.
LEMMA WellFormedSession ==
  ASSUME WellFormed, NEW s \in Sessions, SessionStep(s) PROVE WellFormed'
<1>. USE DEF WellFormed, TypeOK, RowsSized, SizeAsked, Uploads
<1>1. ASSUME NEW n \in Sizes, Reserve(s, n) PROVE WellFormed'
  BY <1>1 DEF Reserve, ReadUsage, Goto, rowVars
<1>2. ASSUME NEW n \in Sizes, Guard(s, n) PROVE WellFormed'
  BY <1>2 DEF Guard, ReadUsage, Goto, rowVars
<1>3. CASE DecideReserve(s)
  BY <1>3 DEF DecideReserve, Decide, Goto, rowVars
<1>4. CASE CreateSession(s)
  BY <1>4 DEF CreateSession, Goto, rowVars
<1>5. CASE CreateSessionFails(s)
  BY <1>5 DEF CreateSessionFails, Goto, rowVars
<1>6. CASE Claim(s)
  BY <1>6 DEF Claim, Goto, rowVars
<1>7. CASE Reject(s)
  BY <1>7 DEF Reject, Goto, rowVars
<1>8. CASE DecideGuard(s)
  BY <1>8 DEF DecideGuard, Decide, Goto, rowVars
<1>9. CASE FinishSession(s)
  BY <1>9 DEF FinishSession, Goto, rowVars
<1>10. CASE AbortRead(s)
  BY <1>10 DEF AbortRead, rowVars
<1>11. CASE AbortDelete(s)
  BY <1>11 DEF AbortDelete, rowVars
<1>12. CASE AbortRelease(s)
  BY <1>12 DEF AbortRelease, ReleaseReservation, rowVars
<1>13. CASE Expire(s)
  BY <1>13 DEF Expire, rowVars
<1>. QED BY <1>1, <1>2, <1>3, <1>4, <1>5, <1>6, <1>7, <1>8, <1>9, <1>10,
           <1>11, <1>12, <1>13 DEF SessionStep

\* The steps of an instant upload.
LEMMA WellFormedInstant ==
  ASSUME WellFormed, NEW c \in Instants, InstantStep(c) PROVE WellFormed'
<1>. USE DEF WellFormed, TypeOK, RowsSized, SizeAsked, Uploads
<1>1. ASSUME NEW n \in Sizes, Instant(c, n) PROVE WellFormed'
  BY <1>1 DEF Instant, ReadUsage, Goto, rowVars
<1>2. CASE DecideInstant(c)
  BY <1>2 DEF DecideInstant, Decide, Goto, rowVars
<1>. QED BY <1>1, <1>2 DEF InstantStep

\* The insertion of a row and the deferred release.
LEMMA WellFormedCommit ==
  ASSUME WellFormed, NEW r \in Uploads, CommitStep(r) PROVE WellFormed'
<1>. USE DEF WellFormed, TypeOK, RowsSized, SizeAsked
<1>1. ASSUME NEW f \in FileIDs, PutFile(r, f) PROVE WellFormed'
  <2>1. f \notin live \union trashed /\ size[r] \in Sizes
    BY <1>1 DEF PutFile, Goto
  <2>2. size[r] # 0
    BY <2>1, SizesArePositive
  <2>. QED BY <1>1, <2>1, <2>2 DEF PutFile, Goto
<1>2. CASE PutFileFails(r)
  BY <1>2 DEF PutFileFails, Goto, rowVars
<1>3. CASE Release(r)
  BY <1>3 DEF Release, ReleaseReservation, rowVars
<1>. QED BY <1>1, <1>2, <1>3 DEF CommitStep

\* Trash, restore, purge and copy.
LEMMA WellFormedRow ==
  ASSUME WellFormed, NEW f \in FileIDs, RowStep(f) PROVE WellFormed'
<1>. USE DEF WellFormed, TypeOK, RowsSized, SizeAsked
<1>1. CASE Trash(f)
  BY <1>1 DEF Trash
<1>2. CASE Restore(f)
  BY <1>2 DEF Restore, RestoreFile
<1>3. CASE PurgeRestore(f)
  BY <1>3 DEF PurgeRestore, RestoreFile
<1>4. CASE PurgeDelete(f)
  BY <1>4 DEF PurgeDelete
<1>5. ASSUME NEW g \in FileIDs, Copy(f, g) PROVE WellFormed'
  BY <1>5 DEF Copy
<1>. QED BY <1>1, <1>2, <1>3, <1>4, <1>5 DEF RowStep

LEMMA WellFormedStep == WellFormed /\ [Next]_vars => WellFormed'
<1>. SUFFICES ASSUME WellFormed, [Next]_vars PROVE WellFormed'
  OBVIOUS
<1>1. CASE Crash
  BY <1>1 DEF Crash, WellFormed, TypeOK, RowsSized, SizeAsked
<1>2. CASE UNCHANGED vars
  BY <1>2 DEF vars, WellFormed, TypeOK, RowsSized, SizeAsked
<1>. QED BY <1>1, <1>2, WellFormedSession, WellFormedInstant,
           WellFormedCommit, WellFormedRow DEF Next

\* The types are invariant; no identifier of a row is used twice.
THEOREM TypeCorrect == Spec => []TypeOK
<1>1. WellFormed => TypeOK
  BY DEF WellFormed
<1>. QED BY WellFormedInit, WellFormedStep, <1>1, PTL DEF Spec

-----------------------------------------------------------------------------
(* Every reservation is released in the end by somebody who is there.      *)

OwnedInv == WellFormed /\ ReservationsOwned

LEMMA OwnedInit == Init => ReservationsOwned
BY DEF Init, ReservationsOwned, Uploads

\* Only Expire breaks the ownership of a session's reservation.
LEMMA OwnedSession ==
  ASSUME Cleanable, TypeOK, ReservationsOwned,
         NEW s \in Sessions, SessionStep(s)
  PROVE  ReservationsOwned'
<1>. USE UploadsAreDistinct DEF TypeOK, ReservationsOwned, HasOwner, Uploads
<1>1. ASSUME NEW n \in Sizes, Reserve(s, n) PROVE ReservationsOwned'
  BY <1>1 DEF Reserve, ReadUsage, Goto
<1>2. ASSUME NEW n \in Sizes, Guard(s, n) PROVE ReservationsOwned'
  BY <1>2 DEF Guard, ReadUsage, Goto
<1>3. CASE DecideReserve(s)
  BY <1>3 DEF DecideReserve, Decide, Goto
<1>4. CASE CreateSession(s)
  BY <1>4 DEF CreateSession, Goto
<1>5. CASE CreateSessionFails(s)
  BY <1>5 DEF CreateSessionFails, Goto
<1>6. CASE Claim(s)
  BY <1>6 DEF Claim, Goto
<1>7. CASE Reject(s)
  BY <1>7 DEF Reject, Goto
<1>8. CASE DecideGuard(s)
  BY <1>8 DEF DecideGuard, Decide, Goto
<1>9. CASE FinishSession(s)
  BY <1>9 DEF FinishSession, Goto
<1>10. CASE AbortRead(s)
  BY <1>10 DEF AbortRead
<1>11. CASE AbortDelete(s)
  BY <1>11 DEF AbortDelete
<1>12. CASE AbortRelease(s)
  BY <1>12 DEF AbortRelease, ReleaseReservation, Cleanable
<1>13. CASE Expire(s)
  BY <1>13 DEF Expire, Cleanable
<1>. QED BY <1>1, <1>2, <1>3, <1>4, <1>5, <1>6, <1>7, <1>8, <1>9, <1>10,
           <1>11, <1>12, <1>13 DEF SessionStep

LEMMA OwnedStep ==
  Cleanable /\ OwnedInv /\ [Next]_vars => ReservationsOwned'
<1>. SUFFICES ASSUME Cleanable, OwnedInv, [Next]_vars
              PROVE  ReservationsOwned'
  OBVIOUS
<1>. USE DEF OwnedInv, WellFormed, TypeOK, ReservationsOwned, HasOwner
<1>1. ASSUME NEW s \in Sessions, SessionStep(s) PROVE ReservationsOwned'
  BY <1>1, OwnedSession
<1>2. ASSUME NEW c \in Instants, InstantStep(c) PROVE ReservationsOwned'
  <2>1. ASSUME NEW n \in Sizes, Instant(c, n) PROVE ReservationsOwned'
    BY <2>1 DEF Instant, ReadUsage, Goto, Uploads
  <2>2. CASE DecideInstant(c)
    BY <2>2 DEF DecideInstant, Decide, Goto, Uploads
  <2>. QED BY <1>2, <2>1, <2>2 DEF InstantStep
<1>3. ASSUME NEW r \in Uploads, CommitStep(r) PROVE ReservationsOwned'
  <2>1. ASSUME NEW f \in FileIDs, PutFile(r, f) PROVE ReservationsOwned'
    BY <2>1 DEF PutFile, Goto
  <2>2. CASE PutFileFails(r)
    BY <2>2 DEF PutFileFails, Goto
  <2>3. CASE Release(r)
    BY <2>3 DEF Release, ReleaseReservation, Cleanable
  <2>. QED BY <1>3, <2>1, <2>2, <2>3 DEF CommitStep
<1>4. ASSUME NEW f \in FileIDs, RowStep(f) PROVE ReservationsOwned'
  <2>1. UNCHANGED <<reserved, session, pc, aborter>>
    BY <1>4 DEF RowStep, Trash, Restore, RestoreFile, PurgeRestore,
                PurgeDelete, Copy
  <2>. QED BY <2>1
<1>5. CASE Crash
  BY <1>5 DEF Crash, Cleanable
<1>6. CASE UNCHANGED vars
  BY <1>6 DEF vars
<1>. QED BY <1>1, <1>2, <1>3, <1>4, <1>5, <1>6 DEF Next

\* Unless a release fails, a session expires or the process dies, every
\* reservation is released by the handler, the abort or the session it
\* belongs to, whatever else is refused, rejected or copied.
THEOREM ReservationsHaveOwners ==
  ASSUME Cleanable PROVE Spec => []ReservationsOwned
<1>1. Init => OwnedInv
  BY WellFormedInit, OwnedInit DEF OwnedInv
<1>2. OwnedInv /\ [Next]_vars => OwnedInv'
  BY WellFormedStep, OwnedStep DEF OwnedInv
<1>3. OwnedInv => ReservationsOwned
  BY DEF OwnedInv
<1>. QED BY <1>1, <1>2, <1>3, PTL DEF Spec

-----------------------------------------------------------------------------
(* Sums.                                                                   *)

LEMMA TotalType ==
  ASSUME NEW S, NEW w, IsFiniteSet(S), \A x \in S : w[x] \in Nat
  PROVE  IsFiniteSet(Units(S, w)) /\ Total(S, w) \in Nat
<1> DEFINE F == {{x} \X (1 .. w[x]) : x \in S}
           f == [x \in S |-> {x} \X (1 .. w[x])]
<1>1. IsFiniteSet(F)
  <2>1. f \in Surjection(S, F)
    BY DEF Surjection
  <2> HIDE DEF f, F
  <2> QED BY <2>1, FS_Surjection
<1>2. ASSUME NEW T \in F PROVE IsFiniteSet(T)
  <2>1. PICK x \in S : T = {x} \X (1 .. w[x])
    OBVIOUS
  <2>2. IsFiniteSet({x}) /\ IsFiniteSet(1 .. w[x])
    <3>1. 1 \in Int /\ w[x] \in Int
      OBVIOUS
    <3> QED BY <3>1, FS_Singleton, FS_Interval
  <2> QED BY <2>1, <2>2, FS_Product
<1>3. Units(S, w) = UNION F
  BY DEF Units
<1> HIDE DEF F
<1>4. IsFiniteSet(UNION F)
  BY <1>1, <1>2, FS_UNION
<1> QED BY <1>3, <1>4, FS_CardinalityType DEF Total

LEMMA TotalGrows ==
  ASSUME NEW S, NEW T, NEW v, NEW w, IsFiniteSet(T), S \subseteq T,
         \A x \in T : w[x] \in Nat, \A x \in S : v[x] \in Nat /\ v[x] <= w[x]
  PROVE  Total(S, v) <= Total(T, w)
<1>1. Units(S, v) \subseteq Units(T, w)
  <2> SUFFICES ASSUME NEW p \in Units(S, v) PROVE p \in Units(T, w)
    OBVIOUS
  <2>1. PICK x \in S : p \in {x} \X (1 .. v[x])
    BY DEF Units
  <2>2. p \in {x} \X (1 .. w[x])
    BY <2>1
  <2> QED BY <2>2 DEF Units
<1> QED BY <1>1, TotalType, FS_Subset DEF Total

LEMMA TotalSame ==
  ASSUME NEW S, NEW v, NEW w, \A x \in S : v[x] = w[x]
  PROVE  Total(S, v) = Total(S, w)
<1>1. Units(S, v) = Units(S, w)
  BY DEF Units
<1> QED BY <1>1 DEF Total

LEMMA TotalWith ==
  ASSUME NEW S, NEW r, NEW w, IsFiniteSet(S), r \notin S,
         \A x \in S \union {r} : w[x] \in Nat
  PROVE  Total(S \union {r}, w) = Total(S, w) + w[r]
<1> DEFINE R == {r} \X (1 .. w[r])
<1>1. Units(S \union {r}, w) = Units(S, w) \union R
  BY DEF Units
<1>2. Units(S, w) \intersect R = {}
  BY DEF Units
<1>3. IsFiniteSet(Units(S, w)) /\ Cardinality(Units(S, w)) \in Nat
  BY TotalType, FS_CardinalityType
<1>4. IsFiniteSet(R) /\ Cardinality(R) = w[r] /\ w[r] \in Nat
  <2>1. 1 \in Int /\ w[r] \in Nat
    OBVIOUS
  <2>2. IsFiniteSet({r}) /\ Cardinality({r}) = 1
    BY FS_Singleton
  <2>3. IsFiniteSet(1 .. w[r]) /\ Cardinality(1 .. w[r]) = w[r]
    <3>1. ASSUME NEW n \in Nat PROVE IsFiniteSet(1 .. n) /\ Cardinality(1 .. n) = n
      BY FS_Interval
    <3> QED BY <2>1, <3>1
  <2>4. IsFiniteSet(R) /\ Cardinality(R) = 1 * w[r]
    BY <2>2, <2>3, FS_Product
  <2> QED BY <2>1, <2>4
<1>5. Cardinality(Units(S, w) \intersect R) = 0
  BY <1>2, FS_EmptySet
<1> HIDE DEF R
<1>6. Cardinality(Units(S, w) \union R) = Cardinality(Units(S, w)) + Cardinality(R) - 0
  BY <1>3, <1>4, <1>5, FS_Union
<1>7. Cardinality(Units(S, w)) + Cardinality(R) - 0 = Cardinality(Units(S, w)) + w[r]
  BY <1>3, <1>4
<1> QED BY <1>1, <1>6, <1>7, Zenon DEF Total

-----------------------------------------------------------------------------
(* No byte is sold twice.                                                  *)

\* One writer at a time, and nothing but uploads that adds to the rows or
\* takes a reservation from its upload.
Strict == SingleWriter /\ Operations \subseteq {"trash"}

\* What an upload has to its name besides a row, as long as it has none: the
\* whole reservation, that of a failed upload included.
Owed == [r \in Uploads |->
           IF pc[r] \in {"put", "recorded", "done"} THEN 0 ELSE reserved[r]]

\* The transaction that holds the lock has read what still is; a handler that
\* may insert its row has reserved what it will write.
Snapshot == lock # None => seen = Used
Granted == \A r \in Uploads : pc[r] = "guarded" => reserved[r] = size[r]
NoAborts == \A s \in Sessions : aborter[s] = "idle"
WithinQuota == Used + Total(Uploads, Owed) <= Quota

QuotaInv == WellFormed /\ Snapshot /\ Granted /\ NoAborts /\ WithinQuota

LEMMA SizesAreNumbers == Sizes \union {0} \subseteq Nat
BY SizesArePositive

\* What the sums range over.
LEMMA SumsAreNumbers ==
  ASSUME TypeOK
  PROVE  /\ IsFiniteSet(live) /\ IsFiniteSet(Uploads)
         /\ \A f \in FileIDs : rowSize[f] \in Nat
         /\ \A r \in Uploads : Owed[r] \in Nat /\ reserved[r] \in Nat /\ size[r] \in Nat
         /\ Used \in Nat /\ Total(Uploads, Owed) \in Nat /\ Reserved(Uploads) \in Nat
         /\ Quota \in Nat
<1>1. IsFiniteSet(live) /\ IsFiniteSet(Uploads)
  BY PoolsAreFinite, FS_Subset DEF TypeOK
<1>2. /\ \A f \in FileIDs : rowSize[f] \in Nat
      /\ \A r \in Uploads : reserved[r] \in Nat /\ size[r] \in Nat
  BY SizesAreNumbers DEF TypeOK
<1>3. \A r \in Uploads : Owed[r] \in Nat
  BY <1>2 DEF Owed
<1>4. Used \in Nat
  BY <1>1, <1>2, TotalType DEF Used, TypeOK
<1>5. Total(Uploads, Owed) \in Nat /\ Reserved(Uploads) \in Nat
  BY <1>1, <1>2, <1>3, TotalType DEF Reserved
<1> QED BY <1>1, <1>2, <1>3, <1>4, <1>5, QuotaIsThere

\* A step that adds no row and nothing to what uploads are owed.
LEMMA NothingSold ==
  ASSUME TypeOK, TypeOK', WithinQuota, live' \subseteq live, rowSize' = rowSize,
         \A r \in Uploads : Owed'[r] <= Owed[r]
  PROVE  WithinQuota'
<1>1. Used' <= Used
  <2>1. IsFiniteSet(live) /\ \A f \in live : rowSize[f] \in Nat
    BY SumsAreNumbers DEF TypeOK
  <2>2. \A f \in live' : rowSize'[f] \in Nat /\ rowSize'[f] <= rowSize[f]
    BY <2>1
  <2> QED BY <2>1, <2>2, TotalGrows DEF Used
<1>2. /\ IsFiniteSet(Uploads) /\ \A r \in Uploads : Owed[r] \in Nat
      /\ Used \in Nat /\ Total(Uploads, Owed) \in Nat /\ Quota \in Nat
  BY SumsAreNumbers
<1>3. \A r \in Uploads : Owed'[r] \in Nat
  <2>1. \A r \in Uploads : reserved'[r] \in Nat
    BY SizesAreNumbers DEF TypeOK
  <2> QED BY <2>1 DEF Owed
<1>4. Total(Uploads, Owed') <= Total(Uploads, Owed)
  BY <1>2, <1>3, TotalGrows
<1>5. Used' \in Nat /\ Total(Uploads, Owed') \in Nat
  <2>1. IsFiniteSet(live') /\ \A f \in live' : rowSize'[f] \in Nat
    <3>1. live' \subseteq FileIDs /\ rowSize' \in [FileIDs -> Sizes \union {0}]
      BY DEF TypeOK
    <3>2. IsFiniteSet(live')
      BY <3>1, PoolsAreFinite, FS_Subset
    <3> QED BY <3>1, <3>2, SizesAreNumbers
  <2> QED BY <1>2, <1>3, <2>1, TotalType DEF Used
<1> QED BY <1>1, <1>2, <1>4, <1>5 DEF WithinQuota

\* One upload apart from the others.
LEMMA OneApart ==
  ASSUME NEW r \in Uploads, NEW w, \A x \in Uploads : w[x] \in Nat
  PROVE  /\ Total(Uploads, w) = Total(Uploads \ {r}, w) + w[r]
         /\ Total(Uploads \ {r}, w) \in Nat
<1>1. IsFiniteSet(Uploads \ {r})
  BY PoolsAreFinite, FS_Difference
<1>2. Total((Uploads \ {r}) \union {r}, w) = Total(Uploads \ {r}, w) + w[r]
  BY <1>1, TotalWith
<1>3. (Uploads \ {r}) \union {r} = Uploads
  OBVIOUS
<1>4. Total(Uploads \ {r}, w) \in Nat
  BY <1>1, TotalType
<1> QED BY <1>2, <1>3, <1>4

\* A reservation is given when it fits beside the rows and all others.
LEMMA DecideSells ==
  ASSUME QuotaInv, TypeOK', NEW r \in Uploads, NEW from, NEW then, NEW else,
         Decide(r, from, then, else), UNCHANGED <<rowVars, size>>,
         then \notin {"put", "recorded", "done"}, else \in {"failed", "done"},
         from \in {"reserving", "guarding"}
  PROVE  WithinQuota'
<1> USE DEF QuotaInv, WellFormed
<1>1. /\ TypeOK /\ lock = r /\ seen = Used /\ r # None
      /\ live' = live /\ rowSize' = rowSize /\ Used' = Used
  BY NoneIsNobody DEF Decide, Snapshot, rowVars, Used
<1>2. /\ \A x \in Uploads : Owed[x] \in Nat /\ reserved[x] \in Nat /\ size[x] \in Nat
      /\ Used \in Nat /\ Quota \in Nat
  BY SumsAreNumbers
<1>3. CASE Fits(r) /\ Goto(r, from, then) /\ reserved' = [reserved EXCEPT ![r] = size[r]]
  <2>1. /\ \A x \in Uploads \ {r} : Owed'[x] = Owed[x] /\ Owed[x] <= reserved[x]
        /\ Owed'[r] = size[r]
    BY <1>1, <1>2, <1>3 DEF Goto, Owed, TypeOK
  <2>2. \A x \in Uploads : Owed'[x] \in Nat
    BY <1>2, <2>1
  <2>3. /\ Total(Uploads, Owed') = Total(Uploads \ {r}, Owed') + size[r]
        /\ Total(Uploads \ {r}, Owed') \in Nat
    BY <2>1, <2>2, OneApart
  <2>4. Total(Uploads \ {r}, Owed') <= Total(Uploads \ {r}, reserved)
    <3>1. IsFiniteSet(Uploads \ {r})
      BY PoolsAreFinite, FS_Difference
    <3> QED BY <1>2, <2>1, <2>2, <3>1, TotalGrows
  <2>5. /\ Reserved(Uploads) = Total(Uploads \ {r}, reserved) + reserved[r]
        /\ Total(Uploads \ {r}, reserved) \in Nat
    BY <1>2, OneApart DEF Reserved
  <2>6. Used + Reserved(Uploads) - reserved[r] + size[r] <= Quota
    BY <1>1, <1>3 DEF Fits
  <2>7. Used + Total(Uploads, Owed') <= Quota
    BY <1>2, <2>3, <2>4, <2>5, <2>6
  <2> QED BY <1>1, <2>7 DEF WithinQuota
<1>4. CASE Goto(r, from, else) /\ UNCHANGED reserved
  <2>1. \A x \in Uploads : Owed'[x] <= Owed[x]
    BY <1>1, <1>2, <1>4 DEF Goto, Owed, TypeOK
  <2> QED BY <1>1, <2>1, NothingSold
<1> QED BY <1>3, <1>4 DEF Decide

\* The row takes the place of its reservation.
LEMMA PutFileSells ==
  ASSUME QuotaInv, TypeOK', NEW r \in Uploads, NEW f \in FileIDs, PutFile(r, f)
  PROVE  WithinQuota'
<1> USE DEF QuotaInv, WellFormed
<1>1. /\ TypeOK /\ rowSize[f] = 0 /\ f \notin live /\ f \in FileIDs
      /\ live' = live \union {f} /\ rowSize' = [rowSize EXCEPT ![f] = size[r]]
      /\ reserved' = reserved /\ pc[r] = "guarded" /\ reserved[r] = size[r]
      /\ pc' = [pc EXCEPT ![r] = IF r \in Sessions THEN "put" ELSE "recorded"]
  BY DEF PutFile, Goto, RowsSized, Granted
<1>2. /\ \A x \in Uploads : Owed[x] \in Nat /\ reserved[x] \in Nat
      /\ \A x \in FileIDs : rowSize[x] \in Nat
      /\ Used \in Nat /\ Quota \in Nat /\ IsFiniteSet(live) /\ size[r] \in Nat
  BY SumsAreNumbers
<1>3. Used' = Used + size[r]
  <2>1. /\ rowSize'[f] = size[r] /\ \A x \in live : rowSize'[x] = rowSize[x]
        /\ \A x \in live \union {f} : rowSize'[x] \in Nat
    BY <1>1, <1>2 DEF TypeOK
  <2>2. Total(live \union {f}, rowSize') = Total(live, rowSize') + size[r]
    <3> DEFINE w == rowSize'
    <3>1. IsFiniteSet(live) /\ f \notin live /\ \A x \in live \union {f} : w[x] \in Nat
      BY <1>1, <1>2, <2>1
    <3> HIDE DEF w
    <3>2. Total(live \union {f}, w) = Total(live, w) + w[f]
      BY <3>1, TotalWith
    <3> QED BY <2>1, <3>2 DEF w
  <2>3. Total(live, rowSize') = Total(live, rowSize)
    BY <2>1, TotalSame
  <2> QED BY <1>1, <2>2, <2>3 DEF Used
<1>4. /\ \A x \in Uploads \ {r} : Owed'[x] = Owed[x]
      /\ Owed'[r] = 0 /\ Owed[r] = size[r]
  BY <1>1 DEF Owed, TypeOK
<1>5. \A x \in Uploads : Owed'[x] \in Nat
  BY <1>2, <1>4
<1>6. /\ Total(Uploads, Owed) = Total(Uploads \ {r}, Owed) + size[r]
      /\ Total(Uploads, Owed') = Total(Uploads \ {r}, Owed') + 0
      /\ Total(Uploads \ {r}, Owed) \in Nat
  BY <1>2, <1>4, <1>5, OneApart
<1>7. Total(Uploads \ {r}, Owed') = Total(Uploads \ {r}, Owed)
  BY <1>4, TotalSame
<1>8. Used + size[r] + Total(Uploads, Owed') <= Quota
  BY <1>2, <1>6, <1>7 DEF WithinQuota
<1> QED BY <1>3, <1>8 DEF WithinQuota

\* The rest of what the steps keep.
LEMMA BesidesKept ==
  ASSUME Strict, QuotaInv, TypeOK', [Next]_vars
  PROVE  Snapshot' /\ Granted' /\ NoAborts'
<1> USE UploadsAreDistinct, NoneIsNobody
    DEF Strict, QuotaInv, WellFormed, TypeOK, Snapshot, Granted, NoAborts, MayWrite, Used,
        rowVars, Goto, Uploads
<1>1. ASSUME NEW s \in Sessions, SessionStep(s) PROVE Snapshot' /\ Granted' /\ NoAborts'
  <2>1. ASSUME NEW n \in Sizes, Reserve(s, n) \/ Guard(s, n)
        PROVE  Snapshot' /\ Granted' /\ NoAborts'
    BY <2>1 DEF Reserve, Guard, ReadUsage
  <2>2. CASE DecideReserve(s) \/ DecideGuard(s)
    BY <2>2 DEF DecideReserve, DecideGuard, Decide
  <2>3. CASE CreateSession(s) \/ CreateSessionFails(s) \/ Claim(s) \/ Reject(s)
    BY <2>3 DEF CreateSession, CreateSessionFails, Claim, Reject
  <2>4. CASE FinishSession(s) \/ Expire(s)
    BY <2>4 DEF FinishSession, Expire
  <2>5. ~ (AbortRead(s) \/ AbortDelete(s) \/ AbortRelease(s))
    BY DEF AbortRead, AbortDelete, AbortRelease
  <2> QED BY <1>1, <2>1, <2>2, <2>3, <2>4, <2>5 DEF SessionStep
<1>2. ASSUME NEW c \in Instants, InstantStep(c) PROVE Snapshot' /\ Granted' /\ NoAborts'
  <2>1. ASSUME NEW n \in Sizes, Instant(c, n) PROVE Snapshot' /\ Granted' /\ NoAborts'
    BY <2>1 DEF Instant, ReadUsage
  <2>2. CASE DecideInstant(c)
    BY <2>2 DEF DecideInstant, Decide
  <2> QED BY <1>2, <2>1, <2>2 DEF InstantStep
<1>3. ASSUME NEW r \in Uploads, CommitStep(r) PROVE Snapshot' /\ Granted' /\ NoAborts'
  <2>1. ASSUME NEW f \in FileIDs, PutFile(r, f) PROVE Snapshot' /\ Granted' /\ NoAborts'
    BY <2>1 DEF PutFile
  <2>2. CASE PutFileFails(r)
    BY <2>2 DEF PutFileFails
  <2>3. CASE Release(r)
    BY <2>3 DEF Release, ReleaseReservation
  <2> QED BY <1>3, <2>1, <2>2, <2>3 DEF CommitStep
<1>4. ASSUME NEW f \in FileIDs, RowStep(f) PROVE Snapshot' /\ Granted' /\ NoAborts'
  <2>1. /\ lock = None \/ UNCHANGED <<live, rowSize>>
        /\ UNCHANGED <<lock, seen, pc, size, reserved, aborter>>
    BY <1>4 DEF RowStep, Trash, Restore, RestoreFile, PurgeRestore, PurgeDelete, Copy
  <2> QED BY <2>1
<1>5. CASE Crash
  BY <1>5 DEF Crash
<1>6. CASE UNCHANGED vars
  BY <1>6 DEF vars
<1> QED BY <1>1, <1>2, <1>3, <1>4, <1>5, <1>6 DEF Next

LEMMA QuotaKept ==
  ASSUME Strict, QuotaInv, [Next]_vars
  PROVE  QuotaInv'
<1>1. WellFormed /\ WellFormed' /\ TypeOK /\ TypeOK'
  BY WellFormedStep DEF QuotaInv, WellFormed
<1> DEFINE Less == /\ live' \subseteq live /\ rowSize' = rowSize
                   /\ \A r \in Uploads : Owed'[r] <= Owed[r]
<1>2. /\ pc \in [Uploads -> {"new", "reserving", "reserved", "open", "claimed",
                   "guarding", "guarded", "put", "recorded", "failed", "done"}]
      /\ \A r \in Uploads : reserved[r] \in Nat
      /\ reserved \in [Uploads -> Sizes \union {0}]
      /\ \A r \in Uploads : Owed[r] = IF pc[r] \in {"put", "recorded", "done"} THEN 0 ELSE reserved[r]
      /\ \A r \in Uploads : Owed'[r] = IF pc'[r] \in {"put", "recorded", "done"} THEN 0 ELSE reserved'[r]
  BY <1>1, SumsAreNumbers DEF TypeOK, Owed
<1>3. Less => WithinQuota'
  BY <1>1, NothingSold DEF QuotaInv
<1>4. ASSUME NEW s \in Sessions, SessionStep(s) PROVE WithinQuota'
  <2>1. s \in Uploads
    BY DEF Uploads
  <2>2. ASSUME NEW n \in Sizes, Reserve(s, n) \/ Guard(s, n) PROVE Less
    BY <1>2, <2>1, <2>2 DEF Reserve, Guard, Goto, rowVars
  <2>3. CASE DecideReserve(s)
    BY <1>1, <2>1, <2>3, DecideSells DEF DecideReserve
  <2>4. CASE DecideGuard(s)
    BY <1>1, <2>1, <2>4, DecideSells DEF DecideGuard
  <2>5. CASE CreateSession(s) \/ CreateSessionFails(s) \/ Claim(s) \/ Reject(s)
    <3>1. Less
      BY <1>2, <2>1, <2>5 DEF CreateSession, CreateSessionFails, Claim, Reject, Goto, rowVars
    <3> QED BY <1>3, <3>1
  <2>6. CASE FinishSession(s) \/ Expire(s)
    <3>1. Less
      BY <1>2, <2>1, <2>6 DEF FinishSession, Expire, Goto, rowVars
    <3> QED BY <1>3, <3>1
  <2>7. ~ (AbortRead(s) \/ AbortDelete(s) \/ AbortRelease(s))
    BY DEF AbortRead, AbortDelete, AbortRelease, QuotaInv, NoAborts, Strict
  <2> QED BY <1>3, <1>4, <2>2, <2>3, <2>4, <2>5, <2>6, <2>7 DEF SessionStep
<1>5. ASSUME NEW c \in Instants, InstantStep(c) PROVE WithinQuota'
  <2>1. c \in Uploads
    BY DEF Uploads
  <2>2. ASSUME NEW n \in Sizes, Instant(c, n) PROVE Less
    BY <1>2, <2>1, <2>2 DEF Instant, Goto, rowVars
  <2>3. CASE DecideInstant(c)
    BY <1>1, <2>1, <2>3, DecideSells DEF DecideInstant
  <2> QED BY <1>3, <1>5, <2>2, <2>3 DEF InstantStep
<1>6. ASSUME NEW r \in Uploads, CommitStep(r) PROVE WithinQuota'
  <2>1. ASSUME NEW f \in FileIDs, PutFile(r, f) PROVE WithinQuota'
    BY <1>1, <2>1, PutFileSells
  <2>2. CASE PutFileFails(r)
    <3>1. Less
      BY <1>2, <2>2 DEF PutFileFails, Goto, rowVars
    <3> QED BY <1>3, <3>1
  <2>3. CASE Release(r)
    <3>1. Less
      BY <1>2, <2>3 DEF Release, ReleaseReservation, rowVars
    <3> QED BY <1>3, <3>1
  <2> QED BY <1>6, <2>1, <2>2, <2>3 DEF CommitStep
<1>7. ASSUME NEW f \in FileIDs, RowStep(f) PROVE WithinQuota'
  <2>1. Trash(f) \/ PurgeDelete(f)
    BY <1>7 DEF RowStep, Restore, PurgeRestore, Copy, Strict
  <2>2. Less
    BY <1>2, <2>1 DEF Trash, PurgeDelete
  <2> QED BY <1>3, <2>2
<1>8. ASSUME Crash PROVE WithinQuota'
  <2>1. Less
    BY <1>2, <1>8 DEF Crash
  <2> QED BY <1>3, <2>1
<1>9. ASSUME UNCHANGED vars PROVE WithinQuota'
  <2>1. Less
    BY <1>2, <1>9 DEF vars
  <2> QED BY <1>3, <2>1
<1>10. WithinQuota'
  BY <1>4, <1>5, <1>6, <1>7, <1>8, <1>9 DEF Next
<1> QED BY <1>1, <1>10, BesidesKept DEF QuotaInv

LEMMA QuotaInvInit == Init => QuotaInv
<1> SUFFICES ASSUME Init PROVE QuotaInv
  OBVIOUS
<1>1. WellFormed /\ TypeOK
  BY WellFormedInit DEF WellFormed
<1>2. Snapshot /\ Granted /\ NoAborts
  BY DEF Init, Snapshot, Granted, NoAborts
<1>3. Used = 0
  <2>1. Units(live, rowSize) = {}
    BY DEF Init, Units
  <2> QED BY <2>1, FS_EmptySet DEF Used, Total
<1>4. Total(Uploads, Owed) = 0
  <2>1. \A r \in Uploads : Owed[r] = 0
    BY DEF Init, Owed
  <2>2. Units(Uploads, Owed) = {}
    BY <2>1 DEF Units
  <2> QED BY <2>2, FS_EmptySet DEF Total
<1>5. WithinQuota
  BY <1>3, <1>4, QuotaIsThere DEF WithinQuota
<1> QED BY <1>1, <1>2, <1>5 DEF QuotaInv

\* With one writer at a time and no operation but uploads and the trash, the
\* rows and everything promised to uploads fit together, whatever fails and
\* whenever the process dies: no interleaving of reservations, finalizes,
\* instant uploads and releases sells a byte twice.
THEOREM NoByteSoldTwice ==
  ASSUME Strict PROVE Spec => []NoOvercommit
<1>1. QuotaInv => NoOvercommit
  <2> SUFFICES ASSUME QuotaInv PROVE NoOvercommit
    OBVIOUS
  <2> DEFINE P == [r \in Uploads |-> Promised(r)]
  <2>1. TypeOK
    BY DEF QuotaInv, WellFormed
  <2>2. /\ IsFiniteSet(Uploads)
        /\ \A r \in Uploads : Owed[r] \in Nat /\ reserved[r] \in Nat /\ size[r] \in Nat
        /\ Used \in Nat /\ Total(Uploads, Owed) \in Nat /\ Quota \in Nat
    BY <2>1, SumsAreNumbers
  <2>3. \A r \in Uploads : P[r] \in Nat /\ P[r] <= Owed[r]
    BY <2>2 DEF Promised, Owed, QuotaInv, Granted
  <2> HIDE DEF P
  <2>4. Total(Uploads, P) <= Total(Uploads, Owed) /\ Total(Uploads, P) \in Nat
    BY <2>2, <2>3, TotalGrows, TotalType
  <2>5. Used + Total(Uploads, P) <= Quota
    BY <2>2, <2>4 DEF QuotaInv, WithinQuota
  <2> QED BY <2>5 DEF NoOvercommit, P
<1> QED BY <1>1, QuotaInvInit, QuotaKept, PTL DEF Spec

\* Under the same conditions a finalize that stays within its reservation is
\* refused only while some upload counts twice: as a row, or not at all any
\* more, and as a reservation that is not released.
THEOREM ReservationsAreWorthTheirBytes ==
  ASSUME Strict PROVE Spec => ReservationHonoured
<1>1. ASSUME QuotaInv, [Next]_vars, NEW s \in Sessions, RefusedAtCommit(s), size[s] <= reserved[s]
      PROVE  \E r \in Uploads : CountedTwice(r)
  <2> SUFFICES ASSUME \A r \in Uploads : ~ CountedTwice(r) PROVE FALSE
    OBVIOUS
  <2>1. TypeOK /\ s \in Uploads /\ s # None /\ pc[s] = "guarding" /\ pc'[s] = "failed"
    BY <1>1, NoneIsNobody DEF QuotaInv, WellFormed, Uploads, RefusedAtCommit
  <2>2. DecideGuard(s) /\ ~ Fits(s)
    <3>1. pc \in [Uploads -> {"new", "reserving", "reserved", "open", "claimed",
                   "guarding", "guarded", "put", "recorded", "failed", "done"}]
      BY <2>1 DEF TypeOK
    <3>2. ASSUME NEW x \in Uploads, ~ (x = s /\ DecideGuard(s)),
                 (x \in Sessions /\ SessionStep(x)) \/ (x \in Instants /\ InstantStep(x)) \/ CommitStep(x)
          PROVE  FALSE
      BY <2>1, <3>1, <3>2 DEF SessionStep, InstantStep, CommitStep, Reserve, Guard, DecideReserve,
        DecideGuard, CreateSession, CreateSessionFails, Claim, Reject, FinishSession, AbortRead,
        AbortDelete, AbortRelease, Expire, Instant, DecideInstant, PutFile, PutFileFails,
        Release, Decide, Goto
    <3>3. \A f \in FileIDs : ~ RowStep(f)
      BY <2>1 DEF RowStep, Trash, Restore, RestoreFile, PurgeRestore, PurgeDelete, Copy
    <3>4. ~ Crash
      BY <2>1 DEF Crash
    <3>5. DecideGuard(s)
      BY <1>1, <2>1, <3>2, <3>3, <3>4 DEF Next, vars, Uploads
    <3> QED BY <2>1, <3>1, <3>5 DEF DecideGuard, Decide, Goto
  <2>3. seen = Used
    BY <1>1, <2>1, <2>2 DEF DecideGuard, Decide, QuotaInv, Snapshot
  <2>4. Total(Uploads, Owed) = Reserved(Uploads)
    <3>1. \A r \in Uploads : Owed[r] = reserved[r]
      BY DEF Owed, CountedTwice
    <3> QED BY <3>1, TotalSame DEF Reserved
  <2>5. /\ Used \in Nat /\ Reserved(Uploads) \in Nat /\ Quota \in Nat
        /\ reserved[s] \in Nat /\ size[s] \in Nat
    BY <2>1, SumsAreNumbers
  <2>6. Used + Reserved(Uploads) <= Quota
    BY <1>1, <2>4 DEF QuotaInv, WithinQuota
  <2>7. Used + Reserved(Uploads) - reserved[s] + size[s] <= Quota
    BY <1>1, <2>5, <2>6
  <2> QED BY <2>2, <2>3, <2>7 DEF Fits
<1>2. QuotaInv /\ [Next]_vars =>
        [\A s \in Sessions :
           RefusedAtCommit(s) /\ size[s] <= reserved[s]
           => \E r \in Uploads : CountedTwice(r)]_vars
  BY <1>1
<1> QED BY <1>2, QuotaInvInit, QuotaKept, PTL DEF Spec, ReservationHonoured
=============================================================================
