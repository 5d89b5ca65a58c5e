------------------------ MODULE ContentStore_proofs -------------------------
(***************************************************************************)
(* What ContentStore guarantees for every pool of contents, identifiers    *)
(* and requests.                                                           *)
(***************************************************************************)
EXTENDS ContentStore, FiniteSetTheorems, TLAPS

\* A row has a content, and a request that is being served works on one.
Working(r) == pc[r] \notin {"idle", "done"}
WellFormed ==
  /\ TypeOK
  /\ \A f \in Rows : fileSha[f] \in Contents
  /\ \A r \in Requests : Working(r) => sha[r] \in Contents
  /\ \A p \in Purges :
       Working(p) => file[p] \in FileIDs /\ fileSha[file[p]] = sha[p]

\* Every step keeps the types; the arguments of requests are what makes this
\* inductive.
LEMMA WellFormedInductive ==
  /\ Init => WellFormed
  /\ WellFormed /\ [Next]_vars => WellFormed'
<1>1. Init => WellFormed
  BY NoneIsNoValue DEF Init, WellFormed, Working, TypeOK, Points, Rows, Requests
<1>2. ASSUME WellFormed, [Next]_vars PROVE WellFormed'
  <2> USE <1>2, ActorsAreDistinct, NoneIsNoValue
      DEF WellFormed, Working, TypeOK, Goto, Finish, Points, Requests,
          Rows, blobVars, rowVars
  <2>1. ASSUME NEW u \in Sessions, FinalizeStep(u) PROVE WellFormed'
    <3>1. ASSUME NEW s \in Contents, WriteStorage(u, s) PROVE WellFormed'
      BY <3>1 DEF WriteStorage
    <3>2. CASE RejectCommit(u)
      BY <3>2 DEF RejectCommit, Unlink
    <3>3. CASE AcquireBlob(u)
      BY <3>3 DEF AcquireBlob, IncrBlobRef
    <3>4. CASE DropDuplicate(u)
      BY <3>4 DEF DropDuplicate, Unlink
    <3> QED BY <2>1, <3>1, <3>2, <3>3, <3>4 DEF FinalizeStep
  <2>2. ASSUME NEW c \in Claims, ClaimStep(c) PROVE WellFormed'
    <3>1. ASSUME NEW s \in Contents, LookupBlob(c, s) PROVE WellFormed'
      BY <3>1 DEF LookupBlob
    <3>2. CASE AbandonClaim(c)
      BY <3>2 DEF AbandonClaim
    <3>3. CASE ClaimRef(c)
      BY <3>3 DEF ClaimRef, IncrBlobRef
    <3> QED BY <2>2, <3>1, <3>2, <3>3 DEF ClaimStep
  <2>3. ASSUME NEW r \in Sessions \union Claims, HolderStep(r)
        PROVE WellFormed'
    <3>1. ASSUME NEW f \in FileIDs, PutFile(r, f) PROVE WellFormed'
      BY <3>1 DEF PutFile, InsertRow, Fresh
    <3>2. CASE PutFileFails(r)
      BY <3>2 DEF PutFileFails
    <3>3. CASE RollbackRef(r)
      BY <3>3 DEF RollbackRef, DecrBlobRef
    <3> QED BY <2>3, <3>1, <3>2, <3>3 DEF HolderStep
  <2>4. ASSUME NEW k \in Copies, CopyStep(k) PROVE WellFormed'
    <3>1. ASSUME NEW f \in FileIDs, CopyRead(k, f) PROVE WellFormed'
      BY <3>1 DEF CopyRead
    <3>2. ASSUME NEW f \in FileIDs, CopyPut(k, f) PROVE WellFormed'
      BY <3>2 DEF CopyPut, InsertRow, Fresh
    <3>3. CASE CopyPutFails(k)
      BY <3>3 DEF CopyPutFails
    <3>4. CASE CopyIncr(k)
      BY <3>4 DEF CopyIncr, IncrBlobRef
    <3> QED BY <2>4, <3>1, <3>2, <3>3, <3>4 DEF CopyStep
  <2>5. ASSUME NEW p \in Purges, PurgeStep(p) PROVE WellFormed'
    <3>1. ASSUME NEW f \in FileIDs, PurgeList(p, f) PROVE WellFormed'
      BY <3>1 DEF PurgeList
    <3>2. CASE PurgeRestore(p)
      BY <3>2 DEF PurgeRestore
    <3>3. CASE PurgeDelete(p)
      BY <3>3 DEF PurgeDelete
    <3>4. CASE PurgeDeleteFails(p)
      BY <3>4 DEF PurgeDeleteFails
    <3>5. CASE PurgeDecr(p)
      BY <3>5 DEF PurgeDecr, DecrBlobRef
    <3>6. CASE PurgeCount(p)
      BY <3>6 DEF PurgeCount
    <3>7. CASE PurgeUndo(p)
      BY <3>7 DEF PurgeUndo
    <3>8. CASE PurgeUnlink(p)
      BY <3>8 DEF PurgeUnlink, Unlink
    <3> QED
      BY <2>5, <3>1, <3>2, <3>3, <3>4, <3>5, <3>6, <3>7, <3>8
      DEF PurgeStep
  <2>6. ASSUME NEW f \in FileIDs, Trash(f) \/ Restore(f) PROVE WellFormed'
    BY <2>6 DEF Trash, Restore
  <2>7. CASE Crash
    BY <2>7 DEF Crash
  <2>8. CASE UNCHANGED vars
    BY <2>8 DEF vars
  <2> QED BY <2>1, <2>2, <2>3, <2>4, <2>5, <2>6, <2>7, <2>8 DEF Next
<1> QED BY <1>1, <1>2

\* The variables keep their types: in particular the floor in DecrBlobRef
\* keeps ref_count a natural number, however often it is decremented.
THEOREM TypeCorrect == Spec => []TypeOK
<1>1. WellFormed => TypeOK
  BY DEF WellFormed
<1> QED BY <1>1, WellFormedInductive, PTL DEF Spec

-----------------------------------------------------------------------------
(* The canonical object survives until its count has reached zero.         *)

\* A blob row names the path of a session that keeps the row's content as its
\* argument and has left the steps that delete its own object.
CanonicalPath(s) ==
  blobPath[s] # None =>
    /\ sha[blobPath[s]] = s
    /\ pc[blobPath[s]] \in {"acquired", "rollback", "done"}
    /\ stored[blobPath[s]] \in {s, None}
    /\ s \notin zeroed => stored[blobPath[s]] = s

\* A purge on its way to the unlink has seen, or left, the count at zero.
LicensedUnlink(p) ==
  /\ pc[p] = "counted" /\ refCount[sha[p]] = 0 => sha[p] \in zeroed
  /\ pc[p] = "unlink" => sha[p] \in zeroed

PathInv ==
  /\ WellFormed
  /\ \A u \in Sessions : pc[u] = "written" => stored[u] = sha[u]
  /\ \A s \in Contents : CanonicalPath(s)
  /\ \A p \in Purges : LicensedUnlink(p)

\* Every step keeps PathInv: each handler unlinks its own path before it
\* acquires, and the purge unlinks only what was counted down to zero.
LEMMA PathInvInductive ==
  /\ Init => PathInv
  /\ PathInv /\ [Next]_vars => PathInv'
<1>1. Init => PathInv
  BY WellFormedInductive
  DEF Init, PathInv, CanonicalPath, LicensedUnlink, Requests
<1>2. ASSUME PathInv, [Next]_vars PROVE PathInv'
  <2>1. WellFormed /\ WellFormed'
    BY <1>2, WellFormedInductive DEF PathInv
  <2> DEFINE Rest == /\ \A u \in Sessions : pc[u] = "written" => stored[u] = sha[u]
                     /\ \A s \in Contents : CanonicalPath(s)
                     /\ \A p \in Purges : LicensedUnlink(p)
  <2> SUFFICES Rest'
    BY <2>1 DEF PathInv
  <2> USE <1>2, <2>1, ActorsAreDistinct, NoneIsNoValue
      DEF PathInv, CanonicalPath, LicensedUnlink, WellFormed, Working, TypeOK,
          Goto, Finish, Requests, blobVars, rowVars
  <2>2. ASSUME NEW u \in Sessions, FinalizeStep(u) PROVE Rest'
    <3>1. ASSUME NEW s \in Contents, WriteStorage(u, s) PROVE Rest'
      BY <3>1 DEF WriteStorage
    <3>2. CASE RejectCommit(u)
      BY <3>2 DEF RejectCommit, Unlink
    <3>3. CASE AcquireBlob(u)
      BY <3>3 DEF AcquireBlob, IncrBlobRef
    <3>4. CASE DropDuplicate(u)
      BY <3>4 DEF DropDuplicate, Unlink
    <3> QED BY <2>2, <3>1, <3>2, <3>3, <3>4 DEF FinalizeStep
  <2>3. ASSUME NEW c \in Claims, ClaimStep(c) PROVE Rest'
    <3>1. ASSUME NEW s \in Contents, LookupBlob(c, s) PROVE Rest'
      BY <3>1 DEF LookupBlob
    <3>2. CASE AbandonClaim(c)
      BY <3>2 DEF AbandonClaim
    <3>3. CASE ClaimRef(c)
      BY <3>3 DEF ClaimRef, IncrBlobRef
    <3> QED BY <2>3, <3>1, <3>2, <3>3 DEF ClaimStep
  <2>4. ASSUME NEW r \in Sessions \union Claims, HolderStep(r) PROVE Rest'
    <3>1. ASSUME NEW f \in FileIDs, PutFile(r, f) PROVE Rest'
      BY <3>1 DEF PutFile, InsertRow
    <3>2. CASE PutFileFails(r)
      BY <3>2 DEF PutFileFails
    <3>3. CASE RollbackRef(r)
      BY <3>3 DEF RollbackRef, DecrBlobRef
    <3> QED BY <2>4, <3>1, <3>2, <3>3 DEF HolderStep
  <2>5. ASSUME NEW k \in Copies, CopyStep(k) PROVE Rest'
    <3>1. ASSUME NEW f \in FileIDs, CopyRead(k, f) PROVE Rest'
      BY <3>1 DEF CopyRead
    <3>2. ASSUME NEW f \in FileIDs, CopyPut(k, f) PROVE Rest'
      BY <3>2 DEF CopyPut, InsertRow
    <3>3. CASE CopyPutFails(k)
      BY <3>3 DEF CopyPutFails
    <3>4. CASE CopyIncr(k)
      BY <3>4 DEF CopyIncr, IncrBlobRef
    <3> QED BY <2>5, <3>1, <3>2, <3>3, <3>4 DEF CopyStep
  <2>6. ASSUME NEW p \in Purges, PurgeStep(p) PROVE Rest'
    <3>1. ASSUME NEW f \in FileIDs, PurgeList(p, f) PROVE Rest'
      BY <3>1 DEF PurgeList
    <3>2. CASE PurgeRestore(p)
      BY <3>2 DEF PurgeRestore
    <3>3. CASE PurgeDelete(p)
      BY <3>3 DEF PurgeDelete
    <3>4. CASE PurgeDeleteFails(p)
      BY <3>4 DEF PurgeDeleteFails
    <3>5. CASE PurgeDecr(p)
      BY <3>5 DEF PurgeDecr, DecrBlobRef
    <3>6. CASE PurgeCount(p)
      BY <3>6 DEF PurgeCount
    <3>7. CASE PurgeUndo(p)
      BY <3>7 DEF PurgeUndo
    <3>8. CASE PurgeUnlink(p)
      BY <3>8 DEF PurgeUnlink, Unlink
    <3> QED
      BY <2>6, <3>1, <3>2, <3>3, <3>4, <3>5, <3>6, <3>7, <3>8
      DEF PurgeStep
  <2>7. ASSUME NEW f \in FileIDs, Trash(f) \/ Restore(f) PROVE Rest'
    BY <2>7 DEF Trash, Restore
  <2>8. CASE Crash
    BY <2>8 DEF Crash
  <2>9. CASE UNCHANGED vars
    BY <2>9 DEF vars
  <2> QED BY <2>2, <2>3, <2>4, <2>5, <2>6, <2>7, <2>8, <2>9 DEF Next
<1> QED BY <1>1, <1>2

\* With any number of requests of every kind and under every fault, the
\* object a blob row names stays in the store until the count of the blob has
\* once been brought to zero.
THEOREM ContentKeptUntilZero == Spec => []KeptUntilZero
<1>1. PathInv => KeptUntilZero
  BY DEF PathInv, CanonicalPath, KeptUntilZero
<1> QED BY <1>1, PathInvInductive, PTL DEF Spec

\* No request ever puts another content at the path a blob row names.
THEOREM PathHoldsItsContent == Spec => []CanonicalContent
<1>1. PathInv => CanonicalContent
  BY DEF PathInv, CanonicalPath, CanonicalContent
<1> QED BY <1>1, PathInvInductive, PTL DEF Spec

-----------------------------------------------------------------------------
(* The count covers the holders, when references are taken before rows.    *)

\* What the requests that follow the code's reference discipline amount to:
\* no BatchCopy, which inserts its row first; one purge at a time, because
\* two purges of a row both give its reference back; and no failure of the
\* SELECT that follows a decrement, which is not undone.
Disciplined ==
  /\ Copies = {}
  /\ \A p, q \in Purges : p = q
  /\ "countRead" \notin Faults

\* Only a content with a blob row is claimed, counted or named by a file row,
\* and a purge knows whether its row is there.
Bookkeeping ==
  /\ \A s \in Contents : blobPath[s] = None => refCount[s] = 0
  /\ \A c \in Claims : pc[c] = "found" => blobPath[sha[c]] # None
  /\ \A r \in Requests : pc[r] \in Holding => blobPath[sha[r]] # None
  /\ \A f \in Rows : blobPath[fileSha[f]] # None
  /\ \A p \in Purges : /\ pc[p] = "restored" => file[p] \in Rows
                       /\ pc[p] \in {"deleted", "undo"} => file[p] \notin Rows

CountInv == WellFormed /\ NeverUndercounted /\ Bookkeeping

\* One element more makes a set larger by at most one.
LEMMA OneMore ==
  ASSUME NEW S, IsFiniteSet(S), NEW x
  PROVE  /\ IsFiniteSet(S \union {x})
         /\ Cardinality(S \union {x}) <= Cardinality(S) + 1
<1>1. Cardinality(S) \in Nat
  BY FS_CardinalityType
<1>2. CASE x \in S
  <2> DEFINE T == S \union {x}
  <2>1. T = S
    BY <1>2
  <2> HIDE DEF T
  <2>2. IsFiniteSet(T) /\ Cardinality(T) <= Cardinality(S) + 1
    BY <1>1, <2>1
  <2> QED BY <2>2 DEF T
<1>3. CASE x \notin S
  <2> DEFINE T == S \union {x}
  <2>1. IsFiniteSet(T) /\ Cardinality(T) = Cardinality(S) + 1
    BY <1>3, FS_AddElement
  <2> HIDE DEF T
  <2>2. IsFiniteSet(T) /\ Cardinality(T) <= Cardinality(S) + 1
    BY <1>1, <2>1
  <2> QED BY <2>2 DEF T
<1> QED BY <1>2, <1>3

\* How the size of a set answers to the steps a set of holders takes.
LEMMA SizeOfStep ==
  ASSUME NEW A, IsFiniteSet(A), NEW B
  PROVE  /\ Cardinality(A) \in Nat
         /\ B \subseteq A => Cardinality(B) <= Cardinality(A)
         /\ \A x : B \subseteq A \union {x} => Cardinality(B) <= Cardinality(A) + 1
         /\ \A x \in A : B \subseteq A \ {x} => Cardinality(B) <= Cardinality(A) - 1
         /\ \A x \in A : \A y :
              B \subseteq (A \ {x}) \union {y} => Cardinality(B) <= Cardinality(A)
<1>1. Cardinality(A) \in Nat
  BY FS_CardinalityType
<1>2. B \subseteq A => Cardinality(B) <= Cardinality(A)
  BY FS_Subset
<1>3. ASSUME NEW x, B \subseteq A \union {x}
      PROVE  Cardinality(B) <= Cardinality(A) + 1
  <2>1. IsFiniteSet(A \union {x}) /\ Cardinality(A \union {x}) <= Cardinality(A) + 1
    BY OneMore
  <2>2. Cardinality(B) <= Cardinality(A \union {x}) /\ IsFiniteSet(B)
    BY <1>3, <2>1, FS_Subset
  <2> QED
    BY <1>1, <2>1, <2>2, FS_CardinalityType
<1>4. ASSUME NEW x \in A
      PROVE  /\ IsFiniteSet(A \ {x})
             /\ Cardinality(A \ {x}) = Cardinality(A) - 1
  BY FS_RemoveElement
<1>5. ASSUME NEW x \in A, B \subseteq A \ {x}
      PROVE  Cardinality(B) <= Cardinality(A) - 1
  <2> DEFINE C == A \ {x}
  <2>1. IsFiniteSet(C) /\ Cardinality(C) = Cardinality(A) - 1 /\ B \subseteq C
    BY <1>4, <1>5
  <2> HIDE DEF C
  <2> QED BY <2>1, FS_Subset
<1>6. ASSUME NEW x \in A, NEW y, B \subseteq (A \ {x}) \union {y}
      PROVE  Cardinality(B) <= Cardinality(A)
  <2> DEFINE C == A \ {x}
  <2>1. IsFiniteSet(C) /\ Cardinality(C) = Cardinality(A) - 1
    BY <1>4
  <2>2. IsFiniteSet(C \union {y}) /\ Cardinality(C \union {y}) <= Cardinality(C) + 1
    <3> HIDE DEF C
    <3> QED BY <2>1, OneMore
  <2>3. B \subseteq C \union {y}
    BY <1>6
  <2>4. Cardinality(B) <= Cardinality(C \union {y}) /\ IsFiniteSet(B)
    <3> HIDE DEF C
    <3> QED BY <2>2, <2>3, FS_Subset
  <2>5. Cardinality(B) \in Nat /\ Cardinality(C \union {y}) \in Nat
    <3> HIDE DEF C
    <3> QED BY <2>2, <2>4, FS_CardinalityType
  <2> QED
    <3> HIDE DEF C
    <3> QED BY <1>1, <2>1, <2>2, <2>4, <2>5
<1> QED BY <1>1, <1>2, <1>3, <1>5, <1>6

\* Holders are rows and requests, both finite.
LEMMA HoldersFinite ==
  ASSUME TypeOK, NEW s PROVE IsFiniteSet(Holders(s))
<1>1. Holders(s) \subseteq FileIDs \union Requests
  BY DEF Holders, Rows, TypeOK
<1>2. IsFiniteSet(FileIDs \union Requests)
  BY PoolsAreFinite, FS_Union
<1> QED BY <1>1, <1>2, FS_Subset

\* Every step keeps the bookkeeping, if one purge runs at a time.
LEMMA BookkeepingKept ==
  ASSUME Disciplined, CountInv, [Next]_vars, WellFormed'
  PROVE  Bookkeeping'
<1> USE ActorsAreDistinct, NoneIsNoValue
    DEF Disciplined, CountInv, Bookkeeping, WellFormed, Working, TypeOK, Goto,
        Finish, Requests, Rows, Holding, blobVars, rowVars
<1>1. ASSUME NEW u \in Sessions, FinalizeStep(u) PROVE Bookkeeping'
  <2>1. ASSUME NEW s \in Contents, WriteStorage(u, s) PROVE Bookkeeping'
    BY <2>1 DEF WriteStorage
  <2>2. CASE RejectCommit(u)
    BY <2>2 DEF RejectCommit
  <2>3. CASE AcquireBlob(u)
    BY <2>3 DEF AcquireBlob, IncrBlobRef
  <2>4. CASE DropDuplicate(u)
    BY <2>4 DEF DropDuplicate
  <2> QED BY <1>1, <2>1, <2>2, <2>3, <2>4 DEF FinalizeStep
<1>2. ASSUME NEW c \in Claims, ClaimStep(c) PROVE Bookkeeping'
  <2>1. ASSUME NEW s \in Contents, LookupBlob(c, s) PROVE Bookkeeping'
    BY <2>1 DEF LookupBlob
  <2>2. CASE AbandonClaim(c)
    BY <2>2 DEF AbandonClaim
  <2>3. CASE ClaimRef(c)
    BY <2>3 DEF ClaimRef, IncrBlobRef
  <2> QED BY <1>2, <2>1, <2>2, <2>3 DEF ClaimStep
<1>3. ASSUME NEW r \in Sessions \union Claims, HolderStep(r)
      PROVE  Bookkeeping'
  <2>1. ASSUME NEW f \in FileIDs, PutFile(r, f) PROVE Bookkeeping'
    BY <2>1 DEF PutFile, InsertRow, Fresh
  <2>2. CASE PutFileFails(r)
    BY <2>2 DEF PutFileFails
  <2>3. CASE RollbackRef(r)
    BY <2>3 DEF RollbackRef, DecrBlobRef
  <2> QED BY <1>3, <2>1, <2>2, <2>3 DEF HolderStep
<1>4. ASSUME NEW p \in Purges, PurgeStep(p) PROVE Bookkeeping'
  <2>1. ASSUME NEW f \in FileIDs, PurgeList(p, f) PROVE Bookkeeping'
    BY <2>1 DEF PurgeList
  <2>2. CASE PurgeRestore(p)
    BY <2>2 DEF PurgeRestore
  <2>3. CASE PurgeDelete(p)
    BY <2>3 DEF PurgeDelete
  <2>4. CASE PurgeDeleteFails(p)
    BY <2>4 DEF PurgeDeleteFails
  <2>5. CASE PurgeDecr(p)
    BY <2>5 DEF PurgeDecr, DecrBlobRef
  <2>6. CASE PurgeCount(p)
    BY <2>6 DEF PurgeCount
  <2>7. CASE PurgeUndo(p)
    BY <2>7 DEF PurgeUndo
  <2>8. CASE PurgeUnlink(p)
    BY <2>8 DEF PurgeUnlink
  <2> QED
    BY <1>4, <2>1, <2>2, <2>3, <2>4, <2>5, <2>6, <2>7, <2>8 DEF PurgeStep
<1>5. ASSUME NEW f \in FileIDs, Trash(f) \/ Restore(f) PROVE Bookkeeping'
  BY <1>5 DEF Trash, Restore
<1>6. CASE Crash
  BY <1>6 DEF Crash
<1>7. CASE UNCHANGED vars
  BY <1>7 DEF vars
<1>8. ~ \E k \in Copies : CopyStep(k)
  BY DEF Disciplined
<1> QED BY <1>1, <1>2, <1>3, <1>4, <1>5, <1>6, <1>7, <1>8 DEF Next

\* Every step keeps the count of a content at or above its holders: a step
\* that adds a holder counts it first, and only a holder is uncounted.
LEMMA CountKept ==
  ASSUME Disciplined, CountInv, [Next]_vars, WellFormed', NEW t \in Contents
  PROVE  Cardinality(Holders(t)') <= refCount'[t]
<1> DEFINE A == Holders(t)
           B == Holders(t)'
           Covered == Cardinality(B) <= refCount'[t]
           Keeps == B \subseteq A /\ refCount'[t] >= refCount[t]
           Adds(x) == B \subseteq A \union {x} /\ refCount'[t] = refCount[t] + 1
           Drops(x) == /\ x \in A /\ B \subseteq A \ {x}
                       /\ refCount'[t] >= refCount[t] - 1
           Swaps(x, y) == /\ x \in A /\ B \subseteq (A \ {x}) \union {y}
                          /\ refCount'[t] >= refCount[t]
<1>1. IsFiniteSet(A)
  BY HoldersFinite DEF CountInv, WellFormed
<1>2. /\ refCount[t] \in Nat
      /\ refCount'[t] \in Nat
      /\ Cardinality(A) \in Nat
      /\ Cardinality(A) <= refCount[t]
  BY <1>1, FS_CardinalityType DEF CountInv, NeverUndercounted, WellFormed, TypeOK
\* The four ways a step may change the holders and the count together.
<1>3. Keeps => Covered
  <2> HIDE DEF A, B
  <2> QED BY <1>1, <1>2, SizeOfStep, FS_Subset, FS_CardinalityType
<1>4. \A x : Adds(x) => Covered
  <2> SUFFICES ASSUME NEW x, Adds(x) PROVE Covered
    OBVIOUS
  <2> HIDE DEF A, B
  <2>1. IsFiniteSet(B) /\ Cardinality(B) \in Nat
    BY <1>1, FS_AddElement, FS_Subset, FS_CardinalityType
  <2>2. Cardinality(B) <= Cardinality(A) + 1
    BY <1>1, SizeOfStep
  <2> QED BY <1>2, <2>1, <2>2
<1>5. \A x : Drops(x) => Covered
  <2> SUFFICES ASSUME NEW x, Drops(x) PROVE Covered
    OBVIOUS
  <2> HIDE DEF A, B
  <2>1. IsFiniteSet(B) /\ Cardinality(B) \in Nat
    BY <1>1, FS_Subset, FS_CardinalityType
  <2>2. Cardinality(B) <= Cardinality(A) - 1
    BY <1>1, SizeOfStep
  <2> QED BY <1>2, <2>1, <2>2
<1>6. \A x, y : Swaps(x, y) => Covered
  <2> SUFFICES ASSUME NEW x, NEW y, Swaps(x, y) PROVE Covered
    OBVIOUS
  <2> HIDE DEF A, B
  <2>1. IsFiniteSet(B) /\ Cardinality(B) \in Nat
    BY <1>1, FS_AddElement, FS_Subset, FS_CardinalityType
  <2>2. Cardinality(B) <= Cardinality(A)
    BY <1>1, SizeOfStep
  <2> QED BY <1>2, <2>1, <2>2
<1> HIDE DEF Covered, Keeps, Adds, Drops, Swaps
<1> USE <1>2, ActorsAreDistinct, NoneIsNoValue
    DEF CountInv, Bookkeeping, WellFormed, Working, TypeOK, Goto, Finish, Requests, Rows,
        Holding, Holders, blobVars, rowVars
<1>7. ASSUME NEW u \in Sessions, FinalizeStep(u) PROVE Covered
  <2>1. ASSUME NEW s \in Contents, WriteStorage(u, s) PROVE Covered
    <3>1. Keeps
      BY <2>1 DEF Keeps, WriteStorage
    <3> QED BY <3>1, <1>3
  <2>2. CASE RejectCommit(u)
    <3>1. Keeps
      BY <2>2 DEF Keeps, RejectCommit
    <3> QED BY <3>1, <1>3
  <2>3. CASE AcquireBlob(u)
    <3>1. CASE t = sha[u]
      <4>1. Adds(u)
        BY <2>3, <3>1 DEF Adds, AcquireBlob, IncrBlobRef
      <4> QED BY <4>1, <1>4
    <3>2. CASE t # sha[u]
      <4>1. Keeps
        BY <2>3, <3>2 DEF Keeps, AcquireBlob, IncrBlobRef
      <4> QED BY <4>1, <1>3
    <3> QED BY <3>1, <3>2
  <2>4. CASE DropDuplicate(u)
    <3>1. Keeps
      BY <2>4 DEF Keeps, DropDuplicate
    <3> QED BY <3>1, <1>3
  <2> QED BY <1>7, <2>1, <2>2, <2>3, <2>4 DEF FinalizeStep
<1>8. ASSUME NEW c \in Claims, ClaimStep(c) PROVE Covered
  <2>1. ASSUME NEW s \in Contents, LookupBlob(c, s) PROVE Covered
    <3>1. Keeps
      BY <2>1 DEF Keeps, LookupBlob
    <3> QED BY <3>1, <1>3
  <2>2. CASE AbandonClaim(c)
    <3>1. Keeps
      BY <2>2 DEF Keeps, AbandonClaim
    <3> QED BY <3>1, <1>3
  <2>3. CASE ClaimRef(c)
    <3>1. CASE t = sha[c]
      <4>1. Adds(c)
        BY <2>3, <3>1 DEF Adds, ClaimRef, IncrBlobRef
      <4> QED BY <4>1, <1>4
    <3>2. CASE t # sha[c]
      <4>1. Keeps
        BY <2>3, <3>2 DEF Keeps, ClaimRef, IncrBlobRef
      <4> QED BY <4>1, <1>3
    <3> QED BY <3>1, <3>2
  <2> QED BY <1>8, <2>1, <2>2, <2>3 DEF ClaimStep
<1>9. ASSUME NEW r \in Sessions \union Claims, HolderStep(r) PROVE Covered
  <2>1. ASSUME NEW f \in FileIDs, PutFile(r, f) PROVE Covered
    <3>1. CASE t = sha[r]
      <4>1. Swaps(r, f)
        BY <2>1, <3>1 DEF Swaps, PutFile, InsertRow, Fresh
      <4> QED BY <4>1, <1>6
    <3>2. CASE t # sha[r]
      <4>1. Keeps
        BY <2>1, <3>2 DEF Keeps, PutFile, InsertRow, Fresh
      <4> QED BY <4>1, <1>3
    <3> QED BY <3>1, <3>2
  <2>2. CASE PutFileFails(r)
    <3>1. Keeps
      BY <2>2 DEF Keeps, PutFileFails
    <3> QED BY <3>1, <1>3
  <2>3. CASE RollbackRef(r)
    <3>1. CASE t = sha[r]
      <4>1. Drops(r)
        BY <2>3, <3>1 DEF Drops, RollbackRef, DecrBlobRef
      <4> QED BY <4>1, <1>5
    <3>2. CASE t # sha[r]
      <4>1. Keeps
        BY <2>3, <3>2 DEF Keeps, RollbackRef, DecrBlobRef
      <4> QED BY <4>1, <1>3
    <3> QED BY <3>1, <3>2
  <2> QED BY <1>9, <2>1, <2>2, <2>3 DEF HolderStep
<1>10. ASSUME NEW p \in Purges, PurgeStep(p) PROVE Covered
  <2>1. ASSUME NEW f \in FileIDs, PurgeList(p, f) PROVE Covered
    <3>1. Keeps
      BY <2>1 DEF Keeps, PurgeList
    <3> QED BY <3>1, <1>3
  <2>2. CASE PurgeRestore(p)
    <3>1. Keeps
      BY <2>2 DEF Keeps, PurgeRestore
    <3> QED BY <3>1, <1>3
  <2>3. CASE PurgeDelete(p)
    <3>1. CASE t = sha[p]
      <4>1. Swaps(file[p], p)
        BY <2>3, <3>1 DEF Swaps, PurgeDelete
      <4> QED BY <4>1, <1>6
    <3>2. CASE t # sha[p]
      <4>1. Keeps
        BY <2>3, <3>2 DEF Keeps, PurgeDelete
      <4> QED BY <4>1, <1>3
    <3> QED BY <3>1, <3>2
  <2>4. CASE PurgeDeleteFails(p)
    <3>1. Keeps
      BY <2>4 DEF Keeps, PurgeDeleteFails
    <3> QED BY <3>1, <1>3
  <2>5. CASE PurgeDecr(p)
    <3>1. CASE pc'[p] = "counted" /\ t = sha[p]
      <4>1. Drops(p)
        BY <2>5, <3>1 DEF Drops, PurgeDecr, DecrBlobRef
      <4> QED BY <4>1, <1>5
    <3>2. CASE ~ (pc'[p] = "counted" /\ t = sha[p])
      <4>1. Keeps
        BY <2>5, <3>2 DEF Keeps, PurgeDecr, DecrBlobRef
      <4> QED BY <4>1, <1>3
    <3> QED BY <3>1, <3>2
  <2>6. CASE PurgeCount(p)
    <3>1. Keeps
      BY <2>6 DEF Keeps, PurgeCount, Disciplined
    <3> QED BY <3>1, <1>3
  <2>7. CASE PurgeUndo(p)
    <3>1. CASE t = sha[p]
      <4>1. PICK f : f = file[p]
        OBVIOUS
      <4>2. Swaps(p, f)
        BY <4>1, <2>7, <3>1 DEF Swaps, PurgeUndo
      <4> QED BY <4>2, <1>6
    <3>2. CASE t # sha[p]
      <4>1. Keeps
        BY <2>7, <3>2 DEF Keeps, PurgeUndo
      <4> QED BY <4>1, <1>3
    <3> QED BY <3>1, <3>2
  <2>8. CASE PurgeUnlink(p)
    <3>1. Keeps
      BY <2>8 DEF Keeps, PurgeUnlink
    <3> QED BY <3>1, <1>3
  <2> QED
    BY <1>10, <2>1, <2>2, <2>3, <2>4, <2>5, <2>6, <2>7, <2>8 DEF PurgeStep
<1>11. ASSUME NEW f \in FileIDs, Trash(f) \/ Restore(f) PROVE Covered
  <2>1. Keeps
    BY <1>11 DEF Keeps, Trash, Restore
  <2> QED BY <2>1, <1>3
<1>12. ASSUME Crash PROVE Covered
  <2>1. Keeps
    BY <1>12 DEF Keeps, Crash
  <2> QED BY <2>1, <1>3
<1>13. ASSUME UNCHANGED vars PROVE Covered
  <2>1. Keeps
    BY <1>13 DEF Keeps, vars
  <2> QED BY <2>1, <1>3
<1>14. ~ \E k \in Copies : CopyStep(k)
  BY DEF Disciplined
<1>15. Covered
  BY <1>7, <1>8, <1>9, <1>10, <1>11, <1>12, <1>13, <1>14 DEF Next
<1> QED BY <1>15 DEF Covered

LEMMA CountInvInductive ==
  ASSUME Disciplined
  PROVE  /\ Init => CountInv
         /\ CountInv /\ [Next]_vars => CountInv'
<1>1. ASSUME Init PROVE CountInv
  <2>1. WellFormed
    BY <1>1, WellFormedInductive
  <2>2. \A s \in Contents : Holders(s) = {}
    BY <1>1 DEF Init, Holders, Rows, Holding
  <2>3. NeverUndercounted
    BY <1>1, <2>2, FS_EmptySet DEF Init, NeverUndercounted
  <2>4. Bookkeeping
    BY <1>1 DEF Init, Bookkeeping, Holding, Requests, Rows
  <2> QED BY <2>1, <2>3, <2>4 DEF CountInv
<1>2. ASSUME CountInv, [Next]_vars PROVE CountInv'
  <2>1. WellFormed'
    BY <1>2, WellFormedInductive DEF CountInv
  <2>2. Bookkeeping'
    BY <1>2, <2>1, BookkeepingKept
  <2>3. NeverUndercounted'
    BY <1>2, <2>1, CountKept DEF NeverUndercounted
  <2> QED BY <2>1, <2>2, <2>3 DEF CountInv
<1> QED BY <1>1, <1>2

\* Under the discipline, and whatever else fails or crashes, ref_count is
\* never below the number of rows and requests that hold the content.
THEOREM CountCoversHolders ==
  ASSUME Disciplined PROVE Spec => []NeverUndercounted
<1>1. CountInv => NeverUndercounted
  BY DEF CountInv
<1> QED BY <1>1, CountInvInductive, PTL DEF Spec

\* Hence no row, live or in the trash, has a content that counts as unused.
THEOREM EveryRowCounted ==
  ASSUME Disciplined PROVE Spec => []RowsCounted
<1>1. ASSUME CountInv PROVE RowsCounted
  <2> SUFFICES ASSUME NEW f \in Rows PROVE refCount[fileSha[f]] > 0
    BY DEF RowsCounted
  <2>1. fileSha[f] \in Contents /\ f \in Holders(fileSha[f])
    BY <1>1 DEF CountInv, WellFormed, Holders
  <2>2. IsFiniteSet(Holders(fileSha[f]))
    BY <1>1, HoldersFinite DEF CountInv, WellFormed
  <2>3. Cardinality(Holders(fileSha[f])) \in Nat \ {0}
    BY <2>1, <2>2, FS_CardinalityType, FS_EmptySet
  <2> QED
    BY <1>1, <2>1, <2>3 DEF CountInv, NeverUndercounted, WellFormed, TypeOK
<1> QED BY <1>1, CountInvInductive, PTL DEF Spec

\* A count of zero means that nobody holds the content.
Unheld(s)  == refCount[s] = 0 => Holders(s) = {}
AllUnheld  == \A s \in Contents : Unheld(s)

LEMMA UncountedIsUnheld ==
  ASSUME CountInv PROVE AllUnheld
<1> SUFFICES ASSUME NEW s \in Contents, refCount[s] = 0
             PROVE  Holders(s) = {}
  BY DEF AllUnheld, Unheld
<1>1. IsFiniteSet(Holders(s)) /\ Cardinality(Holders(s)) <= 0
  BY HoldersFinite DEF CountInv, WellFormed, NeverUndercounted
<1> QED BY <1>1, FS_CardinalityType, FS_EmptySet

-----------------------------------------------------------------------------
(* The store implements SharedContent.                                     *)

StoreInv == PathInv /\ CountInv

\* What a step of SharedContent is in the terms of the store: each of its
\* actions, and the stutter, spelled out content by content.
LEMMA StepsOfThePromise ==
  ASSUME TypeOK, TypeOK'
  PROVE  /\ /\ \A s \in Contents : Holders(s)' = Holders(s)
            /\ \A s \in Contents : Stored(s)' <=> Stored(s)
            /\ zeroed' = zeroed
            => UNCHANGED Promise!content
         /\ \A t \in Contents, h \in FileIDs \union Requests :
              /\ Holders(t)' = Holders(t) \union {h}
              /\ \A s \in Contents \ {t} : Holders(s)' = Holders(s)
              /\ \A s \in Contents \ {t} : Stored(s)' <=> Stored(s)
              /\ Stored(t)' \/ (t \in zeroed /\ ~ Stored(t))
              /\ zeroed' = zeroed
              => Promise!Next
         /\ \A t \in Contents, h, g \in FileIDs \union Requests :
              /\ h \in Holders(t)
              /\ Holders(t)' = (Holders(t) \ {h}) \union {g}
              /\ \A s \in Contents \ {t} : Holders(s)' = Holders(s)
              /\ \A s \in Contents : Stored(s)' <=> Stored(s)
              /\ zeroed' = zeroed
              => Promise!Next
         /\ /\ \A s \in Contents : Holders(s)' \subseteq Holders(s)
            /\ \A s \in Contents : Stored(s)' <=> Stored(s)
            /\ zeroed \subseteq zeroed'
            /\ \A s \in zeroed' \ zeroed : Holders(s)' = {}
            => Promise!Next
         /\ \A t \in zeroed :
              /\ \A s \in Contents : Holders(s)' = Holders(s)
              /\ \A s \in Contents \ {t} : Stored(s)' <=> Stored(s)
              /\ ~ Stored(t)'
              /\ zeroed' = zeroed
              => Promise!Next
<1>1. /\ \A s \in Contents : Holders(s) \subseteq FileIDs \union Requests
      /\ \A s \in Contents : Holders(s)' \subseteq FileIDs \union Requests
      /\ zeroed \subseteq Contents /\ zeroed' \subseteq Contents
  BY DEF Holders, Rows, TypeOK
<1>2. /\ \A s \in Contents : Holders(s)' = Holders(s)
      /\ \A s \in Contents : Stored(s)' <=> Stored(s)
      /\ zeroed' = zeroed
      => UNCHANGED Promise!content
  BY DEF Promise!content
<1>3. ASSUME NEW t \in Contents, NEW h \in FileIDs \union Requests,
             Holders(t)' = Holders(t) \union {h},
             \A s \in Contents \ {t} : Holders(s)' = Holders(s),
             \A s \in Contents \ {t} : Stored(s)' <=> Stored(s),
             Stored(t)' \/ (t \in zeroed /\ ~ Stored(t)),
             zeroed' = zeroed
      PROVE  Promise!Next
  <2>1. Promise!Take(t, h)
    BY <1>3 DEF Promise!Take
  <2> QED BY <2>1 DEF Promise!Next
<1>4. ASSUME NEW t \in Contents,
             NEW h \in FileIDs \union Requests, NEW g \in FileIDs \union Requests,
             h \in Holders(t),
             Holders(t)' = (Holders(t) \ {h}) \union {g},
             \A s \in Contents \ {t} : Holders(s)' = Holders(s),
             \A s \in Contents : Stored(s)' <=> Stored(s),
             zeroed' = zeroed
      PROVE  Promise!Next
  <2>1. Promise!Pass(t, h, g)
    BY <1>4 DEF Promise!Pass
  <2> QED BY <2>1 DEF Promise!Next
<1>5. ASSUME \A s \in Contents : Holders(s)' \subseteq Holders(s),
             \A s \in Contents : Stored(s)' <=> Stored(s),
             zeroed \subseteq zeroed',
             \A s \in zeroed' \ zeroed : Holders(s)' = {}
      PROVE  Promise!Next
  <2>1. Promise!Leave
    BY <1>1, <1>5 DEF Promise!Leave
  <2> QED BY <2>1 DEF Promise!Next
<1>6. ASSUME NEW t \in zeroed,
             \A s \in Contents : Holders(s)' = Holders(s),
             \A s \in Contents \ {t} : Stored(s)' <=> Stored(s),
             ~ Stored(t)',
             zeroed' = zeroed
      PROVE  Promise!Next
  <2>1. Promise!Reclaim(t)
    BY <1>1, <1>6 DEF Promise!Reclaim
  <2> QED BY <1>1, <2>1 DEF Promise!Next
<1> QED BY <1>2, <1>3, <1>4, <1>5, <1>6

\* Every step is a step of SharedContent or a stutter: AcquireBlob and
\* ClaimRef take, PutFile, PurgeDelete and PurgeUndo hand on, RollbackRef,
\* PurgeDecr and Crash leave, PurgeUnlink reclaims.
LEMMA StepKeepsPromise ==
  ASSUME Disciplined, StoreInv, StoreInv', AllUnheld', [Next]_vars
  PROVE  [Promise!Next]_(Promise!content)
<1> DEFINE Goal == [Promise!Next]_(Promise!content)
           SameHolders == \A s \in Contents : Holders(s)' = Holders(s)
           SameStored  == \A s \in Contents : Stored(s)' <=> Stored(s)
           Others(t)   == \A s \in Contents \ {t} : Holders(s)' = Holders(s)
           Stutters    == SameHolders /\ SameStored /\ zeroed' = zeroed
           Takes(t, h) ==
             /\ t \in Contents /\ h \in FileIDs \union Requests
             /\ Holders(t)' = Holders(t) \union {h}
             /\ Others(t)
             /\ \A s \in Contents \ {t} : Stored(s)' <=> Stored(s)
             /\ Stored(t)' \/ (t \in zeroed /\ ~ Stored(t))
             /\ zeroed' = zeroed
           Passes(t, h, g) ==
             /\ t \in Contents
             /\ h \in FileIDs \union Requests /\ g \in FileIDs \union Requests
             /\ h \in Holders(t)
             /\ Holders(t)' = (Holders(t) \ {h}) \union {g}
             /\ Others(t) /\ SameStored /\ zeroed' = zeroed
           Leaves ==
             /\ \A s \in Contents : Holders(s)' \subseteq Holders(s)
             /\ SameStored /\ zeroed \subseteq zeroed'
             /\ \A s \in zeroed' \ zeroed : Holders(s)' = {}
           Reclaims(t) ==
             /\ t \in zeroed /\ SameHolders
             /\ \A s \in Contents \ {t} : Stored(s)' <=> Stored(s)
             /\ ~ Stored(t)'
             /\ zeroed' = zeroed
<1>1. TypeOK /\ TypeOK' /\ WellFormed /\ WellFormed'
  BY DEF StoreInv, PathInv, WellFormed
<1>2. Stutters => Goal
  BY <1>1, StepsOfThePromise
<1>3. \A t, h : Takes(t, h) => Goal
  BY <1>1, StepsOfThePromise
<1>4. \A t, h, g : Passes(t, h, g) => Goal
  BY <1>1, StepsOfThePromise
<1>5. Leaves => Goal
  BY <1>1, StepsOfThePromise
<1>6. \A t : Reclaims(t) => Goal
  BY <1>1, StepsOfThePromise
<1> HIDE DEF Goal, Stutters, Takes, Passes, Leaves, Reclaims
<1>u. ASSUME NEW u \in Sessions, pc[u] \in {"idle", "written", "duplicate"}
      PROVE  \A s \in Contents : blobPath[s] # u
  BY <1>u, NoneIsNoValue DEF StoreInv, PathInv, CanonicalPath
<1>w. \A u \in Sessions : pc[u] = "written" => stored[u] = sha[u]
  BY DEF StoreInv, PathInv
<1>c. \A s \in Contents : blobPath[s] # None =>
        stored[blobPath[s]] \in {s, None} /\ (s \notin zeroed => stored[blobPath[s]] = s)
  BY DEF StoreInv, PathInv, CanonicalPath
<1>d. \A c \in Claims : pc[c] = "found" => blobPath[sha[c]] # None
  BY DEF StoreInv, CountInv, Bookkeeping
<1>e. \A p \in Purges : /\ pc[p] = "restored" => file[p] \in Rows
                        /\ pc[p] = "unlink" => sha[p] \in zeroed
  BY DEF StoreInv, PathInv, CountInv, Bookkeeping, LicensedUnlink
<1>g. ASSUME NEW s \in Contents, NEW t \in Contents, blobPath[s] # None, blobPath[s] = blobPath[t]
      PROVE  s = t
  BY <1>g DEF StoreInv, PathInv, CanonicalPath
<1> USE <1>1, ActorsAreDistinct, NoneIsNoValue
    DEF WellFormed, Working, TypeOK, Goto, Finish, Requests, Rows, Holding,
        Holders, Stored, blobVars, rowVars
<1>7. ASSUME NEW u \in Sessions, FinalizeStep(u) PROVE Goal
  <2>1. ASSUME NEW s \in Contents, WriteStorage(u, s) PROVE Goal
    <3>1. Stutters
      BY <2>1, <1>u DEF Stutters, WriteStorage
    <3> QED BY <3>1, <1>2
  <2>2. CASE RejectCommit(u)
    <3>1. Stutters
      BY <2>2, <1>u DEF Stutters, RejectCommit, Unlink
    <3> QED BY <3>1, <1>2
  <2>3. CASE AcquireBlob(u)
    <3>1. PICK t : t = sha[u]
      OBVIOUS
    <3>2. Takes(t, u)
      BY <2>3, <3>1, <1>w, <1>c DEF Takes, AcquireBlob, IncrBlobRef
    <3> QED BY <3>2, <1>3
  <2>4. CASE DropDuplicate(u)
    <3>1. Stutters
      BY <2>4, <1>u DEF Stutters, DropDuplicate, Unlink
    <3> QED BY <3>1, <1>2
  <2> QED BY <1>7, <2>1, <2>2, <2>3, <2>4 DEF FinalizeStep
<1>8. ASSUME NEW c \in Claims, ClaimStep(c) PROVE Goal
  <2>1. ASSUME NEW s \in Contents, LookupBlob(c, s) PROVE Goal
    <3>1. Stutters
      BY <2>1 DEF Stutters, LookupBlob
    <3> QED BY <3>1, <1>2
  <2>2. CASE AbandonClaim(c)
    <3>1. Stutters
      BY <2>2 DEF Stutters, AbandonClaim
    <3> QED BY <3>1, <1>2
  <2>3. CASE ClaimRef(c)
    <3>1. PICK t : t = sha[c]
      OBVIOUS
    <3>2. Takes(t, c)
      BY <2>3, <3>1, <1>c, <1>d DEF Takes, ClaimRef, IncrBlobRef
    <3> QED BY <3>2, <1>3
  <2> QED BY <1>8, <2>1, <2>2, <2>3 DEF ClaimStep
<1>9. ASSUME NEW r \in Sessions \union Claims, HolderStep(r) PROVE Goal
  <2>1. ASSUME NEW f \in FileIDs, PutFile(r, f) PROVE Goal
    <3>1. PICK t : t = sha[r]
      OBVIOUS
    <3>2. Passes(t, r, f)
      BY <2>1, <3>1 DEF Passes, PutFile, InsertRow, Fresh
    <3> QED BY <3>2, <1>4
  <2>2. CASE PutFileFails(r)
    <3>1. Stutters
      BY <2>2 DEF Stutters, PutFileFails
    <3> QED BY <3>1, <1>2
  <2>3. CASE RollbackRef(r)
    <3>1. Leaves
      BY <2>3 DEF Leaves, RollbackRef, DecrBlobRef, AllUnheld, Unheld
    <3> QED BY <3>1, <1>5
  <2> QED BY <1>9, <2>1, <2>2, <2>3 DEF HolderStep
<1>10. ASSUME NEW p \in Purges, PurgeStep(p) PROVE Goal
  <2>1. ASSUME NEW f \in FileIDs, PurgeList(p, f) PROVE Goal
    <3>1. Stutters
      BY <2>1 DEF Stutters, PurgeList
    <3> QED BY <3>1, <1>2
  <2>2. CASE PurgeRestore(p)
    <3>1. Stutters
      BY <2>2 DEF Stutters, PurgeRestore
    <3> QED BY <3>1, <1>2
  <2>3. CASE PurgeDelete(p)
    <3>1. PICK t, f : t = sha[p] /\ f = file[p]
      OBVIOUS
    <3>2. Passes(t, f, p)
      BY <2>3, <3>1, <1>e DEF Passes, PurgeDelete
    <3> QED BY <3>2, <1>4
  <2>4. CASE PurgeDeleteFails(p)
    <3>1. Stutters
      BY <2>4 DEF Stutters, PurgeDeleteFails
    <3> QED BY <3>1, <1>2
  <2>5. CASE PurgeDecr(p)
    <3>1. Leaves
      BY <2>5 DEF Leaves, PurgeDecr, DecrBlobRef, AllUnheld, Unheld
    <3> QED BY <3>1, <1>5
  <2>6. CASE PurgeCount(p)
    <3>1. Stutters
      BY <2>6 DEF Stutters, PurgeCount, Disciplined
    <3> QED BY <3>1, <1>2
  <2>7. CASE PurgeUndo(p)
    <3>1. CASE live' = live \union {file[p]}
      <4>1. PICK t, f : t = sha[p] /\ f = file[p]
        OBVIOUS
      <4>2. Passes(t, p, f)
        BY <2>7, <3>1, <4>1 DEF Passes, PurgeUndo
      <4> QED BY <4>2, <1>4
    <3>2. CASE UNCHANGED live
      <4>1. Leaves
        BY <2>7, <3>2 DEF Leaves, PurgeUndo
      <4> QED BY <4>1, <1>5
    <3> QED BY <2>7, <3>1, <3>2 DEF PurgeUndo
  <2>8. CASE PurgeUnlink(p)
    <3>1. CASE UNCHANGED stored
      <4>1. Stutters
        BY <2>8, <3>1 DEF Stutters, PurgeUnlink
      <4> QED BY <4>1, <1>2
    <3>2. CASE stored' = [stored EXCEPT ![blobPath[sha[p]]] = None]
      <4>1. PICK t : t = sha[p]
        OBVIOUS
      <4>2. Reclaims(t)
        BY <2>8, <3>2, <4>1, <1>e, <1>g DEF Reclaims, PurgeUnlink
      <4> QED BY <4>2, <1>6
    <3> QED BY <2>8, <3>1, <3>2 DEF PurgeUnlink, Unlink
  <2> QED
    BY <1>10, <2>1, <2>2, <2>3, <2>4, <2>5, <2>6, <2>7, <2>8 DEF PurgeStep
<1>11. ASSUME NEW f \in FileIDs, Trash(f) \/ Restore(f) PROVE Goal
  <2>1. Stutters
    BY <1>11 DEF Stutters, Trash, Restore
  <2> QED BY <2>1, <1>2
<1>12. ASSUME Crash PROVE Goal
  <2>1. Leaves
    BY <1>12 DEF Leaves, Crash
  <2> QED BY <2>1, <1>5
<1>13. ASSUME UNCHANGED vars PROVE Goal
  <2>1. Stutters
    BY <1>13 DEF Stutters, vars
  <2> QED BY <2>1, <1>2
<1>14. ~ \E k \in Copies : CopyStep(k)
  BY DEF Disciplined
<1>15. Goal
  BY <1>7, <1>8, <1>9, <1>10, <1>11, <1>12, <1>13, <1>14 DEF Next
<1> QED BY <1>15 DEF Goal

\* Without copies, with one purge at a time and no lost count, the store
\* implements SharedContent: whoever holds a content, row or request, keeps
\* its object, unless the content had once been left by all its holders.
THEOREM StoreKeepsPromise ==
  ASSUME Disciplined PROVE Spec => Retained
<1>1. Init => Promise!Init
  BY DEF Init, Promise!Init, Holders, Rows, Holding, Stored
<1>2. StoreInv /\ StoreInv' /\ AllUnheld' /\ [Next]_vars
        => [Promise!Next]_(Promise!content)
  BY StepKeepsPromise
<1>3. StoreInv => AllUnheld
  BY UncountedIsUnheld DEF StoreInv
<1>4. Spec => []StoreInv
  BY PathInvInductive, CountInvInductive, PTL DEF Spec, StoreInv
<1> QED BY <1>1, <1>2, <1>3, <1>4, PTL DEF Spec, Retained, Promise!Spec

-----------------------------------------------------------------------------
(* No reference is lost.                                                   *)

\* The requests of the disciplined run, with any number of purges: nothing is
\* copied, and inserts and unlinks are all that fails.
NothingLost == Copies = {} /\ Faults \subseteq {"insert", "unlink"}

LeakInv ==
  /\ WellFormed
  /\ \A p \in Purges : pc[p] # "undo"
  /\ NoLeakedReference

\* Every step keeps the count of a content at or below its holders: a step
\* that counts makes a holder, and a holder that goes is uncounted or handed on.
LEMMA LeakKept ==
  ASSUME NothingLost, LeakInv, [Next]_vars, WellFormed', NEW t \in Contents
  PROVE  refCount'[t] <= Cardinality(Holders(t)') /\ \A p \in Purges : pc'[p] # "undo"
<1> DEFINE A == Holders(t)
           B == Holders(t)'
           NoUndo == \A p \in Purges : pc'[p] # "undo"
           Covered == refCount'[t] <= Cardinality(B)
           Keeps == A \subseteq B /\ refCount'[t] <= refCount[t]
           Begins(x) == x \in B /\ refCount'[t] = 1
           Adds(x) == x \in B /\ A \subseteq B \ {x} /\ refCount'[t] = refCount[t] + 1
           Drops(x) == /\ A \subseteq B \union {x}
                       /\ refCount'[t] = IF refCount[t] > 0 THEN refCount[t] - 1 ELSE 0
           Swaps(x, y) == /\ y \in B /\ A \subseteq (B \ {y}) \union {x}
                          /\ refCount'[t] <= refCount[t]
<1>1. IsFiniteSet(B) /\ IsFiniteSet(A)
  <2>1. IsFiniteSet(A)
    BY HoldersFinite DEF LeakInv, WellFormed
  <2>2. B \subseteq FileIDs \union Requests
    BY DEF Holders, Rows, WellFormed, TypeOK
  <2>3. IsFiniteSet(FileIDs \union Requests)
    BY PoolsAreFinite, FS_Union
  <2> QED BY <2>1, <2>2, <2>3, FS_Subset
<1>2. /\ refCount[t] \in Nat /\ refCount'[t] \in Nat
      /\ Cardinality(A) \in Nat /\ Cardinality(B) \in Nat /\ refCount[t] <= Cardinality(A)
  BY <1>1, FS_CardinalityType DEF LeakInv, NoLeakedReference, WellFormed, TypeOK
\* The ways a step may change the holders and the count together.
<1>3. Keeps => Covered
  <2> HIDE DEF A, B
  <2> QED BY <1>1, <1>2, SizeOfStep
<1>4. \A x : Begins(x) => Covered
  <2> HIDE DEF A, B
  <2> QED BY <1>1, <1>2, FS_EmptySet
<1>5. \A x : Adds(x) => Covered
  <2> HIDE DEF A, B
  <2> SUFFICES ASSUME NEW x, Adds(x) PROVE Covered
    OBVIOUS
  <2>1. Cardinality(A) <= Cardinality(B) - 1
    BY <1>1, SizeOfStep
  <2> QED BY <1>2, <2>1
<1>6. \A x : Drops(x) => Covered
  <2> HIDE DEF A, B
  <2> SUFFICES ASSUME NEW x, Drops(x) PROVE Covered
    OBVIOUS
  <2>1. Cardinality(A) <= Cardinality(B) + 1
    BY <1>1, SizeOfStep
  <2> QED BY <1>2, <2>1
<1>7. \A x, y : Swaps(x, y) => Covered
  <2> HIDE DEF A, B
  <2> SUFFICES ASSUME NEW x, NEW y, Swaps(x, y) PROVE Covered
    OBVIOUS
  <2>1. Cardinality(A) <= Cardinality(B)
    BY <1>1, SizeOfStep
  <2> QED BY <1>2, <2>1
<1> HIDE DEF Covered, Keeps, Begins, Adds, Drops, Swaps
<1> USE <1>2, ActorsAreDistinct, NoneIsNoValue
    DEF LeakInv, NothingLost, WellFormed, Working, TypeOK, Goto, Finish, Requests, Rows,
        Holding, Holders, blobVars, rowVars
<1>8. ASSUME NEW u \in Sessions, FinalizeStep(u) PROVE Covered /\ NoUndo
  <2>1. ASSUME NEW s \in Contents, WriteStorage(u, s) PROVE Keeps /\ NoUndo
    BY <2>1 DEF Keeps, WriteStorage
  <2>2. CASE RejectCommit(u)
    <3>1. Keeps /\ NoUndo
      BY <2>2 DEF Keeps, RejectCommit
    <3> QED BY <3>1, <1>3
  <2>3. CASE AcquireBlob(u)
    <3>1. NoUndo
      BY <2>3 DEF AcquireBlob
    <3>2. CASE t = sha[u] /\ blobPath[sha[u]] = None
      <4>1. Begins(u)
        BY <2>3, <3>2 DEF Begins, AcquireBlob
      <4> QED BY <3>1, <4>1, <1>4
    <3>3. CASE t = sha[u] /\ blobPath[sha[u]] # None
      <4>1. Adds(u)
        BY <2>3, <3>3 DEF Adds, AcquireBlob, IncrBlobRef
      <4> QED BY <3>1, <4>1, <1>5
    <3>4. CASE t # sha[u]
      <4>1. Keeps
        BY <2>3, <3>4 DEF Keeps, AcquireBlob, IncrBlobRef
      <4> QED BY <3>1, <4>1, <1>3
    <3> QED BY <3>2, <3>3, <3>4
  <2>4. CASE DropDuplicate(u)
    <3>1. Keeps /\ NoUndo
      BY <2>4 DEF Keeps, DropDuplicate
    <3> QED BY <3>1, <1>3
  <2> QED BY <1>3, <1>8, <2>1, <2>2, <2>3, <2>4 DEF FinalizeStep
<1>9. ASSUME NEW c \in Claims, ClaimStep(c) PROVE Covered /\ NoUndo
  <2>1. ASSUME NEW s \in Contents, LookupBlob(c, s) PROVE Keeps /\ NoUndo
    BY <2>1 DEF Keeps, LookupBlob
  <2>2. CASE AbandonClaim(c)
    <3>1. Keeps /\ NoUndo
      BY <2>2 DEF Keeps, AbandonClaim
    <3> QED BY <3>1, <1>3
  <2>3. CASE ClaimRef(c)
    <3>1. NoUndo
      BY <2>3 DEF ClaimRef
    <3>2. CASE t = sha[c]
      <4>1. Adds(c)
        BY <2>3, <3>2 DEF Adds, ClaimRef, IncrBlobRef
      <4> QED BY <3>1, <4>1, <1>5
    <3>3. CASE t # sha[c]
      <4>1. Keeps
        BY <2>3, <3>3 DEF Keeps, ClaimRef, IncrBlobRef
      <4> QED BY <3>1, <4>1, <1>3
    <3> QED BY <3>2, <3>3
  <2> QED BY <1>3, <1>9, <2>1, <2>2, <2>3 DEF ClaimStep
<1>10. ASSUME NEW r \in Sessions \union Claims, HolderStep(r) PROVE Covered /\ NoUndo
  <2>1. ASSUME NEW f \in FileIDs, PutFile(r, f) PROVE Covered /\ NoUndo
    <3>1. NoUndo
      BY <2>1 DEF PutFile
    <3>2. CASE t = sha[r]
      <4>1. Swaps(r, f)
        BY <2>1, <3>2 DEF Swaps, PutFile, InsertRow, Fresh
      <4> QED BY <3>1, <4>1, <1>7
    <3>3. CASE t # sha[r]
      <4>1. Keeps
        BY <2>1, <3>3 DEF Keeps, PutFile, InsertRow, Fresh
      <4> QED BY <3>1, <4>1, <1>3
    <3> QED BY <3>2, <3>3
  <2>2. CASE PutFileFails(r)
    <3>1. Keeps /\ NoUndo
      BY <2>2 DEF Keeps, PutFileFails
    <3> QED BY <3>1, <1>3
  <2>3. CASE RollbackRef(r)
    <3>1. NoUndo
      BY <2>3 DEF RollbackRef
    <3>2. CASE t = sha[r]
      <4>1. Drops(r)
        BY <2>3, <3>2 DEF Drops, RollbackRef, DecrBlobRef
      <4> QED BY <3>1, <4>1, <1>6
    <3>3. CASE t # sha[r]
      <4>1. Keeps
        BY <2>3, <3>3 DEF Keeps, RollbackRef, DecrBlobRef
      <4> QED BY <3>1, <4>1, <1>3
    <3> QED BY <3>2, <3>3
  <2> QED BY <1>10, <2>1, <2>2, <2>3 DEF HolderStep
<1>11. ASSUME NEW p \in Purges, PurgeStep(p) PROVE Covered /\ NoUndo
  <2>1. ASSUME NEW f \in FileIDs, PurgeList(p, f) PROVE Keeps /\ NoUndo
    BY <2>1 DEF Keeps, PurgeList
  <2>2. CASE PurgeRestore(p)
    <3>1. Keeps /\ NoUndo
      BY <2>2 DEF Keeps, PurgeRestore
    <3> QED BY <3>1, <1>3
  <2>3. CASE PurgeDelete(p)
    <3>1. NoUndo
      BY <2>3 DEF PurgeDelete
    <3>2. CASE t = sha[p]
      <4>1. Swaps(file[p], p)
        BY <2>3, <3>2 DEF Swaps, PurgeDelete
      <4> QED BY <3>1, <4>1, <1>7
    <3>3. CASE t # sha[p]
      <4>1. Keeps
        BY <2>3, <3>3 DEF Keeps, PurgeDelete
      <4> QED BY <3>1, <4>1, <1>3
    <3> QED BY <3>2, <3>3
  <2>4. ~PurgeDeleteFails(p)
    BY DEF PurgeDeleteFails
  <2>5. CASE PurgeDecr(p)
    <3>1. NoUndo
      BY <2>5 DEF PurgeDecr
    <3>2. CASE t = sha[p]
      <4>1. Drops(p)
        BY <2>5, <3>2 DEF Drops, PurgeDecr, DecrBlobRef
      <4> QED BY <3>1, <4>1, <1>6
    <3>3. CASE t # sha[p]
      <4>1. Keeps
        BY <2>5, <3>3 DEF Keeps, PurgeDecr, DecrBlobRef
      <4> QED BY <3>1, <4>1, <1>3
    <3> QED BY <3>2, <3>3
  <2>6. CASE PurgeCount(p)
    <3>1. Keeps /\ NoUndo
      BY <2>6 DEF Keeps, PurgeCount
    <3> QED BY <3>1, <1>3
  <2>7. ~PurgeUndo(p)
    BY DEF PurgeUndo
  <2>8. CASE PurgeUnlink(p)
    <3>1. Keeps /\ NoUndo
      BY <2>8 DEF Keeps, PurgeUnlink
    <3> QED BY <3>1, <1>3
  <2> QED
    BY <1>3, <1>11, <2>1, <2>2, <2>3, <2>4, <2>5, <2>6, <2>7, <2>8 DEF PurgeStep
<1>12. ASSUME NEW f \in FileIDs, Trash(f) \/ Restore(f) PROVE Covered /\ NoUndo
  <2>1. Keeps /\ NoUndo
    BY <1>12 DEF Keeps, Trash, Restore
  <2> QED BY <2>1, <1>3
<1>13. ASSUME UNCHANGED vars PROVE Covered /\ NoUndo
  <2>1. Keeps /\ NoUndo
    BY <1>13 DEF Keeps, vars
  <2> QED BY <2>1, <1>3
<1>14. ~Crash /\ ~ \E k \in Copies : CopyStep(k)
  BY DEF Crash
<1>15. Covered /\ NoUndo
  BY <1>8, <1>9, <1>10, <1>11, <1>12, <1>13, <1>14 DEF Next
<1> QED BY <1>15 DEF Covered

\* Without copies, and while inserts and unlinks are all that fails, ref_count
\* is never above the number of rows and requests that hold the content.
THEOREM NoReferenceLeaks ==
  ASSUME NothingLost PROVE Spec => []NoLeakedReference
<1>1. ASSUME Init PROVE LeakInv
  <2>1. WellFormed
    BY <1>1, WellFormedInductive
  <2>2. \A s \in Contents : Holders(s) = {}
    BY <1>1 DEF Init, Holders, Rows, Holding
  <2> QED BY <1>1, <2>1, <2>2, FS_EmptySet DEF Init, LeakInv, NoLeakedReference, Requests
<1>2. ASSUME LeakInv, [Next]_vars PROVE LeakInv'
  <2>1. WellFormed'
    BY <1>2, WellFormedInductive DEF LeakInv
  <2>2. NoLeakedReference'
    BY <1>2, <2>1, LeakKept DEF NoLeakedReference
  <2>3. \A p \in Purges : pc'[p] # "undo"
    <3>1. CASE Contents = {}
      <4>1. /\ \A r \in Requests : ~Working(r)
            /\ \A p \in Purges : pc[p] # "undo" /\ p \in Requests
            /\ trashed = {} /\ pc \in [Requests -> Points]
        BY <1>2, <3>1 DEF LeakInv, WellFormed, TypeOK, Rows, Requests
      <4>2. \A r \in Requests : pc[r] \in {"idle", "done"}
        BY <4>1 DEF Working
      <4>3. \A p \in Purges : ~PurgeStep(p)
        BY <4>1, <4>2 DEF PurgeStep, PurgeList, PurgeRestore, PurgeDelete,
          PurgeDeleteFails, PurgeDecr, PurgeCount, PurgeUndo, PurgeUnlink, Goto, Finish
      <4>4. ~Crash
        BY DEF NothingLost, Crash
      <4>5. \A c \in Claims : ~ClaimStep(c)
        BY <3>1, <4>1, <4>2 DEF ClaimStep, LookupBlob, AbandonClaim, ClaimRef, Goto, Finish, Requests
      <4>6. \A u \in Sessions : ~FinalizeStep(u)
        BY <3>1, <4>2 DEF FinalizeStep, WriteStorage, RejectCommit, AcquireBlob,
          DropDuplicate, Goto, Finish, Requests
      <4>7. \A r \in Sessions \union Claims : ~HolderStep(r)
        BY <4>2 DEF HolderStep, PutFile, PutFileFails, RollbackRef, Goto, Finish, Requests
      <4>8. ~ \E k \in Copies : CopyStep(k)
        BY DEF NothingLost
      <4>9. UNCHANGED pc
        BY <1>2, <4>3, <4>4, <4>5, <4>6, <4>7, <4>8 DEF Next, Trash, Restore, vars
      <4> QED BY <4>1, <4>9
    <3>2. CASE Contents # {}
      BY <1>2, <2>1, <3>2, LeakKept
    <3> QED BY <3>1, <3>2
  <2> QED BY <2>1, <2>2, <2>3 DEF LeakInv
<1> QED BY <1>1, <1>2, PTL DEF Spec, LeakInv
=============================================================================
