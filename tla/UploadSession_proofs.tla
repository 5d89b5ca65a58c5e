------------------------ MODULE UploadSession_proofs ------------------------
(***************************************************************************)
(* What UploadSession guarantees for every number of chunks and requests.  *)
(***************************************************************************)
EXTENDS UploadSession, TLAPS

\* A longer sequence of the same elements.
LEMMA AppendType ==
  ASSUME NEW S, NEW s \in Seq(S), NEW x \in S PROVE Append(s, x) \in Seq(S)
OBVIOUS

\* Every step keeps the types.
LEMMA TypeInductive ==
  ASSUME TypeOK, [Next]_vars PROVE TypeOK'
<1> USE NumChunksIsPositive, IntendedIsABody
    DEF TypeOK, Files, Slots, Indices, NoParts, Without, Present, keyVars, callVars,
        finVars, reapVars, CallEnds, TaskEnds, FinalEnds, AbortEnds
<1>1. CASE CreateSession
  BY <1>1 DEF CreateSession
<1>2. CASE Age
  BY <1>2 DEF Age
<1>3. CASE Expire
  BY <1>3 DEF Expire
<1>4. ASSUME NEW a \in Appends, AppendStep(a) \/ WorkerStep(a)
      PROVE  TypeOK'
  <2>1. ASSUME NEW i \in Slots, NEW b \in Bodies, AppendChunk(a, i, b) PROVE TypeOK'
    BY <2>1 DEF AppendChunk, CallGoto
  <2>2. CASE CheckOffset(a)
    BY <2>2 DEF CheckOffset, CallGoto
  <2>3. CASE SubmitChunk(a)
    BY <2>3 DEF SubmitChunk, CallGoto, TaskGoto, TouchSession
  <2>4. CASE Answer(a)
    BY <2>4 DEF Answer, CallGoto
  <2>5. CASE Disconnect(a)
    BY <2>5 DEF Disconnect, CallGoto
  <2>6. CASE OpenPart(a)
    <3>1. Writing(slot[a]) \in SUBSET Appends
      BY DEF Writing
    <3>2. parts' \in [Slots -> Files \union {None}]
      BY <2>6, <3>1 DEF OpenPart
    <3> QED BY <2>6, <3>2 DEF OpenPart, TaskGoto
  <2>9. CASE WritePart(a)
    <3>1. ASSUME a \in Writing(slot[a]), NEW h \in Outcomes(a, parts[slot[a]]),
                 parts' = [parts EXCEPT ![slot[a]].holds = h]
          PROVE  parts' \in [Slots -> Files \union {None}]
      <4>1. parts[slot[a]] \in Files
        BY <3>1 DEF Writing
      <4>2. h \in Bodies \union {Torn}
        BY <3>1, <4>1 DEF Outcomes
      <4> QED BY <3>1, <4>1, <4>2
    <3>2. parts' \in [Slots -> Files \union {None}]
      BY <2>9, <3>1 DEF WritePart
    <3> QED BY <2>9, <3>2 DEF WritePart, TaskGoto
  <2>10. CASE FailPart(a)
    BY <2>10 DEF FailPart, TaskGoto
  <2>7. CASE RejectPart(a)
    BY <2>7 DEF RejectPart, TaskGoto
  <2>8. CASE UpdateOffset(a)
    BY <2>8 DEF UpdateOffset, TaskGoto
  <2> QED BY <1>4, <2>1, <2>2, <2>3, <2>4, <2>5, <2>6, <2>7, <2>8, <2>9, <2>10
         DEF AppendStep, WorkerStep
<1>5. ASSUME NEW z \in Finalizes, FinalizeStep(z) PROVE TypeOK'
  <2>1. CASE ClaimRead(z)
    BY <2>1 DEF ClaimRead, FinalGoto
  <2>2. CASE ClaimExec(z)
    BY <2>2 DEF ClaimExec, FinalGoto
  <2>3. CASE ValidateChunks(z)
    BY <2>3 DEF ValidateChunks, FinalGoto, TouchSession
  <2>4. CASE MergePart(z)
    <3>1. merged[z] \in Seq(Bodies \union {Torn}) /\ Len(merged[z]) \in Slots
      <4>1. merged[z] \in Seq(Bodies \union {Torn})
        OBVIOUS
      <4> QED BY <4>1, <2>4 DEF MergePart
    <3>2. parts[Len(merged[z])] \in Files \union {None}
      BY <3>1
    <3>3. merged' \in [Finalizes -> Seq(Bodies \union {Torn})]
      <4>1. CASE merged' = merged
        BY <4>1
      <4>2. CASE /\ parts[Len(merged[z])] # None
                 /\ merged' = [merged EXCEPT ![z] = Append(@, parts[Len(merged[z])].holds)]
        <5>1. Append(merged[z], parts[Len(merged[z])].holds) \in Seq(Bodies \union {Torn})
          BY <3>1, <3>2, <4>2
        <5> QED BY <4>2, <5>1
      <4> QED BY <2>4, <4>1, <4>2 DEF MergePart
    <3>4. final' \in [Finalizes -> FinalEnds \union
                {"claiming", "claimed", "merging", "committed", "cleaning", "dead"}]
      BY <2>4 DEF MergePart, FinalGoto
    <3> QED BY <2>4, <3>3, <3>4 DEF MergePart
  <2>5. CASE Commit(z)
    <3>1. commits' \in Seq(Seq(Bodies \union {Torn}))
      <4>1. merged[z] \in Seq(Bodies \union {Torn}) /\ commits \in Seq(Seq(Bodies \union {Torn}))
        OBVIOUS
      <4>2. Append(commits, merged[z]) \in Seq(Seq(Bodies \union {Torn}))
        BY <4>1, AppendType
      <4>3. commits' = commits \/ commits' = Append(commits, merged[z])
        BY <2>5 DEF Commit
      <4> QED BY <4>1, <4>2, <4>3
    <3>2. final' \in [Finalizes -> FinalEnds \union
                {"claiming", "claimed", "merging", "committed", "cleaning", "dead"}]
      BY <2>5 DEF Commit, FinalGoto
    <3> QED BY <2>5, <3>1, <3>2 DEF Commit
  <2>6. CASE FinishSession(z)
    BY <2>6 DEF FinishSession, FinalGoto, DeleteSession
  <2>7. CASE CleanupParts(z)
    BY <2>7 DEF CleanupParts, FinalGoto
  <2> QED BY <1>5, <2>1, <2>2, <2>3, <2>4, <2>5, <2>6, <2>7 DEF FinalizeStep
<1>6. ASSUME NEW b \in Aborts, AbortStep(b) PROVE TypeOK'
  <2>1. CASE AbortRead(b)
    BY <2>1 DEF AbortRead, AbortGoto
  <2>2. CASE AbortClean(b)
    BY <2>2 DEF AbortClean, AbortGoto
  <2>3. CASE AbortDelete(b)
    BY <2>3 DEF AbortDelete, AbortGoto, DeleteSession
  <2> QED BY <1>6, <2>1, <2>2, <2>3 DEF AbortStep
<1>7. CASE ReaperStep
  <2>1. CASE ReapScan
    BY <2>1 DEF ReapScan, ReaperGoto
  <2>2. CASE ReapParts
    BY <2>2 DEF ReapParts, ReaperGoto
  <2>3. CASE ReapSession
    BY <2>3 DEF ReapSession, ReaperGoto, DeleteSession
  <2>4. CASE WalkParts
    BY <2>4 DEF WalkParts, ReaperGoto
  <2>5. CASE CheckOwner
    BY <2>5 DEF CheckOwner, ReaperGoto
  <2>6. CASE DeleteOrphans
    BY <2>6 DEF DeleteOrphans, ReaperGoto
  <2> QED BY <1>7, <2>1, <2>2, <2>3, <2>4, <2>5, <2>6 DEF ReaperStep
<1>8. CASE Crash
  BY <1>8 DEF Crash, Settled, CallEnds, TaskEnds, FinalEnds, AbortEnds
<1>9. CASE UNCHANGED vars
  BY <1>9 DEF vars
<1> QED BY <1>1, <1>2, <1>3, <1>4, <1>5, <1>6, <1>7, <1>8, <1>9 DEF Next

\* The variables keep their types.
THEOREM TypeCorrect == Spec => []TypeOK
<1>1. Init => TypeOK
  BY NumChunksIsPositive, IntendedIsABody
  DEF Init, TypeOK, Slots, NoParts, CallEnds, TaskEnds, FinalEnds, AbortEnds
<1> QED BY <1>1, TypeInductive, PTL DEF Spec

-----------------------------------------------------------------------------
(* One commit per session.                                                 *)

\* A finalize that owns the session and has not committed it.
Owns(z) == final[z] \in {"claimed", "merging"}

\* Whoever watches the key watches an active session; an active session has no
\* owner and no commit; an owner is alone and finds nothing committed.
OnceInv ==
  /\ watching # {} => status = "active"
  /\ status \in {"none", "active"} =>
       commits = <<>> /\ \A z \in Finalizes : ~ Owns(z)
  /\ commits # <<>> => \A z \in Finalizes : ~ Owns(z)
  /\ \A y, z \in Finalizes : Owns(y) /\ Owns(z) => y = z
  /\ Len(commits) <= 1

\* The steps that leave every owner, the history and an active key alone.
LEMMA OnceUndisturbed ==
  ASSUME OnceInv,
         UNCHANGED commits,
         \A z \in Finalizes : Owns(z)' => Owns(z),
         watching' # {} => status' = "active",
         status' \in {"none", "active"} => status \in {"none", "active"}
  PROVE  OnceInv'
BY DEF OnceInv, Owns

\* Every step keeps it.
LEMMA OnceInductive ==
  ASSUME TypeOK, OnceInv, [Next]_vars PROVE OnceInv'
<1>1. CASE CreateSession
  BY <1>1, OnceUndisturbed DEF CreateSession, OnceInv, Owns, finVars
<1>2. CASE Age
  BY <1>2, OnceUndisturbed DEF Age, OnceInv, Owns, finVars
<1>3. CASE Expire
  BY <1>3, OnceUndisturbed DEF Expire, OnceInv, Owns, finVars
<1>4. ASSUME NEW a \in Appends, AppendStep(a) \/ WorkerStep(a)
      PROVE  OnceInv'
  <2>1. UNCHANGED <<status, final, commits>> /\ watching' \in {watching, {}}
    BY <1>4 DEF AppendStep, WorkerStep, AppendChunk, CheckOffset, SubmitChunk,
                Answer, Disconnect, OpenPart, WritePart,
                FailPart, RejectPart, UpdateOffset,
                TouchSession, keyVars, finVars
  <2> QED BY <2>1, OnceUndisturbed DEF OnceInv, Owns
<1>5. ASSUME NEW z \in Finalizes, FinalizeStep(z) PROVE OnceInv'
  <2> USE DEF TypeOK, FinalGoto, keyVars
  <2>1. CASE ClaimRead(z)
    <3>1. \A y \in Finalizes : Owns(y)' => Owns(y)
      BY <2>1 DEF ClaimRead, Owns
    <3>2. UNCHANGED <<commits, status>> /\ (watching' # {} => status' = "active")
      BY <2>1 DEF ClaimRead, OnceInv
    <3> QED BY <3>1, <3>2, OnceUndisturbed
  <2>2. CASE ClaimExec(z) /\ z \in watching
    <3>1. /\ commits = <<>>
          /\ \A y \in Finalizes : ~ Owns(y)
      BY <2>2 DEF OnceInv
    <3>2. /\ status' = "finalizing" /\ watching' = {} /\ commits' = <<>>
          /\ \A y \in Finalizes : Owns(y)' => y = z
      BY <2>2, <3>1 DEF ClaimExec, Owns
    <3> QED BY <3>2 DEF OnceInv
  <2>3. CASE ClaimExec(z) /\ z \notin watching
    <3>1. \A y \in Finalizes : Owns(y)' => Owns(y)
      BY <2>3 DEF ClaimExec, Owns
    <3>2. UNCHANGED <<commits, status, watching>>
      BY <2>3 DEF ClaimExec
    <3> QED BY <3>1, <3>2, OnceUndisturbed DEF OnceInv
  <2>4. CASE ValidateChunks(z)
    <3>1. \A y \in Finalizes : Owns(y)' => Owns(y)
      BY <2>4 DEF ValidateChunks, Owns
    <3>2. UNCHANGED <<commits, status>> /\ watching' = {}
      BY <2>4 DEF ValidateChunks, TouchSession
    <3> QED BY <3>1, <3>2, OnceUndisturbed
  <2>5. CASE MergePart(z)
    <3>1. \A y \in Finalizes : Owns(y)' => Owns(y)
      BY <2>5 DEF MergePart, Owns
    <3>2. UNCHANGED <<commits, status, watching>>
      BY <2>5 DEF MergePart
    <3> QED BY <3>1, <3>2, OnceUndisturbed DEF OnceInv
  <2>6. CASE Commit(z)
    <3>1. Owns(z) /\ \A y \in Finalizes : Owns(y) => y = z
      BY <2>6 DEF Commit, OnceInv, Owns
    <3>2. commits = <<>> /\ status \notin {"none", "active"}
      BY <3>1 DEF OnceInv
    <3>3. \A y \in Finalizes : ~ Owns(y)'
      BY <2>6, <3>1 DEF Commit, Owns
    <3>4. Len(commits') <= 1
      <4>1. merged[z] \in Seq(Bodies \union {Torn}) /\ (commits' = <<>> \/ commits' = Append(<<>>, merged[z]))
        BY <2>6, <3>2 DEF Commit
      <4>2. \A x \in Seq(Bodies \union {Torn}) : Len(Append(<<>>, x)) <= 1
        OBVIOUS
      <4>3. Len(<<>>) <= 1
        OBVIOUS
      <4> HIDE DEF TypeOK
      <4> QED BY <4>1, <4>2, <4>3
    <3>5. UNCHANGED <<status, watching>>
      BY <2>6 DEF Commit
    <3> QED BY <3>2, <3>3, <3>4, <3>5 DEF OnceInv
  <2>7. CASE FinishSession(z)
    <3>1. \A y \in Finalizes : Owns(y)' => Owns(y)
      BY <2>7 DEF FinishSession, Owns
    <3>2. /\ UNCHANGED commits
          /\ \/ UNCHANGED <<status, watching>>
             \/ status' = "gone" /\ watching' = {}
      BY <2>7 DEF FinishSession, DeleteSession
    <3> QED BY <3>1, <3>2, OnceUndisturbed DEF OnceInv
  <2>8. CASE CleanupParts(z)
    <3>1. \A y \in Finalizes : Owns(y)' => Owns(y)
      BY <2>8 DEF CleanupParts, Owns
    <3>2. UNCHANGED <<commits, status, watching>>
      BY <2>8 DEF CleanupParts
    <3> QED BY <3>1, <3>2, OnceUndisturbed DEF OnceInv
  <2> QED BY <1>5, <2>1, <2>2, <2>3, <2>4, <2>5, <2>6, <2>7, <2>8 DEF FinalizeStep
<1>6. ASSUME NEW b \in Aborts, AbortStep(b) PROVE OnceInv'
  <2>1. /\ UNCHANGED <<final, commits>>
        /\ \/ UNCHANGED <<status, watching>>
           \/ status' = "gone" /\ watching' = {}
    BY <1>6 DEF AbortStep, AbortRead, AbortClean, AbortDelete, DeleteSession,
                keyVars, finVars
  <2> QED BY <2>1, OnceUndisturbed DEF OnceInv, Owns
<1>7. CASE ReaperStep
  <2>1. /\ UNCHANGED <<final, commits>>
        /\ \/ UNCHANGED <<status, watching>>
           \/ status' = "gone" /\ watching' = {}
    BY <1>7 DEF ReaperStep, ReapScan, ReapParts, ReapSession, WalkParts,
                CheckOwner, DeleteOrphans, DeleteSession, keyVars, finVars
  <2> QED BY <2>1, OnceUndisturbed DEF OnceInv, Owns
<1>8. CASE Crash
  <2>1. \A z \in Finalizes : Owns(z)' => Owns(z)
    BY <1>8 DEF Crash, Settled, FinalEnds, Owns, TypeOK
  <2>2. UNCHANGED <<commits, status>> /\ watching' = {}
    BY <1>8 DEF Crash
  <2> QED BY <2>1, <2>2, OnceUndisturbed
<1>9. CASE UNCHANGED vars
  BY <1>9, OnceUndisturbed DEF vars, finVars, OnceInv, Owns
<1> QED BY <1>1, <1>2, <1>3, <1>4, <1>5, <1>6, <1>7, <1>8, <1>9 DEF Next

\* The invariant holds.
LEMMA OnceInvariant == Spec => []OnceInv
<1>1. Init => OnceInv
  BY DEF Init, OnceInv, Owns
<1>2. TypeOK /\ OnceInv /\ [Next]_vars => OnceInv'
  BY OnceInductive
<1> QED BY <1>1, <1>2, TypeCorrect, PTL DEF Spec

\* However many finalizes, aborts, reaper passes, expiries and crashes race for
\* a session, its content is committed at most once (Finalize, upload.go:534,
\* and ClaimSessionFinalizing, redis.go:84).
THEOREM SessionCommittedOnce == Spec => []CommittedOnce
<1>1. OnceInv => CommittedOnce
  BY DEF OnceInv, CommittedOnce
<1> QED BY <1>1, OnceInvariant, PTL

-----------------------------------------------------------------------------
(* A session that is gone stays gone, and has no owner for its parts.      *)

\* A key that is gone is not written again: neither Finalize's transaction nor
\* any other step resurrects the session (redis.go:84-127).
THEOREM SessionGoneForever == Spec => GoneForever
<1>1. OnceInv /\ [Next]_vars => [status = "gone" => status' = "gone"]_vars
  <2> SUFFICES ASSUME OnceInv, Next, status = "gone" PROVE status' = "gone"
    BY DEF vars
  <2>1. watching = {}
    BY DEF OnceInv
  <2>2. ASSUME NEW a \in Appends, AppendStep(a) \/ WorkerStep(a)
        PROVE  status' = "gone"
    BY <2>2 DEF AppendStep, WorkerStep, AppendChunk, CheckOffset, SubmitChunk,
                Answer, Disconnect, OpenPart, WritePart,
                FailPart, RejectPart, UpdateOffset,
                TouchSession, keyVars
  <2>3. ASSUME NEW z \in Finalizes, FinalizeStep(z) PROVE status' = "gone"
    BY <2>1, <2>3 DEF FinalizeStep, ClaimRead, ClaimExec, ValidateChunks,
                MergePart, Commit, FinishSession, CleanupParts, TouchSession,
                DeleteSession, keyVars
  <2>4. ASSUME NEW b \in Aborts, AbortStep(b) PROVE status' = "gone"
    BY <2>4 DEF AbortStep, AbortRead, AbortClean, AbortDelete, DeleteSession,
                keyVars
  <2>5. ASSUME ReaperStep PROVE status' = "gone"
    BY <2>5 DEF ReaperStep, ReapScan, ReapParts, ReapSession, WalkParts,
                CheckOwner, DeleteOrphans, DeleteSession, keyVars
  <2> QED BY <2>2, <2>3, <2>4, <2>5
          DEF Next, CreateSession, Age, Expire, Crash
<1> QED BY <1>1, OnceInvariant, PTL DEF Spec, GoneForever

\* Before its session exists nothing works on it and no part is there; what the
\* reaper has found without an owner has none for good.
Untouched ==
  /\ \A a \in Appends : call[a] = "idle" /\ task[a] = "none"
  /\ \A z \in Finalizes : final[z] = "idle"
  /\ \A b \in Aborts : abort[b] = "idle"
  /\ Present(parts) = {}
  /\ reaper \in {"idle", "walking"}

OrphanInv ==
  /\ status = "none" => Untouched
  /\ reaper = "deleting" => status = "gone"

\* Every step keeps it.
LEMMA OrphanInductive ==
  ASSUME TypeOK, OrphanInv, [Next]_vars, [status = "gone" => status' = "gone"]_vars
  PROVE  OrphanInv'
<1>1. ASSUME status' = "none" PROVE Untouched'
  <2>1. status = "none" /\ Untouched
    <3>1. CASE Next
      <4>1. CASE CreateSession \/ Age \/ Expire \/ Crash
        BY <1>1, <4>1 DEF CreateSession, Age, Expire, Crash, OrphanInv
      <4>2. ASSUME NEW a \in Appends, AppendStep(a) \/ WorkerStep(a)
            PROVE  status = "none"
        BY <1>1, <4>2 DEF AppendStep, WorkerStep, AppendChunk, CheckOffset,
                SubmitChunk, Answer, Disconnect, OpenPart, WritePart, FailPart,
                RejectPart, UpdateOffset, TouchSession, keyVars
      <4>3. ASSUME NEW z \in Finalizes, FinalizeStep(z) PROVE status = "none"
        BY <1>1, <4>3 DEF FinalizeStep, ClaimRead, ClaimExec, ValidateChunks,
                MergePart, Commit, FinishSession, CleanupParts, TouchSession,
                DeleteSession, keyVars
      <4>4. ASSUME NEW b \in Aborts, AbortStep(b) PROVE status = "none"
        BY <1>1, <4>4 DEF AbortStep, AbortRead, AbortClean, AbortDelete,
                DeleteSession, keyVars
      <4>5. ASSUME ReaperStep PROVE status = "none"
        BY <1>1, <4>5 DEF ReaperStep, ReapScan, ReapParts, ReapSession, WalkParts,
                CheckOwner, DeleteOrphans, DeleteSession, keyVars
      <4> QED BY <3>1, <4>1, <4>2, <4>3, <4>4, <4>5 DEF Next, OrphanInv
    <3> QED BY <1>1, <3>1 DEF vars, OrphanInv
  <2>2. CASE Next
    <3>1. CASE CreateSession \/ Age \/ Expire
      BY <1>1, <2>1, <3>1 DEF CreateSession, Age, Expire, Exists
    <3>2. CASE Crash
      BY <2>1, <3>2 DEF Crash, Settled, CallEnds, TaskEnds, FinalEnds, AbortEnds,
                        Untouched, Present, TypeOK
    <3>3. ASSUME NEW a \in Appends, AppendStep(a) \/ WorkerStep(a) PROVE FALSE
      BY <2>1, <3>3 DEF Untouched, AppendStep, WorkerStep, AppendChunk,
                CheckOffset, SubmitChunk, Answer, Disconnect, OpenPart,
                WritePart, FailPart, RejectPart, UpdateOffset, CallGoto, TaskGoto
    <3>4. ASSUME NEW z \in Finalizes, FinalizeStep(z) PROVE FALSE
      BY <2>1, <3>4 DEF Untouched, FinalizeStep, ClaimRead, ClaimExec,
                ValidateChunks, MergePart, Commit, FinishSession, CleanupParts,
                FinalGoto
    <3>5. ASSUME NEW b \in Aborts, AbortStep(b) PROVE FALSE
      BY <2>1, <3>5 DEF Untouched, AbortStep, AbortRead, AbortClean, AbortDelete,
                AbortGoto
    <3>6. ASSUME ReaperStep PROVE Untouched'
      BY <2>1, <3>6 DEF Untouched, ReaperStep, ReapScan, ReapParts, ReapSession,
                WalkParts, CheckOwner, DeleteOrphans, ReaperGoto, Present, Exists,
                callVars, finVars
    <3> QED BY <2>2, <3>1, <3>2, <3>3, <3>4, <3>5, <3>6 DEF Next
  <2>3. CASE UNCHANGED vars
    BY <2>1, <2>3 DEF vars, callVars, finVars, reapVars, Untouched, Present
  <2> QED BY <2>2, <2>3
<1>2. ASSUME reaper' = "deleting" PROVE status' = "gone"
  <2>1. CASE reaper = "deleting"
    BY <2>1 DEF OrphanInv, vars
  <2>2. CASE reaper # "deleting"
    <3>1. CASE CheckOwner
      BY <1>2, <3>1 DEF CheckOwner, ReaperGoto, Exists, OrphanInv, Untouched,
                        TypeOK, keyVars
    <3>2. CASE ReaperStep /\ ~ CheckOwner
      BY <1>2, <2>2, <3>2 DEF ReaperStep, ReapScan, ReapParts, ReapSession,
                WalkParts, DeleteOrphans, ReaperGoto
    <3>3. ASSUME NEW a \in Appends, AppendStep(a) \/ WorkerStep(a)
          PROVE  reaper' = reaper
      BY <3>3 DEF AppendStep, WorkerStep, AppendChunk, CheckOffset, SubmitChunk,
                Answer, Disconnect, OpenPart, WritePart,
                FailPart, RejectPart, UpdateOffset, reapVars
    <3>4. ASSUME NEW z \in Finalizes, FinalizeStep(z) PROVE reaper' = reaper
      BY <3>4 DEF FinalizeStep, ClaimRead, ClaimExec, ValidateChunks, MergePart,
                Commit, FinishSession, CleanupParts, reapVars
    <3>5. ASSUME NEW b \in Aborts, AbortStep(b) PROVE reaper' = reaper
      BY <3>5 DEF AbortStep, AbortRead, AbortClean, AbortDelete, reapVars
    <3>6. CASE CreateSession \/ Age \/ Expire \/ Crash
      BY <1>2, <2>2, <3>6 DEF CreateSession, Age, Expire, Crash, reapVars
    <3> QED BY <1>2, <2>2, <3>1, <3>2, <3>3, <3>4, <3>5, <3>6 DEF Next, vars, reapVars
  <2> QED BY <2>1, <2>2
<1> QED BY <1>1, <1>2 DEF OrphanInv

\* The invariant holds.
LEMMA OrphanInvariant == Spec => []OrphanInv
<1>1. Init => OrphanInv
  BY DEF Init, OrphanInv, Untouched, Present, NoParts
<1>2. /\ TypeOK /\ OrphanInv /\ [Next]_vars
      /\ [status = "gone" => status' = "gone"]_vars
      => OrphanInv'
  BY OrphanInductive
<1> QED BY <1>1, <1>2, TypeCorrect, SessionGoneForever, PTL DEF Spec, GoneForever

\* What the orphan pass deletes belongs to no session (reaper.go:147-198):
\* between the look for the owner and the delete none can appear.
THEOREM OrphansStayOrphans == Spec => []OrphansHaveNoSession
<1>1. OrphanInv => OrphansHaveNoSession
  BY DEF OrphanInv, OrphansHaveNoSession, Exists
<1> QED BY <1>1, OrphanInvariant, PTL

-----------------------------------------------------------------------------
(* What a chunk's acknowledgement is worth.                                *)

\* Nothing clears the session: it has not been claimed, no abort has begun and
\* the reaper is not between its parts and its key.
Calm ==
  /\ status \in {"none", "active"}
  /\ \A b \in Aborts : abort[b] \in {"idle", "refused"}
  /\ reaper # "reaped"

\* A whole part is there, or other requests for the index account for it.
Stored(i) ==
  \/ Whole(i)
  \/ Contended(i)
  \/ \E c \in Appends : slot[c] = i /\ Spoils(c)

\* The file a task writes is still the part, or a task that failed removed it.
Linked(a) ==
  \/ parts[slot[a]] # None /\ a \in parts[slot[a]].writers
  \/ \E c \in Appends : slot[c] = slot[a] /\ task[c] = "broken"

\* What a task has done so far is there.
Keeps(a) ==
  /\ task[a] = "done" => chunks[slot[a]] # None
  /\ task[a] \in {"written", "done"} => Stored(slot[a])
  /\ task[a] = "writing" => Linked(a)

\* The session before its claim has no finalize at work; a request has its task
\* and no other, and tells success only of a task that is done; only a key
\* that can expire is reaped; and what tasks have done is there.
KeptInv ==
  /\ status \in {"none", "active"} =>
       \A z \in Finalizes :
         final[z] \notin {"claimed", "merging", "committed", "cleaning"}
  /\ \A a \in Appends :
       /\ call[a] \in {"idle", "reading", "admitted"} => task[a] = "none"
       /\ call[a] = "acked" => task[a] = "done"
  /\ ttl = "expiring" \/ reaper \in {"listed", "reaped"} => "expire" \in Faults
  /\ Calm => \A a \in Appends : Keeps(a)

\* A reaper that has begun on an expired session gets to its end.
ReapsToTheEnd == "expire" \in Faults => Faults \intersect {"redis", "crash"} = {}

\* The steps that clear no part: they keep what is done, or add to it.
LEMMA KeptUndisturbed ==
  ASSUME KeptInv,
         UNCHANGED <<slot, parts>>,
         Calm' => Calm,
         \A i \in Slots : chunks[i] # None => chunks'[i] # None,
         \A a \in Appends : /\ slot[a] \in Slots
                            /\ task'[a] = "done" => task[a] = "done"
                            /\ task'[a] \in {"written", "writing"} => task'[a] = task[a]
                            /\ task[a] = "broken" => task'[a] = "broken"
                            /\ task[a] = "writing" => Spoils(a)'
  PROVE  Calm' => \A a \in Appends : Keeps(a)'
<1> SUFFICES ASSUME Calm', NEW a \in Appends PROVE Keeps(a)'
  OBVIOUS
<1>1. Keeps(a)
  BY DEF KeptInv
<1>2. Stored(slot[a]) => Stored(slot[a])'
  BY DEF Stored, Spoils, Whole, Contended
<1>3. Linked(a) => Linked(a)'
  BY DEF Linked
<1> QED BY <1>1, <1>2, <1>3 DEF Keeps

\* Every step keeps it.
LEMMA KeptInductive ==
  ASSUME TypeOK, OrphanInv, KeptInv, ReapsToTheEnd, [Next]_vars PROVE KeptInv'
<1> DEFINE Cleared == {"claimed", "merging", "committed", "cleaning"}
           Settles == Calm => \A a \in Appends : Keeps(a)
           Asked(a) == /\ call[a] \in {"idle", "reading", "admitted"} => task[a] = "none"
                       /\ call[a] = "acked" => task[a] = "done"
           Begun == ttl = "expiring" \/ reaper \in {"listed", "reaped"}
           Claims == status \in {"none", "active"} =>
                       \A z \in Finalizes : final[z] \notin Cleared
           Asks == \A a \in Appends : Asked(a)
           Reaps == Begun => "expire" \in Faults
           Kept == Claims /\ Asks /\ Reaps /\ Settles
<1>a. Kept /\ (Kept' => KeptInv')
  BY DEF KeptInv
<1>1. CASE CreateSession
  <2>1. Settles'
    BY <1>1, KeptUndisturbed DEF CreateSession, Calm, callVars, reapVars, TypeOK, Spoils
  <2> QED BY <1>1, <1>a, <2>1 DEF CreateSession, callVars, finVars, reapVars
<1>2. CASE Age
  <2>1. Settles'
    BY <1>2, KeptUndisturbed DEF Age, Calm, callVars, reapVars, TypeOK, Spoils
  <2> QED BY <1>2, <1>a, <2>1 DEF Age, callVars, finVars, reapVars
<1>3. CASE Expire
  <2>1. Settles'
    BY <1>3 DEF Expire, Calm
  <2> QED BY <1>3, <1>a, <2>1 DEF Expire, callVars, finVars, reapVars
<1>4. ASSUME NEW a \in Appends, AppendStep(a) \/ WorkerStep(a)
      PROVE  KeptInv'
  <2>1. Claims' /\ Reaps' /\ (Calm' => Calm)
    BY <1>4, <1>a DEF AppendStep, WorkerStep, AppendChunk, CheckOffset, SubmitChunk,
                Answer, Disconnect, OpenPart, WritePart,
                FailPart, RejectPart, UpdateOffset,
                TouchSession, keyVars, finVars, reapVars, Calm
  <2>2. Asks'
    BY <1>4, <1>a DEF AppendStep, WorkerStep, AppendChunk, CheckOffset, SubmitChunk,
                Answer, Disconnect, OpenPart, WritePart,
                FailPart, RejectPart, UpdateOffset,
                CallGoto, TaskGoto, TypeOK
  <2>3. ASSUME NEW i \in Slots, NEW b \in Bodies, AppendChunk(a, i, b) PROVE KeptInv'
    <3> SUFFICES ASSUME Calm', NEW e \in Appends PROVE Keeps(e)'
      BY <2>1, <2>2, <1>a
    <3>1. task[a] = "none" /\ \A c \in Appends \ {a} : slot'[c] = slot[c] /\ body'[c] = body[c]
      BY <2>3, <1>a DEF AppendChunk, CallGoto, TypeOK
    <3>2. UNCHANGED <<task, chunks, parts>>
      BY <2>3 DEF AppendChunk
    <3>3. CASE e = a
      BY <3>1, <3>2, <3>3 DEF Keeps
    <3>4. CASE e # a
      <4>1. Stored(slot[e]) => Stored(slot[e])'
        BY <3>1, <3>2, <3>4 DEF Stored, Spoils, Whole, Contended
      <4>2. Linked(e) => Linked(e)'
        BY <3>1, <3>2, <3>4 DEF Linked
      <4>3. Keeps(e) /\ slot'[e] = slot[e]
        BY <1>a, <2>1, <3>1, <3>4
      <4> QED BY <3>2, <4>1, <4>2, <4>3 DEF Keeps
    <3> QED BY <3>3, <3>4
  <2>4. CASE CheckOffset(a) \/ SubmitChunk(a) \/ Answer(a) \/ Disconnect(a)
    <3>1. UNCHANGED <<slot, body, chunks, parts>>
      BY <2>4 DEF CheckOffset, SubmitChunk, Answer, Disconnect
    <3>2. \A c \in Appends : task'[c] = task[c] \/ (task[c] = "none" /\ task'[c] = "queued")
      BY <2>4 DEF CheckOffset, SubmitChunk, Answer, Disconnect, TaskGoto, TypeOK
    <3>3. \A c \in Appends : /\ slot[c] \in Slots
                             /\ task'[c] = "done" => task[c] = "done"
                             /\ task'[c] \in {"written", "writing"} => task'[c] = task[c]
                             /\ task[c] = "broken" => task'[c] = "broken"
                             /\ task[c] = "writing" => Spoils(c)'
      BY <3>2 DEF TypeOK, Spoils
    <3>4. Settles'
      BY <2>1, <3>1, <3>3, KeptUndisturbed
    <3> QED BY <1>a, <2>1, <2>2, <3>4
  <2>a. ASSUME WorkerStep(a),
               slot[a] \in Slots,
               UNCHANGED <<slot, body>>,
               \A c \in Appends \ {a} : task'[c] = task[c],
               \A i \in Slots : chunks[i] # None => chunks'[i] # None,
               \A i \in Slots : i = slot[a] \/ parts'[i] = parts[i],
               Keeps(a)',
               Stored(slot[a]) => Stored(slot[a])',
               \A e \in Appends : slot[e] = slot[a] /\ task'[e] = "writing" /\ Linked(e)
                                 => Linked(e)'
        PROVE  KeptInv'
    <3> SUFFICES ASSUME Calm', NEW e \in Appends, e # a PROVE Keeps(e)'
      BY <2>1, <2>2, <2>a, <1>a
    <3>1. Keeps(e) /\ slot[e] \in Slots
      BY <1>a, <2>1 DEF TypeOK
    <3>2. Stored(slot[e]) => Stored(slot[e])'
      BY <2>a, <3>1 DEF Stored, Spoils, Whole, Contended
    <3>3. task'[e] = "writing" /\ Linked(e) => Linked(e)'
      BY <2>a, <3>1 DEF Linked
    <3> QED BY <2>a, <3>1, <3>2, <3>3 DEF Keeps
  <2>b. slot[a] \in Slots
    BY DEF TypeOK
  <2>5. CASE OpenPart(a)
    <3>1. /\ UNCHANGED <<slot, body, chunks>>
          /\ \A c \in Appends \ {a} : task'[c] = task[c]
          /\ task[a] = "queued" /\ task'[a] = "writing"
          /\ \A i \in Slots : i = slot[a] \/ parts'[i] = parts[i]
      BY <2>5, <2>b DEF OpenPart, TaskGoto, TypeOK
    <3>2. /\ parts'[slot[a]] = [holds |-> Torn, writers |-> Writing(slot[a]) \union {a}]
          /\ parts'[slot[a]] # None
      <4>1. parts'[slot[a]] = [holds |-> Torn, writers |-> Writing(slot[a]) \union {a}]
        BY <2>5, <2>b DEF OpenPart, TypeOK
      <4>2. Writing(slot[a]) \in SUBSET Appends
        BY <2>b DEF Writing, TypeOK, Files
      <4> QED BY <4>1, <4>2, NoneIsNoFile DEF Files
    <3>3. Linked(a)' /\ Stored(slot[a])'
      BY <3>1, <3>2 DEF Linked, Stored, Spoils
    <3>4. ASSUME NEW e \in Appends, slot[e] = slot[a], task'[e] = "writing", Linked(e)
          PROVE  Linked(e)'
      <4>1. CASE \E c \in Appends : slot[c] = slot[e] /\ task[c] = "broken"
        BY <3>1, <4>1 DEF Linked
      <4>2. CASE parts[slot[e]] # None /\ e \in parts[slot[e]].writers
        BY <3>1, <3>2, <3>4, <4>2 DEF Linked, Writing
      <4> QED BY <3>4, <4>1, <4>2 DEF Linked
    <3>5. Keeps(a)'
      BY <3>1, <3>3 DEF Keeps
    <3> QED BY <2>5, <2>a, <2>b, <3>1, <3>3, <3>4, <3>5 DEF WorkerStep
  <2>6. CASE WritePart(a)
    <3>1. /\ UNCHANGED <<slot, body, chunks>>
          /\ \A c \in Appends \ {a} : task'[c] = task[c]
          /\ task[a] = "writing" /\ task'[a] = "written"
      BY <2>6 DEF WritePart, TaskGoto, TypeOK
    <3>2. \A i \in Slots : i = slot[a] \/ parts'[i] = parts[i]
      BY <2>6, <2>b DEF WritePart, TypeOK
    <3>3. ASSUME NEW c \in Appends, slot[c] = slot[a], task[c] = "broken"
          PROVE  Stored(slot[a])' /\ \A e \in Appends : slot[e] = slot[a] => Linked(e)'
      <4>1. task'[c] = "broken" /\ slot'[c] = slot[c]
        BY <3>1, <3>3
      <4> QED BY <3>1, <3>3, <4>1 DEF Stored, Spoils, Linked
    <3>4. ASSUME parts[slot[a]] # None, a \in parts[slot[a]].writers
          PROVE  /\ Stored(slot[a])'
                 /\ parts'[slot[a]] # None
                 /\ parts'[slot[a]].writers = parts[slot[a]].writers
      <4>1. parts[slot[a]] \in Files /\ a \in Writing(slot[a])
        BY <2>b, <3>1, <3>4 DEF TypeOK, Writing
      <4>2. PICK h \in Outcomes(a, parts[slot[a]]) :
                   parts' = [parts EXCEPT ![slot[a]].holds = h]
        BY <2>6, <4>1 DEF WritePart
      <4>3. h \in Bodies \union {Torn}
        BY <4>1, <4>2 DEF Outcomes, Files, TypeOK
      <4>4. /\ parts'[slot[a]].holds = h
            /\ parts'[slot[a]].writers = parts[slot[a]].writers
            /\ parts'[slot[a]] \in Files
        BY <2>b, <4>1, <4>2, <4>3 DEF Files, TypeOK
      <4>5. parts'[slot[a]] # None
        BY <4>4, NoneIsNoFile
      <4>6. CASE parts[slot[a]].writers = {a}
        <5>1. h = body[a] /\ body[a] \in Bodies
          BY <4>2, <4>6 DEF Outcomes, TypeOK
        <5> QED BY <3>1, <4>4, <4>5, <5>1, TornIsNoBody DEF Stored, Whole
      <4>7. CASE parts[slot[a]].writers # {a}
        BY <3>1, <3>4, <4>4, <4>5, <4>7 DEF Stored, Contended
      <4> QED BY <4>4, <4>5, <4>6, <4>7
    <3>5. ASSUME Calm' PROVE Linked(a)
      BY <1>a, <2>1, <3>1, <3>5 DEF Keeps
    <3>6. ASSUME NEW e \in Appends, slot[e] = slot[a], Linked(e), Linked(a) PROVE Linked(e)'
      BY <3>1, <3>3, <3>4, <3>6 DEF Linked
    <3>7. ASSUME Linked(a) PROVE Stored(slot[a])'
      BY <3>3, <3>4, <3>7 DEF Linked
    <3>8. ASSUME Linked(a) PROVE Keeps(a)'
      BY <3>1, <3>7, <3>8 DEF Keeps
    <3>9. CASE Calm'
      BY <2>6, <2>a, <2>b, <3>1, <3>2, <3>5, <3>6, <3>7, <3>8, <3>9 DEF WorkerStep
    <3>10. CASE ~ Calm'
      BY <1>a, <2>1, <2>2, <3>10
    <3> QED BY <3>9, <3>10
  <2>7. ASSUME UNCHANGED <<slot, body, chunks>>,
               \A c \in Appends \ {a} : task'[c] = task[c],
               task'[a] = "broken",
               \A i \in Slots : i = slot[a] \/ parts'[i] = parts[i],
               WorkerStep(a)
        PROVE  KeptInv'
    <3>1. Stored(slot[a])' /\ \A e \in Appends : slot[e] = slot[a] => Linked(e)'
      BY <2>7 DEF Stored, Spoils, Linked
    <3>2. Keeps(a)'
      BY <2>7 DEF Keeps
    <3> QED BY <2>7, <2>a, <2>b, <3>1, <3>2
  <2>8. CASE FailPart(a)
    <3>1. CASE task[a] = "writing"
      <4>1. /\ UNCHANGED <<slot, body, chunks>>
            /\ \A c \in Appends \ {a} : task'[c] = task[c]
            /\ task'[a] = "broken"
            /\ \A i \in Slots : i = slot[a] \/ parts'[i] = parts[i]
        BY <2>8, <3>1 DEF FailPart, TaskGoto, TypeOK
      <4> QED BY <2>7, <2>8, <4>1 DEF WorkerStep
    <3>2. CASE task[a] # "writing"
      <4>1. /\ UNCHANGED <<slot, body, chunks, parts>>
            /\ \A c \in Appends : task'[c] = task[c] \/ (task[c] = "queued" /\ task'[c] = "failed")
        BY <2>8, <3>2 DEF FailPart, TaskGoto, TypeOK
      <4>2. Settles'
        BY <2>1, <4>1, KeptUndisturbed DEF TypeOK, Spoils
      <4> QED BY <1>a, <2>1, <2>2, <4>2
    <3> QED BY <3>1, <3>2
  <2>9. CASE RejectPart(a)
    <3>1. /\ UNCHANGED <<slot, body, chunks>>
          /\ \A c \in Appends \ {a} : task'[c] = task[c]
          /\ task'[a] = "broken"
          /\ \A i \in Slots : i = slot[a] \/ parts'[i] = parts[i]
      BY <2>9 DEF RejectPart, TaskGoto, TypeOK
    <3> QED BY <2>7, <2>9, <3>1 DEF WorkerStep
  <2>10. CASE UpdateOffset(a)
    <3>1. /\ UNCHANGED <<slot, body, parts>>
          /\ \A c \in Appends \ {a} : task'[c] = task[c]
          /\ task[a] = "written" /\ task'[a] \in {"done", "failed"}
          /\ task'[a] = "done" => chunks'[slot[a]] # None
          /\ \A i \in Slots : chunks[i] # None => chunks'[i] # None
      BY <2>10, IntendedIsABody DEF UpdateOffset, TaskGoto, TypeOK
    <3>2. Stored(slot[a]) => Stored(slot[a])'
      BY <3>1 DEF Stored, Spoils, Whole, Contended
    <3>3. \A e \in Appends : Linked(e) => Linked(e)'
      BY <3>1 DEF Linked
    <3>4. Calm' => Stored(slot[a])
      BY <1>a, <2>1, <3>1 DEF Keeps
    <3>5. Calm' => Keeps(a)'
      BY <3>1, <3>2, <3>4 DEF Keeps
    <3>6. CASE Calm'
      BY <2>10, <2>a, <2>b, <3>1, <3>2, <3>3, <3>5, <3>6 DEF WorkerStep
    <3>7. CASE ~ Calm'
      BY <1>a, <2>1, <2>2, <3>7
    <3> QED BY <3>6, <3>7
  <2> QED BY <1>4, <2>3, <2>4, <2>5, <2>6, <2>8, <2>9, <2>10 DEF AppendStep, WorkerStep
<1>5. ASSUME NEW z \in Finalizes, FinalizeStep(z) PROVE KeptInv'
  <2>1. UNCHANGED <<call, task, slot, body, abort, reaper>>
    BY <1>5 DEF FinalizeStep, ClaimRead, ClaimExec, ValidateChunks, MergePart,
                Commit, FinishSession, CleanupParts, callVars, reapVars
  <2>2. Claims'
    BY <1>5, <1>a DEF FinalizeStep, ClaimRead, ClaimExec, ValidateChunks, MergePart,
                Commit, FinishSession, CleanupParts, FinalGoto, TouchSession,
                DeleteSession, keyVars, TypeOK
  <2>3. Reaps'
    BY <1>5, <1>a, <2>1 DEF FinalizeStep, ClaimRead, ClaimExec, ValidateChunks,
                MergePart, Commit, FinishSession, CleanupParts, TouchSession,
                DeleteSession, keyVars
  <2>4. Settles'
    <3>1. SUFFICES ASSUME Calm' PROVE Settles'
      OBVIOUS
    <3>2. status = status' /\ Calm
      BY <1>5, <2>1, <3>1 DEF FinalizeStep, ClaimRead, ClaimExec, ValidateChunks,
                MergePart, Commit, FinishSession, CleanupParts, TouchSession,
                DeleteSession, keyVars, Calm
    <3>3. UNCHANGED <<chunks, parts>>
      BY <1>5, <1>a, <3>1, <3>2 DEF FinalizeStep, ClaimRead, ClaimExec, ValidateChunks,
                MergePart, Commit, FinishSession, CleanupParts, FinalGoto,
                DeleteSession, keyVars, Calm
    <3> QED BY <2>1, <3>2, <3>3, KeptUndisturbed DEF TypeOK, Spoils
  <2> QED BY <1>a, <2>1, <2>2, <2>3, <2>4
<1>6. ASSUME NEW b \in Aborts, AbortStep(b) PROVE KeptInv'
  <2>1. UNCHANGED <<call, task, slot, body, final, ttl, reaper>>
    BY <1>6 DEF AbortStep, AbortRead, AbortClean, AbortDelete, DeleteSession,
                keyVars, callVars, finVars, reapVars
  <2>2. status' \in {status, "gone"}
    BY <1>6 DEF AbortStep, AbortRead, AbortClean, AbortDelete, DeleteSession, keyVars
  <2>3. ~ Calm'
    BY <1>6 DEF AbortStep, AbortRead, AbortClean, AbortDelete, AbortGoto, Calm,
                Exists, TypeOK, keyVars, OrphanInv
  <2> QED BY <1>a, <2>1, <2>2, <2>3
<1>7. CASE ReaperStep
  <2>1. UNCHANGED <<call, task, slot, body, final, ttl, abort>>
    BY <1>7 DEF ReaperStep, ReapScan, ReapParts, ReapSession, WalkParts, CheckOwner,
                DeleteOrphans, DeleteSession, keyVars, callVars, finVars
  <2>2. status' \in {status, "gone"}
    BY <1>7 DEF ReaperStep, ReapScan, ReapParts, ReapSession, WalkParts, CheckOwner,
                DeleteOrphans, DeleteSession, keyVars
  <2>3. Reaps'
    BY <1>7, <1>a, <2>1 DEF ReaperStep, ReapScan, ReapParts, ReapSession, WalkParts,
                CheckOwner, DeleteOrphans, ReaperGoto
  <2>4. Settles'
    <3>1. SUFFICES ASSUME Calm' PROVE Settles'
      OBVIOUS
    <3>2. ~ ReapSession
      <4>1. ASSUME ReapSession PROVE "expire" \in Faults /\ "redis" \in Faults
        BY <1>a, <3>1, <4>1 DEF ReapSession, ReaperGoto, DeleteSession, Calm
      <4> QED BY <4>1 DEF ReapsToTheEnd
    <3>3. ~ ReapParts
      BY <3>1 DEF ReapParts, ReaperGoto, Calm
    <3>4. ~ DeleteOrphans
      BY <2>2, <3>1 DEF DeleteOrphans, ReaperGoto, Calm, OrphanInv
    <3>5. UNCHANGED <<status, chunks, parts>> /\ reaper # "reaped"
      BY <1>7, <3>2, <3>3, <3>4 DEF ReaperStep, ReapScan, WalkParts, CheckOwner,
                ReaperGoto, keyVars
    <3> QED BY <2>1, <3>1, <3>5, KeptUndisturbed DEF Calm, TypeOK, Spoils
  <2> QED BY <1>a, <2>1, <2>2, <2>3, <2>4
<1>8. CASE Crash
  <2>1. UNCHANGED <<status, ttl, chunks, parts, slot, body>> /\ reaper' = "idle"
    BY <1>8 DEF Crash
  <2>2. Claims'
    BY <1>8, <1>a, <2>1 DEF Crash, Settled, FinalEnds, TypeOK
  <2>3. /\ \A a \in Appends :
              \/ task'[a] = task[a]
              \/ task[a] = "writing" /\ task'[a] = "broken"
              \/ task[a] \notin TaskEnds \union {"writing"} /\ task'[a] = "dead"
        /\ \A a \in Appends : call'[a] = call[a] \/ call'[a] = "dead"
        /\ \A b \in Aborts : abort'[b] = abort[b] \/ abort'[b] = "dead"
    BY <1>8 DEF Crash, Settled, TypeOK, TaskEnds
  <2>4. Asks'
    BY <1>a, <2>3 DEF TaskEnds
  <2>5. Calm' => Calm
    <3>1. reaper # "reaped"
      BY <1>8, <1>a DEF Crash, ReapsToTheEnd
    <3> QED BY <2>1, <2>3, <3>1 DEF Calm
  <2>6. Settles'
    BY <2>1, <2>3, <2>5, KeptUndisturbed DEF TaskEnds, TypeOK, Spoils
  <2> QED BY <1>a, <2>1, <2>2, <2>4, <2>6
<1>9. CASE UNCHANGED vars
  <2>1. Settles'
    BY <1>9, KeptUndisturbed DEF vars, Calm, callVars, reapVars, TypeOK, Spoils
  <2> QED BY <1>9, <1>a, <2>1 DEF vars, callVars, finVars, reapVars
<1> QED BY <1>1, <1>2, <1>3, <1>4, <1>5, <1>6, <1>7, <1>8, <1>9 DEF Next

\* A chunk that was acknowledged stays listed and stored as a whole until the
\* session is claimed, aborted or reaped, whatever other requests, late tasks,
\* failed Redis calls and crashes do, unless other requests for the same index
\* spoil it: one that is being written, whose write fails or is killed half-way,
\* that its checksum refutes, or two that write at once (processChunkBytes,
\* upload.go:286, and LocalFS.Write, localfs.go:126).
\* A reaper pass that stops between the parts and the key is the one step that
\* would break it: hence the assumption.
THEOREM AcknowledgedChunksStay ==
  ASSUME ReapsToTheEnd PROVE Spec => []AckedChunkKept
<1>1. Init => KeptInv
  <2>1. NoParts = [i \in Slots |-> None]
    BY DEF NoParts
  <2> QED BY <2>1 DEF Init, KeptInv, Keeps
<1>2. TypeOK /\ OrphanInv /\ KeptInv /\ [Next]_vars => KeptInv'
  BY KeptInductive
<1>3. KeptInv => AckedChunkKept
  BY DEF KeptInv, Calm, Keeps, Stored, AckedChunkKept
<1> QED BY <1>1, <1>2, <1>3, TypeCorrect, OrphanInvariant, PTL DEF Spec
-----------------------------------------------------------------------------
(* What is committed.                                                      *)

\* Every index of the upload has been stored and recorded by some task.
AllStored == \A i \in Indices : \E c \in Appends : slot[c] = i /\ task[c] = "done"

\* As far as it goes, the content holds what the only writer of an index sent.
Sent(content) ==
  \A a \in Appends :
    SoleWriter(a) /\ slot[a] \in Indices /\ slot[a] < Len(content)
      => content[slot[a] + 1] = body[a]

\* A file has been opened by tasks for its index alone; what the only writer of
\* an index has written is there, if there is a file at all.
FileInv ==
  /\ \A i \in Slots : parts[i] # None =>
       \A c \in parts[i].writers : slot[c] = i /\ task[c] # "none"
  /\ \A a \in Appends : SoleWriter(a) /\ parts[slot[a]] # None =>
       /\ task[a] = "writing" => parts[slot[a]].writers = {a}
       /\ task[a] \in {"written", "done"} => parts[slot[a]].holds = body[a]

\* Only written chunks are recorded; a merge begins with nothing when every index
\* has been recorded, and takes over what is in the files.
SentInv ==
  /\ \A a \in Appends : call[a] = "idle" => task[a] = "none"
  /\ \A i \in Slots : chunks[i] # None =>
       \E c \in Appends : slot[c] = i /\ task[c] = "done"
  /\ FileInv
  /\ \A z \in Finalizes :
       /\ final[z] \in {"idle", "claiming", "claimed"} => merged[z] = <<>>
       /\ final[z] = "merging" => AllStored /\ Sent(merged[z])
  /\ \A k \in DOMAIN commits : AllStored /\ Len(commits[k]) = NumChunks
                                /\ Sent(commits[k])

\* What a task has begun, and what it has done, stays.
Persists ==
  \A a \in Appends :
    /\ task[a] # "none" => task'[a] # "none" /\ slot'[a] = slot[a] /\ body'[a] = body[a]
    /\ task[a] = "done" => task'[a] = "done"

LEMMA TasksPersist ==
  ASSUME TypeOK, SentInv, [Next]_vars PROVE Persists
<1>1. ASSUME NEW a \in Appends, AppendStep(a) PROVE Persists
  <2>1. ASSUME NEW i \in Slots, NEW b \in Bodies, AppendChunk(a, i, b) PROVE Persists
    BY <2>1 DEF AppendChunk, CallGoto, SentInv, Persists, TypeOK
  <2>2. CASE CheckOffset(a) \/ SubmitChunk(a) \/ Answer(a) \/ Disconnect(a)
    BY <2>2 DEF CheckOffset, SubmitChunk, Answer, Disconnect, TaskGoto, Persists, TypeOK
  <2> QED BY <1>1, <2>1, <2>2 DEF AppendStep
<1>2. ASSUME NEW a \in Appends, WorkerStep(a) PROVE Persists
  BY <1>2 DEF WorkerStep, OpenPart, WritePart, FailPart, RejectPart, UpdateOffset,
              TaskGoto, Persists, TypeOK
<1>3. CASE Crash
  BY <1>3 DEF Crash, Settled, TaskEnds, Persists, TypeOK
<1>4. ASSUME NEW z \in Finalizes, FinalizeStep(z) PROVE Persists
  BY <1>4 DEF FinalizeStep, ClaimRead, ClaimExec, ValidateChunks, MergePart, Commit,
              FinishSession, CleanupParts, callVars, Persists
<1>5. ASSUME NEW b \in Aborts, AbortStep(b) PROVE Persists
  BY <1>5 DEF AbortStep, AbortRead, AbortClean, AbortDelete, callVars, Persists
<1>6. CASE ReaperStep
  BY <1>6 DEF ReaperStep, ReapScan, ReapParts, ReapSession, WalkParts, CheckOwner,
              DeleteOrphans, callVars, Persists
<1>7. CASE CreateSession \/ Age \/ Expire \/ UNCHANGED vars
  BY <1>7 DEF CreateSession, Age, Expire, vars, callVars, Persists
<1> QED BY <1>1, <1>2, <1>3, <1>4, <1>5, <1>6, <1>7 DEF Next

\* The only writer after a step was so before it, if it had begun.
LEMMA SoleBefore ==
  ASSUME Persists, NEW a \in Appends, SoleWriter(a)', task[a] # "none"
  PROVE  SoleWriter(a) /\ slot'[a] = slot[a] /\ body'[a] = body[a]
BY DEF Persists, SoleWriter

\* The only writer of an index that has been stored is the one that stored it.
LEMMA SoleStored ==
  ASSUME AllStored, NEW a \in Appends, SoleWriter(a), slot[a] \in Indices
  PROVE  task[a] = "done"
BY DEF AllStored, SoleWriter

\* What has been merged or committed stays as it was sent.
LEMMA SentStays ==
  ASSUME Persists, AllStored, NEW content, Sent(content)
  PROVE  /\ AllStored'
         /\ \A a \in Appends : SoleWriter(a)' /\ slot'[a] \in Indices /\ slot'[a] < Len(content)
              => content[slot'[a] + 1] = body'[a]
<1>1. AllStored'
  BY DEF AllStored, Persists
<1>2. ASSUME NEW a \in Appends, SoleWriter(a)', slot'[a] \in Indices PROVE task[a] # "none"
  <2>1. PICK c \in Appends : slot[c] = slot'[a] /\ task[c] = "done"
    BY <1>2 DEF AllStored
  <2>2. slot'[c] = slot'[a] /\ task'[c] = "done"
    BY <2>1 DEF Persists
  <2>3. c = a
    BY <1>2, <2>2 DEF SoleWriter
  <2> QED BY <2>1, <2>3
<1>3. ASSUME NEW a \in Appends, SoleWriter(a)', slot'[a] \in Indices, slot'[a] < Len(content)
      PROVE  content[slot'[a] + 1] = body'[a]
  BY <1>2, <1>3, SoleBefore DEF Sent
<1> QED BY <1>1, <1>3

\* Every step keeps the files right.
LEMMA FilesInductive ==
  ASSUME TypeOK, SentInv, Persists, [Next]_vars PROVE FileInv'
<1> DEFINE Fits(a) == SoleWriter(a) /\ parts[slot[a]] # None =>
             /\ task[a] = "writing" => parts[slot[a]].writers = {a}
             /\ task[a] \in {"written", "done"} => parts[slot[a]].holds = body[a]
           Opened == \A i \in Slots : parts[i] # None =>
             \A c \in parts[i].writers : slot[c] = i /\ task[c] # "none"
<1>a. Opened /\ \A a \in Appends : Fits(a)
  BY DEF SentInv, FileInv
<1>b. (Opened /\ \A a \in Appends : Fits(a))' => FileInv'
  BY DEF FileInv
<1>c. \A i \in Slots : parts[i] # None => parts[i].writers \in SUBSET Appends
  BY DEF TypeOK, Files
<1>d. \A a \in Appends : slot[a] \in Slots
  BY DEF TypeOK
<1>1. ASSUME \A i \in Slots : parts'[i] \in {parts[i], None},
             \A a \in Appends : task'[a] \in {"writing", "written", "done"} => task'[a] = task[a]
      PROVE  FileInv'
  <2>1. Opened'
    BY <1>1, <1>a, <1>c DEF Persists
  <2>2. ASSUME NEW a \in Appends, task'[a] \in {"writing", "written", "done"} PROVE Fits(a)'
    <3>1. task[a] = task'[a] /\ slot'[a] = slot[a] /\ body'[a] = body[a]
      BY <1>1, <2>2 DEF Persists
    <3>2. SoleWriter(a)' => SoleWriter(a)
      BY <2>2, <3>1, SoleBefore
    <3>3. parts'[slot[a]] \in {parts[slot[a]], None}
      BY <1>1, <1>d
    <3> QED BY <1>a, <3>1, <3>2, <3>3
  <2>3. \A a \in Appends : Fits(a)'
    BY <2>2
  <2> QED BY <1>b, <2>1, <2>3
<1>2. ASSUME NEW a \in Appends, AppendStep(a) PROVE FileInv'
  <2>1. parts' = parts
    BY <1>2 DEF AppendStep, AppendChunk, CheckOffset, SubmitChunk, Answer, Disconnect
  <2>2. \A c \in Appends : task'[c] = task[c] \/ task'[c] = "queued"
    BY <1>2 DEF AppendStep, AppendChunk, CheckOffset, SubmitChunk, Answer, Disconnect,
                TaskGoto, TypeOK
  <2> QED BY <1>1, <2>1, <2>2
<1>3. ASSUME NEW a \in Appends, OpenPart(a) PROVE FileInv'
  <2>1. /\ UNCHANGED <<slot, body>>
        /\ task[a] = "queued" /\ task'[a] = "writing"
        /\ \A c \in Appends \ {a} : task'[c] = task[c]
        /\ \A i \in Slots : i = slot[a] \/ parts'[i] = parts[i]
        /\ parts'[slot[a]] = [holds |-> Torn, writers |-> Writing(slot[a]) \union {a}]
    BY <1>3, <1>d DEF OpenPart, TaskGoto, TypeOK
  <2>2. parts'[slot[a]].writers = Writing(slot[a]) \union {a}
    BY <2>1
  <2>3. \A c \in Writing(slot[a]) : c \in Appends /\ slot[c] = slot[a] /\ task[c] # "none"
    BY <1>a, <1>c, <1>d DEF Writing
  <2>4. Opened'
    <3>1. ASSUME NEW i \in Slots, parts'[i] # None, NEW c \in parts'[i].writers
          PROVE  slot'[c] = i /\ task'[c] # "none"
      <4>1. CASE i = slot[a]
        BY <2>1, <2>2, <2>3, <3>1, <4>1
      <4>2. CASE i # slot[a]
        BY <1>a, <1>c, <2>1, <3>1, <4>2
      <4> QED BY <4>1, <4>2
    <3> QED BY <3>1
  <2>5. ASSUME NEW e \in Appends, SoleWriter(e)', parts'[slot'[e]] # None
        PROVE  /\ task'[e] = "writing" => parts'[slot[e]].writers = {e}
               /\ task'[e] \in {"written", "done"} => parts'[slot[e]].holds = body[e]
    <3>1. CASE e = a
      <4>1. \A c \in Appends : slot[c] = slot[a] /\ task[c] # "none" => c = a
        BY <2>1, <2>5, <3>1 DEF SoleWriter
      <4>2. Writing(slot[a]) \subseteq {a}
        BY <2>3, <4>1
      <4> QED BY <2>1, <2>2, <3>1, <4>2
    <3>2. CASE e # a /\ slot[e] # slot[a]
      <4>1. parts'[slot[e]] = parts[slot[e]]
        BY <1>d, <2>1, <3>2
      <4>2. SoleWriter(e)
        BY <2>1, <2>5, <3>2 DEF SoleWriter
      <4> QED BY <1>a, <2>1, <2>5, <3>2, <4>1, <4>2
    <3>3. CASE e # a /\ slot[e] = slot[a]
      BY <2>1, <2>5, <3>3 DEF SoleWriter
    <3> QED BY <3>1, <3>2, <3>3
  <2>6. \A e \in Appends : Fits(e)'
    BY <2>1, <2>5
  <2> QED BY <1>b, <2>4, <2>6
<1>4. ASSUME NEW a \in Appends, WritePart(a) PROVE FileInv'
  <2>1. /\ UNCHANGED <<slot, body>>
        /\ task[a] = "writing" /\ task'[a] = "written"
        /\ \A c \in Appends \ {a} : task'[c] = task[c]
        /\ \A i \in Slots : i = slot[a] \/ parts'[i] = parts[i]
    BY <1>4, <1>d DEF WritePart, TaskGoto, TypeOK
  <2>2. CASE a \notin Writing(slot[a])
    <3>1. parts' = parts
      BY <1>4, <2>2 DEF WritePart
    <3>2. SoleWriter(a) => parts[slot[a]] = None
      BY <1>a, <2>1, <2>2 DEF Writing
    <3>3. Opened'
      BY <1>a, <1>c, <2>1, <3>1
    <3>4. ASSUME NEW e \in Appends PROVE Fits(e)'
      <4>1. SoleWriter(e)' => SoleWriter(e)
        BY <2>1 DEF SoleWriter
      <4>2. CASE e = a
        BY <2>1, <3>1, <3>2, <4>1, <4>2
      <4>3. CASE e # a
        BY <1>a, <2>1, <3>1, <4>1, <4>3
      <4> QED BY <4>2, <4>3
    <3> QED BY <1>b, <3>3, <3>4
  <2>3. CASE a \in Writing(slot[a])
    <3>1. PICK h \in Outcomes(a, parts[slot[a]]) :
                 parts' = [parts EXCEPT ![slot[a]].holds = h]
      BY <1>4, <2>3 DEF WritePart
    <3>2. parts[slot[a]] \in Files
      BY <1>d, <2>3 DEF TypeOK, Writing
    <3>3. parts'[slot[a]].holds = h /\ parts'[slot[a]].writers = parts[slot[a]].writers
      BY <1>d, <3>1, <3>2 DEF TypeOK, Files
    <3>4. Opened'
      <4>1. \A i \in Slots : parts'[i] # None =>
              parts[i] # None /\ parts'[i].writers = parts[i].writers
        BY <1>d, <2>1, <3>2, <3>3, NoneIsNoFile
      <4> QED BY <1>a, <1>c, <2>1, <4>1
    <3>5. ASSUME NEW e \in Appends, SoleWriter(e)', parts'[slot[e]] # None PROVE Fits(e)'
      <4>1. SoleWriter(e)
        BY <2>1, <3>5 DEF SoleWriter
      <4>2. CASE e = a
        <5>1. parts[slot[a]].writers = {a}
          BY <1>a, <2>1, <3>2, <4>1, <4>2, NoneIsNoFile
        <5>2. h = body[a]
          BY <3>1, <5>1 DEF Outcomes
        <5> QED BY <2>1, <3>3, <4>2, <5>2
      <4>3. CASE e # a
        <5>1. slot[e] # slot[a]
          BY <2>1, <4>1, <4>3 DEF SoleWriter
        <5>2. parts'[slot[e]] = parts[slot[e]]
          BY <1>d, <2>1, <5>1
        <5> QED BY <1>a, <2>1, <3>5, <4>1, <4>3, <5>2
      <4> QED BY <4>2, <4>3
    <3>6. \A e \in Appends : Fits(e)'
      BY <2>1, <3>5
    <3> QED BY <1>b, <3>4, <3>6
  <2> QED BY <2>2, <2>3
<1>5. ASSUME NEW a \in Appends, UpdateOffset(a) PROVE FileInv'
  <2>1. /\ UNCHANGED <<slot, body, parts>>
        /\ task[a] = "written" /\ task'[a] \in {"done", "failed"}
        /\ \A c \in Appends \ {a} : task'[c] = task[c]
    BY <1>5 DEF UpdateOffset, TaskGoto, TypeOK
  <2>2. Opened'
    BY <1>a, <1>c, <2>1
  <2>3. ASSUME NEW e \in Appends PROVE Fits(e)'
    <3>1. SoleWriter(e)' => SoleWriter(e)
      BY <2>1 DEF SoleWriter
    <3> QED BY <1>a, <2>1, <3>1
  <2> QED BY <1>b, <2>2, <2>3
<1>6. ASSUME NEW a \in Appends, FailPart(a) \/ RejectPart(a) PROVE FileInv'
  <2>1. \A i \in Slots : parts'[i] \in {parts[i], None}
    BY <1>6, <1>d DEF FailPart, RejectPart, TypeOK
  <2>2. \A c \in Appends : task'[c] = task[c] \/ task'[c] \in {"failed", "broken"}
    BY <1>6 DEF FailPart, RejectPart, TaskGoto, TypeOK
  <2> QED BY <1>1, <2>1, <2>2
<1>7. ASSUME NEW z \in Finalizes, FinalizeStep(z) PROVE FileInv'
  <2>1. task' = task /\ \A i \in Slots : parts'[i] \in {parts[i], None}
    BY <1>7 DEF FinalizeStep, ClaimRead, ClaimExec, ValidateChunks, MergePart, Commit,
                FinishSession, CleanupParts, callVars, Without
  <2> QED BY <1>1, <2>1
<1>8. ASSUME NEW b \in Aborts, AbortStep(b) PROVE FileInv'
  <2>1. task' = task /\ \A i \in Slots : parts'[i] \in {parts[i], None}
    BY <1>8 DEF AbortStep, AbortRead, AbortClean, AbortDelete, callVars, Without
  <2> QED BY <1>1, <2>1
<1>9. CASE ReaperStep
  <2>1. task' = task /\ \A i \in Slots : parts'[i] \in {parts[i], None}
    BY <1>9 DEF ReaperStep, ReapScan, ReapParts, ReapSession, WalkParts, CheckOwner,
                DeleteOrphans, callVars, Without, NoParts
  <2> QED BY <1>1, <2>1
<1>10. CASE Crash
  <2>1. parts' = parts /\ \A a \in Appends : task'[a] \in {task[a], "broken", "dead"}
    BY <1>10 DEF Crash, Settled, TypeOK
  <2> QED BY <1>1, <2>1
<1>11. CASE CreateSession \/ Age \/ Expire \/ UNCHANGED vars
  <2>1. task' = task /\ parts' = parts
    BY <1>11 DEF CreateSession, Age, Expire, vars, callVars
  <2> QED BY <1>1, <2>1
<1> QED BY <1>2, <1>3, <1>4, <1>5, <1>6, <1>7, <1>8, <1>9, <1>10, <1>11
        DEF Next, WorkerStep

\* Every step keeps what the requests sent.
LEMMA SentInductive ==
  ASSUME TypeOK, SentInv, [Next]_vars PROVE SentInv'
<1> DEFINE Lists == \A i \in Slots : chunks[i] # None =>
                      \E c \in Appends : slot[c] = i /\ task[c] = "done"
           Idles == \A a \in Appends : call[a] = "idle" => task[a] = "none"
           Fresh(z) == final[z] \in {"idle", "claiming", "claimed"} => merged[z] = <<>>
           Merges(z) == final[z] = "merging" => AllStored /\ Sent(merged[z])
           Commits == \A k \in DOMAIN commits : AllStored /\ Len(commits[k]) = NumChunks
                                                 /\ Sent(commits[k])
<1>a. Persists
  BY TasksPersist
<1>b. FileInv'
  BY <1>a, FilesInductive
<1>c. Lists /\ Idles /\ Commits /\ \A z \in Finalizes : Fresh(z) /\ Merges(z)
  BY DEF SentInv
<1>d. (Lists /\ Idles /\ Commits /\ FileInv /\ \A z \in Finalizes : Fresh(z) /\ Merges(z))'
        => SentInv'
  BY DEF SentInv
<1>e. (chunks' = chunks \/ chunks' = NoParts) => Lists'
  BY <1>a, <1>c DEF Persists, NoParts
<1>f. call' = call /\ task' = task => Idles'
  BY <1>c
<1>g. commits' = commits => Commits'
  <2> SUFFICES ASSUME commits' = commits, NEW k \in DOMAIN commits
               PROVE  AllStored' /\ Len(commits[k]) = NumChunks /\ Sent(commits[k])'
    OBVIOUS
  <2>1. AllStored /\ Len(commits[k]) = NumChunks /\ Sent(commits[k])
    BY <1>c
  <2>2. \A a \in Appends : SoleWriter(a)' /\ slot'[a] \in Indices /\ slot'[a] < Len(commits[k])
          => commits[k][slot'[a] + 1] = body'[a]
    BY <1>a, <2>1, SentStays
  <2>3. AllStored'
    BY <1>a, <2>1, SentStays
  <2> QED BY <2>1, <2>2, <2>3 DEF Sent
<1>h. ASSUME NEW z \in Finalizes, final'[z] = final[z] \/ final'[z] \notin
               {"idle", "claiming", "claimed", "merging"}, merged'[z] = merged[z]
      PROVE  (Fresh(z) /\ Merges(z))'
  <2>1. Fresh(z)'
    BY <1>c, <1>h
  <2>2. ASSUME final'[z] = "merging" PROVE AllStored' /\ Sent(merged[z])'
    <3>1. AllStored /\ Sent(merged[z])
      BY <1>c, <1>h, <2>2
    <3>2. \A a \in Appends : SoleWriter(a)' /\ slot'[a] \in Indices /\ slot'[a] < Len(merged[z])
            => merged[z][slot'[a] + 1] = body'[a]
      BY <1>a, <3>1, SentStays
    <3>3. AllStored'
      BY <1>a, <3>1, SentStays
    <3> QED BY <1>h, <3>2, <3>3 DEF Sent
  <2> QED BY <2>1, <2>2
<1> HIDE DEF Lists, Idles, Fresh, Merges, Commits
<1>1. ASSUME NEW a \in Appends, AppendStep(a) \/ WorkerStep(a) PROVE SentInv'
  <2>1. UNCHANGED <<final, merged, commits>>
    BY <1>1 DEF AppendStep, WorkerStep, AppendChunk, CheckOffset, SubmitChunk, Answer,
                Disconnect, OpenPart, WritePart, FailPart, RejectPart, UpdateOffset,
                finVars
  <2>2. Idles'
    <3>1. CASE \E i \in Slots, b \in Bodies : AppendChunk(a, i, b)
      BY <1>c, <3>1 DEF AppendChunk, CallGoto, TypeOK, Idles
    <3>2. CASE CheckOffset(a) \/ SubmitChunk(a) \/ Answer(a) \/ Disconnect(a)
      BY <1>c, <3>2 DEF CheckOffset, SubmitChunk, Answer, Disconnect, CallGoto, TaskGoto,
                        TypeOK, Idles
    <3>3. CASE WorkerStep(a)
      BY <1>c, <3>3 DEF WorkerStep, OpenPart, WritePart, FailPart, RejectPart,
                UpdateOffset, TaskGoto, TypeOK, Idles
    <3> QED BY <1>1, <3>1, <3>2, <3>3 DEF AppendStep
  <2>3. Lists'
    <3>1. CASE UpdateOffset(a)
      <4>1. \A i \in Slots : chunks'[i] # None =>
              chunks[i] # None \/ (i = slot[a] /\ task'[a] = "done" /\ slot'[a] = slot[a])
        BY <3>1 DEF UpdateOffset, TaskGoto, TypeOK
      <4> QED BY <1>a, <1>c, <4>1 DEF Persists, Lists
    <3>2. CASE chunks' = chunks
      BY <1>e, <3>2
    <3> QED BY <1>1, <3>1, <3>2 DEF AppendStep, WorkerStep, AppendChunk, CheckOffset,
                SubmitChunk, Answer, Disconnect, OpenPart, WritePart, FailPart, RejectPart
  <2> QED BY <1>b, <1>d, <1>g, <1>h, <2>1, <2>2, <2>3
<1>2. ASSUME NEW z \in Finalizes, FinalizeStep(z) PROVE SentInv'
  <2>1. /\ UNCHANGED <<call, task, slot, body>>
        /\ chunks' = chunks \/ chunks' = NoParts
        /\ \A y \in Finalizes \ {z} : final'[y] = final[y] /\ merged'[y] = merged[y]
    BY <1>2 DEF FinalizeStep, ClaimRead, ClaimExec, ValidateChunks, MergePart, Commit,
                FinishSession, CleanupParts, FinalGoto, DeleteSession, callVars, TypeOK
  <2>2. Lists' /\ Idles'
    BY <1>e, <1>f, <2>1
  <2>a. ASSUME Fresh(z)', Merges(z)', Commits' PROVE SentInv'
    BY <1>b, <1>d, <1>h, <2>1, <2>2, <2>a
  <2>3. CASE ClaimRead(z) \/ ClaimExec(z)
    <3>1. /\ UNCHANGED <<merged, commits>> /\ merged[z] = <<>>
          /\ final'[z] # "merging"
      BY <1>c, <2>3 DEF ClaimRead, ClaimExec, FinalGoto, TypeOK, Fresh
    <3>2. Fresh(z)' /\ Merges(z)'
      BY <3>1 DEF Fresh, Merges
    <3> QED BY <1>g, <2>a, <3>1, <3>2
  <2>4. CASE ValidateChunks(z)
    <3>1. /\ UNCHANGED <<merged, commits, chunks>> /\ merged[z] = <<>>
          /\ final'[z] \in {"merging", "failed"}
          /\ final'[z] = "merging" => Present(chunks) = Indices
      BY <1>c, <2>4 DEF ValidateChunks, FinalGoto, TypeOK, Fresh
    <3>2. final'[z] = "merging" => AllStored'
      BY <1>c, <2>1, <3>1 DEF Present, AllStored, Lists
    <3>3. Sent(merged[z])'
      BY <3>1, NumChunksIsPositive DEF Sent, Indices
    <3>4. Fresh(z)' /\ Merges(z)'
      BY <3>1, <3>2, <3>3 DEF Fresh, Merges
    <3> QED BY <1>g, <2>a, <3>1, <3>4
  <2>5. CASE MergePart(z)
    <3>1. commits' = commits
      BY <2>5 DEF MergePart
    <3>2. CASE merged' = merged /\ final'[z] = "cleaning"
      BY <1>g, <1>h, <2>a, <3>1, <3>2
    <3>3. ASSUME parts[Len(merged[z])] # None, final[z] = "merging", final'[z] = "merging",
                 merged' = [merged EXCEPT ![z] = Append(@, parts[Len(merged[z])].holds)]
          PROVE  SentInv'
      <4> DEFINE file == parts[Len(merged[z])]
      <4>1. AllStored /\ Sent(merged[z])
        BY <1>c, <3>3 DEF Merges
      <4>2. Len(merged[z]) \in Indices /\ merged[z] \in Seq(Bodies \union {Torn})
        BY <2>5, NumChunksIsPositive DEF MergePart, TypeOK, Indices
      <4>3. file.holds \in Bodies \union {Torn} /\ merged'[z] = Append(merged[z], file.holds)
        BY <3>3, <4>2, NumChunksIsPositive DEF TypeOK, Files, Slots, Indices
      <4>4. ASSUME NEW a \in Appends, SoleWriter(a), slot[a] = Len(merged[z])
            PROVE  file.holds = body[a]
        <5>1. task[a] = "done"
          BY <4>1, <4>2, <4>4, SoleStored
        <5> QED BY <3>3, <4>4, <5>1 DEF SentInv, FileInv
      <4> HIDE DEF file
      <4>5. Sent(Append(merged[z], file.holds))
        <5> SUFFICES ASSUME NEW a \in Appends, SoleWriter(a), slot[a] \in Indices,
                            slot[a] < Len(Append(merged[z], file.holds))
                     PROVE  Append(merged[z], file.holds)[slot[a] + 1] = body[a]
          BY DEF Sent
        <5>1. slot[a] \in Nat /\ Len(merged[z]) \in Nat
          BY <4>2 DEF Indices
        <5>2. CASE slot[a] = Len(merged[z])
          BY <4>2, <4>3, <4>4, <5>2
        <5>3. CASE slot[a] < Len(merged[z])
          <6>1. merged[z][slot[a] + 1] = body[a]
            BY <4>1, <5>3 DEF Sent
          <6> QED BY <4>2, <4>3, <5>1, <5>3, <6>1
        <5> QED BY <4>2, <4>3, <5>1, <5>2, <5>3
      <4>6. AllStored' /\ Sent(merged[z])'
        <5> DEFINE content == Append(merged[z], file.holds)
        <5> HIDE DEF content
        <5>1. AllStored' /\ \A a \in Appends : SoleWriter(a)' /\ slot'[a] \in Indices
                /\ slot'[a] < Len(content) => content[slot'[a] + 1] = body'[a]
          BY <2>1, <4>1, <4>5 DEF content, AllStored, Sent, SoleWriter
        <5>2. merged'[z] = content
          BY <4>3 DEF content
        <5> QED BY <5>1, <5>2 DEF Sent
      <4>7. Fresh(z)' /\ Merges(z)'
        BY <3>3, <4>6 DEF Fresh, Merges
      <4> QED BY <1>g, <2>a, <3>1, <4>7
    <3> QED BY <2>5, <3>2, <3>3 DEF MergePart, FinalGoto, TypeOK
  <2>6. CASE Commit(z)
    <3>1. merged' = merged /\ final[z] = "merging" /\ final'[z] \in {"committed", "cleaning"}
          /\ Len(merged[z]) = NumChunks /\ commits' \in {commits, Append(commits, merged[z])}
      BY <2>6 DEF Commit, FinalGoto, TypeOK
    <3>2. (Fresh(z) /\ Merges(z))'
      BY <1>h, <3>1
    <3>3. AllStored' /\ Sent(merged[z])'
      <4>1. AllStored /\ Sent(merged[z])
        BY <1>c, <3>1 DEF Merges
      <4>2. \A a \in Appends : SoleWriter(a)' /\ slot'[a] \in Indices
              /\ slot'[a] < Len(merged[z]) => merged[z][slot'[a] + 1] = body'[a]
        BY <2>1, <4>1 DEF Sent, SoleWriter
      <4> QED BY <2>1, <3>1, <4>1, <4>2 DEF AllStored, Sent
    <3>4. CASE commits' = commits
      BY <1>g, <2>a, <3>2, <3>4
    <3>5. CASE commits' = Append(commits, merged[z])
      <4>1. commits \in Seq(Seq(Bodies \union {Torn})) /\ merged[z] \in Seq(Bodies \union {Torn})
        BY DEF TypeOK
      <4>2. \A k \in DOMAIN commits' : commits'[k] = merged[z]
              \/ (k \in DOMAIN commits /\ commits'[k] = commits[k])
        BY <3>5, <4>1
      <4>3. ASSUME NEW k \in DOMAIN commits'
            PROVE  AllStored' /\ Len(commits'[k]) = NumChunks /\ Sent(commits[k])'
        <5>1. CASE commits'[k] = merged[z]
          BY <3>1, <3>3, <5>1 DEF Sent
        <5>2. CASE k \in DOMAIN commits /\ commits'[k] = commits[k]
          <6>1. Len(commits[k]) = NumChunks /\ Sent(commits[k])
            BY <1>c, <5>2 DEF Commits
          <6>2. \A a \in Appends : SoleWriter(a)' /\ slot'[a] \in Indices
                  /\ slot'[a] < Len(commits[k]) => commits[k][slot'[a] + 1] = body'[a]
            BY <2>1, <6>1 DEF Sent, SoleWriter
          <6> QED BY <3>3, <5>2, <6>1, <6>2 DEF Sent
        <5> QED BY <4>2, <5>1, <5>2
      <4>4. Commits'
        BY <4>3 DEF Commits
      <4> QED BY <2>a, <3>2, <4>4
    <3> QED BY <3>1, <3>4, <3>5
  <2>7. CASE FinishSession(z) \/ CleanupParts(z)
    <3>1. UNCHANGED <<merged, commits>> /\ final'[z] \in {"cleaning", "done"}
      BY <2>7 DEF FinishSession, CleanupParts, FinalGoto, TypeOK
    <3> QED BY <1>g, <1>h, <2>a, <3>1
  <2> QED BY <1>2, <2>3, <2>4, <2>5, <2>6, <2>7 DEF FinalizeStep
<1>3. ASSUME UNCHANGED <<merged, commits>>, call' = call, task' = task,
             chunks' = chunks \/ chunks' = NoParts,
             final' = final
      PROVE  SentInv'
  BY <1>3, <1>b, <1>d, <1>e, <1>f, <1>g, <1>h
<1>4. ASSUME NEW b \in Aborts, AbortStep(b) PROVE SentInv'
  BY <1>3, <1>4 DEF AbortStep, AbortRead, AbortClean, AbortDelete, DeleteSession,
                    callVars, finVars
<1>5. CASE ReaperStep
  BY <1>3, <1>5 DEF ReaperStep, ReapScan, ReapParts, ReapSession, WalkParts, CheckOwner,
                    DeleteOrphans, DeleteSession, callVars, finVars
<1>6. CASE CreateSession \/ Age \/ Expire \/ UNCHANGED vars
  BY <1>3, <1>6 DEF CreateSession, Age, Expire, vars, callVars, finVars
<1>7. CASE Crash
  <2>1. UNCHANGED <<merged, commits, chunks>>
    BY <1>7 DEF Crash
  <2>2. \A z \in Finalizes : final'[z] = final[z] \/ final'[z] = "dead"
    BY <1>7 DEF Crash, Settled, TypeOK
  <2>3. Idles'
    BY <1>7, <1>c DEF Crash, Settled, TypeOK, Idles, CallEnds, TaskEnds
  <2> QED BY <1>b, <1>d, <1>e, <1>g, <1>h, <2>1, <2>2, <2>3
<1> QED BY <1>1, <1>2, <1>4, <1>5, <1>6, <1>7 DEF Next

\* What is committed holds, at every index that one request alone has written,
\* the body of that request, also when no SHA-256 of the whole is declared:
\* the merge takes no file that is unfinished or left by a killed or failed write
\* for a chunk (mergeChunks, finalize.go:22-54; processChunkBytes,
\* upload.go:286-309; LocalFS.Write, localfs.go:111-140).
THEOREM CommittedAsSent == Spec => []CommitsAsSent
<1>1. Init => SentInv
  BY DEF Init, SentInv, FileInv, NoParts
<1>2. TypeOK /\ SentInv /\ [Next]_vars => SentInv'
  BY SentInductive
<1>3. SentInv => CommitsAsSent
  BY NumChunksIsPositive DEF SentInv, Sent, CommitsAsSent, Indices
<1> QED BY <1>1, <1>2, <1>3, TypeCorrect, PTL DEF Spec
=============================================================================
