---------------------------- MODULE ContentStore ----------------------------
(***************************************************************************)
(* The content-addressed store: logical file rows, blob rows with their    *)
(* reference counts, and the physical objects they name.                   *)
(*                                                                         *)
(* Every request handler is an actor whose calls to the metadata database  *)
(* and to the object store are separate steps, because the code runs each  *)
(* in its own transaction: commitStream (finalize), CheckExists (instant   *)
(* upload), BatchCopy and PurgeFromTrash interleave freely.  Trash and     *)
(* RestoreFromTrash of one row are single UPDATE statements.               *)
(*                                                                         *)
(* A session writes its object at a path of its own (namespace/sessionID-  *)
(* name), so a session stands for its path and commits at most once.       *)
(***************************************************************************)
EXTENDS Integers, FiniteSets

CONSTANTS
  Contents,   \* contents, identified with their SHA-256
  FileIDs,    \* identifiers NewID can hand out; never reused
  Sessions,   \* upload sessions in finalize, each also naming its path
  Claims,     \* handlers of CheckExists
  Copies,     \* handlers of BatchCopy
  Purges,     \* handlers of PurgeFromTrash: users and the trash janitor
  Faults,     \* which faults the environment may inject
  MaxRefs,    \* bound: the model takes no reference above this count
  None        \* "no value": no row, no object, no argument

Requests == Sessions \union Claims \union Copies \union Purges

\* "insert": the INSERT of a new row returns an error and has no effect;
\* "db": any other statement does;  "countRead": the SELECT after
\* DecrBlobRef's UPDATE fails;  "unlink": storage.Delete fails;  "crash": the
\* process dies and every request in flight is lost.
FaultKinds == {"insert", "db", "countRead", "unlink", "crash"}

ASSUME ActorsAreDistinct ==
  /\ Sessions \intersect (Claims \union Copies \union Purges) = {}
  /\ Claims \intersect (Copies \union Purges) = {}
  /\ Copies \intersect Purges = {}
  /\ FileIDs \intersect Requests = {}
ASSUME PoolsAreFinite ==
  IsFiniteSet(FileIDs) /\ IsFiniteSet(Requests)
ASSUME NoneIsNoValue ==
  None \notin Contents \union Sessions \union FileIDs
ASSUME FaultsAreKnown == Faults \subseteq FaultKinds
ASSUME MaxRefsIsPositive == MaxRefs \in Nat \ {0}

VARIABLES
  refCount,   \* content_blobs.ref_count
  blobPath,   \* content_blobs.storage_path; None when there is no row
  stored,     \* the object store: what the path of a session holds
  live,       \* rows of files with deleted_at NULL
  trashed,    \* rows of files with deleted_at set
  fileSha,    \* the content of a row; None while the identifier is unused
  pc,         \* where each request stands
  sha,        \* the content a request works on
  file,       \* the row a purge works on
  zeroed      \* history: contents whose count has been brought to zero

blobVars == <<refCount, blobPath, zeroed>>
rowVars  == <<live, trashed, fileSha>>
vars     == <<refCount, blobPath, stored, live, trashed, fileSha,
              pc, sha, file, zeroed>>

Points == {"idle", "done", "written", "duplicate", "acquired", "rollback",
           "found", "read", "put", "listed", "restored", "deleted",
           "counted", "undo", "unlink"}

-----------------------------------------------------------------------------
Init ==
  /\ refCount = [s \in Contents |-> 0]
  /\ blobPath = [s \in Contents |-> None]
  /\ stored   = [u \in Sessions |-> None]
  /\ live = {} /\ trashed = {}
  /\ fileSha  = [f \in FileIDs |-> None]
  /\ pc   = [r \in Requests |-> "idle"]
  /\ sha  = [r \in Requests |-> None]
  /\ file = [r \in Requests |-> None]
  /\ zeroed = {}

Rows   == live \union trashed
Fresh  == {f \in FileIDs : fileSha[f] = None}

\* A request moves on, keeping its arguments.
Goto(r, from, to) ==
  /\ pc[r] = from
  /\ pc' = [pc EXCEPT ![r] = to]
  /\ UNCHANGED <<sha, file>>

\* A request ends.  A session is finished for good, any other handler forgets
\* its arguments and serves the next request.
Finish(r, from) ==
  /\ pc[r] = from
  /\ pc' = [pc EXCEPT ![r] = IF r \in Sessions THEN "done" ELSE "idle"]
  /\ sha' = IF r \in Sessions THEN sha ELSE [sha EXCEPT ![r] = None]
  /\ file' = [file EXCEPT ![r] = None]

IncrBlobRef(s) ==
  /\ refCount[s] < MaxRefs
  /\ refCount' = [refCount EXCEPT ![s] = @ + 1]
  /\ UNCHANGED <<blobPath, zeroed>>

\* Mutant: the decrement without its floor.
DecrBelowZero(s) ==
  /\ refCount' = [refCount EXCEPT ![s] = @ - 1]
  /\ zeroed' = IF refCount[s] <= 1 THEN zeroed \union {s} ELSE zeroed
  /\ UNCHANGED blobPath

\* UPDATE content_blobs SET ref_count = MAX(0, ref_count - 1).
DecrBlobRef(s) ==
  /\ refCount' = [refCount EXCEPT ![s] = IF @ > 0 THEN @ - 1 ELSE 0]
  /\ zeroed' = IF refCount[s] <= 1 THEN zeroed \union {s} ELSE zeroed
  /\ UNCHANGED blobPath

InsertRow(f, s) ==
  /\ f \in Fresh
  /\ fileSha' = [fileSha EXCEPT ![f] = s]
  /\ live' = live \union {f}
  /\ UNCHANGED trashed

\* storage.Delete, whose error every caller ignores or only logs.
Unlink(u) ==
  \/ stored' = [stored EXCEPT ![u] = None]
  \/ "unlink" \in Faults /\ UNCHANGED stored

-----------------------------------------------------------------------------
(* Finalize, from the write of the merged stream on.                       *)

\* commitStreamWithGuard: storage.Write at the session's own path, which a
\* session writes once.  A write that fails or stops ends the finalize before
\* any row names the path.
WriteStorage(u, s) ==
  /\ pc[u] = "idle" /\ pc' = [pc EXCEPT ![u] = "written"]
  /\ sha' = [sha EXCEPT ![u] = s]
  /\ stored' = [stored EXCEPT ![u] = s]
  /\ UNCHANGED <<blobVars, rowVars, file>>

\* Mutant: the rejection also comes after AcquireBlob and forgets its count.
RejectAcquired(u) ==
  /\ Finish(u, "written") \/ Finish(u, "acquired")
  /\ Unlink(u)
  /\ UNCHANGED <<blobVars, rowVars>>

\* Checksum mismatch, refused quota or a failed AcquireBlob: the written
\* object is deleted and the request ends.
RejectCommit(u) ==
  /\ Finish(u, "written")
  /\ Unlink(u)
  /\ UNCHANGED <<blobVars, rowVars>>

\* AcquireBlob: one transaction that inserts the row or counts one more use.
AcquireBlob(u) ==
  /\ pc[u] = "written"
  /\ \/ /\ blobPath[sha[u]] = None
        /\ Goto(u, "written", "acquired")
        /\ blobPath' = [blobPath EXCEPT ![sha[u]] = u]
        /\ refCount' = [refCount EXCEPT ![sha[u]] = 1]
        /\ UNCHANGED zeroed
     \/ /\ blobPath[sha[u]] # None
        /\ Goto(u, "written", "duplicate")
        /\ IncrBlobRef(sha[u])
  /\ UNCHANGED <<stored, rowVars>>

\* Mutant: the object deleted is the one the blob row names.
DropCanonical(u) ==
  /\ Goto(u, "duplicate", "acquired")
  /\ Unlink(blobPath[sha[u]])
  /\ UNCHANGED <<blobVars, rowVars>>

\* The row existed: the copy just written is redundant.
DropDuplicate(u) ==
  /\ Goto(u, "duplicate", "acquired")
  /\ Unlink(u)
  /\ UNCHANGED <<blobVars, rowVars>>

-----------------------------------------------------------------------------
(* CheckExists.                                                            *)

\* GetBlobBySha returns the row, whatever its count.
LookupBlob(c, s) ==
  /\ blobPath[s] # None
  /\ pc[c] = "idle" /\ pc' = [pc EXCEPT ![c] = "found"]
  /\ sha' = [sha EXCEPT ![c] = s]
  /\ UNCHANGED <<blobVars, stored, rowVars, file>>

\* The quota refuses the reservation, or IncrBlobRef returns an error.
AbandonClaim(c) ==
  /\ Finish(c, "found")
  /\ UNCHANGED <<blobVars, stored, rowVars>>

ClaimRef(c) ==
  /\ Goto(c, "found", "acquired")
  /\ IncrBlobRef(sha[c])
  /\ UNCHANGED <<stored, rowVars>>

-----------------------------------------------------------------------------
(* The end that finalize and CheckExists share: the reference is taken,    *)
(* the logical row is inserted, and a failed insert gives it back.         *)

PutFile(r, f) ==
  /\ Finish(r, "acquired")
  /\ InsertRow(f, sha[r])
  /\ UNCHANGED <<blobVars, stored>>

\* Mutant: the failed insert gives the reference back, and so does the end.
PutFileFailsTwice(r) ==
  /\ "insert" \in Faults
  /\ Goto(r, "acquired", "rollback")
  /\ DecrBlobRef(sha[r])
  /\ UNCHANGED <<stored, rowVars>>

PutFileFails(r) ==
  /\ "insert" \in Faults
  /\ Goto(r, "acquired", "rollback")
  /\ UNCHANGED <<blobVars, stored, rowVars>>

RollbackRef(r) ==
  /\ Finish(r, "rollback")
  /\ \/ DecrBlobRef(sha[r])
     \/ "db" \in Faults /\ UNCHANGED blobVars
  /\ UNCHANGED <<stored, rowVars>>

-----------------------------------------------------------------------------
(* BatchCopy of one file: the row first, the reference after it.           *)

CopyRead(k, f) ==
  /\ f \in live
  /\ pc[k] = "idle" /\ pc' = [pc EXCEPT ![k] = "read"]
  /\ sha' = [sha EXCEPT ![k] = fileSha[f]]
  /\ UNCHANGED <<blobVars, stored, rowVars, file>>

CopyPut(k, f) ==
  /\ Goto(k, "read", "put")
  /\ InsertRow(f, sha[k])
  /\ UNCHANGED <<blobVars, stored>>

CopyPutFails(k) ==
  /\ "insert" \in Faults
  /\ Finish(k, "read")
  /\ UNCHANGED <<blobVars, stored, rowVars>>

\* A failed IncrBlobRef is logged and the new row stays.
CopyIncr(k) ==
  /\ Finish(k, "put")
  /\ \/ IncrBlobRef(sha[k])
     \/ "db" \in Faults /\ UNCHANGED blobVars
  /\ UNCHANGED <<stored, rowVars>>

-----------------------------------------------------------------------------
(* Trash and restore of one row: MoveFileToTrash and RestoreFile.          *)

Trash(f) ==
  /\ f \in live
  /\ live' = live \ {f}
  /\ trashed' = trashed \union {f}
  /\ UNCHANGED <<blobVars, stored, fileSha, pc, sha, file>>

Restore(f) ==
  /\ f \in trashed
  /\ trashed' = trashed \ {f}
  /\ live' = live \union {f}
  /\ UNCHANGED <<blobVars, stored, fileSha, pc, sha, file>>

-----------------------------------------------------------------------------
(* PurgeFromTrash of one file.                                             *)

\* ListTrash: the row is copied, its state may change before it is used.
PurgeList(p, f) ==
  /\ f \in trashed
  /\ pc[p] = "idle" /\ pc' = [pc EXCEPT ![p] = "listed"]
  /\ file' = [file EXCEPT ![p] = f]
  /\ sha'  = [sha EXCEPT ![p] = fileSha[f]]
  /\ UNCHANGED <<blobVars, stored, rowVars>>

\* RestoreFile first, so that the hard delete finds a live row; a row that
\* is no longer in the trash ends the request with ErrNotFound.
PurgeRestore(p) ==
  /\ \/ /\ file[p] \in trashed
        /\ Goto(p, "listed", "restored")
        /\ trashed' = trashed \ {file[p]}
        /\ live' = live \union {file[p]}
     \/ /\ file[p] \notin trashed \/ "db" \in Faults
        /\ Finish(p, "listed")
        /\ UNCHANGED <<live, trashed>>
  /\ UNCHANGED <<blobVars, stored, fileSha>>

\* DELETE FROM files: whatever the row's state, and silent if it is gone.
PurgeDelete(p) ==
  /\ Goto(p, "restored", "deleted")
  /\ live' = live \ {file[p]}
  /\ trashed' = trashed \ {file[p]}
  /\ UNCHANGED <<blobVars, stored, fileSha>>

PurgeDeleteFails(p) ==
  /\ "db" \in Faults
  /\ Finish(p, "restored")
  /\ UNCHANGED <<blobVars, stored, rowVars>>

PurgeDecr(p) ==
  /\ \/ Goto(p, "deleted", "counted") /\ DecrBlobRef(sha[p])
     \/ "db" \in Faults /\ Goto(p, "deleted", "undo") /\ UNCHANGED blobVars
  /\ UNCHANGED <<stored, rowVars>>

\* The SELECT of the new count and, at zero, the SELECT of the path, which
\* never changes here; when that one fails, nothing is unlinked.
PurgeCount(p) ==
  /\ \/ Finish(p, "counted") /\ (refCount[sha[p]] > 0 \/ "db" \in Faults)
     \/ Goto(p, "counted", "unlink") /\ refCount[sha[p]] = 0
     \/ "countRead" \in Faults /\ Goto(p, "counted", "undo")
  /\ UNCHANGED <<blobVars, stored, rowVars>>

\* rollbackDeleteUndo: the row is inserted again, live; the decrement was not
\* recorded, so it is not undone.  A failed insert is only logged.
PurgeUndo(p) ==
  /\ Finish(p, "undo")
  /\ \/ live' = IF file[p] \in Rows THEN live ELSE live \union {file[p]}
     \/ "db" \in Faults /\ UNCHANGED live
  /\ UNCHANGED <<blobVars, stored, trashed, fileSha>>

PurgeUnlink(p) ==
  /\ Finish(p, "unlink")
  /\ Unlink(blobPath[sha[p]])
  /\ UNCHANGED <<blobVars, rowVars>>

-----------------------------------------------------------------------------
\* The process dies: handlers are forgotten, the database and the object
\* store keep what was done.
Crash ==
  /\ "crash" \in Faults
  /\ \E r \in Requests : pc[r] \notin {"idle", "done"}
  /\ pc' = [r \in Requests |->
              IF r \in Sessions /\ pc[r] # "idle" THEN "done" ELSE "idle"]
  /\ sha' = [r \in Requests |-> IF r \in Sessions THEN sha[r] ELSE None]
  /\ file' = [r \in Requests |-> None]
  /\ UNCHANGED <<blobVars, stored, rowVars>>

FinalizeStep(u) ==
  \/ \E s \in Contents : WriteStorage(u, s)
  \/ RejectCommit(u)
  \/ AcquireBlob(u)
  \/ DropDuplicate(u)

ClaimStep(c) ==
  \/ \E s \in Contents : LookupBlob(c, s)
  \/ AbandonClaim(c)
  \/ ClaimRef(c)

HolderStep(r) ==
  \/ \E f \in FileIDs : PutFile(r, f)
  \/ PutFileFails(r)
  \/ RollbackRef(r)

CopyStep(k) ==
  \/ \E f \in FileIDs : CopyRead(k, f) \/ CopyPut(k, f)
  \/ CopyPutFails(k)
  \/ CopyIncr(k)

PurgeStep(p) ==
  \/ \E f \in FileIDs : PurgeList(p, f)
  \/ PurgeRestore(p)
  \/ PurgeDelete(p)
  \/ PurgeDeleteFails(p)
  \/ PurgeDecr(p)
  \/ PurgeCount(p)
  \/ PurgeUndo(p)
  \/ PurgeUnlink(p)

Next ==
  \/ \E u \in Sessions : FinalizeStep(u)
  \/ \E c \in Claims : ClaimStep(c)
  \/ \E r \in Sessions \union Claims : HolderStep(r)
  \/ \E k \in Copies : CopyStep(k)
  \/ \E p \in Purges : PurgeStep(p)
  \/ \E f \in FileIDs : Trash(f) \/ Restore(f)
  \/ Crash

Spec == Init /\ [][Next]_vars

-----------------------------------------------------------------------------
(* Properties.                                                             *)

\* What each variable ranges over.  ref_count is a natural number: the floor
\* in DecrBlobRef keeps it so even when a reference is given back twice.
TypeOK ==
  /\ refCount \in [Contents -> Nat]
  /\ blobPath \in [Contents -> Sessions \union {None}]
  /\ stored \in [Sessions -> Contents \union {None}]
  /\ live \subseteq FileIDs /\ trashed \subseteq FileIDs
  /\ fileSha \in [FileIDs -> Contents \union {None}]
  /\ pc \in [Requests -> Points]
  /\ sha \in [Requests -> Contents \union {None}]
  /\ file \in [Requests -> FileIDs \union {None}]
  /\ zeroed \subseteq Contents

\* Who holds a reference to s: a row, live or trashed; a request that took a
\* reference and has not inserted its row; a purge that removed the row and
\* has not given the reference back.
Holding == {"duplicate", "acquired", "rollback", "deleted", "undo"}
Holders(s) ==
  {f \in Rows : fileSha[f] = s}
    \union {r \in Requests : pc[r] \in Holding /\ sha[r] = s}

\* An object named by a blob row never holds another content: whatever
\* finalize writes, drops or rejects, it touches its own path only.
CanonicalContent ==
  \A s \in Contents : blobPath[s] # None => stored[blobPath[s]] \in {s, None}

\* The object a blob row names stays in the store as long as the count of the
\* blob has never been zero: a finalize that loses the race for the blob row
\* drops its own copy, never the canonical one, and no failure or crash
\* makes a purge unlink too early.
KeptUntilZero ==
  \A s \in Contents :
    blobPath[s] # None /\ s \notin zeroed => stored[blobPath[s]] = s

\* ref_count is never below the number of holders, so the count that decides
\* on the physical delete errs on the side of keeping the content.
NeverUndercounted ==
  \A s \in Contents : Cardinality(Holders(s)) <= refCount[s]

\* A row, readable or in the trash, is counted: its content is never a
\* candidate for the physical delete.
RowsCounted == \A f \in Rows : refCount[fileSha[f]] > 0

\* No reference is lost either, as long as inserts and unlinks are all that
\* fails: whatever early return a finalize or an instant upload takes after
\* AcquireBlob gives the reference back (finalize.go:165, refcount.go:67), so
\* the count is at most the number of holders.  It says nothing of the object,
\* which stays when RollbackRef brings the count to zero or an unlink fails.
NoLeakedReference ==
  \A s \in Contents : refCount[s] <= Cardinality(Holders(s))

\* The store keeps what SharedContent promises to its holders.
Stored(s) == blobPath[s] # None /\ stored[blobPath[s]] = s
Promise == INSTANCE SharedContent WITH
  Contents  <- Contents,
  Holder    <- FileIDs \union Requests,
  holders   <- [s \in Contents |-> Holders(s)],
  kept      <- {s \in Contents : Stored(s)},
  condemned <- zeroed

\* Every step of every request is a step that SharedContent allows, or none
\* (refcount.go:5, finalize.go:136, upload.go:1103): references are taken,
\* handed on and given back one by one, and an object goes only when the count
\* has found the content without a holder.
Retained == Promise!Spec

\* What the API promises: a file that can be read has its content.
LiveContentPresent ==
  \A f \in live : stored[blobPath[fileSha[f]]] = fileSha[f]
=============================================================================
