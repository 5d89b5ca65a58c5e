--------------------------- MODULE NamespaceQuota ---------------------------
(***************************************************************************)
(* The capacity of one namespace: an upload reserves its declared length   *)
(* before its session exists, a finalize moves the reservation to the size *)
(* that was really written, inserts the row that counts from then on, and  *)
(* gives the reservation back; an instant upload does all that at once.    *)
(* Reservations and rows are in the SQL database, sessions in Redis.       *)
(*                                                                         *)
(* A reservation is decided in one transaction, under the lock row of the  *)
(* namespace: first the size of the live rows is read, then the sum of the *)
(* reservations.  With SQLite nobody writes in between.  With PostgreSQL   *)
(* (READ COMMITTED, each SELECT on a snapshot of its own) the lock keeps   *)
(* out other reservations only.                                            *)
(*                                                                         *)
(* A session and its reservation have the same identifier; an instant      *)
(* upload reserves under the identifier of its row-to-be.  Empty contents  *)
(* take no capacity and are left out: whoever declares the length zero can *)
(* only finalize an empty upload.  The size of any other may differ from   *)
(* its declared length, when it is compressed.                             *)
(***************************************************************************)
EXTENDS Integers, FiniteSets

CONSTANTS
  Sessions,      \* uploads, each with the identifier of its reservation
  Instants,      \* calls of CheckExists that find their blob
  FileIDs,       \* identifiers of rows; never reused
  Sizes,         \* sizes of contents
  Quota,         \* NamespaceQuotaBytes
  SingleWriter,  \* TRUE for SQLite, FALSE for PostgreSQL
  Operations,    \* which requests other than uploads are made
  Faults,        \* which faults the environment may inject
  None           \* nobody

Uploads == Sessions \union Instants

OperationKinds == {"abort", "trash", "restore", "purge", "copy"}

\* "redis": a write to Redis fails;  "insert": a statement that commits the
\* file fails;  "release": so does the release;  "expire": the TTL of a
\* session runs out, or the reaper deletes it;  "crash": the process dies.
FaultKinds == {"redis", "insert", "release", "expire", "crash"}

ASSUME UploadsAreDistinct == Sessions \intersect Instants = {}
ASSUME PoolsAreFinite == IsFiniteSet(FileIDs) /\ IsFiniteSet(Uploads)
ASSUME NoneIsNobody == None \notin Uploads
ASSUME SizesArePositive == Sizes \subseteq Nat \ {0}
ASSUME QuotaIsThere == Quota \in Nat \ {0}
ASSUME WriterIsKnown == SingleWriter \in BOOLEAN
ASSUME OperationsAreKnown == Operations \subseteq OperationKinds
ASSUME FaultsAreKnown == Faults \subseteq FaultKinds

VARIABLES
  rowSize,   \* the size of a row; 0 while its identifier is unused
  live,      \* rows with deleted_at NULL
  trashed,   \* rows with deleted_at set
  purging,   \* live rows that a purge has restored to delete them
  reserved,  \* bytes of a row of namespace_reservations; 0 for no row
  lock,      \* whose transaction holds the lock row of the namespace
  seen,      \* what that transaction read as the size of the live rows
  session,   \* status of the session key in Redis
  pc,        \* where the handler of an upload stands
  size,      \* the bytes that handler asks for or writes
  aborter    \* where the Abort of a session stands

rowVars == <<rowSize, live, trashed, purging>>
vars == <<rowSize, live, trashed, purging, reserved, lock, seen,
          session, pc, size, aborter>>

\* The sum of the weights w of S, as the number of their units.
Units(S, w) == UNION {{x} \X (1 .. w[x]) : x \in S}
Total(S, w) == Cardinality(Units(S, w))

Reserved(uploads) == Total(uploads, reserved)
Used == Total(live, rowSize)

Init ==
  /\ rowSize = [f \in FileIDs |-> 0]
  /\ live = {} /\ trashed = {} /\ purging = {}
  /\ reserved = [r \in Uploads |-> 0]
  /\ lock = None /\ seen = 0
  /\ session = [s \in Sessions |-> "none"]
  /\ pc = [r \in Uploads |-> "new"]
  /\ size = [r \in Uploads |-> 0]
  /\ aborter = [s \in Sessions |-> "idle"]

\* A statement outside the transaction that holds the lock waits for it where
\* there is one writer at a time.
MayWrite == SingleWriter => lock = None

Goto(r, from, to) == pc[r] = from /\ pc' = [pc EXCEPT ![r] = to]

-----------------------------------------------------------------------------
(* ReserveNamespaceBytes and ReleaseNamespaceReservation.                  *)

\* The first half: take the lock and add up the live rows.
ReadUsage(r, n) ==
  /\ lock = None /\ lock' = r
  /\ seen' = Used
  /\ size' = [size EXCEPT ![r] = n]

\* Mutant: only the rows count, as in ensureNamespaceCapacity.
FitsRows(r) == seen + size[r] <= Quota

\* Mutant: the reservation that is being replaced counts too.
FitsBesidesOwn(r) == seen + Reserved(Uploads) + size[r] <= Quota

Fits(r) == seen + Reserved(Uploads) - reserved[r] + size[r] <= Quota

\* Mutant: a reservation that exists is increased instead of replaced.
DecideAdding(r, from, then, else) ==
  /\ lock = r /\ lock' = None
  /\ seen' = 0
  /\ \/ /\ Fits(r) /\ Goto(r, from, then)
        /\ reserved' = [reserved EXCEPT ![r] = @ + size[r]]
     \/ /\ ~Fits(r) /\ Goto(r, from, else)
        /\ UNCHANGED reserved

\* The second half, for a handler that goes on to the point then, or to the
\* point else when the quota is exceeded.
Decide(r, from, then, else) ==
  /\ lock = r /\ lock' = None
  /\ seen' = 0
  /\ \/ /\ Fits(r) /\ Goto(r, from, then)
        /\ reserved' = [reserved EXCEPT ![r] = size[r]]
     \/ /\ ~Fits(r) /\ Goto(r, from, else)
        /\ UNCHANGED reserved

ReleaseReservation(r) ==
  /\ MayWrite
  /\ \/ reserved' = [reserved EXCEPT ![r] = 0]
     \/ "release" \in Faults /\ UNCHANGED reserved

\* The deferred release of a handler, and its end; an error is logged.
Release(r) ==
  /\ pc[r] \in {"failed", "recorded"}
  /\ pc' = [pc EXCEPT ![r] = "done"]
  /\ ReleaseReservation(r)
  /\ UNCHANGED <<rowVars, lock, seen, session, size, aborter>>

-----------------------------------------------------------------------------
(* CreateSession.                                                          *)

Reserve(s, n) ==
  /\ Goto(s, "new", "reserving")
  /\ ReadUsage(s, n)
  /\ UNCHANGED <<rowVars, reserved, session, aborter>>

DecideReserve(s) ==
  /\ Decide(s, "reserving", "reserved", "done")
  /\ UNCHANGED <<rowVars, session, size, aborter>>

CreateSession(s) ==
  /\ Goto(s, "reserved", "open")
  /\ session' = [session EXCEPT ![s] = "active"]
  /\ UNCHANGED <<rowVars, reserved, lock, seen, size, aborter>>

CreateSessionFails(s) ==
  /\ "redis" \in Faults
  /\ Goto(s, "reserved", "failed")
  /\ UNCHANGED <<rowVars, reserved, lock, seen, session, size, aborter>>

-----------------------------------------------------------------------------
(* Finalize.                                                               *)

Claim(s) ==
  /\ session[s] = "active"
  /\ session' = [session EXCEPT ![s] = "finalizing"]
  /\ Goto(s, "open", "claimed")
  /\ UNCHANGED <<rowVars, reserved, lock, seen, size, aborter>>

\* Mutant: the release is deferred too late for the early returns.
RejectUnreleased(s) ==
  /\ Goto(s, "claimed", "done")
  /\ UNCHANGED <<rowVars, reserved, lock, seen, session, size, aborter>>

\* Chunks are missing, a part cannot be read, the checksum is another one.
Reject(s) ==
  /\ Goto(s, "claimed", "failed")
  /\ UNCHANGED <<rowVars, reserved, lock, seen, session, size, aborter>>

\* The content is stored, and its true size is known.
Guard(s, n) ==
  /\ Goto(s, "claimed", "guarding")
  /\ ReadUsage(s, n)
  /\ UNCHANGED <<rowVars, reserved, session, aborter>>

DecideGuard(s) ==
  /\ Decide(s, "guarding", "guarded", "failed")
  /\ UNCHANGED <<rowVars, session, size, aborter>>

\* The blob and the row.
PutFile(r, f) ==
  /\ MayWrite
  /\ Goto(r, "guarded", IF r \in Sessions THEN "put" ELSE "recorded")
  /\ rowSize[f] = 0
  /\ rowSize' = [rowSize EXCEPT ![f] = size[r]]
  /\ live' = live \union {f}
  /\ UNCHANGED <<trashed, purging, reserved, lock, seen, session, size, aborter>>

PutFileFails(r) ==
  /\ "insert" \in Faults
  /\ Goto(r, "guarded", "failed")
  /\ UNCHANGED <<rowVars, reserved, lock, seen, session, size, aborter>>

\* DeleteSession, whose error is ignored.
FinishSession(s) ==
  /\ Goto(s, "put", "recorded")
  /\ \/ session' = [session EXCEPT ![s] = "gone"]
     \/ "redis" \in Faults /\ UNCHANGED session
  /\ UNCHANGED <<rowVars, reserved, lock, seen, size, aborter>>

-----------------------------------------------------------------------------
(* CheckExists, once the blob is found.  It shares the steps of a finalize *)
(* from the reservation on.                                                *)

Instant(c, n) ==
  /\ Goto(c, "new", "reserving")
  /\ ReadUsage(c, n)
  /\ UNCHANGED <<rowVars, reserved, session, aborter>>

DecideInstant(c) ==
  /\ Decide(c, "reserving", "guarded", "done")
  /\ UNCHANGED <<rowVars, session, size, aborter>>

-----------------------------------------------------------------------------
(* Abort, whatever the status of the session.                              *)

AbortRead(s) ==
  /\ "abort" \in Operations
  /\ session[s] \in {"active", "finalizing"}
  /\ aborter[s] = "idle" /\ aborter' = [aborter EXCEPT ![s] = "deleting"]
  /\ UNCHANGED <<rowVars, reserved, lock, seen, session, pc, size>>

AbortDelete(s) ==
  /\ aborter[s] = "deleting"
  /\ \/ /\ session' = [session EXCEPT ![s] = "gone"]
        /\ aborter' = [aborter EXCEPT ![s] = "releasing"]
     \/ /\ "redis" \in Faults
        /\ aborter' = [aborter EXCEPT ![s] = "idle"]
        /\ UNCHANGED session
  /\ UNCHANGED <<rowVars, reserved, lock, seen, pc, size>>

AbortRelease(s) ==
  /\ aborter[s] = "releasing" /\ aborter' = [aborter EXCEPT ![s] = "idle"]
  /\ ReleaseReservation(s)
  /\ UNCHANGED <<rowVars, lock, seen, session, pc, size>>

-----------------------------------------------------------------------------
(* Requests that change the live rows without a reservation.               *)

Trash(f) ==
  /\ "trash" \in Operations /\ MayWrite
  /\ f \in live
  /\ live' = live \ {f} /\ trashed' = trashed \union {f}
  /\ UNCHANGED <<rowSize, purging, reserved, lock, seen, session, pc, size, aborter>>

RestoreFile(f) ==
  /\ MayWrite
  /\ f \in trashed
  /\ trashed' = trashed \ {f} /\ live' = live \union {f}
  /\ UNCHANGED <<rowSize, reserved, lock, seen, session, pc, size, aborter>>

Restore(f) ==
  /\ "restore" \in Operations
  /\ RestoreFile(f)
  /\ UNCHANGED purging

\* A purge restores the row before it deletes it.
PurgeRestore(f) ==
  /\ "purge" \in Operations
  /\ RestoreFile(f)
  /\ purging' = purging \union {f}

PurgeDelete(f) ==
  /\ f \in purging /\ purging' = purging \ {f}
  /\ \/ MayWrite /\ live' = live \ {f} /\ trashed' = trashed \ {f}
     \/ "insert" \in Faults /\ UNCHANGED <<live, trashed>>
  /\ UNCHANGED <<rowSize, reserved, lock, seen, session, pc, size, aborter>>

\* One row of a BatchCopy.
Copy(f, g) ==
  /\ "copy" \in Operations /\ MayWrite
  /\ f \in live /\ rowSize[g] = 0
  /\ rowSize' = [rowSize EXCEPT ![g] = rowSize[f]]
  /\ live' = live \union {g}
  /\ UNCHANGED <<trashed, purging, reserved, lock, seen, session, pc, size, aborter>>

-----------------------------------------------------------------------------
(* The environment.                                                        *)

Expire(s) ==
  /\ "expire" \in Faults
  /\ session[s] \in {"active", "finalizing"}
  /\ session' = [session EXCEPT ![s] = "gone"]
  /\ UNCHANGED <<rowVars, reserved, lock, seen, pc, size, aborter>>

\* The process dies: no handler is left, and its transaction is rolled back.
Crash ==
  /\ "crash" \in Faults
  /\ pc' = [r \in Uploads |-> IF pc[r] \in {"new", "open"} THEN pc[r] ELSE "done"]
  /\ aborter' = [s \in Sessions |-> "idle"]
  /\ purging' = {}
  /\ lock' = None /\ seen' = 0
  /\ UNCHANGED <<rowSize, live, trashed, reserved, session, size>>

-----------------------------------------------------------------------------
SessionStep(s) ==
  \/ \E n \in Sizes : Reserve(s, n) \/ Guard(s, n)
  \/ DecideReserve(s)
  \/ CreateSession(s) \/ CreateSessionFails(s)
  \/ Claim(s) \/ Reject(s) \/ DecideGuard(s)
  \/ FinishSession(s)
  \/ AbortRead(s) \/ AbortDelete(s) \/ AbortRelease(s)
  \/ Expire(s)

InstantStep(c) ==
  \/ \E n \in Sizes : Instant(c, n)
  \/ DecideInstant(c)

CommitStep(r) ==
  \/ \E f \in FileIDs : PutFile(r, f)
  \/ PutFileFails(r) \/ Release(r)

RowStep(f) ==
  \/ Trash(f) \/ Restore(f)
  \/ PurgeRestore(f) \/ PurgeDelete(f)
  \/ \E g \in FileIDs : Copy(f, g)

Next ==
  \/ \E s \in Sessions : SessionStep(s)
  \/ \E c \in Instants : InstantStep(c)
  \/ \E r \in Uploads : CommitStep(r)
  \/ \E f \in FileIDs : RowStep(f)
  \/ Crash

Spec == Init /\ [][Next]_vars

-----------------------------------------------------------------------------
(* Properties.                                                             *)

\* What each variable ranges over; seen is a sum of sizes.
TypeOK ==
  /\ rowSize \in [FileIDs -> Sizes \union {0}]
  /\ live \subseteq FileIDs /\ trashed \subseteq FileIDs \ live
  /\ purging \subseteq FileIDs
  /\ reserved \in [Uploads -> Sizes \union {0}]
  /\ lock \in Uploads \union {None}
  /\ session \in [Sessions -> {"none", "active", "finalizing", "gone"}]
  /\ pc \in [Uploads -> {"new", "reserving", "reserved", "open", "claimed",
               "guarding", "guarded", "put", "recorded", "failed", "done"}]
  /\ size \in [Uploads -> Sizes \union {0}]
  /\ aborter \in [Sessions -> {"idle", "deleting", "releasing"}]

\* What an upload may still add to the rows, as far as the database has
\* promised it: its reservation, and the size it has been granted.
Promised(r) ==
  IF pc[r] = "guarded" THEN size[r]
  ELSE IF pc[r] \in {"reserved", "open", "claimed", "guarding"} THEN reserved[r]
  ELSE 0

\* The rows and everything promised to uploads fit together: no interleaving of
\* reservations, finalizes, instant uploads and releases sells a byte twice.
NoOvercommit ==
  Used + Total(Uploads, [r \in Uploads |-> Promised(r)]) <= Quota

\* A reservation has somebody who will release it: a handler on its way, an
\* abort, or a session that can still be finalized or aborted.
HasOwner(r) ==
  \/ pc[r] \in {"reserved", "claimed", "guarding", "guarded", "put", "recorded", "failed"}
  \/ /\ r \in Sessions /\ pc[r] = "open"
     /\ session[r] = "active" \/ aborter[r] = "releasing"

ReservationsOwned == \A r \in Uploads : reserved[r] # 0 => HasOwner(r)

\* A reservation is worth its bytes: an upload whose content is no larger is
\* refused at its finalize only while some upload counts twice, as a row and
\* as a reservation that is not released yet, or never will be.
RefusedAtCommit(s) == pc[s] = "guarding" /\ pc'[s] = "failed"
CountedTwice(r) == reserved[r] # 0 /\ pc[r] \in {"put", "recorded", "done"}

ReservationHonoured ==
  [][\A s \in Sessions :
       RefusedAtCommit(s) /\ size[s] <= reserved[s]
       => \E r \in Uploads : CountedTwice(r)]_vars
=============================================================================
