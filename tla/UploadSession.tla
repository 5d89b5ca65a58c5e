--------------------------- MODULE UploadSession ----------------------------
(***************************************************************************)
(* The life of one upload session: the session key and the chunk hash in   *)
(* Redis, the part files in temporary storage, and the requests and        *)
(* background jobs that work on them.  Sessions share nothing that is kept *)
(* here, so one stands for all.                                            *)
(*                                                                         *)
(* A chunk request hands its body to a pool worker and waits for it, but   *)
(* the worker runs with a context of its own: it outlives the request, and *)
(* may outlive the session.  Time is a two-valued clock: a key is "fresh"  *)
(* until it is about to expire, when Redis already rounds its TTL to zero. *)
(***************************************************************************)
EXTENDS Integers, Sequences, FiniteSets

CONSTANTS
  NumChunks,   \* chunks of the upload; every one has the same size
  Bodies,      \* what a chunk request may carry
  Intended,    \* the body whose SHA-256 the client declares
  Appends,     \* chunk requests, each with the pool task it submits
  TusAppends,  \* those of them that are tus PATCH requests
  Checked,     \* those of them that carry X-Slice-SHA256
  Declares,    \* whether the session declares the SHA-256 of the whole
  Finalizes,   \* finalize requests
  Aborts,      \* abort requests
  Faults,      \* which faults the environment may inject
  Torn,        \* what an unfinished or mixed file holds: no one's body
  None         \* "no value": no part, no entry of the hash

Indices == 0 .. NumChunks - 1
Slots   == 0 .. NumChunks   \* a request may also name a chunk too many

\* "redis": UpdateOffset fails;  "write": a part cannot be opened, or not
\* written to its end;  "commit": the commit of the merged stream fails;
\* "expire": a session key reaches the end of its TTL;  "crash": the server
\* dies with every request and task in it.
FaultKinds == {"redis", "write", "commit", "expire", "crash"}

ASSUME NumChunksIsPositive == NumChunks \in Nat \ {0}
ASSUME IntendedIsABody == Intended \in Bodies /\ None \notin Bodies
ASSUME KindsOfAppends == TusAppends \union Checked \subseteq Appends
ASSUME DeclaresIsAFlag == Declares \in BOOLEAN
ASSUME RequestsAreDistinct ==
  /\ Appends \intersect (Finalizes \union Aborts) = {}
  /\ Finalizes \intersect Aborts = {}
ASSUME FaultsAreKnown == Faults \subseteq FaultKinds

VARIABLES
  status,    \* the session key: "none" before, "gone" after it exists
  ttl,       \* "fresh" or "expiring"
  chunks,    \* the chunk hash: the body whose digest each index records
  parts,     \* temporary storage: the part files
  call,      \* a chunk request: where it stands, what it has answered
  task,      \* its pool task
  slot,      \* its chunk index
  body,      \* its body
  final,     \* a finalize request: where it stands
  watching,  \* finalize requests whose WATCH nothing has touched since
  merged,    \* what a finalize has merged so far
  abort,     \* an abort request
  reaper,    \* the session reaper
  condemned, \* the part files a pass of the reaper has collected
  commits    \* history: the contents committed, in order

keyVars  == <<status, ttl, watching>>
callVars == <<call, task, slot, body>>
finVars  == <<final, merged>>
reapVars == <<reaper, condemned>>
vars == <<status, ttl, chunks, parts, call, task, slot, body,
          final, watching, merged, abort, reaper, condemned, commits>>

\* A part file: what it holds, and the tasks that have opened it since there
\* was last nobody writing it.
Files == [holds : Bodies \union {Torn}, writers : SUBSET Appends]

ASSUME TornIsNoBody == Torn \notin Bodies
ASSUME NoneIsNoFile == None \notin Files

NoParts == [i \in Slots |-> None]
Without(f, S) == [i \in Slots |-> IF i \in S THEN None ELSE f[i]]
Present(f) == {i \in Slots : f[i] # None}

Exists == status \in {"active", "finalizing"}

Init ==
  /\ status = "none" /\ ttl = "fresh"
  /\ chunks = NoParts /\ parts = NoParts
  /\ call = [a \in Appends |-> "idle"] /\ task = [a \in Appends |-> "none"]
  /\ slot = [a \in Appends |-> 0] /\ body = [a \in Appends |-> Intended]
  /\ final = [z \in Finalizes |-> "idle"]
  /\ watching = {} /\ merged = [z \in Finalizes |-> <<>>]
  /\ abort = [b \in Aborts |-> "idle"]
  /\ reaper = "idle" /\ condemned = {}
  /\ commits = <<>>

-----------------------------------------------------------------------------
(* The session key.                                                        *)

CreateSession ==
  /\ status = "none" /\ status' = "active"
  /\ UNCHANGED <<ttl, chunks, parts, callVars, finVars, watching,
                 abort, reapVars, commits>>

\* EXPIRE on the key: a touch of a key that is gone does nothing.
TouchSession ==
  /\ ttl' = IF Exists THEN "fresh" ELSE ttl
  /\ watching' = {}
  /\ UNCHANGED status

\* DEL of the key, the hash and the offset.
DeleteSession ==
  /\ status' = "gone"
  /\ chunks' = NoParts
  /\ watching' = {}
  /\ UNCHANGED ttl

\* Time passes.
Age ==
  /\ "expire" \in Faults
  /\ Exists /\ ttl = "fresh" /\ ttl' = "expiring"
  /\ UNCHANGED <<status, watching, chunks, parts, callVars, finVars,
                 abort, reapVars, commits>>

\* Redis drops the session key; the hash and the offset have no TTL.
Expire ==
  /\ Exists /\ ttl = "expiring"
  /\ status' = "gone" /\ watching' = {}
  /\ UNCHANGED <<ttl, chunks, parts, callVars, finVars, abort,
                 reapVars, commits>>

-----------------------------------------------------------------------------
(* A chunk request and its task.                                           *)

CallGoto(a, from, to) == call[a] = from /\ call' = [call EXCEPT ![a] = to]
TaskGoto(a, from, to) == task[a] = from /\ task' = [task EXCEPT ![a] = to]

\* The request reads the session and goes on only if it is active; the
\* status it has read is never checked again.
AppendChunk(a, i, b) ==
  /\ status = "active"
  /\ CallGoto(a, "idle", IF a \in TusAppends THEN "reading" ELSE "admitted")
  /\ slot' = [slot EXCEPT ![a] = i]
  /\ body' = [body EXCEPT ![a] = b]
  /\ UNCHANGED <<keyVars, chunks, parts, task, finVars, abort,
                 reapVars, commits>>

\* AppendChunkAtOffset: the offset is the size of what the hash lists, and it
\* must be the one the request names.
CheckOffset(a) ==
  /\ CallGoto(a, "reading",
              IF Exists /\ Cardinality(Present(chunks)) = slot[a]
                THEN "admitted" ELSE "refused")
  /\ UNCHANGED <<keyVars, chunks, parts, task, slot, body, finVars,
                 abort, reapVars, commits>>

\* The body is read, the session's TTL renewed and the task submitted.  A body
\* that cannot be read refuses the request before the renewal, a full pool
\* after it.
SubmitChunk(a) ==
  /\ \/ CallGoto(a, "admitted", "waiting") /\ TaskGoto(a, "none", "queued")
     \/ CallGoto(a, "admitted", "refused") /\ UNCHANGED task
  /\ TouchSession \/ (call'[a] = "refused" /\ UNCHANGED keyVars)
  /\ UNCHANGED <<chunks, parts, slot, body, finVars, abort, reapVars, commits>>

\* The tasks that are writing the file of index i at this moment.
Writing(i) ==
  IF parts[i] = None THEN {}
  ELSE {c \in parts[i].writers : task[c] = "writing"}

\* processChunkBytes opens the part.  LocalFS.Write truncates the file that is
\* there, under the hands of whoever reads or writes it ...
OpenPart(a) ==
  /\ TaskGoto(a, "queued", "writing")
  /\ parts' = [parts EXCEPT ![slot[a]] =
                 [holds |-> Torn, writers |-> Writing(slot[a]) \union {a}]]
  /\ UNCHANGED <<keyVars, chunks, call, slot, body, finVars, abort,
                 reapVars, commits>>

\* What the file may hold when a task is through with it: its body, unless
\* another task has written the same file meanwhile.
Outcomes(a, file) ==
  IF file.writers = {a} THEN {body[a]} ELSE {body[a], file.holds, Torn}

\* ... and copies the body.  A file that was deleted meanwhile is written all
\* the same, but has no name any more.
WritePart(a) ==
  /\ TaskGoto(a, "writing", "written")
  /\ IF a \in Writing(slot[a])
       THEN \E h \in Outcomes(a, parts[slot[a]]) :
              parts' = [parts EXCEPT ![slot[a]].holds = h]
       ELSE UNCHANGED parts
  /\ UNCHANGED <<keyVars, chunks, call, slot, body, finVars, abort,
                 reapVars, commits>>

\* A part that cannot be opened is left alone; one that cannot be written to
\* its end is removed by name, whoever has stored it.
FailPart(a) ==
  /\ "write" \in Faults
  /\ \/ TaskGoto(a, "queued", "failed") /\ UNCHANGED parts
     \/ /\ TaskGoto(a, "writing", "broken")
        /\ parts' = [parts EXCEPT ![slot[a]] = None]
  /\ UNCHANGED <<keyVars, chunks, call, slot, body, finVars, abort,
                 reapVars, commits>>

\* The slice checksum, when there is one, is that of the intended body.
Refutable(a) == a \in Checked /\ body[a] # Intended

\* The part is deleted when the slice checksum does not match ...
RejectPart(a) ==
  /\ Refutable(a)
  /\ TaskGoto(a, "written", "broken")
  /\ parts' = [parts EXCEPT ![slot[a]] = None]
  /\ UNCHANGED <<keyVars, chunks, call, slot, body, finVars, abort,
                 reapVars, commits>>

\* Mutant: the chunk is recorded before it is written.
RecordFirst(a) ==
  /\ TaskGoto(a, "writing", "done")
  /\ chunks' = [chunks EXCEPT ![slot[a]] = body[a]]
  /\ UNCHANGED <<keyVars, parts, call, slot, body, finVars, abort, reapVars,
                 commits>>

\* Mutant: the script's arguments are swapped, the index recorded as digest.
RecordIndex(a) ==
  /\ TaskGoto(a, "written", "done")
  /\ chunks' = [chunks EXCEPT ![slot[a]] = slot[a]]
  /\ UNCHANGED <<keyVars, parts, call, slot, body, finVars, abort, reapVars,
                 commits>>

\* ... and otherwise records it, whatever has become of the session.
UpdateOffset(a) ==
  /\ \/ /\ TaskGoto(a, "written", "done")
        /\ chunks' = [chunks EXCEPT ![slot[a]] = body[a]]
     \/ /\ "redis" \in Faults /\ TaskGoto(a, "written", "failed")
        /\ UNCHANGED chunks
  /\ ~ Refutable(a)
  /\ UNCHANGED <<keyVars, parts, call, slot, body, finVars, abort,
                 reapVars, commits>>

\* Mutant: the request is answered when the part is written.
AnswerEarly(a) ==
  /\ task[a] \in {"written", "done"} /\ CallGoto(a, "waiting", "acked")
  /\ UNCHANGED <<keyVars, chunks, parts, task, slot, body, finVars, abort,
                 reapVars, commits>>

\* The worker's answer reaches the request that still waits for it.
Answer(a) ==
  /\ \/ task[a] = "done" /\ CallGoto(a, "waiting", "acked")
     \/ task[a] \in {"failed", "broken"} /\ CallGoto(a, "waiting", "refused")
  /\ UNCHANGED <<keyVars, chunks, parts, task, slot, body, finVars, abort,
                 reapVars, commits>>

\* The client goes away or times out; the task goes on.
Disconnect(a) ==
  /\ CallGoto(a, "waiting", "cancelled")
  /\ UNCHANGED <<keyVars, chunks, parts, task, slot, body, finVars, abort,
                 reapVars, commits>>

-----------------------------------------------------------------------------
(* Finalize.                                                               *)

FinalGoto(z, from, to) == final[z] = from /\ final' = [final EXCEPT ![z] = to]

\* ClaimSessionFinalizing: WATCH and GET ...
ClaimRead(z) ==
  /\ status # "none"
  /\ \/ /\ status = "active"
        /\ FinalGoto(z, "idle", "claiming")
        /\ watching' = watching \union {z}
     \/ /\ status # "active"
        /\ FinalGoto(z, "idle", "refused")
        /\ UNCHANGED watching
  /\ UNCHANGED <<status, ttl, chunks, parts, callVars, merged, abort,
                 reapVars, commits>>

\* Mutant: SET outside the transaction.
ClaimUnwatched(z) ==
  /\ FinalGoto(z, "claiming", "claimed")
  /\ status' = "finalizing" /\ ttl' = "fresh" /\ watching' = {}
  /\ UNCHANGED <<chunks, parts, callVars, merged, abort, reapVars, commits>>

\* ... then SET in the transaction, with what is left of the TTL the session
\* was created with.  A key touched in between fails the transaction.
ClaimExec(z) ==
  /\ \/ /\ z \in watching
        /\ FinalGoto(z, "claiming", "claimed")
        /\ status' = "finalizing"
        /\ ttl' \in {"fresh"} \union (IF "expire" \in Faults THEN {"expiring"} ELSE {})
        /\ watching' = {}
     \/ /\ z \notin watching
        /\ FinalGoto(z, "claiming", "refused")
        /\ UNCHANGED keyVars
  /\ UNCHANGED <<chunks, parts, callVars, merged, abort, reapVars, commits>>

\* Renew the TTL, list the chunks and validate that none is missing.  A
\* session that fails here stays in "finalizing".
ValidateChunks(z) ==
  /\ FinalGoto(z, "claimed",
               IF Present(chunks) = Indices THEN "merging" ELSE "failed")
  /\ TouchSession
  /\ UNCHANGED <<chunks, parts, callVars, merged, abort, reapVars, commits>>

\* The merge reads the parts in order while the stream is written; a part
\* that cannot be opened fails the write.
MergePart(z) ==
  /\ Len(merged[z]) < NumChunks
  /\ LET part == parts[Len(merged[z])] IN
       \/ /\ part # None
          /\ FinalGoto(z, "merging", "merging")
          /\ merged' = [merged EXCEPT ![z] = Append(@, part.holds)]
       \/ /\ part = None
          /\ FinalGoto(z, "merging", "cleaning")
          /\ UNCHANGED merged
  /\ UNCHANGED <<keyVars, chunks, parts, callVars, abort, reapVars, commits>>

\* The checksum of the whole, which commitStream compares if it is declared.
Matches(content) == Declares => \A i \in DOMAIN content : content[i] = Intended

\* commitStream, as one step: its own steps are those of ContentStore.
Commit(z) ==
  /\ Len(merged[z]) = NumChunks
  /\ \/ /\ Matches(merged[z])
        /\ FinalGoto(z, "merging", "committed")
        /\ commits' = Append(commits, merged[z])
     \/ /\ ~ Matches(merged[z]) \/ "commit" \in Faults
        /\ FinalGoto(z, "merging", "cleaning")
        /\ UNCHANGED commits
  /\ UNCHANGED <<keyVars, chunks, parts, callVars, merged, abort, reapVars>>

\* The session is deleted; an error is ignored.
FinishSession(z) ==
  /\ FinalGoto(z, "committed", "cleaning")
  /\ \/ DeleteSession
     \/ "redis" \in Faults /\ UNCHANGED <<keyVars, chunks>>
  /\ UNCHANGED <<parts, callVars, merged, abort, reapVars, commits>>

\* The deferred cleanup of mergeChunks, on success and on failure.
CleanupParts(z) ==
  /\ FinalGoto(z, "cleaning", "done")
  /\ parts' = Without(parts, Indices)
  /\ UNCHANGED <<keyVars, chunks, callVars, merged, abort, reapVars, commits>>

-----------------------------------------------------------------------------
(* Abort, which looks at the existence of the session and not its status.  *)

AbortGoto(b, from, to) == abort[b] = from /\ abort' = [abort EXCEPT ![b] = to]

AbortRead(b) ==
  /\ status # "none"
  /\ AbortGoto(b, "idle", IF Exists THEN "cleaning" ELSE "refused")
  /\ UNCHANGED <<keyVars, chunks, parts, callVars, finVars, reapVars, commits>>

\* Only the parts the hash lists are deleted.
AbortClean(b) ==
  /\ AbortGoto(b, "cleaning", "deleting")
  /\ parts' = Without(parts, Present(chunks))
  /\ UNCHANGED <<keyVars, chunks, callVars, finVars, reapVars, commits>>

AbortDelete(b) ==
  /\ \/ AbortGoto(b, "deleting", "done") /\ DeleteSession
     \/ /\ "redis" \in Faults /\ AbortGoto(b, "deleting", "failed")
        /\ UNCHANGED <<keyVars, chunks>>
  /\ UNCHANGED <<parts, callVars, finVars, reapVars, commits>>

-----------------------------------------------------------------------------
(* The session reaper: one pass of reap after the other.                   *)

ReaperGoto(from, to) == reaper = from /\ reaper' = to

\* ListExpiredSessions: SCAN finds a key, and its TTL is no longer positive.
\* A key that has expired is not found any more.
ReapScan ==
  /\ \/ Exists /\ ttl = "expiring" /\ ReaperGoto("idle", "listed")
     \/ ~ (Exists /\ ttl = "expiring") /\ ReaperGoto("idle", "walking")
  /\ UNCHANGED <<keyVars, chunks, parts, callVars, finVars, abort, condemned,
                 commits>>

\* cleanupSession: the part files, then the keys, without another look.
ReapParts ==
  /\ ReaperGoto("listed", "reaped")
  /\ parts' = NoParts
  /\ UNCHANGED <<keyVars, chunks, callVars, finVars, abort, condemned, commits>>

ReapSession ==
  /\ ReaperGoto("reaped", "walking")
  /\ \/ DeleteSession
     \/ "redis" \in Faults /\ UNCHANGED <<keyVars, chunks>>
  /\ UNCHANGED <<parts, callVars, finVars, abort, condemned, commits>>

\* cleanupOrphanParts: the parts are collected first ...
WalkParts ==
  /\ ReaperGoto("walking", IF Present(parts) = {} THEN "idle" ELSE "checking")
  /\ condemned' = Present(parts)
  /\ UNCHANGED <<keyVars, chunks, parts, callVars, finVars, abort, commits>>

\* Mutant: parts whose session exists are the ones to delete.
CheckNoOwner ==
  /\ \/ Exists /\ ReaperGoto("checking", "deleting") /\ UNCHANGED condemned
     \/ ~ Exists /\ ReaperGoto("checking", "idle") /\ condemned' = {}
  /\ UNCHANGED <<keyVars, chunks, parts, callVars, finVars, abort, commits>>

\* ... and deleted if GetSession then finds no session.
CheckOwner ==
  /\ \/ ~ Exists /\ ReaperGoto("checking", "deleting") /\ UNCHANGED condemned
     \/ /\ Exists \/ "redis" \in Faults
        /\ ReaperGoto("checking", "idle")
        /\ condemned' = {}
  /\ UNCHANGED <<keyVars, chunks, parts, callVars, finVars, abort, commits>>

DeleteOrphans ==
  /\ ReaperGoto("deleting", "idle")
  /\ parts' = Without(parts, condemned)
  /\ condemned' = {}
  /\ UNCHANGED <<keyVars, chunks, callVars, finVars, abort, commits>>

-----------------------------------------------------------------------------
\* The server dies and restarts; Redis and temporary storage stay, with the
\* files that were being written as they are.
Settled(f, ends) == [r \in DOMAIN f |-> IF f[r] \in ends THEN f[r] ELSE "dead"]
CallEnds  == {"idle", "acked", "refused", "cancelled"}
TaskEnds  == {"none", "done", "failed", "broken"}
FinalEnds == {"idle", "refused", "failed", "done"}
AbortEnds == {"idle", "refused", "failed", "done"}

Crash ==
  /\ "crash" \in Faults
  /\ call' = Settled(call, CallEnds)
  /\ task' = [a \in Appends |-> IF task[a] = "writing" THEN "broken"
                                ELSE Settled(task, TaskEnds)[a]]
  /\ final' = Settled(final, FinalEnds) /\ abort' = Settled(abort, AbortEnds)
  /\ <<call, task, final, abort>>' # <<call, task, final, abort>>
  /\ watching' = {}
  /\ reaper' = "idle" /\ condemned' = {}
  /\ UNCHANGED <<status, ttl, chunks, parts, slot, body, merged, commits>>

AppendStep(a) ==
  \/ \E i \in Slots, b \in Bodies : AppendChunk(a, i, b)
  \/ CheckOffset(a)
  \/ SubmitChunk(a)
  \/ Answer(a)
  \/ Disconnect(a)

WorkerStep(a) ==
  \/ OpenPart(a) \/ WritePart(a) \/ FailPart(a)
  \/ RejectPart(a)
  \/ UpdateOffset(a)

FinalizeStep(z) ==
  \/ ClaimRead(z) \/ ClaimExec(z)
  \/ ValidateChunks(z)
  \/ MergePart(z)
  \/ Commit(z)
  \/ FinishSession(z)
  \/ CleanupParts(z)

AbortStep(b) == AbortRead(b) \/ AbortClean(b) \/ AbortDelete(b)

ReaperStep ==
  \/ ReapScan
  \/ ReapParts \/ ReapSession
  \/ WalkParts \/ CheckOwner \/ DeleteOrphans

Next ==
  \/ CreateSession
  \/ Age
  \/ Expire
  \/ \E a \in Appends : AppendStep(a) \/ WorkerStep(a)
  \/ \E z \in Finalizes : FinalizeStep(z)
  \/ \E b \in Aborts : AbortStep(b)
  \/ ReaperStep
  \/ Crash

Spec == Init /\ [][Next]_vars

\* Time passes, workers and the reaper run until they are done, and a request
\* that has begun is carried to its end; no request has to be made.  A reaper
\* that looks for an owner again and again is answered by Redis at last.
Fairness ==
  /\ WF_vars(Age) /\ WF_vars(Expire)
  /\ \A a \in Appends :
       /\ WF_vars(WorkerStep(a))
       /\ WF_vars(CheckOffset(a) \/ SubmitChunk(a) \/ Answer(a))
  /\ \A z \in Finalizes : WF_vars(final[z] # "idle" /\ FinalizeStep(z))
  /\ \A b \in Aborts : WF_vars(abort[b] # "idle" /\ AbortStep(b))
  /\ WF_vars(ReaperStep)
  /\ SF_vars(CheckOwner /\ reaper' = "deleting")

FairSpec == Spec /\ Fairness

-----------------------------------------------------------------------------
(* Properties.                                                             *)

\* What each variable ranges over.
TypeOK ==
  /\ status \in {"none", "active", "finalizing", "gone"}
  /\ ttl \in {"fresh", "expiring"}
  /\ chunks \in [Slots -> Bodies \union {None}]
  /\ parts \in [Slots -> Files \union {None}]
  /\ call \in [Appends -> CallEnds \union {"reading", "admitted", "waiting", "dead"}]
  /\ task \in [Appends -> TaskEnds \union {"queued", "writing", "written", "dead"}]
  /\ slot \in [Appends -> Slots]
  /\ body \in [Appends -> Bodies]
  /\ final \in [Finalizes -> FinalEnds \union
                {"claiming", "claimed", "merging", "committed", "cleaning", "dead"}]
  /\ watching \subseteq Finalizes
  /\ merged \in [Finalizes -> Seq(Bodies \union {Torn})]
  /\ abort \in [Aborts -> AbortEnds \union {"cleaning", "deleting", "dead"}]
  /\ reaper \in {"idle", "listed", "reaped", "walking", "checking", "deleting"}
  /\ condemned \subseteq Slots
  /\ commits \in Seq(Seq(Bodies \union {Torn}))

\* A session is committed at most once, however many finalize requests race
\* for it, with each other, with an abort and with the end of its TTL.
CommittedOnce == Len(commits) <= 1

\* A session key that is gone never comes back: the transaction of a finalize
\* that has read it does not write it again.
GoneForever == [][status = "gone" => status' = "gone"]_vars

\* The only request for its index whose body was ever handed to a worker.
SoleWriter(a) ==
  /\ task[a] # "none"
  /\ \A c \in Appends \ {a} : slot[c] = slot[a] => task[c] = "none"

\* The merge opens the parts by name, long after their digests were recorded,
\* and compares them with nothing: of a session that declares no SHA-256 it
\* commits what it finds.  An index that only one request has written is
\* committed as that request sent it, whatever fails, is killed half-way or
\* comes late: no unfinished file gets into the content that way.
CommitsAsSent ==
  \A k \in DOMAIN commits : \A a \in Appends :
    SoleWriter(a) /\ slot[a] \in Indices => commits[k][slot[a] + 1] = body[a]

\* A retry of the index that may have spoilt the part: it is being written, its
\* write failed or was killed half-way, or its checksum refuted it.
Spoils(c) == task[c] \in {"writing", "broken"}

\* The part is a whole body.
Whole(i) == parts[i] # None /\ parts[i].holds # Torn

\* Several requests have written the part at the same time.
Contended(i) ==
  /\ parts[i] # None
  /\ \E c, d \in parts[i].writers : c # d

\* A chunk whose upload was answered with success is listed and stored as a
\* whole as long as the session is active and neither an abort nor the reaper is
\* at work.  Only other requests for the same index can spoil it, and they do:
\* storage truncates the good part when a retry opens it and removes it when the
\* retry fails, and two that write at once may leave a mixture.
AckedChunkKept ==
  \A a \in Appends :
    /\ call[a] = "acked"
    /\ status = "active"
    /\ \A b \in Aborts : abort[b] \in {"idle", "refused"}
    /\ reaper # "reaped"
    => /\ chunks[slot[a]] # None
       /\ \/ Whole(slot[a])
          \/ Contended(slot[a])
          \/ \E c \in Appends : slot[c] = slot[a] /\ Spoils(c)

\* The orphan pass deletes no part of a session that exists.
OrphansHaveNoSession ==
  reaper = "deleting" => ~ Exists

\* No part file stays for good: whatever fails, crashes or comes late, the
\* cleanup of finalize or abort or a pass of the reaper gets it.
PartsReclaimed == <>[](parts = NoParts)
=============================================================================
