---------------------------- MODULE ChunkLimiter ----------------------------
(***************************************************************************)
(* How chunk bodies in memory are limited: the weighted semaphore that     *)
(* every chunk request passes before it reads its body, and the worker     *)
(* pool that holds the body until it is persisted.  Who gives the permits  *)
(* back changes on the way: the request until the pool has its task, the   *)
(* task from then on.                                                      *)
(*                                                                         *)
(* The semaphore is golang.org/x/sync/semaphore.Weighted: first come first *)
(* served, and a request whose context ends while it waits leaves the line.*)
(***************************************************************************)
EXTENDS Integers, Sequences, FiniteSets, SequencesExt

CONSTANTS
  Requests,   \* connections that send one chunk request after the other
  Weight,     \* the permits of each: the chunk limit of its session
  Capacity,   \* MaxInFlightBytes
  Workers,    \* goroutines of the pool
  QueueSize,  \* tasks its channel holds
  Faults      \* which faults the environment may inject

\* "read": a body cannot be read;  "long": a body is longer than the chunk limit
\* of its session;  "redis": TouchSession fails;  "cancel": the context of a
\* request ends.
FaultKinds == {"read", "long", "redis", "cancel"}

ASSUME RequestsAreFinite == IsFiniteSet(Requests)
ASSUME WeightsFit == Capacity \in Nat /\ Weight \in [Requests -> 1 .. Capacity]
ASSUME PoolIsThere == Workers \in Nat \ {0} /\ QueueSize \in Nat \ {0}
ASSUME FaultsAreKnown == Faults \subseteq FaultKinds

VARIABLES
  used,     \* permits taken from the semaphore
  waiters,  \* requests that wait for permits, in line
  pc,       \* where a request stands
  task,     \* its task in the pool
  queue     \* tasks that no worker has taken

vars == <<used, waiters, pc, task, queue>>

\* The permits that the requests of S ask for, one by one, and their number.
Permits(S) == {p \in Requests \X (1 .. Capacity) : p[1] \in S /\ p[2] <= Weight[p[1]]}
Total(S) == Cardinality(Permits(S))
Running == {r \in Requests : task[r] \in {"running", "persisted"}}

Init ==
  /\ used = 0 /\ waiters = <<>>
  /\ pc = [r \in Requests |-> "idle"]
  /\ task = [r \in Requests |-> "none"]
  /\ queue = <<>>

-----------------------------------------------------------------------------
(* The semaphore.                                                          *)

\* notifyWaiters: with u permits taken, the line is served from its head, n
\* waiters of it, until the next one asks for more than is left; where says
\* where every request stands.
Notify(u, line, where) ==
  \E n \in 0 .. Len(line) :
    LET lucky == {line[i] : i \in 1 .. n}
    IN /\ used' = u + Total(lucky) /\ used' <= Capacity
       /\ n < Len(line) => used' + Weight[line[n + 1]] > Capacity
       /\ waiters' = SubSeq(line, n + 1, Len(line))
       /\ pc' = [r \in Requests |-> IF r \in lucky THEN "granted" ELSE where[r]]

\* Release by r, which goes on to the point next.
Release(r, next) == Notify(used - Weight[r], waiters, [pc EXCEPT ![r] = next])

Goto(r, from, to) == pc[r] = from /\ pc' = [pc EXCEPT ![r] = to]
TaskGoto(r, from, to) == task[r] = from /\ task' = [task EXCEPT ![r] = to]

\* Mutant: whoever finds enough permits takes them, line or no line.
AcquireBarging(r) ==
  /\ task[r] = "none"
  /\ \/ /\ used + Weight[r] <= Capacity
        /\ Goto(r, "idle", "reading")
        /\ used' = used + Weight[r]
        /\ UNCHANGED waiters
     \/ /\ used + Weight[r] > Capacity
        /\ Goto(r, "idle", "blocked")
        /\ waiters' = Append(waiters, r)
        /\ UNCHANGED used
  /\ UNCHANGED <<task, queue>>

\* The next request of a connection whose last task is over.
Acquire(r) ==
  /\ task[r] = "none"
  /\ \/ /\ used + Weight[r] <= Capacity /\ waiters = <<>>
        /\ Goto(r, "idle", "reading")
        /\ used' = used + Weight[r]
        /\ UNCHANGED waiters
     \/ /\ used + Weight[r] > Capacity \/ waiters # <<>>
        /\ Goto(r, "idle", "blocked")
        /\ waiters' = Append(waiters, r)
        /\ UNCHANGED used
  /\ UNCHANGED <<task, queue>>

Resume(r) ==
  /\ Goto(r, "granted", "reading")
  /\ UNCHANGED <<used, waiters, task, queue>>

\* The head of the line may have kept smaller requests behind it waiting.
CancelBlocked(r) ==
  /\ "cancel" \in Faults /\ pc[r] = "blocked"
  /\ \E i \in 1 .. Len(waiters) :
       LET rest == RemoveAt(waiters, i)
           gone == [pc EXCEPT ![r] = "idle"]
       IN /\ waiters[i] = r
          /\ IF i = 1 THEN Notify(used, rest, gone)
                      ELSE waiters' = rest /\ pc' = gone /\ UNCHANGED used
  /\ UNCHANGED <<task, queue>>

\* The permits arrive when the context has ended: they are put back.
CancelGranted(r) ==
  /\ "cancel" \in Faults /\ pc[r] = "granted"
  /\ Release(r, "idle")
  /\ UNCHANGED <<task, queue>>

-----------------------------------------------------------------------------
(* The request.                                                            *)

\* io.ReadAll of at most one byte more than the limit, and the comparison.
ReadBody(r) ==
  /\ Goto(r, "reading", "touching")
  /\ UNCHANGED <<used, waiters, task, queue>>

\* The three returns between the semaphore and the pool keep the permits: the
\* body cannot be read, ...
ReadFails(r) ==
  /\ "read" \in Faults
  /\ Goto(r, "reading", "idle")
  /\ UNCHANGED <<used, waiters, task, queue>>

\* ... it is too long, ...
RejectLong(r) ==
  /\ "long" \in Faults
  /\ Goto(r, "reading", "idle")
  /\ UNCHANGED <<used, waiters, task, queue>>

\* ... or the session is not renewed, because Redis fails or because the
\* context of the request, which TouchSession runs on, has ended.
TouchFails(r) ==
  /\ Faults \intersect {"redis", "cancel"} # {}
  /\ Goto(r, "touching", "idle")
  /\ UNCHANGED <<used, waiters, task, queue>>

TouchSession(r) ==
  /\ Goto(r, "touching", "submitting")
  /\ UNCHANGED <<used, waiters, task, queue>>

Submit(r) ==
  /\ Len(queue) < QueueSize
  /\ Goto(r, "submitting", "waiting")
  /\ TaskGoto(r, "none", "queued")
  /\ queue' = Append(queue, r)
  /\ UNCHANGED <<used, waiters>>

\* Five seconds with a full queue, or the end of the context.
SubmitFails(r) ==
  /\ Len(queue) = QueueSize \/ "cancel" \in Faults
  /\ pc[r] = "submitting"
  /\ Release(r, "idle")
  /\ UNCHANGED <<task, queue>>

\* The answer of the worker; the channel keeps it for the request.
Answer(r) ==
  /\ task[r] \in {"persisted", "none"}
  /\ Goto(r, "waiting", "idle")
  /\ UNCHANGED <<used, waiters, task, queue>>

\* Mutant: the request that goes away takes its permits along.
DisconnectReleases(r) ==
  /\ "cancel" \in Faults /\ pc[r] = "waiting"
  /\ Release(r, "idle")
  /\ UNCHANGED <<task, queue>>

\* The context ends; the task and its permits stay.
Disconnect(r) ==
  /\ "cancel" \in Faults
  /\ Goto(r, "waiting", "idle")
  /\ UNCHANGED <<used, waiters, task, queue>>

-----------------------------------------------------------------------------
(* The pool.                                                               *)

TakeTask ==
  /\ queue # <<>> /\ Cardinality(Running) < Workers
  /\ TaskGoto(Head(queue), "queued", "running")
  /\ queue' = Tail(queue)
  /\ UNCHANGED <<used, waiters, pc>>

\* processChunkBytes returns, with or without an error.
Persist(r) ==
  /\ TaskGoto(r, "running", "persisted")
  /\ UNCHANGED <<used, waiters, pc, queue>>

\* Mutant: the deferred release is missing where the request has gone.
FinishTaskOfWaiter(r) ==
  /\ TaskGoto(r, "persisted", "none")
  /\ IF pc[r] = "waiting" THEN Release(r, pc[r]) ELSE UNCHANGED <<used, waiters, pc>>
  /\ UNCHANGED queue

\* The deferred release of the task.
FinishTask(r) ==
  /\ TaskGoto(r, "persisted", "none")
  /\ Release(r, pc[r])
  /\ UNCHANGED queue

-----------------------------------------------------------------------------
RequestStep(r) ==
  \/ Resume(r)
  \/ ReadBody(r) \/ ReadFails(r) \/ RejectLong(r)
  \/ TouchSession(r) \/ TouchFails(r)
  \/ Submit(r) \/ SubmitFails(r)
  \/ Answer(r)

WorkerStep(r) == Persist(r) \/ FinishTask(r)

Next ==
  \/ \E r \in Requests :
       \/ Acquire(r)
       \/ CancelBlocked(r) \/ CancelGranted(r)
       \/ RequestStep(r) \/ Disconnect(r)
       \/ WorkerStep(r)
  \/ TakeTask

Spec == Init /\ [][Next]_vars

\* Goroutines run; bodies arrive or fail within the server's read timeout; a
\* full queue is left after five seconds.  No context has to end and no
\* request has to be made.
Fairness ==
  /\ WF_vars(TakeTask)
  /\ \A r \in Requests : WF_vars(RequestStep(r)) /\ WF_vars(WorkerStep(r))

FairSpec == Spec /\ Fairness

-----------------------------------------------------------------------------
(* Properties.                                                             *)

\* Requests whose body, or part of it, is in memory.
Buffering ==
  {r \in Requests : \/ pc[r] \in {"reading", "touching", "submitting"}
                    \/ task[r] \in {"queued", "running", "persisted"}}

\* Requests that hold permits, for themselves or through their task.
Holders == Buffering \union {r \in Requests : pc[r] = "granted"}

\* The chunk bodies in memory never exceed MaxInFlightBytes, although requests
\* that have gone leave their bodies with the pool.
BufferedWithinLimit == Total(Buffering) <= Capacity

\* Permits that nobody will give back.
Leaked == used - Total(Holders)

\* A request returns between the semaphore and the pool.
ReturnsEarly(r) == pc[r] \in {"reading", "touching"} /\ pc'[r] = "idle"

\* Every permit taken has a holder, whose task or failed Submit gives it back
\* exactly once, except that the returns before Submit (upload.go:258-267: a
\* body unreadable or too long, a session not renewed, also because the context
\* has ended) lose the permits of their request.  A context that ends in line,
\* in Submit or while the task runs loses none, nor do a full queue and the
\* workers.
OnlyEarlyReturnsLeak ==
  [][\/ Leaked' = Leaked
     \/ \E r \in Requests : ReturnsEarly(r) /\ Leaked' = Leaked + Weight[r]]_vars

\* As long as none is lost, a request in line gets its permits, however heavy
\* it is and however many light ones keep arriving.
NoStarvation == \A r \in Requests : pc[r] = "blocked" ~> pc[r] # "blocked" \/ Leaked > 0
=============================================================================
