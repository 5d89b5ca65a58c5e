---------------------------- MODULE UploadClient ----------------------------
(***************************************************************************)
(* One upload of one file by one of the four functions of the clients: the *)
(* command-line client's UploadFile and uploadBytes, and Upload and        *)
(* UploadReader of the Go SDK.  The function asks whether the content is   *)
(* there, creates a session, sends one PATCH per chunk from goroutines of  *)
(* its own, as many at a time as a semaphore admits, collects their errors *)
(* through a channel, and finalizes.  Each request is tried three times.   *)
(*                                                                         *)
(* The server answers by its rules for sessions, a request at a time; how  *)
(* its own steps interleave is the matter of UploadSession.  A request     *)
(* whose answer is lost may still be served, at any later time.            *)
(*                                                                         *)
(* All chunks but the last have one size, so a chunk's index stands for    *)
(* its offset, and a chunk's content is named by the index it has in what  *)
(* is sent: the file, or the zstd stream that is made of it.               *)
(***************************************************************************)
EXTENDS Integers, Sequences, FiniteSets

CONSTANTS
  Setups,        \* [kind, chunks, width, known, faults, size, last, cap, hard, format]
  MaxAttempts,   \* tries of a request (3 in the code)
  Faults,        \* kinds of faults: subset of {"lost", "failed", "refused"}
  None           \* no value

Kinds == {"cli", "cli_bytes", "sdk", "sdk_bytes"}

ASSUME SetupsAreUploads ==
  \A s \in Setups :
    /\ s.kind \in Kinds /\ s.chunks \in Nat /\ s.width \in Nat
    /\ {s.size, s.last, s.cap} \subseteq Nat \ {0} /\ s.last <= s.size
    /\ s.hard \in BOOLEAN /\ s.format \in {"none", "zstd"}
    /\ s.kind = "cli_bytes" => s.format = "none"

VARIABLES
  setup,       \* the function called, chunks sent, concurrency, whether the content
               \* is known, bound on the faults; bytes of a chunk and of the last,
               \* the largest chunk of the server and whether that is the 64 MiB at
               \* which it cuts off every body; what X-Compression announces
  main,        \* where the calling goroutine stands
  next,        \* the chunk to read next
  worker,      \* where the goroutine of each chunk stands
  buf,         \* the chunk in the buffer the command-line client reads into
  sum,         \* the digest a goroutine has computed, X-Slice-SHA256
  errs,        \* errCh
  joined,      \* reports the calling goroutine has received
  tries,       \* attempts of a caller's request that have ended
  lost,        \* callers whose request has met a transport error (lastErr)
  session,     \* the session id the client was given
  sessions,    \* the server's: status and chunks received, by id
  committed,   \* contents that files of the server have
  rows,        \* file rows the upload has left
  abroad,      \* requests without an answer that the server may still serve
  faults       \* faults so far

clientVars == <<main, next, worker, buf, sum, errs, joined, session>>
callVars   == <<tries, lost>>
serverVars == <<sessions, committed, rows>>
vars == <<setup, clientVars, callVars, serverVars, abroad, faults>>

IsCLI == setup.kind \in {"cli", "cli_bytes"}
Chunks == 0 .. setup.chunks - 1
\* The calling goroutine, and those that send chunks by their index.
Main == -1
Callers == {Main} \union Chunks
Whole == [i \in 1 .. setup.chunks |-> i - 1]
Ended == main \in {"ok", "failed", "panicked"}
SizeOf(i) == IF i = setup.chunks - 1 THEN setup.last ELSE setup.size

\* Mutant: the place is given back before the request is made.
HoldingToHash == {i \in Chunks : worker[i] = "hashing"}

\* The goroutines that hold a place of the semaphore: from before they start
\* to after they have reported.
Holding == {i \in Chunks : worker[i] \notin {"none", "done"}}

\* The command-line client's stream hands each goroutine a slice of the one
\* buffer; the others give it bytes that nobody writes again.
Content(i) == IF setup.kind = "cli" THEN buf ELSE i

\* Mutant: errCh is as long as the semaphore, whatever the number of chunks.
NarrowChannel == IF setup.kind = "sdk" THEN 1 ELSE setup.width

Capacity == CASE setup.kind = "sdk" -> 1
              [] setup.kind = "cli" -> setup.width
              [] OTHER -> setup.chunks

\* In the SDK's stream the first error cancels the context of the others.
Cancelled == setup.kind = "sdk" /\ errs # << >>

Init ==
  /\ setup \in Setups
  /\ main = "check" /\ next = 0 /\ buf = None /\ errs = << >> /\ joined = 0
  /\ worker = [i \in Chunks |-> "none"] /\ sum = [i \in Chunks |-> None]
  /\ tries = [c \in Callers |-> 0] /\ lost = {}
  /\ session = None /\ sessions = << >> /\ rows = 0 /\ abroad = {} /\ faults = 0
  /\ committed = IF setup.known THEN {Whole} ELSE {}

-----------------------------------------------------------------------------
(* The server: q is the request, code its answer.                          *)

\* HEAD /v1/files, which adds a row for the content it finds.
ServeCheck(q, code) ==
  /\ q.op = "check"
  /\ code = IF Whole \in committed THEN "found" ELSE "absent"
  /\ rows' = rows + (IF code = "found" THEN 1 ELSE 0)
  /\ UNCHANGED <<sessions, committed>>

\* CreateSession takes a chunk size down to the largest of the server, and the
\* answer does not say so.
Clamped == IF setup.size > setup.cap THEN setup.cap ELSE setup.size

ServeCreate(q, code) ==
  /\ q.op = "create" /\ code = "created"
  /\ sessions' = Append(sessions, [status |-> "active", got |-> << >>, size |-> Clamped])
  /\ UNCHANGED <<committed, rows>>

\* PATCH /uploads/{id}: the offset is that of the bytes received, the body is
\* not longer than the session's chunks, and its digest is the one announced.
InOrder(q) == sessions[q.session].status = "active" /\ Len(sessions[q.session].got) = q.index
TooLong(q) == SizeOf(q.index) > sessions[q.session].size
Accepts(q) == InOrder(q) /\ ~ TooLong(q) /\ q.body = q.sum

\* A body that MaxBytesReader cuts off is an error of reading, not a refusal.
CutOff(q) == q.op = "patch" /\ setup.hard /\ InOrder(q) /\ TooLong(q)

ServePatch(q, code) ==
  /\ q.op = "patch"
  /\ \/ /\ Accepts(q) /\ code = "stored"
        /\ sessions' = [sessions EXCEPT ![q.session].got = Append(@, q.body)]
     \/ ~ Accepts(q) /\ ~ CutOff(q) /\ code = "refused" /\ UNCHANGED sessions
  /\ UNCHANGED <<committed, rows>>

\* Finalize decompresses what was announced as zstd.  The streams compress what
\* they announce so; UploadReader sends the bytes as they are.
Readable == setup.format = "none" \/ setup.kind \in {"cli", "sdk"} \/ setup.chunks = 0

\* Finalize claims the session; one that is not complete, or not the content
\* declared, stays claimed.
Claimed(q) == [sessions EXCEPT ![q.session].status = "finalizing"]

\* Mutant: the content is not compared with the declared digest.
ServeFinalizeUnchecked(q, code) ==
  /\ q.op = "finalize"
  /\ \/ /\ sessions[q.session].status = "active"
        /\ Len(sessions[q.session].got) = setup.chunks /\ code = "committed"
        /\ sessions' = [Claimed(q) EXCEPT ![q.session].status = "gone"]
        /\ committed' = committed \union {sessions[q.session].got}
        /\ rows' = rows + 1
     \/ /\ sessions[q.session].status # "active" /\ code = "refused"
        /\ UNCHANGED serverVars

ServeFinalize(q, code) ==
  /\ q.op = "finalize"
  /\ \/ /\ sessions[q.session].status = "active"
        /\ sessions[q.session].got = Whole /\ Readable /\ code = "committed"
        /\ sessions' = [sessions EXCEPT ![q.session].status = "gone"]
        /\ committed' = committed \union {Whole} /\ rows' = rows + 1
     \/ /\ sessions[q.session].status = "active"
        /\ ~ (sessions[q.session].got = Whole /\ Readable) /\ code = "refused"
        /\ sessions' = Claimed(q) /\ UNCHANGED <<committed, rows>>
     \/ /\ sessions[q.session].status # "active" /\ code = "refused"
        /\ UNCHANGED serverVars

Codes == {"found", "absent", "created", "stored", "committed", "refused"}

Serve(q, code) ==
  \/ ServeCheck(q, code)
  \/ ServeCreate(q, code)
  \/ ServePatch(q, code)
  \/ ServeFinalize(q, code)

-----------------------------------------------------------------------------
(* A request and the ways it ends.                                         *)

Calling(c) == /\ main # "panicked"
              /\ IF c = Main THEN main \in {"check", "create", "finalize"}
                               ELSE worker[c] = "calling"

Request(c) ==
  IF c = Main THEN [op |-> main, session |-> session, try |-> tries[c]]
  ELSE [op |-> "patch", session |-> session, try |-> tries[c], index |-> c,
        sum |-> sum[c], body |-> Content(c)]

\* What the caller does with the answer.  The command-line client decodes the
\* body of the answer to its HEAD, which has none; the SDK reads the headers.
After(code) ==
  CASE code = "absent"    -> "create"
    [] code = "created"   -> "read"
    [] code = "committed" -> "ok"
    [] code = "found"     -> IF IsCLI THEN "failed" ELSE "ok"
    [] OTHER              -> "failed"

Return(c, code) ==
  /\ tries' = [tries EXCEPT ![c] = 0] /\ lost' = lost \ {c}
  /\ \/ code = "panic" /\ main' = "panicked" /\ UNCHANGED worker
     \/ c = Main /\ code # "panic" /\ main' = After(code) /\ UNCHANGED worker
     \/ /\ c # Main /\ code # "panic" /\ UNCHANGED main
        /\ worker' = [worker EXCEPT ![c] = IF code = "stored" THEN "good" ELSE "bad"]
  /\ session' = IF code = "created" THEN Len(sessions') ELSE session
  /\ UNCHANGED <<setup, next, buf, sum, errs, joined>>

Answered(c) ==
  /\ Calling(c)
  /\ \E code \in Codes : Serve(Request(c), code) /\ Return(c, code)
  /\ UNCHANGED <<abroad, faults>>

\* After the last attempt the command-line client returns lastErr, which is
\* nil when every attempt got a 5xx, and no response: its callers use the
\* response all the same.  The SDK returns the last response.
GiveUp(c, error) == IF IsCLI /\ ~ error THEN "panic" ELSE "error"

Again(c, error) ==
  \/ /\ tries[c] + 1 < MaxAttempts
     /\ tries' = [tries EXCEPT ![c] = @ + 1]
     /\ lost' = IF error THEN lost \union {c} ELSE lost
     /\ UNCHANGED <<setup, clientVars>>
  \/ tries[c] + 1 = MaxAttempts /\ Return(c, GiveUp(c, error \/ c \in lost))

\* The answer is a 5xx: a quota, a full pool or an error of a store.  A finalize
\* may have claimed its session before.
Failed(c) ==
  /\ "failed" \in Faults /\ faults < setup.faults /\ faults' = faults + 1
  /\ Calling(c) /\ Again(c, FALSE)
  /\ \/ UNCHANGED sessions
     \/ /\ c = Main /\ main = "finalize" /\ sessions[session].status = "active"
        /\ sessions' = Claimed(Request(c))
  /\ UNCHANGED <<committed, rows, abroad>>

\* The server has cut the body off: it answers 500 and closes the connection,
\* and the client may see the one or the other.
Cut(c) ==
  /\ Calling(c) /\ CutOff(Request(c))
  /\ \E error \in BOOLEAN : Again(c, error)
  /\ UNCHANGED <<serverVars, abroad, faults>>

\* The answer is a 4xx of the middleware or of a session that is gone: a rate
\* limit, a token, an expiry.
Refused(c) ==
  /\ "refused" \in Faults /\ faults < setup.faults /\ faults' = faults + 1
  /\ Calling(c) /\ Return(c, "refused")
  /\ UNCHANGED <<serverVars, abroad>>

\* No answer: refused, cut off or after 60 seconds.
Lost(c) ==
  /\ "lost" \in Faults /\ faults < setup.faults /\ faults' = faults + 1
  /\ Calling(c) /\ Again(c, TRUE)
  /\ abroad' = abroad \union {Request(c)}
  /\ UNCHANGED serverVars

\* A goroutine whose context is cancelled, in its request or between two.
CallCancelled(c) ==
  /\ Cancelled /\ c # Main /\ Calling(c)
  /\ Return(c, "error")
  /\ abroad' \in {abroad, abroad \union {Request(c)}}
  /\ UNCHANGED <<serverVars, faults>>

Late ==
  \E q \in abroad :
    /\ \/ \E code \in Codes : Serve(q, code)
       \/ CutOff(q) /\ UNCHANGED serverVars
    /\ abroad' = abroad \ {q}
    /\ UNCHANGED <<setup, clientVars, callVars, faults>>

-----------------------------------------------------------------------------
(* The calling goroutine.                                                  *)

Quiet == UNCHANGED <<setup, callVars, serverVars, abroad, faults>>

\* Read the next chunk, unless the file is at its end or an error has come.
ReadChunk ==
  /\ main = "read"
  /\ IF next = setup.chunks \/ Cancelled
       THEN main' = "join" /\ UNCHANGED buf
       ELSE main' = "spawn" /\ buf' = next
  /\ UNCHANGED <<next, worker, sum, errs, joined, session>> /\ Quiet

\* Wait for a place, or for the cancellation where it is watched.
SpawnWorker ==
  /\ main = "spawn"
  /\ \/ /\ Cardinality(Holding) < setup.width
        /\ worker' = [worker EXCEPT ![next] = "hashing"]
        /\ next' = next + 1 /\ main' = "read"
     \/ Cancelled /\ main' = "join" /\ UNCHANGED <<next, worker>>
  /\ UNCHANGED <<buf, sum, errs, joined, session>> /\ Quiet

\* wg.Wait, then a look at the channel.
JoinAll ==
  /\ main = "join" /\ setup.kind = "sdk"
  /\ Holding = {}
  /\ main' = IF errs = << >> THEN "finalize" ELSE "failed"
  /\ UNCHANGED <<next, worker, buf, sum, errs, joined, session>> /\ Quiet

\* Receive one report after the other; the first error returns.
JoinNext ==
  /\ main = "join" /\ setup.kind # "sdk"
  /\ \/ joined = next /\ main' = "finalize" /\ UNCHANGED <<errs, joined>>
     \/ /\ joined < next /\ errs # << >>
        /\ errs' = Tail(errs) /\ joined' = joined + 1
        /\ main' = IF Head(errs) = "bad" THEN "failed" ELSE "join"
  /\ UNCHANGED <<next, worker, buf, sum, session>> /\ Quiet

MainStep == ReadChunk \/ SpawnWorker \/ JoinAll \/ JoinNext

-----------------------------------------------------------------------------
(* The goroutine of a chunk.                                               *)

HashChunk(i) ==
  /\ main # "panicked" /\ worker[i] = "hashing"
  /\ sum' = [sum EXCEPT ![i] = Content(i)]
  /\ worker' = [worker EXCEPT ![i] = "calling"]
  /\ UNCHANGED <<main, next, buf, errs, joined, session>> /\ Quiet

\* Send the result, which may block; reportError of the SDK keeps only the
\* first error and never blocks.  The place is given back after.
ReportChunk(i) ==
  /\ main # "panicked" /\ worker[i] \in {"good", "bad"}
  /\ \/ setup.kind = "sdk" /\ (worker[i] = "good" \/ errs # << >>) /\ UNCHANGED errs
     \/ /\ setup.kind # "sdk" \/ worker[i] = "bad"
        /\ Len(errs) < Capacity
        /\ errs' = Append(errs, worker[i])
  /\ worker' = [worker EXCEPT ![i] = "done"]
  /\ UNCHANGED <<main, next, buf, sum, joined, session>> /\ Quiet

WorkerStep(i) == HashChunk(i) \/ ReportChunk(i)

Next ==
  \/ MainStep
  \/ Late
  \/ \E c \in Callers :
       Answered(c) \/ Cut(c) \/ Refused(c) \/ Failed(c) \/ Lost(c) \/ CallCancelled(c)
  \/ \E i \in Chunks : WorkerStep(i)

AnyChunk == UNION {0 .. s.chunks - 1 : s \in Setups}

\* Each goroutine that can go on does, and each request ends: the HTTP client
\* gives it 60 seconds.  That a lost request is ever served is not assumed.
Fairness ==
  /\ WF_vars(MainStep)
  /\ \A c \in {Main} \union AnyChunk : WF_vars(c \in Callers /\ (Answered(c) \/ Cut(c)))
  /\ \A i \in AnyChunk : WF_vars(i \in Chunks /\ WorkerStep(i))

Spec == Init /\ [][Next]_vars /\ Fairness

-----------------------------------------------------------------------------
\* An upload that reports success has left a file with exactly the bytes of
\* the local file, whatever was retried, lost or served late, and although
\* chunks of the command-line client are read into one buffer while they are
\* sent (Finalize, uploadStream).
SuccessIsHonest == main = "ok" => Whole \in committed /\ rows > 0

Sequential == setup.chunks <= 1 \/ (setup.width = 1 /\ setup.kind # "cli")
Uneventful == faults = 0 /\ ~ (setup.known /\ IsCLI)

\* What the server can take: no chunk above its limit, which the client is not
\* told, and a stream that is what it is announced to be.
Admissible == Readable /\ \A i \in Chunks : SizeOf(i) <= setup.cap

\* Admissible chunks sent one at a time, to a server that answers each request
\* by its rules for sessions, are never refused: the upload succeeds with one
\* row and one session (CreateSession, appendChunkForSession, Finalize).
OneAtATimeSucceeds ==
  Sequential /\ Uneventful /\ Admissible =>
    main \notin {"failed", "panicked"} /\ (main = "ok" => rows = 1 /\ Len(sessions) <= 1)

\* The semaphore, the reports and the join never leave an upload waiting for
\* good, except the command-line client's stream of more than twice as many
\* chunks as it may send at once (uploadStream, uploadBytes).
UploadReturns == (setup.kind = "cli" /\ setup.chunks > 2 * setup.width) \/ <>Ended
=============================================================================
