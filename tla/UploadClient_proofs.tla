------------------------ MODULE UploadClient_proofs ------------------------
(***************************************************************************)
(* Proofs about UploadClient: what a reported success means, and that an   *)
(* upload with nothing in its way does not fail.                           *)
(***************************************************************************)
EXTENDS UploadClient, FiniteSetTheorems, SequenceTheorems, TLAPS

-----------------------------------------------------------------------------
(* A success is honest.                                                    *)

\* Rows only get more, and so do the contents that files have.
HonestInv == rows \in Nat /\ SuccessIsHonest

\* The two answers that report a success come with a row and the content.
LEMMA ServerKeepsContent ==
  ASSUME rows \in Nat, NEW q, NEW code, Serve(q, code)
  PROVE  /\ rows' \in Nat /\ rows' >= rows /\ committed \subseteq committed'
         /\ code \in {"found", "committed"} => Whole \in committed' /\ rows' > 0
<1> USE DEF serverVars
<1>1. CASE ServeCheck(q, code)
  BY <1>1 DEF ServeCheck
<1>2. CASE ServeCreate(q, code)
  BY <1>2 DEF ServeCreate
<1>3. CASE ServePatch(q, code)
  BY <1>3 DEF ServePatch
<1>4. CASE ServeFinalize(q, code)
  BY <1>4 DEF ServeFinalize
<1> QED BY <1>1, <1>2, <1>3, <1>4 DEF Serve

\* The calling goroutine ends well on those answers alone.
LEMMA ReturnsOk ==
  ASSUME NEW c, NEW code, Return(c, code), main' = "ok", main # "ok"
  PROVE  code \in {"found", "committed"}
<1>1. main' = After(code)
  BY DEF Return
<1> QED BY <1>1 DEF After

LEMMA HonestStep ==
  ASSUME HonestInv, [Next]_vars
  PROVE  HonestInv'
<1> USE DEF HonestInv, SuccessIsHonest, serverVars, clientVars, callVars, vars
<1> DEFINE Keeps == rows' \in Nat /\ rows' >= rows /\ committed \subseteq committed'
           SameFile == Whole' = Whole
<1>1. ASSUME Keeps, setup' = setup, main' = "ok" => main = "ok" PROVE HonestInv'
  <2>1. SameFile
    BY <1>1 DEF Whole
  <2> QED BY <1>1, <2>1
<1>2. CASE MainStep
  <2>1. Keeps /\ setup' = setup /\ main' # "ok"
    BY <1>2 DEF MainStep, ReadChunk, SpawnWorker, JoinAll, JoinNext, Quiet
  <2> QED BY <1>1, <2>1
<1>3. CASE Late
  <2>1. UNCHANGED <<setup, clientVars>>
    BY <1>3 DEF Late
  <2>2. PICK q \in abroad : (\E code \in Codes : Serve(q, code)) \/ UNCHANGED serverVars
    BY <1>3 DEF Late
  <2>3. Keeps
    BY <2>2, ServerKeepsContent
  <2> QED BY <1>1, <2>1, <2>3
<1>4. ASSUME NEW c \in Callers, Answered(c) PROVE HonestInv'
  <2>1. PICK code \in Codes : Serve(Request(c), code) /\ Return(c, code)
    BY <1>4 DEF Answered
  <2>2. Keeps /\ (code \in {"found", "committed"} => Whole \in committed' /\ rows' > 0)
    BY <2>1, ServerKeepsContent
  <2>3. SameFile /\ setup' = setup
    BY <2>1 DEF Return, Whole
  <2>4. CASE main' = "ok" /\ main # "ok"
    <3>1. code \in {"found", "committed"}
      BY <2>1, <2>4, ReturnsOk
    <3> QED BY <2>2, <2>3, <3>1
  <2> QED BY <1>1, <2>2, <2>3, <2>4
<1>5. ASSUME NEW c \in Callers, NEW error \in BOOLEAN, Again(c, error)
      PROVE  setup' = setup /\ (main' = "ok" => main = "ok")
  <2>1. CASE UNCHANGED <<setup, clientVars>>
    BY <2>1
  <2>2. ASSUME NEW e \in BOOLEAN, Return(c, GiveUp(c, e))
        PROVE  setup' = setup /\ (main' = "ok" => main = "ok")
    <3>1. GiveUp(c, e) \notin {"found", "committed"}
      BY DEF GiveUp
    <3> QED BY <2>2, <3>1, ReturnsOk DEF Return
  <2> QED BY <1>5, <2>1, <2>2 DEF Again
<1>6. ASSUME NEW c \in Callers, Failed(c) PROVE HonestInv'
  <2>1. Keeps
    BY <1>6 DEF Failed
  <2> QED BY <1>1, <1>5, <1>6, <2>1 DEF Failed
<1>7. ASSUME NEW c \in Callers, Lost(c) PROVE HonestInv'
  <2>1. Keeps
    BY <1>7 DEF Lost
  <2> QED BY <1>1, <1>5, <1>7, <2>1 DEF Lost
<1>8. ASSUME NEW c \in Callers, CallCancelled(c) PROVE HonestInv'
  <2>1. Keeps /\ setup' = setup /\ Return(c, "error")
    BY <1>8 DEF CallCancelled, Return
  <2>2. main' = "ok" => main = "ok"
    BY <2>1, ReturnsOk
  <2> QED BY <1>1, <2>1, <2>2
<1>c. ASSUME NEW c \in Callers, Cut(c) PROVE HonestInv'
  <2>1. Keeps
    BY <1>c DEF Cut
  <2> QED BY <1>1, <1>5, <1>c, <2>1 DEF Cut
<1>r. ASSUME NEW c \in Callers, Refused(c) PROVE HonestInv'
  <2>1. Keeps /\ setup' = setup /\ Return(c, "refused")
    BY <1>r DEF Refused, Return
  <2>2. main' = "ok" => main = "ok"
    BY <2>1, ReturnsOk
  <2> QED BY <1>1, <2>1, <2>2
<1>9. ASSUME NEW i \in Chunks, WorkerStep(i) PROVE HonestInv'
  <2>1. Keeps /\ setup' = setup /\ main' = main
    BY <1>9 DEF WorkerStep, HashChunk, ReportChunk, Quiet
  <2> QED BY <1>1, <2>1
<1>10. CASE UNCHANGED vars
  BY <1>1, <1>10
<1> QED BY <1>2, <1>3, <1>4, <1>6, <1>7, <1>8, <1>c, <1>r, <1>9, <1>10 DEF Next

\* An upload that reports success has left a file with exactly the bytes of
\* the local file, for any number of chunks, goroutines, retries and requests
\* that are lost or served late (Finalize, uploadStream).
THEOREM ReportedSuccessIsReal == Spec => []SuccessIsHonest
<1>1. Init => HonestInv
  BY DEF Init, HonestInv, SuccessIsHonest
<1> QED BY <1>1, HonestStep, PTL DEF Spec, HonestInv

-----------------------------------------------------------------------------
(* An upload with nothing in its way.                                      *)

\* The first k chunks; a session that has received them.
Prefix(k) == [j \in 1 .. k |-> j - 1]
Open(k) == <<[status |-> "active", got |-> Prefix(k), size |-> Clamped]>>

\* The chunks that the server has, and those whose goroutine has reported.
Sent == IF next > 0 /\ worker[next - 1] \in {"hashing", "calling"} THEN next - 1 ELSE next
Reported == IF next > 0 /\ worker[next - 1] # "done" THEN next - 1 ELSE next

\* One goroutine at a time: those before the last one have ended.
InTurn ==
  /\ next \in 0 .. setup.chunks
  /\ worker \in [Chunks -> {"none", "hashing", "calling", "good", "done"}]
  /\ \A i \in Chunks : i >= next <=> worker[i] = "none"
  /\ \A i \in Chunks : i < next - 1 => worker[i] = "done"
  /\ \A i \in Chunks : worker[i] \in {"hashing", "calling"} => Content(i) = i
  /\ DOMAIN sum = Chunks /\ \A i \in Chunks : worker[i] = "calling" => sum[i] = i
  /\ main = "spawn" => next < setup.chunks /\ (setup.kind = "cli" => buf = next)
  /\ main \in {"join", "finalize"} => next = setup.chunks
  /\ main \in {"check", "create"} => next = 0
  /\ main \in {"finalize", "ok"} => \A i \in Chunks : worker[i] \in {"none", "done"}

\* Every report is good; a stream of the SDK reports errors only.
AllGood ==
  /\ errs \in Seq({"good"}) /\ joined \in Nat
  /\ setup.kind = "sdk" => errs = << >>
  /\ setup.kind # "sdk" => joined + Len(errs) = Reported

\* The session holds the chunks sent, until it becomes the one row.
OneSession ==
  /\ main = "check" => (Whole \in committed <=> setup.known)
  /\ main \in {"check", "create"} => sessions = << >> /\ rows = 0
  /\ main \in {"read", "spawn", "join", "finalize"} =>
       session = 1 /\ sessions = Open(Sent) /\ rows = 0
  /\ main = "ok" => rows = 1 /\ Len(sessions) <= 1

Smooth ==
  /\ main \in {"check", "create", "read", "spawn", "join", "finalize", "ok"}
  /\ abroad = {} /\ InTurn /\ AllGood /\ OneSession

SmoothInv ==
  /\ setup \in Setups /\ faults \in Nat
  /\ Sequential /\ Uneventful /\ Admissible => Smooth

Clear == setup \in Setups /\ Sequential /\ Uneventful /\ Admissible /\ Smooth

\* No chunk is longer than those of the session.
LEMMA ChunksFit ==
  ASSUME setup \in Setups, Admissible, NEW i \in Chunks
  PROVE  SizeOf(i) <= Clamped
<1>1. /\ setup.size \in Nat /\ setup.last \in Nat /\ setup.cap \in Nat /\ setup.last <= setup.size
      /\ SizeOf(i) <= setup.cap
  BY SetupsAreUploads DEF Admissible
<1> QED BY <1>1 DEF SizeOf, Clamped

LEMMA PrefixGrows ==
  ASSUME NEW k \in Nat
  PROVE  /\ Prefix(k) \in Seq(Nat) /\ Len(Prefix(k)) = k
         /\ Append(Prefix(k), k) = Prefix(k + 1)
<1>1. Prefix(k) \in Seq(Nat) /\ Len(Prefix(k)) = k /\ Prefix(k + 1) \in Seq(Nat) /\ Len(Prefix(k + 1)) = k + 1
  BY DEF Prefix
<1>2. /\ Append(Prefix(k), k) \in Seq(Nat) /\ Len(Append(Prefix(k), k)) = k + 1
      /\ \A j \in 1 .. k : Append(Prefix(k), k)[j] = Prefix(k)[j]
      /\ Append(Prefix(k), k)[k + 1] = k
  BY <1>1, AppendProperties
<1>3. \A j \in 1 .. k + 1 : Append(Prefix(k), k)[j] = Prefix(k + 1)[j]
  <2> SUFFICES ASSUME NEW j \in 1 .. k + 1 PROVE Append(Prefix(k), k)[j] = Prefix(k + 1)[j]
    OBVIOUS
  <2>1. Prefix(k + 1)[j] = j - 1
    BY DEF Prefix
  <2>2. CASE j = k + 1
    BY <1>2, <2>1, <2>2
  <2>3. CASE j \in 1 .. k
    BY <1>2, <2>1, <2>3 DEF Prefix
  <2>4. j = k + 1 \/ j \in 1 .. k
    OBVIOUS
  <2> QED BY <2>2, <2>3, <2>4
<1> QED BY <1>1, <1>2, <1>3, SeqEqual

\* What an open session answers to the chunk that follows.
LEMMA OpenSession ==
  ASSUME NEW k \in Nat, NEW ss, ss = Open(k)
  PROVE  /\ Len(ss) = 1 /\ ss[1].status = "active" /\ ss[1].got = Prefix(k) /\ ss[1].size = Clamped
         /\ [ss EXCEPT ![1].got = Append(@, k)] = Open(k + 1)
<1>1. Len(ss) = 1 /\ ss[1] = [status |-> "active", got |-> Prefix(k), size |-> Clamped]
  BY DEF Open
<1>2. ASSUME NEW got, NEW more, NEW size, ss = <<[status |-> "active", got |-> got, size |-> size]>>
      PROVE  [ss EXCEPT ![1].got = more] = <<[status |-> "active", got |-> more, size |-> size]>>
  BY <1>2
<1> HIDE DEF Prefix
<1>3. ss = <<[status |-> "active", got |-> Prefix(k), size |-> Clamped]>>
  BY DEF Open
<1>4. [ss EXCEPT ![1].got = Append(@, k)] = [ss EXCEPT ![1].got = Append(Prefix(k), k)]
  BY <1>1
<1>5. Append(Prefix(k), k) = Prefix(k + 1)
  BY PrefixGrows
<1> QED BY <1>1, <1>2, <1>3, <1>4, <1>5 DEF Open

\* The calling goroutine reads, spawns and joins.
LEMMA SmoothMain ==
  ASSUME Clear, MainStep
  PROVE  Smooth' /\ setup' = setup
<1> USE DEF Clear, Smooth, Quiet, clientVars, callVars, serverVars
<1>1. /\ setup.kind \in Kinds /\ setup.chunks \in Nat /\ setup.width \in Nat
      /\ next \in 0 .. setup.chunks /\ errs \in Seq({"good"}) /\ joined \in Nat
  BY SetupsAreUploads DEF InTurn, AllGood
<1>2. ~ Cancelled
  BY DEF Cancelled, AllGood
<1>3. CASE ReadChunk
  <2> USE <1>3 DEF ReadChunk
  <2>1. setup' = setup /\ main' \in {"spawn", "join"}
    BY <1>2
  <2>2. InTurn'
    <3>1. \A i \in Chunks : worker[i] \in {"hashing", "calling"} => Content(i)' = i
      BY <1>1, <1>2 DEF Content, InTurn, Chunks, Sequential, Kinds
    <3> QED BY <1>1, <1>2, <2>1, <3>1 DEF InTurn, Chunks, Content
  <2>3. AllGood' /\ OneSession'
    BY <2>1 DEF AllGood, OneSession, Open, Clamped, Reported, Sent, Whole
  <2> QED BY <2>1, <2>2, <2>3
<1>4. CASE SpawnWorker
  <2> USE <1>4 DEF SpawnWorker
  <2>1. /\ worker' = [worker EXCEPT ![next] = "hashing"] /\ next' = next + 1
        /\ main = "spawn" /\ main' = "read" /\ setup' = setup
        /\ Cardinality(Holding) < setup.width /\ next \in Chunks
    BY <1>1, <1>2 DEF InTurn, Chunks
  <2>2. \A i \in Chunks : i < next => worker[i] = "done"
    <3>1. CASE setup.chunks <= 1
      BY <1>1, <2>1, <3>1 DEF InTurn, Chunks
    <3>2. CASE setup.width = 1
      <4>1. Holding \subseteq 0 .. setup.chunks - 1 /\ IsFiniteSet(0 .. setup.chunks - 1)
        <5>1. 0 \in Int /\ setup.chunks - 1 \in Int
          BY <1>1
        <5> QED BY <5>1, FS_Interval DEF Holding, Chunks
      <4>2. IsFiniteSet(Holding)
        BY <4>1, FS_Subset
      <4>3. Cardinality(Holding) = 0
        BY <2>1, <3>2, <4>2, FS_CardinalityType
      <4>4. Holding = {}
        BY <4>2, <4>3, FS_EmptySet
      <4> QED BY <4>4 DEF Holding, InTurn, Chunks
    <3> QED BY <3>1, <3>2 DEF Sequential
  <2>3. InTurn'
    <3>1. \A i \in Chunks : Content(i)' = Content(i)
      BY DEF Content
    <3>2. Content(next) = next
      BY <2>1 DEF InTurn, Content
    <3> QED BY <1>1, <2>1, <2>2, <3>1, <3>2 DEF InTurn, Chunks
  <2>4. Sent' = Sent /\ Reported' = Reported
    <3>1. next > 0 => worker[next - 1] = "done"
      BY <1>1, <2>1, <2>2 DEF Chunks
    <3>2. next' > 0 /\ next' - 1 = next /\ worker'[next] = "hashing"
      BY <1>1, <2>1 DEF InTurn
    <3> QED BY <3>1, <3>2 DEF Sent, Reported
  <2>5. AllGood' /\ OneSession'
    BY <2>1, <2>4 DEF AllGood, OneSession, Open, Clamped
  <2> QED BY <2>1, <2>3, <2>5
<1>5. CASE JoinAll
  <2> USE <1>5 DEF JoinAll
  <2>1. main' = "finalize" /\ main = "join" /\ setup' = setup /\ Holding = {}
    BY DEF AllGood
  <2>2. InTurn'
    <3>1. \A i \in Chunks : worker[i] \in {"none", "done"}
      BY <2>1 DEF Holding
    <3> QED BY <2>1, <3>1 DEF InTurn, Content, Chunks
  <2>3. AllGood' /\ OneSession'
    BY <2>1 DEF AllGood, OneSession, Open, Clamped, Reported, Sent
  <2> QED BY <2>1, <2>2, <2>3
<1>6. CASE JoinNext
  <2> USE <1>6 DEF JoinNext
  <2>1. joined + Len(errs) = Reported /\ main = "join" /\ next = setup.chunks /\ setup' = setup
        /\ setup.kind # "sdk"
    BY DEF AllGood, InTurn
  <2>2. CASE joined = next /\ main' = "finalize" /\ UNCHANGED <<errs, joined>>
    <3>1. Reported = next
      <4>1. Reported \in {next, next - 1} /\ Len(errs) \in Nat
        BY <1>1 DEF Reported
      <4> QED BY <1>1, <2>1, <2>2, <4>1
    <3>2. next > 0 => worker[next - 1] = "done"
      BY <1>1, <3>1 DEF Reported
    <3>3. \A i \in Chunks : worker[i] \in {"none", "done"}
      BY <1>1, <2>1, <3>2 DEF InTurn, Chunks
    <3>4. InTurn'
      BY <2>1, <2>2, <3>3 DEF InTurn, Content, Chunks
    <3>5. AllGood' /\ OneSession'
      BY <2>1, <2>2 DEF AllGood, OneSession, Open, Clamped, Reported, Sent
    <3> QED BY <2>1, <2>2, <3>4, <3>5
  <2>3. CASE /\ joined < next /\ errs # << >>
             /\ errs' = Tail(errs) /\ joined' = joined + 1
             /\ main' = IF Head(errs) = "bad" THEN "failed" ELSE "join"
    <3>1. Head(errs) = "good" /\ errs' \in Seq({"good"}) /\ Len(errs') = Len(errs) - 1 /\ Len(errs) \in Nat
      BY <1>1, <2>3, HeadTailProperties
    <3>2. main' = "join"
      BY <2>3, <3>1
    <3>3. InTurn'
      BY <2>1, <3>2 DEF InTurn, Content, Chunks
    <3>4. AllGood' /\ OneSession'
      BY <1>1, <2>1, <2>3, <3>1, <3>2 DEF AllGood, OneSession, Open, Clamped, Reported, Sent
    <3> QED BY <2>1, <3>2, <3>3, <3>4
  <2> QED BY <2>2, <2>3
<1> QED BY <1>3, <1>4, <1>5, <1>6 DEF MainStep

\* The answers to the calling goroutine, one after the other.
LEMMA SmoothCaller ==
  ASSUME Clear, Answered(Main)
  PROVE  Smooth' /\ setup' = setup
<1> USE DEF Clear, Smooth, clientVars, callVars, serverVars
<1>1. /\ setup.kind \in Kinds /\ setup.chunks \in Nat /\ Main \notin Chunks
      /\ next \in 0 .. setup.chunks /\ worker \in [Chunks -> {"none", "hashing", "calling", "good", "done"}]
  BY SetupsAreUploads DEF InTurn, Main, Chunks
<1>2. PICK code \in Codes : Serve(Request(Main), code) /\ Return(Main, code)
  BY DEF Answered
<1>3. main \in {"check", "create", "finalize"} /\ abroad' = abroad
  BY DEF Answered, Calling
<1>4. /\ main' = After(code) /\ UNCHANGED <<setup, worker, next, buf, sum, errs, joined>>
      /\ session' = IF code = "created" THEN Len(sessions') ELSE session
  BY <1>2 DEF Return, Codes
<1>5. Request(Main) = [op |-> main, session |-> session, try |-> tries[Main]]
  BY DEF Request
<1>6. CASE main = "check"
  <2>1. ServeCheck(Request(Main), code)
    BY <1>2, <1>5, <1>6 DEF Serve, ServeCreate, ServePatch, ServeFinalize, ServeCheck
  <2>2. CASE Whole \in committed
    <3>1. code = "found" /\ rows' = 1 /\ UNCHANGED <<sessions, committed>>
      BY <1>6, <2>1, <2>2 DEF ServeCheck, OneSession
    <3>2. main' = "ok"
      BY <1>4, <1>6, <2>2, <3>1 DEF After, OneSession, Uneventful
    <3>3. \A i \in Chunks : worker[i] = "none"
      BY <1>6 DEF InTurn, Chunks
    <3>4. InTurn' /\ AllGood'
      BY <1>4, <3>2, <3>3 DEF InTurn, AllGood, Content, Chunks, Reported
    <3>5. OneSession'
      BY <1>6, <3>1, <3>2 DEF OneSession
    <3> QED BY <1>3, <1>4, <3>2, <3>4, <3>5
  <2>3. CASE Whole \notin committed
    <3>1. code = "absent" /\ rows' = 0 /\ UNCHANGED <<sessions, committed>>
      BY <1>6, <2>1, <2>3 DEF ServeCheck, OneSession
    <3>2. main' = "create"
      BY <1>4, <3>1 DEF After
    <3>3. InTurn' /\ AllGood'
      BY <1>4, <1>6, <3>2 DEF InTurn, AllGood, Content, Chunks, Reported
    <3>4. OneSession'
      BY <1>6, <3>1, <3>2 DEF OneSession
    <3> QED BY <1>3, <1>4, <3>2, <3>3, <3>4
  <2> QED BY <2>2, <2>3
<1>7. CASE main = "create"
  <2>1. ServeCreate(Request(Main), code)
    BY <1>2, <1>5, <1>7 DEF Serve, ServeCreate, ServePatch, ServeFinalize, ServeCheck
  <2>2. /\ code = "created" /\ rows' = 0
        /\ sessions' = Append(<< >>, [status |-> "active", got |-> << >>, size |-> Clamped])
    BY <1>7, <2>1 DEF ServeCreate, OneSession
  <2>3. sessions' = <<[status |-> "active", got |-> << >>, size |-> Clamped]>>
    BY <2>2
  <2>4. main' = "read" /\ next = 0
    BY <1>4, <1>7, <2>2 DEF After, InTurn
  <2>5. Sent' = 0 /\ Prefix(0) = << >>
    BY <1>4, <2>4 DEF Sent, Prefix
  <2>6. sessions' = Open(Sent)'
    BY <1>4, <2>3, <2>5 DEF Open, Clamped
  <2>7. session' = 1
    BY <1>4, <2>2, <2>3
  <2>8. InTurn' /\ AllGood'
    BY <1>4, <1>7, <2>4 DEF InTurn, AllGood, Content, Chunks, Reported
  <2>9. OneSession'
    BY <2>2, <2>4, <2>6, <2>7 DEF OneSession
  <2> QED BY <1>3, <1>4, <2>4, <2>8, <2>9
<1>8. CASE main = "finalize"
  <2>1. ServeFinalize(Request(Main), code) /\ session = 1
    BY <1>2, <1>5, <1>8 DEF Serve, ServeCreate, ServePatch, ServeFinalize, ServeCheck, OneSession
  <2>2. Sent = setup.chunks /\ sessions = Open(Sent)
    <3>1. next = setup.chunks /\ \A i \in Chunks : worker[i] \in {"none", "done"}
      BY <1>8 DEF InTurn
    <3>2. next > 0 => next - 1 \in Chunks
      BY <1>1, <3>1 DEF Chunks
    <3> QED BY <1>8, <3>1, <3>2 DEF Sent, OneSession
  <2>3. Len(sessions) = 1 /\ sessions[1].status = "active" /\ sessions[1].got = Whole
    <3>1. Len(sessions) = 1 /\ sessions[1].status = "active" /\ sessions[1].got = Prefix(Sent)
      BY <1>1, <2>2, OpenSession
    <3> QED BY <2>2, <3>1 DEF Whole, Prefix
  <2>4. Request(Main).session = 1
    BY <1>5, <2>1
  <2>5. /\ code = "committed" /\ rows' = rows + 1 /\ rows = 0
        /\ sessions' = [sessions EXCEPT ![1].status = "gone"]
    BY <1>8, <2>1, <2>3, <2>4 DEF ServeFinalize, OneSession, Admissible
  <2>6. main' = "ok"
    BY <1>4, <2>5 DEF After
  <2>7. Len(sessions') = 1
    BY <2>2, <2>5 DEF Open
  <2>8. InTurn' /\ AllGood'
    BY <1>4, <1>8, <2>6 DEF InTurn, AllGood, Content, Chunks, Reported
  <2>9. OneSession'
    <3>1. rows' = 1
      BY <2>5
    <3>2. Len(sessions') <= 1
      BY <2>7
    <3> QED BY <2>6, <3>1, <3>2 DEF OneSession
  <2> QED BY <1>3, <1>4, <2>6, <2>8, <2>9
<1> QED BY <1>3, <1>6, <1>7, <1>8

\* A chunk is sent when the server has all before it, and is stored.
LEMMA SmoothChunk ==
  ASSUME Clear, NEW c \in Chunks, Answered(c)
  PROVE  Smooth' /\ setup' = setup
<1> USE DEF Clear, Smooth, clientVars, callVars, serverVars
<1>1. /\ setup.kind \in Kinds /\ setup.chunks \in Nat /\ Main \notin Chunks /\ c # Main
      /\ next \in 0 .. setup.chunks /\ worker \in [Chunks -> {"none", "hashing", "calling", "good", "done"}]
  BY SetupsAreUploads DEF InTurn, Main, Chunks
<1>2. PICK code \in Codes : Serve(Request(c), code) /\ Return(c, code)
  BY DEF Answered
<1>3. worker[c] = "calling" /\ abroad' = abroad
  BY <1>1 DEF Answered, Calling
<1>4. c = next - 1 /\ next > 0 /\ Sent = c /\ sum[c] = c /\ Content(c) = c /\ c \in Nat
  BY <1>1, <1>3 DEF InTurn, Chunks, Sent
<1>5. main \in {"read", "spawn", "join"} /\ session = 1 /\ sessions = Open(c) /\ rows = 0
  BY <1>1, <1>3, <1>4 DEF InTurn, OneSession
<1>6. Request(c) = [op |-> "patch", session |-> 1, try |-> tries[c], index |-> c, sum |-> c, body |-> c]
  BY <1>1, <1>4, <1>5 DEF Request
<1>7. ServePatch(Request(c), code)
  BY <1>2, <1>6 DEF Serve, ServeCreate, ServePatch, ServeFinalize, ServeCheck
<1>8. Accepts(Request(c))
  <2>1. /\ Len(sessions) = 1 /\ sessions[1].status = "active" /\ Len(sessions[1].got) = c
        /\ sessions[1].size = Clamped
    BY <1>4, <1>5, OpenSession, PrefixGrows
  <2>2. SizeOf(c) <= Clamped /\ SizeOf(c) \in Nat /\ Clamped \in Nat
    BY ChunksFit, SetupsAreUploads DEF SizeOf, Clamped
  <2> QED BY <1>6, <2>1, <2>2 DEF Accepts, InOrder, TooLong
<1>9. code = "stored" /\ sessions' = Open(c + 1) /\ rows' = 0 /\ committed' = committed
  <2>1. code = "stored" /\ sessions' = [sessions EXCEPT ![1].got = Append(@, c)]
        /\ UNCHANGED <<committed, rows>>
    BY <1>6, <1>7, <1>8 DEF ServePatch
  <2> QED BY <1>4, <1>5, <2>1, OpenSession
<1>10. /\ worker' = [worker EXCEPT ![c] = "good"] /\ main' = main /\ session' = 1
       /\ UNCHANGED <<setup, next, buf, sum, errs, joined>>
  BY <1>1, <1>2, <1>5, <1>9 DEF Return
<1>11. Sent' = c + 1 /\ Reported' = Reported
  BY <1>1, <1>3, <1>4, <1>10 DEF Sent, Reported
<1>12. InTurn'
  BY <1>1, <1>3, <1>4, <1>5, <1>10 DEF InTurn, Content, Chunks
<1>13. AllGood' /\ OneSession'
  BY <1>5, <1>9, <1>10, <1>11 DEF AllGood, OneSession, Open, Clamped
<1> QED BY <1>3, <1>5, <1>10, <1>12, <1>13

\* The goroutine of a chunk: the digest is that of the chunk, the report good.
LEMMA SmoothWorker ==
  ASSUME Clear, NEW i \in Chunks, WorkerStep(i)
  PROVE  Smooth' /\ setup' = setup
<1> USE DEF Clear, Smooth, Quiet, clientVars, callVars, serverVars
<1>1. /\ setup.kind \in Kinds /\ setup.chunks \in Nat
      /\ next \in 0 .. setup.chunks /\ worker \in [Chunks -> {"none", "hashing", "calling", "good", "done"}]
      /\ errs \in Seq({"good"}) /\ joined \in Nat
  BY SetupsAreUploads DEF InTurn, AllGood
<1>2. CASE HashChunk(i)
  <2> USE <1>2 DEF HashChunk
  <2>1. /\ worker[i] = "hashing" /\ worker' = [worker EXCEPT ![i] = "calling"]
        /\ sum' = [sum EXCEPT ![i] = Content(i)] /\ Content(i) = i
        /\ UNCHANGED <<setup, main, next, buf, errs, joined, session, sessions, committed, rows, abroad>>
    BY DEF InTurn
  <2>2. i = next - 1 /\ next > 0
    BY <1>1, <2>1 DEF InTurn, Chunks
  <2>3. Sent' = Sent /\ Reported' = Reported
    BY <1>1, <2>1, <2>2 DEF Sent, Reported
  <2>4. \A j \in Chunks : worker'[j] = "calling" => sum'[j] = j
    <3> SUFFICES ASSUME NEW j \in Chunks, worker'[j] = "calling" PROVE sum'[j] = j
      OBVIOUS
    <3>1. CASE j = i
      BY <2>1, <3>1 DEF InTurn
    <3>2. CASE j # i
      BY <1>1, <2>1, <3>2 DEF InTurn
    <3> QED BY <3>1, <3>2
  <2>5. InTurn'
    BY <1>1, <2>1, <2>2, <2>4 DEF InTurn, Content, Chunks
  <2>6. AllGood' /\ OneSession'
    BY <2>1, <2>3 DEF AllGood, OneSession, Open, Clamped, Whole
  <2> QED BY <2>1, <2>5, <2>6
<1>3. CASE ReportChunk(i)
  <2> USE <1>3 DEF ReportChunk
  <2>1. /\ worker[i] = "good" /\ worker' = [worker EXCEPT ![i] = "done"]
        /\ UNCHANGED <<setup, main, next, buf, sum, joined, session, sessions, committed, rows, abroad>>
        /\ IF setup.kind = "sdk" THEN errs' = errs ELSE errs' = Append(errs, "good")
    BY <1>1
  <2>2. i = next - 1 /\ next > 0 /\ Reported = next - 1
    BY <1>1, <2>1 DEF InTurn, Chunks, Reported
  <2>3. Sent' = Sent /\ Reported' = next
    BY <1>1, <2>1, <2>2 DEF Sent, Reported
  <2>4. AllGood'
    <3>1. CASE setup.kind = "sdk"
      BY <2>1, <3>1 DEF AllGood
    <3>2. CASE setup.kind # "sdk"
      <4>1. errs' \in Seq({"good"}) /\ Len(errs') = Len(errs) + 1 /\ Len(errs) \in Nat
        BY <1>1, <2>1, <3>2, AppendProperties
      <4> QED BY <1>1, <2>1, <2>2, <2>3, <3>2, <4>1 DEF AllGood
    <3> QED BY <3>1, <3>2
  <2>5. InTurn'
    BY <1>1, <2>1, <2>2 DEF InTurn, Content, Chunks
  <2>6. OneSession'
    BY <2>1, <2>3 DEF OneSession, Open, Clamped, Whole
  <2> QED BY <2>1, <2>4, <2>5, <2>6
<1> QED BY <1>2, <1>3 DEF WorkerStep

\* No admissible chunk is cut off.
LEMMA NothingIsCut ==
  ASSUME Clear, NEW c \in Chunks
  PROVE  ~ Cut(c)
<1> SUFFICES ASSUME Cut(c) PROVE FALSE
  OBVIOUS
<1>1. /\ setup.chunks \in Nat /\ c \in Nat /\ c # Main
      /\ next \in 0 .. setup.chunks /\ worker \in [Chunks -> {"none", "hashing", "calling", "good", "done"}]
  BY SetupsAreUploads DEF Clear, Smooth, InTurn, Main, Chunks
<1>2. worker[c] = "calling"
  BY <1>1 DEF Cut, Calling
<1>3. main \in {"read", "spawn", "join"} /\ session = 1 /\ \E k \in Nat : sessions = Open(k)
  <2>1. Sent \in Nat
    BY <1>1, <1>2 DEF Sent, Clear, Smooth, InTurn, Chunks
  <2> QED BY <1>1, <1>2, <2>1 DEF Clear, Smooth, InTurn, OneSession, Chunks
<1>4. sessions[1].size = Clamped
  BY <1>3, OpenSession
<1>5. SizeOf(c) > Clamped
  BY <1>1, <1>3, <1>4 DEF Cut, CutOff, TooLong, Request
<1>6. SizeOf(c) <= Clamped /\ SizeOf(c) \in Nat /\ Clamped \in Nat
  BY ChunksFit, SetupsAreUploads DEF Clear, SizeOf, Clamped
<1> QED BY <1>5, <1>6

LEMMA SmoothStep ==
  ASSUME SmoothInv, [Next]_vars
  PROVE  SmoothInv'
<1> USE DEF SmoothInv
<1> DEFINE Quieter == setup' = setup /\ faults' \in Nat /\ (faults' = 0 => faults = 0)
<1>1. Quieter
  BY DEF Next, MainStep, ReadChunk, SpawnWorker, JoinAll, JoinNext, Quiet, Late, Answered,
    Return, Failed, Lost, Cut, Refused, CallCancelled, Again, WorkerStep, HashChunk, ReportChunk,
    vars, clientVars
<1>2. CASE ~ (Sequential /\ Uneventful /\ Admissible)
  BY <1>1, <1>2 DEF Sequential, Uneventful, IsCLI, Admissible, Readable, SizeOf, Chunks
<1>3. CASE Sequential /\ Uneventful /\ Admissible /\ faults' # 0
  BY <1>1, <1>3 DEF Uneventful
<1>4. CASE Sequential /\ Uneventful /\ Admissible /\ faults' = 0
  <2>1. Clear
    BY <1>4 DEF Clear
  <2>2. \A c \in Callers : ~ Failed(c) /\ ~ Lost(c) /\ ~ Refused(c) /\ ~ Cut(c)
    <3>1. \A c \in Callers : ~ Failed(c) /\ ~ Lost(c) /\ ~ Refused(c)
      BY <1>4 DEF Failed, Lost, Refused, Uneventful
    <3>2. \A c \in Chunks : ~ Cut(c)
      BY <2>1, NothingIsCut
    <3>3. ~ Cut(Main)
      BY DEF Cut, CutOff, Request, Main, Calling
    <3> QED BY <3>1, <3>2, <3>3 DEF Callers
  <2>3. ~ Late /\ \A c \in Callers : ~ CallCancelled(c)
    BY <2>1 DEF Clear, Smooth, Late, CallCancelled, Cancelled, AllGood
  <2>4. CASE UNCHANGED vars
    <3>1. Smooth'
      BY <2>1, <2>4 DEF Clear, Smooth, InTurn, AllGood, OneSession, Open, Clamped, Sent, Reported, Content,
        Chunks, Whole, vars, clientVars, callVars, serverVars
    <3> QED BY <1>1, <3>1
  <2>5. CASE Next
    <3>1. Smooth'
      BY <2>1, <2>2, <2>3, <2>5, SmoothMain, SmoothCaller, SmoothChunk, SmoothWorker
      DEF Next, Callers
    <3> QED BY <1>1, <3>1
  <2> QED BY <2>4, <2>5
<1> QED BY <1>2, <1>3, <1>4

\* Chunks that the server's limit admits, of a stream that is what it is
\* announced to be, sent one at a time to a server that answers by its rules,
\* never fail an upload, which leaves one row and at most one session: the
\* server's offset and the client's chunks agree, and no report or retry stands
\* in the way (uploadStream, uploadBytes, Upload, UploadReader).
THEOREM UneventfulUploadSucceeds == Spec => []OneAtATimeSucceeds
<1>1. ASSUME Init PROVE SmoothInv
  <2>1. InTurn
    BY <1>1, SetupsAreUploads DEF Init, InTurn, Chunks
  <2>2. AllGood
    BY <1>1, EmptySeq DEF Init, AllGood, Reported
  <2>3. OneSession
    BY <1>1 DEF Init, OneSession
  <2> QED BY <1>1, <2>1, <2>2, <2>3 DEF Init, SmoothInv, Smooth
<1>2. SmoothInv => OneAtATimeSucceeds
  BY DEF SmoothInv, OneAtATimeSucceeds, Smooth, OneSession
<1> QED BY <1>1, <1>2, SmoothStep, PTL DEF Spec
=============================================================================
