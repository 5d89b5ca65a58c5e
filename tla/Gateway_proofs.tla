--------------------------- MODULE Gateway_proofs ---------------------------
(***************************************************************************)
(* What the gateway guarantees for any number of requests, clients, links, *)
(* users and token pairs, however their handlers interleave: the types and *)
(* what a link gives away first; then what guards it: refresh tokens that  *)
(* are used once, identities that bound what a request reaches and that    *)
(* the audit log names, guesses and requests that are limited.             *)
(***************************************************************************)
EXTENDS Gateway, FiniteSetTheorems, TLAPS

-----------------------------------------------------------------------------
(* Requests: where their handlers stand, and what the context holds.       *)

Places == {"idle", "limit", "new_bucket", "take", "auth", "jwt", "handle", "compare",
           "verified", "failed", "reset", "consume", "open", "insert_share", "login",
           "claim", "setnx", "issue", "done"}

\* The routes whose handlers stand at a place.
Serves(place) ==
  CASE place \in {"compare", "verified"} -> {"s", "s_form"}
    [] place \in {"consume", "open"} -> {"s"}
    [] place \in {"failed", "reset"} -> {"s", "s_form", "login"}
    [] place = "insert_share" -> {"share_create"}
    [] place = "login" -> {"login"}
    [] place \in {"claim", "setnx", "issue"} -> {"refresh"}
    [] OTHER -> Routes

Actors == Users \union {"anonymous", "static-token"}
Note == [action : AuditActions, who : Actors, space : Spaces \union {"public"}]
Context == [claims : Nat \union {None}, service : BOOLEAN, space : Spaces,
            actor : Actors, code : Nat, due : SUBSET Note, noted : SUBSET Note]

WellPosed(q) == q \in RequestSet /\ (q.route = "refresh" => q.pair > 0)

RequestInv ==
  /\ deployment \in Deployments
  /\ now \in Nat \ {0}
  /\ req \in [Slots -> RequestSet \union {None}]
  /\ pc \in [Slots -> Places]
  /\ ctx \in [Slots -> Context]
  /\ \A r \in Slots : pc[r] # "idle" =>
       WellPosed(req[r]) /\ req[r].route \in Serves(pc[r])

\* A handler moves on, or answers; the context changes in the answer only.
GoesOn(r) == \E place \in Places \ {"idle"} : Goto(r, place) /\ req[r].route \in Serves(place)
Answers(r) == \E status \in Nat, entries \in SUBSET Note : RespondNoting(r, status, entries)

LEMMA Served ==
  ASSUME RequestInv, NEW r \in Slots, pc[r] # "idle"
  PROVE  req[r] \in RequestSet /\ WellPosed(req[r]) /\ req[r].route \in Serves(pc[r])
BY DEF RequestInv, WellPosed

LEMMA AnswerIsTyped ==
  ASSUME RequestInv, NEW r \in Slots, pc[r] # "idle",
         NEW status \in Nat, NEW entries \in SUBSET Note, RespondNoting(r, status, entries)
  PROVE  ctx' \in [Slots -> Context]
<1>1. AuditAction(req[r], status) = None \/ AuditAction(req[r], status) \in AuditActions
  BY DEF AuditAction, AuditActions
<1>2. Entry(r, AuditAction(req[r], status), ctx[r].space) \in Note
        \/ AuditAction(req[r], status) = None
  BY <1>1 DEF Entry, Note, RequestInv, Context
<1>3. PICK all \in SUBSET Note, written \in SUBSET Note :
        ctx' = [ctx EXCEPT ![r].code = status, ![r].due = all, ![r].noted = written]
  BY <1>2 DEF RespondNoting
<1>4. ctx \in [Slots -> Context]
  BY DEF RequestInv
<1>5. [ctx[r] EXCEPT !.code = status, !.due = all, !.noted = written] \in Context
  BY <1>4 DEF Context
<1>6. ctx' = [ctx EXCEPT ![r] = [ctx[r] EXCEPT !.code = status, !.due = all, !.noted = written]]
  BY <1>3, <1>4 DEF Context
<1> QED BY <1>4, <1>5, <1>6

LEMMA MovesKeepRequests ==
  ASSUME RequestInv, NEW r \in Slots, pc[r] # "idle", GoesOn(r) \/ Answers(r),
         deployment' = deployment, now' = now
  PROVE  RequestInv'
<1>1. CASE GoesOn(r)
  BY <1>1 DEF GoesOn, Goto, RequestInv
<1>2. CASE Answers(r)
  <2>1. PICK status \in Nat, entries \in SUBSET Note : RespondNoting(r, status, entries)
    BY <1>2 DEF Answers
  <2>2. ctx' \in [Slots -> Context]
    BY <2>1, AnswerIsTyped
  <2>3. req[r] \in RequestSet /\ req[r].route \in Serves("done")
    BY Served DEF Serves, RequestSet
  <2> QED BY <2>1, <2>2, <2>3 DEF RespondNoting, RequestInv, Places
<1> QED BY <1>1, <1>2

LEMMA RateMoves ==
  ASSUME RequestInv, NEW r \in Slots, RateStep(r)
  PROVE  pc[r] # "idle" /\ (GoesOn(r) \/ Answers(r))
<1> USE DEF GoesOn, Answers, Respond, Places, Serves, RequestSet
<1>1. CASE LookUpBucket(r)
  BY <1>1, Served DEF LookUpBucket, Exempt
<1>2. CASE MakeBucket(r)
  BY <1>2, Served DEF MakeBucket
<1>3. CASE TakeToken(r)
  <2>1. pc[r] = "take" /\ (Goto(r, "auth") \/ Respond(r, 429))
    BY <1>3 DEF TakeToken
  <2>2. req[r].route \in Serves("auth")
    BY <2>1, Served
  <2>3. CASE Goto(r, "auth")
    BY <2>1, <2>2, <2>3
  <2>4. CASE Respond(r, 429)
    BY <2>1, <2>4
  <2> QED BY <2>1, <2>3, <2>4
<1> QED BY <1>1, <1>2, <1>3 DEF RateStep

\* Links: the table, the row a handler has read, and what was opened.
ShareTypes ==
  /\ minted \in 0 .. MaxShares
  /\ DOMAIN shares \subseteq 1 .. minted /\ shares \in [DOMAIN shares -> ShareRow]
  /\ entry \in [Slots -> ShareRow \union {None}]
  /\ opened \in [Tokens -> Nat]
  /\ cookies \subseteq Nat \X Nat
  /\ \A r \in Slots : pc[r] # "idle" => req[r].token <= minted
  /\ \A r \in Slots : pc[r] \in {"consume", "open"} => entry[r] # None
  /\ \A r \in Slots : pc[r] = "reset" /\ req[r].route # "login" => entry[r] # None

LEMMA AnswerIsAnswer ==
  ASSUME NEW r \in Slots
  PROVE  /\ \A status \in Nat, entries \in SUBSET Note :
              RespondNoting(r, status, entries) => Answers(r)
         /\ \A status \in Nat : Respond(r, status) => Answers(r)
BY DEF Answers, Respond

LEMMA TokenMoves ==
  ASSUME RequestInv, NEW r \in Slots, TokenStep(r)
  PROVE  pc[r] # "idle" /\ (GoesOn(r) \/ Answers(r))
<1> USE AnswerIsAnswer, Served DEF GoesOn, Places, Serves, RequestSet
<1>1. CASE BeginLogin(r)
  BY <1>1 DEF BeginLogin
<1>2. CASE ComparePassword(r)
  BY <1>2 DEF ComparePassword
<1>3. CASE RecordLoginFailure(r)
  BY <1>3 DEF RecordLoginFailure
<1>4. CASE ResetLogin(r)
  BY <1>4 DEF ResetLogin
<1>5. CASE ParseRefresh(r)
  BY <1>5 DEF ParseRefresh
<1>6. CASE ClaimInMemory(r)
  BY <1>6 DEF ClaimInMemory, Claimed
<1>7. CASE ComputeTTL(r)
  BY <1>7 DEF ComputeTTL
<1>8. CASE SetNX(r)
  BY <1>8 DEF SetNX, Claimed
<1>9. CASE IssueRefreshed(r)
  BY <1>9 DEF IssueRefreshed
<1>10. CASE Me(r)
  BY <1>10 DEF Me
<1> HIDE AnswerIsAnswer, Served DEF GoesOn, Places, Serves, RequestSet
<1> QED
  BY <1>1, <1>2, <1>3, <1>4, <1>5, <1>6, <1>7, <1>8, <1>9, <1>10 DEF TokenStep

\* What a share handler notes is about its client or about the row it has read.
LEMMA ShareNotes ==
  ASSUME RequestInv, ShareTypes, NEW r \in Slots
  PROVE  /\ \A action \in AuditActions, space \in Spaces \union {"public"} :
              Entry(r, action, space) \in Note
         /\ {} \in SUBSET Note /\ {Failed(r)} \in SUBSET Note /\ {Throttled(r)} \in SUBSET Note
         /\ \A action \in AuditActions : {Entry(r, action, ctx[r].space)} \in SUBSET Note
         /\ entry[r] # None => {Entry(r, "share_download", entry[r].space)} \in SUBSET Note
<1>1. \A action \in AuditActions, space \in Spaces \union {"public"} :
         Entry(r, action, space) \in Note
  BY DEF Entry, Note, RequestInv, Context
<1>2. ctx[r].space \in Spaces
  BY DEF RequestInv, Context
<1>3. entry[r] # None => entry[r].space \in Spaces
  BY DEF ShareTypes, ShareRow
<1> QED BY <1>1, <1>2, <1>3 DEF Failed, Throttled, AuditActions

LEMMA ShareMoves ==
  ASSUME RequestInv, ShareTypes, NEW r \in Slots, ShareStep(r)
  PROVE  pc[r] # "idle" /\ (GoesOn(r) \/ Answers(r))
<1>r. \A verdict : Refuse(r, verdict) => Answers(r)
  <2>1. \A verdict : Refusal(verdict) \in Nat
    BY DEF Refusal
  <2> QED BY <2>1, AnswerIsAnswer DEF Refuse
<1>1. CASE BeginAccess(r)
  <2>1. pc[r] = "handle" /\ req[r].route \in {"s", "s_form"}
    BY <1>1 DEF BeginAccess
  <2>2. CASE Guesses(r)
    <3>1. PICK allowed \in BOOLEAN :
            IF allowed THEN Goto(r, "compare")
            ELSE RespondNoting(r, 429, IF req[r].route = "s" THEN {Throttled(r)} ELSE {})
      BY <1>1, <2>2 DEF BeginAccess
    <3>2. (IF req[r].route = "s" THEN {Throttled(r)} ELSE {}) \in SUBSET Note
      BY ShareNotes
    <3>3. Goto(r, "compare") => GoesOn(r)
      BY <2>1 DEF GoesOn, Places, Serves
    <3> QED BY <2>1, <3>1, <3>2, <3>3, AnswerIsAnswer
  <2>3. CASE ~Guesses(r)
    <3>1. \/ Goto(r, "compare") \/ Goto(r, "verified") \/ Refuse(r, Verdict(r, TRUE))
      BY <1>1, <2>3 DEF BeginAccess
    <3>2. Goto(r, "compare") \/ Goto(r, "verified") => GoesOn(r)
      BY <2>1 DEF GoesOn, Places, Serves
    <3> QED BY <2>1, <3>1, <3>2, <1>r
  <2> QED BY <2>2, <2>3
<1>2. CASE CompareSharePassword(r)
  <2>1. /\ pc[r] \in {"compare", "verified"}
        /\ \/ Goto(r, IF req[r].route = "s_form" THEN "reset" ELSE "consume")
           \/ Goto(r, "failed")
           \/ Refuse(r, Verdict(r, pc[r] = "verified"))
    BY <1>2 DEF CompareSharePassword
  <2>2. req[r].route \in {"s", "s_form"}
    BY <2>1, Served DEF Serves
  <2>3. Goto(r, "failed") => GoesOn(r)
    BY <2>2 DEF GoesOn, Places, Serves
  <2>4. Goto(r, IF req[r].route = "s_form" THEN "reset" ELSE "consume") => GoesOn(r)
    BY <2>2 DEF GoesOn, Places, Serves
  <2> QED BY <2>1, <2>3, <2>4, <1>r
<1>3. CASE RecordShareFailure(r)
  <2>1. pc[r] = "failed"
    BY <1>3 DEF RecordShareFailure
  <2>2. \/ RespondNoting(r, 429, {Throttled(r)})
        \/ RespondNoting(r, 401, {Failed(r)})
    BY <1>3 DEF RecordShareFailure
  <2>3. {Throttled(r)} \in SUBSET Note /\ {Failed(r)} \in SUBSET Note
    BY ShareNotes
  <2> QED BY <2>1, <2>2, <2>3, AnswerIsAnswer
<1>4. CASE ConsumeDownload(r)
  <2>1. /\ pc[r] = "consume"
        /\ \/ Refuse(r, "exhausted") \/ Goto(r, "reset") \/ Goto(r, "open")
    BY <1>4 DEF ConsumeDownload
  <2>2. req[r].route = "s"
    BY <2>1, Served DEF Serves
  <2>3. Goto(r, "reset") \/ Goto(r, "open") => GoesOn(r)
    BY <2>2 DEF GoesOn, Places, Serves
  <2> QED BY <2>1, <2>3, <1>r
<1>5. CASE ResetSharePassword(r)
  <2>1. /\ pc[r] = "reset"
        /\ (req[r].route = "s" /\ Goto(r, "open")) \/ Respond(r, 303)
    BY <1>5 DEF ResetSharePassword
  <2>2. req[r].route = "s" /\ Goto(r, "open") => GoesOn(r)
    BY DEF GoesOn, Places, Serves
  <2> QED BY <2>1, <2>2, AnswerIsAnswer
<1>6. CASE OpenShared(r)
  <2>1. pc[r] = "open" /\ entry[r] # None
    BY <1>6 DEF OpenShared, ShareTypes
  <2>2. \/ Respond(r, 416) \/ Respond(r, 404)
        \/ RespondNoting(r, IF req[r].range = None THEN 200 ELSE 206,
                         {Entry(r, "share_download", entry[r].space)})
    BY <1>6 DEF OpenShared
  <2>3. {Entry(r, "share_download", entry[r].space)} \in SUBSET Note
    BY <2>1, ShareNotes
  <2> QED BY <2>1, <2>2, <2>3, AnswerIsAnswer
<1>7. CASE CheckShared(r)
  <2>1. /\ pc[r] = "handle" /\ req[r].route = "share_create"
        /\ Respond(r, 404) \/ Respond(r, 403) \/ Goto(r, "insert_share")
    BY <1>7 DEF CheckShared
  <2>2. Goto(r, "insert_share") => GoesOn(r)
    BY <2>1 DEF GoesOn, Places, Serves
  <2> QED BY <2>1, <2>2, AnswerIsAnswer
<1>8. CASE InsertShare(r)
  <2>1. pc[r] = "insert_share" /\ RespondNoting(r, 201, {Entry(r, "share_create", ctx[r].space)})
    BY <1>8 DEF InsertShare
  <2>2. {Entry(r, "share_create", ctx[r].space)} \in SUBSET Note
    BY ShareNotes DEF AuditActions
  <2> QED BY <2>1, <2>2, AnswerIsAnswer
<1>9. CASE ListShares(r)
  BY <1>9, AnswerIsAnswer DEF ListShares
<1>10. CASE RevokeShare(r)
  <2>1. pc[r] = "handle"
    BY <1>10 DEF RevokeShare
  <2>2. \/ Respond(r, 404)
        \/ RespondNoting(r, 204, {Entry(r, "share_revoke", ctx[r].space)})
    BY <1>10 DEF RevokeShare
  <2>3. {Entry(r, "share_revoke", ctx[r].space)} \in SUBSET Note
    BY ShareNotes DEF AuditActions
  <2> QED BY <2>1, <2>2, <2>3, AnswerIsAnswer
<1> QED
  BY <1>1, <1>2, <1>3, <1>4, <1>5, <1>6, <1>7, <1>8, <1>9, <1>10 DEF ShareStep

\* Token pairs, the refresh tokens known as used, and who is asking.
TokenTypes ==
  /\ pairs \in Seq(TokenPair) /\ Len(pairs) <= MaxPairs
  /\ DOMAIN used \subseteq 1 .. Len(pairs) /\ used \in [DOMAIN used -> Int]
  /\ ttl \in [Slots -> Int]
  /\ rotated \in [PairIDs -> Nat]
  /\ \A r \in Slots : pc[r] # "idle" => req[r].pair <= Len(pairs)
  /\ \A r \in Slots : ctx[r].claims # None => ctx[r].claims \in 1 .. Len(pairs)

TypeOK == RequestInv /\ ShareTypes /\ TokenTypes

\* What becomes of the other requests when the handler of r moves on or answers.
LEMMA OthersStay ==
  ASSUME RequestInv, NEW r \in Slots, pc[r] # "idle", GoesOn(r) \/ Answers(r)
  PROVE  /\ req' = req /\ pc' = [pc EXCEPT ![r] = pc'[r]] /\ pc'[r] \in Places \ {"idle"}
         /\ \A s \in Slots : /\ s # r => pc'[s] = pc[s] /\ ctx'[s] = ctx[s]
                             /\ ctx'[s].claims = ctx[s].claims /\ ctx'[s].space = ctx[s].space
                             /\ ctx'[s].service = ctx[s].service /\ ctx'[s].actor = ctx[s].actor
<1>1. CASE GoesOn(r)
  BY <1>1 DEF GoesOn, Goto, RequestInv
<1>2. CASE Answers(r)
  <2>1. PICK status \in Nat, entries \in SUBSET Note : RespondNoting(r, status, entries)
    BY <1>2 DEF Answers
  <2>2. req' = req /\ pc' = [pc EXCEPT ![r] = "done"]
        /\ \E all, written :
             ctx' = [ctx EXCEPT ![r].code = status, ![r].due = all, ![r].noted = written]
    BY <2>1 DEF RespondNoting
  <2> QED BY <2>2 DEF RequestInv, Context, Places
<1> QED BY <1>1, <1>2

LEMMA SharesStayTyped ==
  ASSUME RequestInv, ShareTypes, NEW r \in Slots, ShareStep(r), UNCHANGED now
  PROVE  ShareTypes'
<1> USE DEF ShareTypes
<1>0. req' = req /\ pc' = [pc EXCEPT ![r] = pc'[r]] /\ pc[r] # "idle"
  BY ShareMoves, OthersStay
<1>q. req[r] \in RequestSet
  BY <1>0, Served
<1>c. cookies' \subseteq Nat \X Nat
  <2>1. CASE ResetSharePassword(r)
    <3>1. <<req[r].token, now + CookieLife>> \in Nat \X Nat
      BY <1>q, SharesAreBounded DEF RequestSet, RequestInv
    <3> QED BY <2>1, <3>1 DEF ResetSharePassword
  <2>2. CASE ~ResetSharePassword(r)
    BY <2>2 DEF ShareStep, BeginAccess, CompareSharePassword, RecordShareFailure, ConsumeDownload,
                OpenShared, CheckShared, InsertShare, ListShares, RevokeShare, shareVars
  <2> QED BY <2>1, <2>2
<1>1. CASE BeginAccess(r)
  <2>1. pc'[r] \notin {"consume", "open", "reset"}
    BY <1>1 DEF BeginAccess, Goto, Refuse, Respond, RespondNoting, RequestInv
  <2> QED BY <1>0, <1>c, <1>1, <2>1 DEF BeginAccess, shareVars, RequestInv
<1>2. CASE CompareSharePassword(r)
  <2>1. \/ \E row \in ShareRow : entry' = [entry EXCEPT ![r] = row]
        \/ entry' = entry /\ pc'[r] \in {"failed", "done"}
    <3>1. Verdict(r, pc[r] = "verified") = "ok" => shares[req[r].token] \in ShareRow
      BY DEF Verdict
    <3> QED
      BY <1>2, <3>1 DEF CompareSharePassword, Goto, Refuse, Respond, RespondNoting, RequestInv
  <2>2. UNCHANGED <<shares, minted, opened>>
    BY <1>2 DEF CompareSharePassword
  <2>3. entry' \in [Slots -> ShareRow \union {None}] /\ \A s \in Slots : s # r => entry'[s] = entry[s]
    BY <2>1
  <2>4. pc'[r] \in {"consume", "open", "reset"} => entry'[r] # None
    BY <2>1, NoneIsNoRow
  <2> QED BY <1>0, <1>c, <2>2, <2>3, <2>4 DEF RequestInv
<1>3. CASE RecordShareFailure(r)
  <2>1. pc'[r] \notin {"consume", "open", "reset"}
    BY <1>3 DEF RecordShareFailure, RespondNoting, RequestInv
  <2> QED BY <1>0, <1>c, <1>3, <2>1 DEF RecordShareFailure, shareVars, RequestInv
<1>4. CASE ConsumeDownload(r)
  <2>1. pc[r] = "consume" /\ UNCHANGED <<minted, entry, opened>>
    BY <1>4 DEF ConsumeDownload
  <2>2. DOMAIN shares' = DOMAIN shares /\ shares' \in [DOMAIN shares -> ShareRow]
    BY <1>4 DEF ConsumeDownload, ShareRow
  <2> QED BY <1>0, <1>c, <2>1, <2>2 DEF RequestInv
<1>5. CASE ResetSharePassword(r)
  <2>1. pc[r] = "reset" /\ req[r].route # "login" /\ UNCHANGED <<shares, minted, entry, opened>>
    BY <1>5 DEF ResetSharePassword
  <2> QED BY <1>0, <1>c, <2>1 DEF RequestInv
<1>6. CASE OpenShared(r)
  <2>1. pc'[r] = "done" /\ UNCHANGED <<shares, minted, entry>>
    BY <1>6 DEF OpenShared, Respond, RespondNoting, RequestInv
  <2>2. opened' \in [Tokens -> Nat]
    BY <1>6 DEF OpenShared
  <2> QED BY <1>0, <1>c, <2>1, <2>2 DEF RequestInv
<1>7. CASE CheckShared(r)
  <2>1. pc'[r] \notin {"consume", "open", "reset"}
    BY <1>7 DEF CheckShared, Goto, Respond, RespondNoting, RequestInv
  <2> QED BY <1>0, <1>c, <1>7, <2>1 DEF CheckShared, shareVars, RequestInv
<1>8. CASE InsertShare(r)
  <2> DEFINE row == [file |-> req[r].file, space |-> ctx[r].space, secret |-> req[r].terms.secret,
                     until |-> IF req[r].terms.life > 0 THEN now + req[r].terms.life ELSE Never,
                     max |-> req[r].terms.max, cur |-> 0]
  <2>1. row \in ShareRow
    BY <1>q DEF RequestSet, RequestInv, Context, ShareRow, Never
  <2>2. /\ minted' = minted + 1 /\ minted < MaxShares /\ pc'[r] = "done"
        /\ shares' = [u \in DOMAIN shares \union {minted + 1} |->
                        IF u = minted + 1 THEN row ELSE shares[u]]
        /\ entry' = [entry EXCEPT ![r] = row] /\ opened' = opened
    BY <1>8 DEF InsertShare, RespondNoting, RequestInv
  <2> HIDE DEF row
  <2>3. minted' \in 0 .. MaxShares /\ DOMAIN shares' \subseteq 1 .. minted'
        /\ shares' \in [DOMAIN shares' -> ShareRow]
    BY <2>1, <2>2, SharesAreBounded
  <2>4. entry' \in [Slots -> ShareRow \union {None}] /\ \A s \in Slots : s # r => entry'[s] = entry[s]
    BY <2>1, <2>2
  <2>5. \A s \in Slots : pc[s] # "idle" => req[s].token <= minted + 1
    BY Served, SharesAreBounded DEF RequestSet
  <2> QED BY <1>0, <1>c, <2>2, <2>3, <2>4, <2>5 DEF RequestInv
<1>9. CASE ListShares(r)
  <2>1. pc'[r] = "done" /\ UNCHANGED <<shares, minted, opened>>
    BY <1>9 DEF ListShares, Respond, RespondNoting, RequestInv
  <2>2. entry' \in [Slots -> ShareRow \union {None}] /\ \A s \in Slots : s # r => entry'[s] = entry[s]
    BY <1>9 DEF ListShares
  <2> QED BY <1>0, <1>c, <2>1, <2>2 DEF RequestInv
<1>10. CASE RevokeShare(r)
  <2>1. pc'[r] = "done" /\ UNCHANGED <<minted, opened>>
    BY <1>10 DEF RevokeShare, Respond, RespondNoting, RequestInv
  <2>2. DOMAIN shares' \subseteq 1 .. minted /\ shares' \in [DOMAIN shares' -> ShareRow]
    BY <1>10 DEF RevokeShare, Restrict
  <2>3. entry' \in [Slots -> ShareRow \union {None}] /\ \A s \in Slots : s # r => entry'[s] = entry[s]
    BY <1>10 DEF RevokeShare
  <2> QED BY <1>0, <1>c, <2>1, <2>2, <2>3 DEF RequestInv
<1> QED
  BY <1>1, <1>2, <1>3, <1>4, <1>5, <1>6, <1>7, <1>8, <1>9, <1>10 DEF ShareStep

\* What a pair that is issued adds to the pairs.
LEMMA IssueKeeps ==
  ASSUME RequestInv, TokenTypes, NEW user \in Users, Issue(user)
  PROVE  /\ pairs' \in Seq(TokenPair) /\ Len(pairs') <= MaxPairs /\ Len(pairs') = Len(pairs) + 1
         /\ \A p \in 1 .. Len(pairs) : pairs'[p] = pairs[p]
<1>1. [user |-> user, access |-> now + Expiry, refresh |-> now + 2 * Expiry] \in TokenPair
  BY TokensExpire DEF TokenPair, RequestInv
<1> QED BY <1>1, TokensExpire DEF Issue, TokenTypes

LEMMA TokensStayTyped ==
  ASSUME RequestInv, TokenTypes, NEW r \in Slots, TokenStep(r), UNCHANGED <<deployment, now>>
  PROVE  TokenTypes'
<1> USE DEF TokenTypes
<1>0. /\ req' = req /\ pc' = [pc EXCEPT ![r] = pc'[r]] /\ pc[r] # "idle"
      /\ \A s \in Slots : ctx'[s].claims = ctx[s].claims
  BY TokenMoves, OthersStay
<1>q. WellPosed(req[r]) /\ deployment \in Deployments
  BY <1>0, Served DEF RequestInv
<1>p. req[r].route = "refresh" => req[r].pair \in 1 .. Len(pairs)
  BY <1>0, <1>q DEF RequestSet, WellPosed
<1>r. pc[r] \in {"claim", "setnx", "issue"} => req[r].route = "refresh"
  BY <1>0, Served DEF Serves
<1>k. \A q \in DOMAIN used : used[q] \in Int
  OBVIOUS
<1>s. UNCHANGED <<pairs, used, ttl, rotated>> => TokenTypes'
  BY <1>0 DEF RequestInv
<1>i. ASSUME NEW user \in Users, Issue(user), UNCHANGED <<used, ttl, rotated>> PROVE TokenTypes'
  <2>1. pairs' \in Seq(TokenPair) /\ Len(pairs') <= MaxPairs /\ Len(pairs') = Len(pairs) + 1
    BY <1>i, IssueKeeps
  <2>2. \A s \in Slots : pc[s] # "idle" => req[s].pair <= Len(pairs) + 1
    BY Served DEF RequestSet
  <2>3. \A s \in Slots : ctx'[s].claims # None => ctx'[s].claims \in 1 .. Len(pairs)
    BY <1>0
  <2> QED BY <1>0, <1>i, <2>1, <2>2, <2>3 DEF RequestInv
<1>f. ASSUME NEW known \in SUBSET DOMAIN used, used' = Restrict(used, known),
             UNCHANGED <<pairs, ttl, rotated>>
      PROVE  TokenTypes'
  <2>1. DOMAIN used' \subseteq 1 .. Len(pairs) /\ used' \in [DOMAIN used' -> Int]
    BY <1>f DEF Restrict
  <2> QED BY <1>0, <1>f, <2>1 DEF RequestInv
<1>u. ASSUME NEW known \in SUBSET DOMAIN used, NEW until \in Int, req[r].route = "refresh",
             used' = [q \in known \union {req[r].pair} |->
                        IF q = req[r].pair THEN until ELSE used[q]],
             rotated' \in [PairIDs -> Nat], UNCHANGED <<pairs, ttl>>
      PROVE  TokenTypes'
  <2>1. DOMAIN used' \subseteq 1 .. Len(pairs) /\ used' \in [DOMAIN used' -> Int]
    BY <1>u, <1>p
  <2> QED BY <1>0, <1>u, <2>1 DEF RequestInv
<1>m. ASSUME req[r].route = "refresh",
             rotated' = [rotated EXCEPT ![req[r].pair] =
                           @ + (IF now < pairs[req[r].pair].refresh THEN 1 ELSE 0)]
      PROVE  rotated' \in [PairIDs -> Nat]
  <2>1. req[r].pair \in PairIDs
    BY <1>m, <1>p, TokensExpire DEF PairIDs
  <2>2. rotated[req[r].pair] + (IF now < pairs[req[r].pair].refresh THEN 1 ELSE 0) \in Nat
    BY <2>1
  <2> QED BY <1>m, <2>1, <2>2
<1>1. CASE BeginLogin(r)
  BY <1>1, <1>s DEF BeginLogin, tokenVars
<1>2. CASE ComparePassword(r)
  BY <1>2, <1>s, <1>i DEF ComparePassword
<1>3. CASE RecordLoginFailure(r)
  BY <1>3, <1>s DEF RecordLoginFailure, tokenVars
<1>4. CASE ResetLogin(r)
  BY <1>4, <1>s DEF ResetLogin, tokenVars
<1>5. CASE ParseRefresh(r)
  BY <1>5, <1>s DEF ParseRefresh, tokenVars
<1>6. CASE ClaimInMemory(r)
  <2> DEFINE known == {q \in DOMAIN used : used[q] > now}
  <2>1. pairs[req[r].pair].refresh \in Int
    <3>1. pairs[req[r].pair] \in TokenPair
      BY <1>6, <1>p, <1>r DEF ClaimInMemory
    <3> QED BY <3>1 DEF TokenPair
  <2>2. \/ used' = Restrict(used, known) /\ UNCHANGED rotated
        \/ Claimed(r, req[r].pair, known, pairs[req[r].pair].refresh)
    BY <1>6 DEF ClaimInMemory
  <2>3. pc[r] = "claim" /\ UNCHANGED <<pairs, ttl>> /\ known \in SUBSET DOMAIN used
    BY <1>6 DEF ClaimInMemory
  <2> HIDE DEF known
  <2>4. req[r].route = "refresh"
    BY <2>3, <1>r
  <2>5. CASE used' = Restrict(used, known) /\ UNCHANGED rotated
    BY <2>3, <2>5, <1>f, <1>u
  <2>6. CASE Claimed(r, req[r].pair, known, pairs[req[r].pair].refresh)
    <3>1. rotated' \in [PairIDs -> Nat]
      BY <2>4, <2>6, <1>m DEF Claimed
    <3> QED BY <2>1, <2>3, <2>4, <2>6, <3>1, <1>f, <1>u DEF Claimed
  <2> QED BY <2>2, <2>5, <2>6
<1>7. CASE ComputeTTL(r)
  <2>1. pairs[req[r].pair] \in TokenPair
    BY <1>7, <1>p, <1>r DEF ComputeTTL
  <2>2. pairs[req[r].pair].refresh - now \in Int
    BY <2>1 DEF TokenPair, RequestInv
  <2>3. ttl' \in [Slots -> Int] /\ UNCHANGED <<pairs, used, rotated>>
    BY <1>7, <2>2 DEF ComputeTTL
  <2> QED BY <1>0, <2>3 DEF RequestInv
<1>8. CASE SetNX(r)
  <2> DEFINE known == {q \in DOMAIN used : used[q] > now}
             until == now + ttl[r]
  <2>1. until \in Int
    BY DEF RequestInv
  <2>2. \/ used' = Restrict(used, known) /\ UNCHANGED rotated
        \/ Claimed(r, req[r].pair, known, until)
        \/ /\ used' = [q \in known \union {req[r].pair} |->
                         IF q = req[r].pair THEN until ELSE used[q]]
           /\ UNCHANGED rotated
    BY <1>8 DEF SetNX
  <2>3. pc[r] = "setnx" /\ UNCHANGED <<pairs, ttl>> /\ known \in SUBSET DOMAIN used
    BY <1>8 DEF SetNX
  <2> HIDE DEF known, until
  <2>4. req[r].route = "refresh"
    BY <2>3, <1>r
  <2>5. CASE used' = Restrict(used, known) /\ UNCHANGED rotated
    BY <2>3, <2>5, <1>f, <1>u
  <2>6. CASE Claimed(r, req[r].pair, known, until)
    <3>1. rotated' \in [PairIDs -> Nat]
      BY <2>4, <2>6, <1>m DEF Claimed
    <3> QED BY <2>1, <2>3, <2>4, <2>6, <3>1, <1>f, <1>u DEF Claimed
  <2>7. CASE /\ used' = [q \in known \union {req[r].pair} |->
                           IF q = req[r].pair THEN until ELSE used[q]]
             /\ UNCHANGED rotated
    BY <2>1, <2>3, <2>4, <2>7, <1>f, <1>u
  <2> QED BY <2>2, <2>5, <2>6, <2>7
<1>9. CASE IssueRefreshed(r)
  <2>1. pairs[req[r].pair] \in TokenPair
    BY <1>9, <1>p, <1>r DEF IssueRefreshed
  <2>2. pairs[req[r].pair].user \in Users
    BY <2>1 DEF TokenPair
  <2> QED BY <1>9, <1>i, <2>2 DEF IssueRefreshed
<1>10. CASE Me(r)
  BY <1>10, <1>s DEF Me, tokenVars
<1> QED
  BY <1>1, <1>2, <1>3, <1>4, <1>5, <1>6, <1>7, <1>8, <1>9, <1>10 DEF TokenStep

LEMMA WhoIsAsking ==
  ASSUME RequestInv, TokenTypes, NEW r \in Slots, Auth(r) \/ JWTValidate(r)
  PROVE  /\ RequestInv' /\ TokenTypes' /\ pc[r] \in {"auth", "jwt"}
         /\ req' = req /\ pc' = [pc EXCEPT ![r] = pc'[r]] /\ pc'[r] \in {"jwt", "handle", "done"}
         /\ \A s \in Slots : s # r => ctx'[s] = ctx[s]
<1>1. CASE Auth(r)
  <2>0. UNCHANGED <<deployment, now, pairs, used, ttl, rotated>> /\ pc[r] = "auth"
    BY <1>1 DEF Auth, tokenVars, worldVars
  <2>1. CASE \E status \in {401, 403} : Respond(r, status)
    <3>1. Answers(r) /\ pc'[r] = "done"
      <4>1. PICK status \in {401, 403} : Respond(r, status)
        BY <2>1
      <4>2. pc'[r] = "done"
        BY <4>1 DEF Respond, RespondNoting, RequestInv
      <4> QED BY <4>1, <4>2, AnswerIsAnswer
    <3>2. RequestInv'
      BY <2>0, <3>1, MovesKeepRequests
    <3>3. /\ req' = req /\ pc' = [pc EXCEPT ![r] = "done"]
          /\ \A s \in Slots : ctx'[s].claims = ctx[s].claims /\ (s # r => ctx'[s] = ctx[s])
      BY <2>0, <3>1, OthersStay
    <3> QED BY <2>0, <3>1, <3>2, <3>3 DEF TokenTypes, RequestInv
  <2>2. CASE /\ pc' = [pc EXCEPT ![r] = "jwt"] /\ UNCHANGED req
             /\ ctx' \in {ctx, [ctx EXCEPT ![r].service = TRUE, ![r].actor = "static-token"]}
    <3>1. ctx' \in [Slots -> Context]
      <4>1. CASE ctx' = [ctx EXCEPT ![r].service = TRUE, ![r].actor = "static-token"]
        <5>1. "static-token" \in Actors
          BY DEF Actors
        <5>2. [ctx[r] EXCEPT !.service = TRUE, !.actor = "static-token"] \in Context
          BY <5>1 DEF RequestInv, Context
        <5>3. ctx' = [ctx EXCEPT ![r] = [ctx[r] EXCEPT !.service = TRUE, !.actor = "static-token"]]
          BY <4>1 DEF RequestInv, Context
        <5> QED BY <5>2, <5>3 DEF RequestInv
      <4> QED BY <2>2, <4>1 DEF RequestInv
    <3>c. \A s \in Slots : ctx'[s].claims = ctx[s].claims /\ (s # r => ctx'[s] = ctx[s])
      BY <2>2 DEF RequestInv, Context
    <3>2. req[r].route \in Serves("jwt")
      BY <2>0, Served DEF Serves, RequestSet
    <3> QED BY <2>0, <2>2, <3>1, <3>c, <3>2 DEF RequestInv, TokenTypes, Places
  <2> DEFINE asked == deployment.static /\ req[r].route \notin Public
             served == [ctx EXCEPT ![r].service = TRUE, ![r].actor = "static-token"]
  <2>3. \/ \E status \in {401, 403} : Respond(r, status)
        \/ /\ pc' = [pc EXCEPT ![r] = "jwt"] /\ UNCHANGED req
           /\ ctx' = IF asked THEN served ELSE ctx
    <3>1. CASE asked /\ req[r].static \in {None, "wrong"}
      <4>1. Respond(r, 401) \/ Respond(r, 403)
        BY <1>1, <3>1 DEF Auth
      <4> QED BY <4>1
    <3>2. CASE ~(asked /\ req[r].static \in {None, "wrong"})
      <4>1. ~(asked /\ req[r].static = None) /\ ~(asked /\ req[r].static = "wrong")
        BY <3>2
      <4>2. pc' = [pc EXCEPT ![r] = "jwt"] /\ UNCHANGED req
        BY <1>1, <4>1 DEF Auth
      <4>3. ctx' = IF asked THEN served ELSE ctx
        BY <1>1, <4>1 DEF Auth
      <4> QED BY <4>2, <4>3
    <3> QED BY <3>1, <3>2
  <2> HIDE DEF asked, served
  <2>4. (IF asked THEN served ELSE ctx) \in {ctx, served}
    OBVIOUS
  <2> QED BY <2>1, <2>2, <2>3, <2>4 DEF served
<1>2. CASE JWTValidate(r)
  <2> DEFINE q == req[r]
             bearer == IF deployment.jwt THEN Bearer(q) ELSE "absent"
             p == IF bearer = "valid" THEN q.pair ELSE None
  <2>0. UNCHANGED <<deployment, now, pairs, used, ttl, rotated>> /\ pc[r] = "jwt"
    BY <1>2 DEF JWTValidate, tokenVars, worldVars
  <2>1. CASE Respond(r, 401)
    <3>1. Answers(r) /\ pc'[r] = "done"
      <4>1. pc'[r] = "done"
        BY <2>1 DEF Respond, RespondNoting, RequestInv
      <4> QED BY <2>1, <4>1, AnswerIsAnswer
    <3>2. RequestInv'
      BY <2>0, <3>1, MovesKeepRequests
    <3>3. /\ req' = req /\ pc' = [pc EXCEPT ![r] = "done"]
          /\ \A s \in Slots : ctx'[s].claims = ctx[s].claims /\ (s # r => ctx'[s] = ctx[s])
      BY <2>0, <3>1, OthersStay
    <3> QED BY <2>0, <3>1, <3>2, <3>3 DEF TokenTypes, RequestInv
  <2>2. CASE /\ pc' = [pc EXCEPT ![r] = "handle"] /\ UNCHANGED req
             /\ ctx' = [ctx EXCEPT ![r].claims = p, ![r].space = SpaceOf(q, p),
                                   ![r].actor = IF p = None THEN @ ELSE pairs[p].user]
    <3>1. p # None => p \in 1 .. Len(pairs) /\ pairs[p] \in TokenPair
      BY DEF Bearer, ValidAccess, TokenTypes
    <3>2. SpaceOf(q, p) \in Spaces
      <4>1. req[r] \in RequestSet
        BY <2>0, Served
      <4>2. p # None => UserSpace[pairs[p].user] \in Spaces
        BY <3>1, UsersHaveSpaces DEF TokenPair
      <4>3. q.space \in Spaces \union {None}
        BY <4>1 DEF RequestSet
      <4> HIDE DEF p, q
      <4> QED BY <4>2, <4>3, SpacesAreNames DEF SpaceOf
    <3>3. p # None => pairs[p].user \in Actors
      BY <3>1 DEF TokenPair, Actors
    <3>4. p \in Nat \union {None}
      BY <3>1, TokensExpire DEF TokenTypes
    <3> HIDE DEF p, q
    <3>5. ctx' \in [Slots -> Context]
      <4>1. ctx[r].actor \in Actors
        BY DEF RequestInv, Context
      <4>2. PICK claims \in Nat \union {None}, space \in Spaces, actor \in Actors :
              ctx' = [ctx EXCEPT ![r].claims = claims, ![r].space = space, ![r].actor = actor]
        BY <2>2, <3>2, <3>3, <3>4, <4>1
      <4>3. [ctx[r] EXCEPT !.claims = claims, !.space = space, !.actor = actor] \in Context
        BY DEF RequestInv, Context
      <4>4. ctx' = [ctx EXCEPT ![r] = [ctx[r] EXCEPT !.claims = claims, !.space = space,
                                                    !.actor = actor]]
        BY <4>2 DEF RequestInv, Context
      <4> QED BY <4>3, <4>4 DEF RequestInv
    <3>6. ctx'[r].claims = p /\ \A s \in Slots : s # r => ctx'[s] = ctx[s]
      BY <2>2 DEF RequestInv, Context
    <3>7. req[r].route \in Serves("handle")
      BY <2>0, Served DEF Serves, RequestSet
    <3> QED BY <2>0, <2>2, <3>1, <3>5, <3>6, <3>7 DEF RequestInv, TokenTypes, Places
  <2> QED BY <1>2, <2>1, <2>2 DEF JWTValidate
<1> QED BY <1>1, <1>2

\* The moves of a handler that does not serve a link.
Elsewhere(r) == Limit(r) \/ Token(r) \/ Auth(r) \/ JWTValidate(r)
                  \/ ServeFile(r) \/ ServeAdmin(r) \/ ServeOther(r)

LinkVars == <<shares, minted, entry, cookies, opened, knows>>
AtLink == {"compare", "verified", "consume", "open"}

\* They leave alone what is known of links and of the requests for them.
LEMMA ElsewhereMoves ==
  ASSUME RequestInv, TokenTypes, NEW r \in Slots, Elsewhere(r)
  PROVE  /\ RequestInv' /\ TokenTypes' /\ pc[r] # "idle"
         /\ UNCHANGED <<deployment, now, arrivals, restarts, LinkVars, req>>
         /\ pc' = [pc EXCEPT ![r] = pc'[r]] /\ pc'[r] \in Places \ {"idle"}
         /\ pc[r] \notin AtLink /\ pc'[r] \notin AtLink
         /\ pc[r] \in {"failed", "reset"} \/ pc'[r] \in {"failed", "reset"}
              => req[r].route = "login"
         /\ req[r].route \in {"s", "s_form"} /\ pc'[r] = "done" => ctx'[r].code \in {401, 403, 429}
         /\ \A s \in Slots : s # r => ctx'[s] = ctx[s]
<1> USE DEF AtLink
<1>w. Elsewhere(r) => UNCHANGED <<deployment, now, arrivals, restarts, LinkVars>>
  BY DEF Elsewhere, Limit, Token, Auth, JWTValidate, ServeFile, ServeAdmin, ServeOther,
         worldVars, shareVars, LinkVars
<1>m. ASSUME pc[r] # "idle" /\ (GoesOn(r) \/ Answers(r))
      PROVE  /\ RequestInv' /\ req' = req /\ pc' = [pc EXCEPT ![r] = pc'[r]]
             /\ pc'[r] \in Places \ {"idle"}
             /\ \A s \in Slots : ctx'[s].claims = ctx[s].claims /\ (s # r => ctx'[s] = ctx[s])
             /\ UNCHANGED tokenVars => TokenTypes'
  <2>1. RequestInv' /\ req' = req /\ pc' = [pc EXCEPT ![r] = pc'[r]] /\ pc'[r] \in Places \ {"idle"}
         /\ \A s \in Slots : ctx'[s].claims = ctx[s].claims /\ (s # r => ctx'[s] = ctx[s])
    BY <1>m, <1>w, MovesKeepRequests, OthersStay
  <2> QED BY <1>m, <2>1 DEF TokenTypes, tokenVars, RequestInv
<1>1. CASE Limit(r)
  <2>1. RateStep(r) /\ UNCHANGED tokenVars
    BY <1>1 DEF Limit
  <2>2. pc[r] \in {"limit", "new_bucket", "take"}
    BY <2>1 DEF RateStep, LookUpBucket, MakeBucket, TakeToken
  <2>3. \/ pc'[r] \in {"new_bucket", "take", "auth"}
        \/ pc'[r] = "done" /\ ctx'[r].code = 429
    BY <2>1 DEF RateStep, LookUpBucket, MakeBucket, TakeToken, Goto, Respond, RespondNoting,
                RequestInv, Context
  <2> QED BY <2>1, <2>2, <2>3, RateMoves, <1>w, <1>m DEF Elsewhere
<1>2. CASE Token(r)
  <2>1. TokenStep(r) /\ UNCHANGED <<deployment, now>>
    BY <1>2 DEF Token, worldVars
  <2>3. pc[r] \in {"handle", "login", "failed", "reset", "claim", "setnx", "issue"}
    BY <2>1 DEF TokenStep, BeginLogin, ComparePassword, RecordLoginFailure, ResetLogin,
         ParseRefresh, ClaimInMemory, ComputeTTL, SetNX, IssueRefreshed, Me
  <2>2. req[r].route \notin {"s", "s_form"}
    <3>1. CASE pc[r] \in {"login", "claim", "setnx", "issue"}
      <4>1. req[r].route \in Serves(pc[r])
        BY <3>1, Served
      <4> QED BY <3>1, <4>1 DEF Serves
    <3>2. CASE pc[r] \in {"handle", "failed", "reset"}
      BY <2>1, <3>2 DEF TokenStep, BeginLogin, ComparePassword, RecordLoginFailure, ResetLogin,
         ParseRefresh, ClaimInMemory, ComputeTTL, SetNX, IssueRefreshed, Me
    <3> QED BY <2>3, <3>1, <3>2
  <2>4. pc'[r] \in {"login", "failed", "reset", "claim", "setnx", "issue", "done"}
    BY <2>1 DEF TokenStep, BeginLogin, ComparePassword, RecordLoginFailure, ResetLogin,
         ParseRefresh, ClaimInMemory, ComputeTTL, SetNX, IssueRefreshed, Me, Claimed,
         Goto, Respond, RespondNoting, RequestInv
  <2>5. pc[r] \in {"failed", "reset"} \/ pc'[r] \in {"failed", "reset"} => req[r].route = "login"
    BY <2>1, Served DEF TokenStep, BeginLogin, ComparePassword, RecordLoginFailure, ResetLogin,
         ParseRefresh, ClaimInMemory, ComputeTTL, SetNX, IssueRefreshed, Me, Claimed,
         Goto, Respond, RespondNoting, RequestInv, Serves
  <2>6. TokenTypes'
    BY <2>1, TokensStayTyped
  <2> QED BY <2>1, <2>2, <2>3, <2>4, <2>5, <2>6, TokenMoves, <1>w, <1>m DEF Elsewhere
<1>3. CASE Auth(r)
  <2>1. (\E status \in {401, 403} : Respond(r, status)) \/ pc' = [pc EXCEPT ![r] = "jwt"]
    BY <1>3 DEF Auth
  <2>2. pc'[r] = "done" => ctx'[r].code \in {401, 403}
    BY <2>1 DEF Respond, RespondNoting, RequestInv, Context
  <2> QED BY <1>3, <1>w, <2>2, WhoIsAsking DEF Places, Elsewhere
<1>4. CASE JWTValidate(r)
  <2>1. UNCHANGED <<deployment, now, arrivals, restarts, LinkVars>>
    BY <1>4, <1>w DEF Elsewhere
  <2>2. Respond(r, 401) \/ pc' = [pc EXCEPT ![r] = "handle"]
    BY <1>4 DEF JWTValidate
  <2>3. pc'[r] = "done" => ctx'[r].code = 401
    BY <2>2 DEF Respond, RespondNoting, RequestInv, Context
  <2> QED BY <1>4, <2>1, <2>3, WhoIsAsking DEF Places
<1>5. CASE ServeFile(r)
  <2>1. pc[r] = "handle" /\ req[r].route \notin {"s", "s_form"} /\ UNCHANGED tokenVars
    BY <1>5 DEF ServeFile
  <2>2. \E status \in Nat : Respond(r, status)
    BY <1>5 DEF ServeFile
  <2>3. pc'[r] = "done"
    BY <2>2 DEF Respond, RespondNoting, RequestInv
  <2>4. Answers(r)
    BY <2>2, AnswerIsAnswer
  <2> QED BY <2>1, <2>3, <2>4, <1>w, <1>m DEF Elsewhere
<1>6. CASE ServeAdmin(r)
  <2>1. pc[r] = "handle" /\ req[r].route \notin {"s", "s_form"} /\ UNCHANGED tokenVars
    BY <1>6 DEF ServeAdmin
  <2>2. \E status \in Nat : Respond(r, status)
    BY <1>6 DEF ServeAdmin
  <2>3. pc'[r] = "done"
    BY <2>2 DEF Respond, RespondNoting, RequestInv
  <2>4. Answers(r)
    BY <2>2, AnswerIsAnswer
  <2> QED BY <2>1, <2>3, <2>4, <1>w, <1>m DEF Elsewhere
<1>7. CASE ServeOther(r)
  <2>1. pc[r] = "handle" /\ req[r].route \notin {"s", "s_form"} /\ UNCHANGED tokenVars
    BY <1>7 DEF ServeOther
  <2>2. \E status \in Nat : Respond(r, status)
    BY <1>7 DEF ServeOther
  <2>3. pc'[r] = "done"
    BY <2>2 DEF Respond, RespondNoting, RequestInv
  <2>4. Answers(r)
    BY <2>2, AnswerIsAnswer
  <2> QED BY <2>1, <2>3, <2>4, <1>w, <1>m DEF Elsewhere
<1> QED BY <1>1, <1>2, <1>3, <1>4, <1>5, <1>6, <1>7 DEF Elsewhere

LEMMA Arrivals ==
  ASSUME TypeOK, NEW r \in Slots, NEW q \in deployment.requests, Arrive(r, q)
  PROVE  TypeOK' /\ pc' = [pc EXCEPT ![r] = "limit"] /\ entry'[r] = None
         /\ \E c \in Held(q) : req'[r] = [q EXCEPT !.cookie = c]
         /\ ctx'[r] = EmptyContext
         /\ \A s \in Slots : s # r => req'[s] = req[s] /\ ctx'[s] = ctx[s] /\ entry'[s] = entry[s]
         /\ UNCHANGED <<deployment, now, rateVars, attempts, shares, minted, cookies, live, opened,
                        knows, tokenVars>>
<1>0. PICK c \in Held(q) : req' = [req EXCEPT ![r] = [q EXCEPT !.cookie = c]]
  BY DEF Arrive
<1> DEFINE asked == [q EXCEPT !.cookie = c]
<1>1. WellPosed(asked) /\ asked.route \in Serves("limit") /\ asked.token = q.token /\ asked.pair = q.pair
  <2>1. q \in RequestSet /\ (q.route = "refresh" => q.pair > 0)
    BY DeploymentsAreServed DEF TypeOK, RequestInv
  <2>2. c \in (Nat \X Nat) \union {None}
    BY DEF Held, TypeOK, ShareTypes
  <2> QED BY <2>1, <2>2 DEF WellPosed, RequestSet, Serves
<1>2. EmptyContext \in Context
  BY SpacesAreNames DEF EmptyContext, Context, Actors
<1>3. /\ pc' = [pc EXCEPT ![r] = "limit"] /\ req' = [req EXCEPT ![r] = asked]
      /\ ctx' = [ctx EXCEPT ![r] = EmptyContext] /\ entry' = [entry EXCEPT ![r] = None]
      /\ q.token <= minted /\ q.pair <= Len(pairs)
      /\ UNCHANGED <<deployment, now, rateVars, attempts, shares, minted, cookies, live, opened,
                     knows, tokenVars>>
  BY <1>0 DEF Arrive, Known
<1> HIDE DEF asked
<1>4. RequestInv'
  BY <1>1, <1>2, <1>3 DEF TypeOK, RequestInv, Places, WellPosed
<1>5. ShareTypes'
  BY <1>1, <1>3 DEF TypeOK, ShareTypes, RequestInv
<1>6. EmptyContext.claims = None
  BY DEF EmptyContext
<1>7. TokenTypes'
  BY <1>1, <1>3, <1>6 DEF TypeOK, TokenTypes, RequestInv, tokenVars
<1>8. req'[r] = [q EXCEPT !.cookie = c]
  BY <1>3 DEF asked, TypeOK, RequestInv
<1> QED BY <1>3, <1>4, <1>5, <1>7, <1>8 DEF TypeOK, RequestInv, ShareTypes

LEMMA Restarts ==
  ASSUME TypeOK, Restart
  PROVE  TypeOK'
<1>1. EmptyContext \in Context /\ EmptyContext.claims = None
  BY SpacesAreNames DEF EmptyContext, Context, Actors
<1>2. RequestInv'
  BY <1>1 DEF TypeOK, RequestInv, Restart, ForgetRequests, Places
<1>3. ShareTypes'
  BY DEF TypeOK, ShareTypes, Restart, ForgetRequests, ForgetCookies
<1>4. TokenTypes'
  <2>1. /\ DOMAIN used' \subseteq 1 .. Len(pairs) /\ used' \in [DOMAIN used' -> Int]
        /\ rotated' \in [PairIDs -> Nat]
    <3>1. CASE UNCHANGED <<used, rotated>>
      BY <3>1 DEF TypeOK, TokenTypes
    <3>2. CASE used' = [p \in {} |-> Never] /\ rotated' = [p \in PairIDs |-> 0]
      BY <3>2
    <3> QED BY <3>1, <3>2 DEF Restart, ForgetTokens
  <2> QED BY <1>1, <2>1 DEF TypeOK, TokenTypes, Restart, ForgetRequests, ForgetTokens
<1> QED BY <1>2, <1>3, <1>4 DEF TypeOK

Steps == \E r \in Slots : Elsewhere(r) \/ Share(r) \/ \E q \in deployment.requests : Arrive(r, q)

\* The steps of Next: the request of one slot, or none.
LEMMA StepCases ==
  ASSUME [Next]_vars
  PROVE  Steps \/ Restart \/ Cleanup \/ Tick \/ UNCHANGED vars
BY DEF Steps, Next, Elsewhere, Quiet

LEMMA TypesInit == ASSUME Init PROVE TypeOK
<1>1. EmptyContext \in Context /\ EmptyContext.claims = None
  BY SpacesAreNames DEF EmptyContext, Context, Actors
<1>2. RequestInv
  BY <1>1 DEF RequestInv, Init, NoRequests, Places
<1>3. PICK n \in 0 .. MaxShares : deployment.shares \in [1 .. n -> ShareRow]
  BY DeploymentsAreServed DEF Init
<1>4. Cardinality(1 .. n) = n
  BY <1>3, FS_Interval
<1>5. ShareTypes
  BY <1>3, <1>4, SharesAreBounded DEF ShareTypes, Init, NoRequests, InitShares
<1>6. TokenTypes
  BY <1>1, DeploymentsAreServed DEF TokenTypes, Init, NoRequests, InitTokens
<1> QED BY <1>2, <1>5, <1>6 DEF TypeOK

LEMMA TypesStep == ASSUME TypeOK, [Next]_vars PROVE TypeOK'
<1>1. ASSUME NEW r \in Slots, Elsewhere(r) PROVE TypeOK'
  <2>1. ShareTypes'
    <3>1. /\ UNCHANGED <<shares, minted, entry, cookies, opened, req>>
          /\ pc' = [pc EXCEPT ![r] = pc'[r]] /\ pc[r] # "idle"
          /\ pc'[r] \notin {"consume", "open"} /\ (pc'[r] = "reset" => req[r].route = "login")
      BY <1>1, ElsewhereMoves DEF TypeOK, LinkVars, AtLink
    <3>2. \A s \in Slots : pc'[s] = pc[s] \/ s = r
      BY <3>1 DEF TypeOK, RequestInv
    <3>3. /\ \A s \in Slots : pc'[s] # "idle" => req'[s].token <= minted'
          /\ \A s \in Slots : pc'[s] \in {"consume", "open"} => entry'[s] # None
          /\ \A s \in Slots : pc'[s] = "reset" /\ req'[s].route # "login" => entry'[s] # None
      BY <3>1, <3>2 DEF TypeOK, ShareTypes
    <3> QED BY <3>1, <3>3 DEF TypeOK, ShareTypes
  <2> QED BY <1>1, <2>1, ElsewhereMoves DEF TypeOK
<1>2. ASSUME NEW r \in Slots, Share(r) PROVE TypeOK'
  <2>1. ShareStep(r) /\ UNCHANGED <<deployment, now, tokenVars>>
    BY <1>2 DEF Share, worldVars
  <2>2. RequestInv' /\ ShareTypes'
    BY <2>1, ShareMoves, MovesKeepRequests, SharesStayTyped DEF TypeOK
  <2>3. /\ req' = req /\ pc' = [pc EXCEPT ![r] = pc'[r]] /\ pc[r] # "idle"
        /\ \A s \in Slots : ctx'[s].claims = ctx[s].claims
    BY <2>1, ShareMoves, OthersStay DEF TypeOK
  <2>4. TokenTypes'
    BY <2>1, <2>3 DEF TypeOK, TokenTypes, tokenVars, RequestInv
  <2> QED BY <2>2, <2>4 DEF TypeOK
<1>3. ASSUME NEW r \in Slots, NEW q \in deployment.requests, Arrive(r, q) PROVE TypeOK'
  BY <1>3, Arrivals
<1>4. CASE Restart
  BY <1>4, Restarts
<1>5. CASE Cleanup \/ Tick \/ UNCHANGED vars
  <2>1. UNCHANGED <<reqVars, shareVars, tokenVars, deployment>> /\ now' \in Nat \ {0}
    BY <1>5 DEF Cleanup, Tick, vars, worldVars, TypeOK, RequestInv
  <2> QED BY <2>1 DEF TypeOK, RequestInv, ShareTypes, TokenTypes, reqVars, shareVars, tokenVars
<1> QED BY <1>1, <1>2, <1>3, <1>4, <1>5, StepCases DEF Steps

\* The tables, the contexts and the places of the handlers have their types.
THEOREM TypesHold == Spec => []TypeOK
<1>1. Init => TypeOK
  BY TypesInit
<1>2. TypeOK /\ [Next]_vars => TypeOK'
  BY TypesStep
<1> QED BY <1>1, <1>2, PTL DEF Spec

-----------------------------------------------------------------------------
(* Downloads.  A download is counted in the row before its file is opened, *)
(* so the row has counted what was opened and what is on its way there.    *)

DownloadInv ==
  /\ \A t \in DOMAIN shares : shares[t].max > 0 =>
       /\ opened[t] + Cardinality(Underway(t)) <= shares[t].cur
       /\ shares[t].cur <= shares[t].max
  /\ \A t \in Tokens : t > minted => opened[t] = 0

LEMMA UnderwayIsFinite == ASSUME NEW t PROVE IsFiniteSet(Underway(t)) /\ Cardinality(Underway(t)) \in Nat
<1>1. Underway(t) \subseteq Slots
  BY DEF Underway, At
<1> QED BY <1>1, SlotsAreFinite, FS_Subset, FS_CardinalityType

LEMMA UnderwayKept ==
  ASSUME RequestInv, NEW r \in Slots, NEW t, req' = req, pc' = [pc EXCEPT ![r] = pc'[r]],
         req[r].route = "s" => (pc[r] \in {"reset", "open"} <=> pc'[r] \in {"reset", "open"})
  PROVE  Underway(t)' = Underway(t)
BY DEF Underway, At, RequestInv

\* Where the handler of a link moves to.
LEMMA LinkMoves ==
  ASSUME RequestInv, ShareTypes, NEW r \in Slots, ShareStep(r)
  PROVE  /\ pc[r] # "idle" /\ req' = req /\ pc' = [pc EXCEPT ![r] = pc'[r]]
         /\ BeginAccess(r) => pc[r] = "handle" /\ pc'[r] \in {"compare", "verified", "done"}
         /\ CompareSharePassword(r) =>
              /\ pc[r] \in {"compare", "verified"} /\ pc'[r] \in {"reset", "consume", "failed", "done"}
              /\ pc'[r] = "reset" => req[r].route = "s_form"
         /\ RecordShareFailure(r) => pc[r] = "failed" /\ pc'[r] = "done"
         /\ ConsumeDownload(r) =>
              pc[r] = "consume" /\ pc'[r] \in {"reset", "open", "done"} /\ req[r].route = "s"
         /\ ResetSharePassword(r) =>
              /\ pc[r] = "reset"
              /\ req[r].route = "s" => pc'[r] = "open"
              /\ req[r].route # "s" => pc'[r] = "done"
         /\ OpenShared(r) => pc[r] = "open" /\ pc'[r] = "done" /\ req[r].route = "s"
         /\ CheckShared(r) => pc[r] = "handle" /\ pc'[r] \in {"insert_share", "done"}
         /\ InsertShare(r) => pc[r] = "insert_share" /\ pc'[r] = "done"
         /\ ListShares(r) => pc[r] = "handle" /\ pc'[r] = "done"
         /\ RevokeShare(r) => pc[r] = "handle" /\ pc'[r] = "done"
<1>0. pc[r] # "idle" /\ req' = req /\ pc' = [pc EXCEPT ![r] = pc'[r]]
  BY ShareMoves, OthersStay
<1> USE DEF Goto, Respond, RespondNoting, Refuse, RequestInv
<1>1. BeginAccess(r) => pc[r] = "handle" /\ pc'[r] \in {"compare", "verified", "done"}
  BY DEF BeginAccess
<1>2. CompareSharePassword(r) =>
        /\ pc[r] \in {"compare", "verified"} /\ pc'[r] \in {"reset", "consume", "failed", "done"}
        /\ pc'[r] = "reset" => req[r].route = "s_form"
  BY DEF CompareSharePassword
<1>3. RecordShareFailure(r) => pc[r] = "failed" /\ pc'[r] = "done"
  BY DEF RecordShareFailure
<1>4. ConsumeDownload(r) =>
        pc[r] = "consume" /\ pc'[r] \in {"reset", "open", "done"} /\ req[r].route = "s"
  BY <1>0, Served DEF ConsumeDownload, Serves
<1>5. ResetSharePassword(r) => /\ pc[r] = "reset"
                               /\ req[r].route = "s" => pc'[r] = "open"
                               /\ req[r].route # "s" => pc'[r] = "done"
  BY DEF ResetSharePassword
<1>6. OpenShared(r) => pc[r] = "open" /\ pc'[r] = "done" /\ req[r].route = "s"
  BY <1>0, Served DEF OpenShared, Serves
<1>7. CheckShared(r) => pc[r] = "handle" /\ pc'[r] \in {"insert_share", "done"}
  BY DEF CheckShared
<1>8. InsertShare(r) => pc[r] = "insert_share" /\ pc'[r] = "done"
  BY DEF InsertShare
<1>9. ListShares(r) => pc[r] = "handle" /\ pc'[r] = "done"
  BY DEF ListShares
<1>10. RevokeShare(r) => pc[r] = "handle" /\ pc'[r] = "done"
  BY DEF RevokeShare
<1> QED BY <1>0, <1>1, <1>2, <1>3, <1>4, <1>5, <1>6, <1>7, <1>8, <1>9, <1>10

\* Only the count of a download puts a request on its way to the file, and
\* only the end of the request takes it off.
LEMMA UnderwayStays ==
  ASSUME TypeOK, [Next]_vars, ~Restart,
         \A r \in Slots : Share(r) => ~ConsumeDownload(r) /\ ~OpenShared(r)
  PROVE  \A t : Underway(t)' = Underway(t)
<1> SUFFICES ASSUME NEW t PROVE Underway(t)' = Underway(t)
  OBVIOUS
<1>1. ASSUME NEW r \in Slots, Elsewhere(r) PROVE Underway(t)' = Underway(t)
  <2>1. /\ req' = req /\ pc' = [pc EXCEPT ![r] = pc'[r]]
        /\ pc[r] # "open" /\ pc'[r] # "open"
        /\ pc[r] = "reset" \/ pc'[r] = "reset" => req[r].route = "login"
    BY <1>1, ElsewhereMoves DEF TypeOK, AtLink
  <2>2. req[r].route = "s" => (pc[r] \in {"reset", "open"} <=> pc'[r] \in {"reset", "open"})
    BY <2>1
  <2> QED BY <2>1, <2>2, UnderwayKept DEF TypeOK
<1>2. ASSUME NEW r \in Slots, Share(r) PROVE Underway(t)' = Underway(t)
  <2>1. ShareStep(r) /\ ~ConsumeDownload(r) /\ ~OpenShared(r)
    BY <1>2 DEF Share, Steps
  <2>2. /\ req' = req /\ pc' = [pc EXCEPT ![r] = pc'[r]]
        /\ req[r].route = "s" => (pc[r] \in {"reset", "open"} <=> pc'[r] \in {"reset", "open"})
    BY <2>1, LinkMoves DEF ShareStep, TypeOK
  <2> QED BY <2>2, UnderwayKept DEF TypeOK
<1>3. ASSUME NEW r \in Slots, NEW q \in deployment.requests, Arrive(r, q)
      PROVE  Underway(t)' = Underway(t)
  <2>1. /\ pc[r] \in {"idle", "done"} /\ pc' = [pc EXCEPT ![r] = "limit"]
        /\ \A s \in Slots : s # r => req'[s] = req[s]
    BY <1>3, Arrivals DEF Arrive
  <2> QED BY <2>1 DEF Underway, At, TypeOK, RequestInv
<1>4. CASE Cleanup \/ Tick \/ UNCHANGED vars
  <2>1. UNCHANGED <<req, pc>>
    BY <1>4 DEF Cleanup, Tick, vars, reqVars
  <2> QED BY <2>1 DEF Underway, At
<1> QED BY <1>1, <1>2, <1>3, <1>4, StepCases DEF Steps

LEMMA DownloadStep == ASSUME TypeOK, DownloadInv, [Next]_vars PROVE DownloadInv'
<1> USE DEF DownloadInv
<1>f. \A t : Cardinality(Underway(t)) \in Nat
  BY UnderwayIsFinite
<1>0. \A r \in Slots : Elsewhere(r) => UNCHANGED LinkVars
  BY DEF Elsewhere, Limit, Token, Auth, JWTValidate, ServeFile, ServeAdmin, ServeOther,
         shareVars, LinkVars
<1>k. \A t \in DOMAIN shares : /\ t \in Tokens /\ shares[t] \in ShareRow
                               /\ opened[t] \in Nat /\ shares[t].cur \in Nat
  BY SharesAreBounded DEF TypeOK, ShareTypes, ShareRow, Tokens
<1>1. ASSUME NEW r \in Slots, Share(r), ConsumeDownload(r) PROVE DownloadInv'
  <2> DEFINE t == req[r].token
             counts == t \in DOMAIN shares /\ ~Exhausted(shares[t])
  <2>1. /\ pc[r] = "consume" /\ req[r].route = "s"
        /\ req' = req /\ pc' = [pc EXCEPT ![r] = pc'[r]]
    BY <1>1, LinkMoves DEF TypeOK, Share, ShareStep
  <2>2. UNCHANGED <<minted, opened>>
    BY <1>1 DEF ConsumeDownload
  <2>3. CASE counts
    <3>1. shares' = [shares EXCEPT ![t].cur = @ + 1] /\ pc'[r] \in {"reset", "open"}
      BY <1>1, <2>3 DEF ConsumeDownload, Goto, TypeOK, RequestInv
    <3>2. ASSUME NEW u, u # t PROVE Underway(u)' = Underway(u)
      BY <2>1, <3>1, <3>2 DEF Underway, At, TypeOK, RequestInv
    <3>3. ASSUME NEW u, u = t PROVE Cardinality(Underway(u)') = Cardinality(Underway(u)) + 1
      <4>1. r \notin Underway(u) /\ Underway(u)' = Underway(u) \union {r}
        BY <2>1, <3>1, <3>3 DEF Underway, At, TypeOK, RequestInv
      <4> QED BY <4>1, UnderwayIsFinite, FS_AddElement
    <3>4. /\ DOMAIN shares' = DOMAIN shares
          /\ shares'[t].cur = shares[t].cur + 1 /\ shares'[t].max = shares[t].max
          /\ \A u \in DOMAIN shares : u # t => shares'[u] = shares[u]
          /\ shares[t].max > 0 => shares[t].cur < shares[t].max
      BY <2>3, <3>1, <1>k DEF ShareRow, Exhausted
    <3>5. \A u \in DOMAIN shares : shares[u].cur \in Nat /\ shares[u].max \in Nat
      BY <1>k DEF ShareRow
    <3> HIDE DEF t, counts
    <3>6. ASSUME NEW u \in DOMAIN shares, shares'[u].max > 0
          PROVE  /\ opened'[u] + Cardinality(Underway(u)') <= shares'[u].cur
                 /\ shares'[u].cur <= shares'[u].max
      <4>1. CASE u = t
        BY <2>2, <3>3, <3>4, <3>5, <3>6, <4>1, <1>f, <1>k
      <4>2. CASE u # t
        BY <2>2, <3>2, <3>4, <3>6, <4>2
      <4> QED BY <4>1, <4>2
    <3> QED BY <2>2, <3>4, <3>6
  <2>4. CASE ~counts
    <3>1. shares' = shares /\ pc'[r] = "done"
      BY <1>1, <2>4 DEF ConsumeDownload, Refuse, Respond, RespondNoting, TypeOK, RequestInv
    <3>2. \A u : Underway(u)' = Underway(u)
      BY <2>1, <3>1, UnderwayKept DEF TypeOK
    <3> QED BY <2>2, <3>1, <3>2
  <2> QED BY <2>3, <2>4
<1>2. ASSUME NEW r \in Slots, Share(r), OpenShared(r) PROVE DownloadInv'
  <2> DEFINE t == req[r].token
  <2>1. /\ pc[r] = "open" /\ pc'[r] = "done" /\ req[r].route = "s" /\ t \in Nat
        /\ req' = req /\ pc' = [pc EXCEPT ![r] = pc'[r]]
    BY <1>2, LinkMoves, Served DEF TypeOK, Share, ShareStep, RequestSet
  <2>2. /\ UNCHANGED <<shares, minted>> /\ t <= minted
        /\ opened' = opened \/ opened' = [opened EXCEPT ![t] = @ + 1]
    BY <1>2, <2>1 DEF OpenShared, TypeOK, ShareTypes
  <2>3. ASSUME NEW u, u # t PROVE Underway(u)' = Underway(u)
    BY <2>1, <2>3 DEF Underway, At, TypeOK, RequestInv
  <2>4. ASSUME NEW u, u = t PROVE Cardinality(Underway(u)') = Cardinality(Underway(u)) - 1
    <3>1. r \in Underway(u) /\ Underway(u)' = Underway(u) \ {r}
      BY <2>1, <2>4 DEF Underway, At, TypeOK, RequestInv
    <3> QED BY <3>1, UnderwayIsFinite, FS_RemoveElement
  <2>5. \A u \in Tokens : /\ opened'[u] = opened[u] \/ (u = t /\ opened'[u] = opened[u] + 1)
                          /\ opened[u] \in Nat
    BY <2>2 DEF TypeOK, ShareTypes
  <2>6. minted \in Nat
    BY SharesAreBounded DEF TypeOK, ShareTypes
  <2> HIDE DEF t
  <2>7. \A u \in Tokens : u > minted' => opened'[u] = 0
    BY <2>1, <2>2, <2>5, <2>6 DEF Tokens
  <2>8. ASSUME NEW u \in DOMAIN shares, shares[u].max > 0
        PROVE  opened'[u] + Cardinality(Underway(u)') <= shares[u].cur
    <3>1. CASE u = t
      BY <2>4, <2>5, <2>8, <3>1, <1>f, <1>k
    <3>2. CASE u # t
      BY <2>3, <2>5, <2>8, <3>2, <1>k
    <3> QED BY <3>1, <3>2
  <2> QED BY <2>2, <2>7, <2>8
<1>3. ASSUME NEW r \in Slots, Share(r), InsertShare(r), \A t : Underway(t)' = Underway(t)
      PROVE  DownloadInv'
  <2> DEFINE t == minted + 1
  <2>1. /\ minted' = t /\ minted \in Nat /\ t \in Tokens /\ opened' = opened
        /\ DOMAIN shares' = DOMAIN shares \union {t}
        /\ \A u \in DOMAIN shares : shares'[u] = shares[u]
        /\ shares'[t].cur = 0 /\ shares'[t].max = req[r].terms.max
    BY <1>3, SharesAreBounded DEF InsertShare, TypeOK, ShareTypes, Tokens
  <2>2. Underway(t) = {}
    BY <2>1, Served DEF Underway, At, TypeOK, ShareTypes, RequestSet
  <2>3. Cardinality(Underway(t)) = 0
    BY <2>2, FS_EmptySet
  <2>z. opened[t] = 0
    BY <2>1
  <2>4. \A u \in Tokens : u > minted' => opened'[u] = 0
    BY <2>1 DEF Tokens
  <2>5. \A u \in DOMAIN shares : u # t
    BY <2>1 DEF TypeOK, ShareTypes
  <2>6. shares'[t].max > 0 => shares'[t].cur <= shares'[t].max
    <3>1. req[r].terms.max \in Nat
      BY <1>3, Served DEF TypeOK, InsertShare, RequestSet
    <3> QED BY <2>1, <3>1
  <2> QED BY <1>3, <2>1, <2>3, <2>z, <2>4, <2>5, <2>6
<1>4. ASSUME NEW r \in Slots, Share(r), RevokeShare(r), \A t : Underway(t)' = Underway(t)
      PROVE  DownloadInv'
  <2>1. /\ DOMAIN shares' \subseteq DOMAIN shares /\ UNCHANGED <<minted, opened>>
        /\ \A u \in DOMAIN shares' : shares'[u] = shares[u]
    BY <1>4 DEF RevokeShare, Restrict
  <2> QED BY <1>4, <2>1
<1>5. CASE Restart
  <2>1. UNCHANGED <<shares, minted, opened>> /\ pc' = [r \in Slots |-> "idle"]
    BY <1>5 DEF Restart, ForgetCookies, ForgetRequests
  <2>2. \A t : Underway(t)' = {}
    BY <2>1 DEF Underway, At
  <2>3. \A t : Cardinality(Underway(t)') = 0
    BY <2>2, FS_EmptySet
  <2> QED BY <1>f, <1>k, <2>1, <2>3
<1>6. ASSUME UNCHANGED <<shares, minted, opened>>, \A t : Underway(t)' = Underway(t)
      PROVE  DownloadInv'
  BY <1>6
<1>7. ASSUME NEW r \in Slots, Share(r) PROVE DownloadInv'
  <2>1. CASE ConsumeDownload(r) \/ OpenShared(r)
    BY <1>1, <1>2, <1>7, <2>1
  <2>2. CASE ~ConsumeDownload(r) /\ ~OpenShared(r)
    <3>1. ShareStep(r)
      BY <1>7 DEF Share
    <3>2. /\ req' = req /\ pc' = [pc EXCEPT ![r] = pc'[r]]
          /\ req[r].route = "s" => (pc[r] \in {"reset", "open"} <=> pc'[r] \in {"reset", "open"})
      BY <2>2, <3>1, LinkMoves DEF ShareStep, TypeOK
    <3>3. \A t : Underway(t)' = Underway(t)
      BY <3>2, UnderwayKept DEF TypeOK
    <3>4. InsertShare(r) \/ RevokeShare(r) \/ UNCHANGED <<shares, minted, opened>>
      BY <2>2, <3>1 DEF ShareStep, BeginAccess, CompareSharePassword, RecordShareFailure,
           ResetSharePassword, CheckShared, ListShares, shareVars
    <3> QED BY <1>3, <1>4, <1>6, <1>7, <3>3, <3>4
  <2> QED BY <2>1, <2>2
<1>8. ASSUME \A r \in Slots : ~Share(r) PROVE DownloadInv'
  <2>1. CASE Restart
    BY <1>5, <2>1
  <2>2. CASE ~Restart
    <3>1. UNCHANGED <<shares, minted, opened>>
      <4>1. ASSUME NEW r \in Slots, Elsewhere(r) PROVE UNCHANGED <<shares, minted, opened>>
        BY <1>0, <4>1 DEF LinkVars
      <4>2. ASSUME NEW r \in Slots, NEW q \in deployment.requests, Arrive(r, q)
            PROVE  UNCHANGED <<shares, minted, opened>>
        BY <4>2 DEF Arrive
      <4>3. Cleanup \/ Tick \/ UNCHANGED vars => UNCHANGED <<shares, minted, opened>>
        BY DEF Cleanup, Tick, vars, shareVars
      <4> QED BY <1>8, <2>2, <4>1, <4>2, <4>3, StepCases DEF Steps
    <3>2. \A t : Underway(t)' = Underway(t)
      BY <1>8, <2>2, UnderwayStays
    <3> QED BY <1>6, <3>1, <3>2
  <2> QED BY <2>1, <2>2
<1> QED BY <1>7, <1>8

LEMMA DownloadInit == ASSUME Init PROVE DownloadInv
<1>1. PICK n \in 0 .. MaxShares : deployment.shares \in [1 .. n -> ShareRow]
  BY DeploymentsAreServed DEF Init
<1>2. /\ shares = deployment.shares /\ opened = [t \in Tokens |-> 0]
      /\ pc = [r \in Slots |-> "idle"] /\ deployment \in Deployments
  BY DEF Init, InitShares, NoRequests
<1>3. ASSUME NEW t PROVE Cardinality(Underway(t)) = 0
  <2>1. Underway(t) = {}
    BY <1>2 DEF Underway, At
  <2> QED BY <2>1, FS_EmptySet
<1>4. \A t \in DOMAIN shares : /\ opened[t] = 0 /\ shares[t].cur \in Nat
                               /\ shares[t].max > 0 => shares[t].cur <= shares[t].max
  BY <1>1, <1>2, DeploymentsAreServed, SharesAreBounded DEF Tokens, ShareRow
<1>5. ASSUME NEW t \in DOMAIN shares
      PROVE  opened[t] + Cardinality(Underway(t)) <= shares[t].cur
  <2>1. Cardinality(Underway(t)) = 0 /\ opened[t] = 0 /\ shares[t].cur \in Nat
    BY <1>3, <1>4
  <2> QED BY <2>1
<1>6. \A t \in Tokens : opened[t] = 0
  BY <1>2
<1> QED BY <1>4, <1>5, <1>6 DEF DownloadInv

\* However many handlers have read the row of a link before one of them counts
\* its download, its file is opened at most as often as the link allows
\* (TryConsumeDownload counts in one UPDATE, and before the file is opened).
THEOREM LimitsDownloads == Spec => []DownloadsWithinLimit
<1>1. Init => TypeOK /\ DownloadInv
  BY TypesInit, DownloadInit
<1>2. TypeOK /\ DownloadInv /\ [Next]_vars => TypeOK' /\ DownloadInv'
  BY TypesStep, DownloadStep
<1>3. TypeOK /\ DownloadInv => DownloadsWithinLimit
  <2>1. SUFFICES ASSUME TypeOK, DownloadInv, NEW t \in DOMAIN shares, shares[t].max > 0
                 PROVE  opened[t] <= shares[t].max
    BY DEF DownloadsWithinLimit
  <2>2. /\ opened[t] + Cardinality(Underway(t)) <= shares[t].cur
        /\ shares[t].cur <= shares[t].max
    BY <2>1 DEF DownloadInv
  <2>3. /\ opened[t] \in Nat /\ shares[t].cur \in Nat /\ shares[t].max \in Nat
        /\ Cardinality(Underway(t)) \in Nat
    BY <2>1, SharesAreBounded, UnderwayIsFinite DEF TypeOK, ShareTypes, ShareRow, Tokens
  <2> QED BY <2>2, <2>3
<1> QED BY <1>1, <1>2, <1>3, PTL DEF Spec

\* Once a link is revoked, no handler joins those that are about to open its
\* file, whatever it had read of the row before (the UPDATE finds no row).
THEOREM RevocationTakesEffect == Spec => RevocationStopsDownloads
<1>1. ASSUME TypeOK, [Next]_vars, NEW t \in (1 .. minted) \ DOMAIN shares
      PROVE  Underway(t)' \subseteq Underway(t)
  <2>1. CASE \E r \in Slots : Share(r) /\ (ConsumeDownload(r) \/ OpenShared(r))
    <3>1. PICK r \in Slots : Share(r) /\ (ConsumeDownload(r) \/ OpenShared(r))
      BY <2>1
    <3>2. req' = req /\ pc' = [pc EXCEPT ![r] = pc'[r]]
      BY <1>1, <3>1, LinkMoves DEF TypeOK, Share
    <3>3. req[r].token = t => pc'[r] = "done"
      <4>1. ConsumeDownload(r) /\ req[r].token = t => Refuse(r, "exhausted")
        BY DEF ConsumeDownload
      <4> QED
        BY <1>1, <3>1, <4>1 DEF OpenShared, Refuse, Respond, RespondNoting, TypeOK, RequestInv
    <3> QED BY <1>1, <3>2, <3>3 DEF Underway, At, TypeOK, RequestInv
  <2>2. CASE Restart
    BY <2>2 DEF Restart, ForgetRequests, Underway, At
  <2>3. CASE /\ ~Restart
             /\ \A r \in Slots : Share(r) => ~ConsumeDownload(r) /\ ~OpenShared(r)
    <3>1. \A u : Underway(u)' = Underway(u)
      BY <1>1, <2>3, UnderwayStays
    <3> QED BY <3>1
  <2> QED BY <2>1, <2>2, <2>3
<1>2. TypeOK /\ [Next]_vars =>
        [\A t \in (1 .. minted) \ DOMAIN shares : Underway(t)' \subseteq Underway(t)]_vars
  BY <1>1
<1> QED BY <1>2, TypesHold, PTL DEF Spec, RevocationStopsDownloads

-----------------------------------------------------------------------------
(* Passwords.  What a request has been let through with, the password or a *)
(* cookie, is about the link it asks for: no number of a link is given     *)
(* twice, and no row changes whether it has a password.                    *)

Secrets == {t \in DOMAIN shares : shares[t].secret}

\* The password of the link of r was shown, by r itself or for a cookie.
Shown(r) ==
  req[r].token \in knows /\ (req[r].password = "right" \/ req[r].cookie # None)

PasswordInv ==
  /\ \A c \in cookies : c[1] \in 0 .. minted /\ (c[1] \in Secrets => c[1] \in knows)
  /\ \A r \in Slots : pc[r] = "verified" =>
       req[r].cookie # None /\ (req[r].token \in Secrets => req[r].token \in knows)
  /\ \A r \in Slots :
       pc[r] # "idle" /\ req[r].route \in {"s", "s_form"} /\ entry[r] # None =>
         /\ entry[r].secret => Shown(r)
         /\ req[r].token \in Secrets => entry[r].secret

\* It is enough that links keep their passwords, for a slot that moves on.
LEMMA PasswordKept ==
  ASSUME TypeOK, PasswordInv, NEW r \in Slots, req' = req, pc' = [pc EXCEPT ![r] = pc'[r]],
         pc[r] # "idle", knows \subseteq knows',
         \A t \in 0 .. minted : t \in 0 .. minted' /\ (t \in Secrets' => t \in Secrets),
         \A c \in cookies' \ cookies :
           c[1] \in 0 .. minted /\ (c[1] \in Secrets => c[1] \in knows),
         \A s \in Slots : s # r => entry'[s] = entry[s],
         pc'[r] = "verified" =>
           req[r].cookie # None /\ (req[r].token \in Secrets => req[r].token \in knows),
         req[r].route \in {"s", "s_form"} /\ entry'[r] # None =>
           /\ entry'[r].secret => Shown(r)'
           /\ req[r].token \in Secrets => entry'[r].secret
  PROVE  PasswordInv'
<1>t. \A s \in Slots : pc[s] # "idle" => req[s].token \in 0 .. minted
  BY Served, SharesAreBounded DEF TypeOK, ShareTypes, RequestSet
<1>p. \A s \in Slots : s # r => pc'[s] = pc[s]
  BY DEF TypeOK, RequestInv
<1>1. \A c \in cookies' : c[1] \in 0 .. minted' /\ (c[1] \in Secrets' => c[1] \in knows')
  BY DEF PasswordInv
<1>2. \A s \in Slots : pc'[s] = "verified" =>
        req'[s].cookie # None /\ (req'[s].token \in Secrets' => req'[s].token \in knows')
  BY <1>t, <1>p DEF PasswordInv
<1>s. \A s \in Slots : Shown(s) => Shown(s)'
  BY DEF Shown
<1>3. \A s \in Slots :
       pc'[s] # "idle" /\ req'[s].route \in {"s", "s_form"} /\ entry'[s] # None =>
         /\ entry'[s].secret => Shown(s)'
         /\ req'[s].token \in Secrets' => entry'[s].secret
  BY <1>t, <1>p, <1>s DEF PasswordInv
<1> QED BY <1>1, <1>2, <1>3 DEF PasswordInv

LEMMA PasswordStep == ASSUME TypeOK, PasswordInv, [Next]_vars PROVE PasswordInv'
<1>s. DOMAIN shares \subseteq 1 .. minted /\ minted \in Nat /\ Secrets \subseteq 0 .. minted
  BY SharesAreBounded DEF TypeOK, ShareTypes, Secrets
<1>1. ASSUME NEW r \in Slots, Elsewhere(r) PROVE PasswordInv'
  <2>1. /\ UNCHANGED <<shares, minted, entry, cookies, knows, req>> /\ pc[r] # "idle"
        /\ pc' = [pc EXCEPT ![r] = pc'[r]] /\ pc'[r] # "verified"
    BY <1>1, ElsewhereMoves DEF TypeOK, LinkVars, AtLink
  <2>2. Secrets' = Secrets
    BY <2>1 DEF Secrets
  <2>3. Shown(r)' = Shown(r)
    BY <2>1 DEF Shown
  <2> QED BY <2>1, <2>2, <2>3, PasswordKept DEF PasswordInv
<1>2. ASSUME NEW r \in Slots, Share(r) PROVE PasswordInv'
  <2>0. ShareStep(r) /\ pc[r] # "idle" /\ req' = req /\ pc' = [pc EXCEPT ![r] = pc'[r]]
    BY <1>2, LinkMoves DEF TypeOK, Share
  <2>u. shares' = shares => Secrets' = Secrets
    BY DEF Secrets
  <2>k. req[r].route \in {"s", "s_form"} /\ entry[r] # None =>
          /\ entry[r].secret => Shown(r)
          /\ req[r].token \in Secrets => entry[r].secret
    BY <2>0 DEF PasswordInv
  <2>w. knows \subseteq knows' /\ Shown(r) => Shown(r)'
    BY <2>0 DEF Shown
  <2>1. CASE BeginAccess(r)
    <3>1. UNCHANGED <<shares, minted, entry, cookies, knows>>
      BY <2>1 DEF BeginAccess, shareVars
    <3>2. pc'[r] = "verified" => HasCookie(r)
      BY <2>1 DEF BeginAccess, Goto, Refuse, Respond, RespondNoting, TypeOK, RequestInv
    <3>3. HasCookie(r) =>
            req[r].cookie # None /\ (req[r].token \in Secrets => req[r].token \in knows)
      BY NoneIsNoRow DEF HasCookie, PasswordInv, TypeOK, ShareTypes
    <3> QED BY <2>0, <2>u, <2>k, <2>w, <3>1, <3>2, <3>3, PasswordKept
  <2>2. CASE CompareSharePassword(r)
    <3> DEFINE verdict == Verdict(r, pc[r] = "verified")
    <3>1. /\ UNCHANGED <<shares, minted, cookies>> /\ pc'[r] # "verified"
          /\ knows \subseteq knows'
      BY <2>0, <2>2, LinkMoves DEF CompareSharePassword, TypeOK
    <3>2. CASE verdict = "ok"
      <4>1. req[r].token \in DOMAIN shares /\ entry' = [entry EXCEPT ![r] = shares[req[r].token]]
            /\ knows' = IF req[r].password = "right" THEN knows \union {req[r].token} ELSE knows
        BY <2>2, <3>2 DEF CompareSharePassword, Verdict
      <4>2. shares[req[r].token].secret => pc[r] = "verified" \/ req[r].password = "right"
        BY <3>2, <4>1 DEF Verdict
      <4>3. shares[req[r].token].secret => Shown(r)'
        BY <2>0, <3>1, <4>1, <4>2 DEF PasswordInv, Secrets, Shown
      <4>4. entry'[r] = shares[req[r].token] /\ \A s \in Slots : s # r => entry'[s] = entry[s]
        BY <4>1 DEF TypeOK, ShareTypes
      <4> QED BY <2>0, <2>u, <3>1, <4>3, <4>4, PasswordKept DEF Secrets
    <3>3. CASE verdict # "ok"
      <4>1. entry' = entry
        BY <2>2, <3>3 DEF CompareSharePassword
      <4>2. \A s \in Slots : s # r => entry'[s] = entry[s]
        BY <4>1
      <4> QED BY <2>0, <2>u, <2>k, <2>w, <3>1, <4>1, <4>2, PasswordKept
    <3> QED BY <3>2, <3>3
  <2>3. CASE RecordShareFailure(r) \/ OpenShared(r) \/ CheckShared(r)
    <3>1. UNCHANGED <<shares, minted, entry, cookies, knows>> /\ pc'[r] # "verified"
      BY <2>0, <2>3, LinkMoves DEF RecordShareFailure, OpenShared, CheckShared, shareVars, TypeOK
    <3> QED BY <2>0, <2>u, <2>k, <2>w, <3>1, PasswordKept
  <2>4. CASE ConsumeDownload(r)
    <3>1. /\ UNCHANGED <<minted, entry, cookies, knows>>
          /\ pc'[r] # "verified"
      BY <2>4 DEF ConsumeDownload, Goto, Refuse, Respond, RespondNoting, TypeOK, RequestInv
    <3>2. Secrets' = Secrets
      <4>1. DOMAIN shares' = DOMAIN shares /\ \A t \in DOMAIN shares : shares'[t].secret = shares[t].secret
        <5>1. \A t \in DOMAIN shares : shares[t] \in ShareRow
          BY DEF TypeOK, ShareTypes
        <5> QED BY <2>4, <5>1 DEF ConsumeDownload, ShareRow
      <4> QED BY <4>1 DEF Secrets
    <3> QED BY <2>0, <2>k, <2>w, <3>1, <3>2, PasswordKept
  <2>5. CASE ResetSharePassword(r)
    <3>1. /\ UNCHANGED <<shares, minted, entry, knows>> /\ pc'[r] # "verified"
          /\ pc[r] = "reset" /\ req[r].route \in {"s", "s_form"}
          /\ cookies' \subseteq cookies \union {<<req[r].token, now + CookieLife>>}
      <4>1. pc[r] = "reset" /\ pc'[r] # "verified"
        BY <2>0, <2>5, LinkMoves DEF TypeOK
      <4> QED BY <2>5, <4>1 DEF ResetSharePassword
    <3>2. entry[r] # None
      BY <3>1 DEF TypeOK, ShareTypes
    <3>3. req[r].token \in Secrets => req[r].token \in knows
      BY <2>k, <3>1, <3>2 DEF Shown
    <3>4. req[r].token \in 0 .. minted
      BY <2>0, <1>s, Served DEF TypeOK, ShareTypes, RequestSet
    <3>5. \A c \in cookies' \ cookies :
            c[1] \in 0 .. minted /\ (c[1] \in Secrets => c[1] \in knows)
      BY <3>1, <3>3, <3>4
    <3> QED BY <2>0, <2>u, <2>k, <2>w, <3>1, <3>5, PasswordKept
  <2>6. CASE InsertShare(r)
    <3>1. /\ UNCHANGED <<cookies, knows>> /\ pc'[r] = "done" /\ minted' = minted + 1
          /\ DOMAIN shares' = DOMAIN shares \union {minted + 1}
          /\ \A t \in DOMAIN shares : t # minted + 1 => shares'[t] = shares[t]
          /\ \A s \in Slots : s # r => entry'[s] = entry[s]
          /\ req[r].route \notin {"s", "s_form"}
      BY <2>0, <2>6, <1>s, LinkMoves, Served DEF InsertShare, TypeOK, ShareTypes, Serves
    <3>2. \A t \in 0 .. minted : t \in 0 .. minted' /\ (t \in Secrets' => t \in Secrets)
      BY <1>s, <3>1 DEF Secrets
    <3> QED BY <2>0, <3>1, <3>2, PasswordKept
  <2>7. CASE ListShares(r)
    <3>1. /\ UNCHANGED <<shares, minted, cookies, knows>> /\ pc'[r] = "done"
          /\ \A s \in Slots : s # r => entry'[s] = entry[s]
          /\ req[r].route \notin {"s", "s_form"}
      <4>1. pc[r] = "handle" /\ pc'[r] = "done"
        BY <2>0, <2>7, LinkMoves DEF TypeOK
      <4>2. \A s \in Slots : s # r => entry'[s] = entry[s]
        BY <2>7 DEF ListShares, TypeOK, ShareTypes
      <4> QED BY <2>7, <4>1, <4>2 DEF ListShares
    <3> QED BY <2>0, <2>u, <3>1, PasswordKept
  <2>8. CASE RevokeShare(r)
    <3>1. /\ UNCHANGED <<minted, cookies, knows>> /\ pc'[r] = "done"
          /\ DOMAIN shares' \subseteq DOMAIN shares
          /\ \A t \in DOMAIN shares' : shares'[t] = shares[t]
          /\ \A s \in Slots : s # r => entry'[s] = entry[s]
          /\ req[r].route \notin {"s", "s_form"}
      <4>1. pc[r] = "handle" /\ pc'[r] = "done"
        BY <2>0, <2>8, LinkMoves DEF TypeOK
      <4>2. \A s \in Slots : s # r => entry'[s] = entry[s]
        BY <2>8 DEF RevokeShare, TypeOK, ShareTypes
      <4> QED BY <2>8, <4>1, <4>2 DEF RevokeShare, Restrict
    <3>2. \A t \in 0 .. minted : t \in 0 .. minted' /\ (t \in Secrets' => t \in Secrets)
      BY <1>s, <3>1 DEF Secrets
    <3> QED BY <2>0, <3>1, <3>2, PasswordKept
  <2> QED
    BY <2>0, <2>1, <2>2, <2>3, <2>4, <2>5, <2>6, <2>7, <2>8 DEF ShareStep
<1>3. ASSUME NEW r \in Slots, NEW q \in deployment.requests, Arrive(r, q) PROVE PasswordInv'
  <2>1. /\ UNCHANGED <<shares, minted, cookies, knows>> /\ pc' = [pc EXCEPT ![r] = "limit"]
        /\ entry'[r] = None /\ \A s \in Slots : s # r => req'[s] = req[s] /\ entry'[s] = entry[s]
    BY <1>3 DEF Arrive, TypeOK, RequestInv, ShareTypes
  <2>2. \A s \in Slots : s # r => pc'[s] = pc[s]
    BY <2>1 DEF TypeOK, RequestInv
  <2>3. Secrets' = Secrets /\ pc'[r] = "limit"
    BY <2>1 DEF Secrets, TypeOK, RequestInv
  <2> QED BY <2>1, <2>2, <2>3 DEF PasswordInv, Shown
<1>4. CASE Restart
  <2>1. /\ UNCHANGED <<shares, minted>> /\ cookies' = {} /\ pc' = [r \in Slots |-> "idle"]
    BY <1>4 DEF Restart, ForgetCookies, ForgetRequests
  <2> QED BY <2>1 DEF PasswordInv
<1>5. CASE Cleanup \/ Tick \/ UNCHANGED vars
  <2>1. UNCHANGED <<shares, minted, entry, cookies, knows, req, pc>>
    BY <1>5 DEF Cleanup, Tick, vars, shareVars, reqVars
  <2> QED BY <2>1 DEF PasswordInv, Secrets, Shown
<1> QED BY <1>1, <1>2, <1>3, <1>4, <1>5, StepCases DEF Steps

\* The file of a link with a password is opened, and its download counted, for
\* a request that shows this very password or brings a cookie, and then somebody
\* has shown the password of that link to this process (authorizeShare,
\* hasValidShareAccessCookie, signShareAccess).
THEOREM PasswordsProtect == Spec => []ProtectedNeedsPassword
<1>1. Init => PasswordInv
  <2>1. SUFFICES ASSUME Init PROVE PasswordInv
    OBVIOUS
  <2>2. cookies = {} /\ pc = [r \in Slots |-> "idle"]
    BY <2>1 DEF Init, InitShares, NoRequests
  <2> QED BY <2>2 DEF PasswordInv
<1>2. TypeOK /\ PasswordInv /\ [Next]_vars => PasswordInv'
  BY PasswordStep
<1>3. PasswordInv => ProtectedNeedsPassword
  BY DEF PasswordInv, ProtectedNeedsPassword, Downloading, Shown
<1> QED BY <1>1, <1>2, <1>3, TypesHold, PTL DEF Spec

-----------------------------------------------------------------------------
(* Refresh tokens.  One that was exchanged before it expired is known as   *)
(* used for as long as it would be good.                                   *)

RefreshInv ==
  /\ \A p \in PairIDs : rotated[p] > 0 =>
       /\ p <= Len(pairs) /\ rotated[p] = 1
       /\ now < pairs[p].refresh => p \in DOMAIN used /\ used[p] >= pairs[p].refresh
  /\ \A r \in Slots : pc[r] = "setnx" => now + ttl[r] >= pairs[req[r].pair].refresh

\* The clock goes on, pairs are issued, and used tokens are forgotten when they
\* have expired.
LEMMA RefreshKept ==
  ASSUME TypeOK, TypeOK', RefreshInv, now' >= now, Len(pairs') >= Len(pairs),
         \A p \in 1 .. Len(pairs) : pairs'[p] = pairs[p],
         rotated' = rotated,
         \A p \in DOMAIN used : used[p] > now => p \in DOMAIN used' /\ used'[p] = used[p],
         \A r \in Slots : pc'[r] = "setnx" =>
           pc[r] = "setnx" /\ req'[r] = req[r] /\ ttl'[r] = ttl[r]
  PROVE  RefreshInv'
<1>1. \A p \in 1 .. Len(pairs) : pairs[p] \in TokenPair
  BY DEF TypeOK, TokenTypes
<1>2. \A p \in 1 .. Len(pairs) : pairs[p].refresh \in Nat
  BY <1>1 DEF TokenPair
<1>3. /\ now \in Nat /\ now' \in Nat /\ Len(pairs) \in Nat /\ Len(pairs') \in Nat
      /\ \A p \in DOMAIN used : used[p] \in Int
  BY DEF TypeOK, RequestInv, TokenTypes
<1>4. ASSUME NEW p \in PairIDs, rotated'[p] > 0
      PROVE  /\ p <= Len(pairs') /\ rotated'[p] = 1
             /\ now' < pairs'[p].refresh => p \in DOMAIN used' /\ used'[p] >= pairs'[p].refresh
  <2>1. /\ p \in 1 .. Len(pairs) /\ rotated[p] = 1
        /\ now < pairs[p].refresh => p \in DOMAIN used /\ used[p] >= pairs[p].refresh
    BY <1>3, <1>4, TokensExpire DEF RefreshInv, PairIDs
  <2> QED BY <1>2, <1>3, <2>1
<1>5. ASSUME NEW r \in Slots, pc'[r] = "setnx"
      PROVE  now' + ttl'[r] >= pairs'[req'[r].pair].refresh
  <2>1. now + ttl[r] >= pairs[req[r].pair].refresh /\ req'[r] = req[r] /\ ttl'[r] = ttl[r]
    BY <1>5 DEF RefreshInv
  <2>2. req[r].pair \in 1 .. Len(pairs) /\ ttl[r] \in Int
    <3>1. WellPosed(req[r]) /\ req[r].route = "refresh" /\ req[r].pair <= Len(pairs)
      BY <1>5, Served DEF TypeOK, RequestInv, TokenTypes, Serves
    <3>2. req[r].pair \in Nat
      BY <3>1 DEF WellPosed, RequestSet
    <3>3. ttl[r] \in Int
      BY DEF TypeOK, TokenTypes
    <3> QED BY <1>3, <3>1, <3>2, <3>3 DEF WellPosed
  <2> QED BY <1>2, <1>3, <2>1, <2>2
<1> QED BY <1>4, <1>5 DEF RefreshInv

\* A claim succeeds for a token that is not known as used.
LEMMA RefreshClaimed ==
  ASSUME TypeOK, TypeOK', RefreshInv, NEW r \in Slots, NEW p \in 1 .. Len(pairs), NEW until \in Int,
         UNCHANGED <<now, pairs, ttl, req>>, pc' = [pc EXCEPT ![r] = pc'[r]], pc'[r] # "setnx",
         LET known == {q \in DOMAIN used : used[q] > now} IN
         /\ p \notin known
         /\ used' = [q \in known \union {p} |-> IF q = p THEN until ELSE used[q]],
         until >= pairs[p].refresh,
         \/ rotated' = rotated
         \/ rotated' = [rotated EXCEPT ![p] = @ + (IF now < pairs[p].refresh THEN 1 ELSE 0)]
  PROVE  RefreshInv'
<1>1. \A q \in 1 .. Len(pairs) : pairs[q] \in TokenPair
  BY DEF TypeOK, TokenTypes
<1>2. \A q \in 1 .. Len(pairs) : pairs[q].refresh \in Nat
  BY <1>1 DEF TokenPair
<1>3. /\ now \in Nat /\ Len(pairs) \in Nat /\ p \in PairIDs /\ Len(pairs) <= MaxPairs
      /\ \A q \in DOMAIN used : used[q] \in Int
      /\ rotated \in [PairIDs -> Nat]
  BY TokensExpire DEF TypeOK, RequestInv, TokenTypes, PairIDs
<1>4. ASSUME NEW q \in PairIDs, rotated'[q] > 0
      PROVE  /\ q <= Len(pairs) /\ rotated'[q] = 1
             /\ now < pairs[q].refresh => q \in DOMAIN used' /\ used'[q] >= pairs[q].refresh
  <2>1. CASE q # p
    <3>1. rotated[q] > 0 /\ rotated'[q] = rotated[q]
      BY <1>3, <1>4, <2>1
    <3>2. /\ q \in 1 .. Len(pairs) /\ rotated[q] = 1
          /\ now < pairs[q].refresh => q \in DOMAIN used /\ used[q] >= pairs[q].refresh
      BY <1>3, <3>1 DEF RefreshInv, PairIDs
    <3> QED BY <1>2, <1>3, <2>1, <3>1, <3>2
  <2>2. CASE q = p
    <3>1. now < pairs[p].refresh => rotated[p] = 0
      BY <1>2, <1>3 DEF RefreshInv
    <3>2. rotated'[p] = 1
      <4>1. rotated[p] > 0 => rotated[p] = 1
        BY <1>3 DEF RefreshInv
      <4>2. CASE now < pairs[p].refresh
        BY <1>3, <1>4, <2>2, <3>1, <4>2
      <4>3. CASE ~(now < pairs[p].refresh)
        BY <1>3, <1>4, <2>2, <4>1, <4>3
      <4> QED BY <4>2, <4>3
    <3> QED BY <1>2, <1>3, <2>2, <3>2
  <2> QED BY <2>1, <2>2
<1>5. ASSUME NEW s \in Slots, pc'[s] = "setnx"
      PROVE  pc[s] = "setnx"
  BY <1>5 DEF TypeOK, RequestInv
<1> QED BY <1>4, <1>5 DEF RefreshInv

LEMMA RefreshByToken ==
  ASSUME TypeOK, TypeOK', RefreshInv, NEW r \in Slots, TokenStep(r), UNCHANGED <<deployment, now>>
  PROVE  RefreshInv'
<1>0. /\ pc[r] # "idle" /\ req' = req /\ pc' = [pc EXCEPT ![r] = pc'[r]]
      /\ \A s \in Slots : s # r => pc'[s] = pc[s]
  BY TokenMoves, OthersStay DEF TypeOK
<1>p. pc[r] \in {"claim", "setnx", "issue"} => req[r].pair \in 1 .. Len(pairs)
  <2>1. pc[r] \in {"claim", "setnx", "issue"} => req[r].route = "refresh"
    BY <1>0, Served DEF TypeOK, Serves
  <2>2. req[r].route = "refresh" => req[r].pair \in 1 .. Len(pairs)
    <3>1. WellPosed(req[r]) /\ deployment \in Deployments /\ req[r].pair <= Len(pairs)
      BY <1>0, Served DEF TypeOK, RequestInv, TokenTypes
    <3>2. req[r] \in RequestSet
      BY <1>0, Served DEF TypeOK
    <3> QED BY <3>1, <3>2 DEF WellPosed, RequestSet
  <2> QED BY <2>1, <2>2
<1>n. /\ now \in Nat /\ Len(pairs) \in Nat /\ now >= now /\ Len(pairs) >= Len(pairs)
      /\ ttl \in [Slots -> Int]
      /\ \A p \in DOMAIN used : used[p] \in Int
      /\ \A p \in 1 .. Len(pairs) : pairs[p] \in TokenPair
  BY DEF TypeOK, RequestInv, TokenTypes
<1>r. \A p \in 1 .. Len(pairs) : pairs[p].refresh \in Nat
  BY <1>n DEF TokenPair
<1>u. ASSUME UNCHANGED <<pairs, used, ttl, rotated>>, pc'[r] # "setnx" PROVE RefreshInv'
  BY <1>0, <1>n, <1>u, RefreshKept
<1>i. ASSUME NEW user \in Users, Issue(user), UNCHANGED <<used, ttl, rotated>>, pc'[r] # "setnx"
      PROVE  RefreshInv'
  <2>1. Len(pairs') = Len(pairs) + 1 /\ \A p \in 1 .. Len(pairs) : pairs'[p] = pairs[p]
    BY <1>i, IssueKeeps DEF TypeOK
  <2> QED BY <1>0, <1>n, <1>i, <2>1, RefreshKept
<1>f. ASSUME used' = Restrict(used, {q \in DOMAIN used : used[q] > now}),
             UNCHANGED <<pairs, ttl, rotated>>, pc'[r] # "setnx"
      PROVE  RefreshInv'
  <2>1. \A p \in DOMAIN used : used[p] > now => p \in DOMAIN used' /\ used'[p] = used[p]
    BY <1>f DEF Restrict
  <2> QED BY <1>0, <1>n, <1>f, <2>1, RefreshKept
<1>1. CASE BeginLogin(r)
  BY <1>1, <1>u DEF BeginLogin, tokenVars, Goto, Respond, RespondNoting, TypeOK, RequestInv
<1>2. CASE ComparePassword(r)
  BY <1>2, <1>u, <1>i DEF ComparePassword, Goto, TypeOK, RequestInv
<1>3. CASE RecordLoginFailure(r)
  BY <1>3, <1>u DEF RecordLoginFailure, tokenVars, Respond, RespondNoting, TypeOK, RequestInv
<1>4. CASE ResetLogin(r)
  BY <1>4, <1>u DEF ResetLogin, tokenVars, Respond, RespondNoting, TypeOK, RequestInv
<1>5. CASE ParseRefresh(r)
  BY <1>5, <1>u DEF ParseRefresh, tokenVars, Goto, Respond, RespondNoting, TypeOK, RequestInv
<1>6. CASE ClaimInMemory(r)
  <2> DEFINE p == req[r].pair
             known == {q \in DOMAIN used : used[q] > now}
  <2>1. /\ p \in 1 .. Len(pairs) /\ UNCHANGED <<pairs, ttl>>
        /\ pairs[p].refresh \in Int /\ pairs[p].refresh >= pairs[p].refresh
    BY <1>6, <1>p, <1>r DEF ClaimInMemory
  <2>2. CASE p \in known
    BY <1>6, <1>f, <2>2 DEF ClaimInMemory, Respond, RespondNoting, TypeOK, RequestInv
  <2>3. CASE p \notin known
    <3>1. Claimed(r, p, known, pairs[p].refresh)
      BY <1>6, <2>3 DEF ClaimInMemory
    <3>2. pc'[r] # "setnx"
      BY <3>1 DEF Claimed, Goto, TypeOK, RequestInv
    <3> QED BY <1>0, <2>1, <2>3, <3>1, <3>2, RefreshClaimed DEF Claimed
  <2> QED BY <2>2, <2>3
<1>7. CASE ComputeTTL(r)
  <2> DEFINE left == pairs[req[r].pair].refresh - now
  <2>1. UNCHANGED <<pairs, used, rotated>> /\ req[r].pair \in 1 .. Len(pairs)
    BY <1>7, <1>p DEF ComputeTTL
  <2>2. CASE left <= 0
    BY <1>7, <1>u, <2>2 DEF ComputeTTL, Respond, RespondNoting, TypeOK, RequestInv
  <2>3. CASE ~(left <= 0)
    <3>1. ttl' = [ttl EXCEPT ![r] = left]
      BY <1>7, <2>3 DEF ComputeTTL
    <3>2. left \in Int /\ now + left = pairs[req[r].pair].refresh
      BY <1>n, <1>r, <2>1
    <3>3. \A s \in Slots : pc'[s] = "setnx" =>
            now + ttl'[s] >= pairs[req[s].pair].refresh
      <4>1. now + ttl'[r] >= pairs[req[r].pair].refresh
        BY <1>n, <1>r, <2>1, <3>1, <3>2
      <4>2. ASSUME NEW s \in Slots, s # r, pc'[s] = "setnx"
            PROVE  now + ttl'[s] >= pairs[req[s].pair].refresh
        BY <1>0, <1>n, <3>1, <4>2 DEF RefreshInv
      <4> QED BY <4>1, <4>2
    <3> QED BY <1>0, <2>1, <3>3 DEF RefreshInv
  <2> QED BY <2>2, <2>3
<1>8. CASE SetNX(r)
  <2> DEFINE p == req[r].pair
             known == {q \in DOMAIN used : used[q] > now}
             until == now + ttl[r]
             kept == used' = [q \in known \union {p} |-> IF q = p THEN until ELSE used[q]]
  <2>1. /\ p \in 1 .. Len(pairs) /\ UNCHANGED <<pairs, ttl>> /\ pc[r] = "setnx"
        /\ until \in Int
    BY <1>8, <1>p, <1>n DEF SetNX
  <2>2. until >= pairs[p].refresh
    BY <2>1 DEF RefreshInv
  <2>3. CASE p \notin known /\ Claimed(r, p, known, until)
    <3>1. pc'[r] # "setnx" /\ kept
      BY <2>3 DEF Claimed, Goto, TypeOK, RequestInv
    <3> QED BY <1>0, <2>1, <2>2, <2>3, <3>1, RefreshClaimed DEF Claimed
  <2>4. CASE Respond(r, 401) /\ used' = Restrict(used, known) /\ UNCHANGED rotated
    BY <1>f, <2>1, <2>4 DEF Respond, RespondNoting, TypeOK, RequestInv
  <2>5. CASE Respond(r, 401) /\ p \notin known /\ kept /\ UNCHANGED rotated
    <3>1. pc'[r] # "setnx"
      BY <2>5 DEF Respond, RespondNoting, TypeOK, RequestInv
    <3> QED BY <1>0, <2>1, <2>2, <2>5, <3>1, RefreshClaimed
  <2> QED BY <1>8, <2>3, <2>4, <2>5 DEF SetNX
<1>9. CASE IssueRefreshed(r)
  <2>1. pairs[req[r].pair] \in TokenPair
    BY <1>9, <1>p, <1>n DEF IssueRefreshed
  <2>2. pairs[req[r].pair].user \in Users
    BY <2>1 DEF TokenPair
  <2> QED BY <1>9, <1>i, <2>2 DEF IssueRefreshed, Respond, RespondNoting, TypeOK, RequestInv
<1>10. CASE Me(r)
  BY <1>10, <1>u DEF Me, tokenVars, Respond, RespondNoting, TypeOK, RequestInv
<1> QED
  BY <1>1, <1>2, <1>3, <1>4, <1>5, <1>6, <1>7, <1>8, <1>9, <1>10 DEF TokenStep

LEMMA RefreshStep == ASSUME TypeOK, RefreshInv, [Next]_vars PROVE RefreshInv'
<1>t. TypeOK'
  BY TypesStep
<1>n. /\ now \in Nat /\ now >= now /\ Len(pairs) \in Nat /\ Len(pairs) >= Len(pairs)
  BY DEF TypeOK, RequestInv, TokenTypes
<1>1. ASSUME NEW r \in Slots, Token(r) PROVE RefreshInv'
  BY <1>1, <1>t, RefreshByToken DEF Token, worldVars
<1>2. ASSUME UNCHANGED <<now, tokenVars>>,
             \A r \in Slots : pc'[r] = "setnx" => pc[r] = "setnx" /\ req'[r] = req[r]
      PROVE  RefreshInv'
  BY <1>2, <1>n, <1>t, RefreshKept DEF tokenVars
<1>3. ASSUME NEW r \in Slots, Share(r) PROVE RefreshInv'
  <2>1. UNCHANGED <<now, tokenVars>> /\ ShareStep(r)
    BY <1>3 DEF Share, worldVars
  <2>2. req' = req /\ pc' = [pc EXCEPT ![r] = pc'[r]] /\ pc'[r] # "setnx"
    BY <2>1, LinkMoves DEF TypeOK, ShareStep
  <2> QED BY <1>2, <2>1, <2>2 DEF TypeOK, RequestInv
<1>4. ASSUME NEW r \in Slots, Elsewhere(r), ~Token(r) PROVE RefreshInv'
  <2>1. UNCHANGED <<now, tokenVars>>
    BY <1>4 DEF Elsewhere, Limit, Auth, JWTValidate, ServeFile, ServeAdmin, ServeOther, worldVars
  <2>2. req' = req /\ pc' = [pc EXCEPT ![r] = pc'[r]]
    BY <1>4, ElsewhereMoves DEF TypeOK
  <2>3. pc'[r] # "setnx"
    <3>1. RateStep(r) => pc'[r] # "setnx"
      BY DEF RateStep, LookUpBucket, MakeBucket, TakeToken, Goto, Respond, RespondNoting,
             TypeOK, RequestInv
    <3>2. Auth(r) \/ JWTValidate(r) => pc'[r] # "setnx"
      BY WhoIsAsking DEF TypeOK
    <3>3. ServeFile(r) \/ ServeAdmin(r) \/ ServeOther(r) => pc'[r] # "setnx"
      BY DEF ServeFile, ServeAdmin, ServeOther, Respond, RespondNoting, TypeOK, RequestInv
    <3> QED BY <1>4, <3>1, <3>2, <3>3 DEF Elsewhere, Limit
  <2> QED BY <1>2, <2>1, <2>2, <2>3 DEF TypeOK, RequestInv
<1>5. ASSUME NEW r \in Slots, NEW q \in deployment.requests, Arrive(r, q) PROVE RefreshInv'
  <2>1. UNCHANGED <<now, tokenVars>>
    BY <1>5 DEF Arrive
  <2>2. \A s \in Slots : pc'[s] = "setnx" => pc[s] = "setnx" /\ req'[s] = req[s]
    BY <1>5 DEF Arrive, TypeOK, RequestInv
  <2> QED BY <1>2, <2>1, <2>2
<1>6. CASE Restart
  <2>1. UNCHANGED <<now, pairs>> /\ \A r \in Slots : pc'[r] = "idle"
    BY <1>6 DEF Restart, ForgetRequests, ForgetTokens
  <2>2. CASE UNCHANGED <<used, rotated>>
    BY <1>n, <1>t, <2>1, <2>2, RefreshKept
  <2>3. CASE rotated' = [p \in PairIDs |-> 0]
    BY <2>1, <2>3 DEF RefreshInv
  <2> QED BY <1>6, <2>2, <2>3 DEF Restart, ForgetTokens
<1>7. CASE Cleanup \/ Tick \/ UNCHANGED vars
  <2>1. UNCHANGED <<tokenVars, reqVars>> /\ now' >= now
    BY <1>7, <1>n DEF Cleanup, Tick, vars, worldVars
  <2> QED BY <1>n, <1>t, <2>1, RefreshKept DEF tokenVars, reqVars
<1> QED BY <1>1, <1>3, <1>4, <1>5, <1>6, <1>7, StepCases DEF Steps

\* A refresh token is exchanged once while it is good, by however many requests
\* at a time, across restarts where Redis keeps the used ones, and though the
\* answer of a SETNX may get lost (ClaimRefreshToken, consumeRefreshToken).
THEOREM RefreshesOnce == Spec => []RefreshOnce
<1>1. Init => RefreshInv
  <2>1. SUFFICES ASSUME Init PROVE RefreshInv
    OBVIOUS
  <2>2. rotated = [p \in PairIDs |-> 0] /\ pc = [r \in Slots |-> "idle"]
    BY <2>1 DEF Init, InitTokens, NoRequests
  <2> QED BY <2>2 DEF RefreshInv
<1>2. TypeOK /\ RefreshInv /\ [Next]_vars => RefreshInv'
  BY RefreshStep
<1>3. TypeOK /\ RefreshInv => RefreshOnce
  BY DEF RefreshInv, RefreshOnce, TypeOK, TokenTypes
<1> QED BY <1>1, <1>2, <1>3, TypesHold, PTL DEF Spec

-----------------------------------------------------------------------------
(* Identities.  The middleware decides who asks and which namespace is     *)
(* his; what a handler reaches and what the audit writes is bound to both. *)

Before == {"limit", "new_bucket", "take", "auth", "jwt"}
Owners == {"share_create", "share_list", "share_revoke"}

IdentityInv == \A r \in Slots : pc[r] # "idle" =>
  /\ pc[r] \in Before => ctx[r].claims = None /\ entry[r] = None
  /\ ctx[r].claims = None => ctx[r].actor \in {"anonymous", "static-token"}
  /\ ctx[r].claims # None => ctx[r].actor = pairs[ctx[r].claims].user
  /\ ctx[r].claims # None /\ ctx[r].actor \notin Admins => ctx[r].space = UserSpace[ctx[r].actor]
  /\ deployment.jwt /\ deployment.enforce /\ req[r].route \notin Public /\ ctx[r].claims = None =>
       pc[r] \in Before \/ (pc[r] = "done" /\ ctx[r].code \notin 200 .. 206)
  /\ pc[r] = "done" /\ ctx[r].code \in 200 .. 206 /\ req[r].route \in {"stat", "trash"} =>
       FileSpace[req[r].file] = ctx[r].space
  /\ req[r].route \in Owners /\ entry[r] # None => entry[r].space = ctx[r].space

\* What the log holds of a request that has been answered with status, made by
\* actor, and the one entry that must be among those due.
Truthful(actor, status, entries) ==
  \A e \in entries : e.who = actor /\ (e.action = "access_denied" => status \in Denials)
Covered(status, route, entries) ==
  status \in Denials \union {429} \/ (status \in 200 .. 206 /\ route \in Mutations) =>
    \E e \in entries : status \in Denials => e.action = "access_denied"

AuditInv == \A r \in Slots : pc[r] = "done" =>
  /\ ctx[r].noted \subseteq ctx[r].due
  /\ Truthful(ctx[r].actor, ctx[r].code, ctx[r].due)
  /\ Covered(ctx[r].code, req[r].route, ctx[r].due)

\* What an answer has to respect.
Its(r, entries) == \A e \in entries : e.who = ctx[r].actor /\ e.action # "access_denied"

Proper(r, status, entries) ==
  /\ Its(r, entries)
  /\ status \in 200 .. 206 =>
       /\ pc[r] \notin Before
       /\ req[r].route \in {"stat", "trash"} => FileSpace[req[r].file] = ctx[r].space
       /\ req[r].route \in {"share_create", "share_revoke"} => entries # {}

AnswersProperly(r) ==
  \E status \in Nat, entries \in SUBSET Note :
    RespondNoting(r, status, entries) /\ Proper(r, status, entries)

GoesOnProperly(r) ==
  \E place \in Places \ {"idle", "done"} : Goto(r, place) /\ (place \in Before <=> pc[r] \in Before)

LEMMA AuditAnswer ==
  ASSUME TypeOK, NEW r \in Slots, pc[r] # "idle", AnswersProperly(r)
  PROVE  /\ ctx'[r].noted \subseteq ctx'[r].due
         /\ Truthful(ctx'[r].actor, ctx'[r].code, ctx'[r].due)
         /\ Covered(ctx'[r].code, req[r].route, ctx'[r].due)
<1>1. PICK status \in Nat, entries \in SUBSET Note :
        RespondNoting(r, status, entries) /\ Proper(r, status, entries)
  BY DEF AnswersProperly
<1> DEFINE action == AuditAction(req[r], status)
           own == IF action = None THEN {} ELSE {Entry(r, action, ctx[r].space)}
<1>2. /\ ctx'[r].code = status /\ ctx'[r].due = entries \union own /\ ctx'[r].actor = ctx[r].actor
      /\ ctx'[r].noted \subseteq entries \union own
  BY <1>1 DEF RespondNoting, TypeOK, RequestInv, Context
<1>3. Entry(r, action, ctx[r].space).who = ctx[r].actor /\ Entry(r, action, ctx[r].space).action = action
  BY DEF Entry
<1>4. action = "access_denied" <=> status \in Denials
  BY NoneIsNoValue DEF AuditAction, Denials, AuditActions
<1>5. status \in Denials \union {429} \/ (req[r].route \in {"login", "refresh", "trash"}) => action # None
  BY NoneIsNoValue DEF AuditAction, AuditActions, Denials
<1>6. status \in 200 .. 206 /\ req[r].route \in Mutations =>
        action # None \/ entries # {}
  BY <1>1, <1>5 DEF Mutations, Proper
<1> HIDE DEF action
<1>7. Truthful(ctx[r].actor, status, entries \union own)
  BY <1>1, <1>3, <1>4 DEF Truthful, Proper, Its
<1>8. Covered(status, req[r].route, entries \union own)
  <2>1. CASE action # None
    BY <1>3, <1>4, <2>1 DEF Covered
  <2>2. CASE action = None
    <3>1. status \notin Denials \union {429}
      BY <1>5, <2>2
    <3> QED BY <1>6, <2>2, <3>1 DEF Covered
  <2> QED BY <2>1, <2>2
<1> QED BY <1>2, <1>7, <1>8

\* A handler that moves within the middleware, or within its route, or answers.
LEMMA IdentityKept ==
  ASSUME TypeOK, IdentityInv, NEW r \in Slots, pc[r] \notin {"idle", "done"},
         UNCHANGED <<deployment, req>>, \A p \in 1 .. Len(pairs) : pairs'[p] = pairs[p],
         \A s \in Slots : s # r => pc'[s] = pc[s] /\ ctx'[s] = ctx[s] /\ entry'[s] = entry[s],
         /\ ctx'[r].claims = ctx[r].claims /\ ctx'[r].actor = ctx[r].actor
         /\ ctx'[r].space = ctx[r].space,
         pc'[r] \in Before => pc[r] \in Before /\ entry'[r] = entry[r],
         \/ pc[r] \notin Before \/ pc'[r] \in Before
         \/ pc'[r] = "done" /\ ctx'[r].code \notin 200 .. 206,
         pc'[r] = "done" /\ ctx'[r].code \in 200 .. 206 /\ req[r].route \in {"stat", "trash"} =>
           pc[r] \notin Before /\ FileSpace[req[r].file] = ctx[r].space,
         req[r].route \in Owners /\ entry'[r] # None => entry'[r].space = ctx[r].space
  PROVE  IdentityInv'
<1>1. \A s \in Slots : ctx[s].claims # None => pairs'[ctx[s].claims] = pairs[ctx[s].claims]
  BY DEF TypeOK, TokenTypes
<1> QED BY <1>1 DEF IdentityInv

LEMMA IdentityMove ==
  ASSUME TypeOK, IdentityInv, AuditInv, NEW r \in Slots, pc[r] \notin {"idle", "done"},
         UNCHANGED deployment, \A p \in 1 .. Len(pairs) : pairs'[p] = pairs[p],
         \A s \in Slots : s # r => entry'[s] = entry[s],
         pc[r] \in Before => entry'[r] = entry[r],
         req[r].route \in Owners /\ entry'[r] # None => entry'[r].space = ctx[r].space,
         GoesOnProperly(r) \/ AnswersProperly(r)
  PROVE  IdentityInv' /\ AuditInv'
<1>1. CASE GoesOnProperly(r)
  <2>1. PICK place \in Places \ {"idle", "done"} :
          Goto(r, place) /\ (place \in Before <=> pc[r] \in Before)
    BY <1>1 DEF GoesOnProperly
  <2>2. req' = req /\ ctx' = ctx /\ pc' = [pc EXCEPT ![r] = place]
    BY <2>1 DEF Goto
  <2>3. \A s \in Slots : s # r => pc'[s] = pc[s] /\ ctx'[s] = ctx[s] /\ entry'[s] = entry[s]
    BY <2>2 DEF TypeOK, RequestInv
  <2>4. pc'[r] = place /\ ctx'[r] = ctx[r]
    BY <2>2 DEF TypeOK, RequestInv
  <2>5. IdentityInv'
    BY <2>1, <2>2, <2>3, <2>4, IdentityKept
  <2>6. AuditInv'
    BY <2>1, <2>2, <2>3, <2>4 DEF AuditInv
  <2> QED BY <2>5, <2>6
<1>2. CASE AnswersProperly(r)
  <2>1. PICK status \in Nat, entries \in SUBSET Note :
          RespondNoting(r, status, entries) /\ Proper(r, status, entries)
    BY <1>2 DEF AnswersProperly
  <2>2. Answers(r)
    BY <2>1, AnswerIsAnswer
  <2>3. /\ req' = req /\ \A s \in Slots : s # r => pc'[s] = pc[s] /\ ctx'[s] = ctx[s]
        /\ ctx'[r].claims = ctx[r].claims /\ ctx'[r].actor = ctx[r].actor
        /\ ctx'[r].space = ctx[r].space
    <3>1. /\ req' = req /\ pc' = [pc EXCEPT ![r] = pc'[r]]
          /\ \A s \in Slots : s # r => pc'[s] = pc[s] /\ ctx'[s] = ctx[s]
      BY <2>2, OthersStay DEF TypeOK
    <3>2. /\ ctx'[r].claims = ctx[r].claims /\ ctx'[r].actor = ctx[r].actor
          /\ ctx'[r].space = ctx[r].space
      BY <2>2, OthersStay DEF TypeOK
    <3> QED BY <3>1, <3>2
  <2>4. pc'[r] = "done" /\ ctx'[r].code = status
    BY <2>1 DEF RespondNoting, TypeOK, RequestInv, Context
  <2>5. IdentityInv'
    BY <2>1, <2>3, <2>4, IdentityKept DEF Proper, Before
  <2>6. AuditInv'
    BY <1>2, <2>3, <2>4, AuditAnswer DEF AuditInv
  <2> QED BY <2>5, <2>6
<1> QED BY <1>1, <1>2

LEMMA ProperAnswers ==
  ASSUME NEW r \in Slots
  PROVE  /\ \A status \in Nat, entries \in SUBSET Note :
              RespondNoting(r, status, entries) /\ Proper(r, status, entries) => AnswersProperly(r)
         /\ \A status \in Nat : Respond(r, status) /\ Proper(r, status, {}) => AnswersProperly(r)
         /\ \A status \in Nat : Respond(r, status) /\ status \notin 200 .. 206 => AnswersProperly(r)
<1>1. {} \in SUBSET Note
  OBVIOUS
<1> QED BY <1>1 DEF AnswersProperly, Respond, Proper, Its

LEMMA LimitProperly ==
  ASSUME TypeOK, NEW r \in Slots, RateStep(r)
  PROVE  pc[r] \in Before /\ (GoesOnProperly(r) \/ AnswersProperly(r))
<1> USE ProperAnswers DEF GoesOnProperly, Places, Before
<1>1. CASE LookUpBucket(r)
  BY <1>1 DEF LookUpBucket
<1>2. CASE MakeBucket(r)
  BY <1>2 DEF MakeBucket
<1>3. CASE TakeToken(r)
  <2>1. pc[r] = "take" /\ (Goto(r, "auth") \/ Respond(r, 429))
    BY <1>3 DEF TakeToken
  <2> QED BY <2>1
<1> QED BY <1>1, <1>2, <1>3 DEF RateStep

LEMMA TokenProperly ==
  ASSUME TypeOK, NEW r \in Slots, TokenStep(r)
  PROVE  pc[r] \notin Before \union {"idle", "done"} /\ (GoesOnProperly(r) \/ AnswersProperly(r))
         /\ req[r].route \notin Owners
<1>0. req[r].route \in {"login", "refresh", "me"}
        /\ pc[r] \in {"handle", "login", "failed", "reset", "claim", "setnx", "issue"}
  <2>1. pc[r] \in {"handle", "login", "failed", "reset", "claim", "setnx", "issue"}
    BY DEF TokenStep, BeginLogin, ComparePassword, RecordLoginFailure, ResetLogin,
           ParseRefresh, ClaimInMemory, ComputeTTL, SetNX, IssueRefreshed, Me
  <2>2. req[r].route \in Serves(pc[r])
    BY <2>1, Served DEF TypeOK
  <2>3. pc[r] \in {"handle", "failed", "reset"} => req[r].route \in {"login", "refresh", "me"}
    BY DEF TokenStep, BeginLogin, ComparePassword, RecordLoginFailure, ResetLogin,
           ParseRefresh, ClaimInMemory, ComputeTTL, SetNX, IssueRefreshed, Me
  <2>4. pc[r] = "login" => req[r].route = "login"
    BY <2>2 DEF Serves
  <2>5. pc[r] \in {"claim", "setnx", "issue"} => req[r].route = "refresh"
    BY <2>2 DEF Serves
  <2> QED BY <2>1, <2>3, <2>4, <2>5
<1>1. \A status \in Nat : Proper(r, status, {})
  BY <1>0 DEF Proper, Its, Before
<1>2. \/ \E place \in {"login", "failed", "reset", "claim", "setnx", "issue"} : Goto(r, place)
      \/ \E status \in Nat : Respond(r, status)
  BY DEF TokenStep, BeginLogin, ComparePassword, RecordLoginFailure, ResetLogin,
         ParseRefresh, ClaimInMemory, ComputeTTL, SetNX, IssueRefreshed, Me, Claimed
<1>3. pc[r] \notin Before \union {"idle", "done"} /\ req[r].route \notin Owners
  BY <1>0 DEF Before, Owners
<1>4. CASE \E place \in {"login", "failed", "reset", "claim", "setnx", "issue"} : Goto(r, place)
  BY <1>3, <1>4 DEF GoesOnProperly, Places, Before
<1>5. CASE \E status \in Nat : Respond(r, status)
  <2>1. PICK status \in Nat : Respond(r, status)
    BY <1>5
  <2> QED BY <1>1, <1>3, <2>1, ProperAnswers
<1> QED BY <1>2, <1>3, <1>4, <1>5

LEMMA ShareProperly ==
  ASSUME TypeOK, NEW r \in Slots, ShareStep(r)
  PROVE  /\ pc[r] \notin Before \union {"idle", "done"} /\ (GoesOnProperly(r) \/ AnswersProperly(r))
         /\ \A s \in Slots : s # r => entry'[s] = entry[s]
         /\ \/ req[r].route \notin Owners \/ entry'[r] = entry[r] \/ entry'[r] = None
            \/ entry'[r].space = ctx[r].space
<1>0. pc[r] \notin Before \union {"idle", "done"}
  BY LinkMoves DEF TypeOK, ShareStep, Before
<1>g. ASSUME NEW place \in {"compare", "verified", "failed", "reset", "consume", "open", "insert_share"},
             Goto(r, place)
      PROVE  GoesOnProperly(r)
  BY <1>0, <1>g DEF GoesOnProperly, Places, Before
<1>n. /\ {} \in SUBSET Note /\ {Failed(r)} \in SUBSET Note /\ {Throttled(r)} \in SUBSET Note
      /\ \A action \in AuditActions : {Entry(r, action, ctx[r].space)} \in SUBSET Note
      /\ entry[r] # None => {Entry(r, "share_download", entry[r].space)} \in SUBSET Note
  BY ShareNotes DEF TypeOK
<1>o. \A action, where : action # "access_denied" => Its(r, {Entry(r, action, where)})
  BY DEF Entry, Its
<1>i. Its(r, {}) /\ Its(r, {Failed(r)}) /\ Its(r, {Throttled(r)})
  BY <1>o DEF Failed, Throttled, Its
<1>p. \A status, entries : req[r].route \in {"s", "s_form", "share_list"} /\ Its(r, entries) =>
        Proper(r, status, entries)
  BY <1>0 DEF Proper
<1>r. \A verdict : Refusal(verdict) \in {404, 410, 401}
  BY DEF Refusal
<1>x. \A verdict : Refuse(r, verdict) => AnswersProperly(r)
  BY <1>r, ProperAnswers DEF Refuse
<1>q. pc[r] \in {"compare", "verified", "consume", "open"} => req[r].route \in {"s", "s_form"}
  BY Served DEF TypeOK, Serves
<1>e. TypeOK => entry \in [Slots -> ShareRow \union {None}]
  BY DEF TypeOK, ShareTypes
<1>1. CASE BeginAccess(r)
  <2>1. /\ entry' = entry /\ req[r].route \in {"s", "s_form"}
        /\ \/ Goto(r, "compare") \/ Goto(r, "verified")
           \/ \E verdict : Refuse(r, verdict)
           \/ \E entries \in {{}, {Throttled(r)}} : RespondNoting(r, 429, entries)
    BY <1>1 DEF BeginAccess, shareVars
  <2> QED BY <1>0, <1>g, <1>i, <1>n, <1>p, <1>x, <2>1, ProperAnswers
<1>2. CASE CompareSharePassword(r)
  <2>1. /\ pc[r] \in {"compare", "verified"}
        /\ \A s \in Slots : s # r => entry'[s] = entry[s]
        /\ \/ Goto(r, "reset") \/ Goto(r, "consume") \/ Goto(r, "failed")
           \/ \E verdict : Refuse(r, verdict)
    BY <1>2, <1>e DEF CompareSharePassword
  <2>2. req[r].route \notin Owners
    BY <1>q, <2>1 DEF Owners
  <2> QED BY <1>0, <1>g, <1>x, <2>1, <2>2
<1>3. CASE RecordShareFailure(r)
  <2>1. /\ entry' = entry /\ req[r].route \in {"s", "s_form"}
        /\ \E status \in {401, 429}, entries \in {{Throttled(r)}, {Failed(r)}} :
             RespondNoting(r, status, entries)
    BY <1>3 DEF RecordShareFailure, shareVars
  <2>2. PICK status \in {401, 429}, entries \in {{Throttled(r)}, {Failed(r)}} :
          RespondNoting(r, status, entries)
    BY <2>1
  <2>3. Proper(r, status, entries) /\ entries \in SUBSET Note
    BY <1>i, <1>n, <1>p, <2>1
  <2> QED BY <1>0, <2>1, <2>2, <2>3, ProperAnswers DEF Owners
<1>4. CASE ConsumeDownload(r)
  <2>1. entry' = entry /\ (Goto(r, "reset") \/ Goto(r, "open") \/ Refuse(r, "exhausted"))
    BY <1>4 DEF ConsumeDownload
  <2> QED BY <1>0, <1>g, <1>x, <2>1
<1>5. CASE ResetSharePassword(r)
  <2>1. entry' = entry /\ (Goto(r, "open") \/ Respond(r, 303))
    BY <1>5 DEF ResetSharePassword
  <2> QED BY <1>0, <1>g, <2>1, ProperAnswers
<1>6. CASE OpenShared(r)
  <2>1. pc[r] = "open" /\ entry[r] # None /\ entry' = entry
    BY <1>6 DEF OpenShared, TypeOK, ShareTypes
  <2>2. \/ \E status \in {416, 404} : Respond(r, status)
        \/ \E status \in {200, 206} :
              RespondNoting(r, status, {Entry(r, "share_download", entry[r].space)})
    BY <1>6 DEF OpenShared
  <2>3. {Entry(r, "share_download", entry[r].space)} \in SUBSET Note
    BY <1>n, <2>1
  <2>4. req[r].route \in {"s", "s_form"}
    BY <1>q, <2>1
  <2>5. Its(r, {}) /\ Its(r, {Entry(r, "share_download", entry[r].space)})
    BY <1>i, <1>o
  <2> QED BY <1>0, <1>p, <2>1, <2>2, <2>3, <2>4, <2>5, ProperAnswers
<1>7. CASE CheckShared(r)
  <2>1. entry' = entry /\ (Goto(r, "insert_share") \/ Respond(r, 403) \/ Respond(r, 404))
    BY <1>7 DEF CheckShared, shareVars
  <2> QED BY <1>0, <1>g, <2>1, ProperAnswers
<1>8. CASE InsertShare(r)
  <2>1. /\ RespondNoting(r, 201, {Entry(r, "share_create", ctx[r].space)})
        /\ \A s \in Slots : s # r => entry'[s] = entry[s]
        /\ entry'[r].space = ctx[r].space
    BY <1>8, <1>e DEF InsertShare
  <2>2. req[r].route = "share_create" /\ {Entry(r, "share_create", ctx[r].space)} \in SUBSET Note
    BY <1>8, <1>n, Served DEF InsertShare, TypeOK, Serves, AuditActions
  <2>3. Proper(r, 201, {Entry(r, "share_create", ctx[r].space)})
    BY <1>0, <1>o, <2>2 DEF Proper
  <2> QED BY <1>0, <2>1, <2>2, <2>3, ProperAnswers
<1>9. CASE ListShares(r)
  <2>1. /\ Respond(r, 200) /\ req[r].route = "share_list"
        /\ \A s \in Slots : s # r => entry'[s] = entry[s]
        /\ entry'[r] = None \/ entry'[r].space = ctx[r].space
    BY <1>9, <1>e DEF ListShares
  <2> QED BY <1>0, <1>i, <1>p, <2>1, ProperAnswers
<1>10. CASE RevokeShare(r)
  <2> DEFINE t == req[r].token
  <2>1. CASE t \in DOMAIN shares /\ shares[t].space = ctx[r].space
    <3>1. /\ RespondNoting(r, 204, {Entry(r, "share_revoke", ctx[r].space)})
          /\ \A s \in Slots : s # r => entry'[s] = entry[s]
          /\ entry'[r].space = ctx[r].space /\ req[r].route = "share_revoke"
      BY <1>10, <1>e, <2>1 DEF RevokeShare
    <3>2. {Entry(r, "share_revoke", ctx[r].space)} \in SUBSET Note
      BY <1>n DEF AuditActions
    <3>3. Proper(r, 204, {Entry(r, "share_revoke", ctx[r].space)})
      BY <1>0, <1>o, <3>1 DEF Proper
    <3> QED BY <1>0, <3>1, <3>2, <3>3, ProperAnswers
  <2>2. CASE ~(t \in DOMAIN shares /\ shares[t].space = ctx[r].space)
    <3>1. Respond(r, 404) /\ entry' = entry
      BY <1>10, <2>2 DEF RevokeShare
    <3> QED BY <1>0, <3>1, ProperAnswers
  <2> QED BY <2>1, <2>2
<1> QED
  BY <1>1, <1>2, <1>3, <1>4, <1>5, <1>6, <1>7, <1>8, <1>9, <1>10 DEF ShareStep

LEMMA IdentityByMiddleware ==
  ASSUME TypeOK, IdentityInv, AuditInv, NEW r \in Slots, Auth(r) \/ JWTValidate(r)
  PROVE  IdentityInv' /\ AuditInv'
<1>0. /\ pc[r] \in {"auth", "jwt"} /\ req' = req /\ pc' = [pc EXCEPT ![r] = pc'[r]]
      /\ \A s \in Slots : s # r => ctx'[s] = ctx[s] /\ pc'[s] = pc[s]
      /\ UNCHANGED <<deployment, pairs, entry>>
  <2>1. pc[r] \in {"auth", "jwt"}
    BY DEF Auth, JWTValidate
  <2>2. UNCHANGED <<deployment, pairs, entry>>
    BY DEF Auth, JWTValidate, tokenVars, worldVars, shareVars
  <2>3. req' = req /\ pc' = [pc EXCEPT ![r] = pc'[r]] /\ \A s \in Slots : s # r => ctx'[s] = ctx[s]
    BY WhoIsAsking DEF TypeOK
  <2>4. \A s \in Slots : s # r => pc'[s] = pc[s]
    BY <2>3 DEF TypeOK, RequestInv
  <2> QED BY <2>1, <2>2, <2>3, <2>4
<1>1. ctx[r].claims = None /\ entry[r] = None /\ ctx[r].actor \in {"anonymous", "static-token"}
  BY <1>0 DEF IdentityInv, Before
<1>2. CASE \E status \in {401, 403} : Respond(r, status)
  <2>1. AnswersProperly(r)
    BY <1>2, ProperAnswers
  <2> QED BY <1>0, <1>1, <2>1, IdentityMove
<1>3. CASE /\ pc[r] = "auth" /\ pc' = [pc EXCEPT ![r] = "jwt"]
           /\ ctx' \in {ctx, [ctx EXCEPT ![r].service = TRUE, ![r].actor = "static-token"]}
  <2>1. ctx'[r].claims = None /\ ctx'[r].actor \in {"anonymous", "static-token"}
    BY <1>1, <1>3 DEF TypeOK, RequestInv, Context
  <2>2. pc'[r] = "jwt"
    BY <1>3 DEF TypeOK, RequestInv
  <2>3. IdentityInv'
    BY <1>0, <1>1, <2>1, <2>2 DEF IdentityInv, Before
  <2>4. AuditInv'
    BY <1>0, <2>2 DEF AuditInv
  <2> QED BY <2>3, <2>4
<1>4. ASSUME NEW p, p = None \/ p \in 1 .. Len(pairs), pc[r] = "jwt",
             p = None => ~(deployment.jwt /\ deployment.enforce /\ req[r].route \notin Public),
             pc' = [pc EXCEPT ![r] = "handle"],
             ctx' = [ctx EXCEPT ![r].claims = p, ![r].space = SpaceOf(req[r], p),
                               ![r].actor = IF p = None THEN @ ELSE pairs[p].user]
      PROVE  IdentityInv' /\ AuditInv'
  <2>1. /\ ctx'[r].claims = p /\ ctx'[r].space = SpaceOf(req[r], p)
        /\ ctx'[r].actor = IF p = None THEN ctx[r].actor ELSE pairs[p].user
    BY <1>4 DEF TypeOK, RequestInv, Context
  <2>2. p # None /\ pairs[p].user \notin Admins => SpaceOf(req[r], p) = UserSpace[pairs[p].user]
    BY DEF SpaceOf, IsAdmin
  <2>3. pc'[r] = "handle"
    BY <1>4 DEF TypeOK, RequestInv
  <2>4. /\ entry'[r] = None /\ pc'[r] \notin Before \union {"done"}
        /\ p = None => ctx'[r].actor \in {"anonymous", "static-token"}
        /\ p # None => ctx'[r].actor = pairs[p].user
        /\ p # None /\ ctx'[r].actor \notin Admins => ctx'[r].space = UserSpace[ctx'[r].actor]
    BY <1>0, <1>1, <2>1, <2>2, <2>3 DEF Before
  <2>5. ASSUME NEW s \in Slots, s = r, pc'[s] # "idle"
        PROVE  /\ ctx'[s].claims = None => ctx'[s].actor \in {"anonymous", "static-token"}
               /\ ctx'[s].claims # None => ctx'[s].actor = pairs'[ctx'[s].claims].user
               /\ ctx'[s].claims # None /\ ctx'[s].actor \notin Admins =>
                    ctx'[s].space = UserSpace[ctx'[s].actor]
               /\ ~(deployment'.jwt /\ deployment'.enforce /\ req'[s].route \notin Public
                    /\ ctx'[s].claims = None)
    BY <1>0, <1>4, <2>1, <2>4, <2>5
  <2>6. IdentityInv'
    BY <1>0, <2>4, <2>5 DEF IdentityInv
  <2>7. AuditInv'
    BY <1>0, <2>3 DEF AuditInv
  <2> QED BY <2>6, <2>7
<1>5. CASE Auth(r)
  <2> DEFINE asked == deployment.static /\ req[r].route \notin Public
             served == [ctx EXCEPT ![r].service = TRUE, ![r].actor = "static-token"]
  <2>1. \/ \E status \in {401, 403} : Respond(r, status)
        \/ /\ pc[r] = "auth" /\ pc' = [pc EXCEPT ![r] = "jwt"]
           /\ ctx' = IF asked THEN served ELSE ctx
    <3>1. CASE asked /\ req[r].static \in {None, "wrong"}
      <4>1. Respond(r, 401) \/ Respond(r, 403)
        BY <1>5, <3>1 DEF Auth
      <4> QED BY <4>1
    <3>2. CASE ~(asked /\ req[r].static \in {None, "wrong"})
      BY <1>5, <3>2 DEF Auth
    <3> QED BY <3>1, <3>2
  <2> HIDE DEF asked, served
  <2>2. (IF asked THEN served ELSE ctx) \in {ctx, served}
    OBVIOUS
  <2> QED BY <1>2, <1>3, <2>1, <2>2 DEF served
<1>6. CASE JWTValidate(r)
  <2> DEFINE bearer == IF deployment.jwt THEN Bearer(req[r]) ELSE "absent"
             p == IF bearer = "valid" THEN req[r].pair ELSE None
  <2>1. CASE Respond(r, 401)
    BY <1>2, <2>1
  <2>2. CASE ~Respond(r, 401)
    <3>1. p = None \/ p \in 1 .. Len(pairs)
      BY DEF Bearer, ValidAccess, TypeOK, TokenTypes
    <3>2. p = None => ~(deployment.jwt /\ deployment.enforce /\ req[r].route \notin Public)
      <4>1. bearer \in {"absent", "valid", "invalid"}
        BY DEF Bearer
      <4>2. bearer = "valid" => p # None
        BY NoneIsNoValue DEF Bearer, ValidAccess, TypeOK, TokenTypes
      <4> QED BY <1>6, <2>2, <4>1, <4>2 DEF JWTValidate
    <3>3. /\ pc[r] = "jwt" /\ pc' = [pc EXCEPT ![r] = "handle"]
          /\ ctx' = [ctx EXCEPT ![r].claims = p, ![r].space = SpaceOf(req[r], p),
                                ![r].actor = IF p = None THEN @ ELSE pairs[p].user]
      BY <1>6, <2>2 DEF JWTValidate
    <3> HIDE DEF p
    <3> QED BY <1>4, <3>1, <3>2, <3>3
  <2> QED BY <2>1, <2>2
<1> QED BY <1>5, <1>6

LEMMA PairsStay ==
  ASSUME TypeOK, NEW r \in Slots, TokenStep(r)
  PROVE  \A p \in 1 .. Len(pairs) : pairs'[p] = pairs[p]
<1>1. CASE ComparePassword(r)
  BY <1>1, IssueKeeps DEF ComparePassword, TypeOK
<1>2. CASE IssueRefreshed(r)
  <2>1. WellPosed(req[r]) /\ req[r].route = "refresh"
    BY <1>2, Served DEF TypeOK, IssueRefreshed, Serves
  <2>2. req[r].pair \in 1 .. Len(pairs)
    <3>1. req[r].pair <= Len(pairs) /\ Len(pairs) \in Nat
      BY <1>2 DEF TypeOK, RequestInv, TokenTypes, IssueRefreshed
    <3>2. req[r].pair \in Nat /\ req[r].pair > 0
      BY <2>1 DEF WellPosed, RequestSet
    <3> QED BY <3>1, <3>2
  <2>3. pairs[req[r].pair] \in TokenPair
    BY <2>2 DEF TypeOK, TokenTypes
  <2>4. pairs[req[r].pair].user \in Users
    BY <2>3 DEF TokenPair
  <2> QED BY <1>2, <2>4, IssueKeeps DEF IssueRefreshed, TypeOK
<1>3. CASE ~ComparePassword(r) /\ ~IssueRefreshed(r)
  BY <1>3 DEF TokenStep, BeginLogin, RecordLoginFailure, ResetLogin, ParseRefresh, ClaimInMemory,
              ComputeTTL, SetNX, Me, Claimed, tokenVars
<1> QED BY <1>1, <1>2, <1>3

LEMMA IdentityStep ==
  ASSUME TypeOK, IdentityInv, AuditInv, [Next]_vars PROVE IdentityInv' /\ AuditInv'
<1>1. ASSUME NEW r \in Slots, Limit(r) PROVE IdentityInv' /\ AuditInv'
  <2>1. RateStep(r) /\ UNCHANGED <<deployment, pairs, entry>>
    BY <1>1 DEF Limit, shareVars, tokenVars, worldVars
  <2>2. entry[r] = None /\ pc[r] \notin {"idle", "done"}
    BY <2>1, LimitProperly DEF IdentityInv, Before
  <2> QED BY <2>1, <2>2, LimitProperly, IdentityMove
<1>2. ASSUME NEW r \in Slots, Token(r) PROVE IdentityInv' /\ AuditInv'
  <2>1. TokenStep(r) /\ UNCHANGED <<deployment, now, entry>>
    BY <1>2 DEF Token, shareVars, worldVars
  <2>2. \A p \in 1 .. Len(pairs) : pairs'[p] = pairs[p]
    BY <2>1, PairsStay
  <2> QED BY <2>1, <2>2, TokenProperly, IdentityMove
<1>3. ASSUME NEW r \in Slots, Share(r) PROVE IdentityInv' /\ AuditInv'
  <2>1. ShareStep(r) /\ UNCHANGED <<deployment, pairs>>
    BY <1>3 DEF Share, tokenVars, worldVars
  <2>2. req[r].route \in Owners /\ entry'[r] # None => entry'[r].space = ctx[r].space
    BY <2>1, ShareProperly DEF IdentityInv
  <2> QED BY <2>1, <2>2, ShareProperly, IdentityMove
<1>4. ASSUME NEW r \in Slots, Auth(r) \/ JWTValidate(r) PROVE IdentityInv' /\ AuditInv'
  BY <1>4, IdentityByMiddleware
<1>5. ASSUME NEW r \in Slots, ServeFile(r) \/ ServeAdmin(r) \/ ServeOther(r)
      PROVE  IdentityInv' /\ AuditInv'
  <2>1. pc[r] = "handle" /\ UNCHANGED <<deployment, pairs, entry>>
    BY <1>5 DEF ServeFile, ServeAdmin, ServeOther, shareVars, tokenVars, worldVars
  <2>2. req[r].route \notin Owners
    BY <1>5 DEF ServeFile, ServeAdmin, ServeOther, Owners
  <2>3. AnswersProperly(r)
    <3>1. pc[r] \notin Before
      BY <2>1 DEF Before
    <3>2. CASE ServeFile(r)
      <4>1. Respond(r, 404) \/ Respond(r, 403)
            \/ (Respond(r, 200) /\ FileSpace[req[r].file] = ctx[r].space)
        BY <3>2 DEF ServeFile
      <4>2. FileSpace[req[r].file] = ctx[r].space => Proper(r, 200, {})
        BY <3>1, <3>2 DEF ServeFile, Proper, Its
      <4> QED BY <4>1, <4>2, ProperAnswers
    <3>3. CASE ServeAdmin(r) \/ ServeOther(r)
      <4>1. \E status \in {200, 401, 403} : Respond(r, status)
        BY <3>3 DEF ServeAdmin, ServeOther
      <4>2. Proper(r, 200, {})
        BY <3>1, <3>3 DEF ServeAdmin, ServeOther, Proper, Its
      <4> QED BY <4>1, <4>2, ProperAnswers
    <3> QED BY <1>5, <3>2, <3>3
  <2> QED BY <2>1, <2>2, <2>3, IdentityMove DEF Before
<1>6. ASSUME NEW r \in Slots, NEW q \in deployment.requests, Arrive(r, q)
      PROVE  IdentityInv' /\ AuditInv'
  <2>1. /\ pc' = [pc EXCEPT ![r] = "limit"] /\ ctx'[r] = EmptyContext /\ entry'[r] = None
        /\ \A s \in Slots : s # r => req'[s] = req[s] /\ ctx'[s] = ctx[s] /\ entry'[s] = entry[s]
        /\ UNCHANGED <<deployment, pairs>>
    BY <1>6 DEF Arrive, tokenVars, TypeOK, RequestInv, ShareTypes
  <2>2. pc'[r] = "limit" /\ \A s \in Slots : s # r => pc'[s] = pc[s]
    BY <2>1 DEF TypeOK, RequestInv
  <2>3. IdentityInv'
    BY <2>1, <2>2 DEF IdentityInv, Before, EmptyContext
  <2>4. AuditInv'
    BY <2>1, <2>2 DEF AuditInv
  <2> QED BY <2>3, <2>4
<1>7. CASE Restart
  <2>1. \A r \in Slots : pc'[r] = "idle"
    BY <1>7 DEF Restart, ForgetRequests
  <2> QED BY <2>1 DEF IdentityInv, AuditInv
<1>8. CASE Cleanup \/ Tick \/ UNCHANGED vars
  <2>1. UNCHANGED <<req, pc, ctx, entry, pairs, deployment>>
    BY <1>8 DEF Cleanup, Tick, vars, reqVars, shareVars, tokenVars, worldVars
  <2> QED BY <2>1 DEF IdentityInv, AuditInv
<1> QED BY <1>1, <1>2, <1>3, <1>4, <1>5, <1>6, <1>7, <1>8, StepCases DEF Steps, Elsewhere

LEMMA IdentityInit == ASSUME Init PROVE IdentityInv /\ AuditInv
BY DEF Init, NoRequests, IdentityInv, AuditInv

\* A request with a token reaches files and links of the namespace of its user
\* only, unless he is an administrator, whatever its headers ask for; and where
\* tokens are enforced only public routes are served without one (JWTValidate,
\* Namespace, the owner checks of the handlers).
THEOREM NamespacesHold == Spec => []NamespaceIsolated
<1>1. Init => IdentityInv /\ AuditInv
  BY IdentityInit
<1>2. TypeOK /\ IdentityInv /\ AuditInv /\ [Next]_vars => IdentityInv' /\ AuditInv'
  BY IdentityStep
<1>3. ASSUME TypeOK, IdentityInv PROVE NamespaceIsolated
  <2> SUFFICES ASSUME NEW r \in Slots, Succeeded(r)
               PROVE  LET p == ctx[r].claims IN
                 /\ p # None /\ pairs[p].user \notin Admins =>
                      Reached(r) \subseteq {UserSpace[pairs[p].user]}
                 /\ deployment.jwt /\ deployment.enforce /\ req[r].route \notin Public => p # None
    BY DEF NamespaceIsolated
  <2>1. pc[r] = "done" /\ ctx[r].code \in 200 .. 206
    BY DEF Succeeded
  <2>2. Reached(r) \subseteq {ctx[r].space}
    BY <1>3, <2>1 DEF IdentityInv, Reached, Owners
  <2> QED BY <1>3, <2>1, <2>2 DEF IdentityInv, Before
<1> QED BY <1>1, <1>2, <1>3, TypesHold, PTL DEF Spec

\* What the audit log holds of a request names the user whose token was accepted
\* and denies access only where the answer did, and every refusal and every change
\* is there when the request is over, unless an insertion has failed (Audit,
\* classifyAuditEvent, writeAudit).
THEOREM ActorsAreAudited == Spec => []AuditNamesTheActor
<1>1. Init => IdentityInv /\ AuditInv
  BY IdentityInit
<1>2. TypeOK /\ IdentityInv /\ AuditInv /\ [Next]_vars => IdentityInv' /\ AuditInv'
  BY IdentityStep
<1>3. ASSUME IdentityInv, AuditInv PROVE AuditNamesTheActor
  <2> SUFFICES ASSUME NEW r \in Slots, pc[r] = "done"
               PROVE  /\ \A e \in ctx[r].noted :
                           /\ NamesActor(r, e)
                           /\ e.action = "access_denied" => ctx[r].code \in Denials
                      /\ /\ \/ ctx[r].code \in Denials \union {429}
                            \/ Succeeded(r) /\ req[r].route \in Mutations
                         /\ ctx[r].noted = ctx[r].due
                         => \E e \in ctx[r].noted :
                              ctx[r].code \in Denials => e.action = "access_denied"
    BY DEF AuditNamesTheActor
  <2>1. /\ ctx[r].noted \subseteq ctx[r].due
        /\ Truthful(ctx[r].actor, ctx[r].code, ctx[r].due)
        /\ Covered(ctx[r].code, req[r].route, ctx[r].due)
    BY <1>3 DEF AuditInv
  <2>2. /\ ctx[r].claims = None => ctx[r].actor \in {"anonymous", "static-token"}
        /\ ctx[r].claims # None => ctx[r].actor = pairs[ctx[r].claims].user
    BY <1>3 DEF IdentityInv
  <2>3. ASSUME NEW e \in ctx[r].noted
        PROVE  NamesActor(r, e) /\ (e.action = "access_denied" => ctx[r].code \in Denials)
    <3>1. e.who = ctx[r].actor /\ (e.action = "access_denied" => ctx[r].code \in Denials)
      BY <2>1, <2>3 DEF Truthful
    <3> QED BY <2>2, <3>1 DEF NamesActor
  <2> QED BY <2>1, <2>3 DEF Covered, Succeeded
<1> QED BY <1>1, <1>2, <1>3, TypesHold, PTL DEF Spec

-----------------------------------------------------------------------------
(* Guesses.  A limiter lets a request through only while its key is not    *)
(* locked, so with fewer failures than the limit; each of the others that  *)
(* are on their way then may add one.                                      *)

\* Guesses that may still be recorded: whoever logs in with that key may fail,
\* since the user may be unknown.
Trying(l, k) ==
  IF l = "login"
  THEN {r \in Slots : pc[r] \in {"login", "failed"} /\ req[r].route = "login" /\ LoginKey(r) = k}
  ELSE Guessing(l, k)

Sound(attempt, trying) ==
  /\ attempt.failures \in 0 .. MaxFailures - 1 /\ attempt.recorded \in Nat
  /\ attempt.lockedUntil \in Nat
  /\ attempt.lockedUntil = Never => attempt.recorded = attempt.failures
  /\ attempt.recorded + trying <= MaxFailures - 1 + Cardinality(Slots)

Attempt == [failures : Nat, lastFailure : Nat, lockedUntil : Nat, recorded : Nat]

GuessInv ==
  /\ DOMAIN attempts = Limiters
  /\ \A l \in Limiters : attempts[l] \in [DOMAIN attempts[l] -> Attempt]
  /\ \A l \in Limiters : \A k \in DOMAIN attempts[l] : Sound(attempts[l][k], Cardinality(Trying(l, k)))
  /\ \A r \in Slots : pc[r] = "failed" /\ req[r].route # "login" =>
       req[r].password = "wrong" \/ (req[r].route = "s_form" /\ req[r].password = None)

LEMMA TryingCounts ==
  ASSUME NEW l, NEW k
  PROVE  /\ Trying(l, k) \subseteq Slots /\ IsFiniteSet(Trying(l, k))
         /\ Cardinality(Trying(l, k)) \in Nat /\ Cardinality(Trying(l, k)) <= Cardinality(Slots)
<1>1. Trying(l, k) \subseteq Slots
  BY DEF Trying, Guessing, At
<1> QED BY <1>1, SlotsAreFinite, FS_Subset, FS_CardinalityType

\* What cleanupLocked leaves of a table.
LEMMA CleanedUpIsPart ==
  ASSUME GuessInv, NEW l \in Limiters, NEW t \in CleanedUp(attempts[l])
  PROVE  /\ DOMAIN t \subseteq DOMAIN attempts[l] /\ t \in [DOMAIN t -> Attempt]
         /\ \A k \in DOMAIN t : t[k] = attempts[l][k] /\ ~Outdated(t[k])
<1> DEFINE kept == Restrict(attempts[l], {k \in DOMAIN attempts[l] : ~Outdated(attempts[l][k])})
<1>1. /\ DOMAIN kept \subseteq DOMAIN attempts[l] /\ kept = [k \in DOMAIN kept |-> kept[k]]
      /\ \A k \in DOMAIN kept : kept[k] = attempts[l][k] /\ ~Outdated(kept[k])
  BY DEF Restrict
<1>2. t = kept \/ \E k \in DOMAIN kept : t = Restrict(kept, DOMAIN kept \ {k})
  BY DEF CleanedUp, Without
<1> HIDE DEF kept
<1>3. /\ DOMAIN t \subseteq DOMAIN kept /\ t = [k \in DOMAIN t |-> t[k]]
      /\ \A k \in DOMAIN t : t[k] = kept[k]
  BY <1>1, <1>2 DEF Restrict
<1>4. \A k \in DOMAIN attempts[l] : attempts[l][k] \in Attempt
  BY DEF GuessInv
<1> QED BY <1>1, <1>3, <1>4

\* The tables lose entries, and nobody else begins to guess.
TablesShrink ==
  /\ DOMAIN attempts' = Limiters
  /\ \A l \in Limiters :
       /\ DOMAIN attempts'[l] \subseteq DOMAIN attempts[l]
       /\ attempts'[l] \in [DOMAIN attempts'[l] -> Attempt]
       /\ \A k \in DOMAIN attempts'[l] : attempts'[l][k] = attempts[l][k]

Misguess(r) == req[r].password = "wrong" \/ (req[r].route = "s_form" /\ req[r].password = None)

NoNewGuess(r) ==
  \/ pc'[r] \notin {"login", "compare", "failed"}
  \/ pc[r] = "login" /\ pc'[r] = "failed"
  \/ pc[r] = "compare" /\ pc'[r] = "failed" /\ Misguess(r)
  \/ pc'[r] = "compare" /\ req[r].route # "s_form" /\ req[r].password = None

LEMMA TryingShrinks ==
  ASSUME TypeOK, NEW r \in Slots, pc[r] # "idle", req' = req, pc' = [pc EXCEPT ![r] = pc'[r]],
         NoNewGuess(r), NEW l \in Limiters, NEW k
  PROVE  Trying(l, k)' \subseteq Trying(l, k)
<1>1. pc[r] = "login" => req[r].route = "login"
  BY Served DEF TypeOK, Serves
<1>2. pc[r] = "compare" => req[r].route \in {"s", "s_form"}
  BY Served DEF TypeOK, Serves
<1>3. \A s \in Slots : s # r => pc'[s] = pc[s]
  BY DEF TypeOK, RequestInv
<1>4. None # "wrong"
  BY NoneIsNoValue DEF Passwords
<1> QED
  BY <1>1, <1>2, <1>3, <1>4
     DEF Trying, Guessing, At, NoNewGuess, Misguess, Limiters, LoginKey, Key

LEMMA GuessesShrink ==
  ASSUME TypeOK, GuessInv, NEW r \in Slots, pc[r] # "idle", req' = req,
         pc' = [pc EXCEPT ![r] = pc'[r]], NoNewGuess(r), TablesShrink
  PROVE  GuessInv'
<1>1. ASSUME NEW l \in Limiters, NEW k \in DOMAIN attempts'[l]
      PROVE  Sound(attempts[l][k], Cardinality(Trying(l, k)))'
  <2>1. /\ Sound(attempts[l][k], Cardinality(Trying(l, k))) /\ attempts'[l][k] = attempts[l][k]
        /\ k \in DOMAIN attempts[l]
    BY <1>1 DEF GuessInv, TablesShrink
  <2>2. Cardinality(Trying(l, k)') <= Cardinality(Trying(l, k))
    BY TryingShrinks, TryingCounts, FS_Subset
  <2>3. Cardinality(Trying(l, k)') \in Nat /\ Cardinality(Trying(l, k)) \in Nat
    BY <2>2, TryingShrinks, TryingCounts, FS_Subset, FS_CardinalityType
  <2> QED
    BY <2>1, <2>2, <2>3, LimitsArePositive, SlotsAreFinite, FS_CardinalityType DEF Sound
<1>2. ASSUME NEW s \in Slots, pc'[s] = "failed", req'[s].route # "login"
      PROVE  req'[s].password = "wrong" \/ (req'[s].route = "s_form" /\ req'[s].password = None)
  <2>1. pc[r] = "login" => req[r].route = "login"
    BY Served DEF TypeOK, Serves
  <2> QED BY <1>2, <2>1 DEF GuessInv, NoNewGuess, Misguess, TypeOK, RequestInv
<1> QED BY <1>1, <1>2 DEF GuessInv, TablesShrink

\* The key of a request at a limiter.
Guesser(r, l, k) ==
  IF l = "login" THEN req[r].route = "login" /\ LoginKey(r) = k
  ELSE req[r].route \in {"s", "s_form"} /\ Key(r) = k

LEMMA GuessesAllowed ==
  ASSUME TypeOK, GuessInv, NEW r \in Slots, pc[r] # "idle", req' = req,
         NEW l \in Limiters, NEW k, Guesser(r, l, k), Allow(l, k, TRUE),
         pc' = [pc EXCEPT ![r] = IF l = "login" THEN "login" ELSE "compare"]
  PROVE  GuessInv'
<1>1. PICK t \in CleanedUp(attempts[l]) : ~Locked(t, k) /\ attempts' = [attempts EXCEPT ![l] = t]
  BY DEF Allow
<1>2. /\ DOMAIN t \subseteq DOMAIN attempts[l] /\ t \in [DOMAIN t -> Attempt]
      /\ \A j \in DOMAIN t : t[j] = attempts[l][j] /\ ~Outdated(t[j])
  BY <1>1, CleanedUpIsPart
<1>3. /\ DOMAIN attempts' = Limiters /\ attempts'[l] = t
      /\ \A m \in Limiters : m # l => attempts'[m] = attempts[m]
  BY <1>1 DEF GuessInv
<1>4. /\ pc'[r] \in {"login", "compare"}
      /\ \A s \in Slots : s # r => pc'[s] = pc[s]
      /\ pc'[r] = "login" <=> l = "login"
  BY DEF TypeOK, RequestInv
<1>5. ASSUME NEW m \in Limiters, NEW j \in DOMAIN attempts'[m]
      PROVE  Sound(attempts[m][j], Cardinality(Trying(m, j)))'
  <2>1. j \in DOMAIN attempts[m] /\ attempts'[m][j] = attempts[m][j]
    BY <1>2, <1>3, <1>5
  <2>2. Sound(attempts[m][j], Cardinality(Trying(m, j)))
    BY <2>1 DEF GuessInv
  <2>3. /\ Cardinality(Trying(m, j)) \in Nat /\ Cardinality(Slots) \in Nat
        /\ MaxFailures \in Nat \ {0}
    BY TryingCounts, LimitsArePositive, SlotsAreFinite, FS_CardinalityType
  <2>4. CASE m = l /\ j = k
    <3>1. attempts[m][j].lockedUntil = Never
      BY <1>1, <1>2, <1>3, <1>5, <2>2, <2>4 DEF Locked, Outdated, Sound, TypeOK, RequestInv
    <3>2. Trying(m, j)' \subseteq Slots
      BY DEF Trying, Guessing, At
    <3>3. Cardinality(Trying(m, j)') <= Cardinality(Slots) /\ Cardinality(Trying(m, j)') \in Nat
      BY <3>2, SlotsAreFinite, FS_Subset, FS_CardinalityType
    <3> QED BY <2>1, <2>2, <2>3, <3>1, <3>3 DEF Sound
  <2>5. CASE ~(m = l /\ j = k)
    <3>1. Trying(m, j)' \subseteq Trying(m, j)
      BY <1>4, <2>5 DEF Guesser, Trying, Guessing, At, Limiters, LoginKey, Key
    <3>2. Cardinality(Trying(m, j)') <= Cardinality(Trying(m, j)) /\ Cardinality(Trying(m, j)') \in Nat
      BY <3>1, TryingCounts, FS_Subset, FS_CardinalityType
    <3> QED BY <2>1, <2>2, <2>3, <3>2 DEF Sound
  <2> QED BY <2>4, <2>5
<1>6. \A m \in Limiters : attempts'[m] \in [DOMAIN attempts'[m] -> Attempt]
  BY <1>2, <1>3 DEF GuessInv
<1>7. ASSUME NEW s \in Slots, pc'[s] = "failed", req'[s].route # "login"
      PROVE  req'[s].password = "wrong" \/ (req'[s].route = "s_form" /\ req'[s].password = None)
  BY <1>4, <1>7 DEF GuessInv
<1> QED BY <1>3, <1>5, <1>6, <1>7 DEF GuessInv

LEMMA FailedOnceCounts ==
  ASSUME NEW attempt \in Attempt, attempt.failures <= MaxFailures - 1, now \in Nat \ {0},
         attempt.lockedUntil = Never => attempt.recorded = attempt.failures
  PROVE  /\ FailedOnce(attempt) \in Attempt
         /\ FailedOnce(attempt).failures \in 0 .. MaxFailures - 1
         /\ FailedOnce(attempt).recorded = attempt.recorded + 1
         /\ FailedOnce(attempt).lockedUntil = Never =>
              FailedOnce(attempt).recorded = FailedOnce(attempt).failures
<1>1. CASE attempt.failures + 1 >= MaxFailures
  <2>1. FailedOnce(attempt) = [failures |-> 0, lastFailure |-> now, lockedUntil |-> now + Cooldown,
                               recorded |-> attempt.recorded + 1]
    BY <1>1 DEF FailedOnce
  <2> QED BY <2>1, LimitsArePositive DEF Attempt, Never
<1>2. CASE attempt.failures + 1 < MaxFailures
  <2> DEFINE next == FailedOnce(attempt)
  <2>1. next = [attempt EXCEPT !.failures = @ + 1, !.lastFailure = now, !.recorded = @ + 1]
    BY <1>2, LimitsArePositive DEF FailedOnce, Attempt
  <2>2. next = [failures |-> attempt.failures + 1, lastFailure |-> now,
                lockedUntil |-> attempt.lockedUntil, recorded |-> attempt.recorded + 1]
    BY <2>1 DEF Attempt
  <2> HIDE DEF next
  <2>3. next.failures \in 0 .. MaxFailures - 1
    BY <1>2, <2>2, LimitsArePositive DEF Attempt
  <2>4. next.lockedUntil = Never => next.recorded = next.failures
    BY <2>2
  <2>5. next \in Attempt /\ next.recorded = attempt.recorded + 1
    BY <2>2 DEF Attempt
  <2> QED BY <2>3, <2>4, <2>5 DEF next
<1> QED BY <1>1, <1>2, LimitsArePositive DEF Attempt

\* A request records its wrong password, and is done.
Recorded(r, l, k) ==
  /\ pc[r] = "failed" /\ Guesser(r, l, k) /\ pc' = [pc EXCEPT ![r] = "done"]
  /\ \E locks \in BOOLEAN : RecordFailure(l, k, locks)

LEMMA GuessesRecorded ==
  ASSUME TypeOK, GuessInv, NEW r \in Slots, req' = req, NEW l \in Limiters, NEW k, Recorded(r, l, k)
  PROVE  GuessInv'
<1> SUFFICES ASSUME pc[r] = "failed", Guesser(r, l, k), pc' = [pc EXCEPT ![r] = "done"],
                    NEW locks \in BOOLEAN, RecordFailure(l, k, locks)
             PROVE  GuessInv'
  BY DEF Recorded
<1>1. PICK t \in CleanedUp(attempts[l]) :
        attempts' = [attempts EXCEPT ![l] =
          [j \in DOMAIN t \union {k} |->
             IF j = k THEN FailedOnce(IF k \in DOMAIN t THEN t[k] ELSE NoAttempt) ELSE t[j]]]
  BY DEF RecordFailure
<1> DEFINE was == IF k \in DOMAIN t THEN t[k] ELSE NoAttempt
<1>2. /\ DOMAIN t \subseteq DOMAIN attempts[l] /\ t \in [DOMAIN t -> Attempt]
      /\ \A j \in DOMAIN t : t[j] = attempts[l][j]
  BY <1>1, CleanedUpIsPart
<1>3. /\ DOMAIN attempts' = Limiters /\ DOMAIN attempts'[l] = DOMAIN t \union {k}
      /\ attempts'[l][k] = FailedOnce(was)
      /\ \A j \in DOMAIN t : j # k => attempts'[l][j] = t[j]
      /\ \A m \in Limiters : m # l => attempts'[m] = attempts[m]
  BY <1>1 DEF GuessInv
<1>4. pc'[r] = "done" /\ \A s \in Slots : s # r => pc'[s] = pc[s]
  BY DEF TypeOK, RequestInv
<1>c. /\ now \in Nat \ {0} /\ MaxFailures \in Nat \ {0} /\ Cooldown \in Nat \ {0}
      /\ Cardinality(Slots) \in Nat
  BY LimitsArePositive, SlotsAreFinite, FS_CardinalityType DEF TypeOK, RequestInv
<1>w. /\ was \in Attempt /\ was.failures <= MaxFailures - 1
      /\ was.lockedUntil = Never => was.recorded = was.failures
  BY <1>2, <1>c DEF GuessInv, Sound, Attempt, NoAttempt, Never
<1> HIDE DEF was
<1>n. /\ FailedOnce(was) \in Attempt /\ FailedOnce(was).failures \in 0 .. MaxFailures - 1
      /\ FailedOnce(was).recorded = was.recorded + 1
      /\ FailedOnce(was).lockedUntil = Never => FailedOnce(was).recorded = FailedOnce(was).failures
  BY <1>c, <1>w, FailedOnceCounts
<1>r. was.recorded \in Nat
  BY <1>w DEF Attempt
<1>5. ASSUME NEW m \in Limiters, NEW j \in DOMAIN attempts'[m]
      PROVE  Sound(attempts[m][j], Cardinality(Trying(m, j)))'
  <2>1. Trying(m, j)' \subseteq Trying(m, j)
    BY <1>4 DEF Trying, Guessing, At, Limiters, LoginKey, Key
  <2>2. /\ Cardinality(Trying(m, j)') <= Cardinality(Trying(m, j))
        /\ Cardinality(Trying(m, j)') \in Nat /\ Cardinality(Trying(m, j)) \in Nat
    BY <2>1, TryingCounts, FS_Subset, FS_CardinalityType
  <2>3. CASE m = l /\ j = k
    <3>1. r \in Trying(m, j) /\ r \notin Trying(m, j)'
      BY <1>4, <2>3 DEF Guesser, Trying, Guessing, At, Limiters, LoginKey, Key, GuessInv
    <3>2. Trying(m, j)' \subseteq Trying(m, j) \ {r}
      BY <2>1, <3>1
    <3>3. Cardinality(Trying(m, j) \ {r}) = Cardinality(Trying(m, j)) - 1
          /\ IsFiniteSet(Trying(m, j) \ {r})
      BY <3>1, TryingCounts, FS_RemoveElement
    <3>4. Cardinality(Trying(m, j)') <= Cardinality(Trying(m, j)) - 1
      BY <3>2, <3>3, FS_Subset
    <3>5. was.recorded + Cardinality(Trying(m, j)) <= MaxFailures - 1 + Cardinality(Slots)
      <4>1. CASE k \in DOMAIN t
        BY <1>2, <2>3, <4>1 DEF was, GuessInv, Sound
      <4>2. CASE k \notin DOMAIN t
        BY <1>c, <2>2, <4>2, TryingCounts DEF was, NoAttempt
      <4> QED BY <4>1, <4>2
    <3>6. attempts'[m][j] \in Attempt /\ attempts'[m][j].recorded = was.recorded + 1
      BY <1>3, <1>n, <2>3
    <3>7. /\ attempts'[m][j].failures \in 0 .. MaxFailures - 1
          /\ attempts'[m][j].lockedUntil = Never =>
               attempts'[m][j].recorded = attempts'[m][j].failures
      BY <1>3, <1>n, <2>3
    <3>8. attempts'[m][j].recorded + Cardinality(Trying(m, j)') <= MaxFailures - 1 + Cardinality(Slots)
      BY <1>c, <1>r, <2>2, <3>4, <3>5, <3>6
    <3> QED BY <3>6, <3>7, <3>8 DEF Sound, Attempt
  <2>4. CASE ~(m = l /\ j = k)
    <3>1. j \in DOMAIN attempts[m] /\ attempts'[m][j] = attempts[m][j]
      BY <1>2, <1>3, <1>5, <2>4
    <3>2. Sound(attempts[m][j], Cardinality(Trying(m, j)))
      BY <3>1 DEF GuessInv
    <3> QED BY <1>c, <2>2, <3>1, <3>2 DEF Sound
  <2> QED BY <2>3, <2>4
<1>6. ASSUME NEW m \in Limiters PROVE attempts'[m] \in [DOMAIN attempts'[m] -> Attempt]
  <2>1. CASE m # l
    BY <1>3, <2>1 DEF GuessInv
  <2>2. CASE m = l
    <3> DEFINE joined == [j \in DOMAIN t \union {k} |-> IF j = k THEN FailedOnce(was) ELSE t[j]]
    <3>1. attempts'[l] = joined
      BY <1>1 DEF GuessInv, was
    <3>2. \A j \in DOMAIN t \union {k} : joined[j] \in Attempt
      BY <1>2, <1>n
    <3>3. joined \in [DOMAIN joined -> Attempt]
      BY <3>2
    <3> HIDE DEF joined
    <3> QED BY <2>2, <3>1, <3>3
  <2> QED BY <2>1, <2>2
<1>7. ASSUME NEW s \in Slots, pc'[s] = "failed", req'[s].route # "login"
      PROVE  req'[s].password = "wrong" \/ (req'[s].route = "s_form" /\ req'[s].password = None)
  BY <1>4, <1>7 DEF GuessInv
<1> QED BY <1>3, <1>5, <1>6, <1>7 DEF GuessInv

\* The tables when nothing was recorded, when one was cleaned, and when a key
\* was cleared.
LEMMA TablesShrinkTo ==
  ASSUME GuessInv
  PROVE  /\ UNCHANGED attempts => TablesShrink
         /\ \A l \in Limiters : \A k, allowed : Allow(l, k, allowed) => TablesShrink
         /\ \A l \in Limiters : \A k : Reset(l, k) => TablesShrink
<1> DEFINE PartOf(t, l) == /\ DOMAIN t \subseteq DOMAIN attempts[l] /\ t \in [DOMAIN t -> Attempt]
                           /\ \A k \in DOMAIN t : t[k] = attempts[l][k]
<1>1. ASSUME NEW l \in Limiters, NEW t, attempts' = [attempts EXCEPT ![l] = t], PartOf(t, l)
      PROVE  TablesShrink
  BY <1>1 DEF TablesShrink, GuessInv
<1>2. UNCHANGED attempts => TablesShrink
  BY DEF TablesShrink, GuessInv
<1>3. ASSUME NEW l \in Limiters, NEW k, NEW allowed, Allow(l, k, allowed) PROVE TablesShrink
  <2>1. PICK t \in CleanedUp(attempts[l]) : attempts' = [attempts EXCEPT ![l] = t]
    BY <1>3 DEF Allow
  <2>2. PartOf(t, l)
    BY CleanedUpIsPart
  <2> HIDE DEF PartOf
  <2> QED BY <1>1, <2>1, <2>2
<1>4. ASSUME NEW l \in Limiters, NEW k, Reset(l, k) PROVE TablesShrink
  <2> DEFINE t == Without(attempts[l], k)
  <2>1. attempts' = [attempts EXCEPT ![l] = t]
    BY <1>4 DEF Reset
  <2>2. /\ DOMAIN t \subseteq DOMAIN attempts[l] /\ t = [j \in DOMAIN t |-> attempts[l][j]]
    BY DEF Without, Restrict
  <2>3. \A j \in DOMAIN attempts[l] : attempts[l][j] \in Attempt
    BY DEF GuessInv
  <2> HIDE DEF t
  <2>4. PartOf(t, l)
    BY <2>2, <2>3
  <2> HIDE DEF PartOf
  <2> QED BY <1>1, <2>1, <2>4
<1> QED BY <1>2, <1>3, <1>4

LEMMA GuessByToken ==
  ASSUME TypeOK, GuessInv, NEW r \in Slots, TokenStep(r) PROVE GuessInv'
<1>0. req' = req /\ pc' = [pc EXCEPT ![r] = pc'[r]] /\ pc[r] # "idle"
  BY TokenMoves, OthersStay DEF TypeOK
<1>l. "login" \in Limiters
  BY DEF Limiters
<1>1. CASE BeginLogin(r)
  <2>1. PICK allowed \in BOOLEAN :
          /\ Allow("login", LoginKey(r), allowed)
          /\ IF allowed THEN Goto(r, "login") ELSE Respond(r, 429)
    BY <1>1 DEF BeginLogin
  <2>2. CASE allowed
    <3>1. Guesser(r, "login", LoginKey(r))
      BY <1>1 DEF BeginLogin, Guesser
    <3>2. Allow("login", LoginKey(r), TRUE) /\ pc' = [pc EXCEPT ![r] = "login"]
      BY <2>1, <2>2 DEF Goto
    <3> QED BY <1>0, <1>l, <3>1, <3>2, GuessesAllowed
  <2>3. CASE ~allowed
    <3>1. NoNewGuess(r)
      BY <2>1, <2>3 DEF Respond, RespondNoting, NoNewGuess, TypeOK, RequestInv
    <3> QED BY <1>0, <1>l, <2>1, <3>1, TablesShrinkTo, GuessesShrink
  <2> QED BY <2>2, <2>3
<1>2. CASE ComparePassword(r)
  <2>1. NoNewGuess(r) /\ attempts' = attempts
    BY <1>2 DEF ComparePassword, Goto, NoNewGuess, TypeOK, RequestInv
  <2> QED BY <1>0, <2>1, TablesShrinkTo, GuessesShrink
<1>3. CASE RecordLoginFailure(r)
  <2>1. PICK locks \in BOOLEAN : RecordFailure("login", LoginKey(r), locks)
    BY <1>3 DEF RecordLoginFailure
  <2>2. pc[r] = "failed" /\ pc' = [pc EXCEPT ![r] = "done"] /\ Guesser(r, "login", LoginKey(r))
    BY <1>3 DEF RecordLoginFailure, Respond, RespondNoting, Guesser
  <2>3. Recorded(r, "login", LoginKey(r))
    BY <2>1, <2>2 DEF Recorded
  <2> QED BY <1>0, <1>l, <2>3, GuessesRecorded
<1>4. CASE ResetLogin(r)
  <2>1. NoNewGuess(r) /\ Reset("login", LoginKey(r))
    BY <1>4 DEF ResetLogin, Respond, RespondNoting, NoNewGuess, TypeOK, RequestInv
  <2> QED BY <1>0, <1>l, <2>1, TablesShrinkTo, GuessesShrink
<1>5. CASE ParseRefresh(r) \/ ClaimInMemory(r) \/ ComputeTTL(r) \/ SetNX(r)
             \/ IssueRefreshed(r) \/ Me(r)
  <2>1. attempts' = attempts
    BY <1>5 DEF ParseRefresh, ClaimInMemory, ComputeTTL, SetNX, IssueRefreshed, Me
  <2> DEFINE To(place) == pc' = [pc EXCEPT ![r] = place]
  <2>2. (\A place : Goto(r, place) => To(place)) /\ \A status : Respond(r, status) => To("done")
    BY DEF Goto, Respond, RespondNoting
  <2> HIDE DEF To
  <2>3. ParseRefresh(r) \/ ComputeTTL(r) \/ IssueRefreshed(r) \/ Me(r) => To("claim") \/ To("setnx") \/ To("done")
    BY <2>2 DEF ParseRefresh, ComputeTTL, IssueRefreshed, Me
  <2>4. ClaimInMemory(r) \/ SetNX(r) => To("issue") \/ To("done")
    BY <2>2 DEF ClaimInMemory, SetNX, Claimed
  <2>5. To("claim") \/ To("setnx") \/ To("issue") \/ To("done")
    BY <1>5, <2>3, <2>4
  <2>6. NoNewGuess(r)
    BY <2>5 DEF To, NoNewGuess, TypeOK, RequestInv
  <2> QED BY <1>0, <2>1, <2>6, TablesShrinkTo, GuessesShrink
<1> QED BY <1>1, <1>2, <1>3, <1>4, <1>5 DEF TokenStep

LEMMA GuessByShare ==
  ASSUME TypeOK, GuessInv, NEW r \in Slots, ShareStep(r) PROVE GuessInv'
<1>0. req' = req /\ pc' = [pc EXCEPT ![r] = pc'[r]] /\ pc[r] # "idle"
  BY ShareMoves, OthersStay DEF TypeOK
<1>l. "share" \in Limiters
  BY DEF Limiters
<1>1. CASE BeginAccess(r) /\ Guesses(r)
  <2>1. PICK allowed \in BOOLEAN :
          /\ Allow("share", Key(r), allowed)
          /\ IF allowed THEN Goto(r, "compare")
             ELSE \E entries : RespondNoting(r, 429, entries)
    BY <1>1 DEF BeginAccess
  <2>2. CASE allowed
    <3>1. Guesser(r, "share", Key(r))
      BY <1>1 DEF BeginAccess, Guesser
    <3>2. Allow("share", Key(r), TRUE) /\ pc' = [pc EXCEPT ![r] = "compare"]
      BY <2>1, <2>2 DEF Goto
    <3> QED BY <1>0, <1>l, <3>1, <3>2, GuessesAllowed
  <2>3. CASE ~allowed
    <3>1. NoNewGuess(r)
      <4>1. pc' = [pc EXCEPT ![r] = "done"]
        BY <2>1, <2>3 DEF RespondNoting
      <4> QED BY <4>1 DEF NoNewGuess, TypeOK, RequestInv
    <3> QED BY <1>0, <1>l, <2>1, <3>1, TablesShrinkTo, GuessesShrink
  <2> QED BY <2>2, <2>3
<1>2. CASE BeginAccess(r) /\ ~Guesses(r)
  <2>1. attempts' = attempts
    BY <1>2 DEF BeginAccess
  <2>2. \/ \E verdict : Refuse(r, verdict)
        \/ Goto(r, "verified")
        \/ Goto(r, "compare") /\ ~HasCookie(r)
    BY <1>2 DEF BeginAccess
  <2>3. req[r].route # "s_form" /\ (HasCookie(r) \/ req[r].password = None)
    BY <1>2 DEF Guesses
  <2>4. NoNewGuess(r)
    BY <2>2, <2>3 DEF Refuse, Goto, Respond, RespondNoting, NoNewGuess, TypeOK, RequestInv
  <2> QED BY <1>0, <2>1, <2>4, TablesShrinkTo, GuessesShrink
<1>3. CASE CompareSharePassword(r)
  <2> DEFINE verdict == Verdict(r, pc[r] = "verified")
  <2>1. attempts' = attempts
    BY <1>3 DEF CompareSharePassword
  <2>2. \/ \E place \in {"reset", "consume"} : Goto(r, place)
        \/ Refuse(r, verdict)
        \/ /\ verdict = "forbidden" /\ (req[r].password # None \/ req[r].route = "s_form")
           /\ Goto(r, "failed")
    BY <1>3 DEF CompareSharePassword
  <2>3. verdict = "forbidden" => pc[r] # "verified" /\ req[r].password # "right"
    BY DEF Verdict
  <2>4. req[r].password \in {None, "right", "wrong"}
    BY <1>0, Served DEF TypeOK, RequestSet, Passwords
  <2>5. pc[r] \in {"compare", "verified"}
    BY <1>3 DEF CompareSharePassword
  <2> HIDE DEF verdict
  <2>6. NoNewGuess(r)
    BY <2>2, <2>3, <2>4, <2>5
       DEF Refuse, Goto, Respond, RespondNoting, NoNewGuess, Misguess, TypeOK, RequestInv
  <2> QED BY <1>0, <2>1, <2>6, TablesShrinkTo, GuessesShrink
<1>4. CASE RecordShareFailure(r)
  <2>1. PICK locks \in BOOLEAN : RecordFailure("share", Key(r), locks)
    BY <1>4 DEF RecordShareFailure
  <2>2. pc[r] = "failed" /\ pc' = [pc EXCEPT ![r] = "done"] /\ Guesser(r, "share", Key(r))
    BY <1>4 DEF RecordShareFailure, RespondNoting, Guesser
  <2>3. Recorded(r, "share", Key(r))
    BY <2>1, <2>2 DEF Recorded
  <2> QED BY <1>0, <1>l, <2>3, GuessesRecorded
<1>5. CASE ResetSharePassword(r)
  <2>1. NoNewGuess(r) /\ Reset("share", Key(r))
    BY <1>5 DEF ResetSharePassword, Goto, Respond, RespondNoting, NoNewGuess, TypeOK, RequestInv
  <2> QED BY <1>0, <1>l, <2>1, TablesShrinkTo, GuessesShrink
<1>6. CASE ConsumeDownload(r) \/ OpenShared(r) \/ CheckShared(r) \/ InsertShare(r)
             \/ ListShares(r) \/ RevokeShare(r)
  <2>1. attempts' = attempts
    BY <1>6 DEF ConsumeDownload, OpenShared, CheckShared, InsertShare, ListShares, RevokeShare
  <2>2. pc'[r] \in {"done", "reset", "open", "insert_share"}
    BY <1>6, LinkMoves DEF TypeOK
  <2>3. NoNewGuess(r)
    BY <2>2 DEF NoNewGuess
  <2> QED BY <1>0, <2>1, <2>3, TablesShrinkTo, GuessesShrink
<1> QED BY <1>1, <1>2, <1>3, <1>4, <1>5, <1>6 DEF ShareStep

LEMMA GuessStep == ASSUME TypeOK, GuessInv, [Next]_vars PROVE GuessInv'
<1>1. ASSUME NEW r \in Slots, Token(r) PROVE GuessInv'
  BY <1>1, GuessByToken DEF Token
<1>2. ASSUME NEW r \in Slots, Share(r) PROVE GuessInv'
  BY <1>2, GuessByShare DEF Share
<1>3. ASSUME NEW r \in Slots, Elsewhere(r), ~Token(r) PROVE GuessInv'
  <2>1. attempts' = attempts
    BY <1>3 DEF Elsewhere, Limit, Auth, JWTValidate, ServeFile, ServeAdmin, ServeOther
  <2>2. req' = req /\ pc' = [pc EXCEPT ![r] = pc'[r]] /\ pc[r] # "idle"
    BY <1>3, ElsewhereMoves DEF TypeOK
  <2>3. pc'[r] \notin {"login", "compare", "failed"}
    <3>1. RateStep(r) => pc'[r] \notin {"login", "compare", "failed"}
      BY DEF RateStep, LookUpBucket, MakeBucket, TakeToken, Goto, Respond, RespondNoting,
             TypeOK, RequestInv
    <3>2. Auth(r) \/ JWTValidate(r) => pc'[r] \notin {"login", "compare", "failed"}
      BY WhoIsAsking DEF TypeOK
    <3>3. ServeFile(r) \/ ServeAdmin(r) \/ ServeOther(r) =>
            pc'[r] \notin {"login", "compare", "failed"}
      BY DEF ServeFile, ServeAdmin, ServeOther, Respond, RespondNoting, TypeOK, RequestInv
    <3> QED BY <1>3, <3>1, <3>2, <3>3 DEF Elsewhere, Limit
  <2> QED BY <2>1, <2>2, <2>3, TablesShrinkTo, GuessesShrink DEF NoNewGuess
<1>4. ASSUME NEW l \in Limiters, NEW k \in DOMAIN attempts[l], attempts' = attempts,
             Trying(l, k)' = Trying(l, k)
      PROVE  Sound(attempts[l][k], Cardinality(Trying(l, k)))'
  BY <1>4 DEF GuessInv, Sound
<1>5. ASSUME NEW r \in Slots, NEW q \in deployment.requests, Arrive(r, q) PROVE GuessInv'
  <2>1. /\ attempts' = attempts /\ pc[r] \in {"idle", "done"} /\ pc'[r] = "limit"
        /\ \A s \in Slots : s # r => pc'[s] = pc[s] /\ req'[s] = req[s]
    BY <1>5 DEF Arrive, TypeOK, RequestInv
  <2>2. ASSUME NEW l \in Limiters, NEW k \in DOMAIN attempts'[l]
        PROVE  Sound(attempts[l][k], Cardinality(Trying(l, k)))'
    <3>1. Trying(l, k)' = Trying(l, k)
      BY <2>1 DEF Trying, Guessing, At, LoginKey, Key
    <3> QED BY <1>4, <2>1, <3>1
  <2> QED BY <2>1, <2>2 DEF GuessInv
<1>6. CASE Restart
  <2>1. /\ attempts' = [l \in Limiters |-> [k \in {} |-> NoAttempt]]
        /\ \A r \in Slots : pc'[r] = "idle"
    BY <1>6 DEF Restart, ForgetAttempts, ForgetRequests
  <2> QED BY <2>1 DEF GuessInv
<1>7. CASE Cleanup \/ Tick \/ UNCHANGED vars
  <2>1. UNCHANGED <<attempts, req, pc, ctx>>
    BY <1>7 DEF Cleanup, Tick, vars, reqVars
  <2>2. ASSUME NEW l \in Limiters, NEW k \in DOMAIN attempts'[l]
        PROVE  Sound(attempts[l][k], Cardinality(Trying(l, k)))'
    <3>1. Trying(l, k)' = Trying(l, k)
      BY <2>1 DEF Trying, Guessing, At, LoginKey, Key
    <3> QED BY <1>4, <2>1, <3>1
  <2> QED BY <2>1, <2>2 DEF GuessInv
<1> QED BY <1>1, <1>2, <1>3, <1>5, <1>6, <1>7, StepCases DEF Steps

\* A key gets as many guesses as the limit allows and one more for every other
\* request that was let through before the lock, in the time that its entry is
\* kept (Allow, RecordFailure, cleanupLocked).
THEOREM GuessesAreBounded == Spec => []GuessesBounded
<1>1. ASSUME Init PROVE GuessInv
  <2>1. attempts = [l \in Limiters |-> [k \in {} |-> NoAttempt]] /\ pc = [r \in Slots |-> "idle"]
    BY <1>1 DEF Init, NoAttempts, NoRequests
  <2> QED BY <2>1 DEF GuessInv
<1>2. TypeOK /\ GuessInv /\ [Next]_vars => GuessInv'
  BY GuessStep
<1>3. ASSUME GuessInv PROVE GuessesBounded
  <2> SUFFICES ASSUME NEW l \in Limiters, NEW k \in DOMAIN attempts[l]
               PROVE  attempts[l][k].recorded + Cardinality(Guessing(l, k))
                        <= MaxFailures - 1 + Cardinality(Slots)
    BY DEF GuessesBounded
  <2>1. Guessing(l, k) \subseteq Trying(l, k)
    BY DEF Trying, Guessing, At
  <2>2. /\ Cardinality(Guessing(l, k)) <= Cardinality(Trying(l, k))
        /\ Cardinality(Guessing(l, k)) \in Nat /\ Cardinality(Trying(l, k)) \in Nat
    BY <2>1, TryingCounts, FS_Subset, FS_CardinalityType
  <2>3. Sound(attempts[l][k], Cardinality(Trying(l, k))) /\ Cardinality(Slots) \in Nat
    BY <1>3, SlotsAreFinite, FS_CardinalityType DEF GuessInv
  <2> QED BY <2>2, <2>3, LimitsArePositive DEF Sound
<1> QED BY <1>1, <1>2, <1>3, TypesHold, PTL DEF Spec

-----------------------------------------------------------------------------
(* Requests.  A bucket never holds more than the ideal one of its key      *)
(* would; it may be dropped when the ideal one is full again.              *)

Bucket == [tokens : 0 .. Burst, at : Nat]

\* What a bucket would hold at time n if it were not bounded, and how that
\* compares with another one at any later time.
Level(x, n) == x.tokens + (n - x.at) * Rate
Credit(x) == x.tokens - x.at * Rate
Below(x, y, n) == Credit(x) <= Credit(y) \/ Level(y, n) >= Burst

RateInv ==
  /\ made \in 0 .. MaxBuckets /\ dropped \subseteq 1 .. made
  /\ bucketOf \in [RateKeys -> 0 .. made] /\ held \in [Slots -> 0 .. made]
  /\ bucket \in [Buckets -> Bucket] /\ \A b \in Buckets : bucket[b].at <= now
  /\ ideal \in [RateKeys -> Bucket] /\ \A k \in RateKeys : ideal[k].at <= now
  /\ \A k \in RateKeys :
       IF bucketOf[k] = 0 THEN Level(ideal[k], now) >= Burst
       ELSE bucketOf[k] \notin dropped /\ Below(bucket[bucketOf[k]], ideal[k], now)
  /\ \A k, j \in RateKeys : bucketOf[k] = bucketOf[j] /\ k # j => bucketOf[k] = 0
  /\ \A r \in Slots : pc[r] = "take" =>
       held[r] # 0 /\ (held[r] \in dropped \/ bucketOf[RateKey(r)] = held[r])

LEMMA LevelIsCredit ==
  ASSUME NEW x \in Bucket, NEW n \in Nat
  PROVE  /\ Credit(x) \in Int /\ n * Rate \in Nat /\ Level(x, n) = Credit(x) + n * Rate
         /\ x.tokens \in 0 .. Burst /\ x.at \in Nat /\ Level(x, n) \in Int
<1>1. x.tokens \in 0 .. Burst /\ x.at \in Nat
  BY DEF Bucket
<1>2. ASSUME NEW t \in Int, NEW a \in Nat
      PROVE  /\ t - a * Rate \in Int /\ n * Rate \in Nat
             /\ t + (n - a) * Rate = t - a * Rate + n * Rate
  BY RatesAreNatural
<1> QED BY <1>1, <1>2, RatesAreNatural DEF Level, Credit

LEMMA Multiples ==
  ASSUME NEW m \in Nat, NEW n \in Nat, m <= n
  PROVE  m * Rate \in Nat /\ n * Rate \in Nat /\ m * Rate <= n * Rate
<1>1. ASSUME NEW d \in Nat
      PROVE  (m + d) * Rate = m * Rate + d * Rate /\ d * Rate \in Nat /\ m * Rate \in Nat
  BY RatesAreNatural
<1>2. PICK d \in Nat : n = m + d
  OBVIOUS
<1>3. (m + d) * Rate = m * Rate + d * Rate /\ d * Rate \in Nat /\ m * Rate \in Nat
  BY <1>1
<1>4. ASSUME NEW x, NEW y \in Nat, NEW z \in Nat, x = y + z PROVE x \in Nat /\ y <= x
  BY <1>4
<1>5. (m + d) * Rate \in Nat /\ m * Rate <= (m + d) * Rate
  BY <1>3, <1>4
<1> QED BY <1>2, <1>3, <1>5

LEMMA LevelsRise ==
  ASSUME NEW x \in Bucket, NEW m \in Nat, NEW n \in Nat, m <= n
  PROVE  Level(x, m) \in Int /\ Level(x, n) \in Int /\ Level(x, m) <= Level(x, n)
BY LevelIsCredit, Multiples

\* The lock of a bucket: it is refilled, and a token taken.
LEMMA RefilledIsBucket ==
  ASSUME NEW x \in Bucket, x.at <= now, now \in Nat
  PROVE  /\ Refilled(x) \in 0 .. Burst
         /\ Refilled(x) = IF Level(x, now) < Burst THEN Level(x, now) ELSE Burst
         /\ Refilled(x) <= Level(x, now)
         /\ [tokens |-> Refilled(x), at |-> now] \in Bucket
         /\ Refilled(x) > 0 => [tokens |-> Refilled(x) - 1, at |-> now] \in Bucket
<1>1. Refilled(x) = IF Level(x, now) < Burst THEN Level(x, now) ELSE Burst
  BY DEF Refilled, Level
<1>2. Level(x, x.at) = x.tokens
  BY RatesAreNatural DEF Level, Bucket
<1>3. Level(x, now) \in Nat
  BY <1>2, LevelsRise, LevelIsCredit
<1>4. Refilled(x) \in 0 .. Burst
  BY <1>1, <1>3, RatesAreNatural
<1> QED BY <1>1, <1>3, <1>4, RatesAreNatural DEF Bucket

LEMMA RefilledBelow ==
  ASSUME NEW x \in Bucket, NEW y \in Bucket, x.at <= now, y.at <= now, now \in Nat, Below(x, y, now)
  PROVE  Refilled(x) <= Refilled(y)
<1>1. Level(x, now) = Credit(x) + now * Rate /\ Level(y, now) = Credit(y) + now * Rate
  BY LevelIsCredit
<1>2. Credit(x) \in Int /\ Credit(y) \in Int /\ now * Rate \in Nat
  BY LevelIsCredit
<1>3. /\ Refilled(x) = IF Level(x, now) < Burst THEN Level(x, now) ELSE Burst
      /\ Refilled(y) = IF Level(y, now) < Burst THEN Level(y, now) ELSE Burst
  BY RefilledIsBucket
<1> QED BY <1>1, <1>2, <1>3, RatesAreNatural DEF Below

LEMMA RateKept ==
  ASSUME TypeOK, RateInv, now' \in Nat, now' >= now, UNCHANGED rateVars,
         \A r \in Slots : pc'[r] = "take" => pc[r] = "take" /\ RateKey(r)' = RateKey(r)
  PROVE  RateInv'
<1>n. now \in Nat
  BY DEF TypeOK, RequestInv
<1>1. ASSUME NEW k \in RateKeys, bucketOf[k] = 0 PROVE Level(ideal[k], now') >= Burst
  BY <1>1, <1>n, LevelsRise, RatesAreNatural DEF RateInv
<1>2. ASSUME NEW k \in RateKeys, bucketOf[k] # 0 PROVE Below(bucket[bucketOf[k]], ideal[k], now')
  BY <1>2, <1>n, LevelsRise, RatesAreNatural DEF RateInv, Below
<1>3. /\ \A b \in Buckets : bucket[b].at <= now'
      /\ \A k \in RateKeys : ideal[k].at <= now'
  BY <1>n DEF RateInv, Bucket
<1>4. ASSUME NEW r \in Slots, pc'[r] = "take"
      PROVE  held[r] # 0 /\ (held[r] \in dropped \/ bucketOf[RateKey(r)'] = held[r])
  BY <1>4 DEF RateInv
<1> QED BY <1>1, <1>2, <1>3, <1>4 DEF RateInv, rateVars

LEMMA KeyOfRequest ==
  ASSUME TypeOK, NEW r \in Slots, pc[r] # "idle"
  PROVE  RateKey(r) \in RateKeys
<1>1. req[r] \in RequestSet /\ ctx[r].space \in Spaces
  BY Served DEF TypeOK, RequestInv, Context
<1> QED BY <1>1 DEF RateKey, RateKeys, RequestSet

LEMMA RateByRequest ==
  ASSUME TypeOK, RateInv, NEW r \in Slots, RateStep(r), now' = now PROVE RateInv'
<1>0. pc[r] # "idle" /\ req' = req /\ \A s \in Slots : s # r => pc'[s] = pc[s] /\ ctx'[s] = ctx[s]
  BY RateMoves, OthersStay DEF TypeOK, RequestInv
<1> DEFINE k == RateKey(r)
<1>k. k \in RateKeys /\ now \in Nat /\ 0 < Burst
  BY <1>0, KeyOfRequest, RatesAreNatural DEF TypeOK, RequestInv
<1>s. ASSUME NEW s \in Slots, s # r PROVE RateKey(s)' = RateKey(s)
  BY <1>0, <1>s DEF RateKey
<1>c. ctx' = ctx => RateKey(r)' = RateKey(r)
  BY <1>0 DEF RateKey
<1>1. CASE LookUpBucket(r) \/ (MakeBucket(r) /\ bucketOf[k] # 0)
  <2>1. /\ UNCHANGED <<bucketOf, bucket, made, dropped, ideal, ctx>>
        /\ \A s \in Slots : s # r => held'[s] = held[s]
        /\ held' \in [Slots -> 0 .. made]
        /\ pc'[r] = "take" => held'[r] # 0 /\ held'[r] = bucketOf[k]
    BY <1>1, <1>k DEF LookUpBucket, MakeBucket, Goto, RateInv, TypeOK, RequestInv
  <2>2. ASSUME NEW s \in Slots, pc'[s] = "take"
        PROVE  held'[s] # 0 /\ (held'[s] \in dropped' \/ bucketOf'[RateKey(s)'] = held'[s])
    BY <1>0, <1>s, <1>c, <2>1, <2>2 DEF RateInv
  <2> QED BY <2>1, <2>2 DEF RateInv
<1>2. CASE MakeBucket(r) /\ bucketOf[k] = 0
  <2> DEFINE b == made + 1
  <2>1. /\ b \in Buckets /\ made' = b /\ UNCHANGED <<dropped, ideal, ctx>>
        /\ bucketOf' = [bucketOf EXCEPT ![k] = b] /\ bucket' = [bucket EXCEPT ![b] = Full]
        /\ held' = [held EXCEPT ![r] = b]
    BY <1>2, RatesAreNatural DEF MakeBucket, Goto, RateInv, Buckets
  <2>2. Full \in Bucket /\ Full.at = now
    BY <1>k, RatesAreNatural DEF Full, Bucket
  <2>3. /\ b \notin dropped /\ \A j \in RateKeys : bucketOf[j] # b
        /\ bucketOf'[k] = b /\ \A j \in RateKeys : j # k => bucketOf'[j] = bucketOf[j]
        /\ bucket'[b] = Full /\ \A a \in Buckets : a # b => bucket'[a] = bucket[a]
        /\ held'[r] = b /\ \A s \in Slots : s # r => held'[s] = held[s]
    BY <1>k, <2>1 DEF RateInv
  <2>4. made' \in 0 .. MaxBuckets /\ dropped' \subseteq 1 .. made'
        /\ bucketOf' \in [RateKeys -> 0 .. made'] /\ held' \in [Slots -> 0 .. made']
        /\ bucket' \in [Buckets -> Bucket] /\ \A a \in Buckets : bucket'[a].at <= now
    BY <1>k, <2>1, <2>2, <2>3, RatesAreNatural DEF RateInv, Buckets
  <2>5. ASSUME NEW j \in RateKeys
        PROVE  IF bucketOf'[j] = 0 THEN Level(ideal[j], now) >= Burst
               ELSE bucketOf'[j] \notin dropped /\ Below(bucket'[bucketOf'[j]], ideal[j], now)
    <3>1. CASE j = k
      BY <1>2, <2>1, <2>3, <3>1 DEF RateInv, Below
    <3>2. CASE j # k /\ bucketOf[j] # 0
      <4>1. bucketOf[j] \in Buckets /\ bucketOf[j] # b
        BY <2>3, <3>2, RatesAreNatural DEF RateInv, Buckets
      <4> QED BY <2>3, <3>2, <4>1 DEF RateInv
    <3>3. CASE j # k /\ bucketOf[j] = 0
      BY <2>3, <3>3 DEF RateInv
    <3> QED BY <3>1, <3>2, <3>3
  <2>6. ASSUME NEW i \in RateKeys, NEW j \in RateKeys, bucketOf'[i] = bucketOf'[j], i # j
        PROVE  bucketOf'[i] = 0
    BY <2>3, <2>6 DEF RateInv
  <2>7. ASSUME NEW s \in Slots, pc'[s] = "take"
        PROVE  held'[s] # 0 /\ (held'[s] \in dropped \/ bucketOf'[RateKey(s)'] = held'[s])
    <3>1. CASE s = r
      BY <1>c, <1>k, <2>1, <2>3, <3>1 DEF RateInv
    <3>2. CASE s # r
      <4>1. pc[s] = "take" /\ RateKey(s)' = RateKey(s) /\ RateKey(s) \in RateKeys
        BY <1>0, <1>s, <2>7, <3>2, KeyOfRequest
      <4>2. held[s] # 0 /\ (held[s] \in dropped \/ bucketOf[RateKey(s)] = held[s])
        BY <4>1 DEF RateInv
      <4> QED BY <1>2, <2>3, <3>2, <4>1, <4>2
    <3> QED BY <3>1, <3>2
  <2> HIDE DEF b, k
  <2> QED BY <2>1, <2>4, <2>5, <2>6, <2>7 DEF RateInv
<1>3. CASE TakeToken(r)
  <2> DEFINE b == held[r]
             there == Refilled(bucket[b]) > 0
  <2>1. /\ b \in Buckets /\ (b \in dropped \/ bucketOf[k] = b) /\ pc'[r] # "take"
        /\ bucket[b] \in Bucket /\ bucket[b].at <= now
        /\ ideal[k] \in Bucket /\ ideal[k].at <= now
    <3>1. /\ b \in 1 .. made /\ (b \in dropped \/ bucketOf[k] = b)
          /\ ideal[k] \in Bucket /\ ideal[k].at <= now
      BY <1>3, <1>k, RatesAreNatural DEF TakeToken, RateInv
    <3>2. b \in Buckets
      BY <3>1, RatesAreNatural DEF RateInv, Buckets
    <3>3. pc'[r] # "take"
      BY <1>3 DEF TakeToken, Goto, Respond, RespondNoting, TypeOK, RequestInv
    <3> QED BY <3>1, <3>2, <3>3 DEF RateInv
  <2>2. /\ bucket' = [bucket EXCEPT ![b] =
             [tokens |-> IF there THEN Refilled(bucket[b]) - 1 ELSE Refilled(bucket[b]), at |-> now]]
        /\ ideal' = IF there /\ b \notin dropped
                    THEN [ideal EXCEPT ![k] = [tokens |-> Refilled(ideal[k]) - 1, at |-> now]]
                    ELSE ideal
        /\ UNCHANGED <<bucketOf, made, dropped>> /\ held' = [held EXCEPT ![r] = 0]
    BY <1>3, <1>k, <2>1 DEF TakeToken, RateInv
  <2>3. bucket'[b] \in Bucket /\ bucket'[b].at = now
        /\ bucket'[b].tokens \in Int /\ bucket'[b].tokens <= Refilled(bucket[b])
    <3>1. /\ Refilled(bucket[b]) \in 0 .. Burst
          /\ [tokens |-> Refilled(bucket[b]), at |-> now] \in Bucket
          /\ there => [tokens |-> Refilled(bucket[b]) - 1, at |-> now] \in Bucket
      BY <1>k, <2>1, RefilledIsBucket
    <3>2. bucket'[b] = [tokens |-> IF there THEN Refilled(bucket[b]) - 1 ELSE Refilled(bucket[b]),
                        at |-> now]
      BY <2>1, <2>2 DEF RateInv
    <3> HIDE DEF b
    <3> QED BY <3>1, <3>2, RatesAreNatural
  <2>4. b \notin dropped => Refilled(bucket[b]) <= Refilled(ideal[k])
    <3>1. ASSUME b \notin dropped PROVE Below(bucket[b], ideal[k], now)
      BY <1>k, <2>1, <3>1 DEF RateInv, Buckets
    <3> QED BY <1>k, <2>1, <3>1, RefilledBelow
  <2>5. /\ ideal' \in [RateKeys -> Bucket] /\ \A j \in RateKeys : ideal'[j].at <= now
        /\ \A j \in RateKeys : j # k => ideal'[j] = ideal[j]
    <3>1. CASE there /\ b \notin dropped
      <4>1. Refilled(bucket[b]) \in 0 .. Burst /\ Refilled(ideal[k]) \in 0 .. Burst
        BY <1>k, <2>1, RefilledIsBucket
      <4>2. Refilled(ideal[k]) > 0
        BY <2>4, <3>1, <4>1
      <4>3. [tokens |-> Refilled(ideal[k]) - 1, at |-> now] \in Bucket
        BY <1>k, <2>1, <4>2, RefilledIsBucket
      <4> QED BY <1>k, <2>2, <3>1, <4>3 DEF RateInv
    <3>2. CASE ~(there /\ b \notin dropped)
      BY <2>2, <3>2 DEF RateInv
    <3> QED BY <3>1, <3>2
  <2>6. \A a \in Buckets : a # b => bucket'[a] = bucket[a]
    BY <2>2 DEF RateInv
  <2>7. ASSUME b \notin dropped PROVE Below(bucket'[b], ideal'[k], now)
    <3>1. CASE there
      <4>1. /\ bucket'[b] = [tokens |-> Refilled(bucket[b]) - 1, at |-> now]
            /\ ideal'[k] = [tokens |-> Refilled(ideal[k]) - 1, at |-> now]
        BY <1>k, <2>1, <2>2, <2>7, <3>1 DEF RateInv
      <4>2. now * Rate \in Int
        BY <1>k, <2>1, LevelIsCredit
      <4>3. Refilled(bucket[b]) \in 0 .. Burst /\ Refilled(ideal[k]) \in 0 .. Burst
        BY <1>k, <2>1, RefilledIsBucket
      <4> QED BY <2>4, <2>7, <4>1, <4>2, <4>3, RatesAreNatural DEF Below, Credit
    <3>2. CASE ~there
      <4>1. bucket'[b] = [tokens |-> Refilled(bucket[b]), at |-> now] /\ ideal' = ideal
        BY <2>1, <2>2, <3>2 DEF RateInv
      <4>2. /\ Level(bucket[b], now) = Credit(bucket[b]) + now * Rate
            /\ Credit(bucket[b]) \in Int /\ now * Rate \in Int
            /\ Level(bucket[b], now) \in Int /\ Credit(ideal[k]) \in Int
        BY <1>k, <2>1, LevelIsCredit
      <4>6. Refilled(bucket[b]) <= Level(bucket[b], now) /\ Refilled(bucket[b]) \in 0 .. Burst
        BY <1>k, <2>1, RefilledIsBucket
      <4>3. Credit(bucket'[b]) = Refilled(bucket[b]) - now * Rate
        BY <4>1 DEF Credit
      <4>4. Credit(bucket'[b]) <= Credit(bucket[b]) /\ Credit(bucket'[b]) \in Int
        BY <4>2, <4>3, <4>6
      <4>5. Below(bucket[b], ideal[k], now)
        BY <1>k, <2>1, <2>7 DEF RateInv, Buckets
      <4> QED BY <4>1, <4>2, <4>4, <4>5 DEF Below
    <3> QED BY <3>1, <3>2
  <2>8. ASSUME NEW j \in RateKeys
        PROVE  IF bucketOf[j] = 0 THEN Level(ideal'[j], now) >= Burst
               ELSE bucketOf[j] \notin dropped /\ Below(bucket'[bucketOf[j]], ideal'[j], now)
    <3>1. CASE j = k /\ b \notin dropped
      BY <2>1, <2>7, <3>1 DEF Buckets
    <3>2. CASE j = k /\ b \in dropped
      <4>1. ideal' = ideal /\ (bucketOf[j] # b \/ bucketOf[j] = 0)
        BY <2>2, <3>2 DEF RateInv
      <4>2. bucketOf[j] # 0 => bucketOf[j] \in Buckets /\ bucketOf[j] \notin dropped
        BY RatesAreNatural DEF RateInv, Buckets
      <4> QED BY <2>2, <2>6, <3>2, <4>1, <4>2 DEF RateInv
    <3>3. CASE j # k
      <4>1. bucketOf[j] # 0 => bucketOf[j] \in Buckets /\ bucketOf[j] \notin dropped
        BY RatesAreNatural DEF RateInv, Buckets
      <4>2. bucketOf[j] # 0 => bucketOf[j] # b
        BY <1>k, <2>1, <3>3, <4>1 DEF RateInv
      <4> QED BY <2>5, <2>6, <3>3, <4>1, <4>2 DEF RateInv
    <3> QED BY <3>1, <3>2, <3>3
  <2>9. ASSUME NEW s \in Slots, pc'[s] = "take"
        PROVE  held'[s] # 0 /\ (held'[s] \in dropped \/ bucketOf[RateKey(s)'] = held'[s])
    <3>1. s # r /\ pc[s] = "take" /\ RateKey(s)' = RateKey(s) /\ held'[s] = held[s]
      BY <1>0, <1>s, <2>1, <2>2, <2>9 DEF RateInv
    <3> QED BY <3>1 DEF RateInv
  <2>10. /\ held' \in [Slots -> 0 .. made] /\ bucket' \in [Buckets -> Bucket]
         /\ \A a \in Buckets : bucket'[a].at <= now
    <3>1. held' \in [Slots -> 0 .. made]
      BY <2>2, RatesAreNatural DEF RateInv
    <3>2. DOMAIN bucket' = Buckets /\ bucket' = [a \in Buckets |-> bucket'[a]]
      BY <2>2 DEF RateInv
    <3>3. \A a \in Buckets : bucket'[a] \in Bucket /\ bucket'[a].at <= now
      <4>1. \A a \in Buckets : bucket[a] \in Bucket /\ bucket[a].at <= now
        BY DEF RateInv
      <4>2. now <= now
        BY <1>k
      <4> HIDE DEF b
      <4> QED BY <2>3, <2>6, <4>1, <4>2
    <3> QED BY <3>1, <3>2, <3>3
  <2> HIDE DEF b, there, k
  <2> QED BY <2>2, <2>5, <2>8, <2>9, <2>10 DEF RateInv
<1> QED BY <1>1, <1>2, <1>3 DEF RateStep

\* Whoever was idle long enough to be dropped is full, and so is the ideal one.
LEMMA RateByCleanup ==
  ASSUME TypeOK, RateInv, CleanupBuckets, UNCHANGED <<now, req, pc, ctx>> PROVE RateInv'
<1> DEFINE idle == {k \in RateKeys : bucketOf[k] # 0 /\ now - bucket[bucketOf[k]].at > MaxIdle}
<1>1. /\ bucketOf' = [k \in RateKeys |-> IF k \in idle THEN 0 ELSE bucketOf[k]]
      /\ dropped' = dropped \union {bucketOf[k] : k \in idle}
      /\ UNCHANGED <<bucket, made, held, ideal>>
  BY DEF CleanupBuckets
<1>n. now \in Nat
  BY DEF TypeOK, RequestInv
<1>2. ASSUME NEW k \in idle PROVE Level(ideal[k], now) >= Burst
  <2> DEFINE x == bucket[bucketOf[k]]
  <2>1. /\ k \in RateKeys /\ x \in Bucket /\ x.at <= now /\ now - x.at > MaxIdle
        /\ ideal[k] \in Bucket /\ ideal[k].at <= now /\ Below(x, ideal[k], now)
    BY <1>2, RatesAreNatural DEF RateInv, Buckets
  <2> HIDE DEF x
  <2>2. /\ x.tokens \in 0 .. Burst /\ x.at \in Nat /\ now - x.at \in Nat /\ MaxIdle + 1 \in Nat
        /\ MaxIdle + 1 <= now - x.at
    BY <1>n, <2>1, RatesAreNatural DEF Bucket
  <2>3. (MaxIdle + 1) * Rate >= Burst /\ (MaxIdle + 1) * Rate \in Nat
    BY <2>2, RatesAreNatural
  <2>4. (now - x.at) * Rate >= (MaxIdle + 1) * Rate /\ (now - x.at) * Rate \in Nat
    BY <2>2, Multiples
  <2>5. Level(x, now) >= Burst
    BY <2>2, <2>3, <2>4, RatesAreNatural DEF Level
  <2>6. Credit(x) <= Credit(ideal[k]) => Level(x, now) <= Level(ideal[k], now)
    <3>1. /\ Level(x, now) = Credit(x) + now * Rate /\ Credit(x) \in Int /\ now * Rate \in Nat
          /\ Level(ideal[k], now) = Credit(ideal[k]) + now * Rate /\ Credit(ideal[k]) \in Int
      BY <1>n, <2>1, LevelIsCredit
    <3> QED BY <3>1
  <2>7. Level(x, now) \in Int /\ Level(ideal[k], now) \in Int
    BY <1>n, <2>1, LevelIsCredit
  <2> QED BY <2>1, <2>5, <2>6, <2>7, RatesAreNatural DEF Below
<1>3. ASSUME NEW k \in RateKeys, bucketOf'[k] # 0
      PROVE  bucketOf'[k] = bucketOf[k] /\ bucketOf[k] \notin dropped'
  <2>1. bucketOf'[k] = bucketOf[k] /\ k \notin idle
    BY <1>1, <1>3
  <2>2. bucketOf[k] \notin dropped /\ \A j \in RateKeys : j # k => bucketOf[j] # bucketOf[k]
    BY <1>3, <2>1 DEF RateInv
  <2>3. ASSUME NEW j \in idle PROVE bucketOf[j] # bucketOf[k]
    BY <2>1, <2>2
  <2> HIDE DEF idle
  <2> QED BY <1>1, <2>1, <2>2, <2>3
<1>4. /\ dropped' \subseteq 1 .. made /\ bucketOf' \in [RateKeys -> 0 .. made]
      /\ \A k, j \in RateKeys : bucketOf'[k] = bucketOf'[j] /\ k # j => bucketOf'[k] = 0
  <2>1. dropped' \subseteq 1 .. made
    <3>1. \A k \in idle : bucketOf[k] \in 1 .. made
      BY RatesAreNatural DEF RateInv
    <3> HIDE DEF idle
    <3> QED BY <1>1, <3>1 DEF RateInv
  <2>2. bucketOf' \in [RateKeys -> 0 .. made]
    BY <1>1, RatesAreNatural DEF RateInv
  <2>3. \A k, j \in RateKeys : bucketOf'[k] = bucketOf'[j] /\ k # j => bucketOf'[k] = 0
    BY <1>3 DEF RateInv
  <2> QED BY <2>1, <2>2, <2>3
<1>5. ASSUME NEW k \in RateKeys
      PROVE  IF bucketOf'[k] = 0 THEN Level(ideal[k], now) >= Burst
             ELSE bucketOf'[k] \notin dropped' /\ Below(bucket[bucketOf'[k]], ideal[k], now)
  BY <1>1, <1>2, <1>3 DEF RateInv
<1>6. ASSUME NEW r \in Slots, pc[r] = "take"
      PROVE  held[r] # 0 /\ (held[r] \in dropped' \/ bucketOf'[RateKey(r)] = held[r])
  <2>1. held[r] # 0 /\ (held[r] \in dropped \/ bucketOf[RateKey(r)] = held[r])
    BY <1>6 DEF RateInv
  <2>2. RateKey(r) \in RateKeys
    BY <1>6, KeyOfRequest
  <2> QED BY <1>1, <2>1, <2>2
<1>7. ASSUME NEW r \in Slots PROVE RateKey(r)' = RateKey(r)
  BY DEF RateKey
<1> HIDE DEF idle
<1> QED BY <1>1, <1>4, <1>5, <1>6, <1>7 DEF RateInv

LEMMA FullIsFull ==
  ASSUME now \in Nat
  PROVE  /\ Full \in Bucket /\ Full.at = now /\ Full.tokens = Burst /\ Level(Full, now) >= Burst
BY RatesAreNatural DEF Full, Bucket, Level

LEMMA RateStepKeeps == ASSUME TypeOK, RateInv, [Next]_vars PROVE RateInv'
<1>n. now \in Nat /\ now <= now
  BY DEF TypeOK, RequestInv
<1>1. ASSUME NEW r \in Slots, Limit(r) PROVE RateInv'
  BY <1>1, RateByRequest DEF Limit, worldVars
<1>2. ASSUME NEW r \in Slots, Elsewhere(r) \/ Share(r), ~Limit(r) PROVE RateInv'
  <2>1. UNCHANGED <<now, rateVars>>
    BY <1>2 DEF Elsewhere, Share, Token, Auth, JWTValidate, ServeFile, ServeAdmin, ServeOther, worldVars
  <2>2. pc[r] # "idle" /\ req' = req /\ \A s \in Slots : s # r => pc'[s] = pc[s] /\ ctx'[s] = ctx[s]
    <3>1. CASE Elsewhere(r)
      BY <3>1, ElsewhereMoves DEF TypeOK, RequestInv
    <3>2. CASE Share(r)
      BY <3>2, ShareMoves, OthersStay DEF TypeOK, RequestInv, Share
    <3> QED BY <1>2, <3>1, <3>2
  <2>3. pc'[r] # "take"
    <3>a. \A status, entries : RespondNoting(r, status, entries) => pc'[r] = "done"
      BY DEF RespondNoting, TypeOK, RequestInv
    <3>1. Token(r) => pc'[r] # "take"
      <4>1. TokenStep(r) =>
              \/ \E place \in {"login", "failed", "reset", "claim", "setnx", "issue"} : Goto(r, place)
              \/ \E status \in Nat : RespondNoting(r, status, {})
        BY DEF TokenStep, BeginLogin, ComparePassword, RecordLoginFailure, ResetLogin,
               ParseRefresh, ClaimInMemory, ComputeTTL, SetNX, IssueRefreshed, Me, Claimed, Respond
      <4>2. ASSUME NEW place \in {"login", "failed", "reset", "claim", "setnx", "issue"},
                   Goto(r, place)
            PROVE  pc'[r] # "take"
        BY <4>2 DEF Goto, TypeOK, RequestInv
      <4>3. Token(r) => TokenStep(r)
        BY DEF Token
      <4> QED BY <3>a, <4>1, <4>2, <4>3
    <3>2. Share(r) => pc'[r] # "take"
      BY LinkMoves DEF TypeOK, Share, ShareStep
    <3>3. Auth(r) \/ JWTValidate(r) => pc'[r] # "take"
      BY WhoIsAsking DEF TypeOK
    <3>4. ServeFile(r) \/ ServeAdmin(r) \/ ServeOther(r) => pc'[r] # "take"
      BY <3>a DEF ServeFile, ServeAdmin, ServeOther, Respond
    <3> QED BY <1>2, <3>1, <3>2, <3>3, <3>4 DEF Elsewhere
  <2>4. ASSUME NEW s \in Slots, pc'[s] = "take" PROVE pc[s] = "take" /\ RateKey(s)' = RateKey(s)
    BY <2>2, <2>3, <2>4 DEF RateKey
  <2> QED BY <1>n, <2>1, <2>4, RateKept
<1>3. ASSUME NEW r \in Slots, NEW q \in deployment.requests, Arrive(r, q) PROVE RateInv'
  <2>1. /\ UNCHANGED <<now, rateVars>> /\ pc'[r] = "limit"
        /\ \A s \in Slots : s # r => pc'[s] = pc[s] /\ req'[s] = req[s] /\ ctx'[s] = ctx[s]
    BY <1>3 DEF Arrive, TypeOK, RequestInv
  <2>2. ASSUME NEW s \in Slots, pc'[s] = "take" PROVE pc[s] = "take" /\ RateKey(s)' = RateKey(s)
    BY <2>1, <2>2 DEF RateKey
  <2> QED BY <1>n, <2>1, <2>2, RateKept
<1>4. CASE Restart
  <2>1. /\ now' = now /\ bucketOf' = [k \in RateKeys |-> 0] /\ bucket' = [b \in Buckets |-> Full]
        /\ made' = 0 /\ dropped' = {} /\ held' = [r \in Slots |-> 0]
        /\ ideal' = [k \in RateKeys |-> Full] /\ \A r \in Slots : pc'[r] = "idle"
    BY <1>4 DEF Restart, ForgetBuckets, ForgetRequests
  <2> QED BY <1>n, <2>1, FullIsFull, RatesAreNatural DEF RateInv
<1>5. CASE Cleanup
  BY <1>5, RateByCleanup DEF Cleanup, reqVars, worldVars
<1>6. CASE Tick \/ UNCHANGED vars
  <2>1. UNCHANGED <<rateVars, reqVars>> /\ now' \in Nat /\ now' >= now
    BY <1>6, <1>n DEF Tick, vars, worldVars
  <2>2. ASSUME NEW s \in Slots PROVE RateKey(s)' = RateKey(s)
    BY <2>1 DEF RateKey, reqVars
  <2> QED BY <1>n, <2>1, <2>2, RateKept DEF reqVars
<1> QED BY <1>1, <1>2, <1>3, <1>4, <1>5, <1>6, StepCases DEF Steps

\* A key is not granted more requests than one bucket that is never dropped
\* would grant, though requests race to make it and Cleanup drops it
\* (RateLimiterGroup).
THEOREM RatesHold == Spec => []RateWithinBurst
<1>1. ASSUME Init PROVE RateInv
  <2>1. /\ now = 1 /\ bucketOf = [k \in RateKeys |-> 0] /\ bucket = [b \in Buckets |-> Full]
        /\ made = 0 /\ dropped = {} /\ held = [r \in Slots |-> 0]
        /\ ideal = [k \in RateKeys |-> Full] /\ pc = [r \in Slots |-> "idle"]
    BY <1>1 DEF Init, NoBuckets, NoRequests
  <2> QED BY <2>1, FullIsFull, RatesAreNatural DEF RateInv
<1>2. TypeOK /\ RateInv /\ [Next]_vars => RateInv'
  BY RateStepKeeps
<1>3. RateInv => RateWithinBurst
  BY RatesAreNatural DEF RateInv, RateWithinBurst, Bucket
<1> QED BY <1>1, <1>2, <1>3, TypesHold, PTL DEF Spec

=============================================================================
