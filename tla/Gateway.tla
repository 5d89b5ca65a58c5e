------------------------------ MODULE Gateway -------------------------------
(***************************************************************************)
(* The way of a request through the server: the audit around everything,   *)
(* the rate limit, the static service token, the JWT, the namespace, then  *)
(* the handler of the route.  Composes the rate limiter, the token service *)
(* and the share links, and adds the routes of files and administration.   *)
(*                                                                         *)
(* A deployment says how the server is configured, what it finds in its    *)
(* tables and what its clients may ask; it is chosen once.                 *)
(***************************************************************************)
EXTENDS RateLimiter, ShareAccess, TokenService

CONSTANTS
  Deployments    \* [static, jwt, enforce, store, shares, pairs, requests] and the
                 \* bounds of the model on its clock, its requests and its
                 \* crashes: [time, arrivals, restarts]

Routes == {"s", "s_form", "share_create", "share_list", "share_revoke", "stat", "trash",
           "admin", "upload", "health", "login", "refresh", "me"}

\* What a client may send; a cookie is a link and the end of its time.  A user
\* name need not be a configured one.
RequestSet ==
  [route : Routes, client : Clients, static : {None, "right", "wrong"},
   bearer : {"none", "malformed", "forged", "pair"}, space : Spaces \union {None},
   token : Nat, pair : Nat, user : STRING, password : Passwords \union {None},
   cookie : (Nat \X Nat) \union {None}, html : BOOLEAN, range : {None, "part", "bad"}, file : Files,
   terms : [secret : BOOLEAN, life : Nat, max : Nat]]

\* Links are numbered as they were made, and none was opened more often than
\* it may be; a refresh names a token pair.
ASSUME DeploymentsAreServed ==
  \A d \in Deployments :
    /\ \E n \in 0 .. MaxShares : d.shares \in [1 .. n -> ShareRow]
    /\ \A t \in DOMAIN d.shares : d.shares[t].max > 0 => d.shares[t].cur <= d.shares[t].max
    /\ d.pairs \in Seq(TokenPair) /\ Len(d.pairs) <= MaxPairs
    /\ d.requests \subseteq RequestSet
    /\ \A q \in d.requests : q.route = "refresh" => q.pair > 0

VARIABLES deployment, arrivals, restarts

worldVars == <<deployment, now, arrivals, restarts>>
vars == <<reqVars, rateVars, attempts, shareVars, tokenVars, worldVars>>

Init ==
  /\ deployment \in Deployments
  /\ now = 1 /\ arrivals = 0 /\ restarts = 0
  /\ NoRequests /\ NoBuckets /\ NoAttempts
  /\ InitShares(deployment.shares)
  /\ InitTokens(deployment.pairs, deployment.store)

\* A client can only name links and token pairs that it has been given.
Known(q) == q.token <= minted /\ q.pair <= Len(pairs)

\* A cookie can be carried anywhere, and one client may hold several or none.
Held(q) == IF q.route = "s" THEN cookies \union {None} ELSE {None}

Arrive(r, q) ==
  /\ pc[r] \in {"idle", "done"} /\ arrivals < deployment.arrivals /\ Known(q)
  /\ arrivals' = arrivals + 1
  /\ \E c \in Held(q) : req' = [req EXCEPT ![r] = [q EXCEPT !.cookie = c]]
  /\ pc' = [pc EXCEPT ![r] = "limit"]
  /\ ctx' = [ctx EXCEPT ![r] = EmptyContext]
  /\ entry' = [entry EXCEPT ![r] = None]
  /\ UNCHANGED <<rateVars, attempts, shares, minted, cookies, live, opened, knows,
                 tokenVars, deployment, now, restarts>>

-----------------------------------------------------------------------------
(* Who is asking: Auth, JWTValidate and Namespace touch nothing but the    *)
(* context of the request and the state of its audit.                      *)

Public == {"login", "refresh", "s", "s_form", "health"}

Bearer(q) == IF q.bearer \in {"none", "malformed"} THEN "absent"
             ELSE IF q.bearer = "pair" /\ ValidAccess(q.pair) THEN "valid" ELSE "invalid"

IsAdmin(p) == pairs[p].user \in Admins

\* Mutant: the header wins, as it does without a token.
RequestedSpace(q, p) ==
  IF q.space # None THEN q.space ELSE IF p = None THEN DefaultSpace ELSE UserSpace[pairs[p].user]

\* Only an administrator may leave the namespace of his token; without a token
\* the header decides.
SpaceOf(q, p) ==
  LET requested == IF q.space = None THEN DefaultSpace ELSE q.space IN
  IF p = None \/ (IsAdmin(p) /\ q.space # None) THEN requested ELSE UserSpace[pairs[p].user]

\* Auth: where a service token is configured, only public routes go without.
Auth(r) ==
  LET q == req[r]  asked == deployment.static /\ q.route \notin Public IN
  /\ pc[r] = "auth"
  /\ CASE asked /\ q.static = None -> Respond(r, 401)
       [] asked /\ q.static = "wrong" -> Respond(r, 403)
       [] OTHER ->
            /\ pc' = [pc EXCEPT ![r] = "jwt"]
            /\ ctx' = IF asked THEN [ctx EXCEPT ![r].service = TRUE, ![r].actor = "static-token"]
                      ELSE ctx
            /\ UNCHANGED req
  /\ UNCHANGED <<rateVars, attempts, shareVars, tokenVars, worldVars>>

\* JWTValidate and Namespace: a bad token is refused even on a public route, a
\* missing one only where tokens are enforced.
JWTValidate(r) ==
  LET q == req[r]
      bearer == IF deployment.jwt THEN Bearer(q) ELSE "absent"
      p == IF bearer = "valid" THEN q.pair ELSE None IN
  /\ pc[r] = "jwt"
  /\ IF \/ bearer = "invalid"
        \/ bearer = "absent" /\ deployment.jwt /\ deployment.enforce /\ q.route \notin Public
     THEN Respond(r, 401)
     ELSE /\ pc' = [pc EXCEPT ![r] = "handle"]
          /\ ctx' = [ctx EXCEPT ![r].claims = p, ![r].space = SpaceOf(q, p),
                                ![r].actor = IF p = None THEN @ ELSE pairs[p].user]
          /\ UNCHANGED req
  /\ UNCHANGED <<rateVars, attempts, shareVars, tokenVars, worldVars>>

-----------------------------------------------------------------------------
(* Routes of files and administration.                                     *)

\* GET of a file and DELETE of one, which moves it to the trash.
ServeFile(r) ==
  LET q == req[r]  f == q.file IN
  /\ pc[r] = "handle" /\ q.route \in {"stat", "trash"}
  /\ IF f \notin live THEN Respond(r, 404) /\ UNCHANGED live
     ELSE IF FileSpace[f] # ctx[r].space THEN Respond(r, 403) /\ UNCHANGED live
     ELSE /\ Respond(r, 200)
          /\ live' = IF q.route = "trash" THEN live \ {f} ELSE live
  /\ UNCHANGED <<rateVars, attempts, shares, minted, entry, cookies, opened, knows,
                 tokenVars, worldVars>>

\* RequireRole("admin"): the static token counts as one.
ServeAdmin(r) ==
  /\ pc[r] = "handle" /\ req[r].route = "admin"
  /\ Respond(r, IF ctx[r].service THEN 200
                ELSE IF ctx[r].claims = None THEN 401
                ELSE IF IsAdmin(ctx[r].claims) THEN 200 ELSE 403)
  /\ UNCHANGED <<rateVars, attempts, shareVars, tokenVars, worldVars>>

\* Uploads and the health check, for which only the way here matters.
ServeOther(r) ==
  /\ pc[r] = "handle" /\ req[r].route \in {"upload", "health"}
  /\ Respond(r, 200)
  /\ UNCHANGED <<rateVars, attempts, shareVars, tokenVars, worldVars>>

-----------------------------------------------------------------------------
(* Time, crashes, and the whole.                                           *)

Tick ==
  /\ now < deployment.time /\ now' = now + 1
  /\ UNCHANGED <<reqVars, rateVars, attempts, shareVars, tokenVars,
                 deployment, arrivals, restarts>>

Restart ==
  /\ restarts < deployment.restarts /\ restarts' = restarts + 1
  /\ ForgetRequests /\ ForgetBuckets /\ ForgetAttempts /\ ForgetCookies /\ ForgetTokens
  /\ UNCHANGED <<deployment, now, arrivals>>

Limit(r) ==
  /\ RateStep(r)
  /\ UNCHANGED <<attempts, shareVars, tokenVars, worldVars>>

Cleanup ==
  /\ CleanupBuckets
  /\ UNCHANGED <<reqVars, attempts, shareVars, tokenVars, worldVars>>

Share(r) == ShareStep(r) /\ UNCHANGED <<rateVars, tokenVars, worldVars>>

Token(r) == TokenStep(r) /\ UNCHANGED <<rateVars, shareVars, worldVars>>

\* The last request has been served.
Quiet ==
  /\ arrivals = deployment.arrivals /\ \A r \in Slots : pc[r] \in {"idle", "done"}
  /\ UNCHANGED vars

Next ==
  \/ \E r \in Slots :
       \/ \E q \in deployment.requests : Arrive(r, q)
       \/ Limit(r) \/ Auth(r) \/ JWTValidate(r) \/ Share(r) \/ Token(r)
       \/ ServeFile(r) \/ ServeAdmin(r) \/ ServeOther(r)
  \/ Cleanup \/ Tick \/ Restart \/ Quiet

Spec == Init /\ [][Next]_vars
-----------------------------------------------------------------------------
(* Properties.                                                             *)

\* A key is not granted more requests than one bucket would grant that was
\* never dropped, though requests race to make it and Cleanup drops it: only
\* a token taken from a dropped bucket goes uncounted.
RateWithinBurst == \A k \in RateKeys : ideal[k].tokens >= 0

\* A link with a limit opens its file at most that often (TryConsumeDownload),
\* however many requests have read the row before one of them counts.
DownloadsWithinLimit ==
  \A t \in DOMAIN shares : shares[t].max > 0 => opened[t] <= shares[t].max

\* Requests whose download of t has been counted and whose file is not open yet.
Underway(t) == {r \in At({"reset", "open"}) : req[r].route = "s" /\ req[r].token = t}

\* RevokeShare takes effect at once: after it no request joins those that are
\* about to open the file, whatever it had read before.
RevocationStopsDownloads ==
  [][\A t \in (1 .. minted) \ DOMAIN shares : Underway(t)' \subseteq Underway(t)]_vars

Downloading(r) ==
  /\ pc[r] \in {"consume", "reset", "open"} \/ ctx[r].code \in {200, 206}
  /\ pc[r] # "idle" /\ req[r].route = "s" /\ entry[r] # None

\* The file of a link with a password goes only to a request that shows the
\* password itself, or brings a cookie and the password of this very link has
\* been shown to this process (share.go:127, 184, 314).  The cookie says who
\* has, not from where: it serves whoever it is passed on to.
ProtectedNeedsPassword ==
  \A r \in Slots : Downloading(r) /\ entry[r].secret =>
    /\ req[r].token \in knows
    /\ req[r].password = "right" \/ req[r].cookie # None

\* Requests that the limiter has let through with a wrong password for k, and
\* whose failure is not recorded yet.
Guessing(l, k) ==
  IF l = "login"
  THEN {r \in At({"login", "failed"}) : req[r].route = "login" /\ LoginKey(r) = k
                                         /\ req[r].password # "right"}
  ELSE {r \in At({"compare", "failed"}) : req[r].route \in {"s", "s_form"} /\ Key(r) = k
          /\ (req[r].password = "wrong" \/ (req[r].route = "s_form" /\ req[r].password = None))}

\* Allow and RecordFailure are apart, so a key gets more guesses than the limit
\* before its lock is over or its entry dropped, but never more than one for
\* every other request that was let through before the lock.
GuessesBounded ==
  \A l \in Limiters : \A k \in DOMAIN attempts[l] :
    attempts[l][k].recorded + Cardinality(Guessing(l, k)) <= MaxFailures - 1 + Cardinality(Slots)

\* A refresh token is exchanged at most once while it is good, by however many
\* requests at a time and across restarts if Redis keeps the used ones.
RefreshOnce == \A p \in PairIDs : rotated[p] <= 1

Succeeded(r) == pc[r] = "done" /\ ctx[r].code \in 200 .. 206

Reached(r) ==
  CASE req[r].route \in {"stat", "trash"} -> {FileSpace[req[r].file]}
    [] req[r].route \in {"share_create", "share_list", "share_revoke"} /\ entry[r] # None ->
         {entry[r].space}
    [] OTHER -> {}

\* A request with a token reaches files and links of the namespace of its user
\* only, whatever its headers ask for, unless he is an administrator; and where
\* tokens are enforced, nothing but the public routes is served without one.
NamespaceIsolated ==
  \A r \in Slots : Succeeded(r) =>
    LET p == ctx[r].claims IN
    /\ p # None /\ pairs[p].user \notin Admins => Reached(r) \subseteq {UserSpace[pairs[p].user]}
    /\ deployment.jwt /\ deployment.enforce /\ req[r].route \notin Public => p # None

Mutations == {"login", "refresh", "trash", "share_create", "share_revoke"}

\* The user an entry for r has to name: that of the token that was accepted.
NamesActor(r, e) ==
  /\ ctx[r].claims # None => e.who = pairs[ctx[r].claims].user
  /\ ctx[r].claims = None => e.who \in {"anonymous", "static-token"}

\* Whatever of a request is in the audit log names its user, and denies access
\* only where the answer did; and every refusal and every change is there by the
\* time the request is over, unless an insertion has failed, which the log's
\* best effort allows (audit.go:13).
AuditNamesTheActor ==
  \A r \in Slots : pc[r] = "done" =>
    /\ \A e \in ctx[r].noted :
         NamesActor(r, e) /\ (e.action = "access_denied" => ctx[r].code \in Denials)
    /\ /\ \/ ctx[r].code \in Denials \union {429}
          \/ Succeeded(r) /\ req[r].route \in Mutations
       /\ ctx[r].noted = ctx[r].due
       => \E e \in ctx[r].noted : ctx[r].code \in Denials => e.action = "access_denied"

=============================================================================
