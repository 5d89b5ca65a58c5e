---------------------------- MODULE ShareAccess ----------------------------
(***************************************************************************)
(* Public share links: ShareService over the shares table, and the share   *)
(* handler with its password limiter and its signed cookies.  A link may   *)
(* have a password, an expiry and a number of downloads; its row is read,  *)
(* its password compared (slowly), its download counted and the file       *)
(* opened in separate steps, and the owner may revoke it between any two.  *)
(***************************************************************************)
EXTENDS PasswordLimiter

CONSTANTS
  Files,        \* logical files
  FileSpace,    \* the namespace of a file
  MaxShares,    \* bound of the model on the links made
  CookieLife    \* shareAccessCookieTTL

ASSUME SharesAreBounded ==
  MaxShares \in Nat /\ CookieLife \in Nat /\ FileSpace \in [Files -> Spaces]

\* A row of shares; until is when it expires, max 0 when it may be opened always.
ShareRow == [file : Files, space : Spaces, secret : BOOLEAN, until : Nat, max : Nat, cur : Nat]

ASSUME NoneIsNoRow == None \notin ShareRow \union (Nat \X Nat)

\* Tokens are random; here the links ever made are numbered.
Tokens == 1 .. MaxShares

VARIABLES
  shares,    \* the table: token -> [file, space, secret, until, max, cur]
  minted,    \* how many links have been made
  entry,     \* the row a request has read, or None
  cookies,   \* cookies this process has signed: <<token, until>>
  live,      \* files that are not in the trash
  opened,    \* history: files that were opened through a token
  knows      \* history: links whose right password this process was shown

shareVars == <<shares, minted, entry, cookies, live, opened, knows>>

\* A process starts with the links that the table holds.
InitShares(table) ==
  /\ shares = table /\ minted = Cardinality(DOMAIN table)
  /\ entry = [r \in Slots |-> None]
  /\ cookies = {} /\ knows = {}
  /\ live = Files
  /\ opened = [t \in Tokens |-> 0]

\* The signing key is the process's own: no cookie outlives it.
ForgetCookies ==
  /\ cookies' = {} /\ knows' = {}
  /\ entry' = [r \in Slots |-> None]
  /\ UNCHANGED <<shares, minted, live, opened>>

Key(r) == <<req[r].token, req[r].client>>

\* Mutant: the signature leaves the token out.
HasAnyCookie(r) == req[r].cookie \in cookies /\ now < req[r].cookie[2]

\* hasValidShareAccessCookie: whoever brings the cookie, from whatever address,
\* if it is signed for this link and not over.
HasCookie(r) ==
  LET c == req[r].cookie IN c \in cookies /\ c[1] = req[r].token /\ now < c[2]

Expired(row) == row.until # Never /\ now > row.until
Exhausted(row) == row.max > 0 /\ row.cur >= row.max

\* What authorizeShare answers to a password; a caller that has verified one
\* already skips the comparison.
Verdict(r, verified) ==
  LET t == req[r].token IN
  CASE t \notin DOMAIN shares -> "missing"
    [] t \in DOMAIN shares /\ (Expired(shares[t]) \/ Exhausted(shares[t])) -> "exhausted"
    [] OTHER -> IF shares[t].secret /\ ~verified /\ req[r].password # "right"
                THEN "forbidden" ELSE "ok"

Refusal(verdict) == CASE verdict = "missing" -> 404 [] verdict = "exhausted" -> 410 [] OTHER -> 401

Refuse(r, verdict) == Respond(r, Refusal(verdict))

Failed(r) == Entry(r, "share_password_failed", "public")
Throttled(r) == Entry(r, "share_password_throttled", "public")

-----------------------------------------------------------------------------
(* GET /s/{token} and POST /s/{token}.                                     *)

\* Whether the request brings a password to compare; a posted form always
\* does, if only an empty one.
Guesses(r) == req[r].route = "s_form" \/ (req[r].password # None /\ ~HasCookie(r))

\* A browser without a password is shown the page that asks for one; a request
\* with a password has to be allowed to try it.
BeginAccess(r) ==
  /\ pc[r] = "handle" /\ req[r].route \in {"s", "s_form"}
  /\ \/ /\ Guesses(r)
        /\ \E allowed \in BOOLEAN :
             /\ Allow("share", Key(r), allowed)
             /\ IF allowed THEN Goto(r, "compare")
                ELSE RespondNoting(r, 429, IF req[r].route = "s" THEN {Throttled(r)} ELSE {})
     \/ /\ ~Guesses(r)
        /\ LET inspected == Verdict(r, TRUE) IN
           IF req[r].html /\ ~HasCookie(r)
              /\ (inspected # "ok" \/ shares[req[r].token].secret)
           THEN Refuse(r, inspected)
           ELSE Goto(r, IF HasCookie(r) THEN "verified" ELSE "compare")
        /\ UNCHANGED attempts
  /\ UNCHANGED shareVars

\* authorizeShare: the row is read and the password compared with it.
CompareSharePassword(r) ==
  LET verdict == Verdict(r, pc[r] = "verified")
      onwards == IF req[r].route = "s_form" THEN "reset" ELSE "consume" IN
  /\ pc[r] \in {"compare", "verified"}
  /\ CASE verdict = "ok" ->
            /\ Goto(r, onwards)
            /\ entry' = [entry EXCEPT ![r] = shares[req[r].token]]
            /\ knows' = IF req[r].password = "right" THEN knows \union {req[r].token} ELSE knows
       [] verdict = "forbidden" /\ (req[r].password # None \/ req[r].route = "s_form") ->
            Goto(r, "failed") /\ UNCHANGED <<entry, knows>>
       [] OTHER -> Refuse(r, verdict) /\ UNCHANGED <<entry, knows>>
  /\ UNCHANGED <<attempts, shares, minted, cookies, live, opened>>

RecordShareFailure(r) ==
  /\ pc[r] = "failed" /\ req[r].route \in {"s", "s_form"}
  /\ \E locks \in BOOLEAN :
       /\ RecordFailure("share", Key(r), locks)
       /\ IF locks THEN RespondNoting(r, 429, {Throttled(r)})
          ELSE RespondNoting(r, 401, {Failed(r)})
  /\ UNCHANGED shareVars

\* Mutant: IncrDownloads, which counts without looking.
IncrDownloads(r) ==
  LET t == req[r].token IN
  /\ pc[r] = "consume"
  /\ shares' = IF t \in DOMAIN shares THEN [shares EXCEPT ![t].cur = @ + 1] ELSE shares
  /\ Goto(r, IF req[r].password # None THEN "reset" ELSE "open")
  /\ UNCHANGED <<attempts, minted, entry, cookies, live, opened, knows>>

\* TryConsumeDownload: one UPDATE counts the download if the row is still
\* there and its limit not reached.
ConsumeDownload(r) ==
  LET t == req[r].token
      counts == t \in DOMAIN shares /\ ~Exhausted(shares[t]) IN
  /\ pc[r] = "consume"
  /\ shares' = IF counts THEN [shares EXCEPT ![t].cur = @ + 1] ELSE shares
  /\ IF ~counts THEN Refuse(r, "exhausted")
     ELSE Goto(r, IF req[r].password # None THEN "reset" ELSE "open")
  /\ UNCHANGED <<attempts, minted, entry, cookies, live, opened, knows>>

\* The right password clears the limiter; the form gets a cookie for it.
ResetSharePassword(r) ==
  /\ pc[r] = "reset" /\ req[r].route \in {"s", "s_form"}
  /\ Reset("share", Key(r))
  /\ IF req[r].route = "s_form"
     THEN /\ cookies' = cookies \union {<<req[r].token, now + CookieLife>>}
          /\ Respond(r, 303)
     ELSE Goto(r, "open") /\ UNCHANGED cookies
  /\ UNCHANGED <<shares, minted, entry, live, opened, knows>>

\* The range is parsed and the file opened only after the download was counted.
OpenShared(r) ==
  /\ pc[r] = "open"
  /\ IF req[r].range = "bad" THEN Respond(r, 416) /\ UNCHANGED opened
     ELSE IF entry[r].file \notin live THEN Respond(r, 404) /\ UNCHANGED opened
     ELSE /\ opened' = [opened EXCEPT ![req[r].token] = @ + 1]
          /\ RespondNoting(r, IF req[r].range = None THEN 200 ELSE 206,
                           {Entry(r, "share_download", entry[r].space)})
  /\ UNCHANGED <<attempts, shares, minted, entry, cookies, live, knows>>

-----------------------------------------------------------------------------
(* The owner's side.                                                       *)

\* The file is looked up, and the row written later; nothing keeps the file.
CheckShared(r) ==
  /\ pc[r] = "handle" /\ req[r].route = "share_create"
  /\ IF req[r].file \notin live THEN Respond(r, 404)
     ELSE IF FileSpace[req[r].file] # ctx[r].space THEN Respond(r, 403)
     ELSE Goto(r, "insert_share")
  /\ UNCHANGED <<attempts, shareVars>>

InsertShare(r) ==
  LET t == minted + 1
      row == [file |-> req[r].file, space |-> ctx[r].space, secret |-> req[r].terms.secret,
              until |-> IF req[r].terms.life > 0 THEN now + req[r].terms.life ELSE Never,
              max |-> req[r].terms.max, cur |-> 0] IN
  /\ pc[r] = "insert_share" /\ minted < MaxShares
  /\ minted' = t
  /\ shares' = [u \in DOMAIN shares \union {t} |-> IF u = t THEN row ELSE shares[u]]
  /\ entry' = [entry EXCEPT ![r] = row]
  /\ RespondNoting(r, 201, {Entry(r, "share_create", ctx[r].space)})
  /\ UNCHANGED <<attempts, cookies, live, opened, knows>>

\* ListShares: the rows of the namespace.
ListShares(r) ==
  /\ pc[r] = "handle" /\ req[r].route = "share_list"
  /\ Respond(r, 200)
  /\ entry' = [entry EXCEPT ![r] =
       IF \E t \in DOMAIN shares : shares[t].space = ctx[r].space
       THEN shares[CHOOSE t \in DOMAIN shares : shares[t].space = ctx[r].space] ELSE None]
  /\ UNCHANGED <<attempts, shares, minted, cookies, live, opened, knows>>

\* DELETE of the row of that token and that namespace.
RevokeShare(r) ==
  LET t == req[r].token
      mine == t \in DOMAIN shares /\ shares[t].space = ctx[r].space IN
  /\ pc[r] = "handle" /\ req[r].route = "share_revoke"
  /\ IF ~mine THEN Respond(r, 404) /\ UNCHANGED <<shares, entry>>
     ELSE /\ shares' = Restrict(shares, DOMAIN shares \ {t})
          /\ entry' = [entry EXCEPT ![r] = shares[t]]
          /\ RespondNoting(r, 204, {Entry(r, "share_revoke", ctx[r].space)})
  /\ UNCHANGED <<attempts, minted, cookies, live, opened, knows>>

ShareStep(r) ==
  \/ BeginAccess(r) \/ CompareSharePassword(r) \/ RecordShareFailure(r)
  \/ ConsumeDownload(r) \/ ResetSharePassword(r) \/ OpenShared(r)
  \/ CheckShared(r) \/ InsertShare(r) \/ ListShares(r) \/ RevokeShare(r)
=============================================================================
