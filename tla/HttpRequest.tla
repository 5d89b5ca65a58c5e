---------------------------- MODULE HttpRequest ----------------------------
(***************************************************************************)
(* What every HTTP handler of the server shares: the requests in flight,   *)
(* each with the goroutine that serves it, and the clock.  A slot serves   *)
(* one request after another; req is what arrived, pc where its handler    *)
(* stands, and ctx what the middleware has put into its context together   *)
(* with the status it answers and the audit entries written for it.        *)
(***************************************************************************)
EXTENDS Integers, FiniteSets

CONSTANTS
  Slots,     \* goroutines that serve requests
  Clients,   \* addresses of clients
  Spaces,    \* namespaces
  None       \* no value

\* The namespace of a context into which none was put.
DefaultSpace == "default"

\* What an audit entry may be about.
AuditActions == {"access_denied", "rate_limited", "login", "token_refresh", "upload_init", "delete",
                 "audit_read", "share_list", "share_create", "share_revoke", "share_download",
                 "share_password_failed", "share_password_throttled"}

\* A password is the right one or not; there may be none.
Passwords == {"right", "wrong"}

ASSUME SpacesAreNames == Spaces \subseteq STRING /\ DefaultSpace \in Spaces
ASSUME SlotsAreFinite == IsFiniteSet(Slots)
ASSUME NoneIsNoValue == None \notin Nat \union STRING \union AuditActions \union Passwords

VARIABLES
  now,       \* the clock, in units that matter to the limits; it starts at 1
  req,       \* the request a slot serves, or None
  pc,        \* where its handler stands
  ctx        \* its context and its answer

reqVars == <<req, pc, ctx>>

\* claims is the token pair whose access token was accepted, service whether
\* the static service token was; actor and space are what the audit knows, due
\* the entries it has made and noted those that got into the log.
EmptyContext ==
  [claims |-> None, service |-> FALSE, space |-> DefaultSpace,
   actor |-> "anonymous", code |-> 0, due |-> {}, noted |-> {}]

\* The slots whose handlers stand at one of some labels.
At(labels) == {r \in Slots : pc[r] \in labels}

Goto(r, label) ==
  /\ pc' = [pc EXCEPT ![r] = label]
  /\ UNCHANGED <<req, ctx>>

Denials == {401, 403}

\* Mutant: the routes of public shares are skipped altogether.
AuditActionElsewhere(q, status) ==
  IF q.route \in {"s", "s_form"} THEN None
  ELSE IF status \in Denials THEN "access_denied"
  ELSE IF status = 429 THEN "rate_limited"
  ELSE CASE q.route \in {"login", "refresh", "trash"} -> q.route
         [] OTHER -> None

\* classifyAuditEvent: a refusal is recorded whatever the route, and the
\* routes whose handlers write their own entries are skipped.
AuditAction(q, status) ==
  IF status \in Denials THEN "access_denied"
  ELSE IF status = 429 THEN "rate_limited"
  ELSE CASE q.route = "login" -> "login"
         [] q.route = "refresh" -> "token_refresh"
         [] q.route = "upload" -> "upload_init"
         [] q.route = "trash" -> "delete"
         [] q.route = "admin" -> "audit_read"
         [] q.route = "share_list" -> "share_list"
         [] OTHER -> None

\* writeAudit.
Entry(r, action, where) == [action |-> action, who |-> ctx[r].actor, space |-> where]

\* The request is answered, after the entries that its handler makes itself;
\* then the audit middleware adds its own.  An entry that cannot be inserted,
\* because the database fails or the context of the request has ended with its
\* client, is gone.
RespondNoting(r, status, entries) ==
  LET action == AuditAction(req[r], status)
      own == IF action = None THEN {} ELSE {Entry(r, action, ctx[r].space)}
      all == entries \union own IN
  /\ pc' = [pc EXCEPT ![r] = "done"]
  /\ \E written \in SUBSET all :
       ctx' = [ctx EXCEPT ![r].code = status, ![r].due = all, ![r].noted = written]
  /\ UNCHANGED req

Respond(r, status) == RespondNoting(r, status, {})

NoRequests ==
  /\ req = [r \in Slots |-> None]
  /\ pc = [r \in Slots |-> "idle"]
  /\ ctx = [r \in Slots |-> EmptyContext]

\* The process dies and forgets its requests.
ForgetRequests ==
  /\ req' = [r \in Slots |-> None]
  /\ pc' = [r \in Slots |-> "idle"]
  /\ ctx' = [r \in Slots |-> EmptyContext]
=============================================================================
