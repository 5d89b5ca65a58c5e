---------------------------- MODULE TokenService ----------------------------
(***************************************************************************)
(* JWTService behind the auth handler: login, refresh and the validation   *)
(* of access tokens.  Tokens are signed with a configured secret, so the   *)
(* pairs a server has issued stay good when it restarts; what it remembers *)
(* of the refresh tokens that were used depends on the store: the memory   *)
(* of one process, or keys in Redis with a TTL.                            *)
(***************************************************************************)
EXTENDS PasswordLimiter, Sequences

CONSTANTS
  Users,       \* configured users
  UserSpace,   \* the namespace of a user
  Admins,      \* users with the admin role
  MaxPairs,    \* bound of the model on the token pairs issued
  Expiry       \* life of an access token; a refresh token lives twice as long

ASSUME UsersHaveSpaces ==
  UserSpace \in [Users -> Spaces] /\ Admins \subseteq Users /\ Users \subseteq STRING
ASSUME TokensExpire == MaxPairs \in Nat /\ Expiry \in Nat \ {0}

\* The user and the times at which the two tokens of a pair expire.
TokenPair == [user : Users, access : Nat, refresh : Nat]

VARIABLES
  pairs,     \* the pairs issued, in order: [user, access, refresh], where
             \* access and refresh are the times the two tokens expire
  used,      \* used refresh tokens that are known: pair -> until when
  ttl,       \* the TTL that a request has computed for its Redis key
  store,     \* "memory" or "redis"
  rotated    \* history: how often a refresh token was exchanged before it
             \* expired, as far as the store could know

tokenVars == <<pairs, used, ttl, store, rotated>>

PairIDs == 1 .. MaxPairs

InitTokens(issued, kind) ==
  /\ pairs = issued /\ store = kind
  /\ used = [p \in {} |-> Never]
  /\ ttl = [r \in Slots |-> 0]
  /\ rotated = [p \in PairIDs |-> 0]

\* A process that keeps the used tokens in memory forgets them.
ForgetTokens ==
  /\ ttl' = [r \in Slots |-> 0]
  /\ IF store = "redis" THEN UNCHANGED <<used, rotated>>
     ELSE used' = [p \in {} |-> Never] /\ rotated' = [p \in PairIDs |-> 0]
  /\ UNCHANGED <<pairs, store>>

\* generateTokenPair.
Issue(user) ==
  /\ Len(pairs) < MaxPairs
  /\ pairs' = Append(pairs, [user |-> user, access |-> now + Expiry, refresh |-> now + 2 * Expiry])

\* ValidateToken: only an access token that has not expired.
ValidAccess(p) == p \in DOMAIN pairs /\ now < pairs[p].access

-----------------------------------------------------------------------------
(* POST /v1/auth/login.                                                    *)

LoginKey(r) == <<req[r].user, req[r].client>>

BeginLogin(r) ==
  /\ pc[r] = "handle" /\ req[r].route = "login"
  /\ \E allowed \in BOOLEAN :
       /\ Allow("login", LoginKey(r), allowed)
       /\ IF allowed THEN Goto(r, "login") ELSE Respond(r, 429)
  /\ UNCHANGED tokenVars

\* A user name that is not configured is compared with a dummy and refused.
ComparePassword(r) ==
  /\ pc[r] = "login"
  /\ IF req[r].user \in Users /\ req[r].password = "right"
     THEN Issue(req[r].user) /\ Goto(r, "reset")
     ELSE UNCHANGED pairs /\ Goto(r, "failed")
  /\ UNCHANGED <<attempts, used, ttl, store, rotated>>

RecordLoginFailure(r) ==
  /\ pc[r] = "failed" /\ req[r].route = "login"
  /\ \E locks \in BOOLEAN :
       /\ RecordFailure("login", LoginKey(r), locks)
       /\ Respond(r, IF locks THEN 429 ELSE 401)
  /\ UNCHANGED tokenVars

ResetLogin(r) ==
  /\ pc[r] = "reset" /\ req[r].route = "login"
  /\ Reset("login", LoginKey(r))
  /\ Respond(r, 200)
  /\ UNCHANGED tokenVars

-----------------------------------------------------------------------------
(* POST /v1/auth/refresh.                                                  *)

\* The token is parsed, which checks its expiry, and its user looked up.
ParseRefresh(r) ==
  /\ pc[r] = "handle" /\ req[r].route = "refresh"
  /\ IF now < pairs[req[r].pair].refresh THEN Goto(r, "claim") ELSE Respond(r, 401)
  /\ UNCHANGED <<attempts, tokenVars>>

\* The claim of request r succeeds, and p is known as used until a time.
Claimed(r, p, known, until) ==
  /\ used' = [q \in known \union {p} |-> IF q = p THEN until ELSE used[q]]
  /\ rotated' = [rotated EXCEPT ![p] = @ + (IF now < pairs[p].refresh THEN 1 ELSE 0)]
  /\ Goto(r, "issue")

\* Without a shared store, one critical section forgets the tokens that have
\* expired and looks for this one among the others.
ClaimInMemory(r) ==
  LET p == req[r].pair
      known == {q \in DOMAIN used : used[q] > now} IN
  /\ pc[r] = "claim" /\ store = "memory"
  /\ IF p \in known
     THEN Respond(r, 401) /\ used' = Restrict(used, known) /\ UNCHANGED rotated
     ELSE Claimed(r, p, known, pairs[p].refresh)
  /\ UNCHANGED <<attempts, pairs, ttl, store>>

\* ClaimRefreshToken: the TTL is computed from the clock first.
ComputeTTL(r) ==
  LET left == pairs[req[r].pair].refresh - now IN
  /\ pc[r] = "claim" /\ store = "redis"
  /\ IF left <= 0 THEN Respond(r, 401) /\ UNCHANGED ttl
     ELSE Goto(r, "setnx") /\ ttl' = [ttl EXCEPT ![r] = left]
  /\ UNCHANGED <<attempts, pairs, used, store, rotated>>

\* Mutant: SET instead of SETNX.
Set(r) ==
  LET p == req[r].pair IN
  /\ pc[r] = "setnx"
  /\ Claimed(r, p, DOMAIN used, now + ttl[r])
  /\ UNCHANGED <<attempts, pairs, ttl, store>>

\* SETNX with that TTL; Redis has dropped the keys whose TTL is over.  The
\* answer may get lost, whether or not the key was set.
SetNX(r) ==
  LET p == req[r].pair
      known == {q \in DOMAIN used : used[q] > now} IN
  /\ pc[r] = "setnx"
  /\ \/ p \notin known /\ Claimed(r, p, known, now + ttl[r])
     \/ /\ Respond(r, 401)
        /\ \/ used' = Restrict(used, known)
           \/ /\ p \notin known
              /\ used' = [q \in known \union {p} |-> IF q = p THEN now + ttl[r] ELSE used[q]]
        /\ UNCHANGED rotated
  /\ UNCHANGED <<attempts, pairs, ttl, store>>

IssueRefreshed(r) ==
  /\ pc[r] = "issue"
  /\ Issue(pairs[req[r].pair].user)
  /\ Respond(r, 200)
  /\ UNCHANGED <<attempts, used, ttl, store, rotated>>

\* GET /v1/auth/me.
Me(r) ==
  /\ pc[r] = "handle" /\ req[r].route = "me"
  /\ Respond(r, IF ctx[r].claims = None THEN 401 ELSE 200)
  /\ UNCHANGED <<attempts, tokenVars>>

TokenStep(r) ==
  \/ BeginLogin(r) \/ ComparePassword(r) \/ RecordLoginFailure(r) \/ ResetLogin(r)
  \/ ParseRefresh(r) \/ ClaimInMemory(r) \/ ComputeTTL(r) \/ SetNX(r)
  \/ IssueRefreshed(r) \/ Me(r)
=============================================================================
