----------------------------- MODULE MCGateway ------------------------------
EXTENDS Gateway, TLC

Symmetry == Permutations(Slots)

MCSpaces == {"default", "red", "blue"}
MCFileSpace == [f \in {"f", "g"} |-> IF f = "f" THEN "red" ELSE "blue"]
MCUserSpace == [u \in {"ann", "root"} |-> IF u = "ann" THEN "red" ELSE "default"]

Ask(route) ==
  [route |-> route, client |-> "c1", static |-> None, bearer |-> "none", space |-> None,
   token |-> 0, pair |-> 0, user |-> "ann", password |-> None, html |-> FALSE,
   cookie |-> None, range |-> None, file |-> "f", terms |-> [secret |-> FALSE, life |-> 0, max |-> 0]]

With(q, password) == [q EXCEPT !.password = password]
As(q, p) == [q EXCEPT !.bearer = "pair", !.pair = p]

NoShares == [t \in {} |-> None]
Row(secret, max) == [file |-> "f", space |-> "red", secret |-> secret, until |-> Never,
                     max |-> max, cur |-> 0]
Pair(user, t) == [user |-> user, access |-> t + Expiry, refresh |-> t + 2 * Expiry]

Get == [Ask("s") EXCEPT !.token = 1]
Post == [Ask("s_form") EXCEPT !.token = 1]

Open == [static |-> FALSE, jwt |-> FALSE, enforce |-> FALSE, store |-> "memory",
         shares |-> NoShares, pairs |-> <<>>, requests |-> {},
         time |-> 1, arrivals |-> 3, restarts |-> 0]
Locked2 == [Open EXCEPT !.jwt = TRUE, !.enforce = TRUE]

\* One deployment for each kind of traffic, so that their states add up.
MCDeployments ==
  { \* downloads of a limited link, while its owner revokes it or trashes the file
    [Open EXCEPT !.shares = [t \in {1} |-> Row(FALSE, 1)], !.restarts = 1, !.arrivals = 4, !.requests =
       {Get, [Get EXCEPT !.range = "bad"], [Get EXCEPT !.html = TRUE, !.range = "part"],
        [Ask("share_revoke") EXCEPT !.token = 1, !.space = "red"],
        [Ask("trash") EXCEPT !.space = "red"]}],
    \* a link with a password is guessed
    [Open EXCEPT !.shares = [t \in {1} |-> Row(TRUE, 0)], !.time = 4, !.arrivals = 5, !.requests =
       {With(Get, "wrong"), With(Post, "wrong")}],
    \* two links with passwords are guessed and opened, one with a cookie
    [Open EXCEPT !.shares = [t \in {1, 2} |-> Row(TRUE, 0)], !.time = 2, !.arrivals = 3,
                 !.restarts = 1, !.requests =
       {With(Get, "wrong"), With(Post, "right"), Post, [Get EXCEPT !.html = TRUE],
        [With(Get, "right") EXCEPT !.client = "c2"], [Get EXCEPT !.token = 2, !.client = "c2"]}],
    \* links made and listed by two namespaces
    [Open EXCEPT !.time = 3, !.requests =
       {[Ask("share_create") EXCEPT !.space = "red", !.terms = [secret |-> FALSE, life |-> 1, max |-> 2]],
        [Ask("share_create") EXCEPT !.space = "blue"], Get,
        [Ask("trash") EXCEPT !.space = "red"],
        [Ask("share_list") EXCEPT !.space = "red"]}],
    \* logins
    [Locked2 EXCEPT !.time = 3, !.arrivals = 4, !.requests =
       {With(Ask("login"), "wrong"), With(Ask("login"), "right"),
        [With(Ask("login"), "right") EXCEPT !.user = "nobody"], As(Ask("me"), 1)}],
    \* files and administration with tokens that expire
    [Locked2 EXCEPT !.static = TRUE, !.time = 2, !.pairs = <<Pair("ann", 1), Pair("root", 1)>>, !.requests =
       {[As(Ask("stat"), 1) EXCEPT !.space = "blue", !.static = "right", !.file = "g"],
        [As(Ask("stat"), 1) EXCEPT !.static = "right"],
        [As(Ask("trash"), 2) EXCEPT !.space = "red", !.static = "right"],
        [Ask("stat") EXCEPT !.static = "wrong"], Ask("stat"), Ask("me"),
        [Ask("admin") EXCEPT !.static = "right", !.bearer = "malformed"],
        [Ask("health") EXCEPT !.bearer = "forged"]}],
    [Open EXCEPT !.jwt = TRUE, !.time = 2, !.pairs = <<Pair("ann", 1), Pair("root", 1)>>, !.requests =
       {As(Ask("admin"), 1), As(Ask("admin"), 2), Ask("admin"), Ask("me"), Ask("upload"),
        [As(Ask("stat"), 1) EXCEPT !.space = "blue"], [Ask("stat") EXCEPT !.space = "blue"]}],
    [Open EXCEPT !.static = TRUE, !.requests = {[Ask("admin") EXCEPT !.static = "right"]}],
    \* more requests than a bucket holds, on buckets that are dropped
    [Open EXCEPT !.time = 4, !.arrivals = 5, !.requests = {Ask("health"), Ask("me")}] }
  \union
  \* one refresh token, presented again and again
  {[Locked2 EXCEPT !.store = kind, !.pairs = <<Pair("ann", 1)>>, !.time = 4, !.arrivals = 4,
                   !.restarts = 1, !.requests = {[Ask("refresh") EXCEPT !.pair = 1]}]
     : kind \in {"memory", "redis"}}
=============================================================================
