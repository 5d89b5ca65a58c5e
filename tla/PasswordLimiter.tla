-------------------------- MODULE PasswordLimiter --------------------------
(***************************************************************************)
(* sharePasswordLimiter: how many wrong passwords a client may try on one  *)
(* share, or on one user name, before it has to wait.  The share handler   *)
(* and the login handler have a limiter each; a table maps the keys that   *)
(* have failed to their attempts.  Allow, RecordFailure and Reset are one  *)
(* critical section each, and the password is compared between them.       *)
(***************************************************************************)
EXTENDS HttpRequest, Functions

CONSTANTS
  MaxFailures,  \* wrong passwords that lock a key
  Cooldown,     \* for how long
  MaxEntries    \* entries at which the oldest is dropped

ASSUME LimitsArePositive ==
  /\ MaxFailures \in Nat \ {0}
  /\ Cooldown \in Nat \ {0}
  /\ MaxEntries \in Nat \ {0}

VARIABLE
  attempts    \* the table of a limiter: an attempt for every key that has failed

Limiters == {"share", "login"}

\* The zero time.Time.
Never == 0

\* A sharePasswordAttempt; recorded is history, the failures since the entry
\* was made, which locking does not set back.
NoAttempt == [failures |-> 0, lastFailure |-> Never, lockedUntil |-> Never, recorded |-> 0]

NoAttempts == attempts = [l \in Limiters |-> [k \in {} |-> NoAttempt]]

ForgetAttempts == attempts' = [l \in Limiters |-> [k \in {} |-> NoAttempt]]

\* An attempt that cleanupLocked drops: its lock is over, or it is old.
Outdated(attempt) ==
  \/ attempt.lockedUntil # Never /\ attempt.lockedUntil <= now
  \/ now - attempt.lastFailure > 3 * Cooldown

Without(table, k) == Restrict(table, DOMAIN table \ {k})

\* The tables that cleanupLocked may leave: a full one loses its oldest entry,
\* and ties are decided by the iteration order of the map.
CleanedUp(table) ==
  LET kept == Restrict(table, {k \in DOMAIN table : ~Outdated(table[k])})
      oldest == {k \in DOMAIN kept : \A j \in DOMAIN kept :
                   kept[k].lastFailure <= kept[j].lastFailure}
  IN  IF Cardinality(DOMAIN kept) < MaxEntries THEN {kept}
      ELSE {Without(kept, k) : k \in oldest}

Locked(table, k) == k \in DOMAIN table /\ table[k].lockedUntil > now

\* Allow: the entry of k after the table was cleaned decides.  A lock that is
\* over was dropped by then, so the deletion that follows in Allow finds none.
Allow(l, k, allowed) ==
  \E t \in CleanedUp(attempts[l]) :
    /\ allowed = ~Locked(t, k)
    /\ attempts' = [attempts EXCEPT ![l] = t]

\* Mutant: one failure too many before the lock.
FailedOnceLate(attempt) ==
  IF attempt.failures >= MaxFailures
  THEN [failures |-> 0, lastFailure |-> now, lockedUntil |-> now + Cooldown,
        recorded |-> attempt.recorded + 1]
  ELSE [attempt EXCEPT !.failures = @ + 1, !.lastFailure = now, !.recorded = @ + 1]

\* An attempt after one more failure.  The last one it may have locks it; a
\* lock that is already there is kept.
FailedOnce(attempt) ==
  IF attempt.failures + 1 >= MaxFailures
  THEN [failures |-> 0, lastFailure |-> now, lockedUntil |-> now + Cooldown,
        recorded |-> attempt.recorded + 1]
  ELSE [attempt EXCEPT !.failures = @ + 1, !.lastFailure = now, !.recorded = @ + 1]

\* RecordFailure, which reports whether this failure has locked the key.
RecordFailure(l, k, locks) ==
  \E t \in CleanedUp(attempts[l]) :
    LET attempt == FailedOnce(IF k \in DOMAIN t THEN t[k] ELSE NoAttempt) IN
    /\ locks = (attempt.failures = 0)
    /\ attempts' = [attempts EXCEPT ![l] =
         [j \in DOMAIN t \union {k} |-> IF j = k THEN attempt ELSE t[j]]]

\* Reset: the right password clears the key.
Reset(l, k) == attempts' = [attempts EXCEPT ![l] = Without(@, k)]
=============================================================================
