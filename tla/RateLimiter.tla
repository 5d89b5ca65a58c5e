---------------------------- MODULE RateLimiter ----------------------------
(***************************************************************************)
(* RateLimiterGroup: one token bucket per key.  A request looks its bucket *)
(* up under the read lock, or makes one under the write lock after looking *)
(* again, and takes a token under the lock of the bucket itself; Cleanup   *)
(* drops from the map the buckets that were idle for long, whoever may     *)
(* still hold one of them.                                                 *)
(*                                                                         *)
(* The middleware asks before Auth, JWTValidate and Namespace have run, so *)
(* the namespace of the key is always the one of an empty context, and the *)
(* key is the address of the client.                                       *)
(***************************************************************************)
EXTENDS HttpRequest

CONSTANTS
  Rate,        \* tokens a bucket gains in a unit of time
  Burst,       \* tokens a bucket holds
  MaxIdle,     \* maxAge of Cleanup
  MaxBuckets   \* bound of the model on the buckets made

\* A bucket that Cleanup drops is full again: ten minutes at the rate of the
\* server are worth more than a burst.
ASSUME RatesAreNatural ==
  /\ Rate \in Nat /\ Burst \in Nat \ {0}
  /\ MaxIdle \in Nat /\ MaxBuckets \in Nat \ {0}
  /\ Rate * (MaxIdle + 1) >= Burst

RateKeys == ({"ip"} \X Clients) \union ({"ns"} \X Spaces)

\* The buckets ever made are numbered; 0 is none.
Buckets == 1 .. MaxBuckets

VARIABLES
  bucketOf,   \* the map of the group: the bucket of a key, or 0
  bucket,     \* a bucket: its tokens and when it was asked last
  made,       \* how many buckets have been made
  held,       \* the bucket that a request is about to ask, or 0
  dropped,    \* history: the buckets that Cleanup has dropped
  ideal       \* history: the one bucket per key that would never be dropped,
              \* charged with every token taken from a bucket that was not

rateVars == <<bucketOf, bucket, made, held, dropped, ideal>>

Full == [tokens |-> Burst, at |-> now]

NoBuckets ==
  /\ bucketOf = [k \in RateKeys |-> 0]
  /\ bucket = [b \in Buckets |-> Full]
  /\ made = 0 /\ dropped = {}
  /\ held = [r \in Slots |-> 0]
  /\ ideal = [k \in RateKeys |-> Full]

ForgetBuckets ==
  /\ bucketOf' = [k \in RateKeys |-> 0]
  /\ bucket' = [b \in Buckets |-> Full]
  /\ made' = 0 /\ dropped' = {}
  /\ held' = [r \in Slots |-> 0]
  /\ ideal' = [k \in RateKeys |-> Full]

\* The namespace in the context, unless it is the default one, else the address.
RateKey(r) ==
  IF ctx[r].space # DefaultSpace THEN <<"ns", ctx[r].space>> ELSE <<"ip", req[r].client>>

\* Uploads and the health check are not limited.
Exempt(q) == q.route \in {"upload", "health"}

LookUpBucket(r) ==
  /\ pc[r] = "limit"
  /\ IF Exempt(req[r]) THEN Goto(r, "auth") /\ UNCHANGED held
     ELSE /\ held' = [held EXCEPT ![r] = bucketOf[RateKey(r)]]
          /\ Goto(r, IF bucketOf[RateKey(r)] = 0 THEN "new_bucket" ELSE "take")
  /\ UNCHANGED <<bucketOf, bucket, made, dropped, ideal>>

\* Mutant: without the second look, the bucket of another request is replaced.
MakeBucketAtOnce(r) ==
  /\ pc[r] = "new_bucket" /\ made < MaxBuckets
  /\ made' = made + 1
  /\ bucketOf' = [bucketOf EXCEPT ![RateKey(r)] = made + 1]
  /\ bucket' = [bucket EXCEPT ![made + 1] = Full]
  /\ held' = [held EXCEPT ![r] = made + 1]
  /\ Goto(r, "take")
  /\ UNCHANGED <<dropped, ideal>>

\* The write lock, and a second look.
MakeBucket(r) ==
  LET k == RateKey(r) IN
  /\ pc[r] = "new_bucket"
  /\ IF bucketOf[k] # 0
     THEN held' = [held EXCEPT ![r] = bucketOf[k]] /\ UNCHANGED <<bucketOf, bucket, made>>
     ELSE /\ made < MaxBuckets
          /\ made' = made + 1
          /\ bucketOf' = [bucketOf EXCEPT ![k] = made + 1]
          /\ bucket' = [bucket EXCEPT ![made + 1] = Full]
          /\ held' = [held EXCEPT ![r] = made + 1]
  /\ Goto(r, "take")
  /\ UNCHANGED <<dropped, ideal>>

Refilled(b) ==
  LET tokens == b.tokens + (now - b.at) * Rate IN IF tokens < Burst THEN tokens ELSE Burst

\* Allow of the bucket: it is refilled for the time that has passed, and a
\* token is taken if there is one.
TakeToken(r) ==
  LET b == held[r]  k == RateKey(r)  there == Refilled(bucket[b]) > 0
      Charged(x) == [tokens |-> Refilled(x) - 1, at |-> now] IN
  /\ pc[r] = "take"
  /\ bucket' = [bucket EXCEPT ![b] =
       IF there THEN Charged(@) ELSE [tokens |-> Refilled(@), at |-> now]]
  /\ ideal' = IF there /\ b \notin dropped THEN [ideal EXCEPT ![k] = Charged(@)] ELSE ideal
  /\ held' = [held EXCEPT ![r] = 0]
  /\ IF there THEN Goto(r, "auth") ELSE Respond(r, 429)
  /\ UNCHANGED <<bucketOf, made, dropped>>

\* Cleanup: every bucket that nobody has asked for more than MaxIdle.
CleanupBuckets ==
  LET idle == {k \in RateKeys : bucketOf[k] # 0 /\ now - bucket[bucketOf[k]].at > MaxIdle} IN
  /\ idle # {}
  /\ bucketOf' = [k \in RateKeys |-> IF k \in idle THEN 0 ELSE bucketOf[k]]
  /\ dropped' = dropped \union {bucketOf[k] : k \in idle}
  /\ UNCHANGED <<bucket, made, held, ideal>>

RateStep(r) == LookUpBucket(r) \/ MakeBucket(r) \/ TakeToken(r)
=============================================================================
