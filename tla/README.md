# fileupload: a verification development

TLA+ modules of the upload server and of the Go clients in this repository (`internal/`, `cmd/`, `sdk/go`), TLC
configurations that check them on small instances, and TLAPS proofs about all of its seven parts for any size.

## The system

An HTTP server takes files in chunks, keeps each distinct content once, and offers the files as trees of logical
rows, one tree per namespace.  Hot state (upload sessions, used refresh tokens) is in Redis, cold state (rows, blobs,
reservations, shares) in SQLite or PostgreSQL, content in a directory or an S3 bucket.  Every call to a store is a step
of its own: only single SQL statements, a few SQL transactions and Redis commands are atomic.  That is the source of
most of what is hard here.

| component | state | operations | interacts through |
|---|---|---|---|
| upload pipeline, `domain/upload.go`, `finalize.go` | session key (TTL), chunk hash, offset in Redis; part files | CreateSession, AppendChunk (REST, tus PATCH), Finalize, Abort | worker pool, stores, reaper |
| content-addressed store, `finalize.go`, `refcount.go`, `trash.go`, `batch.go`, SQL adapters | `content_blobs` (path, ref_count), `files`, objects | commitStream, CheckExists (instant upload), BatchCopy, Trash, Restore, Purge | SQL transactions, object store |
| chunk limiter and worker pool, `upload.go`, `worker_pool.go` | weighted semaphore, bounded queue, workers | acquire, read, submit, answer, release | goroutines, request contexts |
| namespace quota, `upload.go`, SQL adapters | `namespace_reservations`, lock row, live rows | reserve, adjust, release | CreateSession, Finalize, CheckExists, Abort |
| session reaper, `lifecycle/reaper.go` | none | list expiring sessions, delete their parts, sweep orphan parts, scan for inconsistencies | Redis, part files, SQL |
| trash janitor, `lifecycle/trash_janitor.go` | none | purge roots of the recycle bin after the retention | PurgeFromTrash |
| directory tree, `upload.go`, `trash.go`, `batch.go`, `layout.go` | `parent_id`, `path`, `deleted_at`; object paths | move, rename, SubmitDir, batches, trash, restore and purge of trees | SQL, object store |
| downloads, `domain/download.go`, `transport/` | none | file with range, archive of a directory or of a list, listings | rows, blobs, objects |
| shares, `domain/share.go`, `transport/share*.go` | `shares`, failure table in memory, cookies | create, authorize, consume, list, revoke | SQL, clock |
| authentication, `adapters/auth/jwt.go`, `transport/auth*.go` | used refresh tokens (Redis or memory) | login, validate, refresh | Redis SETNX |
| HTTP layer, `transport/` | rate buckets, request context, audit entries | middlewares in order, handlers | all services |
| clients, `cmd/fileupload`, `sdk/go` | session, goroutines, error channel | upload with concurrency and retry, download | HTTP |
| WebSocket hub, JavaScript SDK, web interface | connections; upload progress | broadcast; upload, pause, resume | HTTP |

Configuration, metrics, compressors, hashers, MIME tables, migrations, deployment files and test doubles keep no state
that the rest depends on.  `PROJECT.json` lists every component with what of it is modelled.

What makes each correct, in short.  Store: `ref_count` covers every holder, content goes only when nobody holds
it, readable rows have content.  Session: committed at most once; what is acknowledged stays and is committed as it
was sent, unless a retry spoils it; what is abandoned is reclaimed.  Limiter: bodies in memory stay within the limit, permits come back, nobody
starves.  Quota: rows and promises fit the quota, reservations are released.  Tree: no cycles, one namespace, a purge
deletes what was trashed and nothing else, counts stay exact, an archive is what its header promises.  Gateway: limits
of links, passwords and rates hold, tokens are used once, namespaces are apart, the audit names who asked.  Client: what
succeeds is right, and every upload returns.  The behaviours that a test hardly reaches are listed, each at its line,
under `hazards` in `PROJECT.json`.

## Modules

| module | models | composed in | proofs |
|---|---|---|---|
| `ContentStore` | blobs, counts, rows, objects of plain files | refines `SharedContent` | `ContentStore_proofs` |
| `SharedContent` | the promise: content stays until nobody holds it | - | theorem `StoreKeepsPromise` |
| `UploadSession` | one session: key, chunks, parts, requests, workers, reaper | - | `UploadSession_proofs` |
| `ChunkLimiter` | semaphore, queue, workers | - | `ChunkLimiter_proofs` |
| `NamespaceQuota` | one namespace: reservations, sessions, rows, on either database | - | `NamespaceQuota_proofs` |
| `FileTable` | the tables and the storage, their queries | `DirTree` | `DirTree_proofs`, `DirTreeAlone_proofs` |
| `TreeWork` | requests as lists of jobs, how a job ends | `DirTree` | `DirTree_proofs`, `DirTreeAlone_proofs` |
| `Directories` | trash, restore, purge, move, rename, tags, janitor | `DirTree` | `DirTree_proofs`, `DirTreeAlone_proofs` |
| `Manifests` | SubmitDir and the objects it moves, copies of trees | `DirTree` | `DirTree_proofs`, `DirTreeAlone_proofs` |
| `Archive` | downloads, archives, listings, the scanner | `DirTree` | `DirTree_proofs` |
| `HttpRequest` | requests in flight, their context, the audit | `Gateway` | `Gateway_proofs` |
| `RateLimiter` | the bucket of a key and its cleanup | `Gateway` | `Gateway_proofs` |
| `PasswordLimiter` | failure table of shares and logins | `Gateway` | `Gateway_proofs` |
| `ShareAccess` | share links | `Gateway` | `Gateway_proofs` |
| `TokenService` | login, access tokens, refresh tokens | `Gateway` | `Gateway_proofs` |
| `UploadClient` | one upload by the command-line client or the SDK | - | `UploadClient_proofs` |

`MC*` modules add the tables, setups and symmetry sets for TLC.  Everything that differs between runs is a CONSTANT;
faults are injected only when a constant, or the setup of an instance, names them.  Operators named as mutants are
single-point variations of an action (a dropped guard, a swapped order) that no specification uses; each property of a
passing run fails under one of them.

### ContentStore

A request is an actor with a program counter (`pc`), the content it works on (`sha`) and, for a purge, its row
(`file`).  A session names its own object path (`namespace/sessionID-name`), so `stored` maps sessions to contents.
`blobPath[s] = None` means there is no `content_blobs` row; rows of blobs are never deleted, not even at count zero, and
that is what the run `ContentStoreReupload` shows.  `zeroed` is a history variable: contents whose count has been brought
to zero.  Finalize is `WriteStorage`, `RejectCommit` or `AcquireBlob` (one transaction), `DropDuplicate`, `PutFile` or
`PutFileFails`, `RollbackRef`; an instant upload joins at `acquired`; a purge is `PurgeList` .. `PurgeUnlink`, with the
undo that the code performs.  A crash forgets every handler and keeps the stores.

`SharedContent` is what the store promises: holders join (`Take`), make room for another (`Pass`: the request for its row)
and leave; a content may be condemned only in a step that leaves it without holders, and only a condemned one is removed.
`Retained` is its specification under the mapping *holders* = rows and requests between their reference and their row,
*kept* = contents whose canonical object is stored, *condemned* = `zeroed`.

Runs: `ContentStoreAll` (all actors, all faults); `ContentStoreDisciplined` (no BatchCopy, one purge at a time: the
discipline under which `ref_count` is exact; inserts and unlinks fail, and the theorems cover the other faults, under
which the count may only err upwards); `ContentStoreReupload`, a violation: content that was unlinked is reused.
Bounds: one or two contents, two sessions and an instant upload racing for them, up to three rows, counts up to `MaxRefs` = 3
(a bound on increments; three rows and two requests never need more at once in these instances).  Two contents are enough
to see one request touch the content of another; two purges to see a row purged twice.

### UploadSession

One session stands for all, since sessions share nothing modelled here.  `status` and `ttl` are the key, `chunks` the
hash, `parts` the files.  A chunk request (`call`) and its pool task (`task`) are separate: the task runs with the
background context and survives its request, the claim and the session.  The WATCH of ClaimSessionFinalizing is the set
`watching`, which every write of the key empties.  Time has two values, because Redis rounds a TTL below half a
second to the zero that ListExpiredSessions looks for.  `commits` is a history variable.  A commit here is the whole of
commitStream, which ContentStore splits.

A part is a file that is truncated where it is (`OpenPart`), filled (`WritePart`) and removed by name when the write fails
(`FailPart`), as LocalFS.Write does (localfs.go:126-139).  `parts[i].holds` is its content, `Torn` while that is no one's
body, and `parts[i].writers` says which tasks have it open; of two that do, `Outcomes` lets either body or a mixture
result.  A crash leaves what is open torn.  S3 replaces an object as a whole, which is one of the behaviours this allows.

Runs: `UploadSessionRaces` (safety and liveness, every fault) and `UploadSessionAcked` (two chunks of which one is sent by
PATCH, good and bad bodies, writes that fail).  Bounds: one or two chunks (a slot more for a request beyond the end), one or two requests of
each kind.  One chunk is enough for races on one part; `UploadSessionAcked` has two for the order of indices.

Fairness (`FairSpec`): time passes; a task and a request that have started go on; the reaper runs.  The pool's workers and
the reaper's ticker are goroutines that nothing blocks for ever, and a request ends with its timeout.  Strong fairness is
asked only of the reaper's owner check, which is repeated with every pass.  No client action is fair.

### ChunkLimiter

A request passes `Acquire` (or waits in line), reads its body, submits a task and waits for it; its permits belong to the
task once it is submitted.  The semaphore is the library's: first come first served, a waiter whose context ends leaves
the line and the line is served again.  `ReadFails`, `RejectLong` and `TouchFails` are the three returns of
appendChunkForSession that keep the permits; TouchSession runs on the context of the request, so its end is one cause of the last.

One run, `ChunkLimiter`, safety, liveness and deadlock together: one request of weight 2, three of weight 1 that are made
again and again, a capacity of 3, two workers and one place in the queue.  So the line is used, heavy requests are
overtaken if the code lets them be, and the queue fills.  `OnlyEarlyReturnsLeak` says that nothing but the returns
between the semaphore and the pool (upload.go:258-267) loses permits, and `NoStarvation` holds until one is lost.  Fairness: goroutines run, bodies
arrive or time out, a full queue is left after five seconds.

### NamespaceQuota

A reservation is decided in two steps under the lock row of the namespace: `ReadUsage`, `Decide`.  With
`SingleWriter` (SQLite) every other write waits for the transaction; without it (PostgreSQL at READ COMMITTED) only other
reservations do.  `reserved[r] = 0` means no row.  `Finalize` claims, writes, guards (re-reserves the true size), inserts
and releases in a deferred call; `Abort` looks at no status; Trash, Restore, Purge and Copy change the live rows without
asking.  Empty contents are left out, since they take no capacity.

Runs: `NamespaceQuotaStrict` (uploads, trash and all faults on SQLite never oversell, and a reservation is honoured unless
another upload counts twice) and `NamespaceQuotaOwned` (all operations on PostgreSQL: each reservation has somebody to
release it).  Bounds: two sessions and an instant upload of sizes 1 and 2 against a quota of 3, so that some pairs
fit and others do not, and a finalize can outgrow its declaration.

### DirTree

`FileTable` holds the state: `files` (identifier to row), `blobs` (path and references of a content), `objects` (path to
content, or to the worker that is writing there), `tags`, `clock`.  A request is a sequence of jobs and a job a sequence of items (`TreeWork`); an item is one
statement or one storage call.  An item that lists rows puts the items for them in front, as the recursive functions of
the code do, and an error drops the rest of its job.  `notes` are the locals of a worker: the undo stack and the pending
unlinks of a purge, the directories a manifest has made, the list an archive was made from and the pieces it has sent.
Between any two items another request, the janitor, a failing statement (`Fault`) or a crash may come.  A purge is no
transaction: it takes the tree out of the recycle bin, deletes it row by row and count by count, unlinks at the end, and
undoes by hand what it did when a statement fails, as `deleteDirDeferredWithUndo` and `rollbackDeleteUndo` do.

A manifest moves an object by `ReadSource`, `WriteTarget`, `FillTarget`, `DeleteSource` and `SetPath`.  LocalFS.Write
(localfs.go:126-139) empties the target where it is and fills it afterwards: in between its content is the worker that
writes, and so it stays after a crash; a fill that fails removes the target by its name.  A source that another manifest is
rewriting yields what it holds by then (`Copied`), and two that fill one target may leave the bytes of either, or a mixture
(`Mixed`).  On S3 a PUT replaces an object at once and a failed one leaves it; the model is of the file system, the default.

A *setup* is a deployment and its traffic: rows and objects, the requests that may come, one slot or two, what may fail.
The run `DirTree` starts from fifteen: one tree under all operations in sequence; purges whose statements fail, with
and without a shared content; counts that drift and the scan that finds it; two requests at once on a live and on a trashed
tree; a directory and its child purged at once; two namespaces, each asking for what is the other's; manifests in
sequence, against downloads, and interrupted; the janitor among requests, with new trash, and on PostgreSQL; and everything
that is only read, with ranges up to `MaxInt` = 7, where arithmetic wraps.  One fault, at most one crash, two to four
requests, trees of three levels with a shared content, `MaxRows` = 14 rows.  Four requests suffice for trash, restore,
trash of a part and purge; two slots for every race of two handlers.

Several properties are about requests that come one after another (`Alone`), because the code does not promise them
beyond that; each says so, and what happens otherwise is in the section on the code below.  `strayed` is a history variable for the one operation that
may leave a live row under a trashed directory.  `OneNamespace`, `ArchiveHonest` and `LengthAsAnnounced` hold under every interleaving;
the last two where no manifest sends a file to a path that another content has (`Distinct`), and until a content is written
to a path where it has been since the start of the process (`rewritten`, by the history `written`).  Up to then no target that
content_blobs names, and none that a download has looked up, is ever half written, whatever fails or crashes.

Without that condition `ArchiveHonest` is violated in this very run: a manifest is submitted twice at once, and a download is
answered with what the second writer has left so far.  `DirTreeCycle` is a violation: two moves close a cycle.

### Gateway

`HttpRequest` gives a slot its request (`req`), its handler's place (`pc`) and its context (`ctx`); the other modules add their
state and their handlers' steps; `Gateway` joins them in the order of the router: rate limit, static token, JWT,
namespace, handler, audit.  Authorizing a link is split where the code is: the row is read, the password limiter asked, the
password compared (bcrypt, slow), the failure recorded, the download counted by a conditional UPDATE, the file opened.
A request brings any cookie there is, or none (`Held`): a cookie carries a link and an end, and no address.  An answer makes its audit
entries (`due`), of which any may fail to be inserted (`noted` are the others).
A login is split alike, and a refresh is validation, the claim of the token (SETNX, or a locked map) and issue.  `opened`,
`knows`, `rotated`, `attempts` and `ideal` are history variables: downloads, links whose password this process was shown, exchanges,
guesses, and the bucket of a key as if it were never dropped.

`Gateway` runs eleven deployments: a limited link while it is revoked and its file trashed; a password guessed at one
link and at two, with forms and cookies; links of two namespaces; logins; files and administration with tokens that
expire, with JWT enforced, not enforced and absent; more requests than a bucket holds; one refresh token presented
again and again, in memory and in Redis.  Two slots, three to five arrivals, two failures to a lock, buckets of two, a
clock of up to four units, each long enough for a lock, a token or an idle bucket to end, at most one restart.  Two slots
reach every race of a check and its use; the fifth arrival is what comes after a lock has ended.

### UploadClient

One upload by one of four functions: `cli` (UploadFile, streaming through one buffer), `cli_bytes` (uploadBytes), `sdk`
(Upload, streaming, with a context that the first error cancels) and `sdk_bytes` (UploadReader, from memory).  The calling goroutine
(`main`), one goroutine per chunk (`worker`), the semaphore (`Holding`), the error channel (`errs`) and the three attempts of
each request (`tries`) are the code's; the server answers by its rules for sessions, a request at a time.  A request whose
answer is lost is in `abroad` and may be served at any later time, or never.  The server's rules include the chunk size
that a session is given (`Clamped`), which the client is not told; the length of a body (`TooLong`), of which one above 64 MiB is cut
off and answered with a 500 (`CutOff`); and the decompression of what was announced as zstd (`Readable`).

The run `UploadClient`: up to one chunk for known and unknown contents, two chunks at widths one and two with up
to three faults (which end a request's attempts), three chunks with one fault (which fill every channel), one and two chunks
above the server's limit, all of them or all but the last, and up to two chunks of a stream announced as zstd.  `UploadReturns`
excepts the `cli` stream of more than twice as many chunks as it may send at once, which deadlocks (below); with width one and
three chunks that case is in the run.  Fairness: goroutines that can go on do, and a request gets an answer or an error, since the
HTTP client gives it 60 seconds.  That a lost request is ever served is not assumed.  `OneAtATimeSucceeds` is about uploads that send
one chunk at a time, that the server can take (`Admissible`) and that meet no fault.  Compressed uploads from memory are not
among them: `Admissible` asks for data that is what it is announced as.

## Deadlock

`ChunkLimiter` and `Gateway` are checked for deadlock: their requests come again, or a state in which all is served
stutters by an action of its own (`Quiet` of Gateway), so a stop would be a real one.  Elsewhere requests end and
identifiers run out, finished instances stop, and CHECK_DEADLOCK is off; that uploads of clients do not hang is the
liveness property `UploadReturns`.

## What is proved

The proofs hold for any number of requests, chunks, rows and bytes, and for every set of faults unless stated.  They assume
of the constants what the modules name as assumptions: the pools of actors are disjoint and finite, `None` is no other
value, bounds and weights are positive, the requests of a deployment are requests.

`ContentStore_proofs`
- `TypeCorrect`, by the inductive invariant `WellFormed` (types, and what each program counter says of its arguments).
- `ContentKeptUntilZero`, `PathHoldsItsContent`, by `PathInv`: which session may still write or drop which path. The object that
  a blob row names is never that of a session which can still drop it.
- `CountCoversHolders`, `EveryRowCounted`, under `Disciplined` (no copies, one purge
  at a time, the count query does not fail), by `CountInv`: `ref_count` is at least the cardinality of the holders, where
  holders are rows and requests between their reference and their row.  `NeverUndercounted` alone is not inductive: a purge must be
  known to hold the row it is going to delete (`Bookkeeping`).
- `StoreKeepsPromise`: under `Disciplined` the store implements `SharedContent`.  By `StoreInv` (the two invariants above together) and
  `UncountedIsUnheld` (a count of zero leaves no holder); `StepsOfThePromise` gives each action its abstract step, and
  `StepKeepsPromise` collects them.
- `NoReferenceLeaks`, the other direction, under `NothingLost`: no copies, and nothing fails but inserts and unlinks.  Copies have to be left
  out because a copy inserts its row before it counts: a purge in between takes the count to the floor, and the copy's own increment
  is then one too many.  Any number of purges is allowed here: two purges of a row only undercount.

`UploadSession_proofs`
- `TypeCorrect`.
- `SessionCommittedOnce`, by `OnceInv`: at most one finalize is past its claim, it excludes every other one that still
  watches an active key, and nothing has been committed before it commits.
- `SessionGoneForever`, an action property, from the rule that a write of the key empties `watching`.
- `OrphansStayOrphans`, by `OrphanInv`: parts condemned by the sweep belong to a session without a key, which by the previous
  theorem stays without one.
- `CommittedAsSent`, by `SentInv`: a merge that reads a part reads a body of one of its writers or `Torn`; while an index has a sole writer,
  its entry in the hash (without which the merge is not begun) says that this writer has closed the file.
- `AcknowledgedChunksStay`, by `KeptInv`: while no finalize owns the session and nobody has aborted it (`Calm`), a task past its write has its
  part stored and a finished one its entry in the hash.  A late task is the danger, one whose request has gone and whose
  write comes after another's answer.  Assumed is `ReapsToTheEnd`: where sessions expire, Redis does not fail and the process does not die.  A reaper
  pass that stops between the parts and the key leaves an active session without its parts, so without it the theorem is false.

`ChunkLimiter_proofs`
- `MemoryIsBounded`, by `PermitInv`: the weights of the holders add up to at most what the semaphore counts as used, and
  the line holds each waiter once.  The sum is the cardinality of a set of permits, pairs of a request and a number up to its weight
  (`Permits`), so a holder that comes or goes is a disjoint union and no fold has to be unrolled (`TotalGrows` and its like).
- `PermitsLostEarlyOnly`, an action property, from the same invariant.

`NamespaceQuota_proofs`
- `TypeCorrect`, by `WellFormed`: a row that exists has a size, so no identifier is used twice.
- `ReservationsHaveOwners`, when no release fails, no session expires and nothing crashes (`Cleanable`): each
  reservation belongs to a handler, an abort or a session that can still be claimed.
- `NoByteSoldTwice`, `ReservationsAreWorthTheirBytes`, under `Strict`: one writer at a time and no operation but uploads and trash.
  By `QuotaInv`: live rows and everything owed (`Owed`: the reservation of an upload that has no row yet) are within the
  quota; what a handler has read under the lock is still true when it decides (`Snapshot`); what a handler was granted it
  still holds (`Granted`).  Without `Strict` the theorem is false: an abort releases the reservation of a guarded finalize, restores and
  copies add rows without asking, and on PostgreSQL the two sums are read at different times.

`Gateway_proofs`, for any deployment
- `TypesHold`: each handler stands where its route can stand (`Serves`), and what it is about exists.
- `LimitsDownloads`, by `DownloadInv`: downloads opened, and handlers between their UPDATE and the open (`Underway`), are at most the counted
  ones.  The bound by the row alone is not inductive, since a handler that has counted opens later.
- `RevocationTakesEffect`, an action property: a handler can only join `Underway` through a row that is there.
- `PasswordsProtect`, by `PasswordInv`: every cookie of a link with a password was made for somebody who has shown it, whoever brings the cookie
  later; a place behind a comparison has one or the other; and a row that a handler has read has the password of its link.
- `RefreshesOnce`, by `RefreshInv`: a token that has been exchanged is in the table of used ones until it ends, also when the claim is a
  SETNX whose TTL was computed a step earlier.
- `NamespacesHold`, `ActorsAreAudited`, by `IdentityInv` and `AuditInv`: what each place of a handler knows of its user; the entries it makes are
  right and complete (`Truthful`, `Covered`), and those in the log are some of them.
- `GuessesAreBounded`, by `GuessInv`: the failures recorded for a key and the requests that may still record one (`Trying`) are together at
  most the limit and the other slots (`Sound`); a lock ends the first, and only requests let through before it remain.
- `RatesHold`, by `RateInv`: the bucket in use for a key is one that was not dropped, and at no later time holds more than the bucket that is never
  dropped (`Below`); while a key has none in use, that bucket is full.

`UploadClient_proofs`
- `ReportedSuccessIsReal`, by `HonestInv`: for any number of chunks and goroutines, and whatever is lost, retried or served late.
- `UneventfulUploadSucceeds`, by `SmoothInv`: with one admissible chunk at a time and nothing lost, goroutines work one after another
  (`InTurn`), every report is good (`AllGood`), and the one session holds the chunks sent so far (`OneSession`).

`DirTree_proofs`, for any setup, any number of requests at work, any faults and crashes
- `OneNamespaceHolds`, `SendsWhatItPromises`, `LengthsAreKept`, by `TreeInv`.  The properties are far from inductive: a request checks a row at one item and relies on it many items
  later, when others have moved, trashed or deleted the row, and an undo puts rows back which a request has kept in its locals.  The
  invariant therefore says that there is one account `K` of every identifier ever used, a directory or not, whose and with which content, with
  which everything agrees: the table (`TableFits`), each item still to be done (`Good`: the target of a batch, the parent of a copy, the row
  an undo puts back), and the locals of each request (`LocalsFit`: the undo stack and the directories a manifest has made).  Rows change all
  but these three fields, so an account is only ever extended (`Extends`), and what a request knows stays true (`GoodKept`).
- The account also says which content a path may ever have (`Home`): the one an upload stored there, or that of a file which a
  manifest sends there.  Where manifests collide with nothing (`Distinct`) a path has one content (`HomeIsUnique`), and `HomeFollows`
  carries this over to what a move reads at one path and writes at another.  For what is half written it keeps two more sets of places, a
  place being a path with the content that belongs there: `K.whole`, where the content has been in full, and `K.opened`, which says of
  the others who has begun to write there; `K.clean` says that nobody has written to a place twice.  While it does, the one who has opened a
  place is the only one ever to write there (`WritesFit`), nothing in `K.whole` is half written again, and whatever `content_blobs` names
  and whatever a move or a download has looked up is in `K.whole` (`There`), since `SetPath` comes after `FillTarget`.  So what is read
  under a path looked up long ago is what was looked for, or nothing (`ThereYields`), and as long (`LengthIsSize`).  `RangeIsRead` is the arithmetic of ranges: for every
  size and every range that begins in the file, the bytes that the storage yields are as many as announced, or the length announced is negative.
- Beside the named assumptions of the modules these proofs use `SetupsAreServed`: requests are decoded (`WellFormed`), a setup starts with
  rows of one namespace per tree, numbered from the top, none of them live in a trashed directory (`Planted`), and with each content stored
  under a path of its own (`Apart`: the path is the identifier of its session); that contents, as SHA-256 sums, are finitely many; and that
  a worker is no content (`WorkersAreNoContents`), since an object that is being written holds its writer.

`DirTreeAlone_proofs`, for any setup whose requests come one after another (`Alone`), with the janitor, a failing statement anywhere and
crashes, until a row is restored or purged out of a trashed directory (`strayed`)
- `LiveStaysUnderLive`, by `AloneInv`.  The tree is sound in every state, so also between two statements of a request; what makes the next
  statement safe is what is left of the job.  At most one worker has something to do (`OneBusy`), and what it has to do is of one of six
  kinds (`Orderly`).  Trashing: a directory is marked after all that is live in it (`Marked`).  Restoring: the top comes out of the recycle bin
  first (`Reviving`).  Deleting: each row once, and a directory after everything in it (`Felling`), while the undo stack holds the deleted rows
  so that the last one, which is put back first, has its directory (`Undone`, `PuttingBack`).  Moves, copies and manifests: the directories they have
  looked up or made are live still.  `WorkGoesOn` carries this through every statement, `FaultGoesOn` through a failing one.
  That a restore or a purge lists a tree from the top is the one fact about a recursion (`TrashTreeFromTop`).
- `TreeStaysTree`, by `RankInv` on top of it: there is a rank for every identifier, smaller above than below, which rows that a purge may put
  back respect too (`Restful`).  Deleting, trashing, restoring and putting back keep the ranks, an insert ranks just below its directory, and a write of
  `parent` lifts everything that is not above the target (`MovedIsRanked`).  That the target is not below the row is what the walk up
  establishes: the rows it has seen are live, lead to the directory it reads next, and do not include the row that moves (`Climbing`), and at
  the end they are closed upwards (`Clear`).  A manifest moves files only, and nothing is below a file (`FilesAreClear`).
- Some steps of both are about what a recursive function computes.  Where the claim is one about each value (every element is below the row, every
  row comes after its directory) it is proved without an induction theorem: a set of natural numbers has a least element
  (`LeastOfNaturals`), so what holds at first and goes from each to the next holds of all (`FromEachToTheNext`), and a function over an
  interval exists that satisfies its equation (`IteratesExist`).

Only model-checked: liveness (`PartsReclaimed`, `NoStarvation`, `UploadReturns`), which is out of the prover's reach, and four
invariants of the run `DirTree`: `CountsExact`, `ContentKept`, `ArchiveComplete` and `OverdueGone`.  They compare what requests leave behind with
a count, or with everything below a directory: a sum over the rows of a tree that several statements change one by one, and the whole
result of a recursion rather than a fact about each of its elements.  `PathHoldsItsContent`, `EveryRowCounted` and `TypesHold` are proved and not part of a run.

## What the code does otherwise

Two runs end in a violation, and `findings` quotes what the repository says of each: `ContentStoreReupload` (an instant
upload adopts content that is gone) and `DirTreeCycle` (two moves make a cycle of directories, which `walkDir` and
`GetDirTotalSize` then walk for ever; a child restored below a trashed directory opens the same way, since the climb of
`upload.go:886` stops at a trashed row).  The models show more behaviour that departs from what a reader of the code would
expect; the properties above are stated so as to hold beside it.

Contents
- `trash.go:92`: a purge unlinks after the count was found zero; a finalize or instant upload that acquires the
  blob in between loses its object (`PurgeCount`, `AcquireBlob`, `PurgeUnlink`).
- `batch.go:236`: BatchCopy inserts its row before it takes the reference (`CopyPut`, `CopyIncr`); a purge of the source in between
  leaves a live row with count zero.  Hence `Disciplined`.
- `trash.go:79`: a purge makes its row live before it deletes it; trashed again in that window, it is purged by a second
  request too, and its reference is given back twice.  Two purges of a tree and of its child do the same.  Hence one purge at a
  time.
- `upload.go:1098`: DecrBlobRef is an UPDATE and a SELECT; when only the SELECT fails, the rollback restores the row and not the
  reference (`del_count` among the faults that `CountsExact` excepts).

Sessions and memory
- `localfs.go:126-139`, `upload.go:292-302`: a retry of a stored chunk truncates the good part when it opens it and removes it when its
  write fails or its slice checksum does not match; a kill leaves it short, and two that write at once may leave a mixture.  Its entry stays
  in the chunk hash each time.  These are the exceptions in `AckedChunkKept`; a finalize of a session that declares no SHA-256 merges
  what it finds, torn or refused bytes included, and a part that is missing fails it.
- `upload.go:378`: the offset of a PATCH is compared before the chunk is appended, so two requests at one offset are both accepted,
  although the exact comparison is there to keep concurrent PATCH requests from overwriting data (comment at line 368).
- `upload.go:258-267`: a body that cannot be read or is too long, and a session that is not renewed, also because the request's context has
  ended, keep their permits for good (`OnlyEarlyReturnsLeak`); enough of them, and no chunk is taken any more.
- `reaper.go:102`: sessions are listed first and deleted later; one renewed in between is deleted.
- `redis.go:223`: SCAN does not return expired keys, so the chunk hash and offset of an expired session stay for good; so does its
  quota reservation, which the reaper would not release either (`reaper.go:139`, `Expire` of NamespaceQuota).

Quota
- `upload.go:1150`: an abort releases the reservation of a session that a finalize has just guarded, and the capacity is sold twice.
- `batch.go:236`, `trash.go:59`: copies and restores add live rows past the quota.
- `upload.go:563`: between PutFile and the deferred release an upload counts twice; another one, within its own
  reservation, is refused then, and its session, left in "finalizing", cannot be retried (`CountedTwice`).
- `postgres.go:62`: rows and reservations are added up by two SELECTs at READ COMMITTED; an upload that finishes between them is in
  neither sum, and the quota is oversold.  Hence `NoOvercommit` on SQLite.

Trees
- `trash.go:22`: a row moved into a directory while that is being trashed stays live below it; a child restored out of a trashed
  directory does too, and is deleted when the directory is purged (`upload.go:1070`), since the purge lists live children.
- `trash.go:79`: the purge takes the whole tree out of the recycle bin first, so a crash or a failing statement leaves it, or a part of
  it, live again.
- `upload.go:791-797`: a manifest moves an object and then sets its path; between the two, and for good after a failure or crash, the
  blob row names a path that holds nothing.
- `localfs.go:126`, `layout.go:38-54`: the target of a move is truncated where it is, and removed when the write fails.  Of one manifest
  submitted twice, both may have opened the source before the first deletes it; the second then empties the object that the first has
  already named.  A download in between gets too few bytes under the full sum and length, and after a failure or a kill the object is
  gone or short for good (the condition `rewritten` of `ArchiveHonest` and `LengthAsAnnounced`).
- `upload.go:702`, `id.go:21-26`: a manifest without a name takes the first eight characters of an identifier, which are the process's
  prefix and the same for all; with that, with the same directory name submitted again, or with names that `safeStorageName` writes
  alike, an entry overwrites the object of an earlier one with other content: what is then sent under the sum and with the length of
  the one is the other.  Hence `Distinct`.
- `batch.go:256-306`: a copy of a directory into itself or a descendant lists what it has just made, without end (the model stops
  it at `MaxRows`).
- `trash_janitor.go:60`: the list of overdue roots is read first; a root restored and trashed again meanwhile is purged although its
  time starts anew.
- `postgres.go:786-805`: the lists of trashed rows, and ListChildrenPage and ListRootPage, use `scanFiles` of SQLite, which fails on any
  row of PostgreSQL: there the janitor purges nothing and paged listings are errors (`ListAllFilesFails`; `OverdueGone` excepts it).
- SQLite is opened without foreign keys, so the tags of deleted rows stay; PostgreSQL cascades.
- `docs/api.md:496-504` says that deleting a directory does not cascade; it trashes the whole tree.

Downloads and scans
- `handler_util.go:42`: the length of a range that ends at the largest integer overflows and is announced negative, although
  `download.go:74` means header and reader to agree (the exception in `LengthAsAnnounced`).
- `download.go:131`, `168`: `X-Tree-SHA256` promises entries which the packer leaves out silently when they are not there any more.
  `walkDir` uses the stored path, which a rename or move of a directory above leaves as it was, so two entries of an archive can
  have one path; so can a file called `1_a` in a batch and the first one renamed.
- `reaper.go:269-274`: the scan takes the last part of an object's path, a session and a name, for the identifier of a row, and so
  reports every object as an orphan (`docs/api.md:816` describes those without metadata); the scan of blobs reports purged ones for ever.

Gateway
- `middleware.go:249`, `272`: the comment puts the namespace first for the rate key; no namespace is in the context yet when the key
  is made, so the key is always the address.
- `middleware.go:306`: a token taken from a bucket that Cleanup drops at that moment is not counted (`ideal` leaves it out).
- `audit.go:54`: an entry whose insertion fails is logged and lost, and the insertion runs on the context of the request, so a client that hangs
  up may take its own entry with it; `AuditNamesTheActor` promises completeness only when nothing is lost.
- `share.go:314`: a cookie serves whoever brings it until it ends, whatever address the password came from.
- `audit.go:78-79`: a wrong password of a link is recorded by the handler and by the middleware.
- `redis.go:52`: the key of a used refresh token ends with the token; presented at that very instant, it may be exchanged
  twice, so `RefreshOnce` counts exchanges while the token is good.  A restart forgets the used tokens that are kept in memory.
- `share_password_limiter.go:131`: a full table drops its oldest entry, which may be a lock that still runs.

Clients
- `client.go:398`, `433`: a goroutine of `uploadStream` reports to a channel of `concurrency` places before it gives its place back, and
  the reports are read only after the last chunk has been started: with more than twice as many chunks as `concurrency` the upload waits
  for ever (the exception in `UploadReturns`; README.md:381 and cmd_upload.go:25 describe concurrent uploads of chunks).
- `client.go:408`: all goroutines send slices of one buffer, which the next chunk overwrites, even with one at a time; such a chunk
  fails its checksum, or is sent as another one, and `SuccessIsHonest` says that the whole is then refused.
- `upload.go:371-390`: the server takes a PATCH only at the offset received so far, and both clients send several at once; all but the first
  in order are refused with 409, and so is the retry of a PATCH whose answer was lost.
- `client.go:87-98`: after three answers of 5xx (507 for a full quota included) `do` returns neither response nor error, and its callers
  dereference the response (`panicked`); `bench`, which means to report an error rate (cmd_bench.go:24), ends so too.
- `upload.go:140`: a chunk size above MaxInFlightBytes or 64 MiB is taken down silently, and the answer of POST /uploads does not carry it.
  Longer chunks are refused with 400 (`upload.go:262`); above 64 MiB their bodies are cut off while they are read, which is a 500 and, after
  three of them, the panic above.  `bench` sends each file as one chunk.
- `sdk/go/fileupload/upload.go:220`: UploadReader with WithCompression("zstd") announces zstd and sends raw bytes; its finalize always fails,
  and the session stays claimed until it expires, although `sdk/go/fileupload/client.go:233` offers compressed uploads (`Readable`, excepted by `Admissible`).
- `router.go:217`: CheckExists of the command-line client decodes the body of an answer to HEAD, which has none; a known
  content leaves a row on the server and an error in the client.
- A repeated request is not recognized: create makes a second session, CheckExists and SubmitDir a second row, and a finalize after a lost
  answer is refused although the file is there.  The resume file is written and never read (`loadResumeState`).
- UploadDir of both clients submits the files that went well and reports success.

## Not modelled

The WebSocket hub: its broadcasts are read by nobody in the system.  The JavaScript SDK and the web interface.  UploadDir and the
downloads of the Go clients, previews, the pages of audit and statistics, start and shutdown.  Configuration, metrics, compression
formats, hashers, MIME types, HTTP headers of presentation, ZIP and tar: data that no property tells apart.  Signatures and password
hashes are taken to be unforgeable.  The bytes of a content are its SHA-256; of compression there is only whether a stream is what it was announced as.  Immediate deletion (`Delete`, `DeleteFile`, `DeleteDir` of
UploadService) is called by no handler at this commit.

## Plan

1. Done: `ContentStore` with its refinement of `SharedContent`, `UploadSession`, `ChunkLimiter`, `NamespaceQuota`, `DirTree`, `Gateway`,
   `UploadClient`; theorems about all of them.
2. More theorems about the tree: of the invariants that are left, `CountsExact` is the nearest, by an invariant that relates the counts to the
   rows and to what the purge at work still has to count.
3. `UploadClient` over `UploadSession` instead of a server that answers at once; the JavaScript SDK with pause and resume; UploadDir.
4. `WSHub`: registration against Close.
