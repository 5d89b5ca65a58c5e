------------------------------ MODULE Archive ------------------------------
(***************************************************************************)
(* DownloadService and the consistency scan: what is read from the tree.   *)
(* A directory is walked first and packed afterwards, row by row; a batch  *)
(* is looked up at once; a file is sent whole or in a byte range; listings *)
(* come in pages with the sizes of their directories; the scan compares    *)
(* the tables with the storage.                                            *)
(***************************************************************************)
EXTENDS TreeWork, Integers

CONSTANTS
  Size,        \* how long a content is
  MaxInt,      \* the largest int64
  MaxDepth     \* how many ancestors a listing shows at most

ASSUME SizesAreNumbers == Size \in [Contents -> Nat] /\ MaxInt \in Nat /\ MaxDepth \in Nat

\* An object that is still being written is as short as can be.
Length(content) == IF content \in Workers THEN 0 ELSE Size[content]

\* int64 arithmetic wraps around.
Wrapped(n) == IF n > MaxInt THEN n - 2 * (MaxInt + 1) ELSE n

\* A piece of an answer: the path it is sent under, the SHA-256 promised,
\* the content read, the length announced and the bytes that come.
Piece(path, sha, content, length, bytes) ==
  [path |-> path, sha |-> sha, content |-> content, length |-> length, bytes |-> bytes]

Sending(r, piece) == ThenNoting(r, <<>>, [notes[r] EXCEPT !.sent = Append(@, piece)])
Finding(r, items, found) == ThenNoting(r, items, [notes[r] EXCEPT !.found = @ \o found])

-----------------------------------------------------------------------------
(* A directory as an archive.                                              *)

\* The path a manifest or a rename has stored, else the names on the way.
RelPath(f, prefix) ==
  IF files[f].path = <<>> THEN Append(prefix, files[f].name) ELSE files[f].path

GetDirManifest(r) ==
  LET f == Now(r).id IN
  /\ At(r, "get_dir") /\ Read
  /\ CASE ~Live(f) -> Fail(r, 404)
       [] Live(f) /\ ~files[f].dir -> Fail(r, 400)
       [] OTHER -> IF files[f].space # request[r].space THEN Fail(r, 403)
                   ELSE Then(r, <<ItemFor("walk", f, <<>>), Item("stream", f)>>)

Entry(f, prefix) == [path |-> RelPath(f, prefix), sha |-> files[f].sha, file |-> f]

\* Mutant: directories in directories are left out.
WalkOneLevel(r) ==
  LET children == ListChildren(Now(r).id) prefix == Now(r).arg IN
  /\ At(r, "walk") /\ Read
  /\ Finding(r, <<>>, Each(Those(children, LAMBDA f : ~files[f].dir), LAMBDA f : Entry(f, prefix)))

\* The children are taken as they are: whose they are is not asked again.
WalkDir(r) ==
  LET children == ListChildren(Now(r).id) prefix == Now(r).arg IN
  /\ At(r, "walk") /\ Read
  /\ Finding(r, Each(Those(children, LAMBDA f : files[f].dir),
                     LAMBDA f : ItemFor("walk", f, RelPath(f, prefix))),
             Each(Those(children, LAMBDA f : ~files[f].dir), LAMBDA f : Entry(f, prefix)))

\* X-Tree-SHA256 is over the entries in the order of their paths.
StreamDir(r) ==
  LET sorted == Sorted(notes[r].found, LAMBDA a, b : PathOrder(a.path, b.path)) IN
  /\ At(r, "stream") /\ Read
  /\ Then(r, Each(sorted, LAMBDA e : ItemAt("pack", e.file, e.path)))

\* What is gone by now is left out of the archive without an error.
Pack(r) ==
  LET f == Now(r).id IN
  /\ At(r, "pack") /\ Read
  /\ IF Live(f) THEN Then(r, <<[Now(r) EXCEPT !.do = "pack_blob", !.arg = files[f].sha]>>)
                ELSE Done(r)

PackBlob(r) ==
  LET blob == GetBlobBySha(Now(r).arg) IN
  /\ At(r, "pack_blob") /\ Read
  /\ IF blob = None THEN Done(r)
     ELSE Then(r, <<[Now(r) EXCEPT !.do = "pack_object", !.arg = <<@, blob.path>>]>>)

PackObject(r) ==
  LET sha == Now(r).arg[1] content == Open(Now(r).arg[2]) IN
  /\ At(r, "pack_object") /\ Read
  /\ IF content = None THEN Done(r)
     ELSE Sending(r, Piece(Now(r).at, sha, content, Size[sha], Length(content)))

-----------------------------------------------------------------------------
(* A batch of files as an archive; names that repeat are numbered.         *)

FetchFiles(r) ==
  LET ids == Those(request[r].ids, LAMBDA f :
               /\ f \in GetFilesByIDs(request[r].ids)
               /\ ~files[f].dir /\ files[f].space = request[r].space)
  IN /\ At(r, "fetch") /\ Read
     /\ Then(r, <<ItemFor("fetch_blobs", None, Each(ids, LAMBDA f :
                   [name |-> files[f].name, sha |-> files[f].sha]))>>)

NumberedName(entries, i) ==
  LET before == Cardinality({j \in 1 .. i - 1 : entries[j].name = entries[i].name}) IN
  IF before = 0 THEN <<entries[i].name>> ELSE <<before, entries[i].name>>

FetchBlobs(r) ==
  LET entries == Those(Now(r).arg, LAMBDA e : e.sha \in GetBlobsBySha({e.sha})) IN
  /\ At(r, "fetch_blobs") /\ Read
  /\ IF entries = <<>> THEN Fail(r, 404)
     ELSE Then(r, Sorted([i \in 1 .. Len(entries) |->
                             [Item("pack_object", None) EXCEPT
                                !.at = NumberedName(entries, i),
                                !.arg = <<entries[i].sha, blobs[entries[i].sha].path>>]],
                          LAMBDA p, q : PathOrder(p.at, q.at)))

-----------------------------------------------------------------------------
(* One file, whole or in part: request.arg is the Range header as [start,  *)
(* end], None for none.                                                    *)

NoRange == [offset |-> 0, length |-> 0, requested |-> FALSE]
BadRange(h) == h # None /\ h.end # None /\ h.end < h.start

ParseRange(h) ==
  IF h = None THEN NoRange
  ELSE [offset |-> h.start, requested |-> TRUE,
        length |-> IF h.end = None THEN 0 ELSE Wrapped(h.end - h.start + 1)]

OutOfFile(rng, size) == rng.requested /\ rng.offset >= size

\* Mutant: a range that ends beyond the file is announced as it was asked.
NormalizedOpenEnd(rng, size) ==
  IF rng.length = 0 THEN [rng EXCEPT !.length = size - rng.offset] ELSE rng

\* The range that is announced and read.
Normalized(rng, size) ==
  LET rest == size - rng.offset IN
  IF rng.length = 0 \/ rng.length > rest THEN [rng EXCEPT !.length = rest] ELSE rng

\* Storage.Open reads to the end unless the length is positive; beyond the end
\* there is nothing to read.
BytesRead(rng, size) ==
  LET rest == IF size < rng.offset THEN 0 ELSE size - rng.offset IN
  IF rng.length > 0 /\ rng.length < rest THEN rng.length ELSE rest

GetFileContent(r) ==
  LET f == Now(r).id verdict == Verdict(f, request[r].space) IN
  /\ At(r, "get") /\ Read
  /\ CASE BadRange(request[r].arg) -> Fail(r, 416)
       [] ~BadRange(request[r].arg) /\ verdict # 200 -> Fail(r, verdict)
       [] OTHER -> IF files[f].dir THEN Fail(r, 410)
                   ELSE Then(r, <<ItemFor("get_blob", f, files[f].sha)>>)

GetBlob(r) ==
  LET sha == Now(r).arg blob == GetBlobBySha(sha) rng == ParseRange(request[r].arg) IN
  /\ At(r, "get_blob") /\ Read
  /\ IF blob = None THEN Fail(r, 410)
     ELSE IF OutOfFile(rng, Size[sha]) THEN Fail(r, 400)
     ELSE Then(r, <<[Item("get_object", blob.path) EXCEPT !.at = sha, !.arg = Normalized(rng, Size[sha])]>>)

GetObject(r) ==
  LET content == Open(Now(r).id) rng == Now(r).arg IN
  /\ At(r, "get_object") /\ Read
  /\ IF content = None THEN Fail(r, 404)
     ELSE Sending(r, Piece(<<>>, Now(r).at, content, rng.length, BytesRead(rng, Length(content))))

-----------------------------------------------------------------------------
(* Listings.  request.arg is [type, page, perPage].                        *)

ListDirPage(r) ==
  LET dir == request[r].to verdict == Verdict(dir, request[r].space) IN
  /\ At(r, "ls") /\ Read
  /\ IF dir # None /\ verdict # 200 THEN Fail(r, verdict)
     ELSE Then(r, <<ItemAt("ls_page", dir, IF dir = None THEN None ELSE files[dir].parent)>>)

\* A listing with its directories' sizes, and the way up from it.
ListedPage(r, store) ==
  LET dir == Now(r).id q == request[r].arg
      page == ListPage(IF dir = None THEN RootsOf(request[r].space) ELSE ChildrenOf(dir),
                       q.type, q.page, q.perPage)
      dirs == Those(page.children, LAMBDA f : files[f].dir)
      up == IF Now(r).at = None THEN <<>> ELSE <<ItemFor("ancestors", Now(r).at, <<>>)>>
  IN /\ At(r, "ls_page") /\ Read
     /\ IF PageFails(store, page) THEN Fail(r, 500)
        ELSE Finding(r, Each(dirs, LAMBDA f : ItemAt("dir_size", f, f)) \o up, page.children)

\* GetDirTotalSize: what is directly in the directory, then what is below.
\* at is the directory of the page the size is for.
DirTotalSize(r) ==
  LET children == ListChildren(Now(r).id)
      dirs == Those(children, LAMBDA f : files[f].dir)
      sizes == Each(Those(children, LAMBDA f : ~files[f].dir),
                    LAMBDA f : Piece(<<Now(r).at>>, None, None, 0, Size[files[f].sha]))
  IN /\ At(r, "dir_size") /\ Read
     /\ ThenNoting(r, Each(dirs, LAMBDA f : ItemAt("dir_size", f, Now(r).at)),
                   [notes[r] EXCEPT !.sent = @ \o sizes])

\* An error anywhere below leaves the directory without a size.
SizeFails(r) ==
  LET d == Now(r).at IN
  /\ Leaves(r, Those(Head(jobs[r]), LAMBDA i : i.do # "dir_size" \/ i.at # d))
  /\ notes' = [notes EXCEPT ![r].sent = Those(@, LAMBDA piece : piece.path # <<d>>)]
  /\ UNCHANGED request

\* arg are the ancestors so far, in which the walk must not meet one again.
GetAncestors(r) ==
  LET f == Now(r).id seen == Now(r).arg IN
  /\ At(r, "ancestors") /\ Read
  /\ IF f = None \/ ~Live(f) \/ f \in Range(seen) \/ Len(seen) = MaxDepth THEN Done(r)
     ELSE Then(r, <<ItemFor("ancestors", files[f].parent, <<f>> \o seen)>>)

\* Stat does not tell a stranger that the row is there.
Stat(r) ==
  LET f == Now(r).id IN
  /\ At(r, "stat") /\ Read
  /\ IF Verdict(f, request[r].space) # 200 THEN Fail(r, 404)
     ELSE Finding(r, IF files[f].dir THEN <<>> ELSE <<ItemFor("stat_blob", f, files[f].sha)>>, <<f>>)

StatBlob(r) ==
  LET blob == GetBlobBySha(Now(r).arg) IN
  /\ At(r, "stat_blob") /\ Read
  /\ Finding(r, <<>>, IF blob = None THEN <<>> ELSE <<blob>>)

\* GET /v1/usage and GET /v1/trash are one query each.
Usage(r) == At(r, "usage") /\ Read /\ Finding(r, <<>>, <<GetNamespaceUsage(request[r].space)>>)
ShowTrash(r) == At(r, "show_trash") /\ Read /\ Finding(r, <<>>, ListTrash(request[r].space))

-----------------------------------------------------------------------------
(* The consistency scan; it reports and repairs nothing.                   *)

\* The scan looks for the object's name among the file ids; an object is not
\* named by a file id, so every object counts as an orphan.
ScanObjects(r) ==
  /\ At(r, "scan_objects") /\ Read
  /\ Finding(r, <<>>, Each(SetToSeq(DOMAIN objects), LAMBDA p : [kind |-> "orphan", of |-> p]))

ScanBlobs(r) ==
  /\ At(r, "scan_blobs") /\ Read
  /\ Then(r, Each(SetToSeq(ListAllBlobs), LAMBDA sha : ItemFor("scan_path", sha, blobs[sha].path)))

ScanPath(r) ==
  /\ At(r, "scan_path") /\ Read
  /\ Finding(r, <<>>, IF Open(Now(r).arg) # None THEN <<>>
                      ELSE <<[kind |-> "missing", of |-> Now(r).id]>>)

ScanCounts(r) ==
  /\ At(r, "scan_counts") /\ Read
  /\ Then(r, Each(SetToSeq(ListAllBlobs), LAMBDA sha : ItemFor("scan_count", sha, blobs[sha].refs)))

\* Rows in the recycle bin count: they keep their references.
ScanCount(r) ==
  LET sha == Now(r).id IN
  /\ At(r, "scan_count") /\ Read
  /\ Finding(r, <<>>, IF Cardinality(ListFilesByBlob(sha)) = Now(r).arg THEN <<>>
                      ELSE <<[kind |-> "drift", of |-> sha]>>)

ArchiveStep(r, store) ==
  \/ GetDirManifest(r) \/ WalkDir(r) \/ StreamDir(r) \/ Pack(r) \/ PackBlob(r) \/ PackObject(r)
  \/ FetchFiles(r) \/ FetchBlobs(r)
  \/ GetFileContent(r) \/ GetBlob(r) \/ GetObject(r)
  \/ ListDirPage(r) \/ ListedPage(r, store) \/ DirTotalSize(r) \/ GetAncestors(r)
  \/ Stat(r) \/ StatBlob(r) \/ Usage(r) \/ ShowTrash(r)
  \/ ScanObjects(r) \/ ScanBlobs(r) \/ ScanPath(r) \/ ScanCounts(r) \/ ScanCount(r)
=============================================================================
