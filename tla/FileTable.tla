----------------------------- MODULE FileTable -----------------------------
(***************************************************************************)
(* What the directory operations keep their state in: the tables files,    *)
(* content_blobs and file_tags of the SQL stores, and the objects of the   *)
(* storage.  Every operator below is one SQL statement or one storage      *)
(* call, so one atomic step: a query returns a value, an update returns    *)
(* the next value of the table it writes.                                  *)
(***************************************************************************)
EXTENDS Naturals, Sequences, FiniteSets, SequencesExt

CONSTANTS
  None,        \* no value: SQL NULL, Go's nil or ""
  Spaces,      \* namespaces
  Contents,    \* file contents; a content also stands for its SHA-256
  MaxRows,     \* bound of the model on the rows ever made
  StorageName  \* names that are written differently in a storage path

ASSUME RowsAreBounded == MaxRows \in Nat
ASSUME NoneIsNoValue == None \notin Nat

\* There are 2^256 SHA-256 sums.
ASSUME ContentsAreFinite == IsFiniteSet(Contents)

\* NewID numbers the rows of one process in the order they are made.
IDs == 1 .. MaxRows

VARIABLES
  files,      \* file_id -> row, for the rows of the table
  issued,     \* how many ids have been used
  blobs,      \* sha -> [path, refs]; no path: no row of content_blobs
  objects,    \* path -> content, for the objects of the storage; an object that is
              \* still being written is known by its writer
  tags,       \* file_id -> set of tags
  clock       \* time.Now()

tableVars == <<files, issued, blobs, objects, tags, clock>>

\* A row of files.  A path is a sequence of names, <<>> for "/"; trashed is
\* deleted_at, 0 for NULL.
Row == [space : Spaces, dir : BOOLEAN, parent : IDs \cup {None}, sha : Contents \cup {None},
        name : Nat, path : Seq(Nat), trashed : Nat]

NewDir(space, parent, name, path) ==
  [space |-> space, dir |-> TRUE, parent |-> parent, sha |-> None,
   name |-> name, path |-> path, trashed |-> 0]

FilesOnly(t) == files' = t /\ UNCHANGED <<issued, blobs, objects, tags, clock>>
BlobsOnly(t) == blobs' = t /\ UNCHANGED <<files, issued, objects, tags, clock>>
ObjectsOnly(t) == objects' = t /\ UNCHANGED <<files, issued, blobs, tags, clock>>

-----------------------------------------------------------------------------
(* Queries.  Most see only the rows that are not in the trash.             *)

Live(f) == f \in DOMAIN files /\ files[f].trashed = 0

GetFile(f) == IF Live(f) THEN files[f] ELSE None

GetFilesByIDs(ids) == {f \in Range(ids) : Live(f)}

\* A set as a list, each element in its place.
Placed(S, place) ==
  [i \in 1 .. Cardinality(S) |-> CHOOSE x \in S : \A y \in S : place[y] = i => place[x] = i]

\* A set in a strict total order of its elements; a list sorted, and those
\* of its elements that pass a test.
InOrder(S, Before(_, _)) ==
  Placed(S, [x \in S |-> Cardinality({y \in S : Before(y, x)}) + 1])

Chosen(list, places) == [i \in 1 .. Len(places) |-> list[places[i]]]

Sorted(list, Before(_, _)) ==
  Chosen(list, InOrder(DOMAIN list, LAMBDA i, j :
    Before(list[i], list[j]) \/ (i < j /\ ~Before(list[j], list[i]))))

Those(list, Test(_)) == Chosen(list, InOrder({i \in DOMAIN list : Test(list[i])}, <))

\* ORDER BY name; rows of one name come in any order, here by id.
NameOrder(f, g) ==
  \/ files[f].name < files[g].name
  \/ files[f].name = files[g].name /\ f < g

ChildrenOf(p) == {f \in DOMAIN files : Live(f) /\ files[f].parent = p}

ListChildren(p) == InOrder(ChildrenOf(p), NameOrder)

RootsOf(space) == {f \in DOMAIN files : Live(f) /\ files[f].parent = None /\ files[f].space = space}

TypeClause(type, f) == CASE type = "dir" -> files[f].dir
                         [] type = "file" -> ~files[f].dir
                         [] OTHER -> TRUE

\* The offset is not clamped at the end: a page after the last is empty.
Offset(page, perPage) == IF page = 0 THEN 0 ELSE (page - 1) * perPage

\* LIMIT n OFFSET o
Rows(all, o, n) == SubSeq(all, o + 1, IF o + n < Len(all) THEN o + n ELSE Len(all))

\* One page of a listing and the number of rows it is a page of.
ListPage(rows, type, page, perPage) ==
  LET all == InOrder({f \in rows : TypeClause(type, f)}, NameOrder) IN
  [total |-> Len(all),
   children |-> Rows(all, Offset(page, perPage), perPage)]

\* PostgresStore hands its rows to the scanner of SQLite, which reads is_dir
\* as a number: a page with a row on it is an error.
PageFails(store, page) == store = "postgres" /\ page.children # <<>>

\* ORDER BY deleted_at DESC, name ASC
TrashOrder(f, g) ==
  \/ files[f].trashed > files[g].trashed
  \/ files[f].trashed = files[g].trashed /\ NameOrder(f, g)

ListTrash(space) ==
  InOrder({f \in DOMAIN files : files[f].space = space /\ files[f].trashed # 0}, TrashOrder)

ListAllFiles == InOrder(DOMAIN files, <)

\* On PostgreSQL the same mistake as PageFails: any row at all is an error.
ListAllFilesFails(store) == store = "postgres" /\ DOMAIN files # {}

ListFilesByBlob(sha) == {f \in DOMAIN files : files[f].sha = sha}

GetNamespaceUsage(space) ==
  Cardinality({f \in DOMAIN files : Live(f) /\ files[f].space = space /\ ~files[f].dir})

GetBlobBySha(sha) == IF sha # None /\ blobs[sha].path # None THEN blobs[sha] ELSE None

GetBlobsBySha(shas) == {sha \in shas : GetBlobBySha(sha) # None}

ListAllBlobs == {sha \in Contents : blobs[sha].path # None}

-----------------------------------------------------------------------------
(* Updates.  An UPDATE or DELETE of a row that is gone changes nothing and *)
(* is no error; only the two that ask RowsAffected tell.                   *)

\* INSERT: deleted_at is not among the columns.
PutFile(f, row) == [g \in DOMAIN files \cup {f} |->
                      IF g = f THEN [row EXCEPT !.trashed = 0] ELSE files[g]]

Updated(f, row) == [g \in DOMAIN files |-> IF g = f THEN row ELSE files[g]]

MoveFileToTrash(f, at) == Updated(f, [files[f] EXCEPT !.trashed = at])

RestoreFile(f) == Updated(f, [files[f] EXCEPT !.trashed = 0])

DeleteFile(f) == [g \in DOMAIN files \ {f} |-> files[g]]

RenameFile(f, name) ==
  IF f \in DOMAIN files THEN Updated(f, [files[f] EXCEPT !.name = name, !.path = <<name>>]) ELSE files

ReparentFile(f, parent, path) ==
  IF f \in DOMAIN files THEN Updated(f, [files[f] EXCEPT !.parent = parent, !.path = path]) ELSE files

UpdateFileParent(f, parent) ==
  IF f \in DOMAIN files THEN Updated(f, [files[f] EXCEPT !.parent = parent]) ELSE files

\* One transaction: the old tags go, the new ones that are not empty come.
SetFileTags(f, new) == [tags EXCEPT ![f] = new \ {""}]

IncrBlobRef(sha) == [blobs EXCEPT ![sha].refs = @ + 1]

\* The count stops at zero.
DecrBlobRef(sha) == [blobs EXCEPT ![sha].refs = IF @ = 0 THEN 0 ELSE @ - 1]

UpdateBlobStorage(sha, path) == [blobs EXCEPT ![sha].path = path]

-----------------------------------------------------------------------------
(* The storage.                                                            *)

Open(path) == IF path \in DOMAIN objects THEN objects[path] ELSE None

Write(path, content) == [p \in DOMAIN objects \cup {path} |->
                           IF p = path THEN content ELSE objects[p]]

\* Deleting what is not there is no error.
Unlink(path) == [p \in DOMAIN objects \ {path} |-> objects[p]]

\* safeStorageName: reserved characters become underscores, trailing dots go.
SafeName(n) == IF n \in DOMAIN StorageName THEN StorageName[n] ELSE n

\* Where Finalize puts an object, and where a manifest moves it.
FlatPath(space, session) == <<space, session>>
HierarchicalPath(space, dirName, path) ==
  <<space>> \o [i \in 1 .. Len(path) + 1 |-> SafeName((<<dirName>> \o path)[i])]
=============================================================================
