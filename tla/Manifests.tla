----------------------------- MODULE Manifests -----------------------------
(***************************************************************************)
(* What makes rows: SubmitDir, which turns a manifest of uploaded files    *)
(* into a directory tree and moves their objects to where the tree says,   *)
(* and BatchCopy, which gives a copy the content of its original.          *)
(***************************************************************************)
EXTENDS TreeWork

\* The path of the directory an entry is in, <<>> for the root.
ParentPath(path) == Front(path)

\* A manifest without a name is called dir_ and the first eight characters of
\* the root's id; they are the prefix of every id of this process, so all
\* such directories have one name.
GeneratedName == 0

DirName(q) == IF q.name = None THEN GeneratedName ELSE q.name

\* PutFile of a row with a new id.
Insert(row) ==
  /\ issued < MaxRows
  /\ files' = PutFile(issued + 1, row) /\ issued' = issued + 1
  /\ UNCHANGED <<blobs, objects, tags, clock>>

-----------------------------------------------------------------------------
(* SubmitDir: request.arg is the sequence of entries [path, file].         *)

\* An entry of the manifest by itself and against those before it.
SafeEntry(entries, i) ==
  /\ entries[i].path # <<>>
  /\ \A j \in 1 .. i - 1 : entries[j].path # entries[i].path /\ entries[j].file # entries[i].file

\* validateDirManifest, one GetFile for each entry.
ValidateEntry(r) ==
  LET i == Now(r).id e == request[r].arg[i] verdict == Verdict(e.file, request[r].space) IN
  /\ At(r, "validate") /\ Read
  /\ CASE ~SafeEntry(request[r].arg, i) -> Refuse(r, 400)
       [] SafeEntry(request[r].arg, i) /\ verdict = 404 -> Refuse(r, 400)
       [] OTHER -> IF files[e.file].dir THEN Refuse(r, 400)
                   ELSE IF verdict = 403 THEN Refuse(r, 403) ELSE Done(r)

\* Every directory a path goes through, parents first.
DirPaths(entries) ==
  InOrder(UNION {{SubSeq(entries[i].path, 1, n) : n \in 1 .. Len(entries[i].path) - 1}
                        : i \in DOMAIN entries}, PathOrder)

\* dirMap, with the root under the empty path.
Made(r, path) == [notes[r] EXCEPT !.made =
                    [p \in DOMAIN @ \cup {path} |-> IF p = path THEN issued + 1 ELSE @[p]]]

\* A directory that is not in the map is taken to be the root.
ParentID(r, path) ==
  LET made == notes[r].made IN
  made[IF ParentPath(path) \in DOMAIN made THEN ParentPath(path) ELSE <<>>]

MakeRoot(r) ==
  LET entries == request[r].arg IN
  /\ At(r, "make_root")
  /\ Insert(NewDir(request[r].space, None, DirName(request[r]), <<>>))
  /\ ThenNoting(r, Each(DirPaths(entries), LAMBDA p : ItemFor("make_dir", 0, p))
                   \o Each(entries, LAMBDA e : ItemFor("adopt", e.file, e.path)),
                Made(r, <<>>))

MakeDir(r) ==
  LET path == Now(r).arg IN
  /\ At(r, "make_dir")
  /\ Insert(NewDir(request[r].space, ParentID(r, path), Last(path), path))
  /\ ThenNoting(r, <<>>, Made(r, path))

\* A file that has gone since the validation is left out.
Adopt(r) ==
  LET f == Now(r).id IN
  /\ At(r, "adopt") /\ Read
  /\ IF ~Live(f) THEN Done(r)
     ELSE Then(r, <<[Now(r) EXCEPT !.do = "reparent"],
                    [Now(r) EXCEPT !.do = "relocate", !.at = files[f].sha]>>)

Reparent(r) ==
  LET path == Now(r).arg IN
  /\ At(r, "reparent")
  /\ FilesOnly(ReparentFile(Now(r).id, ParentID(r, path), path))
  /\ Done(r)

\* layout.Move of the content: read, write, delete, and then the new path in
\* content_blobs.  at is the content, arg the old path, the new one, what was
\* found at the old one and who has the new one open.
Relocate(r) ==
  LET blob == GetBlobBySha(Now(r).at)
      to == HierarchicalPath(request[r].space, DirName(request[r]), Now(r).arg)
  IN
  /\ At(r, "relocate") /\ Read
  /\ IF blob = None \/ blob.path = to THEN Done(r)
     ELSE Then(r, <<[Now(r) EXCEPT !.do = "read_source", !.arg = <<blob.path, to>>]>>)

\* Each item of the move leads to the next; an error ends it.
MoveOn(r, item) == Then(r, <<[Now(r) EXCEPT !.do = item]>>)

\* Mutant: the row names the target before there is anything at it.
NameTargetFirst(r) ==
  LET content == Open(Now(r).arg[1]) IN
  /\ At(r, "read_source") /\ Read
  /\ IF content = None THEN Done(r)
     ELSE Then(r, <<[Now(r) EXCEPT !.do = "set_path"],
                    [Now(r) EXCEPT !.do = "write_target", !.arg = Append(@, content)]>>)

\* The file that is opened can be read to its end, whatever becomes of the path.
ReadSource(r) ==
  LET content == Open(Now(r).arg[1]) IN
  /\ At(r, "read_source") /\ Read
  /\ IF content = None THEN Done(r)
     ELSE Then(r, <<[Now(r) EXCEPT !.do = "write_target", !.arg = Append(@, content)]>>)

\* LocalFS.Write empties what is at the target, in place, before it copies.
WriteTarget(r) ==
  /\ At(r, "write_target")
  /\ ObjectsOnly(Write(Now(r).arg[2], r))
  /\ Then(r, <<[Now(r) EXCEPT !.do = "fill_target", !.arg = Append(@, r)]>>)

\* What the source yields: what it held when it was opened, or what another
\* writer has made of it since.
Copied(r) == {Now(r).arg[3]} \cup ({Open(Now(r).arg[1])} \ {None})

\* What is at the target in the end: if another writer has been there, the
\* bytes of both may be mixed.
Mixed(there, content, writer) ==
  IF there \in {writer, content} THEN {content} ELSE {there, content, writer}

\* A target that is deleted meanwhile stays deleted.
FillTarget(r) ==
  LET to == Now(r).arg[2] IN
  /\ At(r, "fill_target") /\ MoveOn(r, "delete_source")
  /\ IF to \notin DOMAIN objects THEN Read
     ELSE \E content \in Copied(r) : \E left \in Mixed(Open(to), content, Now(r).arg[4]) :
            ObjectsOnly(Write(to, left))

DeleteSource(r) ==
  /\ At(r, "delete_source")
  /\ ObjectsOnly(Unlink(Now(r).arg[1]))
  /\ MoveOn(r, "set_path")

\* Mutant: the row keeps the old path.
KeepPath(r) == At(r, "set_path") /\ Read /\ Done(r)

SetPath(r) ==
  /\ At(r, "set_path")
  /\ BlobsOnly(UpdateBlobStorage(Now(r).at, Now(r).arg[2]))
  /\ Done(r)

-----------------------------------------------------------------------------
(* BatchCopy: a copy of a directory lists the original after the copy of   *)
(* the directory itself is in the table.                                   *)

\* at is where the copy goes, arg the row that is copied.
Copying(f, parent) == [Item("copy_row", f) EXCEPT !.at = parent, !.arg = files[f]]

Copy(r) ==
  LET f == Now(r).id verdict == Verdict(f, request[r].space) IN
  /\ At(r, "copy") /\ Read
  /\ IF verdict = 200 THEN Then(r, <<Copying(f, request[r].to)>>) ELSE Fail(r, verdict)

CopyRow(r) ==
  LET row == Now(r).arg IN
  /\ At(r, "copy_row")
  /\ Insert([row EXCEPT !.space = request[r].space, !.parent = Now(r).at])
  /\ Then(r, <<IF row.dir THEN ItemAt("copy_list", Now(r).id, issued + 1)
                          ELSE ItemFor("copy_ref", Now(r).id, row.sha)>>)

CopyList(r) ==
  /\ At(r, "copy_list") /\ Read
  /\ Then(r, Each(ListChildren(Now(r).id), LAMBDA f : Copying(f, Now(r).at)))

\* Mutant: only the first level of a copy takes references.
CopyReferenceAtTop(r) ==
  /\ At(r, "copy_ref") /\ Done(r)
  /\ IF Now(r).id \in Range(request[r].ids) THEN BlobsOnly(IncrBlobRef(Now(r).arg)) ELSE Read

CopyReference(r) ==
  /\ At(r, "copy_ref")
  /\ BlobsOnly(IncrBlobRef(Now(r).arg)) /\ Done(r)

ManifestStep(r) ==
  \/ ValidateEntry(r) \/ MakeRoot(r) \/ MakeDir(r) \/ Adopt(r) \/ Reparent(r)
  \/ Relocate(r) \/ ReadSource(r) \/ WriteTarget(r) \/ FillTarget(r) \/ DeleteSource(r) \/ SetPath(r)
  \/ Copy(r) \/ CopyRow(r) \/ CopyList(r) \/ CopyReference(r)
=============================================================================
