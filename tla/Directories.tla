---------------------------- MODULE Directories ----------------------------
(***************************************************************************)
(* UploadService on rows that exist: to the recycle bin and back, purge    *)
(* with its undo stack, move, rename, tags, and the trash janitor.         *)
(***************************************************************************)
EXTENDS TreeWork

CONSTANT Retention   \* how long a row stays in the recycle bin

ASSUME RetentionIsPositive == Retention \in Nat \ {0}

-----------------------------------------------------------------------------
(* Trash: children first, each row by a statement of its own.              *)

TrashTree(f, at) == ItemFor(IF files[f].dir THEN "trash_list" ELSE "trash_mark", f, at)

Trash(r) ==
  LET f == Now(r).id verdict == Verdict(f, request[r].space) IN
  /\ At(r, "trash") /\ Read
  /\ IF verdict = 200 THEN Then(r, <<TrashTree(f, clock)>>) ELSE Fail(r, verdict)

TrashList(r) ==
  /\ At(r, "trash_list") /\ Read
  /\ Then(r, Each(ListChildren(Now(r).id), LAMBDA f : TrashTree(f, Now(r).arg))
              \o <<[Now(r) EXCEPT !.do = "trash_mark"]>>)

TrashMark(r) ==
  /\ At(r, "trash_mark")
  /\ IF Live(Now(r).id)
     THEN FilesOnly(MoveFileToTrash(Now(r).id, Now(r).arg)) /\ Done(r)
     ELSE Read /\ Fail(r, 404)

\* BatchDelete looks at the row before it calls Trash.
BatchDelete(r) ==
  LET verdict == Verdict(Now(r).id, request[r].space) IN
  /\ At(r, "batch_delete") /\ Read
  /\ IF verdict = 200 THEN Then(r, <<Item("trash", Now(r).id)>>) ELSE Fail(r, verdict)

-----------------------------------------------------------------------------
(* Restore and purge work on a snapshot of the recycle bin.                *)

\* The trashed rows below f, breadth first, each once.
TrashTreeByID(f, space) ==
  LET Below(g) == Those(ListTrash(space), LAMBDA c : files[c].parent = g)
      Further(seen) == seen \o Those(FlattenSeq(Each(seen, Below)), LAMBDA c : c \notin Range(seen))
      Wave[n \in 0 .. MaxRows] == IF n = 0 THEN <<f>> ELSE Further(Wave[n - 1])
      found == Wave[Cardinality(DOMAIN files)]
  IN [i \in 1 .. Cardinality(DOMAIN files \cap Range(found)) |-> found[i]]

InTrash(f, space) == f \in Range(ListTrash(space))

Untrashing(f, space) == Each(TrashTreeByID(f, space), LAMBDA g : Item("untrash", g))

RestoreFromTrash(r) ==
  LET f == Now(r).id space == Now(r).arg IN
  /\ At(r, "restore") /\ Read
  /\ IF InTrash(f, space) THEN Then(r, Untrashing(f, space)) ELSE Fail(r, 404)

Untrash(r) ==
  LET f == Now(r).id IN
  /\ At(r, "untrash")
  /\ IF f \in DOMAIN files /\ ~Live(f) THEN FilesOnly(RestoreFile(f)) /\ Done(r)
                                       ELSE Read /\ Fail(r, 404)

\* What deletes a row: a directory lists its children first.
Deleting(f, row, space) ==
  [Item(IF row.dir THEN "del_list" ELSE "del_row", f) EXCEPT !.at = space, !.arg = row]

\* The whole tree leaves the recycle bin before any of it is deleted.
PurgeFromTrash(r) ==
  LET f == Now(r).id space == Now(r).arg IN
  /\ At(r, "purge") /\ Read
  /\ IF InTrash(f, space)
     THEN ThenNoting(r, Untrashing(f, space)
                        \o <<Deleting(f, files[f], space), ItemFor("unlink", f, files[f].dir)>>,
                     [notes[r] EXCEPT !.undo = <<>>, !.pending = <<>>])
     ELSE Fail(r, 404)

\* Mutant: the stack is unwound from its bottom.
RollbackInOrder(r, code) ==
  /\ jobs' = [jobs EXCEPT ![r] =
       (IF notes[r].undo = <<>> THEN <<>> ELSE <<notes[r].undo>>) \o Tail(@)]
  /\ notes' = IF request[r].op \in Batch THEN notes ELSE [notes EXCEPT ![r].status = code]
  /\ UNCHANGED request

\* rollbackDeleteUndo: what has been deleted comes back, last first.
Rollback(r, code) ==
  /\ jobs' = [jobs EXCEPT ![r] =
       (IF notes[r].undo = <<>> THEN <<>> ELSE <<Reverse(notes[r].undo)>>) \o Tail(@)]
  /\ notes' = IF request[r].op \in Batch THEN notes ELSE [notes EXCEPT ![r].status = code]
  /\ UNCHANGED request

DeleteList(r) ==
  LET f == Now(r).id space == Now(r).at row == Now(r).arg IN
  /\ At(r, "del_list") /\ Read
  /\ IF row.space # space THEN Rollback(r, 403)
     ELSE Then(r, Each(ListChildren(f), LAMBDA g : Deleting(g, files[g], space))
                  \o <<ItemFor("del_row", f, row)>>)

\* A step of the deletion that can be undone.
Undoable(r, items, undo) == ThenNoting(r, items, [notes[r] EXCEPT !.undo = Append(@, undo)])

DeleteRow(r) ==
  LET f == Now(r).id row == Now(r).arg IN
  /\ At(r, "del_row")
  /\ FilesOnly(DeleteFile(f))
  /\ Undoable(r, IF row.dir THEN <<>> ELSE <<ItemFor("del_ref", f, row.sha)>>,
              ItemFor("undo_put", f, row))

\* DecrBlobRef is two statements: the update, and the new count read back.
DeleteReference(r) ==
  /\ At(r, "del_ref")
  /\ BlobsOnly(DecrBlobRef(Now(r).arg))
  /\ Then(r, <<[Now(r) EXCEPT !.do = "del_count"]>>)

DeleteCount(r) ==
  LET sha == Now(r).arg IN
  /\ At(r, "del_count") /\ Read
  /\ Undoable(r, IF blobs[sha].refs = 0 THEN <<[Now(r) EXCEPT !.do = "del_blob"]>> ELSE <<>>,
              [Now(r) EXCEPT !.do = "undo_incr"])

\* An object nobody refers to is put aside; it goes when the rows are gone.
DeferUnlink(r) ==
  LET blob == GetBlobBySha(Now(r).arg) IN
  /\ At(r, "del_blob") /\ Read
  /\ IF blob = None THEN Done(r)
     ELSE ThenNoting(r, <<>>, [notes[r] EXCEPT !.pending = Append(@, blob.path)])

UnlinkPending(r) ==
  LET pending == notes[r].pending IN
  /\ At(r, "unlink")
  /\ IF pending = <<>> THEN Read /\ Done(r)
     ELSE /\ ObjectsOnly(Unlink(Head(pending)))
          /\ ThenNoting(r, <<Now(r)>>, [notes[r] EXCEPT !.pending = Tail(@)])

\* A row that is there already makes the INSERT fail, which is only logged.
UndoPut(r) ==
  LET f == Now(r).id IN
  /\ At(r, "undo_put") /\ Done(r)
  /\ IF f \in DOMAIN files THEN Read ELSE FilesOnly(PutFile(f, Now(r).arg))

UndoDecr(r) ==
  /\ At(r, "undo_incr")
  /\ BlobsOnly(IncrBlobRef(Now(r).arg)) /\ Done(r)

-----------------------------------------------------------------------------
(* The janitor purges what has been in the recycle bin for too long.       *)

Expired(f) == files[f].trashed # 0 /\ files[f].trashed + Retention <= clock

\* It leaves out a row whose parent is in the recycle bin too.
ExpiredRoot(f) ==
  LET p == files[f].parent IN
  Expired(f) /\ (p \in DOMAIN files => files[p].trashed = 0)

Overdue(store, Due(_)) ==
  IF ListAllFilesFails(store) THEN <<>>
  ELSE Each(Those(ListAllFiles, Due), LAMBDA f : <<ItemFor("purge", f, files[f].space)>>)

\* Mutant: only what lies at the top counts as a root.
ReapTopLevel(r, store) ==
  LET AtTop(f) == Expired(f) /\ files[f].parent = None IN
  /\ At(r, "reap") /\ Read
  /\ jobs' = [jobs EXCEPT ![r] = Overdue(store, AtTop)]
  /\ UNCHANGED <<request, notes>>

Reap(r, store) ==
  /\ At(r, "reap") /\ Read
  /\ jobs' = [jobs EXCEPT ![r] = Overdue(store, ExpiredRoot)]
  /\ UNCHANGED <<request, notes>>

-----------------------------------------------------------------------------
(* Move, rename and tags.                                                  *)

\* BatchMove and BatchCopy look at their target once.
CheckTarget(r) ==
  LET verdict == Verdict(request[r].to, request[r].space) IN
  /\ At(r, "target") /\ Read
  /\ CASE request[r].to = None -> Done(r)
       [] request[r].to # None /\ verdict # 200 -> Refuse(r, verdict)
       [] OTHER -> IF files[request[r].to].dir THEN Done(r) ELSE Refuse(r, 400)

MoveFile(r) ==
  LET f == Now(r).id to == request[r].to verdict == Verdict(f, request[r].space) IN
  /\ At(r, "move") /\ Read
  /\ IF verdict # 200 THEN Fail(r, verdict)
     ELSE CASE to = None -> Then(r, <<Item("set_parent", f)>>)
            [] to = f -> Fail(r, 400)
            [] OTHER -> Then(r, <<Item("move_into", f)>>)

\* The walk from the target up to the root, one GetFile a step: it must not
\* meet the row that moves.
Climb(f, current, seen) ==
  LET p == files[current].parent IN
  IF p = None THEN <<Item("set_parent", f)>> ELSE <<[Item("climb", f) EXCEPT !.at = p, !.arg = seen]>>

MoveInto(r) ==
  LET f == Now(r).id to == request[r].to verdict == Verdict(to, request[r].space) IN
  /\ At(r, "move_into") /\ Read
  /\ CASE verdict # 200 -> Fail(r, verdict)
       [] verdict = 200 /\ ~files[to].dir -> Fail(r, 400)
       [] OTHER -> Then(r, Climb(f, to, {to}))

\* Mutant: only the target itself is compared.
ClimbNoFurther(r) ==
  /\ At(r, "climb") /\ Read /\ Then(r, <<Item("set_parent", Now(r).id)>>)

\* An ancestor that is gone or in the recycle bin ends the walk.
ClimbOn(r) ==
  LET f == Now(r).id p == Now(r).at seen == Now(r).arg IN
  /\ At(r, "climb") /\ Read
  /\ CASE ~Live(p) \/ p \in seen -> Then(r, <<Item("set_parent", f)>>)
       [] Live(p) /\ p = f -> Fail(r, 400)
       [] OTHER -> Then(r, Climb(f, p, seen \cup {p}))

SetParent(r) ==
  /\ At(r, "set_parent")
  /\ FilesOnly(UpdateFileParent(Now(r).id, request[r].to)) /\ Done(r)

\* A row's new name is its new path too.
Rename(r) ==
  LET f == Now(r).id verdict == Verdict(f, request[r].space) IN
  /\ At(r, "rename") /\ Read
  /\ IF verdict = 200 THEN Then(r, <<Item("set_name", f)>>) ELSE Fail(r, verdict)

SetName(r) ==
  /\ At(r, "set_name")
  /\ FilesOnly(RenameFile(Now(r).id, request[r].name)) /\ Done(r)

BatchTag(r) ==
  LET f == Now(r).id verdict == Verdict(f, request[r].space) IN
  /\ At(r, "batch_tag") /\ Read
  /\ IF verdict = 200 THEN Then(r, <<Item("set_tags", f)>>) ELSE Fail(r, verdict)

SetTags(r) ==
  /\ At(r, "set_tags")
  /\ tags' = SetFileTags(Now(r).id, request[r].arg)
  /\ UNCHANGED <<files, issued, blobs, objects, clock>>
  /\ Done(r)

DirectoryStep(r, store) ==
  \/ Trash(r) \/ TrashList(r) \/ TrashMark(r) \/ BatchDelete(r)
  \/ RestoreFromTrash(r) \/ Untrash(r) \/ PurgeFromTrash(r)
  \/ DeleteList(r) \/ DeleteRow(r) \/ DeleteReference(r) \/ DeleteCount(r)
  \/ DeferUnlink(r) \/ UnlinkPending(r) \/ UndoPut(r) \/ UndoDecr(r)
  \/ Reap(r, store)
  \/ CheckTarget(r) \/ MoveFile(r) \/ MoveInto(r) \/ ClimbOn(r) \/ SetParent(r)
  \/ Rename(r) \/ SetName(r) \/ BatchTag(r) \/ SetTags(r)
=============================================================================
