------------------------------ MODULE DirTree ------------------------------
(***************************************************************************)
(* The directory tree as the server serves it: requests that trash,        *)
(* restore, purge, move, rename, copy, submit, download, list and scan     *)
(* work on the tables and the storage item by item and interleave; the     *)
(* janitor's ticker fires; a statement or a storage call may fail; the     *)
(* process may be killed and started again.                                *)
(*                                                                         *)
(* A setup is a deployment and its traffic: the rows and objects there     *)
(* are, the requests that may come, in which slots, and what may go wrong. *)
(***************************************************************************)
EXTENDS Directories, Manifests, Archive

CONSTANT Setups

Operations ==
  {"submit", "trash", "restore", "purge", "rename", "batch_delete", "batch_move", "batch_copy",
   "batch_tags", "batch_download", "scan", "get_dir", "get", "ls", "stat", "usage", "show_trash"}

\* A request as the handlers decode it.
WellFormed(q) ==
  /\ q.op \in Operations /\ q.space \in Spaces /\ q.ids \in Seq(Nat \cup {None})
  /\ q.op = "submit" => q.arg \in Seq([path : Seq(Nat), file : Nat]) /\ q.name \in Nat \cup {None}
  /\ q.op = "rename" => q.name \in Nat
  /\ q.op = "ls" => q.arg.page \in Nat /\ q.arg.perPage \in Nat
  /\ q.op = "get" => q.arg = None \/ (q.arg.start \in 0 .. MaxInt /\ q.arg.end \in (0 .. MaxInt) \cup {None})

\* Rows as uploads, manifests and the recycle bin leave them, numbered from the
\* top of the trees: a row is at the top or in an earlier directory of its
\* namespace, which is not in the recycle bin unless the row is.
Planted(rows) ==
  \E n \in 0 .. MaxRows :
    /\ rows \in [1 .. n -> Row]
    /\ \A f \in 1 .. n : LET p == rows[f].parent IN
         p # None => /\ p < f /\ rows[p].dir /\ rows[p].space = rows[f].space
                     /\ rows[f].trashed = 0 => rows[p].trashed = 0

\* Uploads store each content under the name of a session of its own.
Apart(paths) == \A a, b \in Contents : a # b /\ paths[a] # None => paths[a] # paths[b]

ASSUME SetupsAreServed ==
  \A s \in Setups :
    /\ s.slots \subseteq Slots /\ Planted(s.files) /\ Apart(s.paths)
    /\ \A q \in s.requests : WellFormed(q)

VARIABLES
  setup,    \* the deployment, fixed by the initial state
  budget,   \* what may still happen: [arrivals, faults, crashes]
  strayed,  \* history: a row left the recycle bin though its parent stayed
  written,  \* history: <<path, content>> for where a content has been since the start
  rewritten \* history: a content was written to a path where it has been

history == <<strayed, written, rewritten>>

vars == <<tableVars, workVars, setup, budget, history>>

-----------------------------------------------------------------------------
(* Arrivals.                                                               *)

\* The jobs a request starts with.
Agenda(q) ==
  LET f == q.ids[1]
      EachID(do) == [i \in 1 .. Len(q.ids) |-> <<Item(do, q.ids[i])>>]
  IN CASE q.op = "submit" -> <<[i \in 1 .. Len(q.arg) |-> Item("validate", i)] \o <<Item("make_root", None)>>>>
       [] q.op = "trash" -> EachID("trash")
       [] q.op \in {"restore", "purge"} -> <<<<ItemFor(q.op, f, q.space)>>>>
       [] q.op = "batch_delete" -> EachID("batch_delete")
       [] q.op = "batch_move" -> <<<<Item("target", None)>>>> \o EachID("move")
       [] q.op = "batch_copy" -> <<<<Item("target", None)>>>> \o EachID("copy")
       [] q.op = "batch_tags" -> EachID("batch_tag")
       [] q.op = "batch_download" -> <<<<Item("fetch", None)>>>>
       [] q.op = "scan" -> <<<<Item("scan_objects", None), Item("scan_blobs", None), Item("scan_counts", None)>>>>
       [] OTHER -> EachID(q.op)

\* Requests of a setup with one slot come one after another.
Alone == Cardinality(setup.slots) = 1

MayStart(r) == IF Alone THEN Idle ELSE jobs[r] = <<>>

Arrive(r) ==
  /\ r \in setup.slots /\ MayStart(r) /\ budget.arrivals > 0
  /\ \E q \in setup.requests : Start(r, q, Agenda(q))
  /\ budget' = [budget EXCEPT !.arrivals = @ - 1]
  /\ UNCHANGED <<setup, history>>

\* The ticker of the janitor; one reap at a time.
ReapTick ==
  /\ setup.reaps /\ MayStart(Janitor)
  /\ Start(Janitor, [op |-> "reap", ids |-> <<>>, to |-> None, space |-> None, name |-> None, arg |-> clock],
           <<<<Item("reap", None)>>>>)
  /\ UNCHANGED <<setup, budget, history>>

-----------------------------------------------------------------------------
(* Work.                                                                   *)

\* A row comes out of the recycle bin under a parent that does not.
Strays(r) ==
  LET f == Now(r).id IN
  /\ At(r, "restore") \/ At(r, "purge")
  /\ InTrash(f, Now(r).arg) /\ files[f].parent # None /\ ~Live(files[f].parent)

\* Where a content is about to be written.
Written(r) == IF At(r, "write_target") THEN {<<Now(r).arg[2], Now(r).at>>} ELSE {}

Work(r) ==
  /\ DirectoryStep(r, setup.store) \/ ManifestStep(r) \/ ArchiveStep(r, setup.store)
  /\ strayed' = (strayed \/ Strays(r))
  /\ written' = written \cup Written(r)
  /\ rewritten' = (rewritten \/ Written(r) \cap written # {})
  /\ UNCHANGED <<setup, budget>>

\* Errors that are ignored or only logged: the job goes on.
Ignored == {"adopt", "reparent", "relocate", "read_source", "write_target", "fill_target",
            "delete_source", "set_path", "copy_row", "copy_ref", "set_tags", "del_blob", "undo_put", "undo_incr",
            "pack", "pack_blob", "pack_object", "ancestors", "stat_blob",
            "scan_path", "scan_count"}

Deletion == {"del_list", "del_row", "del_ref", "del_count"}

\* The database or the storage fails the call; nothing is changed by it, but a
\* target that could not be filled is deleted.
Fault(r) ==
  /\ jobs[r] # <<>> /\ Now(r).do \in setup.faults /\ budget.faults > 0
  /\ budget' = [budget EXCEPT !.faults = @ - 1]
  /\ Now(r).do = "unlink" => notes[r].pending # <<>>
  /\ UNCHANGED <<setup, history>>
  /\ IF Now(r).do = "fill_target" THEN ObjectsOnly(Unlink(Now(r).arg[2])) ELSE Read
  /\ CASE Now(r).do \in Ignored -> Done(r)
       [] Now(r).do \in Deletion -> Rollback(r, 500)
       [] Now(r).do = "target" -> Refuse(r, 500)
       [] Now(r).do = "dir_size" -> SizeFails(r)
       [] Now(r).do = "unlink" ->
            IF Now(r).arg
            THEN ThenNoting(r, <<Now(r)>>, [notes[r] EXCEPT !.pending = Tail(@)])
            ELSE Fail(r, 500)
       [] OTHER -> Fail(r, 500)

\* Where the contents are that content_blobs has a path of.
Places == {<<blobs[sha].path, sha>> : sha \in Contents}

\* The process is killed: what its requests had left to do is never done.
Crash ==
  /\ budget.crashes > 0 /\ ~Idle
  /\ budget' = [budget EXCEPT !.crashes = @ - 1]
  /\ request' = [r \in Workers |-> None]
  /\ jobs' = [r \in Workers |-> <<>>]
  /\ notes' = [r \in Workers |-> NoNotes]
  /\ written' = Places
  /\ UNCHANGED <<tableVars, setup, strayed, rewritten>>

Tick ==
  /\ clock < setup.time /\ (Alone => Idle) /\ clock' = clock + 1
  /\ UNCHANGED <<files, issued, blobs, objects, tags, workVars, setup, budget, history>>

\* Uploaded files and submitted directories, counted and stored as Finalize
\* and SubmitDir leave them.
Init ==
  /\ setup \in Setups
  /\ files = setup.files /\ issued = Cardinality(DOMAIN setup.files)
  /\ blobs = [sha \in Contents |-> [path |-> setup.paths[sha],
                                    refs |-> Cardinality({f \in DOMAIN files : files[f].sha = sha})]]
  /\ objects = [p \in {setup.paths[sha] : sha \in Contents} \ {None} |->
                  CHOOSE sha \in Contents : setup.paths[sha] = p]
  /\ tags = [f \in IDs |-> {}]
  /\ clock = 1 /\ strayed = FALSE /\ written = Places /\ rewritten = FALSE
  /\ InitWork
  /\ budget = [arrivals |-> setup.arrivals, faults |-> 1, crashes |-> setup.crashes]

Next ==
  \/ \E r \in Slots : Arrive(r)
  \/ ReapTick
  \/ \E r \in Workers : Work(r) \/ Fault(r)
  \/ Crash
  \/ Tick

Spec == Init /\ [][Next]_vars

-----------------------------------------------------------------------------
(* Properties.                                                             *)

\* The rows below a directory take its namespace for granted when they are
\* trashed, copied, purged or packed (upload.go:1070, download.go:210): no row
\* is ever in a directory of another namespace, or in a file.
OneNamespace ==
  \A f \in DOMAIN files : files[f].parent \in DOMAIN files =>
    /\ files[files[f].parent].dir
    /\ files[files[f].parent].space = files[f].space

\* While requests come one after another and nobody takes a child out of a
\* trashed directory, a row outside the recycle bin has its directory outside
\* it too: listings show it, and no purge of the directory takes it along
\* (trash.go:22, trash.go:72).  It holds between any two statements, also when
\* one fails and a purge is rolled back (upload.go:1111).
LiveUnderLive ==
  Alone /\ ~strayed =>
    \A f \in DOMAIN files : Live(f) => files[f].parent = None \/ Live(files[f].parent)

\* The rows above f, as far as a walk up can get.
Above(f) ==
  LET Further(seen) == seen \cup {files[g].parent : g \in seen \cap DOMAIN files}
      Up[n \in 0 .. MaxRows] == IF n = 0 THEN {files[f].parent} ELSE Further(Up[n - 1])
  IN Up[Cardinality(DOMAIN files)]

NoCycle == \A f \in DOMAIN files : f \notin Above(f)

\* "A directory cannot move into its own descendant, or it would make a cycle
\* that cannot be walked" (upload.go:886): true of requests that come one
\* after another, as long as the walk up from the target meets no trashed row.
NoCycleAlone == Alone /\ ~strayed => NoCycle

\* Nothing has been lost on the way.
Unharmed == budget.faults = 1 /\ budget.crashes = setup.crashes

Uncounted == {"del_count", "copy_ref"}

\* Between requests that come one after another, the count of a content is the
\* number of its rows, the trashed ones included (batch.go:236, upload.go:1097):
\* after copies of trees, purges of shared contents, and purges that failed
\* and were undone, unless the count itself could not be read or written.
CountsExact ==
  Alone /\ Idle /\ budget.crashes = setup.crashes /\ setup.faults \cap Uncounted = {} =>
    \A sha \in Contents : blobs[sha].refs = Cardinality(ListFilesByBlob(sha))

\* Where the manifests of a setup send its files.
Destinations(s) ==
  UNION {{[to |-> HierarchicalPath(q.space, DirName(q), q.arg[i].path), file |-> q.arg[i].file]
            : i \in DOMAIN q.arg}
          : q \in {p \in s.requests : p.op = "submit"}}

SameContent(s, f, g) ==
  f = g \/ ({f, g} \subseteq DOMAIN s.files /\ s.files[f].sha = s.files[g].sha)

\* The manifests of a setup send different contents to different paths, and
\* none to a path another content is at.
DistinctIn(s) ==
  \A d \in Destinations(s) :
    /\ \A e \in Destinations(s) : d.to = e.to => SameContent(s, d.file, e.file)
    /\ \A sha \in Contents : d.to = s.paths[sha] =>
         d.file \in DOMAIN s.files /\ s.files[d.file].sha = sha
Distinct == DistinctIn(setup)

MovingFaults == {"read_source", "write_target", "fill_target", "delete_source", "set_path"}

Stored(f) == files[f].sha = None \/ Open(blobs[files[f].sha].path) = files[f].sha

\* Between requests that come one after another, the content of every row,
\* trashed or not, is where content_blobs says: "a failed database phase is
\* rolled back without content that has gone already" (upload.go:1049), and a
\* manifest that moves a shared object takes its path along (upload.go:791).
ContentKept ==
  Alone /\ Idle /\ budget.crashes = setup.crashes /\ Distinct
    /\ setup.faults \cap (Uncounted \cup MovingFaults) = {} => \A f \in DOMAIN files : Stored(f)

\* What is sent under a SHA-256 (X-SHA256, X-Tree-SHA256) has it, whatever
\* moves, purges, failures and crashes happen between the look at the row, the
\* look at the blob and the read of the object (download.go:168), also while an
\* object is written and when it is left half written, as long as no content is
\* written where it has been before.  Then it need not have it: LocalFS.Write
\* empties a target in place (localfs.go:126), and of one manifest submitted
\* twice the second may write where content_blobs has a download read.
ArchiveHonest ==
  Distinct /\ ~rewritten => \A r \in Workers : \A i \in DOMAIN notes[r].sent :
                LET piece == notes[r].sent[i] IN piece.sha # None => piece.content = piece.sha

\* What is sent of a file has the length that was announced for it, wherever
\* the range begins and ends (download.go:74), except when the length of the
\* range overflows: then what is announced is negative (handler_util.go:42); and
\* as long as no content is written where it has been before.
LengthAsAnnounced ==
  Distinct /\ ~rewritten => \A r \in Workers : \A i \in DOMAIN notes[r].sent :
                LET piece == notes[r].sent[i] IN
                piece.sha # None /\ piece.length >= 0 => piece.bytes = piece.length

\* The worker has answered, and nobody has done anything since.
Answered(r, op) ==
  /\ request[r] # None /\ request[r].op = op /\ jobs[r] = <<>> /\ notes[r].status = 200
  /\ Alone /\ request[Janitor] = None

Below(d) == {f \in DOMAIN files : Live(f) /\ ~files[f].dir /\ d \in Above(f)}

\* An archive that nothing disturbs holds every file below its directory,
\* each once, and everything the tree hash promised (download.go:131): the
\* packer leaves out silently what it does not find.
ArchiveComplete ==
  \A r \in Slots : Answered(r, "get_dir") /\ Unharmed /\ Distinct /\ ~strayed =>
    LET n == notes[r] IN
    /\ {n.found[i].file : i \in DOMAIN n.found} = Below(request[r].ids[1])
    /\ Len(n.found) = Cardinality(Below(request[r].ids[1]))
    /\ Len(n.sent) = Len(n.found)

\* "Permanently removes recycle-bin roots whose retention period expired"
\* (trash_janitor.go:12), on a store whose rows it can read: after a reap that
\* nothing disturbs, none is left of those that were due when it began, be
\* they at the top, in a live directory or in one that is purged.
OverdueGone ==
  /\ Alone /\ Idle /\ Unharmed /\ setup.store # "postgres" /\ request[Janitor] # None
  => \A f \in DOMAIN files : ExpiredRoot(f) => files[f].trashed + Retention > request[Janitor].arg
=============================================================================
