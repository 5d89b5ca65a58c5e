----------------------------- MODULE MCDirTree ------------------------------
EXTENDS DirTree

MCSize == [c \in {"A", "B"} |-> IF c = "A" THEN 2 ELSE 3]

\* Two names that safeStorageName writes alike.
MCStorageName == [n \in {8, 9} |-> 9]

Dir(parent, name, path) == NewDir("red", parent, name, path)
File(parent, name, sha) == [NewDir("red", parent, name, <<name>>) EXCEPT !.dir = FALSE, !.sha = sha]
Uploaded(name, sha) == File(None, name, sha)
Trashed(row) == [row EXCEPT !.trashed = 1]
Of(space, row) == [row EXCEPT !.space = space]

Ask(op, ids) == [op |-> op, ids |-> ids, to |-> None, space |-> "red", name |-> None, arg |-> None]
To(q, d) == [q EXCEPT !.to = d]
With(q, arg) == [q EXCEPT !.arg = arg]
Submit(name, entries) == [With(Ask("submit", <<1>>), entries) EXCEPT !.name = name]
E(path, f) == [path |-> path, file |-> f]
Ls(dir, type, page, perPage) ==
  To(With(Ask("ls", <<None>>), [type |-> type, page |-> page, perPage |-> perPage]), dir)

Quiet == [slots |-> {"r1"}, requests |-> {}, store |-> "sqlite", faults |-> {}, reaps |-> FALSE,
          files |-> << >>, paths |-> [c \in {"A", "B"} |-> None],
          arrivals |-> 3, crashes |-> 0, time |-> 1]

\* D, E in D, a file of A in E, a copy of it at the root.
Tree == <<Dir(None, 1, <<>>), Dir(1, 2, <<2>>), File(2, 3, "A"), File(None, 4, "A")>>
PathsA == [c \in {"A", "B"} |-> IF c = "A" THEN FlatPath("red", "s1") ELSE None]
PathsAB == [c \in {"A", "B"} |-> IF c = "A" THEN FlatPath("red", "s1") ELSE FlatPath("red", "s2")]

OnTree == [Quiet EXCEPT !.files = Tree, !.paths = PathsA]
Binned == [OnTree EXCEPT !.files = [f \in 1 .. 4 |-> IF f = 4 THEN Tree[f] ELSE Trashed(Tree[f])]]
Uploads == [Quiet EXCEPT !.files = <<Uploaded(3, "A"), Uploaded(4, "B"), Uploaded(3, "A")>>, !.paths = PathsAB]
Racing(s) == [s EXCEPT !.slots = {"r1", "r2"}, !.arrivals = 3]

\* A directory of red with a file, and one of blue.
TwoSpaces == <<Dir(None, 1, <<>>), File(1, 3, "A"), Of("blue", Dir(None, 1, <<>>)),
               Of("blue", Uploaded(4, "A"))>>

Photos == Submit(1, <<E(<<5>>, 1), E(<<6, 5>>, 2)>>)
Docs == Submit(2, <<E(<<5>>, 2)>>)

MCSetups ==
  { \* one tree, one request after another
    [OnTree EXCEPT !.arrivals = 4, !.requests =
       {Ask("trash", <<1>>), Ask("restore", <<1>>), Ask("purge", <<1>>), Ask("trash", <<2>>),
        Ask("trash", <<4>>), Ask("purge", <<4>>), To(Ask("batch_move", <<1, 2>>), 2),
        Ask("batch_move", <<2>>), To(Ask("batch_copy", <<2, 4>>), 1), Ask("get_dir", <<1>>)}],
    \* a purge whose statements fail, one at a time
    [Binned EXCEPT !.faults = {"untrash", "del_list", "del_row", "del_ref", "del_blob", "unlink"},
       !.requests = {Ask("purge", <<1>>), Ask("purge", <<3>>), Ask("restore", <<1>>),
                     Ask("restore", <<3>>), Ask("get_dir", <<1>>), Ask("batch_delete", <<1, 4>>)}],
    \* the same with the tree's only references
    [Binned EXCEPT !.files = [f \in 1 .. 3 |-> Trashed(Tree[f])], !.arrivals = 2,
       !.faults = {"del_row", "del_ref", "unlink", "purge"}, !.crashes = 1,
       !.requests = {Ask("purge", <<1>>), Ask("purge", <<3>>), Ask("restore", <<1>>)}],
    \* counts that drift, and the scan that finds it
    [OnTree EXCEPT !.faults = {"copy_ref", "del_count", "scan_path", "scan_count", "target", "copy_list", "copy_row"},
       !.requests = {Ask("batch_copy", <<1, 4>>), To(Ask("batch_copy", <<4>>), 1), Ask("trash", <<1>>),
                     Ask("purge", <<1>>), Ask("scan", <<None>>)}],
    \* two requests at once on one tree
    [Racing(OnTree) EXCEPT !.requests =
       {Ask("trash", <<1>>), Ask("get_dir", <<1>>), To(Ask("batch_move", <<4>>), 2),
        To(Ask("batch_copy", <<2>>), None), To(Ask("batch_move", <<2>>), 4), Ask("restore", <<1>>)}],
    [Racing(Binned) EXCEPT !.requests =
       {Ask("purge", <<1>>), Ask("purge", <<3>>), Ask("restore", <<1>>), Ask("get_dir", <<1>>),
        To(Ask("batch_copy", <<3>>), None), To(Ask("batch_move", <<4>>), 1)}],
    \* a directory and what is in it are purged at once
    [Racing(Binned) EXCEPT !.files = [f \in 1 .. 3 |-> Trashed(Tree[f])], !.arrivals = 2,
       !.requests = {Ask("purge", <<1>>), Ask("purge", <<3>>)}],
    \* two namespaces, each of which asks for what is the other's
    [Quiet EXCEPT !.slots = {"r1", "r2"}, !.arrivals = 2, !.files = TwoSpaces, !.paths = PathsA, !.requests =
       {Of("blue", To(Ask("batch_move", <<4>>), 1)), Of("blue", Ask("trash", <<1>>)),
        To(Ask("batch_move", <<2, 4>>), 3), To(Ask("batch_copy", <<4, 2>>), 1),
        Of("blue", To(Ask("batch_move", <<1, 4>>), 3)), Of("blue", To(Ask("batch_copy", <<4>>), 3)),
        To(Ask("batch_move", <<1>>), 2), Ask("batch_delete", <<2, 3>>), Ask("get_dir", <<3>>),
        [Submit(1, <<E(<<5>>, 4)>>) EXCEPT !.space = "red"], Ask("stat", <<3>>)}],
    \* manifests, one after another
    [Uploads EXCEPT !.requests =
       {Photos, Docs, Submit(2, <<E(<<5>>, 2), E(<<6, 7, 8>>, 3)>>), Submit(1, <<E(<<5>>, 1), E(<<5>>, 3)>>), Submit(3, <<E(<<5>>, 14)>>),
        Ask("get_dir", <<4>>), Ask("batch_delete", <<1, 2>>), Ask("purge", <<1>>),
        [Ask("rename", <<2>>) EXCEPT !.name = 5], Ask("batch_copy", <<1, 2>>),
        With(Ask("batch_tags", <<1, 9>>), {"x", ""})}],
    \* manifests that move objects while they are read
    [Racing(Uploads) EXCEPT !.requests =
       {Photos, Docs, Submit(1, <<E(<<5>>, 1), E(<<7>>, 3)>>), Ask("batch_download", <<1, 2, 3>>),
        Ask("get", <<1>>), Ask("batch_delete", <<1>>)}],
    \* a manifest that is interrupted
    [Uploads EXCEPT !.arrivals = 2, !.crashes = 1, !.requests = {Photos, Docs, Ask("get_dir", <<4>>), Ask("get", <<2>>)},
       !.faults = {"validate", "make_root", "make_dir", "adopt", "reparent", "relocate", "read_source", "write_target",
                   "fill_target", "delete_source", "set_path", "walk", "pack", "pack_blob", "pack_object"}],
    \* the janitor among requests
    [Racing(Binned) EXCEPT !.reaps = TRUE, !.time = 3, !.requests =
       {Ask("restore", <<1>>), Ask("batch_delete", <<4>>)}],
    [OnTree EXCEPT !.reaps = TRUE, !.time = 3, !.requests =
       {Ask("trash", <<1>>), Ask("trash", <<3>>), Ask("batch_delete", <<2, 4>>), Ask("restore", <<3>>)}],
    [Binned EXCEPT !.reaps = TRUE, !.time = 3, !.store = "postgres", !.requests =
       {Ask("trash", <<4>>), Ls(None, "", 1, 1), Ls(1, "", 1, 1)}],
    \* what is only read
    [OnTree EXCEPT !.files = Append(Tree, Uploaded(4, "A")), !.requests =
       {Ls(None, "", 1, 1), Ls(None, "dir", 1, 2), Ls(None, "file", 2, 1), Ls(2, "", 0, 2), Ls(9, "", 1, 1),
        Ask("stat", <<1>>), Ask("stat", <<3>>), Ask("stat", <<9>>), Ask("usage", <<None>>),
        Ask("show_trash", <<None>>), Ask("batch_download", <<4, 1, 5>>), Ask("batch_download", <<1>>),
        Ask("get", <<1>>), Ask("get", <<9>>), Ask("get_dir", <<3>>), Ask("get_dir", <<9>>)}
       \cup {With(Ask("get", <<3>>), [start |-> s, end |-> e]) : s \in 0 .. 2, e \in {None, 0, 1, 5, 7}},
       !.arrivals = 2, !.faults = {"stat_blob", "ancestors", "dir_size", "fetch", "get_object"}]
  }

\* Two directories that are moved into each other.
MCCycleSetups ==
  {[Quiet EXCEPT !.slots = {"r1", "r2"}, !.arrivals = 2, !.files = <<Dir(None, 1, <<>>), Dir(None, 2, <<>>)>>,
      !.requests = {To(Ask("batch_move", <<1>>), 2), To(Ask("batch_move", <<2>>), 1), Ask("get_dir", <<1>>)}]}
=============================================================================
