--------------------------- MODULE DirTree_proofs ---------------------------
(***************************************************************************)
(* Theorems about the directory tree.  What a row is, a file or a          *)
(* directory, whose, and with which content, never changes; so what a      *)
(* request has checked of a row is still true at any later item, whatever  *)
(* the others do meanwhile, and when the row is deleted and put back by an *)
(* undo.  And a path of the storage only ever has one content, wherever    *)
(* manifests move it; while none is written to twice, a path that          *)
(* content_blobs has named is never half written again, so what is read    *)
(* under a path that was looked up some time ago is what was looked for,   *)
(* or nothing.                                                             *)
(***************************************************************************)
EXTENDS DirTree, FiniteSetTheorems, SequenceTheorems, TLAPS

-----------------------------------------------------------------------------
(* Lists.                                                                  *)

\* A list is over whatever is in it.
IsList(s) == s \in Seq(Range(s))

LEMMA PlacedIsList ==
  ASSUME NEW S, IsFiniteSet(S), NEW place
  PROVE  Placed(S, place) \in Seq(S)
<1>1. Cardinality(S) \in Nat
  BY FS_CardinalityType
<1>2. ASSUME NEW i \in 1 .. Cardinality(S)
      PROVE  (CHOOSE x \in S : \A y \in S : place[y] = i => place[x] = i) \in S
  <2>1. S # {}
    BY <1>2, FS_EmptySet
  <2>2. \E x \in S : \A y \in S : place[y] = i => place[x] = i
    BY <2>1
  <2> QED BY <2>2
<1> QED BY <1>1, <1>2 DEF Placed

\* Some places of a list make a list of what is at them.
LEMMA ChosenAreChosen ==
  ASSUME NEW T, NEW list \in Seq(T), NEW S \in SUBSET DOMAIN list, NEW place
  PROVE  Chosen(list, Placed(S, place)) \in Seq({list[i] : i \in S})
<1> DEFINE U == {list[i] : i \in S}
<1>1. Placed(S, place) \in Seq(S)
  <2>1. IsFiniteSet(S)
    BY FS_Interval, FS_Subset
  <2> QED BY <2>1, PlacedIsList
<1>2. \A i \in S : list[i] \in U
  OBVIOUS
<1> HIDE DEF U
<1>3. ASSUME NEW places \in Seq(S) PROVE Chosen(list, places) \in Seq(U)
  <2>1. Len(places) \in Nat /\ DOMAIN places = 1 .. Len(places)
    OBVIOUS
  <2>2. \A i \in 1 .. Len(places) : list[places[i]] \in U
    BY <1>2
  <2> QED BY <2>1, <2>2 DEF Chosen
<1>4. Chosen(list, Placed(S, place)) \in Seq(U)
  BY <1>1, <1>3
<1> QED BY <1>4 DEF U

LEMMA ChosenIsList ==
  ASSUME NEW T, NEW list \in Seq(T), NEW S \in SUBSET DOMAIN list, NEW place
  PROVE  Chosen(list, Placed(S, place)) \in Seq(T)
<1> DEFINE U == {list[i] : i \in S}
<1>1. Chosen(list, Placed(S, place)) \in Seq(U)
  BY ChosenAreChosen
<1>2. U \subseteq T
  OBVIOUS
<1> HIDE DEF U
<1> QED BY <1>1, <1>2

LEMMA ListIsList ==
  ASSUME NEW T, NEW s \in Seq(T) PROVE IsList(s)
BY DEF IsList, Range

LEMMA MoreIsList ==
  ASSUME NEW s, NEW t, IsList(s), IsList(t) PROVE IsList(s \o t)
<1> DEFINE T == Range(s) \cup Range(t)
<1>1. s \in Seq(T) /\ t \in Seq(T)
  BY DEF IsList
<1> HIDE DEF T
<1>2. s \o t \in Seq(T)
  BY <1>1
<1> QED BY <1>2, ListIsList

LEMMA RangeOfBoth ==
  ASSUME NEW s, NEW t, IsList(s), IsList(t)
  PROVE  Range(s \o t) \subseteq Range(s) \cup Range(t)
<1> DEFINE T == Range(s) \cup Range(t)
<1>1. s \in Seq(T) /\ t \in Seq(T)
  BY DEF IsList
<1> HIDE DEF T
<1>2. s \o t \in Seq(T)
  BY <1>1
<1>3. ASSUME NEW u \in Seq(T) PROVE Range(u) \subseteq T
  BY DEF Range
<1> QED BY <1>2, <1>3 DEF T

-----------------------------------------------------------------------------
(* What is known of the rows.                                              *)

\* K.rows says of every id that has been used what its row is, a directory or
\* not, whose, and with which content; also of the rows that are deleted by
\* now.  K.of is the setup.  A place is a path and the content that is sent
\* there: K.whole are those where the content has been in full since the start,
\* K.opened says of others who has begun to write it there; K.clean, that none
\* has been written to twice.
Held(K, f, space) == f \in DOMAIN K.rows /\ K.rows[f].space = space
IsDir(K, f, space) == Held(K, f, space) /\ K.rows[f].dir
IsFile(K, f, space) == Held(K, f, space) /\ ~K.rows[f].dir
Inside(K, p, space) == p = None \/ IsDir(K, p, space)

IsRow(row) ==
  row = [space |-> row.space, dir |-> row.dir, parent |-> row.parent, sha |-> row.sha,
         name |-> row.name, path |-> row.path, trashed |-> row.trashed]

RowFits(K, f, row) ==
  /\ f \in DOMAIN K.rows /\ IsRow(row) /\ row.name \in Nat
  /\ row.dir = K.rows[f].dir /\ row.space = K.rows[f].space /\ row.sha = K.rows[f].sha
  /\ Inside(K, row.parent, row.space)

IsSum(sha) == sha \in Contents \cup {None}

\* Where a content may be: where the upload has put it, or where a manifest
\* sends a file that has it.
Home(K, path, sha) ==
  DistinctIn(K.of) =>
    \/ sha \in Contents /\ path = K.of.paths[sha] /\ path # None
    \/ \E d \in Destinations(K.of) :
         d.to = path /\ d.file \in DOMAIN K.rows /\ K.rows[d.file].sha = sha

Calm(K) == DistinctIn(K.of) /\ K.clean

\* A place that content_blobs may name: no half of the content is there.
There(K, path, sha) == Home(K, path, sha) /\ (Calm(K) => <<path, sha>> \in K.whole)

\* What is read at such a place is the content, or goes where the content may.
Yields(K, path, content) == IF content \in Workers THEN ~Calm(K) ELSE Home(K, path, content)

\* Who has begun to write to a place is the only one to do so.
WritesFit(K) ==
  /\ K.whole \cup DOMAIN K.opened \subseteq written
  /\ \A place \in K.whole \cup DOMAIN K.opened :
       place = <<place[1], place[2]>> /\ Home(K, place[1], place[2])
  /\ \A place \in K.whole :
       place[1] \in DOMAIN objects => objects[place[1]] \notin Workers
  /\ \A place \in DOMAIN K.opened :
       place[1] \in DOMAIN objects /\ objects[place[1]] \in Workers =>
         objects[place[1]] = K.opened[place]

StoreFits(K) ==
  /\ blobs = [sha \in Contents |-> [path |-> blobs[sha].path, refs |-> blobs[sha].refs]]
  /\ \A sha \in Contents : blobs[sha].path # None => There(K, blobs[sha].path, sha)
  /\ \A path \in DOMAIN objects : objects[path] \notin Workers => Home(K, path, objects[path])
  /\ rewritten \in BOOLEAN /\ (K.clean <=> ~rewritten)
  /\ Calm(K) => WritesFit(K)

KnowsSetup(K) ==
  /\ \A f \in DOMAIN K.rows : IsSum(K.rows[f].sha)
  /\ \A f \in DOMAIN K.of.files : f \in DOMAIN K.rows /\ K.rows[f].sha = K.of.files[f].sha

TableFits(K) ==
  /\ issued \in 0 .. MaxRows /\ DOMAIN K.rows = 1 .. issued
  /\ files = [f \in DOMAIN files |-> files[f]] /\ DOMAIN files \subseteq DOMAIN K.rows
  /\ \A f \in DOMAIN files : RowFits(K, f, files[f])
  /\ KnowsSetup(K) /\ StoreFits(K) /\ setup = K.of

\* What is known stays known.
Extends(K2, K) ==
  /\ K2.of = K.of
  /\ \A f \in DOMAIN K.rows : f \in DOMAIN K2.rows /\ K2.rows[f] = K.rows[f]
  /\ (K2.clean => K.clean) /\ K.whole \subseteq K2.whole
  /\ \A place \in DOMAIN K.opened :
       place \in DOMAIN K2.opened /\ K2.opened[place] = K.opened[place]

\* Nobody begins to write.
Still == setup' = setup /\ written' = written /\ rewritten' = rewritten

-----------------------------------------------------------------------------
(* What is left to do.                                                     *)

IsItem(i) == i = [do |-> i.do, id |-> i.id, at |-> i.at, arg |-> i.arg]

\* Where a manifest sends what has this path in it.
Target(q, path) == HierarchicalPath(q.space, DirName(q), path)

RangeFits(range) == range = None \/ (range.start \in Nat /\ range.end \in Nat \cup {None})

Opened(K, place, r) ==
  Calm(K) => place \in DOMAIN K.opened /\ K.opened[place] = r

\* An item that request q with locals l has come to may rely on what was
\* checked before it.
Good(K, q, l, i) ==
  /\ IsItem(i) /\ i.do \notin {"validate", "make_root", "target"}
  /\ i.do \in {"move_into", "climb", "set_parent"} => Held(K, i.id, q.space)
  /\ i.do \in {"adopt", "reparent"} => IsFile(K, i.id, q.space)
  /\ i.do \in {"climb", "set_parent", "copy"} => Inside(K, q.to, q.space)
  /\ i.do = "copy_row" =>
       IsRow(i.arg) /\ IsSum(i.arg.sha) /\ i.arg.name \in Nat /\ Inside(K, i.at, q.space)
  /\ i.do = "copy_list" => IsDir(K, i.at, q.space)
  /\ i.do \in {"del_list", "del_row", "undo_put"} => RowFits(K, i.id, i.arg)
  /\ i.do \in {"make_dir", "adopt", "reparent"} => <<>> \in DOMAIN l.made
  /\ i.do = "make_dir" => i.arg \in Seq(Nat) \ {<<>>}
  /\ i.do \in {"rename", "set_name"} => q.name \in Nat
  /\ i.do = "fetch" => IsList(q.ids)
  /\ i.do = "fetch_blobs" => IsList(i.arg) /\ \A e \in Range(i.arg) : IsSum(e.sha)
  /\ i.do \in {"ls", "ls_page"} => q.arg.page \in Nat /\ q.arg.perPage \in Nat
  /\ i.do = "adopt" => Home(K, Target(q, i.arg), K.rows[i.id].sha)
  /\ i.do = "relocate" => IsSum(i.at) /\ Home(K, Target(q, i.arg), i.at)
  /\ i.do = "read_source" =>
       i.arg = <<i.arg[1], i.arg[2]>> /\ There(K, i.arg[1], i.at) /\ Home(K, i.arg[2], i.at)
  /\ i.do = "write_target" =>
       /\ i.arg = <<i.arg[1], i.arg[2], i.arg[3]>> /\ There(K, i.arg[1], i.at)
       /\ Home(K, i.arg[2], i.at) /\ Yields(K, i.arg[2], i.arg[3])
  /\ i.do = "fill_target" =>
       /\ There(K, i.arg[1], i.at) /\ Home(K, i.arg[2], i.at) /\ Yields(K, i.arg[2], i.arg[3])
       /\ i.arg[4] \in Workers /\ Opened(K, <<i.arg[2], i.at>>, i.arg[4])
  /\ i.do \in {"delete_source", "set_path"} => There(K, i.arg[2], i.at)
  /\ i.do \in {"pack_blob", "get_blob"} => IsSum(i.arg)
  /\ i.do = "pack_object" => There(K, i.arg[2], i.arg[1])
  /\ i.do \in {"get", "get_blob"} => RangeFits(q.arg)
  /\ i.do = "get_object" => /\ There(K, i.id, i.at)
                            /\ i.arg.length >= 0 => BytesRead(i.arg, Size[i.at]) = i.arg.length
  /\ i.do \in {"get_dir", "stream"} => q.op # "scan"
  /\ i.do = "scan_objects" => q.op = "scan"

\* A sequence of jobs, none of them empty, with items of T.
JobsOf(js, T) == js \in Seq(Seq(T) \ {<<>>})
AllItems(js) == UNION {Range(js[k]) : k \in DOMAIN js}

Working(K, q, l, js) ==
  /\ JobsOf(js, AllItems(js))
  /\ \A i \in AllItems(js) : Good(K, q, l, i)

\* BatchMove and BatchCopy, before they have looked at their target.
Targeting(js) ==
  /\ js # <<>> /\ js = <<<<Item("target", None)>>>> \o Tail(js)
  /\ JobsOf(Tail(js), AllItems(Tail(js)))
  /\ \A i \in AllItems(Tail(js)) : IsItem(i) /\ i.do \in {"move", "copy"}

\* SubmitDir, with the entries from the k-th on still to be validated.
Remaining(entries, k) ==
  [i \in 1 .. Len(entries) - k + 1 |-> Item("validate", i + k - 1)] \o <<Item("make_root", None)>>

Validating(K, q, js) ==
  /\ q.arg \in Seq([path : Seq(Nat), file : Nat]) /\ q \in K.of.requests /\ q.op = "submit"
  /\ \E k \in 1 .. Len(q.arg) + 1 :
       /\ js = <<Remaining(q.arg, k)>>
       /\ \A j \in 1 .. k - 1 : IsFile(K, q.arg[j].file, q.space)

\* What has been sent under a sum has it, and the length announced.
PieceFits(K, piece) ==
  Calm(K) /\ piece.sha # None =>
    piece.content = piece.sha /\ (piece.length >= 0 => piece.bytes = piece.length)

LocalsFit(K, q, l) ==
  /\ l = [status |-> l.status, undo |-> l.undo, pending |-> l.pending, made |-> l.made,
          found |-> l.found, sent |-> l.sent]
  /\ IsList(l.undo)
  /\ \A i \in Range(l.undo) : i.do \in {"undo_put", "undo_incr"} /\ Good(K, q, l, i)
  /\ \A p \in DOMAIN l.made : IsDir(K, l.made[p], q.space)
  /\ IsList(l.found) \/ q.op = "scan"
  /\ IsList(l.sent) /\ \A piece \in Range(l.sent) : PieceFits(K, piece)

WorkFits(K) ==
  /\ request = [r \in Workers |-> request[r]]
  /\ jobs = [r \in Workers |-> jobs[r]]
  /\ notes = [r \in Workers |-> notes[r]]
  /\ \A r \in Workers :
       /\ LocalsFit(K, request[r], notes[r])
       /\ \/ Working(K, request[r], notes[r], jobs[r])
          \/ Targeting(jobs[r])
          \/ Validating(K, request[r], jobs[r])

Fits(K) == setup \in Setups /\ TableFits(K) /\ WorkFits(K)

\* There is one account of the rows that all tables, items and locals agree
\* with.
TreeInv == \E K : Fits(K)

-----------------------------------------------------------------------------
(* What has been found out stays true.                                     *)

LEMMA ItemsOf ==
  ASSUME NEW T, NEW js, JobsOf(js, T)
  PROVE  AllItems(js) \subseteq T /\ JobsOf(js, AllItems(js))
<1>1. ASSUME NEW k \in DOMAIN js PROVE js[k] \in Seq(T) \ {<<>>}
  BY <1>1 DEF JobsOf
<1>2. AllItems(js) \subseteq T
  BY <1>1 DEF AllItems, Range
<1>3. ASSUME NEW k \in DOMAIN js PROVE js[k] \in Seq(AllItems(js)) \ {<<>>}
  <2>1. \A x \in DOMAIN js[k] : js[k][x] \in AllItems(js)
    BY <1>3 DEF AllItems, Range
  <2> HIDE DEF AllItems
  <2> QED BY <1>1, <1>3, <2>1
<1>4. js \in Seq(Seq(AllItems(js)) \ {<<>>})
  BY <1>3 DEF JobsOf
<1> QED BY <1>2, <1>4 DEF JobsOf

LEMMA WorkingIf ==
  ASSUME NEW T, NEW K, NEW q, NEW l, NEW js, JobsOf(js, T),
         \A i \in T : Good(K, q, l, i)
  PROVE  Working(K, q, l, js)
BY ItemsOf DEF Working

LEMMA HeldKept ==
  ASSUME NEW K, NEW K2, Extends(K2, K), NEW f, NEW space
  PROVE  /\ Held(K, f, space) => Held(K2, f, space)
         /\ IsFile(K, f, space) => IsFile(K2, f, space)
         /\ IsDir(K, f, space) => IsDir(K2, f, space)
         /\ Inside(K, f, space) => Inside(K2, f, space)
BY DEF Extends, Held, IsFile, IsDir, Inside

LEMMA RowKept ==
  ASSUME NEW K, NEW K2, Extends(K2, K), NEW f, NEW row, RowFits(K, f, row)
  PROVE  RowFits(K2, f, row)
BY HeldKept DEF RowFits, Extends

LEMMA HomeKept ==
  ASSUME NEW K, NEW K2, Extends(K2, K), NEW path, NEW sha, Home(K, path, sha)
  PROVE  Home(K2, path, sha)
BY DEF Home, Extends

LEMMA ThereKept ==
  ASSUME NEW K, NEW K2, Extends(K2, K)
  PROVE  /\ \A path, sha : There(K, path, sha) => There(K2, path, sha)
         /\ \A path, content : Yields(K, path, content) => Yields(K2, path, content)
         /\ \A place, r : Opened(K, place, r) => Opened(K2, place, r)
<1>1. Calm(K2) => Calm(K)
  BY DEF Calm, Extends
<1>2. K.whole \subseteq K2.whole
  BY DEF Extends
<1>3. \A place \in DOMAIN K.opened : place \in DOMAIN K2.opened /\ K2.opened[place] = K.opened[place]
  BY DEF Extends
<1> QED BY <1>1, <1>2, <1>3, HomeKept DEF There, Yields, Opened

LEMMA PieceKept ==
  ASSUME NEW K, NEW K2, Extends(K2, K), NEW piece, PieceFits(K, piece)
  PROVE  PieceFits(K2, piece)
BY DEF PieceFits, Extends, Calm

\* Locals may change as long as no directory of the manifest is forgotten.
LEMMA GoodKept ==
  ASSUME NEW K, NEW K2, Extends(K2, K), NEW q, NEW l, NEW l2, NEW i,
         <<>> \in DOMAIN l.made => <<>> \in DOMAIN l2.made, Good(K, q, l, i)
  PROVE  Good(K2, q, l2, i)
<1>1. i.do = "adopt" => Home(K2, Target(q, i.arg), K2.rows[i.id].sha)
  BY HomeKept DEF Good, Extends, Held, IsFile
<1>2. i.do = "get_object" => /\ There(K2, i.id, i.at)
                             /\ i.arg.length >= 0 => BytesRead(i.arg, Size[i.at]) = i.arg.length
  BY ThereKept DEF Good
<1>3. i.do = "fill_target" =>
       /\ There(K2, i.arg[1], i.at) /\ Home(K2, i.arg[2], i.at) /\ Yields(K2, i.arg[2], i.arg[3])
       /\ i.arg[4] \in Workers /\ Opened(K2, <<i.arg[2], i.at>>, i.arg[4])
  BY HomeKept, ThereKept DEF Good
<1>4. i.do \in {"read_source", "write_target"} =>
       There(K2, i.arg[1], i.at) /\ Home(K2, i.arg[2], i.at)
  BY HomeKept, ThereKept DEF Good
<1>5. i.do = "write_target" => Yields(K2, i.arg[2], i.arg[3])
  BY ThereKept DEF Good
<1>6. /\ i.do = "pack_object" => There(K2, i.arg[2], i.arg[1])
      /\ i.do \in {"delete_source", "set_path"} => There(K2, i.arg[2], i.at)
  BY ThereKept DEF Good
<1> QED BY <1>1, <1>2, <1>3, <1>4, <1>5, <1>6, HeldKept, RowKept, HomeKept DEF Good

LEMMA WorkingKept ==
  ASSUME NEW K, NEW K2, Extends(K2, K), NEW q, NEW l, NEW l2, NEW js,
         <<>> \in DOMAIN l.made => <<>> \in DOMAIN l2.made, Working(K, q, l, js)
  PROVE  Working(K2, q, l2, js)
BY GoodKept DEF Working

LEMMA LocalsKept ==
  ASSUME NEW K, NEW K2, Extends(K2, K), NEW q, NEW l, LocalsFit(K, q, l)
  PROVE  LocalsFit(K2, q, l)
BY HeldKept, GoodKept, PieceKept DEF LocalsFit

LEMMA ValidatingKept ==
  ASSUME NEW K, NEW K2, Extends(K2, K), NEW q, NEW js, Validating(K, q, js)
  PROVE  Validating(K2, q, js)
BY HeldKept DEF Validating, Extends

-----------------------------------------------------------------------------
(* What a worker has left to do, one item later.                           *)

LEMMA GoodIsItem ==
  ASSUME NEW K, NEW q, NEW l, NEW i, Good(K, q, l, i)
  PROVE  IsItem(i) /\ i.do \notin {"validate", "make_root", "target"}
BY DEF Good

LEMMA NowIsGood ==
  ASSUME NEW K, NEW q, NEW l, NEW js, Working(K, q, l, js), js # <<>>
  PROVE  /\ Good(K, q, l, Head(Head(js)))
         /\ Head(js) \in Seq(AllItems(js)) \ {<<>>}
         /\ JobsOf(Tail(js), AllItems(js))
<1> DEFINE T == AllItems(js)
<1>1. JobsOf(js, T) /\ \A i \in T : Good(K, q, l, i)
  BY DEF Working
<1> HIDE DEF T
<1>2. Head(js) \in Seq(T) \ {<<>>} /\ Tail(js) \in Seq(Seq(T) \ {<<>>})
  BY <1>1 DEF JobsOf
<1>3. Head(Head(js)) \in T
  BY <1>2
<1> QED BY <1>1, <1>2, <1>3 DEF JobsOf, T

LEMMA TailWorks ==
  ASSUME NEW K, NEW q, NEW l, NEW js, Working(K, q, l, js), js # <<>>
  PROVE  Working(K, q, l, Tail(js))
BY NowIsGood, WorkingIf DEF Working

LEMMA LeavesWork ==
  ASSUME NEW K, NEW q, NEW l, NEW js, Working(K, q, l, js), js # <<>>,
         NEW T, NEW rest \in Seq(T), \A i \in T : Good(K, q, l, i)
  PROVE  Working(K, q, l, IF rest = <<>> THEN Tail(js) ELSE <<rest>> \o Tail(js))
<1> DEFINE U == T \cup AllItems(js)
           after == IF rest = <<>> THEN Tail(js) ELSE <<rest>> \o Tail(js)
<1>1. rest \in Seq(U) /\ \A i \in U : Good(K, q, l, i)
  BY DEF Working
<1>2. Tail(js) \in Seq(Seq(U) \ {<<>>})
  <2>1. Tail(js) \in Seq(Seq(AllItems(js)) \ {<<>>})
    BY NowIsGood DEF JobsOf
  <2>2. \A x \in Seq(AllItems(js)) : x \in Seq(U)
    OBVIOUS
  <2> HIDE DEF U
  <2> QED BY <2>1, <2>2
<1> HIDE DEF U
<1>3. JobsOf(after, U)
  <2>1. CASE rest = <<>>
    BY <1>2, <2>1 DEF JobsOf
  <2>2. CASE rest # <<>>
    <3>1. <<rest>> \in Seq(Seq(U) \ {<<>>})
      BY <1>1, <2>2
    <3>2. <<rest>> \o Tail(js) \in Seq(Seq(U) \ {<<>>})
      BY <3>1, <1>2
    <3> QED BY <3>2, <2>2 DEF JobsOf
  <2> QED BY <2>1, <2>2
<1> QED BY <1>1, <1>3, WorkingIf

LEMMA GoesWork ==
  ASSUME NEW K, NEW q, NEW l, NEW js, Working(K, q, l, js), js # <<>>,
         NEW T, NEW items \in Seq(T), \A i \in T : Good(K, q, l, i)
  PROVE  LET rest == items \o Tail(Head(js)) IN
         Working(K, q, l, IF rest = <<>> THEN Tail(js) ELSE <<rest>> \o Tail(js))
<1> DEFINE U == T \cup AllItems(js)
           rest == items \o Tail(Head(js))
<1>1. \A i \in U : Good(K, q, l, i)
  BY DEF Working
<1>2. Tail(Head(js)) \in Seq(AllItems(js))
  BY NowIsGood
<1>3. items \in Seq(U) /\ Tail(Head(js)) \in Seq(U)
  BY <1>2
<1> HIDE DEF U
<1>4. rest \in Seq(U)
  BY <1>3
<1> HIDE DEF rest
<1>5. Working(K, q, l, IF rest = <<>> THEN Tail(js) ELSE <<rest>> \o Tail(js))
  BY <1>1, <1>4, LeavesWork
<1> QED BY <1>5 DEF rest

-----------------------------------------------------------------------------
(* Steps of a worker.                                                      *)

Special == {"validate", "make_root", "target"}

\* What is to be checked comes first.
LEMMA ChecksComeFirst ==
  ASSUME NEW K, NEW q, NEW js
  PROVE  /\ Targeting(js) => Head(js) = <<Item("target", None)>>
         /\ Validating(K, q, js) => Head(Head(js)).do \in {"validate", "make_root"}
<1>1. ASSUME Targeting(js) PROVE Head(js) = <<Item("target", None)>>
  <2>1. Tail(js) \in Seq(Seq(AllItems(Tail(js))) \ {<<>>})
    BY <1>1 DEF Targeting, JobsOf
  <2>2. js = <<<<Item("target", None)>>>> \o Tail(js)
    BY <1>1 DEF Targeting
  <2> QED BY <2>1, <2>2
<1>2. ASSUME Validating(K, q, js) PROVE Head(Head(js)).do \in {"validate", "make_root"}
  <2> DEFINE entries == q.arg
  <2>1. PICK k \in 1 .. Len(entries) + 1 : js = <<Remaining(entries, k)>>
    BY <1>2 DEF Validating
  <2>2. Len(entries) \in Nat
    BY <1>2 DEF Validating
  <2>3. Head(Head(js)) = Head(Remaining(entries, k))
    BY <2>1
  <2> HIDE DEF entries
  <2>4. CASE k = Len(entries) + 1
    <3>1. Remaining(entries, k) = <<Item("make_root", None)>>
      BY <2>2, <2>4 DEF Remaining
    <3> QED BY <2>3, <3>1 DEF Item
  <2>5. CASE k \in 1 .. Len(entries)
    <3>1. Remaining(entries, k)[1] = Item("validate", k) /\ Remaining(entries, k) # <<>>
      BY <2>2, <2>5 DEF Remaining
    <3> QED BY <2>3, <3>1 DEF Item
  <2> QED BY <2>2, <2>4, <2>5
<1> QED BY <1>1, <1>2

\* Only what is left to do before the first check is special.
LEMMA PlainWorks ==
  ASSUME NEW K, Fits(K), NEW r \in Workers, jobs[r] # <<>>, Now(r).do \notin Special
  PROVE  /\ Working(K, request[r], notes[r], jobs[r])
         /\ Good(K, request[r], notes[r], Now(r))
         /\ LocalsFit(K, request[r], notes[r])
<1>1. LocalsFit(K, request[r], notes[r])
  BY DEF Fits, WorkFits
<1>2. Head(<<Item("target", None)>>).do = "target"
  BY DEF Item
<1>3. ~Targeting(jobs[r]) /\ ~Validating(K, request[r], jobs[r])
  BY <1>2, ChecksComeFirst DEF Now, Special
<1>4. Working(K, request[r], notes[r], jobs[r])
  BY <1>3 DEF Fits, WorkFits
<1> QED BY <1>1, <1>4, NowIsGood DEF Now

\* What one worker does leaves what the others know.
LEMMA StepFits ==
  ASSUME NEW K, Fits(K), NEW K2, Extends(K2, K), TableFits(K2)',
         NEW r \in Workers, NEW l, NEW js, LocalsFit(K2, request[r], l),
         \/ Working(K2, request[r], l, js)
         \/ Targeting(js)
         \/ Validating(K2, request[r], js),
         request' = request, jobs' = [jobs EXCEPT ![r] = js], notes' = [notes EXCEPT ![r] = l]
  PROVE  Fits(K2)'
<1>1. request'[r] = request[r] /\ jobs'[r] = js /\ notes'[r] = l
  BY DEF Fits, WorkFits
<1>2. ASSUME NEW s \in Workers, s # r
      PROVE  request'[s] = request[s] /\ jobs'[s] = jobs[s] /\ notes'[s] = notes[s]
  BY <1>2 DEF Fits, WorkFits
<1>3. ASSUME NEW s \in Workers
      PROVE  /\ LocalsFit(K2, request'[s], notes'[s])
             /\ \/ Working(K2, request'[s], notes'[s], jobs'[s])
                \/ Targeting(jobs'[s])
                \/ Validating(K2, request'[s], jobs'[s])
  <2>1. CASE s = r
    BY <2>1, <1>1
  <2>2. CASE s # r
    <3>1. /\ LocalsFit(K, request[s], notes[s])
          /\ \/ Working(K, request[s], notes[s], jobs[s])
             \/ Targeting(jobs[s])
             \/ Validating(K, request[s], jobs[s])
      BY DEF Fits, WorkFits
    <3>2. LocalsFit(K2, request[s], notes[s])
      BY <3>1, LocalsKept
    <3>3. \/ Working(K2, request[s], notes[s], jobs[s])
          \/ Targeting(jobs[s])
          \/ Validating(K2, request[s], jobs[s])
      BY <3>1, WorkingKept, ValidatingKept
    <3> QED BY <3>2, <3>3, <2>2, <1>2
  <2> QED BY <2>1, <2>2
<1>4. /\ request' = [s \in Workers |-> request'[s]]
      /\ jobs' = [s \in Workers |-> jobs'[s]]
      /\ notes' = [s \in Workers |-> notes'[s]]
  BY DEF Fits, WorkFits
<1>5. WorkFits(K2)'
  BY <1>3, <1>4 DEF WorkFits
<1>6. setup' \in Setups
  BY DEF Fits, TableFits, Extends
<1> QED BY <1>5, <1>6 DEF Fits

\* A worker that has made its checks goes on.
LEMMA GoesFits ==
  ASSUME NEW K, Fits(K), NEW K2, Extends(K2, K), TableFits(K2)',
         NEW r \in Workers, jobs[r] # <<>>, Now(r).do \notin Special,
         NEW l, LocalsFit(K2, request[r], l),
         <<>> \in DOMAIN notes[r].made => <<>> \in DOMAIN l.made,
         NEW T, NEW items \in Seq(T), \A i \in T : Good(K2, request[r], l, i),
         Goes(r, items), request' = request, notes' = [notes EXCEPT ![r] = l]
  PROVE  Fits(K2)'
<1> DEFINE rest == items \o Tail(Head(jobs[r]))
           js == IF rest = <<>> THEN Tail(jobs[r]) ELSE <<rest>> \o Tail(jobs[r])
<1>1. Working(K2, request[r], l, jobs[r])
  BY PlainWorks, WorkingKept
<1>2. Working(K2, request[r], l, js)
  BY <1>1, GoesWork
<1>3. jobs' = [jobs EXCEPT ![r] = js]
  BY DEF Goes, Leaves
<1> HIDE DEF js
<1> QED BY <1>2, <1>3, StepFits

LEMMA ThenFits ==
  ASSUME NEW K, Fits(K), TableFits(K)', Still,
         NEW r \in Workers, jobs[r] # <<>>, Now(r).do \notin Special,
         NEW T, NEW items \in Seq(T), \A i \in T : Good(K, request[r], notes[r], i),
         Then(r, items)
  PROVE  Fits(K)'
<1>1. Extends(K, K)
  BY DEF Extends
<1>2. LocalsFit(K, request[r], notes[r])
  BY PlainWorks
<1>3. notes' = [notes EXCEPT ![r] = notes[r]] /\ request' = request /\ Goes(r, items)
  BY DEF Then, Fits, WorkFits
<1> QED BY <1>1, <1>2, <1>3, GoesFits

LEMMA DoneFits ==
  ASSUME NEW K, Fits(K), TableFits(K)', Still,
         NEW r \in Workers, jobs[r] # <<>>, Now(r).do \notin Special, Done(r)
  PROVE  Fits(K)'
<1> DEFINE T == AllItems(jobs[r])
<1>1. \A i \in T : Good(K, request[r], notes[r], i)
  BY PlainWorks DEF Working
<1>2. <<>> \in Seq(T) /\ Then(r, <<>>)
  BY DEF Done
<1> HIDE DEF T
<1> QED BY <1>1, <1>2, ThenFits

\* Locals that the rest does not rely on.
LEMMA LocalsSame ==
  ASSUME NEW K, NEW q, NEW l, LocalsFit(K, q, l), NEW l2,
         l2 = [status |-> l2.status, undo |-> l.undo, pending |-> l2.pending, made |-> l.made,
               found |-> l.found, sent |-> l.sent]
  PROVE  LocalsFit(K, q, l2) /\ l2.made = l.made
<1>1. l2.undo = l.undo /\ l2.made = l.made /\ l2.found = l.found /\ l2.sent = l.sent
  OBVIOUS
<1>2. Extends(K, K)
  BY DEF Extends
<1>3. \A i \in Range(l.undo) : Good(K, q, l2, i)
  BY <1>1, <1>2, GoodKept DEF LocalsFit
<1> QED BY <1>1, <1>3 DEF LocalsFit

\* What is found is a list, unless it is a scan that found it.
LEMMA FoundFits ==
  ASSUME NEW K, NEW q, NEW l, LocalsFit(K, q, l), NEW found, IsList(found) \/ q.op = "scan"
  PROVE  /\ LocalsFit(K, q, [l EXCEPT !.found = found])
         /\ [l EXCEPT !.found = found].made = l.made
<1> DEFINE l2 == [l EXCEPT !.found = found]
<1>1. /\ l2.undo = l.undo /\ l2.made = l.made /\ l2.found = found /\ l2.sent = l.sent
      /\ l2 = [status |-> l2.status, undo |-> l2.undo, pending |-> l2.pending, made |-> l2.made,
               found |-> l2.found, sent |-> l2.sent]
  BY DEF LocalsFit
<1> HIDE DEF l2
<1>2. Extends(K, K)
  BY DEF Extends
<1>3. \A i \in Range(l.undo) : Good(K, q, l2, i)
  BY <1>1, <1>2, GoodKept DEF LocalsFit
<1>4. LocalsFit(K, q, l2)
  BY <1>1, <1>3 DEF LocalsFit
<1> QED BY <1>1, <1>4 DEF l2

\* A deletion that can be undone is put on the stack.
LEMMA UndoFits ==
  ASSUME NEW K, NEW q, NEW l, LocalsFit(K, q, l),
         NEW i, i.do \in {"undo_put", "undo_incr"}, Good(K, q, l, i)
  PROVE  /\ LocalsFit(K, q, [l EXCEPT !.undo = Append(@, i)])
         /\ [l EXCEPT !.undo = Append(@, i)].made = l.made
<1> DEFINE more == Append(l.undo, i)
           l2 == [l EXCEPT !.undo = more]
           T == Range(l.undo) \cup {i}
<1> HIDE DEF more
<1>1. /\ l2.undo = more /\ l2.made = l.made /\ l2.found = l.found /\ l2.sent = l.sent
      /\ l2 = [status |-> l2.status, undo |-> l2.undo, pending |-> l2.pending, made |-> l2.made,
               found |-> l2.found, sent |-> l2.sent]
  BY DEF LocalsFit
<1> HIDE DEF l2
<1>2. Extends(K, K)
  BY DEF Extends
<1>3. \A j \in T : j.do \in {"undo_put", "undo_incr"} /\ Good(K, q, l2, j)
  BY <1>1, <1>2, GoodKept DEF LocalsFit
<1>4. l.undo \in Seq(T) /\ i \in T
  BY DEF LocalsFit, IsList
<1> HIDE DEF T
<1>5. l2.undo \in Seq(T)
  BY <1>1, <1>4 DEF more
<1>6. IsList(l2.undo) /\ Range(l2.undo) \subseteq T
  BY <1>5, ListIsList DEF Range
<1>7. LocalsFit(K, q, l2)
  BY <1>1, <1>3, <1>6 DEF LocalsFit
<1> QED BY <1>1, <1>7 DEF l2, more

\* Nor does it rely on what is to be unlinked.
LEMMA PendingFits ==
  ASSUME NEW K, NEW q, NEW l, LocalsFit(K, q, l), NEW pending
  PROVE  /\ LocalsFit(K, q, [l EXCEPT !.pending = pending])
         /\ [l EXCEPT !.pending = pending].made = l.made
<1> DEFINE l2 == [l EXCEPT !.pending = pending]
<1>1. l2 = [status |-> l2.status, undo |-> l.undo, pending |-> l2.pending, made |-> l.made,
            found |-> l.found, sent |-> l.sent]
  BY DEF LocalsFit
<1> HIDE DEF l2
<1>2. LocalsFit(K, q, l2) /\ l2.made = l.made
  BY <1>1, LocalsSame
<1> QED BY <1>2 DEF l2

LEMMA SpecialJobs ==
  ASSUME NEW K, NEW q, NEW js, Validating(K, q, js) PROVE js # <<>> /\ Tail(js) = <<>>
BY DEF Validating

\* The end of a job, or of all of them.
LEMMA EndFits ==
  ASSUME NEW K, Fits(K), TableFits(K)', Still,
         NEW r \in Workers, NEW js, Working(K, request[r], notes[r], js),
         jobs' = [jobs EXCEPT ![r] = js], request' = request,
         NEW code, notes' = notes \/ notes' = [notes EXCEPT ![r].status = code]
  PROVE  Fits(K)'
<1>1. Extends(K, K)
  BY DEF Extends
<1>2. LocalsFit(K, request[r], notes[r])
  BY DEF Fits, WorkFits
<1>3. CASE notes' = notes
  <2>1. notes' = [notes EXCEPT ![r] = notes[r]]
    BY <1>3 DEF Fits, WorkFits
  <2> QED BY <2>1, <1>1, <1>2, StepFits
<1>4. CASE notes' = [notes EXCEPT ![r].status = code]
  <2> DEFINE l == [notes[r] EXCEPT !.status = code]
  <2>1. /\ l = [status |-> l.status, undo |-> notes[r].undo, pending |-> l.pending,
                made |-> notes[r].made, found |-> notes[r].found, sent |-> notes[r].sent]
        /\ notes' = [notes EXCEPT ![r] = l]
    BY <1>2, <1>4 DEF LocalsFit
  <2> HIDE DEF l
  <2>2. LocalsFit(K, request[r], l) /\ l.made = notes[r].made
    BY <1>2, <2>1, LocalsSame
  <2>3. Working(K, request[r], l, js)
    BY <1>1, <2>2, WorkingKept
  <2> QED BY <1>1, <2>1, <2>2, <2>3, StepFits
<1> QED BY <1>3, <1>4

LEMMA NothingWorks ==
  ASSUME NEW K, NEW q, NEW l PROVE Working(K, q, l, <<>>)
<1> DEFINE T == {} js == <<>>
<1>1. JobsOf(js, T)
  BY DEF JobsOf
<1>2. \A i \in T : Good(K, q, l, i)
  OBVIOUS
<1> HIDE DEF T, js
<1>3. Working(K, q, l, js)
  BY <1>1, <1>2, WorkingIf
<1> QED BY <1>3 DEF js

LEMMA FailFits ==
  ASSUME NEW K, Fits(K), TableFits(K)', Still,
         NEW r \in Workers, jobs[r] # <<>>,
         Now(r).do \notin Special \/ Validating(K, request[r], jobs[r]),
         NEW code, Fail(r, code)
  PROVE  Fits(K)'
<1>1. Working(K, request[r], notes[r], Tail(jobs[r]))
  <2>1. CASE Now(r).do \notin Special
    BY <2>1, PlainWorks, TailWorks
  <2>2. CASE Validating(K, request[r], jobs[r])
    BY <2>2, SpecialJobs, NothingWorks
  <2> QED BY <2>1, <2>2
<1>2. jobs' = [jobs EXCEPT ![r] = Tail(jobs[r])] /\ request' = request
  BY DEF Fail
<1>3. notes' = notes \/ notes' = [notes EXCEPT ![r].status = code]
  BY DEF Fail
<1> QED BY <1>1, <1>2, <1>3, EndFits

LEMMA RefuseFits ==
  ASSUME NEW K, Fits(K), TableFits(K)', Still, NEW r \in Workers,
         NEW code, Refuse(r, code)
  PROVE  Fits(K)'
BY NothingWorks, EndFits DEF Refuse

LEMMA RollbackFits ==
  ASSUME NEW K, Fits(K), TableFits(K)', Still,
         NEW r \in Workers, jobs[r] # <<>>, Now(r).do \notin Special, NEW code, Rollback(r, code)
  PROVE  Fits(K)'
<1> DEFINE undo == notes[r].undo
           js == (IF undo = <<>> THEN <<>> ELSE <<Reverse(undo)>>) \o Tail(jobs[r])
           T == Range(undo)
<1>1. undo \in Seq(T) /\ \A i \in T : Good(K, request[r], notes[r], i)
  BY PlainWorks DEF LocalsFit, IsList
<1>2. Working(K, request[r], notes[r], jobs[r]) /\ Working(K, request[r], notes[r], Tail(jobs[r]))
  BY PlainWorks, TailWorks
<1>3. Working(K, request[r], notes[r], js)
  <2> HIDE DEF T
  <2>1. CASE undo = <<>>
    <3>1. Tail(jobs[r]) \in Seq(Seq(AllItems(Tail(jobs[r]))) \ {<<>>})
      BY <1>2 DEF Working, JobsOf
    <3>2. js = Tail(jobs[r])
      BY <2>1, <3>1
    <3> QED BY <3>2, <1>2
  <2>2. CASE undo # <<>>
    <3>1. Reverse(undo) \in Seq(T) /\ Reverse(undo) # <<>>
      <4>1. Len(undo) \in Nat \ {0}
        BY <1>1, <2>2
      <4>2. \A i \in 1 .. Len(undo) : undo[(Len(undo) - i) + 1] \in T
        BY <1>1, <4>1
      <4> HIDE DEF undo
      <4>3. Reverse(undo) \in [1 .. Len(undo) -> T]
        BY <4>2 DEF Reverse
      <4> QED BY <4>1, <4>3
    <3> DEFINE rest == Reverse(undo)
    <3>2. js = IF rest = <<>> THEN Tail(jobs[r]) ELSE <<rest>> \o Tail(jobs[r])
      BY <2>2, <3>1
    <3> HIDE DEF rest
    <3>3. rest \in Seq(T)
      BY <3>1 DEF rest
    <3> QED BY <1>1, <1>2, <3>2, <3>3, LeavesWork
  <2> QED BY <2>1, <2>2
<1>4. jobs' = [jobs EXCEPT ![r] = js] /\ request' = request
  BY DEF Rollback
<1>5. notes' = notes \/ notes' = [notes EXCEPT ![r].status = code]
  BY DEF Rollback
<1> HIDE DEF js
<1> QED BY <1>3, <1>4, <1>5, EndFits

-----------------------------------------------------------------------------
(* The tables.                                                             *)

LEMMA StoreSame ==
  ASSUME NEW K, StoreFits(K), Still, blobs' = blobs, objects' = objects PROVE StoreFits(K)'
BY DEF StoreFits, WritesFit, Still

LEMMA ReadFits ==
  ASSUME NEW K, TableFits(K), Still,
         files' = files, issued' = issued, blobs' = blobs, objects' = objects
  PROVE  TableFits(K)'
BY StoreSame DEF TableFits, Still

LEMMA UpdateFits ==
  ASSUME NEW K, TableFits(K), Still,
         NEW f \in DOMAIN files, NEW row, RowFits(K, f, row), FilesOnly(Updated(f, row))
  PROVE  TableFits(K)'
BY StoreSame DEF TableFits, FilesOnly, Updated, Still

LEMMA DeleteFits ==
  ASSUME NEW K, TableFits(K), Still, NEW f, FilesOnly(DeleteFile(f))
  PROVE  TableFits(K)'
BY StoreSame DEF TableFits, FilesOnly, DeleteFile, Still

LEMMA PutBackFits ==
  ASSUME NEW K, TableFits(K), Still,
         NEW f, NEW row, RowFits(K, f, row), FilesOnly(PutFile(f, row))
  PROVE  TableFits(K)'
<1> DEFINE new == [row EXCEPT !.trashed = 0]
<1>1. RowFits(K, f, new) /\ f \in DOMAIN K.rows
  BY DEF RowFits, IsRow
<1> HIDE DEF new
<1>2. files' = [g \in DOMAIN files \cup {f} |-> IF g = f THEN new ELSE files[g]]
  BY DEF FilesOnly, PutFile, new
<1> QED BY <1>1, <1>2, StoreSame DEF TableFits, FilesOnly, Still

\* What is known of the storage does not depend on how many rows are known.
LEMMA MoreRowsFit ==
  ASSUME NEW K, StoreFits(K), Still, blobs' = blobs, objects' = objects,
         NEW K2, Extends(K2, K),
         K2.of = K.of, K2.whole = K.whole, K2.opened = K.opened, K2.clean = K.clean
  PROVE  StoreFits(K2)'
<1>1. Calm(K2) = Calm(K)
  BY DEF Calm
<1>2. Calm(K) => WritesFit(K2)'
  <2>1. Calm(K) => WritesFit(K)
    BY DEF StoreFits
  <2> QED BY <2>1, HomeKept DEF WritesFit, Still
<1>3. rewritten' \in BOOLEAN /\ (K2.clean <=> ~rewritten')
  BY DEF StoreFits, Still
<1>4. \A sha \in Contents : blobs'[sha].path # None => There(K2, blobs'[sha].path, sha)
  BY ThereKept DEF StoreFits
<1>5. \A path \in DOMAIN objects' : objects'[path] \notin Workers => Home(K2, path, objects'[path])
  BY HomeKept DEF StoreFits
<1> QED BY <1>1, <1>2, <1>3, <1>4, <1>5 DEF StoreFits

\* A new row is an addition to what is known.
LEMMA InsertFits ==
  ASSUME NEW K, TableFits(K), Still,
         NEW row, IsRow(row), IsSum(row.sha), row.name \in Nat,
         Inside(K, row.parent, row.space), Insert(row)
  PROVE  \E K2 : /\ Extends(K2, K) /\ TableFits(K2)'
                 /\ Held(K2, issued + 1, row.space) /\ K2.rows[issued + 1].dir = row.dir
<1> DEFINE f == issued + 1 fact == [dir |-> row.dir, space |-> row.space, sha |-> row.sha]
           rows == [g \in 1 .. issued + 1 |-> IF g = f THEN fact ELSE K.rows[g]]
<1> PICK K2 : K2 = [rows |-> rows, of |-> K.of, whole |-> K.whole, opened |-> K.opened, clean |-> K.clean]
  OBVIOUS
<1>1. issued \in Nat /\ issued < MaxRows /\ MaxRows \in Nat /\ issued' = f
  BY RowsAreBounded DEF TableFits, Insert
<1>2. DOMAIN K2.rows = 1 .. f /\ K2.of = K.of /\ K2.rows[f] = fact
      /\ K2.whole = K.whole /\ K2.opened = K.opened /\ K2.clean = K.clean
      /\ \A g \in 1 .. issued : K2.rows[g] = K.rows[g]
  BY <1>1
<1>3. Extends(K2, K) /\ f \in DOMAIN K2.rows
  BY <1>1, <1>2 DEF Extends, TableFits
<1> HIDE DEF rows
<1> DEFINE new == [row EXCEPT !.trashed = 0]
<1>4. RowFits(K2, f, new)
  <2>1. new.dir = row.dir /\ new.space = row.space /\ new.sha = row.sha
        /\ new.parent = row.parent /\ new.name = row.name /\ IsRow(new)
    BY DEF IsRow
  <2>2. Inside(K2, row.parent, row.space)
    BY <1>3, HeldKept
  <2> HIDE DEF new
  <2> QED BY <2>1, <2>2, <1>2, <1>3 DEF RowFits
<1> HIDE DEF new
<1>5. files' = [g \in DOMAIN files \cup {f} |-> IF g = f THEN new ELSE files[g]]
  BY DEF PutFile, Insert, new
<1>6. \A g \in DOMAIN files' : RowFits(K2, g, files'[g])
  <2>1. \A g \in DOMAIN files : RowFits(K2, g, files[g])
    BY <1>3, RowKept DEF TableFits
  <2> HIDE DEF f
  <2> QED BY <1>4, <1>5, <2>1
<1>7. DOMAIN files' \subseteq DOMAIN K2.rows /\ files' = [g \in DOMAIN files' |-> files'[g]]
  BY <1>1, <1>2, <1>5 DEF TableFits, Extends
<1>8. issued' \in 0 .. MaxRows /\ DOMAIN K2.rows = 1 .. issued'
  BY <1>1, <1>2
<1>9. KnowsSetup(K2) /\ setup' = K2.of
  <2>1. KnowsSetup(K) /\ DOMAIN K.rows = 1 .. issued /\ setup' = K.of
    BY DEF TableFits, Still
  <2>2. ASSUME NEW g \in DOMAIN K2.rows PROVE IsSum(K2.rows[g].sha)
    <3>1. CASE g = f
      BY <1>2, <3>1
    <3>2. CASE g # f
      <4>1. g \in 1 .. issued
        BY <1>1, <1>2, <3>2
      <4> QED BY <1>2, <2>1, <4>1 DEF KnowsSetup
    <3> QED BY <3>1, <3>2
  <2> QED BY <1>2, <1>3, <2>1, <2>2 DEF KnowsSetup, Extends
<1>10. StoreFits(K2)'
  <2>1. blobs' = blobs /\ objects' = objects /\ StoreFits(K)
    BY DEF Insert, TableFits
  <2> QED BY <1>2, <1>3, <2>1, MoreRowsFit
<1>11. TableFits(K2)'
  BY <1>6, <1>7, <1>8, <1>9, <1>10 DEF TableFits
<1> QED BY <1>2, <1>3, <1>11 DEF Held

-----------------------------------------------------------------------------
(* The storage.                                                            *)

LEMMA RefsFit ==
  ASSUME NEW K, TableFits(K), Still,
         NEW sha, BlobsOnly(IncrBlobRef(sha)) \/ BlobsOnly(DecrBlobRef(sha))
  PROVE  TableFits(K)'
<1>1. blobs = [c \in Contents |-> [path |-> blobs[c].path, refs |-> blobs[c].refs]]
  BY DEF TableFits, StoreFits
<1>2. blobs' = [c \in Contents |-> [path |-> blobs[c].path, refs |-> blobs'[c].refs]]
  <2>1. PICK n : blobs' = [blobs EXCEPT ![sha].refs = n]
    BY DEF BlobsOnly, IncrBlobRef, DecrBlobRef
  <2>2. DOMAIN blobs' = Contents /\ blobs' = [c \in Contents |-> blobs'[c]]
    BY <1>1, <2>1
  <2>3. ASSUME NEW c \in Contents PROVE blobs'[c] = [path |-> blobs[c].path, refs |-> blobs'[c].refs]
    <3>1. blobs[c] = [path |-> blobs[c].path, refs |-> blobs[c].refs]
      BY <1>1
    <3>2. CASE c = sha
      <4>1. blobs'[c] = [blobs[c] EXCEPT !.refs = n]
        BY <1>1, <2>1, <3>2
      <4> QED BY <3>1, <4>1
    <3>3. CASE c # sha
      <4>1. blobs'[c] = blobs[c]
        BY <1>1, <2>1, <3>3
      <4> QED BY <3>1, <4>1
    <3> QED BY <3>2, <3>3
  <2> QED BY <2>2, <2>3
<1>3. \A c \in Contents : blobs'[c].path = blobs[c].path
  BY <1>2
<1>4. blobs' = [c \in Contents |-> [path |-> blobs'[c].path, refs |-> blobs'[c].refs]]
  BY <1>2, <1>3
<1>5. objects' = objects /\ files' = files /\ issued' = issued
  BY DEF BlobsOnly
<1>6. StoreFits(K)'
  BY <1>3, <1>4, <1>5 DEF TableFits, StoreFits, WritesFit, Still
<1> QED BY <1>5, <1>6 DEF TableFits, Still

LEMMA PathFits ==
  ASSUME NEW K, TableFits(K), Still,
         NEW path, NEW sha, There(K, path, sha), BlobsOnly(UpdateBlobStorage(sha, path))
  PROVE  TableFits(K)'
<1>1. blobs = [c \in Contents |-> [path |-> blobs[c].path, refs |-> blobs[c].refs]]
  BY DEF TableFits, StoreFits
<1>2. blobs' = [c \in Contents |-> [path |-> IF c = sha THEN path ELSE blobs[c].path,
                                   refs |-> blobs[c].refs]]
  <2>1. blobs' = [blobs EXCEPT ![sha].path = path]
    BY DEF BlobsOnly, UpdateBlobStorage
  <2>2. DOMAIN blobs' = Contents /\ blobs' = [c \in Contents |-> blobs'[c]]
    BY <1>1, <2>1
  <2>3. ASSUME NEW c \in Contents
        PROVE  blobs'[c] = [path |-> IF c = sha THEN path ELSE blobs[c].path, refs |-> blobs[c].refs]
    <3>1. blobs[c] = [path |-> blobs[c].path, refs |-> blobs[c].refs]
      BY <1>1
    <3>2. CASE c = sha
      <4>1. blobs'[c] = [blobs[c] EXCEPT !.path = path]
        BY <1>1, <2>1, <3>2
      <4> QED BY <3>1, <3>2, <4>1
    <3>3. CASE c # sha
      <4>1. blobs'[c] = blobs[c]
        BY <1>1, <2>1, <3>3
      <4> QED BY <3>1, <3>3, <4>1
    <3> QED BY <3>2, <3>3
  <2> QED BY <2>2, <2>3
<1>3. \A c \in Contents : blobs'[c].path = IF c = sha THEN path ELSE blobs[c].path
  BY <1>2
<1>4. blobs' = [c \in Contents |-> [path |-> blobs'[c].path, refs |-> blobs'[c].refs]]
  BY <1>2, <1>3
<1>5. objects' = objects /\ files' = files /\ issued' = issued
  BY DEF BlobsOnly
<1>6. StoreFits(K)'
  BY <1>3, <1>4, <1>5 DEF TableFits, StoreFits, WritesFit, Still
<1> QED BY <1>5, <1>6 DEF TableFits, Still

LEMMA ObjectFits ==
  ASSUME NEW K, TableFits(K), Still, NEW path, ObjectsOnly(Unlink(path))
  PROVE  TableFits(K)'
<1>1. blobs' = blobs /\ files' = files /\ issued' = issued
  BY DEF ObjectsOnly
<1>2. \A p \in DOMAIN objects' : p \in DOMAIN objects /\ objects'[p] = objects[p]
  BY DEF ObjectsOnly, Unlink
<1>3. StoreFits(K)'
  BY <1>1, <1>2 DEF TableFits, StoreFits, WritesFit, Still
<1> QED BY <1>1, <1>3 DEF TableFits, Still

\* A row of content_blobs says where the content is, or has been.
LEMMA BlobIsThere ==
  ASSUME NEW K, TableFits(K), NEW sha, IsSum(sha), GetBlobBySha(sha) # None
  PROVE  There(K, GetBlobBySha(sha).path, sha)
BY DEF TableFits, StoreFits, IsSum, GetBlobBySha

\* What is read there is not half written.
LEMMA ThereYields ==
  ASSUME NEW K, TableFits(K), NEW path, NEW sha, There(K, path, sha), Open(path) # None
  PROVE  Yields(K, path, Open(path))
<1>1. path \in DOMAIN objects /\ Open(path) = objects[path]
  BY DEF Open
<1>2. objects[path] \notin Workers => Home(K, path, objects[path])
  BY <1>1 DEF TableFits, StoreFits
<1>3. Calm(K) => objects[path] \notin Workers
  <2> DEFINE place == <<path, sha>>
  <2>1. Calm(K) => place \in K.whole /\ WritesFit(K)
    BY DEF There, TableFits, StoreFits
  <2>2. place[1] = path
    OBVIOUS
  <2> HIDE DEF place
  <2> QED BY <1>1, <2>1, <2>2 DEF WritesFit
<1> QED BY <1>1, <1>2, <1>3 DEF Yields

\* No two contents are ever in one place.
LEMMA HomeIsUnique ==
  ASSUME NEW K, Fits(K), DistinctIn(K.of), NEW path, NEW a, NEW b, Home(K, path, a), Home(K, path, b)
  PROVE  a = b
<1>1. KnowsSetup(K) /\ Apart(K.of.paths)
  BY SetupsAreServed DEF Fits, TableFits
<1>2. ASSUME NEW x, NEW y, x \in Contents, path = K.of.paths[x], path # None,
             NEW d \in Destinations(K.of), d.to = path, d.file \in DOMAIN K.rows,
             K.rows[d.file].sha = y
      PROVE  x = y
  BY <1>1, <1>2 DEF DistinctIn, KnowsSetup
<1>3. ASSUME NEW d \in Destinations(K.of), d.to = path, K.rows[d.file].sha = a,
             NEW e \in Destinations(K.of), e.to = path, K.rows[e.file].sha = b
      PROVE  a = b
  <2>1. SameContent(K.of, d.file, e.file)
    BY <1>3 DEF DistinctIn
  <2> QED BY <1>1, <1>3, <2>1 DEF SameContent, KnowsSetup
<1>4. a \in Contents /\ b \in Contents /\ path = K.of.paths[a] /\ path = K.of.paths[b] /\ path # None
      => a = b
  BY <1>1 DEF Apart
<1> QED BY <1>2, <1>3, <1>4 DEF Home

\* What is read is what was looked for, and may go where that may go.
LEMMA HomeFollows ==
  ASSUME NEW K, Fits(K), NEW p, NEW q, NEW a, NEW b, Home(K, p, a), Home(K, p, b), Home(K, q, a)
  PROVE  Home(K, q, b)
<1>1. CASE DistinctIn(K.of)
  BY <1>1, HomeIsUnique
<1>2. CASE ~DistinctIn(K.of)
  BY <1>2 DEF Home
<1> QED BY <1>1, <1>2

\* What a query returns is a list of the rows it asks for.
LEMMA TablesAreFinite ==
  ASSUME NEW K, TableFits(K), NEW S \in SUBSET DOMAIN files PROVE IsFiniteSet(S)
<1>1. IsFiniteSet(1 .. issued)
  BY FS_Interval DEF TableFits
<1> QED BY <1>1, FS_Subset DEF TableFits

LEMMA ChildrenAreRows ==
  ASSUME NEW K, TableFits(K), NEW p
  PROVE  ListChildren(p) \in Seq(DOMAIN files)
<1>1. ChildrenOf(p) \in SUBSET DOMAIN files
  BY DEF ChildrenOf
<1>2. ListChildren(p) \in Seq(ChildrenOf(p))
  BY <1>1, TablesAreFinite, PlacedIsList DEF ListChildren, InOrder
<1> QED BY <1>1, <1>2

LEMMA TrashIsRows ==
  ASSUME NEW K, TableFits(K), NEW space
  PROVE  ListTrash(space) \in Seq(DOMAIN files)
<1> DEFINE S == {f \in DOMAIN files : files[f].space = space /\ files[f].trashed # 0}
<1>1. ListTrash(space) \in Seq(S)
  BY TablesAreFinite, PlacedIsList DEF ListTrash, InOrder
<1> QED BY <1>1

LEMMA AllFilesAreRows ==
  ASSUME NEW K, TableFits(K) PROVE ListAllFiles \in Seq(DOMAIN files)
BY TablesAreFinite, PlacedIsList DEF ListAllFiles, InOrder

LEMMA FoundIsLive ==
  ASSUME NEW f, NEW space, Verdict(f, space) = 200
  PROVE  f \in DOMAIN files /\ files[f].space = space /\ Live(f)
BY DEF Verdict, Live

-----------------------------------------------------------------------------
(* Items that rely on nothing.                                             *)

Harmless ==
  {"trash", "trash_list", "trash_mark", "untrash", "restore", "purge", "unlink", "del_ref",
   "del_count", "del_blob", "undo_incr", "reap", "batch_delete", "move", "batch_tag", "set_tags", "copy_ref", "walk", "pack", "ancestors", "dir_size", "stat",
   "stat_blob", "usage", "show_trash", "scan_blobs", "scan_path", "scan_counts", "scan_count"}

LEMMA HarmlessIsGood ==
  ASSUME NEW K, NEW q, NEW l, NEW i, IsItem(i), i.do \in Harmless PROVE Good(K, q, l, i)
BY DEF Harmless, Good

LEMMA ItemsAreItems ==
  ASSUME NEW do, NEW id, NEW x
  PROVE  /\ IsItem(Item(do, id)) /\ Item(do, id).do = do /\ Item(do, id).id = id
         /\ IsItem(ItemAt(do, id, x)) /\ ItemAt(do, id, x).do = do
         /\ ItemAt(do, id, x).id = id /\ ItemAt(do, id, x).at = x
         /\ IsItem(ItemFor(do, id, x)) /\ ItemFor(do, id, x).do = do
         /\ ItemFor(do, id, x).id = id /\ ItemFor(do, id, x).arg = x
BY DEF IsItem, Item, ItemAt, ItemFor

\* A worker goes on with one item, or with a list of harmless ones.
LEMMA ThenOneFits ==
  ASSUME NEW K, Fits(K), TableFits(K)', Still,
         NEW r \in Workers, jobs[r] # <<>>, Now(r).do \notin Special,
         NEW i, Good(K, request[r], notes[r], i), Then(r, <<i>>)
  PROVE  Fits(K)'
<1> DEFINE T == {i} items == <<i>>
<1>1. items \in Seq(T) /\ \A j \in T : Good(K, request[r], notes[r], j)
  OBVIOUS
<1>2. Then(r, items)
  OBVIOUS
<1> HIDE DEF T, items
<1> QED BY <1>1, <1>2, ThenFits

LEMMA ThenHarmlessFits ==
  ASSUME NEW K, Fits(K), TableFits(K)', Still,
         NEW r \in Workers, jobs[r] # <<>>, Now(r).do \notin Special,
         NEW i, IsItem(i), i.do \in Harmless, Then(r, <<i>>)
  PROVE  Fits(K)'
BY HarmlessIsGood, ThenOneFits

-----------------------------------------------------------------------------
(* Directories.                                                            *)

LEMMA TrashFits ==
  ASSUME NEW K, Fits(K), Still, NEW r \in Workers,
         Trash(r) \/ TrashList(r) \/ TrashMark(r) \/ BatchDelete(r)
  PROVE  Fits(K)'
<1>1. TableFits(K)
  BY DEF Fits
<1>2. ASSUME NEW f, NEW at
      PROVE  IsItem(TrashTree(f, at)) /\ TrashTree(f, at).do \in Harmless
  BY ItemsAreItems DEF TrashTree, Harmless
<1>3. CASE Trash(r)
  <2>1. jobs[r] # <<>> /\ Now(r).do \notin Special /\ TableFits(K)'
    BY <1>1, <1>3, ReadFits DEF Trash, At, Special, Read, tableVars
  <2>2. \/ Then(r, <<TrashTree(Now(r).id, clock)>>)
        \/ \E code : Fail(r, code)
    BY <1>3 DEF Trash
  <2> QED BY <1>2, <2>1, <2>2, ThenHarmlessFits, FailFits
<1>4. CASE TrashList(r)
  <2> DEFINE rows == ListChildren(Now(r).id)
             items == Each(rows, LAMBDA f : TrashTree(f, Now(r).arg))
             last == [Now(r) EXCEPT !.do = "trash_mark"]
             T == {TrashTree(f, Now(r).arg) : f \in DOMAIN files} \cup {last}
  <2>1. jobs[r] # <<>> /\ Now(r).do \notin Special /\ TableFits(K)'
    BY <1>1, <1>4, ReadFits DEF TrashList, At, Special, Read, tableVars
  <2>2. IsItem(last) /\ last.do \in Harmless
    BY <2>1, PlainWorks, GoodIsItem DEF IsItem, Harmless
  <2>3. \A i \in T : Good(K, request[r], notes[r], i)
    BY <1>2, <2>2, HarmlessIsGood
  <2>4. items \in Seq(T)
    <3>1. rows \in Seq(DOMAIN files)
      BY <1>1, ChildrenAreRows
    <3> HIDE DEF rows
    <3> QED BY <3>1 DEF Each
  <2>5. Then(r, items \o <<last>>)
    BY <1>4 DEF TrashList
  <2> HIDE DEF items, T
  <2>6. items \o <<last>> \in Seq(T)
    <3>1. last \in T
      BY DEF T
    <3> HIDE DEF last
    <3> QED BY <2>4, <3>1
  <2> QED BY <2>1, <2>3, <2>5, <2>6, ThenFits
<1>5. CASE TrashMark(r)
  <2>1. jobs[r] # <<>> /\ Now(r).do \notin Special
    BY <1>5 DEF TrashMark, At, Special
  <2>2. CASE Live(Now(r).id)
    <3> DEFINE f == Now(r).id row == [files[f] EXCEPT !.trashed = Now(r).arg]
    <3>1. f \in DOMAIN files /\ RowFits(K, f, row)
      BY <1>1, <2>2 DEF Live, TableFits, RowFits, IsRow
    <3>2. FilesOnly(Updated(f, row)) /\ Done(r)
      BY <1>5, <2>2 DEF TrashMark, MoveFileToTrash
    <3> HIDE DEF f, row
    <3> QED BY <1>1, <2>1, <3>1, <3>2, UpdateFits, DoneFits
  <2>3. CASE ~Live(Now(r).id)
    <3>1. Fail(r, 404) /\ TableFits(K)'
      BY <1>1, <1>5, <2>3, ReadFits DEF TrashMark, Read, tableVars
    <3> QED BY <2>1, <3>1, FailFits
  <2> QED BY <2>2, <2>3
<1>6. CASE BatchDelete(r)
  <2>1. jobs[r] # <<>> /\ Now(r).do \notin Special /\ TableFits(K)'
    BY <1>1, <1>6, ReadFits DEF BatchDelete, At, Special, Read, tableVars
  <2>2. \/ Then(r, <<Item("trash", Now(r).id)>>)
        \/ \E code : Fail(r, code)
    BY <1>6 DEF BatchDelete
  <2>3. IsItem(Item("trash", Now(r).id)) /\ Item("trash", Now(r).id).do \in Harmless
    BY ItemsAreItems DEF Harmless
  <2> QED BY <2>1, <2>2, <2>3, ThenHarmlessFits, FailFits
<1> QED BY <1>3, <1>4, <1>5, <1>6

LEMMA UntrashingIsGood ==
  ASSUME NEW K, TableFits(K), NEW f, NEW space, NEW q, NEW l
  PROVE  \E T : Untrashing(f, space) \in Seq(T) /\ \A i \in T : Good(K, q, l, i)
<1> DEFINE T == {Item("untrash", TrashTreeByID(f, space)[n]) : n \in DOMAIN TrashTreeByID(f, space)}
<1>1. Len(TrashTreeByID(f, space)) \in Nat
      /\ DOMAIN TrashTreeByID(f, space) = 1 .. Len(TrashTreeByID(f, space))
  <2> DEFINE Under(g) == Those(ListTrash(space), LAMBDA c : files[c].parent = g)
             Further(seen) == seen \o Those(FlattenSeq(Each(seen, Under)), LAMBDA c : c \notin Range(seen))
             Wave[n \in 0 .. MaxRows] == IF n = 0 THEN <<f>> ELSE Further(Wave[n - 1])
             found == Wave[Cardinality(DOMAIN files)]
             n == Cardinality(DOMAIN files \cap Range(found))
  <2>1. TrashTreeByID(f, space) = [i \in 1 .. n |-> found[i]]
    BY DEF TrashTreeByID
  <2> HIDE DEF found
  <2>2. n \in Nat
    BY TablesAreFinite, FS_CardinalityType
  <2> HIDE DEF n
  <2> QED BY <2>1, <2>2
<1>2. Untrashing(f, space) \in Seq(T)
  <2> HIDE DEF T
  <2>1. \A n \in 1 .. Len(TrashTreeByID(f, space)) : Item("untrash", TrashTreeByID(f, space)[n]) \in T
    BY <1>1 DEF T
  <2> QED BY <1>1, <2>1 DEF Untrashing, Each
<1>3. \A i \in T : Good(K, q, l, i)
  BY ItemsAreItems, HarmlessIsGood DEF Harmless
<1> QED BY <1>2, <1>3

\* What deletes a row relies on the row.
LEMMA DeletingIsGood ==
  ASSUME NEW K, NEW q, NEW l, NEW f, NEW row, RowFits(K, f, row), NEW space
  PROVE  Good(K, q, l, Deleting(f, row, space))
<1> DEFINE i == Deleting(f, row, space)
<1>1. i.do \in {"del_list", "del_row"} /\ IsItem(i) /\ i.id = f /\ i.arg = row
  <2> DEFINE do == IF row.dir THEN "del_list" ELSE "del_row"
  <2>1. do \in {"del_list", "del_row"}
    OBVIOUS
  <2>2. i = [Item(do, f) EXCEPT !.at = space, !.arg = row]
    BY DEF Deleting
  <2> HIDE DEF do, i
  <2> QED BY <2>1, <2>2 DEF Item, IsItem
<1> HIDE DEF i
<1>2. Good(K, q, l, i)
  BY <1>1 DEF Good
<1> QED BY <1>2 DEF i

LEMMA RestoreFits ==
  ASSUME NEW K, Fits(K), Still, NEW r \in Workers,
         RestoreFromTrash(r) \/ Untrash(r) \/ PurgeFromTrash(r)
  PROVE  Fits(K)'
<1> DEFINE f == Now(r).id space == Now(r).arg
<1>1. TableFits(K)
  BY DEF Fits
<1>2. CASE RestoreFromTrash(r)
  <2>1. jobs[r] # <<>> /\ Now(r).do \notin Special /\ TableFits(K)'
    BY <1>1, <1>2, ReadFits DEF RestoreFromTrash, At, Special, Read, tableVars
  <2>2. Then(r, Untrashing(f, space)) \/ Fail(r, 404)
    BY <1>2 DEF RestoreFromTrash
  <2> HIDE DEF f, space
  <2>3. CASE Then(r, Untrashing(f, space))
    <3>1. PICK T : Untrashing(f, space) \in Seq(T) /\ \A i \in T : Good(K, request[r], notes[r], i)
      BY <1>1, UntrashingIsGood
    <3> QED BY <2>1, <2>3, <3>1, ThenFits
  <2> QED BY <2>1, <2>2, <2>3, FailFits
<1>3. CASE Untrash(r)
  <2>1. jobs[r] # <<>> /\ Now(r).do \notin Special
    BY <1>3 DEF Untrash, At, Special
  <2>2. CASE f \in DOMAIN files /\ ~Live(f)
    <3> DEFINE row == [files[f] EXCEPT !.trashed = 0]
    <3>1. f \in DOMAIN files /\ RowFits(K, f, row)
      BY <1>1, <2>2 DEF TableFits, RowFits, IsRow
    <3>2. FilesOnly(Updated(f, row)) /\ Done(r)
      BY <1>3, <2>2 DEF Untrash, RestoreFile
    <3> HIDE DEF f, row
    <3> QED BY <1>1, <2>1, <3>1, <3>2, UpdateFits, DoneFits
  <2>3. CASE ~(f \in DOMAIN files /\ ~Live(f))
    <3>1. Fail(r, 404) /\ TableFits(K)'
      BY <1>1, <1>3, <2>3, ReadFits DEF Untrash, Read, tableVars
    <3> QED BY <2>1, <3>1, FailFits
  <2> QED BY <2>2, <2>3
<1>4. CASE PurgeFromTrash(r)
  <2>1. jobs[r] # <<>> /\ Now(r).do \notin Special /\ TableFits(K)'
    BY <1>1, <1>4, ReadFits DEF PurgeFromTrash, At, Special, Read, tableVars
  <2>2. CASE ~InTrash(f, space)
    <3>1. Fail(r, 404)
      BY <1>4, <2>2 DEF PurgeFromTrash
    <3> QED BY <2>1, <3>1, FailFits
  <2>3. CASE InTrash(f, space)
    <3> DEFINE del == Deleting(f, files[f], space)
               end == ItemFor("unlink", f, files[f].dir)
               first == Untrashing(f, space)
               l == [notes[r] EXCEPT !.undo = <<>>, !.pending = <<>>]
    <3>1. f \in DOMAIN files
      <4>1. ListTrash(space) \in Seq(DOMAIN files)
        BY <1>1, TrashIsRows
      <4> QED BY <4>1, <2>3 DEF InTrash, Range
    <3>2. LocalsFit(K, request[r], l) /\ l.made = notes[r].made
      <4>1. LocalsFit(K, request[r], notes[r])
        BY <2>1, PlainWorks
      <4>2. l = [status |-> notes[r].status, undo |-> <<>>, pending |-> <<>>,
                 made |-> notes[r].made, found |-> notes[r].found, sent |-> notes[r].sent]
        <5>1. ASSUME NEW n, NEW none, NEW m, m = [n EXCEPT !.undo = none, !.pending = none],
                     n = [status |-> n.status, undo |-> n.undo, pending |-> n.pending,
                          made |-> n.made, found |-> n.found, sent |-> n.sent]
              PROVE  m = [status |-> n.status, undo |-> none, pending |-> none,
                          made |-> n.made, found |-> n.found, sent |-> n.sent]
          BY <5>1
        <5> QED BY <5>1, <4>1 DEF LocalsFit
      <4>3. IsList(<<>>) /\ Range(<<>>) = {}
        BY DEF IsList, Range
      <4> HIDE DEF l
      <4>4. IsList(l.undo) /\ Range(l.undo) = {}
        BY <4>2, <4>3
      <4> QED BY <4>1, <4>2, <4>4 DEF LocalsFit
    <3>3. ThenNoting(r, first \o <<del, end>>, l)
      BY <1>4, <2>3 DEF PurgeFromTrash
    <3> HIDE DEF l
    <3>4. PICK T : first \in Seq(T) /\ \A i \in T : Good(K, request[r], l, i)
      BY <1>1, UntrashingIsGood
    <3>5. Good(K, request[r], l, del)
      BY <1>1, <3>1, DeletingIsGood DEF TableFits
    <3>6. Good(K, request[r], l, end)
      BY ItemsAreItems, HarmlessIsGood DEF Harmless
    <3> HIDE DEF del, end, first
    <3> DEFINE U == T \cup {del, end} items == first \o <<del, end>>
    <3>7. \A i \in U : Good(K, request[r], l, i)
      BY <3>4, <3>5, <3>6
    <3>8. items \in Seq(U)
      <4>1. first \in Seq(U) /\ <<del, end>> \in Seq(U)
        BY <3>4
      <4> HIDE DEF U
      <4> QED BY <4>1
    <3>9. Goes(r, items) /\ notes' = [notes EXCEPT ![r] = l] /\ request' = request
      BY <3>3 DEF ThenNoting
    <3>10. Extends(K, K)
      BY DEF Extends
    <3> HIDE DEF U, items
    <3> QED BY <2>1, <3>2, <3>7, <3>8, <3>9, <3>10, GoesFits
  <2> QED BY <2>2, <2>3
<1> QED BY <1>2, <1>3, <1>4

\* New locals, and items that may rely on them.
LEMMA NotingFits ==
  ASSUME NEW K, Fits(K), TableFits(K)', Still,
         NEW r \in Workers, jobs[r] # <<>>, Now(r).do \notin Special,
         NEW l, LocalsFit(K, request[r], l), l.made = notes[r].made,
         NEW T, NEW items \in Seq(T), \A i \in T : Good(K, request[r], l, i),
         ThenNoting(r, items, l)
  PROVE  Fits(K)'
<1>1. Goes(r, items) /\ notes' = [notes EXCEPT ![r] = l] /\ request' = request
  BY DEF ThenNoting
<1>2. Extends(K, K)
  BY DEF Extends
<1> QED BY <1>1, <1>2, GoesFits

LEMMA NotingNothingFits ==
  ASSUME NEW K, Fits(K), TableFits(K)', Still,
         NEW r \in Workers, jobs[r] # <<>>, Now(r).do \notin Special,
         NEW l, LocalsFit(K, request[r], l), l.made = notes[r].made, ThenNoting(r, <<>>, l)
  PROVE  Fits(K)'
<1> DEFINE T == AllItems(jobs[r])
<1>1. \A i \in T : Good(K, request[r], l, i)
  <2>1. Extends(K, K)
    BY DEF Extends
  <2> QED BY <2>1, PlainWorks, GoodKept DEF Working
<1>2. <<>> \in Seq(T)
  OBVIOUS
<1> HIDE DEF T
<1> QED BY <1>1, <1>2, NotingFits

LEMMA NotingOneFits ==
  ASSUME NEW K, Fits(K), TableFits(K)', Still,
         NEW r \in Workers, jobs[r] # <<>>, Now(r).do \notin Special,
         NEW l, LocalsFit(K, request[r], l), l.made = notes[r].made,
         NEW i, Good(K, request[r], l, i), ThenNoting(r, <<i>>, l)
  PROVE  Fits(K)'
<1> DEFINE T == {i} items == <<i>>
<1>1. items \in Seq(T) /\ \A j \in T : Good(K, request[r], l, j)
  OBVIOUS
<1>2. ThenNoting(r, items, l)
  OBVIOUS
<1> HIDE DEF T, items
<1> QED BY <1>1, <1>2, NotingFits

LEMMA DeletionFits ==
  ASSUME NEW K, Fits(K), Still, NEW r \in Workers,
         DeleteList(r) \/ DeleteRow(r)
  PROVE  Fits(K)'
<1> DEFINE f == Now(r).id row == Now(r).arg
<1>1. TableFits(K)
  BY DEF Fits
<1>2. CASE DeleteList(r)
  <2> DEFINE space == Now(r).at
             rows == ListChildren(f)
             dels == Each(rows, LAMBDA g : Deleting(g, files[g], space))
             last == ItemFor("del_row", f, row)
             items == dels \o <<last>>
             T == {Deleting(g, files[g], space) : g \in DOMAIN files} \cup {last}
  <2>1. jobs[r] # <<>> /\ Now(r).do = "del_list" /\ Now(r).do \notin Special /\ TableFits(K)'
    BY <1>1, <1>2, ReadFits DEF DeleteList, At, Special, Read, tableVars
  <2>2. Rollback(r, 403) \/ Then(r, items)
    BY <1>2 DEF DeleteList
  <2>3. \A i \in T : Good(K, request[r], notes[r], i)
    <3>1. RowFits(K, f, row)
      BY <2>1, PlainWorks DEF Good
    <3>2. Good(K, request[r], notes[r], last)
      BY <3>1, ItemsAreItems DEF Good
    <3>3. \A g \in DOMAIN files : Good(K, request[r], notes[r], Deleting(g, files[g], space))
      BY <1>1, DeletingIsGood DEF TableFits
    <3> HIDE DEF last
    <3> QED BY <3>2, <3>3
  <2>4. items \in Seq(T)
    <3>1. rows \in Seq(DOMAIN files)
      BY <1>1, ChildrenAreRows
    <3>2. dels \in Seq(T)
      <4> HIDE DEF rows
      <4> QED BY <3>1 DEF Each
    <3>3. last \in T
      OBVIOUS
    <3> HIDE DEF dels, T, last
    <3> QED BY <3>2, <3>3
  <2> HIDE DEF items, T
  <2> QED BY <2>1, <2>2, <2>3, <2>4, RollbackFits, ThenFits
<1>3. CASE DeleteRow(r)
  <2> DEFINE undo == ItemFor("undo_put", f, row)
             ref == ItemFor("del_ref", f, row.sha)
             l == [notes[r] EXCEPT !.undo = Append(@, undo)]
  <2>1. jobs[r] # <<>> /\ Now(r).do = "del_row" /\ Now(r).do \notin Special
    BY <1>3 DEF DeleteRow, At, Special
  <2>2. TableFits(K)'
    BY <1>1, <1>3, DeleteFits DEF DeleteRow
  <2>3. RowFits(K, f, row) /\ LocalsFit(K, request[r], notes[r])
    BY <2>1, PlainWorks DEF Good
  <2>0. undo.do = "undo_put" /\ undo.id = f /\ undo.arg = row /\ IsItem(undo)
    BY ItemsAreItems
  <2>4. undo.do = "undo_put" /\ Good(K, request[r], notes[r], undo)
    <3> HIDE DEF undo
    <3> QED BY <2>0, <2>3 DEF Good
  <2>5. ThenNoting(r, IF row.dir THEN <<>> ELSE <<ref>>, l)
    BY <1>3 DEF DeleteRow, Undoable
  <2>6. Good(K, request[r], l, ref)
    BY ItemsAreItems, HarmlessIsGood DEF Harmless
  <2> HIDE DEF undo, ref
  <2>7. LocalsFit(K, request[r], l) /\ l.made = notes[r].made
    BY <2>3, <2>4, UndoFits
  <2> HIDE DEF l, row, f
  <2>8. CASE row.dir
    BY <2>1, <2>2, <2>5, <2>7, <2>8, NotingNothingFits
  <2>9. CASE ~row.dir
    BY <2>1, <2>2, <2>5, <2>6, <2>7, <2>9, NotingOneFits
  <2> QED BY <2>8, <2>9
<1> QED BY <1>2, <1>3

LEMMA ReferenceFits ==
  ASSUME NEW K, Fits(K), Still, NEW r \in Workers,
         \/ DeleteReference(r) \/ DeleteCount(r) \/ DeferUnlink(r) \/ UnlinkPending(r)
         \/ UndoPut(r) \/ UndoDecr(r)
  PROVE  Fits(K)'
<1>1. TableFits(K)
  BY DEF Fits
<1>2. CASE DeleteReference(r)
  <2> DEFINE next == [Now(r) EXCEPT !.do = "del_count"]
  <2>1. jobs[r] # <<>> /\ Now(r).do \notin Special /\ TableFits(K)'
    BY <1>1, <1>2, RefsFit DEF DeleteReference, At, Special
  <2>2. Then(r, <<next>>)
    BY <1>2 DEF DeleteReference
  <2>3. IsItem(next) /\ next.do \in Harmless
    BY <2>1, PlainWorks, GoodIsItem DEF IsItem, Harmless
  <2> HIDE DEF next
  <2> QED BY <2>1, <2>2, <2>3, ThenHarmlessFits
<1>3. CASE DeleteCount(r)
  <2> DEFINE undo == [Now(r) EXCEPT !.do = "undo_incr"]
             next == [Now(r) EXCEPT !.do = "del_blob"]
             l == [notes[r] EXCEPT !.undo = Append(@, undo)]
             last == blobs[Now(r).arg].refs = 0
  <2>1. jobs[r] # <<>> /\ Now(r).do \notin Special /\ TableFits(K)'
    BY <1>1, <1>3, ReadFits DEF DeleteCount, At, Special, Read, tableVars
  <2>2. ThenNoting(r, IF last THEN <<next>> ELSE <<>>, l)
    BY <1>3 DEF DeleteCount, Undoable
  <2>3. /\ IsItem(next) /\ next.do \in Harmless
        /\ IsItem(undo) /\ undo.do \in Harmless /\ undo.do = "undo_incr"
    BY <2>1, PlainWorks, GoodIsItem DEF IsItem, Harmless
  <2> HIDE DEF undo, next
  <2>4. LocalsFit(K, request[r], l) /\ l.made = notes[r].made
    BY <2>1, <2>3, PlainWorks, HarmlessIsGood, UndoFits
  <2>5. Good(K, request[r], l, next)
    BY <2>3, HarmlessIsGood
  <2> HIDE DEF l, last
  <2>6. CASE last
    BY <2>1, <2>2, <2>4, <2>5, <2>6, NotingOneFits
  <2>7. CASE ~last
    BY <2>1, <2>2, <2>4, <2>7, NotingNothingFits
  <2> QED BY <2>6, <2>7
<1>4. CASE DeferUnlink(r)
  <2> DEFINE blob == GetBlobBySha(Now(r).arg)
             pending == Append(notes[r].pending, blob.path)
             l == [notes[r] EXCEPT !.pending = pending]
  <2>1. jobs[r] # <<>> /\ Now(r).do \notin Special /\ TableFits(K)'
    BY <1>1, <1>4, ReadFits DEF DeferUnlink, At, Special, Read, tableVars
  <2>2. Done(r) \/ ThenNoting(r, <<>>, l)
    BY <1>4 DEF DeferUnlink
  <2>3. LocalsFit(K, request[r], l) /\ l.made = notes[r].made
    <3>1. LocalsFit(K, request[r], notes[r])
      BY <2>1, PlainWorks
    <3> HIDE DEF pending
    <3> QED BY <3>1, PendingFits
  <2> HIDE DEF l
  <2> QED BY <2>1, <2>2, <2>3, DoneFits, NotingNothingFits
<1>5. CASE UnlinkPending(r)
  <2> DEFINE rest == Tail(notes[r].pending)
             l == [notes[r] EXCEPT !.pending = rest]
  <2>1. jobs[r] # <<>> /\ Now(r).do = "unlink" /\ Now(r).do \notin Special
    BY <1>5 DEF UnlinkPending, At, Special
  <2>2. TableFits(K)' /\ (Done(r) \/ ThenNoting(r, <<Now(r)>>, l))
    BY <1>1, <1>5, ReadFits, ObjectFits DEF UnlinkPending, Read, tableVars
  <2>3. LocalsFit(K, request[r], l) /\ l.made = notes[r].made
    <3>1. LocalsFit(K, request[r], notes[r])
      BY <2>1, PlainWorks
    <3> HIDE DEF rest
    <3> QED BY <3>1, PendingFits
  <2>4. Good(K, request[r], l, Now(r))
    BY <2>1, PlainWorks, HarmlessIsGood DEF Good, Harmless
  <2> HIDE DEF l
  <2> QED BY <2>1, <2>2, <2>3, <2>4, DoneFits, NotingOneFits
<1>6. CASE UndoPut(r)
  <2> DEFINE f == Now(r).id
  <2>1. jobs[r] # <<>> /\ Now(r).do = "undo_put" /\ Now(r).do \notin Special /\ Done(r)
    BY <1>6 DEF UndoPut, At, Special
  <2>2. RowFits(K, f, Now(r).arg)
    BY <2>1, PlainWorks DEF Good
  <2>3. TableFits(K)'
    <3>1. CASE f \in DOMAIN files
      BY <1>1, <1>6, <3>1, ReadFits DEF UndoPut, Read, tableVars
    <3>2. CASE f \notin DOMAIN files
      <4>1. FilesOnly(PutFile(f, Now(r).arg))
        BY <1>6, <3>2 DEF UndoPut
      <4> QED BY <1>1, <2>2, <4>1, PutBackFits
    <3> QED BY <3>1, <3>2
  <2> QED BY <2>1, <2>3, DoneFits
<1>7. CASE UndoDecr(r)
  <2>1. jobs[r] # <<>> /\ Now(r).do \notin Special /\ Done(r) /\ TableFits(K)'
    BY <1>1, <1>7, RefsFit DEF UndoDecr, At, Special
  <2> QED BY <2>1, DoneFits
<1> QED BY <1>2, <1>3, <1>4, <1>5, <1>6, <1>7

\* The janitor's purges are jobs of their own.
LEMMA ReapFits ==
  ASSUME NEW K, Fits(K), Still, NEW r \in Workers, NEW store, Reap(r, store)
  PROVE  Fits(K)'
<1> DEFINE purge(f) == ItemFor("purge", f, files[f].space)
           T == {purge(f) : f \in DOMAIN files}
           due == Those(ListAllFiles, ExpiredRoot)
           js == Overdue(store, ExpiredRoot)
<1>1. jobs' = [jobs EXCEPT ![r] = js] /\ request' = request /\ notes' = notes
  BY DEF Reap
<1>2. TableFits(K) /\ TableFits(K)'
  BY ReadFits DEF Reap, Read, tableVars, Fits
<1>3. due \in Seq(DOMAIN files)
  <2>1. ListAllFiles \in Seq(DOMAIN files)
    BY <1>2, AllFilesAreRows
  <2>2. {i \in DOMAIN ListAllFiles : ExpiredRoot(ListAllFiles[i])} \in SUBSET DOMAIN ListAllFiles
    OBVIOUS
  <2> QED BY <2>1, <2>2, ChosenIsList DEF Those, InOrder
<1>4. JobsOf(Each(due, LAMBDA f : <<purge(f)>>), T)
  <2> HIDE DEF due
  <2>1. \A f \in DOMAIN files : <<purge(f)>> \in Seq(T) \ {<<>>}
    <3> HIDE DEF purge
    <3> QED OBVIOUS
  <2> HIDE DEF T, purge
  <2>2. Each(due, LAMBDA f : <<purge(f)>>) \in Seq(Seq(T) \ {<<>>})
    BY <1>3, <2>1 DEF Each
  <2> QED BY <2>2 DEF JobsOf
<1>5. \A i \in T : Good(K, request[r], notes[r], i)
  BY ItemsAreItems, HarmlessIsGood DEF Harmless
<1>6. Working(K, request[r], notes[r], js)
  <2>1. CASE ListAllFilesFails(store)
    BY <2>1, NothingWorks DEF Overdue
  <2>2. CASE ~ListAllFilesFails(store)
    <3>1. js = Each(due, LAMBDA f : <<purge(f)>>)
      BY <2>2 DEF Overdue
    <3> HIDE DEF js, T, due
    <3> QED BY <1>4, <1>5, <3>1, WorkingIf
  <2> QED BY <2>1, <2>2
<1> HIDE DEF js
<1> QED BY <1>1, <1>2, <1>6, EndFits

\* A worker at its target has nothing but moves or copies before it.
LEMMA TargetWorks ==
  ASSUME NEW K, Fits(K), NEW r \in Workers, jobs[r] # <<>>, Now(r).do = "target"
  PROVE  Targeting(jobs[r]) /\ Head(jobs[r]) = <<Item("target", None)>>
<1>1. ~Working(K, request[r], notes[r], jobs[r])
  <2>1. ASSUME Working(K, request[r], notes[r], jobs[r]) PROVE FALSE
    BY <2>1, NowIsGood, GoodIsItem DEF Now
  <2> QED BY <2>1
<1>2. ~Validating(K, request[r], jobs[r])
  BY ChecksComeFirst DEF Now
<1>3. Targeting(jobs[r])
  BY <1>1, <1>2 DEF Fits, WorkFits
<1> QED BY <1>3, ChecksComeFirst

LEMMA TargetFits ==
  ASSUME NEW K, Fits(K), Still, NEW r \in Workers, CheckTarget(r)
  PROVE  Fits(K)'
<1> DEFINE to == request[r].to space == request[r].space
<1>1. TableFits(K) /\ TableFits(K)' /\ jobs[r] # <<>> /\ Now(r).do = "target"
  BY ReadFits DEF CheckTarget, Read, tableVars, Fits, At
<1>2. (Inside(K, to, space) /\ Done(r)) \/ \E code : Refuse(r, code)
  <2>1. CASE to = None
    <3>1. Done(r)
      BY <2>1 DEF CheckTarget
    <3> QED BY <2>1, <3>1 DEF Inside
  <2>2. CASE to # None /\ Verdict(to, space) # 200
    <3>1. Refuse(r, Verdict(to, space))
      BY <2>2 DEF CheckTarget
    <3> QED BY <3>1
  <2>3. CASE to # None /\ Verdict(to, space) = 200
    <3>1. to \in DOMAIN files /\ files[to].space = space
      BY <2>3, FoundIsLive
    <3>2. IF files[to].dir THEN Done(r) ELSE Refuse(r, 400)
      BY <2>3 DEF CheckTarget
    <3>3. RowFits(K, to, files[to])
      BY <1>1, <3>1 DEF TableFits
    <3> HIDE DEF to, space
    <3>4. files[to].dir => Inside(K, to, space)
      BY <3>1, <3>3 DEF RowFits, Inside, IsDir, Held
    <3> QED BY <3>2, <3>4
  <2> QED BY <2>1, <2>2, <2>3
<1>3. ASSUME Inside(K, to, space), Done(r) PROVE Fits(K)'
  <2> DEFINE js == Tail(jobs[r])
  <2>1. Targeting(jobs[r]) /\ Head(jobs[r]) = <<Item("target", None)>>
    BY <1>1, TargetWorks
  <2>2. Working(K, request[r], notes[r], js)
    <3>1. \A i \in AllItems(js) : Good(K, request[r], notes[r], i)
      BY <1>3, <2>1 DEF Targeting, Good
    <3> QED BY <3>1, <2>1 DEF Working, Targeting
  <2>3. <<>> \o Tail(Head(jobs[r])) = <<>>
    <3>1. ASSUME NEW x PROVE <<>> \o Tail(<<x>>) = <<>>
      OBVIOUS
    <3> QED BY <2>1, <3>1
  <2>4. jobs' = [jobs EXCEPT ![r] = js] /\ request' = request /\ notes' = notes
    BY <1>3, <2>3 DEF Done, Then, Goes, Leaves
  <2> HIDE DEF js
  <2> QED BY <1>1, <2>2, <2>4, EndFits
<1> HIDE DEF to, space
<1> QED BY <1>1, <1>2, <1>3, RefuseFits

\* The walk up from the target is about the row that moves, and starts at a
\* directory of its namespace.
LEMMA ClimbIsGood ==
  ASSUME NEW K, NEW q, NEW l, NEW f, Held(K, f, q.space), Inside(K, q.to, q.space),
         NEW current, NEW seen
  PROVE  \E i : Climb(f, current, seen) = <<i>> /\ Good(K, q, l, i)
<1> DEFINE p == files[current].parent
           set == Item("set_parent", f)
           next == [Item("climb", f) EXCEPT !.at = p, !.arg = seen]
<1>1. Climb(f, current, seen) = IF p = None THEN <<set>> ELSE <<next>>
  BY DEF Climb
<1>2. Good(K, q, l, set)
  BY ItemsAreItems DEF Good
<1>3. Good(K, q, l, next)
  <2>1. IsItem(next) /\ next.do = "climb" /\ next.id = f
    <3>1. ASSUME NEW i, i = [Item("climb", f) EXCEPT !.at = p, !.arg = seen]
          PROVE  IsItem(i) /\ i.do = "climb" /\ i.id = f
      <4> HIDE DEF p
      <4> QED BY <3>1 DEF Item, IsItem
    <3> QED BY <3>1
  <2> HIDE DEF next
  <2> QED BY <2>1 DEF Good
<1> HIDE DEF p, set, next
<1> QED BY <1>1, <1>2, <1>3

LEMMA MoveFits ==
  ASSUME NEW K, Fits(K), Still, NEW r \in Workers,
         MoveFile(r) \/ MoveInto(r) \/ ClimbOn(r) \/ SetParent(r)
  PROVE  Fits(K)'
<1> DEFINE f == Now(r).id q == request[r] to == request[r].to space == request[r].space
<1>1. TableFits(K)
  BY DEF Fits
<1>2. ASSUME NEW g, Verdict(g, space) = 200
      PROVE  Held(K, g, space) /\ (files[g].dir => IsDir(K, g, space))
  <2>1. g \in DOMAIN files /\ files[g].space = space
    BY <1>2, FoundIsLive
  <2>2. RowFits(K, g, files[g])
    BY <1>1, <2>1 DEF TableFits
  <2> QED BY <2>1, <2>2 DEF RowFits, IsDir, Held
<1>3. CASE MoveFile(r)
  <2>1. jobs[r] # <<>> /\ Now(r).do \notin Special /\ TableFits(K)'
    BY <1>1, <1>3, ReadFits DEF MoveFile, At, Special, Read, tableVars
  <2>2. \/ \E code : Fail(r, code)
        \/ Verdict(f, space) = 200 /\ to = None /\ Then(r, <<Item("set_parent", f)>>)
        \/ Verdict(f, space) = 200 /\ Then(r, <<Item("move_into", f)>>)
    BY <1>3 DEF MoveFile
  <2>3. ASSUME Verdict(f, space) = 200, to = None
        PROVE  Good(K, q, notes[r], Item("set_parent", f))
    BY <1>2, <2>3, ItemsAreItems DEF Good, Inside
  <2>4. ASSUME Verdict(f, space) = 200 PROVE Good(K, q, notes[r], Item("move_into", f))
    BY <1>2, <2>4, ItemsAreItems DEF Good
  <2> QED BY <2>1, <2>2, <2>3, <2>4, FailFits, ThenOneFits
<1>4. CASE MoveInto(r)
  <2>1. jobs[r] # <<>> /\ Now(r).do = "move_into" /\ Now(r).do \notin Special /\ TableFits(K)'
    BY <1>1, <1>4, ReadFits DEF MoveInto, At, Special, Read, tableVars
  <2>2. \/ \E code : Fail(r, code)
        \/ Verdict(to, space) = 200 /\ files[to].dir /\ Then(r, Climb(f, to, {to}))
    BY <1>4 DEF MoveInto
  <2>3. ASSUME Verdict(to, space) = 200, files[to].dir, Then(r, Climb(f, to, {to}))
        PROVE  Fits(K)'
    <3>1. Held(K, f, space)
      BY <2>1, PlainWorks DEF Good
    <3>2. Inside(K, to, space)
      BY <1>2, <2>3 DEF Inside
    <3>3. PICK i : Climb(f, to, {to}) = <<i>> /\ Good(K, q, notes[r], i)
      BY <3>1, <3>2, ClimbIsGood
    <3>4. Then(r, <<i>>)
      BY <2>3, <3>3
    <3> QED BY <2>1, <3>3, <3>4, ThenOneFits
  <2> QED BY <2>1, <2>2, <2>3, FailFits
<1>5. CASE ClimbOn(r)
  <2> DEFINE p == Now(r).at seen == Now(r).arg
  <2>1. jobs[r] # <<>> /\ Now(r).do = "climb" /\ Now(r).do \notin Special /\ TableFits(K)'
    BY <1>1, <1>5, ReadFits DEF ClimbOn, At, Special, Read, tableVars
  <2>2. \/ \E code : Fail(r, code)
        \/ Then(r, <<Item("set_parent", f)>>)
        \/ Then(r, Climb(f, p, seen \cup {p}))
    BY <1>5 DEF ClimbOn
  <2>3. Held(K, f, space) /\ Inside(K, to, space)
    BY <2>1, PlainWorks DEF Good
  <2>4. Good(K, q, notes[r], Item("set_parent", f))
    BY <2>3, ItemsAreItems DEF Good
  <2>5. PICK i : Climb(f, p, seen \cup {p}) = <<i>> /\ Good(K, q, notes[r], i)
    BY <2>3, ClimbIsGood
  <2>6. \/ \E code : Fail(r, code)
        \/ Then(r, <<Item("set_parent", f)>>)
        \/ Then(r, <<i>>)
    BY <2>2, <2>5
  <2> QED BY <2>1, <2>4, <2>5, <2>6, FailFits, ThenOneFits
<1>6. CASE SetParent(r)
  <2>1. jobs[r] # <<>> /\ Now(r).do = "set_parent" /\ Now(r).do \notin Special /\ Done(r)
    BY <1>6 DEF SetParent, At, Special
  <2>2. Held(K, f, space) /\ Inside(K, to, space)
    BY <2>1, PlainWorks DEF Good
  <2>3. TableFits(K)'
    <3>1. CASE f \in DOMAIN files
      <4> DEFINE row == [files[f] EXCEPT !.parent = to]
      <4>1. FilesOnly(Updated(f, row))
        BY <1>6, <3>1 DEF SetParent, UpdateFileParent
      <4>2. RowFits(K, f, files[f])
        BY <1>1, <3>1 DEF TableFits
      <4>3. /\ row.space = files[f].space /\ row.dir = files[f].dir /\ row.sha = files[f].sha
            /\ row.parent = to /\ row.name = files[f].name /\ IsRow(row)
        BY <4>2 DEF RowFits, IsRow
      <4> HIDE DEF row, f, to
      <4>4. RowFits(K, f, row)
        BY <2>2, <4>2, <4>3 DEF RowFits, Held
      <4> QED BY <1>1, <3>1, <4>1, <4>4, UpdateFits
    <3>2. CASE f \notin DOMAIN files
      <4>1. files' = files /\ issued' = issued /\ blobs' = blobs /\ objects' = objects
        BY <1>6, <3>2 DEF SetParent, FilesOnly, UpdateFileParent
      <4> QED BY <1>1, <4>1, ReadFits
    <3> QED BY <3>1, <3>2
  <2> QED BY <2>1, <2>3, DoneFits
<1> QED BY <1>3, <1>4, <1>5, <1>6

LEMMA RenameFits ==
  ASSUME NEW K, Fits(K), Still, NEW r \in Workers,
         Rename(r) \/ SetName(r) \/ BatchTag(r) \/ SetTags(r)
  PROVE  Fits(K)'
<1> DEFINE f == Now(r).id
<1>1. TableFits(K)
  BY DEF Fits
<1>2. ASSUME NEW id PROVE IsItem(Item("set_tags", id)) /\ Item("set_tags", id).do \in Harmless
  BY ItemsAreItems DEF Harmless
<1>3. CASE Rename(r)
  <2>1. jobs[r] # <<>> /\ Now(r).do \notin Special /\ TableFits(K)'
    BY <1>1, <1>3, ReadFits DEF Rename, At, Special, Read, tableVars
  <2>2. Then(r, <<Item("set_name", f)>>) \/ \E code : Fail(r, code)
    BY <1>3 DEF Rename
  <2>3. Good(K, request[r], notes[r], Item("set_name", f))
    <3>1. Now(r).do = "rename"
      BY <1>3 DEF Rename, At
    <3>2. request[r].name \in Nat
      BY <2>1, <3>1, PlainWorks DEF Good
    <3> QED BY <3>2, ItemsAreItems DEF Good
  <2> HIDE DEF f
  <2> QED BY <2>1, <2>2, <2>3, ThenOneFits, FailFits
<1>4. CASE BatchTag(r)
  <2>1. jobs[r] # <<>> /\ Now(r).do \notin Special /\ TableFits(K)'
    BY <1>1, <1>4, ReadFits DEF BatchTag, At, Special, Read, tableVars
  <2>2. Then(r, <<Item("set_tags", f)>>) \/ \E code : Fail(r, code)
    BY <1>4 DEF BatchTag
  <2> QED BY <1>2, <2>1, <2>2, ThenHarmlessFits, FailFits
<1>5. CASE SetTags(r)
  <2>1. jobs[r] # <<>> /\ Now(r).do \notin Special /\ Done(r) /\ TableFits(K)'
    BY <1>1, <1>5, ReadFits DEF SetTags, At, Special
  <2> QED BY <2>1, DoneFits
<1>6. CASE SetName(r)
  <2>1. jobs[r] # <<>> /\ Now(r).do \notin Special /\ Done(r)
    BY <1>6 DEF SetName, At, Special
  <2>2. TableFits(K)'
    <3>1. CASE f \in DOMAIN files
      <4> DEFINE name == request[r].name path == <<name>>
                 row == [files[f] EXCEPT !.name = name, !.path = path]
      <4>1. FilesOnly(Updated(f, row))
        BY <1>6, <3>1 DEF SetName, RenameFile
      <4>2. RowFits(K, f, files[f])
        BY <1>1, <3>1 DEF TableFits
      <4>3. /\ row.space = files[f].space /\ row.dir = files[f].dir /\ row.sha = files[f].sha
            /\ row.parent = files[f].parent /\ IsRow(row)
        <5>1. ASSUME NEW n, NEW p, NEW old, IsRow(old),
                     NEW new, new = [old EXCEPT !.name = n, !.path = p]
              PROVE  /\ new.space = old.space /\ new.dir = old.dir /\ new.sha = old.sha
                     /\ new.parent = old.parent /\ IsRow(new)
          BY <5>1 DEF IsRow
        <5> HIDE DEF path
        <5> QED BY <4>2, <5>1 DEF RowFits
      <4>5. row.name \in Nat
        <5>1. Now(r).do = "set_name"
          BY <1>6 DEF SetName, At
        <5>2. name \in Nat
          BY <2>1, <5>1, PlainWorks DEF Good
        <5>3. ASSUME NEW n, NEW p, NEW old, IsRow(old) PROVE [old EXCEPT !.name = n, !.path = p].name = n
          BY <5>3 DEF IsRow
        <5> HIDE DEF path
        <5> QED BY <4>2, <5>2, <5>3 DEF RowFits
      <4> HIDE DEF row
      <4>4. RowFits(K, f, row)
        BY <4>2, <4>3, <4>5 DEF RowFits
      <4> HIDE DEF f
      <4> QED BY <1>1, <3>1, <4>1, <4>4, UpdateFits
    <3>2. CASE f \notin DOMAIN files
      <4>1. files' = files /\ issued' = issued /\ blobs' = blobs /\ objects' = objects
        BY <1>6, <3>2 DEF SetName, FilesOnly, RenameFile
      <4> QED BY <1>1, <4>1, ReadFits
    <3> QED BY <3>1, <3>2
  <2> QED BY <2>1, <2>2, DoneFits
<1> QED BY <1>3, <1>4, <1>5, <1>6

LEMMA DirectoryFits ==
  ASSUME NEW K, Fits(K), Still, NEW r \in Workers, DirectoryStep(r, setup.store)
  PROVE  Fits(K)'
BY TrashFits, RestoreFits, DeletionFits, ReferenceFits, ReapFits, TargetFits, MoveFits, RenameFits
   DEF DirectoryStep

-----------------------------------------------------------------------------
(* Manifests.                                                              *)

LEMMA RemainingShrinks ==
  ASSUME NEW S, NEW entries \in Seq(S), NEW k \in 1 .. Len(entries) + 1
  PROVE  /\ Remaining(entries, k) # <<>>
         /\ k = Len(entries) + 1 => Remaining(entries, k) = <<Item("make_root", None)>>
         /\ k <= Len(entries) => /\ Head(Remaining(entries, k)) = Item("validate", k)
                                 /\ Tail(Remaining(entries, k)) = Remaining(entries, k + 1)
<1>1. Len(entries) \in Nat
  OBVIOUS
<1>2. ASSUME k = Len(entries) + 1 PROVE Remaining(entries, k) = <<Item("make_root", None)>>
  BY <1>1, <1>2 DEF Remaining
<1>3. ASSUME k <= Len(entries)
      PROVE  /\ Remaining(entries, k) # <<>>
             /\ Head(Remaining(entries, k)) = Item("validate", k)
             /\ Tail(Remaining(entries, k)) = Remaining(entries, k + 1)
  <2> DEFINE n == Len(entries) - k + 1
             todo == [i \in 1 .. n |-> Item("validate", i + k - 1)]
             root == Item("make_root", None)
             rest == [i \in 1 .. n - 1 |-> Item("validate", i + (k + 1) - 1)]
             T == {Item("validate", i) : i \in Nat} \cup {root}
  <2>1. n \in Nat \ {0} /\ k \in Nat
    BY <1>1, <1>3
  <2>2. todo \in Seq(T) /\ Len(todo) = n /\ rest \in Seq(T) /\ Len(rest) = n - 1
    <3>1. \A i \in Nat : Item("validate", i) \in T
      OBVIOUS
    <3>2. \A i \in 1 .. n : i + k - 1 \in Nat /\ i + (k + 1) - 1 \in Nat
      BY <2>1
    <3> HIDE DEF T, n
    <3> QED BY <2>1, <3>1, <3>2
  <2>3. \A i \in 1 .. n : todo[i] = Item("validate", i + k - 1)
    OBVIOUS
  <2>4. \A i \in 1 .. n - 1 : rest[i] = Item("validate", i + k)
    BY <2>1
  <2>5. Tail(todo) = rest /\ Head(todo) = Item("validate", k)
    <3>1. Tail(todo) \in Seq(T) /\ Len(Tail(todo)) = n - 1
      <4> HIDE DEF todo, T, n
      <4> QED BY <2>1, <2>2
    <3>2. \A i \in 1 .. n - 1 : Tail(todo)[i] = rest[i]
      <4>1. ASSUME NEW i \in 1 .. n - 1 PROVE Tail(todo)[i] = rest[i]
        <5>1. Tail(todo)[i] = todo[i + 1] /\ i + 1 \in 1 .. n
          <6> HIDE DEF todo, T, n
          <6> QED BY <2>1, <2>2
        <5>2. todo[i + 1] = Item("validate", i + k)
          <6>1. (i + 1) + k - 1 = i + k
            BY <2>1
          <6> HIDE DEF todo
          <6> QED BY <2>3, <5>1, <6>1
        <5> HIDE DEF todo, rest
        <5> QED BY <2>4, <5>1, <5>2
      <4> QED BY <4>1
    <3>3. Head(todo) = todo[1] /\ todo[1] = Item("validate", k)
      <4>1. 1 + k - 1 = k /\ 1 \in 1 .. n
        BY <2>1
      <4> HIDE DEF todo, n
      <4> QED BY <2>1, <2>2, <2>3, <4>1
    <3> HIDE DEF todo, rest, T, n
    <3> QED BY <2>1, <2>2, <3>1, <3>2, <3>3
  <2>6. Remaining(entries, k) = todo \o <<root>> /\ Remaining(entries, k + 1) = rest \o <<root>>
    <3>1. Len(entries) - (k + 1) + 1 = n - 1
      BY <1>1, <2>1
    <3> QED BY <3>1 DEF Remaining
  <2>7. root \in T
    OBVIOUS
  <2> HIDE DEF todo, rest, T, n, root
  <2>8. Head(todo \o <<root>>) = Head(todo) /\ Tail(todo \o <<root>>) = Tail(todo) \o <<root>>
        /\ todo \o <<root>> # <<>>
    BY <2>1, <2>2, <2>7
  <2> QED BY <2>5, <2>6, <2>8
<1>4. CASE k = Len(entries) + 1
  <2>1. ~(k <= Len(entries))
    BY <1>1, <1>4
  <2>2. ASSUME NEW x PROVE <<x>> # <<>>
    OBVIOUS
  <2>3. Remaining(entries, k) # <<>>
    BY <1>2, <1>4, <2>2
  <2> QED BY <1>2, <2>1, <2>3
<1>5. CASE k <= Len(entries)
  BY <1>1, <1>3, <1>5
<1> QED BY <1>1, <1>4, <1>5

\* Where a validation is.
LEMMA ValidatingWorks ==
  ASSUME NEW K, Fits(K), NEW r \in Workers, jobs[r] # <<>>,
         Now(r).do \in {"validate", "make_root"}
  PROVE  /\ LocalsFit(K, request[r], notes[r])
         /\ request[r].arg \in Seq([path : Seq(Nat), file : Nat])
         /\ Validating(K, request[r], jobs[r])
         /\ request[r] \in K.of.requests /\ request[r].op = "submit"
         /\ \E k \in 1 .. Len(request[r].arg) + 1 :
              /\ jobs[r] = <<Remaining(request[r].arg, k)>>
              /\ \A j \in 1 .. k - 1 : IsFile(K, request[r].arg[j].file, request[r].space)
              /\ Now(r).do = "validate" => k <= Len(request[r].arg) /\ Now(r).id = k
              /\ Now(r).do = "make_root" => k = Len(request[r].arg) + 1
<1> DEFINE entries == request[r].arg
<1>1. ~Working(K, request[r], notes[r], jobs[r])
  <2>1. ASSUME Working(K, request[r], notes[r], jobs[r]) PROVE FALSE
    BY <2>1, NowIsGood, GoodIsItem DEF Now
  <2> QED BY <2>1
<1>2. ~Targeting(jobs[r])
  <2>1. Head(<<Item("target", None)>>).do = "target"
    BY DEF Item
  <2> QED BY <2>1, ChecksComeFirst DEF Now
<1>3. Validating(K, request[r], jobs[r]) /\ LocalsFit(K, request[r], notes[r])
  BY <1>1, <1>2 DEF Fits, WorkFits
<1>4. PICK k \in 1 .. Len(entries) + 1 :
        /\ jobs[r] = <<Remaining(entries, k)>>
        /\ \A j \in 1 .. k - 1 : IsFile(K, entries[j].file, request[r].space)
  BY <1>3 DEF Validating
<1>5. /\ entries \in Seq([path : Seq(Nat), file : Nat])
      /\ request[r] \in K.of.requests /\ request[r].op = "submit"
  BY <1>3 DEF Validating
<1>6. Now(r) = Head(Remaining(entries, k)) /\ Len(entries) \in Nat
  BY <1>4, <1>5 DEF Now
<1>7. CASE k = Len(entries) + 1
  <2>1. Now(r) = Item("make_root", None)
    BY <1>5, <1>6, <1>7, RemainingShrinks
  <2>2. Now(r).do = "make_root"
    BY <2>1, ItemsAreItems
  <2> QED BY <1>3, <1>4, <1>5, <1>7, <2>2
<1>8. CASE k <= Len(entries)
  <2>1. Now(r) = Item("validate", k)
    BY <1>5, <1>6, <1>8, RemainingShrinks
  <2>2. Now(r).do = "validate" /\ Now(r).id = k
    BY <2>1, ItemsAreItems
  <2> QED BY <1>3, <1>4, <1>5, <1>8, <2>2
<1> QED BY <1>4, <1>6, <1>7, <1>8

LEMMA ValidateFits ==
  ASSUME NEW K, Fits(K), Still, NEW r \in Workers, ValidateEntry(r)
  PROVE  Fits(K)'
<1> DEFINE entries == request[r].arg space == request[r].space
           e == entries[Now(r).id]
<1>1. TableFits(K) /\ TableFits(K)' /\ jobs[r] # <<>> /\ Now(r).do = "validate"
  BY ReadFits DEF ValidateEntry, Read, tableVars, Fits, At
<1>2. (IsFile(K, e.file, space) /\ Done(r)) \/ \E code : Refuse(r, code)
  <2>1. CASE Verdict(e.file, space) = 200
    <3>1. e.file \in DOMAIN files /\ files[e.file].space = space
      BY <2>1, FoundIsLive
    <3>2. RowFits(K, e.file, files[e.file])
      BY <1>1, <3>1 DEF TableFits
    <3>3. ~files[e.file].dir => IsFile(K, e.file, space)
      BY <3>1, <3>2 DEF RowFits, Held, IsFile
    <3>4. (~files[e.file].dir /\ Done(r)) \/ \E code : Refuse(r, code)
      BY DEF ValidateEntry
    <3> QED BY <3>3, <3>4
  <2>2. CASE Verdict(e.file, space) # 200
    <3> HIDE DEF e, entries, space
    <3>1. Verdict(e.file, space) \in {404, 403}
      BY <2>2 DEF Verdict
    <3> USE DEF e, entries, space
    <3>2. Refuse(r, 400) \/ Refuse(r, 403)
      BY <3>1 DEF ValidateEntry
    <3> QED BY <3>2
  <2> QED BY <2>1, <2>2
<1>3. ASSUME IsFile(K, e.file, space), Done(r) PROVE Fits(K)'
  <2>1. PICK k \in 1 .. Len(entries) + 1 :
          /\ jobs[r] = <<Remaining(entries, k)>>
          /\ \A j \in 1 .. k - 1 : IsFile(K, entries[j].file, space)
          /\ k <= Len(entries) /\ Now(r).id = k
    BY <1>1, ValidatingWorks
  <2>2. /\ entries \in Seq([path : Seq(Nat), file : Nat]) /\ LocalsFit(K, request[r], notes[r])
        /\ request[r] \in K.of.requests /\ request[r].op = "submit"
    BY <1>1, ValidatingWorks
  <2>3. Len(entries) \in Nat /\ k \in Nat /\ k + 1 \in 1 .. Len(entries) + 1
    BY <2>1, <2>2
  <2> DEFINE rest == Remaining(entries, k + 1)
  <2>4. Tail(Remaining(entries, k)) = rest /\ rest # <<>>
    BY <2>1, <2>2, <2>3, RemainingShrinks
  <2>5. jobs' = [jobs EXCEPT ![r] = <<rest>>]
    <3>1. <<>> \o Tail(Head(jobs[r])) = rest
      <4>1. rest = [i \in 1 .. Len(entries) - (k + 1) + 1 |-> Item("validate", i + (k + 1) - 1)]
                   \o <<Item("make_root", None)>>
        BY DEF Remaining
      <4>2. <<>> \o rest = rest
        <5> DEFINE T == {Item("validate", i) : i \in Nat} \cup {Item("make_root", None)}
                   n == Len(entries) - (k + 1) + 1
                   todo == [i \in 1 .. n |-> Item("validate", i + (k + 1) - 1)]
        <5>1. n \in Nat /\ \A i \in 1 .. n : i + (k + 1) - 1 \in Nat
          BY <2>1, <2>3
        <5>2. \A i \in Nat : Item("validate", i) \in T
          OBVIOUS
        <5>3. Item("make_root", None) \in T
          OBVIOUS
        <5> HIDE DEF T, n
        <5>4. todo \in Seq(T)
          BY <5>1, <5>2
        <5>5. rest = todo \o <<Item("make_root", None)>>
          BY <4>1 DEF n
        <5> HIDE DEF todo, rest
        <5>6. rest \in Seq(T)
          BY <5>3, <5>4, <5>5
        <5> QED BY <5>6
      <4> HIDE DEF rest
      <4> QED BY <2>1, <2>4, <4>2
    <3>2. <<rest>> \o Tail(jobs[r]) = <<rest>>
      <4> HIDE DEF rest
      <4>1. ASSUME NEW x, NEW y PROVE <<x>> \o Tail(<<y>>) = <<x>>
        OBVIOUS
      <4> QED BY <2>1, <4>1
    <3> HIDE DEF rest
    <3> QED BY <1>3, <2>4, <3>1, <3>2 DEF Done, Then, Goes, Leaves
  <2>6. Validating(K, request[r], <<rest>>)
    <3>1. \A j \in 1 .. (k + 1) - 1 : IsFile(K, entries[j].file, space)
      BY <1>3, <2>1, <2>3
    <3> QED BY <2>2, <2>3, <3>1 DEF Validating
  <2>7. Extends(K, K) /\ request' = request /\ notes' = [notes EXCEPT ![r] = notes[r]]
    BY <1>3 DEF Extends, Done, Then, Fits, WorkFits
  <2> HIDE DEF rest
  <2> QED BY <1>1, <2>2, <2>5, <2>6, <2>7, StepFits
<1> QED BY <1>1, <1>2, <1>3, RefuseFits

\* A directory that has just been made is in the map.
LEMMA MadeFits ==
  ASSUME NEW K, NEW r, NEW q, LocalsFit(K, q, notes[r]), IsDir(K, issued + 1, q.space), NEW path
  PROVE  /\ LocalsFit(K, q, Made(r, path)) /\ path \in DOMAIN Made(r, path).made
         /\ \A p \in DOMAIN notes[r].made : p \in DOMAIN Made(r, path).made
<1> DEFINE l == notes[r]
           made == [p \in DOMAIN l.made \cup {path} |-> IF p = path THEN issued + 1 ELSE l.made[p]]
           l2 == [l EXCEPT !.made = made]
<1>1. Made(r, path) = l2
  BY DEF Made
<1> HIDE DEF made
<1>2. /\ l2.undo = l.undo /\ l2.made = made /\ l2.found = l.found /\ l2.sent = l.sent
      /\ l2 = [status |-> l2.status, undo |-> l2.undo, pending |-> l2.pending, made |-> l2.made,
               found |-> l2.found, sent |-> l2.sent]
  BY DEF LocalsFit
<1> HIDE DEF l2
<1>3. DOMAIN made = DOMAIN l.made \cup {path} /\ \A p \in DOMAIN made : IsDir(K, made[p], q.space)
  BY DEF LocalsFit, made
<1>4. Extends(K, K)
  BY DEF Extends
<1>5. \A i \in Range(l.undo) : Good(K, q, l2, i)
  BY <1>2, <1>3, <1>4, GoodKept DEF LocalsFit
<1>6. LocalsFit(K, q, l2)
  BY <1>2, <1>3, <1>5 DEF LocalsFit
<1> QED BY <1>1, <1>2, <1>3, <1>6

\* The directories of a manifest are finitely many.
LEMMA DirPathsAreListed ==
  ASSUME NEW entries \in Seq([path : Seq(Nat), file : Nat])
  PROVE  DirPaths(entries) \in Seq(Seq(Nat) \ {<<>>})
<1> DEFINE Dirs(i) == {SubSeq(entries[i].path, 1, n) : n \in 1 .. Len(entries[i].path) - 1}
           All == {Dirs(i) : i \in DOMAIN entries}
<1>1. ASSUME NEW i \in DOMAIN entries PROVE IsFiniteSet(Dirs(i))
  <2> DEFINE m == Len(entries[i].path) - 1
             I == 1 .. m
             g == [n \in I |-> SubSeq(entries[i].path, 1, n)]
  <2>1. m \in Int
    <3>1. entries[i] \in [path : Seq(Nat), file : Nat]
      <4>1. ASSUME NEW S, NEW s \in Seq(S), NEW j \in DOMAIN s PROVE s[j] \in S
        OBVIOUS
      <4> QED BY <1>1, <4>1
    <3>2. entries[i].path \in Seq(Nat)
      BY <3>1
    <3> QED BY <3>2
  <2>2. IsFiniteSet(I)
    <3> HIDE DEF m
    <3> QED BY <2>1, FS_Interval
  <2>3. g \in Surjection(I, Dirs(i))
    BY DEF Surjection
  <2> HIDE DEF g, I
  <2> QED BY <2>2, <2>3, FS_Surjection
<1>2. IsFiniteSet(All)
  <2> DEFINE g == [i \in DOMAIN entries |-> Dirs(i)]
  <2>1. IsFiniteSet(DOMAIN entries)
    BY FS_Interval
  <2>2. g \in Surjection(DOMAIN entries, All)
    <3> HIDE DEF Dirs
    <3> QED BY DEF Surjection
  <2> HIDE DEF g, All
  <2> QED BY <2>1, <2>2, FS_Surjection
<1>3. IsFiniteSet(UNION All)
  <2> HIDE DEF Dirs
  <2> QED BY <1>1, <1>2, FS_UNION
<1>4. DirPaths(entries) \in Seq(UNION All)
  <2>1. DirPaths(entries) = InOrder(UNION All, PathOrder)
    BY DEF DirPaths
  <2> HIDE DEF All
  <2> QED BY <1>3, <2>1, PlacedIsList DEF InOrder
<1>5. ASSUME NEW i \in DOMAIN entries PROVE Dirs(i) \subseteq Seq(Nat) \ {<<>>}
  <2>1. entries[i] \in [path : Seq(Nat), file : Nat]
    <3>1. ASSUME NEW S, NEW s \in Seq(S), NEW j \in DOMAIN s PROVE s[j] \in S
      OBVIOUS
    <3> QED BY <1>5, <3>1
  <2>2. ASSUME NEW s \in Seq(Nat), NEW n \in 1 .. Len(s) - 1
        PROVE  SubSeq(s, 1, n) \in Seq(Nat) \ {<<>>}
    <3>1. n \in Nat \ {0} /\ n <= Len(s) /\ \A j \in 1 .. n : s[j] \in Nat
      OBVIOUS
    <3>2. SubSeq(s, 1, n) \in Seq(Nat)
      BY <3>1, SubSeqProperties
    <3>3. Len(SubSeq(s, 1, n)) = n
      BY <3>1, SubSeqProperties
    <3> QED BY <3>1, <3>2, <3>3
  <2> QED BY <2>1, <2>2
<1>6. UNION All \subseteq Seq(Nat) \ {<<>>}
  <2> HIDE DEF Dirs
  <2> QED BY <1>5
<1> DEFINE U == UNION All paths == DirPaths(entries)
<1>7. paths \in Seq(U) /\ U \subseteq Seq(Nat) \ {<<>>}
  BY <1>4, <1>6
<1> HIDE DEF U, paths
<1>8. paths \in Seq(Seq(Nat) \ {<<>>})
  BY <1>7
<1> QED BY <1>8 DEF paths

LEMMA NewDirIsRow ==
  ASSUME NEW space, NEW parent, NEW name, NEW path
  PROVE  LET row == NewDir(space, parent, name, path) IN
         /\ IsRow(row) /\ IsSum(row.sha) /\ row.name = name
         /\ row.parent = parent /\ row.space = space /\ row.dir
BY DEF NewDir, IsRow, IsSum

\* A manifest's files may be where it sends them.
LEMMA SentToIsHome ==
  ASSUME NEW K, NEW q, q \in K.of.requests, q.op = "submit",
         q.arg \in Seq([path : Seq(Nat), file : Nat]),
         NEW j \in 1 .. Len(q.arg), Held(K, q.arg[j].file, q.space)
  PROVE  Home(K, Target(q, q.arg[j].path), K.rows[q.arg[j].file].sha)
<1> DEFINE d == [to |-> Target(q, q.arg[j].path), file |-> q.arg[j].file]
<1>1. j \in DOMAIN q.arg
  OBVIOUS
<1>2. d \in Destinations(K.of)
  BY <1>1 DEF Destinations, Target
<1> QED BY <1>2 DEF Home, Held

LEMMA MakeRootFits ==
  ASSUME NEW K, Fits(K), Still, NEW r \in Workers, MakeRoot(r)
  PROVE  \E K2 : Fits(K2)'
<1> DEFINE entries == request[r].arg q == request[r] space == request[r].space
           row == NewDir(space, None, DirName(q), <<>>)
           l == Made(r, <<>>)
<1>1. TableFits(K) /\ jobs[r] # <<>> /\ Now(r).do = "make_root" /\ Insert(row)
  BY DEF MakeRoot, Fits, At
<1>2. PICK K2 : /\ Extends(K2, K) /\ TableFits(K2)'
                /\ Held(K2, issued + 1, row.space) /\ K2.rows[issued + 1].dir = row.dir
  <2>1. DirName(q) \in Nat
    <3>1. q \in K.of.requests /\ q.op = "submit"
      BY <1>1, ValidatingWorks
    <3>2. WellFormed(q)
      BY <1>1, <3>1, SetupsAreServed DEF Fits, TableFits
    <3> QED BY <3>1, <3>2 DEF WellFormed, DirName, GeneratedName
  <2>2. IsRow(row) /\ IsSum(row.sha) /\ row.name \in Nat /\ Inside(K, row.parent, row.space)
    BY <2>1, NewDirIsRow DEF Inside
  <2> HIDE DEF row
  <2> QED BY <1>1, <2>2, InsertFits
<1>3. /\ LocalsFit(K, q, notes[r]) /\ entries \in Seq([path : Seq(Nat), file : Nat])
      /\ jobs[r] = <<<<Item("make_root", None)>>>>
      /\ \A j \in 1 .. Len(entries) : IsFile(K, entries[j].file, space)
      /\ q \in K.of.requests /\ q.op = "submit"
  <2>1. PICK k \in 1 .. Len(entries) + 1 :
          /\ jobs[r] = <<Remaining(entries, k)>>
          /\ \A j \in 1 .. k - 1 : IsFile(K, entries[j].file, space)
          /\ k = Len(entries) + 1
    BY <1>1, ValidatingWorks
  <2>2. /\ entries \in Seq([path : Seq(Nat), file : Nat]) /\ LocalsFit(K, q, notes[r])
        /\ q \in K.of.requests /\ q.op = "submit"
    BY <1>1, ValidatingWorks
  <2>3. k - 1 = Len(entries)
    BY <2>1, <2>2
  <2> QED BY <2>1, <2>2, <2>3, RemainingShrinks
<1>4. IsDir(K2, issued + 1, space)
  BY <1>2, NewDirIsRow DEF IsDir
<1>5. LocalsFit(K2, q, l) /\ <<>> \in DOMAIN l.made
  BY <1>2, <1>3, <1>4, LocalsKept, MadeFits
<1> DEFINE dirs == Each(DirPaths(entries), LAMBDA p : ItemFor("make_dir", 0, p))
           files_ == Each(entries, LAMBDA e : ItemFor("adopt", e.file, e.path))
           items == dirs \o files_
<1> DEFINE S == Seq(Nat) \ {<<>>}
<1>6. DirPaths(entries) \in Seq(S)
  BY <1>3, DirPathsAreListed
<1> HIDE DEF S
<1> DEFINE T == {ItemFor("make_dir", 0, p) : p \in S}
                \cup {ItemFor("adopt", entries[j].file, entries[j].path) : j \in 1 .. Len(entries)}
<1>7. items \in Seq(T)
  <2>1. dirs \in Seq(T)
    <3> DEFINE paths == DirPaths(entries)
    <3>1. \A p \in S : ItemFor("make_dir", 0, p) \in T
      OBVIOUS
    <3> HIDE DEF T, paths
    <3>2. paths \in Seq(S)
      BY <1>6 DEF paths
    <3>3. Each(paths, LAMBDA p : ItemFor("make_dir", 0, p)) \in Seq(T)
      BY <3>1, <3>2 DEF Each
    <3> QED BY <3>3 DEF paths
  <2>2. files_ \in Seq(T)
    <3>1. \A j \in 1 .. Len(entries) : ItemFor("adopt", entries[j].file, entries[j].path) \in T
      OBVIOUS
    <3>2. Len(entries) \in Nat
      BY <1>3
    <3> HIDE DEF T
    <3> QED BY <3>1, <3>2 DEF Each
  <2> HIDE DEF dirs, files_, T
  <2> QED BY <2>1, <2>2
<1>8. \A i \in T : Good(K2, q, l, i)
  <2>1. ASSUME NEW p \in S PROVE Good(K2, q, l, ItemFor("make_dir", 0, p))
    <3> DEFINE i == ItemFor("make_dir", 0, p)
    <3>1. IsItem(i) /\ i.do = "make_dir" /\ i.arg \in Seq(Nat) \ {<<>>}
      BY ItemsAreItems DEF S
    <3> HIDE DEF i, l
    <3>2. Good(K2, q, l, i)
      BY <1>5, <3>1 DEF Good
    <3> QED BY <3>2 DEF i
  <2>2. ASSUME NEW j \in 1 .. Len(entries)
        PROVE  Good(K2, q, l, ItemFor("adopt", entries[j].file, entries[j].path))
    <3>1. IsFile(K2, entries[j].file, space)
      BY <1>2, <1>3, <2>2, HeldKept
    <3> DEFINE i == ItemFor("adopt", entries[j].file, entries[j].path)
    <3>2. IsItem(i) /\ i.do = "adopt" /\ i.id = entries[j].file /\ i.arg = entries[j].path
      BY ItemsAreItems
    <3>3. Home(K, Target(q, entries[j].path), K.rows[entries[j].file].sha)
      BY <1>3, <2>2, SentToIsHome DEF IsFile
    <3>4. Home(K2, Target(q, entries[j].path), K2.rows[entries[j].file].sha)
      BY <1>2, <1>3, <2>2, <3>3, HomeKept DEF Extends, Held, IsFile
    <3> HIDE DEF i, l
    <3>5. Good(K2, q, l, i)
      BY <1>5, <3>1, <3>2, <3>4 DEF Good
    <3> QED BY <3>5 DEF i
  <2> HIDE DEF l
  <2> QED BY <2>1, <2>2
<1> HIDE DEF T
<1>9. Goes(r, items) /\ notes' = [notes EXCEPT ![r] = l] /\ request' = request
  BY DEF MakeRoot, ThenNoting
<1> HIDE DEF items, l
<1> DEFINE js == IF items = <<>> THEN <<>> ELSE <<items>>
<1>10. jobs' = [jobs EXCEPT ![r] = js]
  <2>1. ASSUME NEW x, NEW y PROVE Tail(<<x>>) = <<>> /\ <<y>> \o <<>> = <<y>>
    OBVIOUS
  <2>2. items \o <<>> = items
    BY <1>7
  <2>3. Tail(jobs[r]) = <<>> /\ Tail(Head(jobs[r])) = <<>>
    <3>1. Head(jobs[r]) = <<Item("make_root", None)>>
      BY <1>3
    <3> QED BY <1>3, <2>1, <3>1
  <2> QED BY <1>9, <2>1, <2>2, <2>3 DEF Goes, Leaves
<1>11. Working(K2, q, l, js)
  <2>1. CASE items = <<>>
    BY <2>1, NothingWorks
  <2>2. CASE items # <<>>
    <3>1. JobsOf(<<items>>, T)
      BY <1>7, <2>2 DEF JobsOf
    <3> QED BY <1>8, <2>2, <3>1, WorkingIf
  <2> QED BY <2>1, <2>2
<1> HIDE DEF js
<1>12. Fits(K2)'
  BY <1>2, <1>5, <1>9, <1>10, <1>11, StepFits
<1> QED BY <1>12

\* Where a row of the manifest goes is a directory of the manifest.
LEMMA ParentIsMade ==
  ASSUME NEW K, NEW r, NEW q, LocalsFit(K, q, notes[r]), <<>> \in DOMAIN notes[r].made, NEW path
  PROVE  IsDir(K, ParentID(r, path), q.space)
BY DEF ParentID, LocalsFit

LEMMA MakeDirFits ==
  ASSUME NEW K, Fits(K), Still, NEW r \in Workers, MakeDir(r)
  PROVE  \E K2 : Fits(K2)'
<1> DEFINE q == request[r] path == Now(r).arg
           row == NewDir(q.space, ParentID(r, path), Last(path), path)
           l == Made(r, path)
<1>1. /\ TableFits(K) /\ jobs[r] # <<>> /\ Insert(row)
      /\ Now(r).do = "make_dir" /\ Now(r).do \notin Special
  BY DEF MakeDir, Fits, At, Special
<1>2. LocalsFit(K, q, notes[r]) /\ <<>> \in DOMAIN notes[r].made /\ path \in Seq(Nat) \ {<<>>}
  BY <1>1, PlainWorks DEF Good
<1>3. PICK K2 : /\ Extends(K2, K) /\ TableFits(K2)'
                /\ Held(K2, issued + 1, row.space) /\ K2.rows[issued + 1].dir = row.dir
  <2>1. Inside(K, ParentID(r, path), q.space)
    BY <1>2, ParentIsMade DEF Inside
  <2>2. Last(path) \in Nat
    <3>1. ASSUME NEW s \in Seq(Nat) \ {<<>>} PROVE Last(s) \in Nat
      BY DEF Last
    <3> QED BY <1>2, <3>1
  <2>3. /\ IsRow(row) /\ IsSum(row.sha) /\ row.name \in Nat /\ Inside(K, row.parent, row.space)
    BY <2>1, <2>2, NewDirIsRow
  <2> HIDE DEF row
  <2> QED BY <1>1, <2>3, InsertFits
<1>4. IsDir(K2, issued + 1, q.space)
  BY <1>3, NewDirIsRow DEF IsDir
<1>5. LocalsFit(K2, q, l) /\ (<<>> \in DOMAIN notes[r].made => <<>> \in DOMAIN l.made)
  BY <1>2, <1>3, <1>4, LocalsKept, MadeFits
<1>6. Goes(r, <<>>) /\ notes' = [notes EXCEPT ![r] = l] /\ request' = request
  BY DEF MakeDir, ThenNoting
<1> HIDE DEF l
<1> DEFINE T == AllItems(jobs[r])
<1>7. \A i \in T : Good(K2, q, l, i)
  BY <1>1, <1>3, <1>5, PlainWorks, GoodKept DEF Working
<1>8. <<>> \in Seq(T)
  OBVIOUS
<1> HIDE DEF T
<1>9. Fits(K2)'
  BY <1>1, <1>3, <1>5, <1>6, <1>7, <1>8, GoesFits
<1> QED BY <1>9

LEMMA AdoptFits ==
  ASSUME NEW K, Fits(K), Still, NEW r \in Workers, Adopt(r) \/ Reparent(r)
  PROVE  Fits(K)'
<1> DEFINE f == Now(r).id q == request[r]
<1>1. TableFits(K)
  BY DEF Fits
<1>2. CASE Adopt(r)
  <2> DEFINE first == [Now(r) EXCEPT !.do = "reparent"]
             sha == files[f].sha
             then == [Now(r) EXCEPT !.do = "relocate", !.at = sha]
             items == <<first, then>>
             T == {first, then}
  <2>1. /\ jobs[r] # <<>> /\ Now(r).do = "adopt" /\ Now(r).do \notin Special /\ TableFits(K)'
    BY <1>1, <1>2, ReadFits DEF Adopt, At, Special, Read, tableVars
  <2>2. Done(r) \/ (Live(f) /\ Then(r, items))
    BY <1>2 DEF Adopt
  <2>3. /\ IsFile(K, f, q.space) /\ <<>> \in DOMAIN notes[r].made /\ IsItem(Now(r))
        /\ Home(K, Target(q, Now(r).arg), K.rows[f].sha)
    BY <2>1, PlainWorks DEF Good
  <2>4. Good(K, q, notes[r], first)
    <3>1. IsItem(first) /\ first.do = "reparent" /\ first.id = f
      BY <2>3 DEF IsItem
    <3> HIDE DEF first
    <3> QED BY <2>3, <3>1 DEF Good
  <2>5. ASSUME Live(f) PROVE Good(K, q, notes[r], then)
    <3>1. ASSUME NEW i, i = [Now(r) EXCEPT !.do = "relocate", !.at = sha]
          PROVE  IsItem(i) /\ i.do = "relocate" /\ i.at = sha /\ i.arg = Now(r).arg
      <4> HIDE DEF sha
      <4> QED BY <2>3, <3>1 DEF IsItem
    <3>2. IsItem(then) /\ then.do = "relocate" /\ then.at = sha /\ then.arg = Now(r).arg
      BY <3>1
    <3>3. sha = K.rows[f].sha /\ IsSum(sha)
      BY <1>1, <2>5 DEF Live, TableFits, RowFits, KnowsSetup
    <3> HIDE DEF then, sha
    <3> QED BY <2>3, <3>2, <3>3 DEF Good
  <2> HIDE DEF first, then
  <2>6. items \in Seq(T) /\ (Live(f) => \A i \in T : Good(K, q, notes[r], i))
    BY <2>4, <2>5
  <2> HIDE DEF items, T
  <2> QED BY <2>1, <2>2, <2>6, DoneFits, ThenFits
<1>3. CASE Reparent(r)
  <2> DEFINE path == Now(r).arg to == ParentID(r, path)
  <2>1. jobs[r] # <<>> /\ Now(r).do = "reparent" /\ Now(r).do \notin Special /\ Done(r)
    BY <1>3 DEF Reparent, At, Special
  <2>2. Held(K, f, q.space) /\ <<>> \in DOMAIN notes[r].made /\ LocalsFit(K, q, notes[r])
    BY <2>1, PlainWorks DEF Good, IsFile
  <2>3. Inside(K, to, q.space)
    BY <2>2, ParentIsMade DEF Inside
  <2>4. TableFits(K)'
    <3>1. CASE f \in DOMAIN files
      <4> DEFINE row == [files[f] EXCEPT !.parent = to, !.path = path]
      <4>1. FilesOnly(Updated(f, row))
        BY <1>3, <3>1 DEF Reparent, ReparentFile
      <4>2. RowFits(K, f, files[f])
        BY <1>1, <3>1 DEF TableFits
      <4>3. /\ row.space = files[f].space /\ row.dir = files[f].dir /\ row.sha = files[f].sha
            /\ row.parent = to /\ row.name = files[f].name /\ IsRow(row)
        <5>1. ASSUME NEW p, NEW x, NEW old, IsRow(old),
                     NEW new, new = [old EXCEPT !.parent = p, !.path = x]
              PROVE  /\ new.space = old.space /\ new.dir = old.dir /\ new.sha = old.sha
                     /\ new.parent = p /\ new.name = old.name /\ IsRow(new)
          BY <5>1 DEF IsRow
        <5> HIDE DEF to, path
        <5> QED BY <4>2, <5>1 DEF RowFits
      <4> HIDE DEF row, to
      <4>4. RowFits(K, f, row)
        BY <2>2, <2>3, <4>2, <4>3 DEF RowFits, Held
      <4> HIDE DEF f
      <4> QED BY <1>1, <3>1, <4>1, <4>4, UpdateFits
    <3>2. CASE f \notin DOMAIN files
      <4>1. files' = files /\ issued' = issued /\ blobs' = blobs /\ objects' = objects
        BY <1>3, <3>2 DEF Reparent, FilesOnly, ReparentFile
      <4> QED BY <1>1, <4>1, ReadFits
    <3> QED BY <3>1, <3>2
  <2> QED BY <2>1, <2>4, DoneFits
<1> QED BY <1>2, <1>3

\* A worker goes on with an item that relies on what it has just added.
LEMMA ThenAddingFits ==
  ASSUME NEW K, Fits(K), NEW K2, Extends(K2, K), TableFits(K2)',
         NEW r \in Workers, jobs[r] # <<>>, Now(r).do \notin Special,
         NEW i, Good(K2, request[r], notes[r], i), Then(r, <<i>>)
  PROVE  Fits(K2)'
<1>1. Goes(r, <<i>>) /\ request' = request /\ notes' = [notes EXCEPT ![r] = notes[r]]
  BY DEF Then, Fits, WorkFits
<1> DEFINE T == {i} items == <<i>>
<1>2. items \in Seq(T) /\ \A x \in T : Good(K2, request[r], notes[r], x)
  OBVIOUS
<1>3. LocalsFit(K2, request[r], notes[r]) /\ Goes(r, items)
  BY <1>1, PlainWorks, LocalsKept
<1> HIDE DEF T, items
<1> QED BY <1>1, <1>2, <1>3, GoesFits

\* The end of a move relies on the target being whole.
LEMMA MoveOnFits ==
  ASSUME NEW K, Fits(K), NEW K2, Extends(K2, K), TableFits(K2)',
         NEW r \in Workers, jobs[r] # <<>>, Now(r).do \notin Special,
         There(K2, Now(r).arg[2], Now(r).at),
         NEW do \in {"delete_source", "set_path"}, MoveOn(r, do)
  PROVE  Fits(K2)'
<1>1. ASSUME NEW i, i = [Now(r) EXCEPT !.do = do] PROVE Good(K2, request[r], notes[r], i)
  <2>1. IsItem(Now(r))
    BY PlainWorks DEF Good
  <2>2. IsItem(i) /\ i.do = do /\ i.at = Now(r).at /\ i.arg = Now(r).arg
    BY <1>1, <2>1 DEF IsItem
  <2> QED BY <2>2 DEF Good
<1> DEFINE next == [Now(r) EXCEPT !.do = do]
<1>2. Good(K2, request[r], notes[r], next) /\ Then(r, <<next>>)
  BY <1>1 DEF MoveOn
<1> HIDE DEF next
<1> QED BY <1>2, ThenAddingFits

\* The move of an object takes it from where its content is to where a
\* manifest sends it.
LEMMA RelocateFits ==
  ASSUME NEW K, Fits(K), Still, NEW r \in Workers,
         Relocate(r) \/ ReadSource(r) \/ DeleteSource(r) \/ SetPath(r)
  PROVE  Fits(K)'
<1> DEFINE q == request[r] now == Now(r)
<1>1. TableFits(K) /\ Extends(K, K)
  BY DEF Fits, Extends
<1>2. ASSUME jobs[r] # <<>>, now.do \notin Special PROVE Good(K, q, notes[r], now) /\ IsItem(now)
  BY <1>2, PlainWorks DEF Good
<1>3. CASE Relocate(r)
  <2> DEFINE to == HierarchicalPath(q.space, DirName(q), now.arg)
             blob == GetBlobBySha(now.at)
             x == <<blob.path, to>>
             next == [now EXCEPT !.do = "read_source", !.arg = x]
  <2>1. /\ jobs[r] # <<>> /\ now.do = "relocate" /\ now.do \notin Special /\ TableFits(K)'
    BY <1>1, <1>3, ReadFits DEF Relocate, At, Special, Read, tableVars
  <2>2. Done(r) \/ (blob # None /\ Then(r, <<next>>))
    BY <1>3 DEF Relocate
  <2>3. IsSum(now.at) /\ Home(K, to, now.at)
    BY <1>2, <2>1 DEF Good, Target
  <2>4. ASSUME blob # None PROVE Good(K, q, notes[r], next)
    <3>1. There(K, blob.path, now.at)
      BY <1>1, <2>3, <2>4, BlobIsThere
    <3>2. x = <<x[1], x[2]>> /\ x[1] = blob.path /\ x[2] = to
      OBVIOUS
    <3> HIDE DEF x, to, blob
    <3>3. ASSUME NEW i, i = [now EXCEPT !.do = "read_source", !.arg = x]
          PROVE  IsItem(i) /\ i.do = "read_source" /\ i.at = now.at /\ i.arg = x
      BY <1>2, <2>1, <3>3 DEF IsItem
    <3>4. IsItem(next) /\ next.do = "read_source" /\ next.at = now.at /\ next.arg = x
      BY <3>3
    <3> HIDE DEF next
    <3> QED BY <2>3, <3>1, <3>2, <3>4 DEF Good
  <2> HIDE DEF next, blob
  <2> QED BY <2>1, <2>2, <2>4, DoneFits, ThenOneFits
<1>4. CASE ReadSource(r)
  <2> DEFINE a == now.arg[1] b == now.arg[2] content == Open(a)
             x == Append(now.arg, content)
             next == [now EXCEPT !.do = "write_target", !.arg = x]
  <2>1. /\ jobs[r] # <<>> /\ now.do = "read_source" /\ now.do \notin Special /\ TableFits(K)'
    BY <1>1, <1>4, ReadFits DEF ReadSource, At, Special, Read, tableVars
  <2>2. Done(r) \/ (content # None /\ Then(r, <<next>>))
    BY <1>4 DEF ReadSource
  <2>3. now.arg = <<a, b>> /\ There(K, a, now.at) /\ Home(K, b, now.at)
    BY <1>2, <2>1 DEF Good
  <2>4. ASSUME content # None PROVE Good(K, q, notes[r], next)
    <3>1. Yields(K, b, content)
      <4>1. Yields(K, a, content)
        BY <1>1, <2>3, <2>4, ThereYields
      <4>2. Home(K, a, now.at)
        BY <2>3 DEF There
      <4> QED BY <2>3, <4>1, <4>2, HomeFollows DEF Yields
    <3>2. x = <<x[1], x[2], x[3]>> /\ x[1] = a /\ x[2] = b /\ x[3] = content
      <4>1. ASSUME NEW u, NEW v, NEW w PROVE Append(<<u, v>>, w) = <<u, v, w>>
        <5> DEFINE S == {u, v, w} s == Append(<<u, v>>, w) t == <<u, v, w>>
        <5>1. s \in Seq(S) /\ t \in Seq(S) /\ Len(s) = 3 /\ Len(t) = 3
          OBVIOUS
        <5>2. s[1] = t[1] /\ s[2] = t[2] /\ s[3] = t[3]
          OBVIOUS
        <5> HIDE DEF s, t, S
        <5>3. s = t
          BY <5>1, <5>2
        <5> QED BY <5>3 DEF s, t
      <4> HIDE DEF a, b, content
      <4> QED BY <2>3, <4>1
    <3> HIDE DEF x, a, b, content
    <3>3. ASSUME NEW i, i = [now EXCEPT !.do = "write_target", !.arg = x]
          PROVE  IsItem(i) /\ i.do = "write_target" /\ i.at = now.at /\ i.arg = x
      BY <1>2, <2>1, <3>3 DEF IsItem
    <3>4. IsItem(next) /\ next.do = "write_target" /\ next.at = now.at /\ next.arg = x
      BY <3>3
    <3> HIDE DEF next
    <3> QED BY <2>3, <3>1, <3>2, <3>4 DEF Good
  <2> HIDE DEF next, content
  <2> QED BY <2>1, <2>2, <2>4, DoneFits, ThenOneFits
<1>5. CASE DeleteSource(r)
  <2>1. /\ jobs[r] # <<>> /\ now.do = "delete_source" /\ MoveOn(r, "set_path")
        /\ ObjectsOnly(Unlink(now.arg[1]))
    BY <1>5 DEF DeleteSource, At
  <2>2. TableFits(K)'
    BY <1>1, <2>1, ObjectFits
  <2>3. now.do \notin Special /\ There(K, now.arg[2], now.at)
    BY <1>2, <2>1 DEF Good, Special
  <2> QED BY <1>1, <2>1, <2>2, <2>3, MoveOnFits
<1>6. CASE SetPath(r)
  <2>1. /\ jobs[r] # <<>> /\ now.do = "set_path" /\ now.do \notin Special /\ Done(r)
        /\ BlobsOnly(UpdateBlobStorage(now.at, now.arg[2]))
    BY <1>6 DEF SetPath, At, Special
  <2>2. There(K, now.arg[2], now.at)
    BY <1>2, <2>1 DEF Good
  <2>3. TableFits(K)'
    BY <1>1, <2>1, <2>2, PathFits
  <2> QED BY <2>1, <2>3, DoneFits
<1> QED BY <1>3, <1>4, <1>5, <1>6

\* Who begins to write to a place where the content has not been is known as
\* the only one to do so; if it has been there, nothing is known any more.
LEMMA WriteTargetFits ==
  ASSUME NEW K, Fits(K), NEW r \in Workers, WriteTarget(r), setup' = setup,
         written' = written \cup Written(r),
         rewritten' = (rewritten \/ Written(r) \cap written # {})
  PROVE  \E K2 : Fits(K2)'
<1> DEFINE q == request[r] now == Now(r) b == now.arg[2] place == <<b, now.at>>
           D == DOMAIN K.opened \cup {place}
           opened == [p \in D |-> IF p \in DOMAIN K.opened THEN K.opened[p] ELSE r]
<1> PICK K2 : K2 = [rows |-> K.rows, of |-> K.of, whole |-> K.whole, opened |-> opened,
                    clean |-> K.clean /\ place \notin written]
  OBVIOUS
<1>1. /\ TableFits(K) /\ jobs[r] # <<>> /\ now.do = "write_target" /\ now.do \notin Special
      /\ ObjectsOnly(Write(b, r))
  BY DEF WriteTarget, At, Special, Fits
<1>2. Good(K, q, notes[r], now) /\ Home(K, b, now.at)
  BY <1>1, PlainWorks DEF Good
<1>3. K2.rows = K.rows /\ K2.of = K.of /\ K2.whole = K.whole /\ K2.opened = opened
      /\ (K2.clean <=> K.clean /\ place \notin written)
  OBVIOUS
<1>4. /\ DOMAIN K2.opened = DOMAIN K.opened \cup {place}
      /\ \A p \in DOMAIN K.opened : K2.opened[p] = K.opened[p]
      /\ place \notin DOMAIN K.opened => K2.opened[place] = r
  BY <1>3
<1>5. place[1] = b /\ place[2] = now.at /\ place = <<place[1], place[2]>>
  OBVIOUS
<1>6. written' = written \cup {place} /\ (rewritten' <=> rewritten \/ place \in written)
      /\ rewritten' \in BOOLEAN
  BY <1>1 DEF Written, At
<1> HIDE DEF opened, place
<1>7. Extends(K2, K)
  BY <1>3, <1>4 DEF Extends
<1>8. Calm(K2) => Calm(K) /\ place \notin written
  BY <1>3 DEF Calm
<1>9. WritesFit(K) /\ place \notin written => place \notin DOMAIN K.opened \cup K.whole
  BY DEF WritesFit
<1>10. /\ DOMAIN objects' = DOMAIN objects \cup {b} /\ objects'[b] = r
       /\ \A p \in DOMAIN objects : p # b => objects'[p] = objects[p]
       /\ blobs' = blobs /\ files' = files /\ issued' = issued
  BY <1>1 DEF ObjectsOnly, Write
<1>11. Calm(K2) => WritesFit(K2)'
  <2> SUFFICES ASSUME Calm(K2) PROVE WritesFit(K2)'
    OBVIOUS
  <2>1. Calm(K) /\ place \notin written /\ WritesFit(K) /\ DistinctIn(K.of)
    BY <1>1, <1>8 DEF TableFits, StoreFits, Calm
  <2>2. ASSUME NEW p \in K.whole \cup DOMAIN K.opened PROVE p[1] # b
    <3>1. p = <<p[1], p[2]>> /\ Home(K, p[1], p[2]) /\ p \in written
      BY <2>1 DEF WritesFit
    <3>2. p[1] = b => p[2] = now.at
      BY <1>2, <2>1, <3>1, HomeIsUnique
    <3>3. p # place
      BY <2>1, <3>1
    <3> QED BY <3>1, <3>2, <3>3 DEF place
  <2>3. K2.whole \cup DOMAIN K2.opened \subseteq written'
    BY <1>3, <1>4, <1>6, <2>1 DEF WritesFit
  <2>4. \A p \in K2.whole \cup DOMAIN K2.opened : p = <<p[1], p[2]>> /\ Home(K2, p[1], p[2])
    BY <1>2, <1>3, <1>4, <1>5, <1>7, <2>1, HomeKept DEF WritesFit
  <2>5. \A p \in K2.whole : p[1] \in DOMAIN objects' => objects'[p[1]] \notin Workers
    BY <1>3, <1>10, <2>1, <2>2 DEF WritesFit
  <2>6. \A p \in DOMAIN K2.opened :
          p[1] \in DOMAIN objects' /\ objects'[p[1]] \in Workers => objects'[p[1]] = K2.opened[p]
    <3>1. \A p \in DOMAIN K.opened :
            p[1] \in DOMAIN objects' /\ objects'[p[1]] \in Workers => objects'[p[1]] = K2.opened[p]
      BY <1>4, <1>10, <2>1, <2>2 DEF WritesFit
    <3>2. objects'[place[1]] = K2.opened[place]
      BY <1>4, <1>5, <1>9, <1>10, <2>1
    <3> QED BY <1>4, <3>1, <3>2
  <2> QED BY <2>3, <2>4, <2>5, <2>6 DEF WritesFit
<1>12. StoreFits(K2)'
  <2>1. \A path \in DOMAIN objects' : objects'[path] \notin Workers => Home(K2, path, objects'[path])
    BY <1>1, <1>7, <1>10, HomeKept DEF TableFits, StoreFits
  <2>2. \A sha \in Contents : blobs'[sha].path # None => There(K2, blobs'[sha].path, sha)
    BY <1>1, <1>7, <1>10, ThereKept DEF TableFits, StoreFits
  <2>3. rewritten' \in BOOLEAN /\ (K2.clean <=> ~rewritten')
    BY <1>1, <1>3, <1>6 DEF TableFits, StoreFits
  <2>4. blobs' = [sha \in Contents |-> [path |-> blobs'[sha].path, refs |-> blobs'[sha].refs]]
    BY <1>1, <1>10 DEF TableFits, StoreFits
  <2> QED BY <1>11, <2>1, <2>2, <2>3, <2>4 DEF StoreFits
<1>13. TableFits(K2)'
  <2>1. \A f \in DOMAIN files : RowFits(K2, f, files[f])
    BY <1>1, <1>7, RowKept DEF TableFits
  <2> QED BY <1>1, <1>3, <1>10, <1>12, <2>1 DEF TableFits, KnowsSetup
<1> DEFINE x == Append(now.arg, r) next == [now EXCEPT !.do = "fill_target", !.arg = x]
<1>14. Good(K2, q, notes[r], next)
  <2>1. /\ now.arg = <<now.arg[1], now.arg[2], now.arg[3]>> /\ IsItem(now)
        /\ There(K, now.arg[1], now.at) /\ Yields(K, now.arg[2], now.arg[3])
    BY <1>1, <1>2 DEF Good
  <2>2. x[1] = now.arg[1] /\ x[2] = b /\ x[3] = now.arg[3] /\ x[4] = r
    <3>1. ASSUME NEW u, NEW v, NEW w, NEW z
          PROVE  LET y == Append(<<u, v, w>>, z) IN y[1] = u /\ y[2] = v /\ y[3] = w /\ y[4] = z
      OBVIOUS
    <3> QED BY <2>1, <3>1
  <2>3. There(K2, x[1], now.at) /\ Home(K2, x[2], now.at) /\ Yields(K2, x[2], x[3])
    BY <1>2, <1>7, <2>1, <2>2, HomeKept, ThereKept
  <2>4. Opened(K2, <<x[2], now.at>>, r)
    <3>1. Calm(K) => WritesFit(K)
      BY <1>1 DEF TableFits, StoreFits
    <3>2. Calm(K2) => place \in DOMAIN K2.opened /\ K2.opened[place] = r
      BY <1>4, <1>8, <1>9, <3>1
    <3> QED BY <2>2, <3>2 DEF Opened, place
  <2> HIDE DEF x
  <2>5. ASSUME NEW i, i = [now EXCEPT !.do = "fill_target", !.arg = x]
        PROVE  IsItem(i) /\ i.do = "fill_target" /\ i.at = now.at /\ i.arg = x
    BY <2>1, <2>5 DEF IsItem
  <2>6. IsItem(next) /\ next.do = "fill_target" /\ next.at = now.at /\ next.arg = x
    BY <2>5
  <2> HIDE DEF next
  <2> QED BY <2>2, <2>3, <2>4, <2>6 DEF Good
<1>15. Then(r, <<next>>)
  BY DEF WriteTarget
<1> HIDE DEF next
<1>16. Fits(K2)'
  BY <1>1, <1>7, <1>13, <1>14, <1>15, ThenAddingFits
<1> QED BY <1>16

\* What a writer leaves is the content, unless another one has been there.
LEMMA FilledIsHome ==
  ASSUME NEW K, Fits(K), NEW r, Good(K, request[r], notes[r], Now(r)),
         Now(r).do = "fill_target", Now(r).arg[2] \in DOMAIN objects,
         NEW content \in Copied(r),
         NEW left \in Mixed(Open(Now(r).arg[2]), content, Now(r).arg[4])
  PROVE  /\ left \notin Workers => Home(K, Now(r).arg[2], left)
         /\ Calm(K) => left \notin Workers
<1> DEFINE a == Now(r).arg[1] b == Now(r).arg[2] at == Now(r).at
<1>1. /\ There(K, a, at) /\ Home(K, b, at) /\ Yields(K, b, Now(r).arg[3])
      /\ Now(r).arg[4] \in Workers /\ Opened(K, <<b, at>>, Now(r).arg[4])
  BY DEF Good
<1>2. Yields(K, b, content)
  <2>1. CASE content = Now(r).arg[3]
    BY <1>1, <2>1
  <2>2. CASE content # Now(r).arg[3]
    <3>1. content = Open(a) /\ content # None
      BY <2>2 DEF Copied
    <3>2. Yields(K, a, content)
      BY <1>1, <3>1, ThereYields DEF Fits
    <3>3. Home(K, a, at)
      BY <1>1 DEF There
    <3> QED BY <1>1, <3>2, <3>3, HomeFollows DEF Yields
  <2> QED BY <2>1, <2>2
<1>3. Open(b) = objects[b] /\ (objects[b] \notin Workers => Home(K, b, objects[b]))
  BY DEF Open, Fits, TableFits, StoreFits
<1>4. left \in {content, Open(b), Now(r).arg[4]}
  BY DEF Mixed
<1>5. Calm(K) => left = content
  <2> SUFFICES ASSUME Calm(K) PROVE Open(b) \in {Now(r).arg[4], content}
    BY DEF Mixed
  <2> DEFINE place == <<b, at>>
  <2>1. WritesFit(K) /\ place \in DOMAIN K.opened /\ K.opened[place] = Now(r).arg[4]
    BY <1>1 DEF Opened, Fits, TableFits, StoreFits
  <2>2. place[1] = b
    OBVIOUS
  <2> HIDE DEF place
  <2>3. objects[b] \in Workers => objects[b] = Now(r).arg[4]
    BY <2>1, <2>2 DEF WritesFit
  <2>4. objects[b] \notin Workers => objects[b] = content
    BY <1>2, <1>3, HomeIsUnique DEF Yields, Calm
  <2> QED BY <1>3, <2>3, <2>4
<1> QED BY <1>1, <1>2, <1>3, <1>4, <1>5 DEF Yields

\* A target that has been filled is whole from then on.
LEMMA FillTargetFits ==
  ASSUME NEW K, Fits(K), Still, NEW r \in Workers, FillTarget(r)
  PROVE  \E K2 : Fits(K2)'
<1> DEFINE q == request[r] now == Now(r) b == now.arg[2] place == <<b, now.at>>
<1> PICK K2 : K2 = [rows |-> K.rows, of |-> K.of, whole |-> K.whole \cup {place},
                    opened |-> K.opened, clean |-> K.clean]
  OBVIOUS
<1>1. /\ TableFits(K) /\ jobs[r] # <<>> /\ now.do = "fill_target" /\ now.do \notin Special
      /\ MoveOn(r, "delete_source")
  BY DEF FillTarget, At, Special, Fits
<1>2. /\ Good(K, q, notes[r], now) /\ Home(K, b, now.at)
      /\ (Calm(K) => place \in DOMAIN K.opened)
  BY <1>1, PlainWorks DEF Good, Opened
<1>3. /\ K2.rows = K.rows /\ K2.of = K.of /\ K2.whole = K.whole \cup {place}
      /\ K2.opened = K.opened /\ K2.clean = K.clean
  OBVIOUS
<1>4. place[1] = b
  OBVIOUS
<1> HIDE DEF place
<1>5. Extends(K2, K) /\ Calm(K2) = Calm(K)
  BY <1>3 DEF Extends, Calm
<1>6. /\ blobs' = blobs /\ files' = files /\ issued' = issued
      /\ \A p \in DOMAIN objects' :
           /\ p \in DOMAIN objects /\ (p # b => objects'[p] = objects[p])
           /\ p = b => /\ objects'[p] \notin Workers => Home(K, p, objects'[p])
                       /\ Calm(K) => objects'[p] \notin Workers
  <2>1. CASE b \notin DOMAIN objects
    BY <1>1, <2>1 DEF FillTarget, Read, tableVars
  <2>2. CASE b \in DOMAIN objects
    <3>1. PICK content \in Copied(r) :
            \E left \in Mixed(Open(b), content, now.arg[4]) : ObjectsOnly(Write(b, left))
      BY <2>2 DEF FillTarget
    <3>2. PICK left \in Mixed(Open(b), content, now.arg[4]) : ObjectsOnly(Write(b, left))
      BY <3>1
    <3>3. /\ left \notin Workers => Home(K, b, left)
          /\ Calm(K) => left \notin Workers
      BY <1>1, <1>2, <2>2, FilledIsHome
    <3> QED BY <2>2, <3>2, <3>3 DEF ObjectsOnly, Write
  <2> QED BY <2>1, <2>2
<1>7. Calm(K2) => WritesFit(K2)'
  <2> SUFFICES ASSUME Calm(K) PROVE WritesFit(K2)'
    BY <1>5
  <2>1. WritesFit(K) /\ place \in DOMAIN K.opened
    BY <1>1, <1>2 DEF TableFits, StoreFits
  <2>2. K2.whole \cup DOMAIN K2.opened \subseteq written'
    BY <1>3, <2>1 DEF WritesFit, Still
  <2>3. \A p \in K2.whole \cup DOMAIN K2.opened : p = <<p[1], p[2]>> /\ Home(K2, p[1], p[2])
    BY <1>3, <1>5, <2>1, HomeKept DEF WritesFit
  <2>4. \A p \in K2.whole : p[1] \in DOMAIN objects' => objects'[p[1]] \notin Workers
    BY <1>3, <1>4, <1>6, <2>1 DEF WritesFit
  <2>5. \A p \in DOMAIN K2.opened :
          p[1] \in DOMAIN objects' /\ objects'[p[1]] \in Workers => objects'[p[1]] = K2.opened[p]
    BY <1>3, <1>6, <2>1 DEF WritesFit
  <2> QED BY <2>2, <2>3, <2>4, <2>5 DEF WritesFit
<1>8. StoreFits(K2)'
  <2>1. \A path \in DOMAIN objects' : objects'[path] \notin Workers => Home(K2, path, objects'[path])
    BY <1>1, <1>5, <1>6, HomeKept DEF TableFits, StoreFits
  <2>2. \A sha \in Contents : blobs'[sha].path # None => There(K2, blobs'[sha].path, sha)
    BY <1>1, <1>5, <1>6, ThereKept DEF TableFits, StoreFits
  <2>3. rewritten' \in BOOLEAN /\ (K2.clean <=> ~rewritten')
    BY <1>1, <1>3 DEF TableFits, StoreFits, Still
  <2>4. blobs' = [sha \in Contents |-> [path |-> blobs'[sha].path, refs |-> blobs'[sha].refs]]
    BY <1>1, <1>6 DEF TableFits, StoreFits
  <2> QED BY <1>7, <2>1, <2>2, <2>3, <2>4 DEF StoreFits
<1>9. TableFits(K2)'
  <2>1. \A f \in DOMAIN files : RowFits(K2, f, files[f])
    BY <1>1, <1>5, RowKept DEF TableFits
  <2> QED BY <1>1, <1>3, <1>6, <1>8, <2>1 DEF TableFits, KnowsSetup, Still
<1>10. There(K2, b, now.at)
  BY <1>2, <1>3, <1>5, HomeKept DEF There, place
<1>11. Fits(K2)'
  BY <1>1, <1>5, <1>9, <1>10, MoveOnFits
<1> QED BY <1>11

\* A copy relies on where it goes, not on where the original is.
LEMMA CopyingIsGood ==
  ASSUME NEW K, TableFits(K), NEW q, NEW l, NEW f \in DOMAIN files,
         NEW parent, Inside(K, parent, q.space)
  PROVE  Good(K, q, l, Copying(f, parent))
<1> DEFINE row == files[f] i == Copying(f, parent)
<1>1. IsRow(row) /\ IsSum(row.sha) /\ row.name \in Nat
  BY DEF TableFits, RowFits, KnowsSetup
<1>2. i = [Item("copy_row", f) EXCEPT !.at = parent, !.arg = row]
  BY DEF Copying
<1> HIDE DEF row, i
<1>3. IsItem(i) /\ i.do = "copy_row" /\ i.at = parent /\ i.arg = row
  BY <1>2 DEF Item, IsItem
<1>4. Good(K, q, l, i)
  BY <1>1, <1>3 DEF Good
<1> QED BY <1>4 DEF i

LEMMA CopyRowFits ==
  ASSUME NEW K, Fits(K), Still, NEW r \in Workers, CopyRow(r)
  PROVE  \E K2 : Fits(K2)'
<1> DEFINE q == request[r] old == Now(r).arg at == Now(r).at
           row == [old EXCEPT !.space = q.space, !.parent = at]
           list == ItemAt("copy_list", Now(r).id, issued + 1)
           ref == ItemFor("copy_ref", Now(r).id, old.sha)
           next == IF old.dir THEN list ELSE ref
<1>1. /\ TableFits(K) /\ jobs[r] # <<>> /\ Insert(row)
      /\ Now(r).do = "copy_row" /\ Now(r).do \notin Special
  BY DEF CopyRow, Fits, At, Special
<1>2. /\ IsRow(old) /\ IsSum(old.sha) /\ old.name \in Nat /\ Inside(K, at, q.space)
      /\ LocalsFit(K, q, notes[r])
  BY <1>1, PlainWorks DEF Good
<1> HIDE DEF row
<1>3. /\ IsRow(row) /\ row.parent = at /\ row.space = q.space /\ row.dir = old.dir
      /\ row.sha = old.sha /\ row.name = old.name
  <2>1. row = [old EXCEPT !.space = q.space, !.parent = at]
    BY DEF row
  <2> QED BY <1>2, <2>1 DEF IsRow
<1>4. PICK K2 : /\ Extends(K2, K) /\ TableFits(K2)'
                /\ Held(K2, issued + 1, row.space) /\ K2.rows[issued + 1].dir = row.dir
  BY <1>1, <1>2, <1>3, InsertFits
<1>5. Good(K2, q, notes[r], next)
  <2>1. CASE old.dir
    <3>1. IsDir(K2, issued + 1, q.space)
      BY <1>3, <1>4, <2>1 DEF IsDir
    <3>2. Good(K2, q, notes[r], list)
      BY <3>1, ItemsAreItems DEF Good
    <3> QED BY <2>1, <3>2
  <2>2. CASE ~old.dir
    <3>1. Good(K2, q, notes[r], ref)
      BY ItemsAreItems, HarmlessIsGood DEF Harmless
    <3> QED BY <2>2, <3>1
  <2> QED BY <2>1, <2>2
<1>6. Then(r, <<next>>)
  BY DEF CopyRow
<1> HIDE DEF next
<1>7. Goes(r, <<next>>) /\ request' = request /\ notes' = [notes EXCEPT ![r] = notes[r]]
  BY <1>6 DEF Then, Fits, WorkFits
<1> DEFINE T == {next} items == <<next>>
<1>8. items \in Seq(T) /\ \A i \in T : Good(K2, q, notes[r], i)
  BY <1>5
<1>9. LocalsFit(K2, q, notes[r]) /\ Goes(r, items)
  BY <1>2, <1>4, <1>7, LocalsKept
<1> HIDE DEF T, items
<1>10. Fits(K2)'
  BY <1>1, <1>4, <1>7, <1>8, <1>9, GoesFits
<1> QED BY <1>10

LEMMA CopyFits ==
  ASSUME NEW K, Fits(K), Still, NEW r \in Workers,
         Copy(r) \/ CopyList(r) \/ CopyReference(r)
  PROVE  Fits(K)'
<1> DEFINE f == Now(r).id q == request[r]
<1>1. TableFits(K)
  BY DEF Fits
<1>2. CASE Copy(r)
  <2>1. jobs[r] # <<>> /\ Now(r).do = "copy" /\ Now(r).do \notin Special /\ TableFits(K)'
    BY <1>1, <1>2, ReadFits DEF Copy, At, Special, Read, tableVars
  <2>2. \/ Verdict(f, q.space) = 200 /\ Then(r, <<Copying(f, q.to)>>)
        \/ \E code : Fail(r, code)
    BY <1>2 DEF Copy
  <2>3. ASSUME Verdict(f, q.space) = 200 PROVE Good(K, q, notes[r], Copying(f, q.to))
    <3>1. f \in DOMAIN files
      BY <2>3, FoundIsLive
    <3>2. Inside(K, q.to, q.space)
      BY <2>1, PlainWorks DEF Good
    <3> QED BY <1>1, <3>1, <3>2, CopyingIsGood
  <2> QED BY <2>1, <2>2, <2>3, ThenOneFits, FailFits
<1>3. CASE CopyList(r)
  <2> DEFINE at == Now(r).at
             rows == ListChildren(f)
             items == Each(rows, LAMBDA g : Copying(g, at))
             T == {Copying(g, at) : g \in DOMAIN files}
  <2>1. jobs[r] # <<>> /\ Now(r).do = "copy_list" /\ Now(r).do \notin Special /\ TableFits(K)'
    BY <1>1, <1>3, ReadFits DEF CopyList, At, Special, Read, tableVars
  <2>2. Then(r, items)
    BY <1>3 DEF CopyList
  <2>3. \A i \in T : Good(K, q, notes[r], i)
    <3>1. Inside(K, at, q.space)
      BY <2>1, PlainWorks DEF Good, Inside
    <3> QED BY <1>1, <3>1, CopyingIsGood
  <2>4. items \in Seq(T)
    <3>1. rows \in Seq(DOMAIN files)
      BY <1>1, ChildrenAreRows
    <3> HIDE DEF rows
    <3> QED BY <3>1 DEF Each
  <2> HIDE DEF items, T
  <2> QED BY <2>1, <2>2, <2>3, <2>4, ThenFits
<1>4. CASE CopyReference(r)
  <2>1. jobs[r] # <<>> /\ Now(r).do \notin Special /\ TableFits(K)' /\ Done(r)
    BY <1>1, <1>4, RefsFit DEF CopyReference, At, Special
  <2> QED BY <2>1, DoneFits
<1> QED BY <1>2, <1>3, <1>4

LEMMA ManifestFits ==
  ASSUME NEW K, Fits(K), Still, NEW r \in Workers, ManifestStep(r), ~WriteTarget(r)
  PROVE  \E K2 : Fits(K2)'
<1>1. CASE MakeRoot(r)
  BY <1>1, MakeRootFits
<1>2. CASE MakeDir(r)
  BY <1>2, MakeDirFits
<1>3. CASE CopyRow(r)
  BY <1>3, CopyRowFits
<1>4. CASE FillTarget(r)
  BY <1>4, FillTargetFits
<1>5. CASE ~MakeRoot(r) /\ ~MakeDir(r) /\ ~CopyRow(r) /\ ~FillTarget(r)
  <2>1. Fits(K)'
    BY <1>5, ValidateFits, AdoptFits, RelocateFits, CopyFits DEF ManifestStep
  <2> QED BY <2>1
<1> QED BY <1>1, <1>2, <1>3, <1>4, <1>5

-----------------------------------------------------------------------------
(* Downloads, listings and the scan: they read, and note what they find.   *)

LEMMA ThenListFits ==
  ASSUME NEW K, Fits(K), TableFits(K)', Still,
         NEW r \in Workers, jobs[r] # <<>>, Now(r).do \notin Special,
         NEW T, \A i \in T : IsItem(i) /\ i.do \in Harmless,
         NEW items \in Seq(T), Then(r, items)
  PROVE  Fits(K)'
<1>1. \A i \in T : Good(K, request[r], notes[r], i)
  BY HarmlessIsGood
<1> QED BY <1>1, ThenFits

LEMMA FindingFits ==
  ASSUME NEW K, Fits(K), TableFits(K)', Still,
         NEW r \in Workers, jobs[r] # <<>>, Now(r).do \notin Special,
         NEW T, \A i \in T : IsItem(i) /\ i.do \in Harmless, NEW items \in Seq(T),
         NEW found, IsList(found) \/ request[r].op = "scan", Finding(r, items, found)
  PROVE  Fits(K)'
<1> DEFINE all == notes[r].found \o found
           l == [notes[r] EXCEPT !.found = all]
<1>1. ThenNoting(r, items, l)
  BY DEF Finding
<1>2. LocalsFit(K, request[r], l) /\ l.made = notes[r].made
  <2>1. LocalsFit(K, request[r], notes[r])
    BY PlainWorks
  <2>2. IsList(all) \/ request[r].op = "scan"
    BY <2>1, MoreIsList DEF LocalsFit
  <2> HIDE DEF all
  <2> QED BY <2>1, <2>2, FoundFits
<1> HIDE DEF l
<1>3. \A i \in T : Good(K, request[r], l, i)
  BY HarmlessIsGood
<1> QED BY <1>1, <1>2, <1>3, NotingFits

LEMMA FoundOneFits ==
  ASSUME NEW K, Fits(K), TableFits(K)', Still,
         NEW r \in Workers, jobs[r] # <<>>, Now(r).do \notin Special,
         NEW found, IsList(found) \/ request[r].op = "scan", Finding(r, <<>>, found)
  PROVE  Fits(K)'
<1> DEFINE T == {i \in {0} : FALSE} items == <<>>
<1>1. items \in Seq(T) /\ Finding(r, items, found)
  OBVIOUS
<1>2. \A i \in T : IsItem(i) /\ i.do \in Harmless
  OBVIOUS
<1> HIDE DEF T, items
<1> QED BY <1>1, <1>2, FindingFits

LEMMA SentFits ==
  ASSUME NEW K, NEW q, NEW l, LocalsFit(K, q, l),
         NEW sent, IsList(sent), \A piece \in Range(sent) : PieceFits(K, piece)
  PROVE  /\ LocalsFit(K, q, [l EXCEPT !.sent = sent])
         /\ [l EXCEPT !.sent = sent].made = l.made
<1> DEFINE l2 == [l EXCEPT !.sent = sent]
<1>1. /\ l2.undo = l.undo /\ l2.made = l.made /\ l2.found = l.found /\ l2.sent = sent
      /\ l2 = [status |-> l2.status, undo |-> l2.undo, pending |-> l2.pending, made |-> l2.made,
               found |-> l2.found, sent |-> l2.sent]
  BY DEF LocalsFit
<1> HIDE DEF l2
<1>2. Extends(K, K)
  BY DEF Extends
<1>3. \A i \in Range(l.undo) : Good(K, q, l2, i)
  BY <1>1, <1>2, GoodKept DEF LocalsFit
<1>4. LocalsFit(K, q, l2)
  BY <1>1, <1>3 DEF LocalsFit
<1> QED BY <1>1, <1>4 DEF l2

LEMMA SendingFits ==
  ASSUME NEW K, Fits(K), TableFits(K)', Still,
         NEW r \in Workers, jobs[r] # <<>>, Now(r).do \notin Special,
         NEW piece, PieceFits(K, piece), Sending(r, piece)
  PROVE  Fits(K)'
<1> DEFINE sent == Append(notes[r].sent, piece)
           l == [notes[r] EXCEPT !.sent = sent]
<1>1. ThenNoting(r, <<>>, l)
  BY DEF Sending
<1>2. LocalsFit(K, request[r], l) /\ l.made = notes[r].made
  <2> DEFINE T == Range(notes[r].sent) \cup {piece}
  <2>1. LocalsFit(K, request[r], notes[r])
    BY PlainWorks
  <2>2. notes[r].sent \in Seq(T) /\ piece \in T
    BY <2>1 DEF LocalsFit, IsList
  <2>3. \A x \in T : PieceFits(K, x)
    BY <2>1 DEF LocalsFit
  <2> HIDE DEF T
  <2>4. sent \in Seq(T)
    BY <2>2
  <2> HIDE DEF sent
  <2>5. IsList(sent) /\ Range(sent) \subseteq T
    BY <2>4, ListIsList DEF Range
  <2> QED BY <2>1, <2>3, <2>5, SentFits
<1> HIDE DEF sent
<1> HIDE DEF l
<1> QED BY <1>1, <1>2, NotingNothingFits

LEMMA EmptyIsList == IsList(<<>>)
BY DEF IsList

LEMMA OneIsList == ASSUME NEW x PROVE IsList(<<x>>)
<1>1. <<x>> \in Seq({x})
  OBVIOUS
<1> QED BY <1>1, ListIsList

LEMMA DirManifestFits ==
  ASSUME NEW K, Fits(K), Still, NEW r \in Workers,
         GetDirManifest(r) \/ WalkDir(r) \/ StreamDir(r)
  PROVE  Fits(K)'
<1> DEFINE f == Now(r).id
<1>1. TableFits(K)
  BY DEF Fits
<1>2. CASE GetDirManifest(r)
  <2> DEFINE walk == ItemFor("walk", f, <<>>) stream == Item("stream", f)
             T == {walk, stream} items == <<walk, stream>>
  <2>1. jobs[r] # <<>> /\ Now(r).do = "get_dir" /\ Now(r).do \notin Special /\ TableFits(K)'
    BY <1>1, <1>2, ReadFits DEF GetDirManifest, At, Special, Read, tableVars
  <2>2. Then(r, items) \/ \E code : Fail(r, code)
    BY <1>2 DEF GetDirManifest
  <2>3. Good(K, request[r], notes[r], walk)
    BY ItemsAreItems, HarmlessIsGood DEF Harmless
  <2>4. Good(K, request[r], notes[r], stream)
    <3>1. request[r].op # "scan"
      BY <2>1, PlainWorks DEF Good
    <3> QED BY <3>1, ItemsAreItems DEF Good
  <2> HIDE DEF walk, stream
  <2>5. items \in Seq(T) /\ \A i \in T : Good(K, request[r], notes[r], i)
    BY <2>3, <2>4
  <2> HIDE DEF items, T
  <2> QED BY <2>1, <2>2, <2>5, ThenFits, FailFits
<1>3. CASE WalkDir(r)
  <2> DEFINE prefix == Now(r).arg
             children == ListChildren(f)
             dirs == Those(children, LAMBDA g : files[g].dir)
             others == Those(children, LAMBDA g : ~files[g].dir)
             items == Each(dirs, LAMBDA g : ItemFor("walk", g, RelPath(g, prefix)))
             found == Each(others, LAMBDA g : Entry(g, prefix))
             T == {ItemFor("walk", g, RelPath(g, prefix)) : g \in DOMAIN files}
             U == {Entry(g, prefix) : g \in DOMAIN files}
  <2>1. jobs[r] # <<>> /\ Now(r).do \notin Special /\ TableFits(K)'
    BY <1>1, <1>3, ReadFits DEF WalkDir, At, Special, Read, tableVars
  <2>2. Finding(r, items, found)
    BY <1>3 DEF WalkDir
  <2>3. dirs \in Seq(DOMAIN files) /\ others \in Seq(DOMAIN files)
    <3>1. children \in Seq(DOMAIN files)
      BY <1>1, ChildrenAreRows
    <3> HIDE DEF children
    <3> QED BY <3>1, ChosenIsList DEF Those, InOrder
  <2> HIDE DEF dirs, others
  <2>4. items \in Seq(T) /\ found \in Seq(U)
    BY <2>3 DEF Each
  <2>5. \A i \in T : IsItem(i) /\ i.do \in Harmless
    BY ItemsAreItems DEF Harmless
  <2> HIDE DEF items, found, T, U
  <2>6. IsList(found)
    BY <2>4, ListIsList
  <2> QED BY <2>1, <2>2, <2>4, <2>5, <2>6, FindingFits
<1>4. CASE StreamDir(r)
  <2> DEFINE list == notes[r].found
             sorted == Sorted(list, LAMBDA a, b : PathOrder(a.path, b.path))
             items == Each(sorted, LAMBDA e : ItemAt("pack", e.file, e.path))
             T == {ItemAt("pack", e.file, e.path) : e \in Range(list)}
  <2>1. jobs[r] # <<>> /\ Now(r).do = "stream" /\ Now(r).do \notin Special /\ TableFits(K)'
    BY <1>1, <1>4, ReadFits DEF StreamDir, At, Special, Read, tableVars
  <2>2. Then(r, items)
    BY <1>4 DEF StreamDir
  <2>3. list \in Seq(Range(list))
    <3>1. request[r].op # "scan" /\ LocalsFit(K, request[r], notes[r])
      BY <2>1, PlainWorks DEF Good
    <3> QED BY <3>1 DEF LocalsFit, IsList
  <2>4. sorted \in Seq(Range(list))
    <3> HIDE DEF list
    <3> QED BY <2>3, ChosenIsList DEF Sorted, InOrder
  <2>5. items \in Seq(T)
    <3> HIDE DEF sorted, list
    <3> QED BY <2>4 DEF Each
  <2>6. \A i \in T : IsItem(i) /\ i.do \in Harmless
    BY ItemsAreItems DEF Harmless
  <2> HIDE DEF items, T
  <2> QED BY <2>1, <2>2, <2>5, <2>6, ThenListFits
<1> QED BY <1>2, <1>3, <1>4

\* What is read where a content has been is that content.
LEMMA ReadIsHonest ==
  ASSUME NEW K, Fits(K), NEW path, NEW sha, There(K, path, sha), Open(path) # None,
         NEW piece, piece.sha = sha, piece.content = Open(path),
         Calm(K) /\ Open(path) = sha /\ piece.length >= 0 => piece.bytes = piece.length
  PROVE  PieceFits(K, piece)
<1>1. Yields(K, path, Open(path)) /\ Home(K, path, sha)
  BY ThereYields DEF Fits, There
<1>2. Calm(K) => Open(path) = sha
  BY <1>1, HomeIsUnique DEF Yields, Calm
<1> QED BY <1>2 DEF PieceFits

\* The length of a content that is not a writer's.
LEMMA LengthIsSize ==
  ASSUME NEW K, TableFits(K), NEW path, NEW sha, There(K, path, sha), Calm(K), Open(path) = sha,
         sha # None
  PROVE  Length(sha) = Size[sha]
<1>1. Yields(K, path, sha)
  BY ThereYields
<1> QED BY <1>1 DEF Yields, Length

LEMMA PackFits ==
  ASSUME NEW K, Fits(K), Still, NEW r \in Workers,
         Pack(r) \/ PackBlob(r) \/ PackObject(r)
  PROVE  Fits(K)'
<1> DEFINE q == request[r] now == Now(r)
<1>1. TableFits(K)
  BY DEF Fits
<1>2. ASSUME jobs[r] # <<>>, now.do \notin Special PROVE IsItem(now)
  BY <1>2, PlainWorks DEF Good
<1>3. CASE Pack(r)
  <2> DEFINE f == now.id sha == files[f].sha next == [now EXCEPT !.do = "pack_blob", !.arg = sha]
  <2>1. jobs[r] # <<>> /\ now.do \notin Special /\ TableFits(K)'
    BY <1>1, <1>3, ReadFits DEF Pack, At, Special, Read, tableVars
  <2>2. Done(r) \/ (Live(f) /\ Then(r, <<next>>))
    BY <1>3 DEF Pack
  <2>3. ASSUME Live(f) PROVE Good(K, q, notes[r], next)
    <3>1. IsSum(sha)
      BY <1>1, <2>3 DEF Live, TableFits, RowFits, KnowsSetup
    <3> HIDE DEF sha
    <3>2. ASSUME NEW i, i = next PROVE IsItem(i) /\ i.do = "pack_blob" /\ i.arg = sha
      BY <1>2, <2>1, <3>2 DEF IsItem
    <3> HIDE DEF next
    <3> QED BY <3>1, <3>2 DEF Good
  <2> HIDE DEF next
  <2> QED BY <2>1, <2>2, <2>3, DoneFits, ThenOneFits
<1>4. CASE PackBlob(r)
  <2> DEFINE sha == now.arg blob == GetBlobBySha(sha) x == <<sha, blob.path>>
             next == [now EXCEPT !.do = "pack_object", !.arg = x]
  <2>1. /\ jobs[r] # <<>> /\ now.do = "pack_blob" /\ now.do \notin Special /\ TableFits(K)'
    BY <1>1, <1>4, ReadFits DEF PackBlob, At, Special, Read, tableVars
  <2>2. Done(r) \/ (blob # None /\ Then(r, <<next>>))
    BY <1>4 DEF PackBlob
  <2>3. ASSUME blob # None PROVE Good(K, q, notes[r], next)
    <3>1. IsSum(sha)
      BY <2>1, PlainWorks DEF Good
    <3>2. There(K, blob.path, sha)
      BY <1>1, <2>3, <3>1, BlobIsThere
    <3>3. x[1] = sha /\ x[2] = blob.path
      OBVIOUS
    <3> HIDE DEF x, sha, blob
    <3>4. ASSUME NEW i, i = next PROVE IsItem(i) /\ i.do = "pack_object" /\ i.arg = x
      BY <1>2, <2>1, <3>4 DEF IsItem
    <3> HIDE DEF next
    <3> QED BY <3>2, <3>3, <3>4 DEF Good
  <2> HIDE DEF next, blob
  <2> QED BY <2>1, <2>2, <2>3, DoneFits, ThenOneFits
<1>5. CASE PackObject(r)
  <2> DEFINE sha == now.arg[1] path == now.arg[2] content == Open(path)
             piece == Piece(now.at, sha, content, Size[sha], Length(content))
  <2>1. /\ jobs[r] # <<>> /\ now.do = "pack_object" /\ now.do \notin Special /\ TableFits(K)'
    BY <1>1, <1>5, ReadFits DEF PackObject, At, Special, Read, tableVars
  <2>2. Done(r) \/ (content # None /\ Sending(r, piece))
    BY <1>5 DEF PackObject
  <2>3. There(K, path, sha)
    BY <2>1, PlainWorks DEF Good
  <2>4. /\ piece.sha = sha /\ piece.content = content
        /\ piece.length = Size[sha] /\ piece.bytes = Length(content)
    BY DEF Piece
  <2> HIDE DEF piece, sha, path
  <2>5. content # None => PieceFits(K, piece)
    BY <1>1, <2>3, <2>4, LengthIsSize, ReadIsHonest
  <2> QED BY <2>1, <2>2, <2>5, DoneFits, SendingFits
<1> QED BY <1>3, <1>4, <1>5

LEMMA FetchFits ==
  ASSUME NEW K, Fits(K), Still, NEW r \in Workers, FetchFiles(r) \/ FetchBlobs(r)
  PROVE  Fits(K)'
<1>1. TableFits(K)
  BY DEF Fits
<1>2. CASE FetchFiles(r)
  <2> DEFINE all == request[r].ids
             Asked(f) == /\ f \in GetFilesByIDs(all)
                         /\ ~files[f].dir /\ files[f].space = request[r].space
             ids == Those(all, LAMBDA f :
                      /\ f \in GetFilesByIDs(all)
                      /\ ~files[f].dir /\ files[f].space = request[r].space)
             arg == Each(ids, LAMBDA f : [name |-> files[f].name, sha |-> files[f].sha])
             next == ItemFor("fetch_blobs", None, arg)
             Found == {all[i] : i \in {j \in DOMAIN all : Asked(all[j])}}
  <2>1. jobs[r] # <<>> /\ Now(r).do = "fetch" /\ Now(r).do \notin Special /\ TableFits(K)'
    BY <1>1, <1>2, ReadFits DEF FetchFiles, At, Special, Read, tableVars
  <2>2. Then(r, <<next>>)
    BY <1>2 DEF FetchFiles
  <2>3. all \in Seq(Range(all))
    BY <2>1, PlainWorks DEF Good, IsList
  <2>4. ids \in Seq(Found)
    <3> HIDE DEF all
    <3> QED BY <2>3, ChosenAreChosen DEF Those, InOrder
  <2>5. \A f \in Found : IsSum(files[f].sha)
    BY <1>1 DEF GetFilesByIDs, Live, TableFits, RowFits, KnowsSetup
  <2>6. IsList(arg) /\ \A e \in Range(arg) : IsSum(e.sha)
    <3> DEFINE T == {[name |-> files[f].name, sha |-> files[f].sha] : f \in Found}
    <3>1. \A e \in T : IsSum(e.sha)
      <4> HIDE DEF Found
      <4> QED BY <2>5
    <3>2. arg \in Seq(T)
      <4> HIDE DEF ids, all, Found
      <4> QED BY <2>4 DEF Each
    <3> HIDE DEF arg, T
    <3>3. Range(arg) \subseteq T
      BY <3>2 DEF Range
    <3> QED BY <3>1, <3>2, <3>3, ListIsList
  <2>7. Good(K, request[r], notes[r], next)
    <3> HIDE DEF arg
    <3>1. IsItem(next) /\ next.do = "fetch_blobs" /\ next.arg = arg
      BY ItemsAreItems
    <3> HIDE DEF next
    <3> QED BY <2>6, <3>1 DEF Good
  <2> HIDE DEF next
  <2> QED BY <2>1, <2>2, <2>7, ThenOneFits
<1>3. CASE FetchBlobs(r)
  <2> DEFINE all == Now(r).arg
             Kept(e) == e.sha \in GetBlobsBySha({e.sha})
             entries == Those(all, LAMBDA e : e.sha \in GetBlobsBySha({e.sha}))
             x(i) == <<entries[i].sha, blobs[entries[i].sha].path>>
             item(i) == [Item("pack_object", None) EXCEPT
                           !.at = NumberedName(entries, i),
                           !.arg = x(i)]
             list == [i \in 1 .. Len(entries) |-> item(i)]
             items == Sorted(list, LAMBDA p, q : PathOrder(p.at, q.at))
             T == {item(i) : i \in 1 .. Len(entries)}
             Found == {all[i] : i \in {j \in DOMAIN all : Kept(all[j])}}
  <2>1. jobs[r] # <<>> /\ Now(r).do = "fetch_blobs" /\ Now(r).do \notin Special /\ TableFits(K)'
    BY <1>1, <1>3, ReadFits DEF FetchBlobs, At, Special, Read, tableVars
  <2>2. Fail(r, 404) \/ Then(r, items)
    BY <1>3 DEF FetchBlobs
  <2>3. all \in Seq(Range(all)) /\ \A e \in Range(all) : IsSum(e.sha)
    BY <2>1, PlainWorks DEF Good, IsList
  <2>4. entries \in Seq(Found)
    <3> HIDE DEF all
    <3> QED BY <2>3, ChosenAreChosen DEF Those, InOrder
  <2>5. \A e \in Found : There(K, blobs[e.sha].path, e.sha)
    <3> SUFFICES ASSUME NEW e \in Found PROVE There(K, blobs[e.sha].path, e.sha)
      OBVIOUS
    <3>1. IsSum(e.sha) /\ GetBlobBySha(e.sha) # None
      BY <2>3 DEF GetBlobsBySha, Range
    <3>2. GetBlobBySha(e.sha) = blobs[e.sha]
      BY <3>1 DEF GetBlobBySha
    <3> QED BY <1>1, <3>1, <3>2, BlobIsThere
  <2>6. list \in Seq(T)
    <3> HIDE DEF entries, item
    <3> QED BY <2>4
  <2>7. items \in Seq(T)
    <3> HIDE DEF list, T
    <3> QED BY <2>6, ChosenIsList DEF Sorted, InOrder
  <2>8. \A i \in T : Good(K, request[r], notes[r], i)
    <3>1. ASSUME NEW n \in 1 .. Len(entries) PROVE Good(K, request[r], notes[r], item(n))
      <4>1. entries[n] \in Found
        <5> HIDE DEF entries, Found
        <5> QED BY <2>4
      <4>2. There(K, blobs[entries[n].sha].path, entries[n].sha)
        <5> HIDE DEF entries, Found
        <5> QED BY <2>5, <4>1
      <4>3. ASSUME NEW i, i = item(n) PROVE IsItem(i) /\ i.do = "pack_object" /\ i.arg = x(n)
        <5> HIDE DEF x, entries
        <5> QED BY <4>3 DEF Item, IsItem
      <4>4. x(n)[1] = entries[n].sha /\ x(n)[2] = blobs[entries[n].sha].path
        <5> HIDE DEF entries
        <5> QED OBVIOUS
      <4> HIDE DEF item, x, entries
      <4> QED BY <4>2, <4>3, <4>4 DEF Good
    <3> HIDE DEF item
    <3> QED BY <3>1
  <2> HIDE DEF items, T
  <2> QED BY <2>1, <2>2, <2>7, <2>8, ThenFits, FailFits
<1> QED BY <1>2, <1>3

\* A range that begins in the file is read to the length it is announced with.
LEMMA RangeIsRead ==
  ASSUME NEW h, RangeFits(h), NEW size \in Nat, ~OutOfFile(ParseRange(h), size)
  PROVE  LET rng == Normalized(ParseRange(h), size) IN
         rng.length >= 0 => BytesRead(rng, size) = rng.length
<1> DEFINE asked == ParseRange(h) rest == size - asked.offset rng == Normalized(asked, size)
<1>1. /\ asked = [offset |-> asked.offset, length |-> asked.length, requested |-> asked.requested]
      /\ asked.offset \in Nat /\ asked.length \in Int /\ asked.offset <= size
  <2>1. CASE h = None
    BY <2>1 DEF ParseRange, NoRange
  <2>2. CASE h # None
    <3>1. h.start \in Nat /\ (h.end # None => h.end \in Nat)
      BY <2>2 DEF RangeFits
    <3>2. h.end # None => Wrapped(h.end - h.start + 1) \in Int
      BY <3>1, SizesAreNumbers DEF Wrapped
    <3>3. /\ asked.offset = h.start /\ asked.requested
          /\ asked = [offset |-> asked.offset, length |-> asked.length, requested |-> asked.requested]
          /\ asked.length = IF h.end = None THEN 0 ELSE Wrapped(h.end - h.start + 1)
      BY <2>2 DEF ParseRange
    <3> HIDE DEF asked
    <3>4. ~(asked.offset >= size)
      BY <3>3 DEF OutOfFile, asked
    <3> QED BY <3>1, <3>2, <3>3, <3>4
  <2> QED BY <2>1, <2>2
<1> HIDE DEF asked
<1>2. rest \in Nat
  BY <1>1
<1>3. /\ rng.offset = asked.offset
      /\ rng.length = IF asked.length = 0 \/ asked.length > rest THEN rest ELSE asked.length
  BY <1>1 DEF Normalized
<1> HIDE DEF rng, rest
<1>4. rng.length >= 0 => BytesRead(rng, size) = rng.length
  <2>1. size - rng.offset = rest
    BY <1>3 DEF rest
  <2> QED BY <1>1, <1>2, <1>3, <2>1 DEF BytesRead
<1> QED BY <1>4 DEF rng, asked

LEMMA GetFits ==
  ASSUME NEW K, Fits(K), Still, NEW r \in Workers,
         GetFileContent(r) \/ GetBlob(r) \/ GetObject(r)
  PROVE  Fits(K)'
<1> DEFINE q == request[r] now == Now(r)
<1>1. TableFits(K)
  BY DEF Fits
<1>2. CASE GetFileContent(r)
  <2> DEFINE f == now.id sha == files[f].sha next == ItemFor("get_blob", f, sha)
  <2>1. jobs[r] # <<>> /\ now.do = "get" /\ now.do \notin Special /\ TableFits(K)'
    BY <1>1, <1>2, ReadFits DEF GetFileContent, At, Special, Read, tableVars
  <2>2. (Verdict(f, q.space) = 200 /\ Then(r, <<next>>)) \/ \E code : Fail(r, code)
    BY <1>2 DEF GetFileContent
  <2>3. ASSUME Verdict(f, q.space) = 200 PROVE Good(K, q, notes[r], next)
    <3>1. IsSum(sha)
      BY <1>1, <2>3, FoundIsLive DEF TableFits, RowFits, KnowsSetup
    <3>2. RangeFits(q.arg)
      BY <2>1, PlainWorks DEF Good
    <3> HIDE DEF sha
    <3>3. IsItem(next) /\ next.do = "get_blob" /\ next.arg = sha
      BY ItemsAreItems
    <3> HIDE DEF next
    <3> QED BY <3>1, <3>2, <3>3 DEF Good
  <2> HIDE DEF next
  <2> QED BY <2>1, <2>2, <2>3, ThenOneFits, FailFits
<1>3. CASE GetBlob(r)
  <2> DEFINE sha == now.arg blob == GetBlobBySha(sha) asked == ParseRange(q.arg)
             rng == Normalized(asked, Size[sha])
             next == [Item("get_object", blob.path) EXCEPT !.at = sha, !.arg = rng]
  <2>1. jobs[r] # <<>> /\ now.do = "get_blob" /\ now.do \notin Special /\ TableFits(K)'
    BY <1>1, <1>3, ReadFits DEF GetBlob, At, Special, Read, tableVars
  <2>2. \/ blob # None /\ ~OutOfFile(asked, Size[sha]) /\ Then(r, <<next>>)
        \/ \E code : Fail(r, code)
    BY <1>3 DEF GetBlob
  <2>3. ASSUME blob # None, ~OutOfFile(asked, Size[sha]) PROVE Good(K, q, notes[r], next)
    <3>1. IsSum(sha) /\ RangeFits(q.arg)
      BY <2>1, PlainWorks DEF Good
    <3>2. There(K, blob.path, sha)
      BY <1>1, <2>3, <3>1, BlobIsThere
    <3>3. Size[sha] \in Nat
      BY <2>3, <3>1, SizesAreNumbers DEF IsSum, GetBlobBySha
    <3>4. rng.length >= 0 => BytesRead(rng, Size[sha]) = rng.length
      BY <2>3, <3>1, <3>3, RangeIsRead
    <3> HIDE DEF sha, blob, asked, rng
    <3>5. ASSUME NEW i, i = next
          PROVE  IsItem(i) /\ i.do = "get_object" /\ i.id = blob.path /\ i.at = sha /\ i.arg = rng
      BY <3>5 DEF Item, IsItem
    <3> HIDE DEF next
    <3> QED BY <3>2, <3>4, <3>5 DEF Good
  <2> HIDE DEF next, blob, asked
  <2> QED BY <2>1, <2>2, <2>3, ThenOneFits, FailFits
<1>4. CASE GetObject(r)
  <2> DEFINE sha == now.at path == now.id content == Open(path) rng == now.arg
             piece == Piece(<<>>, sha, content, rng.length, BytesRead(rng, Length(content)))
  <2>1. jobs[r] # <<>> /\ now.do = "get_object" /\ now.do \notin Special /\ TableFits(K)'
    BY <1>1, <1>4, ReadFits DEF GetObject, At, Special, Read, tableVars
  <2>2. Fail(r, 404) \/ (content # None /\ Sending(r, piece))
    BY <1>4 DEF GetObject
  <2>3. There(K, path, sha) /\ (rng.length >= 0 => BytesRead(rng, Size[sha]) = rng.length)
    BY <2>1, PlainWorks DEF Good
  <2>4. /\ piece.sha = sha /\ piece.content = content
        /\ piece.length = rng.length /\ piece.bytes = BytesRead(rng, Length(content))
    BY DEF Piece
  <2> HIDE DEF piece, sha, path, rng
  <2>5. content # None => PieceFits(K, piece)
    BY <1>1, <2>3, <2>4, LengthIsSize, ReadIsHonest
  <2> QED BY <2>1, <2>2, <2>5, FailFits, SendingFits
<1> QED BY <1>2, <1>3, <1>4

\* A page is some of the rows.
LEMMA PageIsRows ==
  ASSUME NEW K, TableFits(K), NEW rows \in SUBSET DOMAIN files, NEW type,
         NEW page \in Nat, NEW perPage \in Nat
  PROVE  ListPage(rows, type, page, perPage).children \in Seq(DOMAIN files)
<1> DEFINE S == {f \in rows : TypeClause(type, f)}
           all == InOrder(S, NameOrder)
           o == Offset(page, perPage)
           last == IF o + perPage < Len(all) THEN o + perPage ELSE Len(all)
<1>1. all \in Seq(DOMAIN files)
  <2>1. S \in SUBSET DOMAIN files
    OBVIOUS
  <2>2. all \in Seq(S)
    <3> HIDE DEF S
    <3> QED BY <2>1, TablesAreFinite, PlacedIsList DEF InOrder
  <2> HIDE DEF all
  <2> QED BY <2>1, <2>2
<1>2. o \in Nat
  <2>1. \A a, b \in Nat : a * b \in Nat
    OBVIOUS
  <2>2. CASE page = 0
    BY <2>2 DEF Offset
  <2>3. CASE page # 0
    <3>1. page - 1 \in Nat
      BY <2>3
    <3> QED BY <2>1, <2>3, <3>1 DEF Offset
  <2> QED BY <2>2, <2>3
<1> HIDE DEF o, S
<1>3. ListPage(rows, type, page, perPage).children = SubSeq(all, o + 1, last)
  BY DEF ListPage, Rows, S, o
<1> HIDE DEF all
<1>4. last \in Int /\ o + 1 \in Int /\ \A i \in o + 1 .. last : all[i] \in DOMAIN files
  <2>1. Len(all) \in Nat /\ DOMAIN all = 1 .. Len(all) /\ \A i \in 1 .. Len(all) : all[i] \in DOMAIN files
    BY <1>1
  <2> QED BY <1>2, <2>1
<1> HIDE DEF last
<1> QED BY <1>3, <1>4, SubSeqProperties

LEMMA ListingFits ==
  ASSUME NEW K, Fits(K), Still, NEW r \in Workers,
         NEW store, ListDirPage(r) \/ ListedPage(r, store)
  PROVE  Fits(K)'
<1>1. TableFits(K)
  BY DEF Fits
<1>2. CASE ListDirPage(r)
  <2> DEFINE dir == request[r].to up == IF dir = None THEN None ELSE files[dir].parent
             next == ItemAt("ls_page", dir, up)
  <2>1. jobs[r] # <<>> /\ Now(r).do = "ls" /\ Now(r).do \notin Special /\ TableFits(K)'
    BY <1>1, <1>2, ReadFits DEF ListDirPage, At, Special, Read, tableVars
  <2>2. Then(r, <<next>>) \/ \E code : Fail(r, code)
    BY <1>2 DEF ListDirPage
  <2>3. request[r].arg.page \in Nat /\ request[r].arg.perPage \in Nat
    BY <2>1, PlainWorks DEF Good
  <2>4. IsItem(next) /\ next.do = "ls_page"
    BY ItemsAreItems
  <2> HIDE DEF next
  <2>5. Good(K, request[r], notes[r], next)
    BY <2>3, <2>4 DEF Good
  <2> QED BY <2>1, <2>2, <2>5, ThenOneFits, FailFits
<1>3. CASE ListedPage(r, store)
  <2> DEFINE dir == Now(r).id q == request[r].arg
             rows == IF dir = None THEN RootsOf(request[r].space) ELSE ChildrenOf(dir)
             page == ListPage(rows, q.type, q.page, q.perPage)
             dirs == Those(page.children, LAMBDA f : files[f].dir)
             next == ItemFor("ancestors", Now(r).at, <<>>)
             up == IF Now(r).at = None THEN <<>> ELSE <<next>>
             sizes == Each(dirs, LAMBDA f : ItemAt("dir_size", f, f))
             items == sizes \o up
             T == {ItemAt("dir_size", f, f) : f \in DOMAIN files} \cup {next}
  <2>1. jobs[r] # <<>> /\ Now(r).do = "ls_page" /\ Now(r).do \notin Special /\ TableFits(K)'
    BY <1>1, <1>3, ReadFits DEF ListedPage, At, Special, Read, tableVars
  <2>2. Fail(r, 500) \/ Finding(r, items, page.children)
    BY <1>3 DEF ListedPage
  <2>3. q.page \in Nat /\ q.perPage \in Nat
    BY <2>1, PlainWorks DEF Good
  <2>4. page.children \in Seq(DOMAIN files)
    <3>1. rows \in SUBSET DOMAIN files
      BY DEF RootsOf, ChildrenOf
    <3> HIDE DEF rows, q
    <3> QED BY <1>1, <2>3, <3>1, PageIsRows
  <2> HIDE DEF page
  <2>5. dirs \in Seq(DOMAIN files)
    BY <2>4, ChosenIsList DEF Those, InOrder
  <2>6. \A i \in T : IsItem(i) /\ i.do \in Harmless
    BY ItemsAreItems DEF Harmless
  <2> HIDE DEF dirs, next
  <2>7. sizes \in Seq(T)
    BY <2>5 DEF Each
  <2>8. up \in Seq(T)
    <3>1. next \in T
      OBVIOUS
    <3> HIDE DEF T
    <3> QED BY <3>1
  <2> HIDE DEF sizes, up, T
  <2>9. items \in Seq(T)
    BY <2>7, <2>8
  <2> HIDE DEF items
  <2>10. IsList(page.children)
    BY <2>4, ListIsList
  <2> QED BY <2>1, <2>2, <2>6, <2>9, <2>10, FindingFits, FailFits
<1> QED BY <1>2, <1>3

LEMMA DirSizeFits ==
  ASSUME NEW K, Fits(K), Still, NEW r \in Workers,
         DirTotalSize(r) \/ GetAncestors(r)
  PROVE  Fits(K)'
<1>1. TableFits(K)
  BY DEF Fits
<1>2. CASE DirTotalSize(r)
  <2> DEFINE d == Now(r).at
             children == ListChildren(Now(r).id)
             dirs == Those(children, LAMBDA f : files[f].dir)
             others == Those(children, LAMBDA f : ~files[f].dir)
             piece(f) == Piece(<<d>>, None, None, 0, Size[files[f].sha])
             sizes == Each(others, LAMBDA f : Piece(<<d>>, None, None, 0, Size[files[f].sha]))
             items == Each(dirs, LAMBDA f : ItemAt("dir_size", f, d))
             sent == notes[r].sent \o sizes
             l == [notes[r] EXCEPT !.sent = sent]
             P == {piece(f) : f \in DOMAIN files}
             T == {ItemAt("dir_size", f, d) : f \in DOMAIN files}
  <2>1. jobs[r] # <<>> /\ Now(r).do \notin Special /\ TableFits(K)'
    BY <1>1, <1>2, ReadFits DEF DirTotalSize, At, Special, Read, tableVars
  <2>2. ThenNoting(r, items, l)
    BY <1>2 DEF DirTotalSize
  <2>3. dirs \in Seq(DOMAIN files) /\ others \in Seq(DOMAIN files)
    <3>1. children \in Seq(DOMAIN files)
      BY <1>1, ChildrenAreRows
    <3> HIDE DEF children
    <3> QED BY <3>1, ChosenIsList DEF Those, InOrder
  <2> HIDE DEF dirs, others
  <2>4. items \in Seq(T) /\ sizes \in Seq(P)
    BY <2>3 DEF Each
  <2>5. LocalsFit(K, request[r], l) /\ l.made = notes[r].made
    <3>1. LocalsFit(K, request[r], notes[r])
      BY <2>1, PlainWorks
    <3>2. \A x \in P : PieceFits(K, x)
      BY DEF Piece, PieceFits
    <3> HIDE DEF sizes, P
    <3>3. IsList(sizes) /\ Range(sizes) \subseteq P
      BY <2>4, ListIsList DEF Range
    <3>4. IsList(sent)
      BY <3>1, <3>3, MoreIsList DEF LocalsFit
    <3>5. Range(sent) \subseteq Range(notes[r].sent) \cup Range(sizes)
      BY <3>1, <3>3, RangeOfBoth DEF LocalsFit
    <3>6. \A x \in Range(sent) : PieceFits(K, x)
      BY <3>1, <3>2, <3>3, <3>5 DEF LocalsFit
    <3> HIDE DEF sent
    <3> QED BY <3>1, <3>4, <3>6, SentFits
  <2> HIDE DEF l
  <2>6. \A i \in T : Good(K, request[r], l, i)
    BY ItemsAreItems, HarmlessIsGood DEF Harmless
  <2> HIDE DEF items, T
  <2> QED BY <2>1, <2>2, <2>4, <2>5, <2>6, NotingFits
<1>3. CASE GetAncestors(r)
  <2> DEFINE f == Now(r).id up == <<f>> \o Now(r).arg
             next == ItemFor("ancestors", files[f].parent, up)
  <2>1. jobs[r] # <<>> /\ Now(r).do \notin Special /\ TableFits(K)'
    BY <1>1, <1>3, ReadFits DEF GetAncestors, At, Special, Read, tableVars
  <2>2. Done(r) \/ Then(r, <<next>>)
    BY <1>3 DEF GetAncestors
  <2>3. IsItem(next) /\ next.do \in Harmless
    BY ItemsAreItems DEF Harmless
  <2> HIDE DEF next
  <2> QED BY <2>1, <2>2, <2>3, DoneFits, ThenHarmlessFits
<1> QED BY <1>2, <1>3

LEMMA StatFits ==
  ASSUME NEW K, Fits(K), Still, NEW r \in Workers,
         Stat(r) \/ StatBlob(r) \/ Usage(r) \/ ShowTrash(r)
  PROVE  Fits(K)'
<1>1. TableFits(K)
  BY DEF Fits
<1>2. CASE Stat(r)
  <2> DEFINE f == Now(r).id found == <<f>>
             next == ItemFor("stat_blob", f, files[f].sha)
             items == IF files[f].dir THEN <<>> ELSE <<next>>
             T == {next}
  <2>1. jobs[r] # <<>> /\ Now(r).do \notin Special /\ TableFits(K)'
    BY <1>1, <1>2, ReadFits DEF Stat, At, Special, Read, tableVars
  <2>2. Fail(r, 404) \/ Finding(r, items, found)
    BY <1>2 DEF Stat
  <2>3. \A i \in T : IsItem(i) /\ i.do \in Harmless
    BY ItemsAreItems DEF Harmless
  <2>4. IsList(found)
    BY OneIsList
  <2> HIDE DEF next, found
  <2>5. items \in Seq(T)
    <3>1. next \in T
      OBVIOUS
    <3> HIDE DEF T
    <3> QED BY <3>1
  <2> HIDE DEF items, T
  <2> QED BY <2>1, <2>2, <2>3, <2>4, <2>5, FailFits, FindingFits
<1>3. CASE StatBlob(r)
  <2> DEFINE blob == GetBlobBySha(Now(r).arg) found == IF blob = None THEN <<>> ELSE <<blob>>
  <2>1. jobs[r] # <<>> /\ Now(r).do \notin Special /\ TableFits(K)'
    BY <1>1, <1>3, ReadFits DEF StatBlob, At, Special, Read, tableVars
  <2>2. Finding(r, <<>>, found)
    BY <1>3 DEF StatBlob
  <2> HIDE DEF blob
  <2>3. IsList(found)
    BY EmptyIsList, OneIsList
  <2> HIDE DEF found
  <2> QED BY <2>1, <2>2, <2>3, FoundOneFits
<1>4. CASE Usage(r)
  <2> DEFINE found == <<GetNamespaceUsage(request[r].space)>>
  <2>1. jobs[r] # <<>> /\ Now(r).do \notin Special /\ TableFits(K)'
    BY <1>1, <1>4, ReadFits DEF Usage, At, Special, Read, tableVars
  <2>2. Finding(r, <<>>, found) /\ IsList(found)
    BY <1>4, OneIsList DEF Usage
  <2> HIDE DEF found
  <2> QED BY <2>1, <2>2, FoundOneFits
<1>5. CASE ShowTrash(r)
  <2> DEFINE found == ListTrash(request[r].space)
  <2>1. jobs[r] # <<>> /\ Now(r).do \notin Special /\ TableFits(K)'
    BY <1>1, <1>5, ReadFits DEF ShowTrash, At, Special, Read, tableVars
  <2>2. Finding(r, <<>>, found)
    BY <1>5 DEF ShowTrash
  <2>3. IsList(found)
    BY <1>1, TrashIsRows, ListIsList
  <2> HIDE DEF found
  <2> QED BY <2>1, <2>2, <2>3, FoundOneFits
<1> QED BY <1>2, <1>3, <1>4, <1>5

\* The blobs of the table come in a list.
LEMMA BlobsAreListed == SetToSeq(ListAllBlobs) \in Seq(ListAllBlobs)
<1> DEFINE S == ListAllBlobs n == Cardinality(S)
<1>1. IsFiniteSet(S)
  <2>1. S \subseteq Contents
    BY DEF ListAllBlobs
  <2> HIDE DEF S
  <2> QED BY <2>1, ContentsAreFinite, FS_Subset
<1> HIDE DEF S
<1>2. n \in Nat /\ ExistsBijection(1 .. n, S)
  BY <1>1, FS_CardinalityType
<1>3. \E f \in [1 .. n -> S] : IsInjective(f)
  BY <1>2 DEF ExistsBijection, Bijection, Injection
<1>4. SetToSeq(S) \in [1 .. n -> S]
  BY <1>3 DEF SetToSeq
<1>5. SetToSeq(S) \in Seq(S)
  BY <1>2, <1>4
<1> QED BY <1>5 DEF S

LEMMA ScanFits ==
  ASSUME NEW K, Fits(K), Still, NEW r \in Workers,
         ScanObjects(r) \/ ScanBlobs(r) \/ ScanPath(r) \/ ScanCounts(r) \/ ScanCount(r)
  PROVE  Fits(K)'
<1>1. TableFits(K)
  BY DEF Fits
<1>2. CASE ScanObjects(r)
  <2> DEFINE found == Each(SetToSeq(DOMAIN objects), LAMBDA p : [kind |-> "orphan", of |-> p])
  <2>1. jobs[r] # <<>> /\ Now(r).do = "scan_objects" /\ Now(r).do \notin Special /\ TableFits(K)'
    BY <1>1, <1>2, ReadFits DEF ScanObjects, At, Special, Read, tableVars
  <2>2. Finding(r, <<>>, found)
    BY <1>2 DEF ScanObjects
  <2>3. request[r].op = "scan"
    BY <2>1, PlainWorks DEF Good
  <2> HIDE DEF found
  <2> QED BY <2>1, <2>2, <2>3, FoundOneFits
<1>3. CASE ScanBlobs(r)
  <2> DEFINE list == SetToSeq(ListAllBlobs)
             item(sha) == ItemFor("scan_path", sha, blobs[sha].path)
             items == Each(list, LAMBDA sha : ItemFor("scan_path", sha, blobs[sha].path))
             T == {item(sha) : sha \in ListAllBlobs}
  <2>1. jobs[r] # <<>> /\ Now(r).do \notin Special /\ TableFits(K)'
    BY <1>1, <1>3, ReadFits DEF ScanBlobs, At, Special, Read, tableVars
  <2>2. Then(r, items)
    BY <1>3 DEF ScanBlobs
  <2>3. list \in Seq(ListAllBlobs)
    BY BlobsAreListed
  <2>4. \A i \in T : IsItem(i) /\ i.do \in Harmless
    BY ItemsAreItems DEF Harmless
  <2> HIDE DEF list
  <2>5. items \in Seq(T)
    BY <2>3 DEF Each
  <2> HIDE DEF items, T
  <2> QED BY <2>1, <2>2, <2>4, <2>5, ThenListFits
<1>4. CASE ScanCounts(r)
  <2> DEFINE list == SetToSeq(ListAllBlobs)
             item(sha) == ItemFor("scan_count", sha, blobs[sha].refs)
             items == Each(list, LAMBDA sha : ItemFor("scan_count", sha, blobs[sha].refs))
             T == {item(sha) : sha \in ListAllBlobs}
  <2>1. jobs[r] # <<>> /\ Now(r).do \notin Special /\ TableFits(K)'
    BY <1>1, <1>4, ReadFits DEF ScanCounts, At, Special, Read, tableVars
  <2>2. Then(r, items)
    BY <1>4 DEF ScanCounts
  <2>3. list \in Seq(ListAllBlobs)
    BY BlobsAreListed
  <2>4. \A i \in T : IsItem(i) /\ i.do \in Harmless
    BY ItemsAreItems DEF Harmless
  <2> HIDE DEF list
  <2>5. items \in Seq(T)
    BY <2>3 DEF Each
  <2> HIDE DEF items, T
  <2> QED BY <2>1, <2>2, <2>4, <2>5, ThenListFits
<1>5. CASE ScanPath(r)
  <2> DEFINE of == Now(r).id missing == [kind |-> "missing", of |-> of]
             found == IF Open(Now(r).arg) # None THEN <<>> ELSE <<missing>>
  <2>1. jobs[r] # <<>> /\ Now(r).do \notin Special /\ TableFits(K)'
    BY <1>1, <1>5, ReadFits DEF ScanPath, At, Special, Read, tableVars
  <2>2. Finding(r, <<>>, found)
    BY <1>5 DEF ScanPath
  <2> HIDE DEF missing
  <2>3. IsList(found)
    BY EmptyIsList, OneIsList
  <2> HIDE DEF found
  <2> QED BY <2>1, <2>2, <2>3, FoundOneFits
<1>6. CASE ScanCount(r)
  <2> DEFINE sha == Now(r).id drift == [kind |-> "drift", of |-> sha]
             found == IF Cardinality(ListFilesByBlob(sha)) = Now(r).arg THEN <<>> ELSE <<drift>>
  <2>1. jobs[r] # <<>> /\ Now(r).do \notin Special /\ TableFits(K)'
    BY <1>1, <1>6, ReadFits DEF ScanCount, At, Special, Read, tableVars
  <2>2. Finding(r, <<>>, found)
    BY <1>6 DEF ScanCount
  <2> HIDE DEF drift
  <2>3. IsList(found)
    BY EmptyIsList, OneIsList
  <2> HIDE DEF found
  <2> QED BY <2>1, <2>2, <2>3, FoundOneFits
<1> QED BY <1>2, <1>3, <1>4, <1>5, <1>6

LEMMA ArchiveFits ==
  ASSUME NEW K, Fits(K), Still, NEW r \in Workers, ArchiveStep(r, setup.store)
  PROVE  Fits(K)'
BY DirManifestFits, PackFits, FetchFits, GetFits, ListingFits, DirSizeFits, StatFits, ScanFits
   DEF ArchiveStep

-----------------------------------------------------------------------------
(* Failures.                                                               *)

LEMMA SizeFailsFits ==
  ASSUME NEW K, Fits(K), TableFits(K)', Still,
         NEW r \in Workers, jobs[r] # <<>>, Now(r).do \notin Special, SizeFails(r)
  PROVE  Fits(K)'
<1> DEFINE d == Now(r).at
           T == AllItems(jobs[r])
           rest == Those(Head(jobs[r]), LAMBDA i : i.do # "dir_size" \/ i.at # d)
           sent == Those(notes[r].sent, LAMBDA piece : piece.path # <<d>>)
           l == [notes[r] EXCEPT !.sent = sent]
           js == IF rest = <<>> THEN Tail(jobs[r]) ELSE <<rest>> \o Tail(jobs[r])
<1>1. jobs' = [jobs EXCEPT ![r] = js] /\ notes' = [notes EXCEPT ![r] = l] /\ request' = request
  BY DEF SizeFails, Leaves
<1>2. LocalsFit(K, request[r], l) /\ l.made = notes[r].made
  <2> DEFINE P == Range(notes[r].sent)
  <2>1. LocalsFit(K, request[r], notes[r])
    BY PlainWorks
  <2>2. notes[r].sent \in Seq(P) /\ \A x \in P : PieceFits(K, x)
    BY <2>1 DEF LocalsFit, IsList
  <2> HIDE DEF P, d
  <2>3. sent \in Seq(P)
    BY <2>2, ChosenIsList DEF Those, InOrder
  <2> HIDE DEF sent
  <2>4. IsList(sent) /\ Range(sent) \subseteq P
    BY <2>3, ListIsList DEF Range
  <2> QED BY <2>1, <2>2, <2>4, SentFits
<1> HIDE DEF sent
<1> HIDE DEF l
<1>3. Extends(K, K)
  BY DEF Extends
<1>4. Working(K, request[r], l, jobs[r])
  BY <1>2, <1>3, PlainWorks, WorkingKept
<1>5. rest \in Seq(T) /\ \A i \in T : Good(K, request[r], l, i)
  <2>1. Head(jobs[r]) \in Seq(T)
    BY <1>4, NowIsGood
  <2>2. \A i \in T : Good(K, request[r], l, i)
    BY <1>4 DEF Working
  <2> HIDE DEF T, d
  <2>3. rest \in Seq(T)
    BY <2>1, ChosenIsList DEF Those, InOrder
  <2> QED BY <2>2, <2>3
<1> HIDE DEF rest, T
<1>6. Working(K, request[r], l, js)
  BY <1>4, <1>5, LeavesWork
<1> HIDE DEF js
<1> QED BY <1>1, <1>2, <1>3, <1>6, StepFits

\* A call that fails ends the item, the job or the request.
LEMMA FaultFits ==
  ASSUME NEW K, Fits(K), NEW r \in Workers, Fault(r)
  PROVE  Fits(K)'
<1> DEFINE do == Now(r).do
<1>1. TableFits(K)' /\ Still /\ jobs[r] # <<>>
  <2>1. Still /\ jobs[r] # <<>> /\ (Read \/ ObjectsOnly(Unlink(Now(r).arg[2])))
    BY DEF Fault, Still, history
  <2>2. TableFits(K)'
    BY <2>1, ReadFits, ObjectFits DEF Read, tableVars, Fits
  <2> QED BY <2>1, <2>2
<1>2. CASE do \in Ignored
  <2>1. Done(r)
    BY <1>2 DEF Fault, Ignored, Deletion
  <2>2. do \notin Special
    BY <1>2 DEF Ignored, Special
  <2> QED BY <1>1, <2>1, <2>2, DoneFits
<1>3. CASE do \in Deletion
  <2>1. do \notin Special /\ Rollback(r, 500)
    BY <1>3 DEF Fault, Ignored, Deletion, Special
  <2> QED BY <1>1, <2>1, RollbackFits
<1>4. CASE do = "target"
  <2>1. Refuse(r, 500)
    BY <1>4 DEF Fault, Ignored, Deletion
  <2> QED BY <1>1, <2>1, RefuseFits
<1>5. CASE do = "dir_size"
  <2>1. do \notin Special /\ SizeFails(r)
    BY <1>5 DEF Fault, Ignored, Deletion, Special
  <2> QED BY <1>1, <2>1, SizeFailsFits
<1>6. CASE do = "unlink"
  <2> DEFINE rest == Tail(notes[r].pending)
             l == [notes[r] EXCEPT !.pending = rest]
  <2>1. do \notin Special /\ (Fail(r, 500) \/ ThenNoting(r, <<Now(r)>>, l))
    BY <1>6 DEF Fault, Ignored, Deletion, Special
  <2>2. LocalsFit(K, request[r], l) /\ l.made = notes[r].made
    <3>1. LocalsFit(K, request[r], notes[r])
      BY <1>1, <2>1, PlainWorks
    <3> HIDE DEF rest
    <3> QED BY <3>1, PendingFits
  <2>3. Good(K, request[r], l, Now(r))
    BY <1>1, <1>6, <2>1, PlainWorks, HarmlessIsGood DEF Good, Harmless
  <2> HIDE DEF l
  <2> QED BY <1>1, <2>1, <2>2, <2>3, FailFits, NotingOneFits
<1>7. CASE do \notin Ignored \cup Deletion \cup {"target", "dir_size", "unlink"}
  <2>1. Fail(r, 500)
    BY <1>7 DEF Fault
  <2>2. do \notin Special \/ Validating(K, request[r], jobs[r])
    BY <1>1, <1>7, ValidatingWorks DEF Special
  <2> QED BY <1>1, <2>1, <2>2, FailFits
<1> QED BY <1>2, <1>3, <1>4, <1>5, <1>6, <1>7

-----------------------------------------------------------------------------
(* Arrivals.                                                               *)

LEMMA FreshLocals ==
  ASSUME NEW K, NEW q PROVE LocalsFit(K, q, NoNotes)
<1>1. IsList(<<>>) /\ Range(<<>>) = {} /\ DOMAIN <<>> = {}
  BY DEF IsList, Range
<1> DEFINE l == NoNotes none == <<>>
<1>2. /\ l = [status |-> l.status, undo |-> l.undo, pending |-> l.pending, made |-> l.made,
              found |-> l.found, sent |-> l.sent]
      /\ l.undo = none /\ l.made = none /\ l.found = none /\ l.sent = none
  BY DEF NoNotes
<1>3. IsList(none) /\ Range(none) = {} /\ DOMAIN none = {}
  BY <1>1
<1> HIDE DEF l, none
<1>4. LocalsFit(K, q, l)
  BY <1>2, <1>3 DEF LocalsFit
<1> QED BY <1>4 DEF l

\* A job of its own for each id.
JobsFor(do, ids) == [i \in 1 .. Len(ids) |-> <<Item(do, ids[i])>>]
ItemsFor(do, S) == {Item(do, id) : id \in S}

LEMMA EachIDWorks ==
  ASSUME NEW ids, NEW S, ids \in Seq(S), NEW do
  PROVE  JobsOf(JobsFor(do, ids), ItemsFor(do, S))
<1> DEFINE T == {Item(do, id) : id \in S} job(id) == <<Item(do, id)>>
           js == [i \in 1 .. Len(ids) |-> job(ids[i])]
<1>1. ASSUME NEW id \in S PROVE job(id) \in Seq(T) \ {<<>>}
  <2> DEFINE x == Item(do, id)
  <2>1. x \in T /\ job(id) = <<x>>
    OBVIOUS
  <2> HIDE DEF x, T, job
  <2> QED BY <2>1
<1> HIDE DEF job, T
<1>2. js \in Seq(Seq(T) \ {<<>>})
  BY <1>1
<1> QED BY <1>2 DEF JobsOf, job, T, JobsFor, ItemsFor

LEMMA OneJobWorks ==
  ASSUME NEW K, NEW q, NEW l, NEW T, NEW job \in Seq(T), job # <<>>,
         \A i \in T : Good(K, q, l, i)
  PROVE  Working(K, q, l, <<job>>)
<1> DEFINE js == <<job>>
<1>1. js \in Seq(Seq(T) \ {<<>>})
  OBVIOUS
<1> HIDE DEF js
<1>2. Working(K, q, l, js)
  BY <1>1, WorkingIf DEF JobsOf
<1> QED BY <1>2 DEF js

\* BatchMove and BatchCopy have a job for the target first.
LEMMA TargetComesFirst ==
  ASSUME NEW S, NEW ids \in Seq(S), NEW do \in {"move", "copy"}
  PROVE  Targeting(<<<<Item("target", None)>>>> \o JobsFor(do, ids))
<1> DEFINE rest == JobsFor(do, ids)
           T == ItemsFor(do, S)
           first == <<Item("target", None)>>
           js == <<first>> \o rest
<1>1. JobsOf(rest, T)
  BY EachIDWorks
<1>2. \A i \in T : IsItem(i) /\ i.do \in {"move", "copy"}
  BY ItemsAreItems DEF ItemsFor
<1> HIDE DEF rest, T, first
<1>3. js # <<>> /\ Tail(js) = rest
  <2>1. rest \in Seq(Seq(T) \ {<<>>})
    BY <1>1 DEF JobsOf
  <2>2. ASSUME NEW U, NEW s \in Seq(U), NEW x PROVE <<x>> \o s # <<>> /\ Tail(<<x>> \o s) = s
    <3> DEFINE V == U \cup {x}
    <3>1. s \in Seq(V) /\ x \in V
      OBVIOUS
    <3> HIDE DEF V
    <3>2. <<x>> \o s # <<>> /\ Tail(<<x>> \o s) \in Seq(V) /\ Len(Tail(<<x>> \o s)) = Len(s)
      BY <3>1
    <3>3. \A i \in 1 .. Len(s) : Tail(<<x>> \o s)[i] = s[i]
      BY <3>1
    <3> QED BY <3>1, <3>2, <3>3
  <2> QED BY <2>1, <2>2
<1>4. js = <<first>> \o Tail(js)
  BY <1>3
<1> HIDE DEF js
<1>5. AllItems(Tail(js)) \subseteq T /\ JobsOf(Tail(js), AllItems(Tail(js)))
  BY <1>1, <1>3, ItemsOf
<1>6. js = <<<<Item("target", None)>>>> \o Tail(js)
  BY <1>4 DEF first
<1>7. Targeting(js)
  BY <1>2, <1>3, <1>5, <1>6 DEF Targeting
<1> QED BY <1>7 DEF js, rest, first

\* What a request starts with relies on nothing but what the handlers have
\* decoded.
LEMMA AgendaWorks ==
  ASSUME NEW K, NEW q \in K.of.requests, WellFormed(q)
  PROVE  \/ Working(K, q, NoNotes, Agenda(q))
         \/ Targeting(Agenda(q))
         \/ Validating(K, q, Agenda(q))
<1> DEFINE S == Nat \cup {None} ids == q.ids
           EachID(do) == JobsFor(do, ids)
           Plain == {"trash", "batch_delete", "batch_tag", "rename", "get_dir", "get", "ls", "stat",
                     "usage", "show_trash"}
<1>1. ids \in Seq(S)
  BY DEF WellFormed
<1>2. CASE q.op = "submit"
  <2> DEFINE entries == q.arg
  <2>1. entries \in Seq([path : Seq(Nat), file : Nat])
    BY <1>2 DEF WellFormed
  <2>2. Agenda(q) = <<[i \in 1 .. Len(entries) |-> Item("validate", i)] \o <<Item("make_root", None)>>>>
    BY <1>2 DEF Agenda
  <2> HIDE DEF entries
  <2>3. [i \in 1 .. Len(entries) |-> Item("validate", i)]
          = [i \in 1 .. Len(entries) - 1 + 1 |-> Item("validate", i + 1 - 1)]
    <3>1. Len(entries) \in Nat
      BY <2>1
    <3>2. Len(entries) - 1 + 1 = Len(entries) /\ \A i \in 1 .. Len(entries) : i + 1 - 1 = i
      BY <3>1
    <3> QED BY <3>2
  <2>4. Agenda(q) = <<Remaining(entries, 1)>>
    BY <2>2, <2>3 DEF Remaining
  <2>5. Len(entries) \in Nat /\ 1 \in 1 .. Len(entries) + 1 /\ 1 .. 1 - 1 = {}
    BY <2>1
  <2>6. Validating(K, q, Agenda(q))
    BY <1>2, <2>1, <2>4, <2>5 DEF Validating, entries
  <2> QED BY <2>6
<1>3. ASSUME NEW do \in Plain, q.op = do \/ (q.op = "batch_tags" /\ do = "batch_tag"),
             Agenda(q) = EachID(do)
      PROVE  Working(K, q, NoNotes, Agenda(q))
  <2> DEFINE T == ItemsFor(do, S)
  <2>1. JobsOf(Agenda(q), T)
    <3> HIDE DEF ids, S, Plain
    <3> QED BY <1>1, <1>3, EachIDWorks
  <2>2. ASSUME NEW id \in S PROVE Good(K, q, NoNotes, Item(do, id))
    <3> DEFINE i == Item(do, id)
    <3>1. IsItem(i) /\ i.do = do
      BY ItemsAreItems
    <3> HIDE DEF i
    <3>2. CASE do \in Harmless
      <4>1. Good(K, q, NoNotes, i)
        BY <3>1, <3>2, HarmlessIsGood
      <4> QED BY <4>1 DEF i
    <3>3. CASE do = "get_dir"
      <4>1. Good(K, q, NoNotes, i)
        BY <1>3, <3>1, <3>3 DEF Good
      <4> QED BY <4>1 DEF i
    <3>4. CASE do = "ls"
      <4>1. q.arg.page \in Nat /\ q.arg.perPage \in Nat
        BY <1>3, <3>4 DEF WellFormed
      <4>2. Good(K, q, NoNotes, i)
        BY <3>1, <3>4, <4>1 DEF Good
      <4> QED BY <4>2 DEF i
    <3>5. CASE do = "get"
      <4>1. RangeFits(q.arg)
        BY <1>3, <3>5, SizesAreNumbers DEF WellFormed, RangeFits
      <4>2. Good(K, q, NoNotes, i)
        BY <3>1, <3>5, <4>1 DEF Good
      <4> QED BY <4>2 DEF i
    <3>6. CASE do = "rename"
      <4>1. q.name \in Nat
        BY <1>3, <3>6 DEF WellFormed
      <4>2. Good(K, q, NoNotes, i)
        BY <3>1, <3>6, <4>1 DEF Good
      <4> QED BY <4>2 DEF i
    <3> QED BY <3>2, <3>3, <3>4, <3>5, <3>6 DEF Harmless
  <2>3. \A i \in T : Good(K, q, NoNotes, i)
    BY <2>2 DEF ItemsFor
  <2> HIDE DEF T
  <2> QED BY <2>1, <2>3, WorkingIf
<1>4. CASE q.op \in {"restore", "purge"}
  <2> DEFINE i == ItemFor(q.op, ids[1], q.space) T == {i} job == <<i>>
  <2>1. Agenda(q) = <<job>>
    BY <1>4 DEF Agenda
  <2>2. \A j \in T : Good(K, q, NoNotes, j)
    BY <1>4, ItemsAreItems, HarmlessIsGood DEF Harmless
  <2> HIDE DEF i
  <2>3. job \in Seq(T) /\ job # <<>>
    OBVIOUS
  <2> HIDE DEF job, T
  <2> QED BY <2>1, <2>2, <2>3, OneJobWorks
<1>5. CASE q.op \in {"batch_move", "batch_copy"}
  <2> DEFINE do == IF q.op = "batch_move" THEN "move" ELSE "copy"
  <2>1. Agenda(q) = <<<<Item("target", None)>>>> \o EachID(do)
    BY <1>5 DEF Agenda, JobsFor
  <2>2. do \in {"move", "copy"}
    OBVIOUS
  <2> HIDE DEF do, ids
  <2>3. Targeting(<<<<Item("target", None)>>>> \o EachID(do))
    BY <1>1, <2>2, TargetComesFirst
  <2> QED BY <2>1, <2>3
<1>6. CASE q.op = "batch_download"
  <2> DEFINE i == Item("fetch", None) T == {i} job == <<i>>
  <2>1. Agenda(q) = <<job>>
    BY <1>6 DEF Agenda
  <2>2. IsItem(i) /\ i.do = "fetch"
    BY ItemsAreItems
  <2>3. IsList(q.ids)
    BY <1>1, ListIsList
  <2> HIDE DEF i
  <2>4. \A j \in T : Good(K, q, NoNotes, j)
    BY <2>2, <2>3 DEF Good
  <2>5. job \in Seq(T) /\ job # <<>>
    OBVIOUS
  <2> HIDE DEF job, T
  <2> QED BY <2>1, <2>4, <2>5, OneJobWorks
<1>7. CASE q.op = "scan"
  <2> DEFINE a == Item("scan_objects", None) b == Item("scan_blobs", None) c == Item("scan_counts", None)
             T == {a, b, c} job == <<a, b, c>>
  <2>1. Agenda(q) = <<job>>
    BY <1>7 DEF Agenda
  <2>2. IsItem(a) /\ a.do = "scan_objects"
    BY ItemsAreItems
  <2>3. Good(K, q, NoNotes, b) /\ Good(K, q, NoNotes, c)
    BY ItemsAreItems, HarmlessIsGood DEF Harmless
  <2> HIDE DEF a, b, c
  <2>4. Good(K, q, NoNotes, a)
    BY <1>7, <2>2 DEF Good
  <2>5. \A j \in T : Good(K, q, NoNotes, j)
    BY <2>3, <2>4
  <2>6. job \in Seq(T) /\ job # <<>>
    OBVIOUS
  <2> HIDE DEF job, T
  <2> QED BY <2>1, <2>5, <2>6, OneJobWorks
<1>8. CASE q.op \in (Plain \cup {"batch_tags"})
  <2> DEFINE do == IF q.op = "batch_tags" THEN "batch_tag" ELSE q.op
  <2>1. Agenda(q) = EachID(do)
    <3>1. CASE q.op = "trash"
      BY <3>1 DEF Agenda, JobsFor
    <3>2. CASE q.op = "batch_delete"
      BY <3>2 DEF Agenda, JobsFor
    <3>3. CASE q.op = "batch_tags"
      BY <3>3 DEF Agenda, JobsFor
    <3>4. CASE q.op \in Plain \ {"trash", "batch_delete", "batch_tag"}
      BY <3>4 DEF Agenda, JobsFor
    <3>5. q.op # "batch_tag"
      BY DEF WellFormed, Operations
    <3> QED BY <1>8, <3>1, <3>2, <3>3, <3>4, <3>5
  <2>2. do \in Plain /\ (q.op = do \/ (q.op = "batch_tags" /\ do = "batch_tag"))
    BY <1>8
  <2> HIDE DEF do, Plain, ids
  <2> QED BY <1>3, <2>1, <2>2
<1> QED BY <1>2, <1>4, <1>5, <1>6, <1>7, <1>8 DEF WellFormed, Operations

\* A request that arrives knows nothing yet.
LEMMA StartFits ==
  ASSUME NEW K, Fits(K), Still, NEW r \in Workers, NEW q, NEW first, Start(r, q, first),
         \/ Working(K, q, NoNotes, first)
         \/ Targeting(first)
         \/ Validating(K, q, first)
  PROVE  Fits(K)'
<1>1. TableFits(K)'
  BY ReadFits DEF Start, Read, tableVars, Fits
<1>2. request'[r] = q /\ jobs'[r] = first /\ notes'[r] = NoNotes
  BY DEF Start, Fits, WorkFits
<1>3. ASSUME NEW s \in Workers, s # r
      PROVE  request'[s] = request[s] /\ jobs'[s] = jobs[s] /\ notes'[s] = notes[s]
  BY <1>3 DEF Start, Fits, WorkFits
<1>4. LocalsFit(K, q, NoNotes)
  BY FreshLocals
<1>5. ASSUME NEW s \in Workers
      PROVE  /\ LocalsFit(K, request'[s], notes'[s])
             /\ \/ Working(K, request'[s], notes'[s], jobs'[s])
                \/ Targeting(jobs'[s])
                \/ Validating(K, request'[s], jobs'[s])
  <2>1. CASE s = r
    BY <2>1, <1>2, <1>4
  <2>2. CASE s # r
    BY <2>2, <1>3 DEF Fits, WorkFits
  <2> QED BY <2>1, <2>2
<1>6. /\ request' = [s \in Workers |-> request'[s]]
      /\ jobs' = [s \in Workers |-> jobs'[s]]
      /\ notes' = [s \in Workers |-> notes'[s]]
  BY DEF Start, Fits, WorkFits
<1>7. WorkFits(K)'
  BY <1>5, <1>6 DEF WorkFits
<1> QED BY <1>1, <1>7 DEF Fits, Still

LEMMA ArriveFits ==
  ASSUME NEW K, Fits(K), NEW r \in Slots, Arrive(r) PROVE Fits(K)'
<1>1. PICK q \in setup.requests : Start(r, q, Agenda(q))
  BY DEF Arrive
<1>2. WellFormed(q) /\ q \in K.of.requests
  BY SetupsAreServed DEF Fits, TableFits
<1>3. Still /\ r \in Workers
  BY DEF Arrive, Workers, Still, history
<1> QED BY <1>1, <1>2, <1>3, AgendaWorks, StartFits

LEMMA ReapTickFits ==
  ASSUME NEW K, Fits(K), ReapTick PROVE Fits(K)'
<1> DEFINE q == [op |-> "reap", ids |-> <<>>, to |-> None, space |-> None, name |-> None, arg |-> clock]
           i == Item("reap", None) T == {i} job == <<i>>
           first == <<job>>
<1>1. Start(Janitor, q, first) /\ Still /\ Janitor \in Workers
  BY DEF ReapTick, Workers, Still, history
<1>2. \A j \in T : Good(K, q, NoNotes, j)
  BY ItemsAreItems, HarmlessIsGood DEF Harmless
<1> HIDE DEF i, q
<1>3. job \in Seq(T) /\ job # <<>>
  OBVIOUS
<1> HIDE DEF job, T
<1>4. Working(K, q, NoNotes, first)
  BY <1>2, <1>3, OneJobWorks
<1> HIDE DEF first
<1> QED BY <1>1, <1>4, StartFits

\* A process that starts has nothing to do yet, and knows no more of the
\* storage than what content_blobs says.
LEMMA CrashFits ==
  ASSUME NEW K0, Fits(K0), Crash PROVE \E K : Fits(K)'
<1> DEFINE none == <<>>
           whole == {<<blobs[sha].path, sha>> : sha \in {c \in Contents : blobs[c].path # None}}
<1> PICK K : K = [rows |-> K0.rows, of |-> K0.of, whole |-> whole, opened |-> none, clean |-> K0.clean]
  OBVIOUS
<1>0. /\ K.rows = K0.rows /\ K.of = K0.of /\ K.clean = K0.clean /\ K.whole = whole
      /\ DOMAIN K.opened = {}
  <2>1. DOMAIN none = {}
    OBVIOUS
  <2> HIDE DEF none, whole
  <2> QED BY <2>1
<1> HIDE DEF whole, none
<1>a. /\ TableFits(K0) /\ files' = files /\ issued' = issued /\ blobs' = blobs /\ objects' = objects
      /\ setup' = setup /\ written' = Places /\ rewritten' = rewritten
  BY DEF Crash, tableVars, Fits
<1>b. ASSUME NEW place \in whole
      PROVE  /\ place = <<place[1], place[2]>> /\ place \in Places
             /\ There(K0, place[1], place[2])
  <2>1. PICK sha \in Contents : place = <<blobs[sha].path, sha>> /\ blobs[sha].path # None
    BY DEF whole
  <2> QED BY <1>a, <2>1 DEF Places, TableFits, StoreFits
<1>c. Calm(K) = Calm(K0) /\ \A path, sha : Home(K0, path, sha) => Home(K, path, sha)
  BY <1>0 DEF Calm, Home
<1>d. Calm(K) => WritesFit(K)'
  <2> SUFFICES ASSUME Calm(K0) PROVE WritesFit(K)'
    BY <1>c
  <2>1. WritesFit(K0)
    BY <1>a DEF TableFits, StoreFits
  <2>2. \A place \in whole : place \in K0.whole /\ Home(K0, place[1], place[2])
    BY <1>b DEF There
  <2> QED BY <1>0, <1>a, <1>b, <1>c, <2>1, <2>2 DEF WritesFit
<1>e. StoreFits(K)'
  <2>1. ASSUME NEW sha \in Contents, blobs[sha].path # None PROVE There(K, blobs[sha].path, sha)
    <3>1. <<blobs[sha].path, sha>> \in whole
      BY <2>1 DEF whole
    <3>2. There(K0, blobs[sha].path, sha)
      BY <1>a, <2>1 DEF TableFits, StoreFits
    <3> QED BY <1>0, <1>c, <3>1, <3>2 DEF There
  <2>2. \A path \in DOMAIN objects : objects[path] \notin Workers => Home(K, path, objects[path])
    BY <1>a, <1>c DEF TableFits, StoreFits
  <2>3. rewritten \in BOOLEAN /\ (K.clean <=> ~rewritten)
    BY <1>0, <1>a DEF TableFits, StoreFits
  <2>4. blobs = [sha \in Contents |-> [path |-> blobs[sha].path, refs |-> blobs[sha].refs]]
    BY <1>a DEF TableFits, StoreFits
  <2> QED BY <1>a, <1>d, <2>1, <2>2, <2>3, <2>4 DEF StoreFits
<1>1. TableFits(K)' /\ setup' \in Setups
  <2>1. \A f \in DOMAIN files : RowFits(K, f, files[f])
    BY <1>0, <1>a DEF TableFits, RowFits, Inside, IsDir, Held
  <2> QED BY <1>0, <1>a, <1>e, <2>1 DEF TableFits, KnowsSetup, Fits
<1>2. ASSUME NEW s \in Workers
      PROVE  LocalsFit(K, request'[s], notes'[s]) /\ Working(K, request'[s], notes'[s], jobs'[s])
  <2>1. notes'[s] = NoNotes /\ jobs'[s] = <<>>
    BY DEF Crash
  <2> QED BY <2>1, FreshLocals, NothingWorks
<1>3. /\ request' = [s \in Workers |-> request'[s]]
      /\ jobs' = [s \in Workers |-> jobs'[s]]
      /\ notes' = [s \in Workers |-> notes'[s]]
  BY DEF Crash
<1>4. WorkFits(K)'
  BY <1>2, <1>3 DEF WorkFits
<1>5. Fits(K)'
  BY <1>1, <1>4 DEF Fits
<1> QED BY <1>5

-----------------------------------------------------------------------------
(* The invariant.                                                          *)

LEMMA InitFits == Init => TreeInv
<1> SUFFICES ASSUME Init PROVE TreeInv
  OBVIOUS
<1>1. PICK n \in 0 .. MaxRows :
        /\ files \in [1 .. n -> Row]
        /\ \A f \in 1 .. n : LET p == files[f].parent IN
             p # None => p < f /\ files[p].dir /\ files[p].space = files[f].space
  BY SetupsAreServed DEF Init, Planted
<1> DEFINE rows == [f \in 1 .. n |-> [dir |-> files[f].dir, space |-> files[f].space,
                                     sha |-> files[f].sha]]
           none == <<>>
           whole == {<<blobs[sha].path, sha>> : sha \in {c \in Contents : blobs[c].path # None}}
           K == [rows |-> rows, of |-> setup, whole |-> whole, opened |-> none, clean |-> TRUE]
<1>2. n \in Nat /\ issued = n /\ MaxRows \in Nat
  <2>1. n \in Nat /\ Cardinality(1 .. n) = n
    BY RowsAreBounded, FS_Interval
  <2> QED BY <1>1, <2>1, RowsAreBounded DEF Init
<1>3. ASSUME NEW f \in 1 .. n PROVE RowFits(K, f, files[f])
  <2>1. files[f] \in Row /\ files[f].parent \in IDs \cup {None}
    BY <1>1 DEF Row
  <2>2. IsRow(files[f]) /\ files[f].name \in Nat
    BY <2>1 DEF Row, IsRow
  <2>3. Inside(K, files[f].parent, files[f].space)
    <3>1. CASE files[f].parent = None
      BY <3>1 DEF Inside
    <3>2. CASE files[f].parent # None
      <4>1. files[f].parent \in 1 .. n
        BY <1>1, <1>2, <2>1, <3>2 DEF IDs
      <4> QED BY <1>1, <3>2, <4>1 DEF Inside, IsDir, Held
    <3> QED BY <3>1, <3>2
  <2> QED BY <2>2, <2>3 DEF RowFits
<1>4. KnowsSetup(K)
  <2>1. \A f \in 1 .. n : IsSum(files[f].sha)
    BY <1>1 DEF Row, IsSum
  <2>2. files = setup.files
    BY DEF Init
  <2> QED BY <1>1, <2>1, <2>2 DEF KnowsSetup
<1>5. StoreFits(K)
  <2>0. /\ DOMAIN K.opened = {} /\ K.whole = whole /\ K.clean /\ K.of = setup
        /\ written = Places /\ rewritten = FALSE
    <3>1. DOMAIN none = {}
      OBVIOUS
    <3> HIDE DEF none, rows, whole
    <3> QED BY <3>1 DEF Init
  <2> HIDE DEF rows, whole, K
  <2>1. /\ blobs = [sha \in Contents |-> [path |-> blobs[sha].path, refs |-> blobs[sha].refs]]
        /\ \A sha \in Contents : blobs[sha].path = setup.paths[sha]
    BY DEF Init
  <2>2. ASSUME NEW path \in DOMAIN objects
        PROVE  objects[path] \in Contents /\ setup.paths[objects[path]] = path /\ path # None
    <3>1. path # None /\ \E sha \in Contents : setup.paths[sha] = path
      BY DEF Init
    <3>2. objects[path] = CHOOSE sha \in Contents : setup.paths[sha] = path
      BY DEF Init
    <3> QED BY <3>1, <3>2
  <2>3. ASSUME NEW place \in whole
        PROVE  /\ place = <<place[1], place[2]>> /\ place \in Places /\ Home(K, place[1], place[2])
    <3>1. PICK sha \in Contents : place = <<blobs[sha].path, sha>> /\ blobs[sha].path # None
      BY DEF whole
    <3> QED BY <2>0, <2>1, <3>1 DEF Places, Home
  <2>4. WritesFit(K)
    BY <2>0, <2>2, <2>3, WorkersAreNoContents DEF WritesFit
  <2>5. \A sha \in Contents : blobs[sha].path # None => There(K, blobs[sha].path, sha)
    BY <2>0, <2>1 DEF There, Home, whole
  <2>6. \A path \in DOMAIN objects : Home(K, path, objects[path])
    BY <2>0, <2>2 DEF Home
  <2> QED BY <2>0, <2>1, <2>4, <2>5, <2>6 DEF StoreFits
<1>6. DOMAIN K.rows = 1 .. n /\ K.of = setup
  OBVIOUS
<1> HIDE DEF K
<1>7. TableFits(K)
  BY <1>1, <1>2, <1>3, <1>4, <1>5, <1>6 DEF TableFits
<1>8. WorkFits(K)
  <2>1. ASSUME NEW s \in Workers
        PROVE  LocalsFit(K, request[s], notes[s]) /\ Working(K, request[s], notes[s], jobs[s])
    <3>1. notes[s] = NoNotes /\ jobs[s] = <<>>
      BY DEF Init, InitWork
    <3> QED BY <3>1, FreshLocals, NothingWorks
  <2>2. /\ request = [s \in Workers |-> request[s]]
        /\ jobs = [s \in Workers |-> jobs[s]]
        /\ notes = [s \in Workers |-> notes[s]]
    BY DEF Init, InitWork
  <2> QED BY <2>1, <2>2 DEF WorkFits
<1>9. setup \in Setups
  BY DEF Init
<1> QED BY <1>7, <1>8, <1>9 DEF Fits, TreeInv

\* At a write_target, nothing else is done.
LEMMA OnlyWriteTarget ==
  ASSUME NEW r \in Workers, Work(r), At(r, "write_target")
  PROVE  WriteTarget(r)
<1>1. \A do : At(r, do) => do = "write_target"
  BY DEF At
<1>2. ~DirectoryStep(r, setup.store)
  BY <1>1 DEF DirectoryStep, Trash, TrashList, TrashMark, BatchDelete, RestoreFromTrash,
       Untrash, PurgeFromTrash, DeleteList, DeleteRow, DeleteReference, DeleteCount, DeferUnlink,
       UnlinkPending, UndoPut, UndoDecr, Reap, CheckTarget, MoveFile, MoveInto, ClimbOn, SetParent,
       Rename, SetName, BatchTag, SetTags
<1>3. ~ArchiveStep(r, setup.store)
  <2>1. ~(\/ GetDirManifest(r) \/ WalkDir(r) \/ StreamDir(r) \/ Pack(r) \/ PackBlob(r)
          \/ PackObject(r) \/ FetchFiles(r) \/ FetchBlobs(r) \/ GetFileContent(r) \/ GetBlob(r)
          \/ GetObject(r))
    BY <1>1 DEF GetDirManifest, WalkDir, StreamDir, Pack, PackBlob, PackObject,
         FetchFiles, FetchBlobs, GetFileContent, GetBlob, GetObject
  <2>2. ~(ListDirPage(r) \/ ListedPage(r, setup.store) \/ DirTotalSize(r) \/ GetAncestors(r))
    BY <1>1 DEF ListDirPage, ListedPage, DirTotalSize, GetAncestors
  <2>3. ~(Stat(r) \/ StatBlob(r) \/ Usage(r) \/ ShowTrash(r))
    BY <1>1 DEF Stat, StatBlob, Usage, ShowTrash
  <2>4. ~(ScanObjects(r) \/ ScanBlobs(r) \/ ScanPath(r) \/ ScanCounts(r) \/ ScanCount(r))
    BY <1>1 DEF ScanObjects, ScanBlobs, ScanPath, ScanCounts, ScanCount
  <2> QED BY <2>1, <2>2, <2>3, <2>4 DEF ArchiveStep
<1>4. ManifestStep(r) => WriteTarget(r)
  BY <1>1 DEF ManifestStep, ValidateEntry, MakeRoot, MakeDir, Adopt, Reparent, Relocate,
       ReadSource, FillTarget, DeleteSource, SetPath, Copy, CopyRow, CopyList, CopyReference
<1> QED BY <1>2, <1>3, <1>4 DEF Work

LEMMA NextFits == TreeInv /\ [Next]_vars => TreeInv'
<1> SUFFICES ASSUME TreeInv, [Next]_vars PROVE TreeInv'
  OBVIOUS
<1>1. PICK K : Fits(K)
  BY DEF TreeInv
<1>2. ASSUME Fits(K)' PROVE TreeInv'
  BY <1>2 DEF TreeInv
<1>3. CASE \E r \in Slots : Arrive(r)
  BY <1>1, <1>2, <1>3, ArriveFits
<1>4. CASE ReapTick
  BY <1>1, <1>2, <1>4, ReapTickFits
<1>5. ASSUME NEW r \in Workers, Work(r) PROVE TreeInv'
  <2>1. CASE WriteTarget(r)
    <3>1. PICK K2 : Fits(K2)'
      BY <1>1, <1>5, <2>1, WriteTargetFits DEF Work
    <3> QED BY <3>1 DEF TreeInv
  <2>2. ASSUME ~WriteTarget(r) PROVE Still
    <3>1. ~At(r, "write_target")
      BY <1>5, <2>2, OnlyWriteTarget
    <3>2. Written(r) = {}
      BY <3>1 DEF Written
    <3>3. written \cup {} = written /\ ~({} \cap written # {})
      OBVIOUS
    <3>4. /\ rewritten' = (rewritten \/ Written(r) \cap written # {})
          /\ written' = written \cup Written(r) /\ setup' = setup
      BY <1>5 DEF Work
    <3>5. rewritten \in BOOLEAN
      BY <1>1 DEF Fits, TableFits, StoreFits
    <3>6. (rewritten \/ Written(r) \cap written # {}) = rewritten
      BY <3>2, <3>3, <3>5
    <3> QED BY <3>2, <3>3, <3>4, <3>6 DEF Still
  <2>3. CASE ~WriteTarget(r) /\ DirectoryStep(r, setup.store)
    BY <1>1, <1>2, <2>2, <2>3, DirectoryFits
  <2>4. CASE ~WriteTarget(r) /\ ManifestStep(r)
    <3>1. PICK K2 : Fits(K2)'
      BY <1>1, <2>2, <2>4, ManifestFits
    <3> QED BY <3>1 DEF TreeInv
  <2>5. CASE ~WriteTarget(r) /\ ArchiveStep(r, setup.store)
    BY <1>1, <1>2, <2>2, <2>5, ArchiveFits
  <2> QED BY <1>5, <2>1, <2>3, <2>4, <2>5 DEF Work
<1>6. ASSUME NEW r \in Workers, Fault(r) PROVE TreeInv'
  BY <1>1, <1>2, <1>6, FaultFits
<1>7. CASE Crash
  <2>1. PICK K2 : Fits(K2)'
    BY <1>1, <1>7, CrashFits
  <2> QED BY <2>1 DEF TreeInv
<1>8. CASE Tick \/ UNCHANGED vars
  <2>1. UNCHANGED <<files, issued, blobs, objects, request, jobs, notes, setup>> /\ Still
    BY <1>8 DEF Tick, vars, tableVars, workVars, history, Still
  <2>2. Fits(K)'
    BY <1>1, <2>1, ReadFits DEF Fits, WorkFits
  <2> QED BY <1>2, <2>2
<1> QED BY <1>3, <1>4, <1>5, <1>6, <1>7, <1>8 DEF Next

LEMMA FitsIsOneNamespace == TreeInv => OneNamespace
<1> SUFFICES ASSUME TreeInv PROVE OneNamespace
  OBVIOUS
<1>1. PICK K : TableFits(K)
  BY DEF TreeInv, Fits
<1>2. ASSUME NEW f \in DOMAIN files, files[f].parent \in DOMAIN files
      PROVE  files[files[f].parent].dir /\ files[files[f].parent].space = files[f].space
  <2> DEFINE p == files[f].parent
  <2>1. p # None
    <3>1. p \in Nat
      BY <1>1, <1>2 DEF TableFits
    <3> QED BY <3>1, NoneIsNoValue
  <2>2. RowFits(K, f, files[f]) /\ RowFits(K, p, files[p])
    BY <1>1, <1>2 DEF TableFits
  <2> QED BY <2>1, <2>2 DEF RowFits, Inside, IsDir, Held
<1> QED BY <1>2 DEF OneNamespace

LEMMA FitsIsHonest == TreeInv => ArchiveHonest /\ LengthAsAnnounced
<1> SUFFICES ASSUME TreeInv PROVE ArchiveHonest /\ LengthAsAnnounced
  OBVIOUS
<1>1. PICK K : Fits(K)
  BY DEF TreeInv
<1>2. ASSUME Distinct, ~rewritten, NEW r \in Workers, NEW i \in DOMAIN notes[r].sent, notes[r].sent[i].sha # None
      PROVE  LET piece == notes[r].sent[i] IN
             /\ piece.content = piece.sha
             /\ piece.length >= 0 => piece.bytes = piece.length
  <2>1. LocalsFit(K, request[r], notes[r]) /\ Calm(K)
    BY <1>1, <1>2 DEF Fits, TableFits, StoreFits, WorkFits, Distinct, Calm
  <2>2. PieceFits(K, notes[r].sent[i])
    BY <2>1 DEF LocalsFit, Range
  <2> QED BY <1>2, <2>1, <2>2 DEF PieceFits
<1> QED BY <1>2 DEF ArchiveHonest, LengthAsAnnounced

\* No row is ever in a directory of another namespace, or in a file
\* (upload.go:1070, download.go:210): for every number of requests at work, in
\* any order of their statements and storage calls, when calls fail, when the
\* process is killed, and when deleted rows are put back.
THEOREM OneNamespaceHolds == Spec => []OneNamespace
BY InitFits, NextFits, FitsIsOneNamespace, PTL DEF Spec

\* What is sent under a SHA-256 has that SHA-256 (download.go:168), in archives
\* of directories and of batches and in downloads of single files: whatever
\* manifests move, purges delete, calls fail and crashes leave half written
\* between the look at the row, the look at the blob and the read of the
\* object, as long as no manifest sends a file where another content is, and
\* none sends a content where it has been before, which empties the object in
\* place (localfs.go:126).
THEOREM SendsWhatItPromises == Spec => []ArchiveHonest
BY InitFits, NextFits, FitsIsHonest, PTL DEF Spec

\* What is sent of a file has the length that was announced for it
\* (download.go:74), whatever range was asked for, whatever has moved since and
\* whatever writes are under way, under the same condition, unless the length
\* announced has overflowed (handler_util.go:42).
THEOREM LengthsAreKept == Spec => []LengthAsAnnounced
BY InitFits, NextFits, FitsIsHonest, PTL DEF Spec

=============================================================================
