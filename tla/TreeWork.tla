------------------------------ MODULE TreeWork ------------------------------
(***************************************************************************)
(* How a request works on the tree.  A request is a goroutine; what it has *)
(* left to do is a sequence of jobs, each a sequence of items, and an item *)
(* is one statement or one storage call.  An item that lists rows puts the *)
(* items for them in front of the rest, as a recursive call does; an error *)
(* that a call returns drops the rest of its job, and a batch goes on with *)
(* the next job.  Items of different requests interleave.                  *)
(***************************************************************************)
EXTENDS FileTable

CONSTANTS
  Slots,       \* requests in progress at once
  Janitor      \* the goroutine of the trash janitor

Workers == Slots \cup {Janitor}

\* What an object holds tells whether its writer is done.
ASSUME WorkersAreNoContents == Workers \cap Contents = {}

VARIABLES
  request,     \* what a worker was asked: [op, ids, to, space, name, arg], or None
  jobs,        \* what it has left to do
  notes        \* its local variables and what it answers

workVars == <<request, jobs, notes>>

\* The locals: undo and pending of a purge, made (dirMap) of a manifest,
\* found (the entries of a directory walk), sent (the entries of the answer).
NoNotes == [status |-> 200, undo |-> <<>>, pending |-> <<>>, made |-> << >>,
            found |-> <<>>, sent |-> <<>>]

InitWork ==
  /\ request = [r \in Workers |-> None]
  /\ jobs = [r \in Workers |-> <<>>]
  /\ notes = [r \in Workers |-> NoNotes]

\* sort.Strings: a directory comes before what is in it.
PathOrder(p, q) ==
  \/ IsStrictPrefix(p, q)
  \/ \E i \in 1 .. Len(p) : /\ i <= Len(q) /\ p[i] < q[i]
                            /\ SubSeq(p, 1, i - 1) = SubSeq(q, 1, i - 1)

Idle == \A r \in Workers : jobs[r] = <<>>

Item(do, id) == [do |-> do, id |-> id, at |-> None, arg |-> None]
ItemAt(do, id, at) == [Item(do, id) EXCEPT !.at = at]
ItemFor(do, id, arg) == [Item(do, id) EXCEPT !.arg = arg]

\* The item a worker is at, and the test that starts every item below.
Now(r) == Head(Head(jobs[r]))
At(r, do) == jobs[r] # <<>> /\ Now(r).do = do

\* What is made of each of a list of rows or entries, one after another.
Each(list, Made(_)) == [i \in 1 .. Len(list) |-> Made(list[i])]

-----------------------------------------------------------------------------

\* The job is left with these items, or goes on with them and then with the
\* rest of its own.
Leaves(r, rest) == jobs' = [jobs EXCEPT ![r] = IF rest = <<>> THEN Tail(@) ELSE <<rest>> \o Tail(@)]
Goes(r, items) == Leaves(r, items \o Tail(Head(jobs[r])))

Then(r, items) == Goes(r, items) /\ UNCHANGED <<request, notes>>

\* The same, with new locals.
ThenNoting(r, items, n) ==
  Goes(r, items) /\ notes' = [notes EXCEPT ![r] = n] /\ UNCHANGED request

Done(r) == Then(r, <<>>)

\* A batch answers 200 whatever becomes of its ids.
Batch == {"batch_delete", "batch_move", "batch_copy", "batch_tags", "reap"}

\* The call returns an error: its job is over.
Fail(r, code) ==
  /\ jobs' = [jobs EXCEPT ![r] = Tail(@)]
  /\ notes' = IF request[r].op \in Batch THEN notes ELSE [notes EXCEPT ![r].status = code]
  /\ UNCHANGED request

\* The request as a whole is refused.
Refuse(r, code) ==
  /\ jobs' = [jobs EXCEPT ![r] = <<>>]
  /\ notes' = [notes EXCEPT ![r].status = code]
  /\ UNCHANGED request

\* Mutant: whose row it is, is not asked.
VerdictForAll(f, space) == IF Live(f) THEN 200 ELSE 404

\* What most handlers ask of the row they are about.
Verdict(f, space) ==
  CASE ~Live(f) -> 404
    [] Live(f) /\ files[f].space # space -> 403
    [] OTHER -> 200

\* Reads leave the tables as they are.
Read == UNCHANGED tableVars

\* A request arrives; its first jobs are given.
Start(r, q, first) ==
  /\ jobs[r] = <<>>
  /\ request' = [request EXCEPT ![r] = q]
  /\ jobs' = [jobs EXCEPT ![r] = first]
  /\ notes' = [notes EXCEPT ![r] = NoNotes]
  /\ Read
=============================================================================
