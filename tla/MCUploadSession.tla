-------------------------- MODULE MCUploadSession --------------------------
(***************************************************************************)
(* Small instances of UploadSession for TLC.                               *)
(***************************************************************************)
EXTENDS UploadSession, TLC

\* Requests of one kind are interchangeable; used by safety runs only.
Symmetric ==
  Permutations(Checked) \union Permutations(Appends \ Checked)
    \union Permutations(Finalizes)
=============================================================================
