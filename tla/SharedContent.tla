--------------------------- MODULE SharedContent ---------------------------
(***************************************************************************)
(* What a store of shared contents promises to those who hold a content,   *)
(* be they file rows or requests on their way to one: the object is kept   *)
(* until a moment at which nobody holds the content.  From then on it is   *)
(* condemned: it may go at any time, also under whoever takes it again.    *)
(***************************************************************************)
CONSTANTS
  Contents,   \* what can be stored
  Holder      \* who can hold a content

VARIABLES
  holders,    \* content -> those who hold it
  kept,       \* contents whose object is in the store
  condemned   \* contents that have been without a holder since they were stored

content == <<holders, kept, condemned>>

Init ==
  /\ holders = [s \in Contents |-> {}]
  /\ kept = {} /\ condemned = {}

\* Somebody stores the content or joins those who hold it.
Take(s, h) ==
  /\ holders' = [holders EXCEPT ![s] = @ \cup {h}]
  /\ \/ kept' = kept \cup {s}
     \/ s \in kept \cup condemned /\ kept' = kept
  /\ UNCHANGED condemned

\* A holder makes room for another one.
Pass(s, h, g) ==
  /\ h \in holders[s]
  /\ holders' = [holders EXCEPT ![s] = (@ \ {h}) \cup {g}]
  /\ UNCHANGED <<kept, condemned>>

\* Holders leave, several at once if their process dies.  A content that
\* nobody holds any more may be condemned, and no other.
Leave ==
  /\ holders' \in [Contents -> SUBSET Holder]
  /\ \A s \in Contents : holders'[s] \subseteq holders[s]
  /\ condemned \subseteq condemned' /\ condemned' \subseteq Contents
  /\ \A s \in condemned' \ condemned : holders'[s] = {}
  /\ UNCHANGED kept

Reclaim(s) ==
  /\ s \in condemned
  /\ kept' = kept \ {s}
  /\ UNCHANGED <<holders, condemned>>

Next ==
  \/ \E s \in Contents, h \in Holder : Take(s, h)
  \/ \E s \in Contents, h, g \in Holder : Pass(s, h, g)
  \/ Leave
  \/ \E s \in Contents : Reclaim(s)

Spec == Init /\ [][Next]_content
=============================================================================
