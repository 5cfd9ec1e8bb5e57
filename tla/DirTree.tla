------------------------------ MODULE DirTree ------------------------------
(***************************************************************************)
(* What a CFileIndex is to its users: a tree of entries below a root, to   *)
(* which entries are added and from which whole branches are removed.  A   *)
(* handle stands for one entry for as long as that is in the tree.         *)
(***************************************************************************)
CONSTANTS Handle, Root

\* For the handle of each entry, the handles on the way from the root to it,
\* its own with them.
VARIABLE above

Empty == [h \in {Root} |-> {Root}]

Entries == DOMAIN above

Add(d, h) ==
  /\ d \in Entries /\ h \notin Entries
  /\ above' = [e \in Entries \cup {h} |->
                 IF e = h THEN above[d] \cup {h} ELSE above[e]]

Remove(gone) == above' = [e \in Entries \ gone |-> above[e]]

\* An entry goes with all that is below it.
RemoveEntry(e) ==
  /\ e \in Entries \ {Root}
  /\ Remove({h \in Entries : e \in above[h]})

RemoveBelow(e) ==
  /\ e \in Entries
  /\ Remove({h \in Entries \ {e} : e \in above[h]})

Clear == above' = Empty

Init == above = Empty

Next ==
  \/ \E d, h \in Handle : Add(d, h)
  \/ \E e \in Handle : RemoveEntry(e) \/ RemoveBelow(e)
  \/ Clear

Spec == Init /\ [][Next]_above
=============================================================================
