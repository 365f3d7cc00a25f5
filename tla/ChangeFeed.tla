----------------------------- MODULE ChangeFeed -----------------------------
(***************************************************************************)
(* What a monitor of the file system owes its application, with nothing of *)
(* reads, events and buffers: each change of a watched directory goes to   *)
(* the end of its feed, and the feed is worked off from its head, one      *)
(* change at a time.  A feed that is broken, because there was no room for *)
(* a change or a callback has failed, may lose its end and say again what  *)
(* it has said; it never loses something from the middle.                  *)
(***************************************************************************)
EXTENDS Sequences, SequencesExt

CONSTANTS Path, Dir, Parent, Action

VARIABLES
  exists,    \* the paths that exist
  watched,   \* the directories that are watched
  feed,      \* feed[d]: the changes of d nobody has looked at
  broken     \* the directories whose feed is broken

vars == <<exists, watched, feed, broken>>

Directory == {Parent[p] : p \in Path} \cup Dir

Init ==
  /\ Dir \subseteq exists /\ exists \subseteq Path
  /\ watched = {} /\ feed = [d \in Directory |-> <<>>] /\ broken = {}

\* The feed of one directory changes as "to" says.
Becomes(d, to(_, _)) ==
  /\ to(feed[d], feed'[d])
  /\ feed' = [feed EXCEPT ![d] = feed'[d]]

Break(d) == d \in broken' /\ broken' \subseteq broken \cup {d}

\* Something appears, disappears or is modified, and a watched directory has it
\* in its feed, or breaks.
Change(p, a) ==
  LET d == Parent[p]
      appended(f, g) == g = Append(f, [name |-> p, action |-> a])
  IN
  /\ exists' = IF a \in {"removed", "renamed_old"} THEN exists \ {p} ELSE exists \cup {p}
  /\ \/ d \notin watched /\ UNCHANGED <<feed, broken>>
     \/ d \in watched /\ Becomes(d, appended) /\ UNCHANGED broken
     \/ d \in watched /\ Break(d) /\ Becomes(d, LAMBDA f, g : IsPrefix(g, f))
  /\ UNCHANGED watched

\* The application is told of the change at the head, or does not want to know.
LookAt(d) ==
  /\ Becomes(d, LAMBDA f, g : f # <<>> /\ g = Tail(f))
  /\ UNCHANGED <<exists, watched, broken>>

\* A callback fails: what has been looked at may come again.
Repeat(d) ==
  /\ Break(d) /\ Becomes(d, LAMBDA f, g : IsSuffix(f, g))
  /\ UNCHANGED <<exists, watched>>

Watch ==
  /\ watched \subseteq watched' /\ watched' \subseteq Directory
  /\ UNCHANGED <<exists, feed, broken>>

Stop ==
  /\ watched' = {} /\ feed' = [d \in Directory |-> <<>>]
  /\ UNCHANGED <<exists, broken>>

Next ==
  \/ \E p \in Path \ Dir, a \in Action : Change(p, a)
  \/ \E d \in watched : LookAt(d) \/ Repeat(d)
  \/ Watch \/ Stop

Spec == Init /\ [][Next]_vars
=============================================================================
