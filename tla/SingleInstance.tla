--------------------------- MODULE SingleInstance ---------------------------
(***************************************************************************)
(* What ionik::already_running promises its callers, with nothing of the   *)
(* mechanism: of all the instances constructed under one unique name at    *)
(* most one is the first instance at a time.  The others are told so and   *)
(* stay outside.                                                           *)
(***************************************************************************)
CONSTANT Instance

VARIABLE first    \* the instances that believe they are the first one

Init == first = {}

\* A constructor whose operator() is going to return false.
Enter(p) ==
  /\ first = {}
  /\ first' = {p}

\* A destructor, or the death of the process.
Leave(p) ==
  /\ p \in first
  /\ first' = first \ {p}

Next == \E p \in Instance : Enter(p) \/ Leave(p)

Spec == Init /\ [][Next]_first

AtMostOne == \A p, q \in first : p = q
=============================================================================
