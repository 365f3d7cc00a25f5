---------------------------- MODULE MCLocalFile ----------------------------
(***************************************************************************)
(* LocalFile for TLC: a thread that writes, with two objects of its own,   *)
(* and one that reads, each with the local object of rewrite() and         *)
(* read_all(path).                                                         *)
(***************************************************************************)
EXTENDS LocalFile, TLC

CONSTANTS t1, t2, a, b, tmp1, tmp2

OwnerOf == a :> t1 @@ b :> t1 @@ tmp1 :> t1 @@ tmp2 :> t2
TempOf == t1 :> tmp1 @@ t2 :> tmp2
DataOf == t1 :> <<"x">> @@ t2 :> <<"0">>

Symmetry == Permutations(Inode) \cup Permutations({a, b})

\* Two states are the same when they differ only in what nothing can read any
\* more: the size of a closed object, and the bytes of a file without a name or
\* a descriptor.
View ==
  <<entry, [i \in Inode |-> IF i \in Unused THEN <<>> ELSE content[i]],
    file, h, [o \in Object |-> IF h[o] = Invalid THEN 0 ELSE size[o]],
    pc, call, tmp, result, short, removes, leaked>>
=============================================================================
