------------------------ MODULE Win32Monitor_proofs ------------------------
(***************************************************************************)
(* The monitor of the file system on Windows, for any paths and any        *)
(* directories among them, any size of the system's buffers and any number *)
(* of changes, calls and faults.                                           *)
(***************************************************************************)
EXTENDS Win32Monitor, SequenceTheorems, TLAPS

\* A directory is something that can be added, and none is called "none".
Paths ==
  /\ Dir \subseteq Path /\ "none" \notin Parents
  /\ MaxRecords \in Nat

\* The reads of the directories: without an entry there is none; with one there is
\* a read, which has set its event if it is done, until the next one is started;
\* and poll() is at work on an entry.
ReadsAndEvents ==
  /\ \A d \in Parents \ Watched : reading[d] = "none" /\ ~signalled[d]
  /\ \A d \in Watched \ deaf : reading[d] # "none" /\ (signalled[d] <=> reading[d] # "pending")
  /\ current # "none" => current \in Watched

IInv == TypeOK /\ ReadsAndEvents

LEMMA Typed ==
  ASSUME TypeOK
  PROVE  /\ DOMAIN handles = 1..Len(handles) /\ Len(handles) \in Nat
         /\ Watched = {handles[i] : i \in 1..Len(handles)} /\ Watched \subseteq Parents
         /\ \A d \in Parents : signalled[d] \in BOOLEAN /\ lost[d] \in BOOLEAN
         /\ \A d \in Parents : kernel[d] \in Seq(Records) /\ buffer[d] \in Seq(Records)
<1>1. DOMAIN handles = 1..Len(handles) /\ Len(handles) \in Nat
  BY LenProperties DEF TypeOK
<1>2. Watched = {handles[i] : i \in 1..Len(handles)}
  BY <1>1 DEF Watched, Range
<1>3. Watched \subseteq Parents
  BY <1>2, ElementOfSeq DEF TypeOK
<1>4. \A d \in Parents : signalled[d] \in BOOLEAN /\ lost[d] \in BOOLEAN
  BY Zenon DEF TypeOK
<1>5. \A d \in Parents : kernel[d] \in Seq(Records) /\ buffer[d] \in Seq(Records)
  BY DEF TypeOK
<1>6. QED
  BY <1>1, <1>2, <1>3, <1>4, <1>5

LEMMA InitIInv == ASSUME Paths, Init PROVE IInv
<1>1. /\ handles \in Seq(Parents) /\ Len(handles) = 0 /\ DOMAIN handles = {}
      /\ \A d \in Parents : kernel[d] \in Seq(Records) /\ buffer[d] \in Seq(Records)
  BY EmptySeq DEF Init
<1>2. Watched = {} /\ IsInjective(handles)
  BY <1>1 DEF Watched, Range, IsInjective
<1>3. {signalled, lost} \subseteq [Parents -> BOOLEAN]
  BY DEF Init
<1>4. {kernel, buffer} \subseteq [Parents -> Seq(Records)]
  BY <1>1 DEF Init
<1>5. TypeOK
  BY <1>1, <1>2, <1>3, <1>4 DEF Init, TypeOK, Paths
<1>6. ReadsAndEvents
  BY <1>2 DEF Init, ReadsAndEvents
<1>7. QED
  BY <1>5, <1>6 DEF IInv

\* The entries that add() makes are of directories, each once, and are new.
LEMMA NewEntries ==
  ASSUME TypeOK, Paths, NEW p \in Path, NEW n \in 0..Len(Missing(p)),
         handles' = handles \o SubSeq(Missing(p), 1, n)
  PROVE  LET new == SubSeq(Missing(p), 1, n) IN
         /\ Range(new) \subseteq Parents \ Watched
         /\ handles' \in Seq(Parents) /\ IsInjective(handles')
         /\ Watched' = Watched \cup Range(new)
<1> DEFINE m == Missing(p)
           new == SubSeq(m, 1, n)
<1>1. Parent[p] \in Parents /\ (p \in Dir => p \in Parents)
  BY DEF Parents
<1>2. /\ m \in Seq(Parents) /\ Len(m) \in Nat
      /\ \A i \in 1..Len(m) : m[i] \notin Watched
      /\ \A i, j \in 1..Len(m) : i # j => m[i] # m[j]
  <2> DEFINE a == IF p \in Dir \ Watched THEN <<p>> ELSE <<>>
             b == IF Parent[p] \in Watched \cup {p} THEN <<>> ELSE <<Parent[p]>>
  <2>1. /\ a \in Seq(Parents) /\ Len(a) \in 0..1
        /\ \A i \in 1..Len(a) : a[i] = p /\ p \notin Watched
    BY <1>1
  <2>2. /\ b \in Seq(Parents) /\ Len(b) \in 0..1
        /\ \A i \in 1..Len(b) : b[i] = Parent[p] /\ Parent[p] \notin Watched /\ Parent[p] # p
    BY <1>1
  <2>3. m = a \o b
    BY DEF Missing
  <2> HIDE DEF a, b, m
  <2>4. /\ m \in Seq(Parents) /\ Len(m) = Len(a) + Len(b)
        /\ \A i \in 1..Len(m) : m[i] = IF i <= Len(a) THEN a[i] ELSE b[i - Len(a)]
    BY <2>1, <2>2, <2>3, ConcatProperties
  <2>5. \A i \in 1..Len(m) :
          \/ i = 1 /\ i \in 1..Len(a) /\ m[i] = p /\ p \notin Watched
          \/ /\ i = Len(a) + 1 /\ m[i] = Parent[p]
             /\ Parent[p] \notin Watched /\ Parent[p] # p
    <3> TAKE i \in 1..Len(m)
    <3>1. CASE i <= Len(a)
      BY <2>1, <2>4, <3>1
    <3>2. CASE ~(i <= Len(a))
      <4>1. i - Len(a) \in 1..Len(b) /\ i = Len(a) + 1
        BY <2>1, <2>2, <2>4, <3>2
      <4>2. QED
        BY <2>2, <2>4, <3>2, <4>1
    <3>3. QED
      BY <3>1, <3>2
  <2>6. QED
    BY <2>1, <2>2, <2>4, <2>5
<1> HIDE DEF m
<1>3. /\ new \in Seq(Parents) /\ Len(new) = n
      /\ \A i \in 1..n : i \in 1..Len(m) /\ new[i] = m[i]
  <2>1. n \in Int /\ \A i \in 1..n : i \in 1..Len(m) /\ m[i] \in Parents
    BY <1>2, ElementOfSeq DEF m
  <2>2. QED
    BY <2>1, SubSeqProperties
<1>4. DOMAIN new = 1..n /\ Range(new) \subseteq Parents \ Watched
  BY <1>2, <1>3, LenProperties, ElementOfSeq DEF Range
<1> HIDE DEF new
<1>5. handles' = handles \o new /\ handles \in Seq(Parents)
  BY DEF new, m, TypeOK
<1>6. /\ handles' \in Seq(Parents) /\ Len(handles') = Len(handles) + n
      /\ \A i \in 1..Len(handles') :
           handles'[i] = IF i <= Len(handles) THEN handles[i] ELSE new[i - Len(handles)]
  <2>1. /\ handles \o new \in Seq(Parents) /\ Len(handles \o new) = Len(handles) + Len(new)
        /\ \A i \in 1..Len(handles) + Len(new) :
             (handles \o new)[i] = IF i <= Len(handles) THEN handles[i] ELSE new[i - Len(handles)]
    BY <1>3, <1>5, ConcatProperties
  <2>2. QED
    BY <1>3, <1>5, <2>1
<1>7. DOMAIN handles' = 1..(Len(handles) + n) /\ Len(handles) \in Nat /\ n \in Nat
  BY <1>5, <1>6, LenProperties
<1>8. \A i \in 1..Len(handles) : handles[i] \in Watched
  BY Typed
<1>9. \A i \in 1..Len(handles') :
        \/ i \in 1..Len(handles) /\ handles'[i] = handles[i] /\ handles[i] \in Watched
        \/ /\ ~(i <= Len(handles)) /\ i - Len(handles) \in 1..n
           /\ handles'[i] = new[i - Len(handles)] /\ new[i - Len(handles)] \in Range(new)
  BY <1>4, <1>6, <1>7, <1>8 DEF Range
<1>10. IsInjective(handles')
  <2>1. ASSUME NEW i \in 1..Len(handles'), NEW j \in 1..Len(handles'), handles'[i] = handles'[j]
        PROVE  i = j
    <3>1. CASE i <= Len(handles) /\ j <= Len(handles)
      <4>1. \A x, y \in 1..Len(handles) : handles[x] = handles[y] => x = y
        BY Typed DEF TypeOK, IsInjective
      <4>2. QED
        BY <1>7, <1>9, <2>1, <3>1, <4>1
    <3>2. CASE ~(i <= Len(handles)) /\ ~(j <= Len(handles))
      <4>1. i - Len(handles) = j - Len(handles)
        <5> DEFINE x == i - Len(handles)
                   y == j - Len(handles)
        <5>1. x \in 1..n /\ y \in 1..n /\ new[x] = new[y]
          BY <1>9, <2>1, <3>2
        <5>2. x \in 1..Len(m) /\ y \in 1..Len(m) /\ m[x] = m[y]
          BY <1>3, <5>1
        <5>3. QED
          BY <1>2, <5>2
      <4>2. QED
        BY <1>6, <1>7, <4>1
    <3>3. CASE (i <= Len(handles)) # (j <= Len(handles))
      BY <1>4, <1>7, <1>9, <2>1, <3>3
    <3>4. QED
      BY <3>1, <3>2, <3>3
  <2>2. QED
    BY <1>6, <1>7, <2>1 DEF IsInjective
<1>11. Watched' = Watched \cup Range(new)
  <2>1. Watched' = {handles'[i] : i \in 1..Len(handles')}
    BY <1>6, <1>7 DEF Watched, Range
  <2>2. \A d \in Watched : \E i \in 1..Len(handles') : handles'[i] = d
    BY <1>6, <1>7, Typed
  <2>3. \A d \in Range(new) : \E i \in 1..Len(handles') : handles'[i] = d
    <3> TAKE d \in Range(new)
    <3>1. PICK k \in 1..n : new[k] = d
      BY <1>4 DEF Range
    <3>2. /\ k + Len(handles) \in 1..Len(handles')
          /\ ~(k + Len(handles) <= Len(handles)) /\ (k + Len(handles)) - Len(handles) = k
      BY <1>6, <1>7, <3>1
    <3>3. handles'[k + Len(handles)] = d
      BY <1>6, <3>1, <3>2
    <3>4. QED
      BY <3>2, <3>3
  <2>4. ASSUME NEW d \in Watched' PROVE d \in Watched \cup Range(new)
    <3>1. PICK i \in 1..Len(handles') : handles'[i] = d
      BY <2>1
    <3>2. handles'[i] \in Watched \/ handles'[i] \in Range(new)
      BY <1>9
    <3>3. QED
      BY <3>1, <3>2
  <2>5. ASSUME NEW d \in Watched \cup Range(new) PROVE d \in Watched'
    <3>1. \E i \in 1..Len(handles') : handles'[i] = d
      BY <2>2, <2>3
    <3>2. QED
      BY <2>1, <3>1
  <2>6. QED
    BY <2>4, <2>5
<1>12. QED
  BY <1>4, <1>6, <1>10, <1>11 DEF new, m

LEMMA ChangeStep == ASSUME IInv, Paths, Change PROVE IInv'
<1>1. PICK p \in Path \ Dir, a \in Action :
        /\ exists' = IF a \in {"removed", "renamed_old"} THEN exists \ {p} ELSE exists \cup {p}
        /\ IF Parent[p] \in Watched
           THEN Record(Parent[p], [name |-> p, action |-> a])
           ELSE UNCHANGED <<readVars, kernel, lost, excused>>
  BY DEF Change
<1>2. UNCHANGED <<handles, filter, pc, current, at, deaf, adds, faults>> /\ Watched' = Watched
  BY DEF Change, entryVars, Watched
<1>3. Dir \subseteq exists' /\ exists' \subseteq Path
  BY <1>1 DEF IInv, TypeOK
<1> DEFINE d == Parent[p]
           r == [name |-> p, action |-> a]
<1>4. d \in Parents /\ r \in Records
  BY DEF Parents, Records
<1>5. /\ reading' \in [Parents -> {"none", "pending", "done", "overflowed"}]
      /\ {signalled', lost'} \subseteq [Parents -> BOOLEAN]
      /\ {kernel', buffer'} \subseteq [Parents -> Seq(Records)]
      /\ excused' \subseteq Parents
      /\ \/ UNCHANGED <<reading, signalled>>
         \/ /\ d \in Watched /\ reading[d] = "pending"
            /\ reading' = [reading EXCEPT ![d] = "done"]
            /\ signalled' = [signalled EXCEPT ![d] = TRUE]
  <2>1. CASE d \notin Watched
    BY <1>1, <2>1 DEF readVars, IInv, TypeOK
  <2>2. CASE d \in Watched /\ reading[d] = "pending"
    <3>1. /\ reading' = [reading EXCEPT ![d] = "done"]
          /\ signalled' = [signalled EXCEPT ![d] = TRUE]
          /\ buffer' = [buffer EXCEPT ![d] = <<r>>]
          /\ UNCHANGED <<kernel, lost, excused>>
      BY <1>1, <2>2 DEF Record
    <3>2. <<r>> \in Seq(Records)
      BY <1>4
    <3>3. buffer' \in [Parents -> Seq(Records)]
      BY <3>1, <3>2 DEF IInv, TypeOK
    <3>4. signalled' \in [Parents -> BOOLEAN]
      BY <3>1, Zenon DEF IInv, TypeOK
    <3>5. QED
      BY <2>2, <3>1, <3>3, <3>4 DEF IInv, TypeOK
  <2>3. CASE d \in Watched /\ reading[d] # "pending" /\ ~lost[d] /\ Len(kernel[d]) < MaxRecords
    <3>1. /\ kernel' = [kernel EXCEPT ![d] = Append(kernel[d], r)]
          /\ UNCHANGED <<reading, signalled, buffer, lost, excused>>
      BY <1>1, <2>3 DEF Record
    <3>2. Append(kernel[d], r) \in Seq(Records)
      BY <1>4, Typed, AppendProperties DEF IInv
    <3>3. QED
      BY <3>1, <3>2, ZenonT(60) DEF IInv, TypeOK
  <2>4. CASE d \in Watched /\ reading[d] # "pending" /\ ~(~lost[d] /\ Len(kernel[d]) < MaxRecords)
    <3>1. /\ lost' = [lost EXCEPT ![d] = TRUE]
          /\ kernel' = [kernel EXCEPT ![d] = <<>>]
          /\ excused' = excused \cup {d}
          /\ UNCHANGED <<reading, signalled, buffer>>
      BY <1>1, <2>4 DEF Record
    <3>2. <<>> \in Seq(Records)
      OBVIOUS
    <3>3. lost' \in [Parents -> BOOLEAN]
      BY <3>1, Zenon DEF IInv, TypeOK
    <3>4. QED
      BY <1>4, <3>1, <3>2, <3>3 DEF IInv, TypeOK
  <2>5. QED
    BY <2>1, <2>2, <2>3, <2>4
<1>6. TypeOK'
  BY <1>2, <1>3, <1>5 DEF IInv, TypeOK
<1>7. ReadsAndEvents'
  <2>1. CASE UNCHANGED <<reading, signalled>>
    BY <1>2, <2>1 DEF IInv, ReadsAndEvents
  <2>2. CASE /\ d \in Watched /\ reading[d] = "pending"
             /\ reading' = [reading EXCEPT ![d] = "done"]
             /\ signalled' = [signalled EXCEPT ![d] = TRUE]
    <3>1. \A c \in Parents : c # d => reading'[c] = reading[c] /\ signalled'[c] = signalled[c]
      BY <2>2 DEF IInv, TypeOK
    <3>2. reading'[d] = "done" /\ signalled'[d]
      BY <1>4, <2>2 DEF IInv, TypeOK
    <3>3. Watched \subseteq Parents
      BY Typed DEF IInv
    <3>4. QED
      BY <1>2, <2>2, <3>1, <3>2, <3>3 DEF IInv, ReadsAndEvents
  <2>3. QED
    BY <1>5, <2>1, <2>2
<1>8. QED
  BY <1>6, <1>7 DEF IInv

LEMMA AddStep ==
  ASSUME IInv, Paths, NEW p \in Path, Add(p) \/ AddFails(p)
  PROVE  IInv'
<1>1. PICK n \in 0..Len(Missing(p)) : MakeEntries(p, n)
  <2>1. Len(Missing(p)) \in Nat
    BY DEF Missing
  <2>2. QED
    BY <2>1 DEF Add, AddFails
<1>2. /\ UNCHANGED <<exists, kernel, lost, signalled, buffer, current, at, deaf, excused>>
      /\ pc' = pc /\ filter' \in [Parents -> SUBSET Path]
  <2>1. Parent[p] \in Parents
    BY DEF Parents
  <2>2. CASE Add(p)
    BY <2>1, <2>2 DEF Add, IInv, TypeOK, systemVars, history
  <2>3. CASE AddFails(p)
    BY <2>3 DEF AddFails, IInv, TypeOK, systemVars, history
  <2>4. QED
    BY <2>2, <2>3
<1> DEFINE new == SubSeq(Missing(p), 1, n)
<1>3. /\ handles' = handles \o new
      /\ reading' = [d \in Parents |-> IF d \in Range(new) THEN "pending" ELSE reading[d]]
  BY <1>1 DEF MakeEntries
<1>4. /\ Range(new) \subseteq Parents \ Watched
      /\ handles' \in Seq(Parents) /\ IsInjective(handles')
      /\ Watched' = Watched \cup Range(new)
  BY <1>3, NewEntries DEF IInv
<1> HIDE DEF new
<1>5. TypeOK'
  BY <1>2, <1>3, <1>4 DEF IInv, TypeOK
<1>6. ReadsAndEvents'
  BY <1>2, <1>3, <1>4, Typed DEF IInv, ReadsAndEvents
<1>7. QED
  BY <1>5, <1>6 DEF IInv

LEMMA PollStep ==
  ASSUME IInv, Paths, Wait \/ Skip \/ Dispatch \/ CallbackReturns \/ CallbackThrows
  PROVE  IInv'
<1>1. UNCHANGED <<exists, kernel, lost, handles, filter, reading, signalled, buffer, deaf>>
  BY DEF Wait, Skip, Dispatch, CallbackReturns, CallbackThrows, systemVars, entryVars, readVars,
         history
<1>2. Watched' = Watched /\ Watched \subseteq Parents
  BY <1>1, Typed DEF IInv, Watched
<1>3. /\ pc' \in {"idle", "dispatch", "callback"}
      /\ current' \in Watched \cup {"none"} /\ (current' = "none" <=> pc' = "idle")
      /\ at' \in Nat /\ excused' \subseteq Parents
  <2>1. CASE Wait
    BY <1>2, <2>1, Typed DEF Wait, IInv, TypeOK, history, Paths
  <2>2. CASE Skip \/ Dispatch \/ CallbackReturns
    BY <1>2, <2>2 DEF Skip, Dispatch, CallbackReturns, IInv, TypeOK, ReadsAndEvents, history
  <2>3. CASE CallbackThrows
    BY <1>2, <2>3 DEF CallbackThrows, IInv, TypeOK, ReadsAndEvents
  <2>4. QED
    BY <2>1, <2>2, <2>3
<1>4. TypeOK'
  BY <1>1, <1>2, <1>3 DEF IInv, TypeOK
<1>5. ReadsAndEvents'
  BY <1>1, <1>2, <1>3 DEF IInv, ReadsAndEvents
<1>6. QED
  BY <1>4, <1>5 DEF IInv

LEMMA RereadStep == ASSUME IInv, Paths, Reread PROVE IInv'
<1> DEFINE d == current
<1>1. /\ UNCHANGED <<exists, handles, filter, deaf, excused>>
      /\ pc' = "idle" /\ current' = "none" /\ at' = 1 /\ Watched' = Watched
      /\ d \in Watched /\ Watched \subseteq Parents
  BY Typed DEF Reread, entryVars, history, IInv, TypeOK, ReadsAndEvents, Watched
<1>2. ReadDirChanges(d)
  BY DEF Reread
<1>3. reading' \in [Parents -> {"none", "pending", "done", "overflowed"}]
  BY <1>2 DEF ReadDirChanges, IInv, TypeOK
<1>4. buffer' \in [Parents -> Seq(Records)] /\ kernel' \in [Parents -> Seq(Records)]
  <2>1. <<>> \in Seq(Records) /\ kernel[d] \in Seq(Records)
    BY <1>1, Typed DEF IInv
  <2>2. QED
    BY <1>2, <2>1 DEF ReadDirChanges, IInv, TypeOK
<1>5. signalled' \in [Parents -> BOOLEAN] /\ lost' \in [Parents -> BOOLEAN]
  <2>1. (lost[d] \/ kernel[d] # <<>>) \in BOOLEAN
    BY Zenon
  <2>2. QED
    BY <1>2, <2>1, Zenon DEF ReadDirChanges, IInv, TypeOK
<1>6. TypeOK'
  <2>1. {signalled', lost'} \subseteq [Parents -> BOOLEAN]
    BY <1>5
  <2>2. QED
    BY <1>1, <1>3, <1>4, <2>1 DEF IInv, TypeOK
<1>7. \A c \in Parents : c # d => reading'[c] = reading[c] /\ signalled'[c] = signalled[c]
  BY <1>2 DEF ReadDirChanges, IInv, TypeOK
<1>8. reading'[d] # "none" /\ (signalled'[d] <=> reading'[d] # "pending")
  BY <1>1, <1>2 DEF ReadDirChanges, IInv, TypeOK
<1>9. ReadsAndEvents'
  BY <1>1, <1>7, <1>8 DEF IInv, ReadsAndEvents
<1>10. QED
  BY <1>6, <1>9 DEF IInv

LEMMA RereadFailsStep == ASSUME IInv, Paths, RereadFails PROVE IInv'
<1> DEFINE d == current
<1>1. /\ UNCHANGED <<exists, kernel, lost, handles, filter, buffer, excused>>
      /\ signalled' = [signalled EXCEPT ![d] = FALSE]
      /\ reading' = [reading EXCEPT ![d] = "none"]
      /\ deaf' = deaf \cup {d}
      /\ pc' = "idle" /\ current' = "none" /\ at' = 1
  BY DEF RereadFails, systemVars, entryVars
<1>2. Watched' = Watched /\ d \in Watched /\ Watched \subseteq Parents
  BY <1>1, Typed DEF RereadFails, IInv, TypeOK, ReadsAndEvents, Watched
<1>3. signalled' \in [Parents -> BOOLEAN]
  BY <1>1, Zenon DEF IInv, TypeOK
<1>4. TypeOK'
  BY <1>1, <1>2, <1>3 DEF IInv, TypeOK
<1>5. \A c \in Parents : c # d => reading'[c] = reading[c] /\ signalled'[c] = signalled[c]
  BY <1>1 DEF IInv, TypeOK
<1>6. ReadsAndEvents'
  BY <1>1, <1>2, <1>5 DEF IInv, ReadsAndEvents
<1>7. QED
  BY <1>4, <1>6 DEF IInv

LEMMA DestroyStep == ASSUME IInv, Paths, Destroy PROVE IInv'
<1>1. /\ UNCHANGED <<exists, kernel, lost, filter, buffer, current, at, deaf, excused>>
      /\ handles' = <<>> /\ pc = "idle" /\ pc' = "gone"
      /\ reading' = [d \in Parents |-> "none"]
      /\ signalled' = [d \in Parents |-> FALSE]
  BY DEF Destroy, systemVars, history
<1>2. handles' \in Seq(Parents) /\ Len(handles') = 0 /\ DOMAIN handles' = {}
  BY <1>1, EmptySeq
<1>3. Watched' = {} /\ IsInjective(handles')
  BY <1>2 DEF Watched, Range, IsInjective
<1>4. signalled' \in [Parents -> BOOLEAN]
  BY <1>1
<1>5. TypeOK'
  BY <1>1, <1>2, <1>3, <1>4 DEF IInv, TypeOK
<1>6. ReadsAndEvents'
  BY <1>1, <1>3 DEF IInv, TypeOK, ReadsAndEvents
<1>7. QED
  BY <1>5, <1>6 DEF IInv

LEMMA NextIInv == ASSUME IInv, Paths, [Next]_vars PROVE IInv'
<1>1. CASE UNCHANGED vars
  BY <1>1 DEF vars, systemVars, entryVars, readVars, history, IInv, TypeOK, ReadsAndEvents, Watched
<1>2. QED
  BY <1>1, ChangeStep, AddStep, PollStep, RereadStep, RereadFailsStep, DestroyStep DEF Next, Poll

LEMMA Invariant == ASSUME Paths PROVE Spec => []IInv
<1>1. Init => IInv
  BY InitIInv
<1>2. IInv /\ [Next]_vars => IInv'
  BY NextIInv
<1>3. QED
  BY <1>1, <1>2, PTL DEF Spec

\* The variables keep their types, and every handle has one entry.
THEOREM TypeCorrect == ASSUME Paths PROVE Spec => []TypeOK
<1>1. IInv => TypeOK
  BY DEF IInv
<1>2. QED
  BY <1>1, Invariant, PTL

\* Between two polls a directory that is watched has a read that will set its
\* event, or an event the next poll sees, unless poll() has failed for it.
THEOREM NobodyIsDeaf == ASSUME Paths PROVE Spec => []NoDeafDirectory
<1>1. IInv => NoDeafDirectory
  BY DEF IInv, ReadsAndEvents, NoDeafDirectory
<1>2. QED
  BY <1>1, Invariant, PTL
-----------------------------------------------------------------------------
(* The monitor implements ChangeFeed.                                      *)

\* The feeds that Feed is given.
FeedNow == [d \in Parents |-> IF d \in Watched THEN Ahead(d) ELSE <<>>]

LEMMA IsFeedChange ==
  ASSUME NEW p \in Path \ Dir, NEW a \in Action,
         exists' = IF a \in {"removed", "renamed_old"} THEN exists \ {p} ELSE exists \cup {p},
         Watched' = Watched,
         \/ Parent[p] \notin Watched /\ FeedNow' = FeedNow /\ excused' = excused
         \/ /\ Parent[p] \in Watched /\ excused' = excused
            /\ FeedNow' = [FeedNow EXCEPT ![Parent[p]] = FeedNow'[Parent[p]]]
            /\ FeedNow'[Parent[p]] = Append(FeedNow[Parent[p]], [name |-> p, action |-> a])
         \/ /\ Parent[p] \in Watched /\ excused' = excused \cup {Parent[p]}
            /\ FeedNow' = [FeedNow EXCEPT ![Parent[p]] = FeedNow'[Parent[p]]]
            /\ Feed!IsPrefix(FeedNow'[Parent[p]], FeedNow[Parent[p]])
  PROVE  Feed!Next
<1>1. Feed!Change(p, a)
  BY DEF Feed!Change, Feed!Becomes, Feed!Break, FeedNow
<1>2. QED
  BY <1>1 DEF Feed!Next

LEMMA IsFeedStep ==
  ASSUME NEW d \in Watched, exists' = exists, Watched' = Watched,
         FeedNow' = [FeedNow EXCEPT ![d] = FeedNow'[d]],
         \/ excused' = excused /\ FeedNow[d] # <<>> /\ FeedNow'[d] = Tail(FeedNow[d])
         \/ excused' = excused \cup {d} /\ Feed!IsSuffix(FeedNow[d], FeedNow'[d])
  PROVE  Feed!Next
<1>1. Feed!LookAt(d) \/ Feed!Repeat(d)
  BY DEF Feed!LookAt, Feed!Repeat, Feed!Becomes, Feed!Break, FeedNow
<1>2. QED
  BY <1>1 DEF Feed!Next

LEMMA IsFeedWatch ==
  ASSUME exists' = exists, excused' = excused, Watched' \subseteq Parents,
         \/ Watched \subseteq Watched' /\ FeedNow' = FeedNow
         \/ Watched' = {} /\ FeedNow' = [d \in Parents |-> <<>>]
  PROVE  Feed!Next
<1>1. Feed!Watch \/ Feed!Stop
  BY DEF Feed!Watch, Feed!Stop, Feed!Directory, Parents, FeedNow
<1>2. QED
  BY <1>1 DEF Feed!Next

\* What the system keeps of a directory is behind a read that is done: it keeps
\* nothing while a read is pending, after an overflow, and of what is not watched.
\* poll() is not at work on a pending read, and within the buffer in a callback.
Buffers ==
  /\ \A d \in Parents : reading[d] = "pending" \/ lost[d] => kernel[d] = <<>>
  /\ \A d \in Parents \ Watched : pc # "gone" => kernel[d] = <<>>
  /\ \A d \in Parents : signalled[d] => reading[d] # "pending"
  /\ current # "none" => reading[current] # "pending"
  /\ at >= 1 /\ (pc = "callback" => at <= Len(buffer[current]))

LEMMA InitBuffers == ASSUME Init PROVE Buffers
BY DEF Init, Buffers

LEMMA ChangeBuffers == ASSUME IInv, Paths, Buffers, Change PROVE Buffers'
<1>1. UNCHANGED <<handles, pc, current, at>> /\ Watched' = Watched
  BY DEF Change, entryVars, Watched
<1>2. CASE UNCHANGED <<readVars, kernel, lost>>
  BY <1>1, <1>2 DEF readVars, Buffers
<1>3. ASSUME NEW d \in Watched, NEW r \in Records, Record(d, r) PROVE Buffers'
  <2>1. d \in Parents
    BY Typed DEF IInv
  <2>2. CASE reading[d] = "pending"
    <3>1. /\ reading' = [reading EXCEPT ![d] = "done"]
          /\ signalled' = [signalled EXCEPT ![d] = TRUE]
          /\ buffer' = [buffer EXCEPT ![d] = <<r>>]
          /\ UNCHANGED <<kernel, lost>>
      BY <1>3, <2>2 DEF Record
    <3>2. current # d
      BY <2>1, <2>2 DEF Buffers, Paths
    <3>3. QED
      BY <1>1, <2>1, <2>2, <3>1, <3>2 DEF Buffers, IInv, TypeOK
  <2>3. CASE reading[d] # "pending"
    <3>1. UNCHANGED readVars
      BY <1>3, <2>3 DEF Record, readVars
    <3>2. \/ lost' = lost /\ ~lost[d] /\ \A c \in Parents \ {d} : kernel'[c] = kernel[c]
          \/ lost' = [lost EXCEPT ![d] = TRUE] /\ kernel' = [kernel EXCEPT ![d] = <<>>]
      BY <1>3, <2>1, <2>3 DEF Record, IInv, TypeOK
    <3>3. QED
      BY <1>1, <2>1, <2>3, <3>1, <3>2 DEF Buffers, readVars, IInv, TypeOK
  <2>4. QED
    BY <2>2, <2>3
<1>4. QED
  BY <1>2, <1>3 DEF Change, Records

LEMMA Added ==
  ASSUME IInv, Paths, NEW p \in Path, Add(p) \/ AddFails(p)
  PROVE  /\ UNCHANGED <<exists, kernel, lost, signalled, buffer, pc, current, at, excused>>
         /\ pc # "gone"
         /\ Watched \subseteq Watched' /\ Watched' \subseteq Parents
         /\ reading' = [d \in Parents |->
                          IF d \in Watched' \ Watched THEN "pending" ELSE reading[d]]
<1>1. PICK n \in 0..Len(Missing(p)) : MakeEntries(p, n)
  <2>1. Len(Missing(p)) \in Nat
    BY DEF Missing
  <2>2. QED
    BY <2>1 DEF Add, AddFails
<1> DEFINE new == Range(SubSeq(Missing(p), 1, n))
<1>2. /\ UNCHANGED <<exists, kernel, lost, signalled, buffer, pc, current, at, excused>>
      /\ pc # "gone"
  BY DEF Add, AddFails, systemVars, history
<1>3. /\ handles' = handles \o SubSeq(Missing(p), 1, n)
      /\ reading' = [d \in Parents |-> IF d \in new THEN "pending" ELSE reading[d]]
  BY <1>1 DEF MakeEntries
<1>4. new \subseteq Parents \ Watched /\ Watched' = Watched \cup new
  BY <1>3, NewEntries DEF IInv
<1> HIDE DEF new
<1>5. Watched \subseteq Parents
  BY Typed DEF IInv
<1>6. QED
  BY <1>2, <1>3, <1>4, <1>5

LEMMA AddBuffers ==
  ASSUME IInv, Paths, Buffers, NEW p \in Path, Add(p) \/ AddFails(p)
  PROVE  Buffers'
<1>1. \A d \in Watched' \ Watched : kernel[d] = <<>> /\ ~signalled[d]
  BY Added DEF Buffers, IInv, ReadsAndEvents
<1>2. current # "none" => current \in Parents /\ current \in Watched
  BY DEF IInv, TypeOK, ReadsAndEvents
<1>3. QED
  BY <1>1, <1>2, Added DEF Buffers

LEMMA PollBuffers ==
  ASSUME IInv, Paths, Buffers, Wait \/ Skip \/ Dispatch \/ CallbackReturns \/ CallbackThrows
  PROVE  Buffers'
<1>1. UNCHANGED <<kernel, lost, handles, reading, signalled, buffer>> /\ Watched' = Watched
  BY DEF Wait, Skip, Dispatch, CallbackReturns, CallbackThrows, systemVars, entryVars, readVars,
         Watched
<1>2. at' >= 1 /\ pc # "gone" /\ pc' # "gone"
  BY DEF Wait, Skip, Dispatch, CallbackReturns, CallbackThrows, Buffers, IInv, TypeOK
<1>3. pc' = "callback" => at' <= Len(buffer[current'])
  BY DEF Wait, Skip, Dispatch, CallbackReturns, CallbackThrows
<1>4. current' # "none" => reading[current'] # "pending"
  BY Typed DEF Wait, Skip, Dispatch, CallbackReturns, CallbackThrows, Buffers, IInv
<1>5. QED
  BY <1>1, <1>2, <1>3, <1>4 DEF Buffers

LEMMA RereadBuffers ==
  ASSUME IInv, Paths, Buffers, Reread \/ RereadFails
  PROVE  Buffers'
<1> DEFINE d == current
<1>1. /\ pc = "dispatch" /\ pc' = "idle" /\ current' = "none" /\ at' = 1 /\ d \in Parents
      /\ Watched' = Watched /\ d \in Watched
  BY DEF Reread, RereadFails, entryVars, Watched, IInv, TypeOK, ReadsAndEvents
<1>2. \A c \in Parents \ {d} : /\ reading'[c] = reading[c] /\ signalled'[c] = signalled[c]
                               /\ kernel'[c] = kernel[c] /\ lost'[c] = lost[c]
  BY DEF Reread, RereadFails, ReadDirChanges, systemVars, IInv, TypeOK
<1>3. /\ reading'[d] = "pending" \/ lost'[d] => kernel'[d] = <<>>
      /\ signalled'[d] => reading'[d] # "pending"
  <2>1. CASE Reread
    <3>1. kernel'[d] = <<>>
      BY <1>1, <2>1 DEF Reread, ReadDirChanges, IInv, TypeOK
    <3>2. /\ reading'[d] = IF lost[d] THEN "overflowed" ELSE IF kernel[d] = <<>> THEN "pending" ELSE "done"
          /\ signalled'[d] = (lost[d] \/ kernel[d] # <<>>)
      BY <1>1, <2>1 DEF Reread, ReadDirChanges, IInv, TypeOK
    <3>3. QED
      BY <3>1, <3>2
  <2>2. CASE RereadFails
    BY <1>1, <2>2 DEF RereadFails, systemVars, Buffers, IInv, TypeOK
  <2>3. QED
    BY <2>1, <2>2
<1>4. QED
  BY <1>1, <1>2, <1>3 DEF Buffers

LEMMA NextBuffers == ASSUME IInv, Paths, Buffers, [Next]_vars PROVE Buffers'
<1>1. CASE UNCHANGED vars
  BY <1>1 DEF vars, systemVars, entryVars, readVars, history, Buffers, Watched
<1>2. CASE Destroy
  BY <1>2 DEF Destroy, systemVars, Buffers, IInv, TypeOK
<1>3. QED
  BY <1>1, <1>2, ChangeBuffers, AddBuffers, PollBuffers, RereadBuffers DEF Next, Poll

LEMMA IsFeedStutter ==
  ASSUME exists' = exists, Watched' = Watched, FeedNow' = FeedNow, excused' = excused
  PROVE  UNCHANGED Feed!vars
BY DEF Feed!vars, FeedNow

\* What is behind the first record of a feed.
LEMMA TailOfRest ==
  ASSUME NEW S, NEW b \in Seq(S), NEW k \in Seq(S), NEW i \in 1..Len(b)
  PROVE  LET r == SubSeq(b, i, Len(b)) \o k IN
         r # <<>> /\ Tail(r) = SubSeq(b, i + 1, Len(b)) \o k
<1> DEFINE n == Len(b)
           t == SubSeq(b, i + 1, n)
           r == SubSeq(b, i, n) \o k
<1>1. n \in Nat /\ b[i] \in S /\ n \in i..n /\ \A j \in (i + 1)..n : b[j] \in S
  BY ElementOfSeq, LenProperties
<1>2. SubSeq(b, i, n) = <<b[i]>> \o t
  BY <1>1, SubSeqRecursiveFirst
<1>3. t \in Seq(S)
  BY <1>1, SubSeqProperties
<1>4. <<b[i]>> \in Seq(S)
  BY <1>1
<1> HIDE DEF t, n
<1>5. r = <<b[i]>> \o (t \o k) /\ t \o k \in Seq(S)
  BY <1>2, <1>3, <1>4, ConcatAssociative, ConcatProperties
<1> DEFINE u == t \o k
<1> HIDE DEF u
<1>6. u \in Seq(S) /\ Len(<<b[i]>>) = 1 /\ <<b[i]>>[1] = b[i] /\ Len(u) \in Nat
  BY <1>5, LenProperties DEF u
<1>7. /\ r = <<b[i]>> \o u /\ r \in Seq(S) /\ Len(r) = 1 + Len(u)
      /\ \A j \in 1..(1 + Len(u)) : r[j] = IF j <= 1 THEN <<b[i]>>[j] ELSE u[j - 1]
  <2> DEFINE a == <<b[i]>>
  <2>1. a \in Seq(S) /\ Len(a) = 1 /\ a[1] = b[i] /\ r = a \o u /\ u \in Seq(S)
    BY <1>4, <1>5, <1>6 DEF u
  <2> HIDE DEF a, r
  <2>2. /\ a \o u \in Seq(S) /\ Len(a \o u) = Len(a) + Len(u)
        /\ \A j \in 1..Len(a) + Len(u) : (a \o u)[j] = IF j <= Len(a) THEN a[j] ELSE u[j - Len(a)]
    BY <2>1, ConcatProperties
  <2>3. /\ r = a \o u /\ r \in Seq(S) /\ Len(r) = 1 + Len(u)
        /\ \A j \in 1..(1 + Len(u)) : r[j] = IF j <= 1 THEN a[j] ELSE u[j - 1]
    BY <2>1, <2>2
  <2>4. QED
    BY <2>3 DEF a
<1> HIDE DEF r
<1>8. r # <<>>
  BY <1>6, <1>7, EmptySeq
<1>9. /\ Tail(r) \in Seq(S) /\ Len(Tail(r)) = Len(u)
      /\ \A j \in 1..Len(u) : Tail(r)[j] = r[j + 1]
  BY <1>6, <1>7, <1>8, HeadTailProperties
<1>10. \A j \in 1..Len(u) : r[j + 1] = u[j]
  BY <1>6, <1>7
<1>11. Tail(r) = u
  BY <1>6, <1>9, <1>10, SeqEqual
<1>12. QED
  BY <1>8, <1>11 DEF r, u, t, n

LEMMA PrefixOf ==
  ASSUME NEW S, NEW a \in Seq(S), NEW c \in Seq(S)
  PROVE  Feed!IsPrefix(a, a \o c)
<1>1. /\ a \o c \in Seq(S) /\ Len(a \o c) = Len(a) + Len(c) /\ Len(a) \in Nat /\ Len(c) \in Nat
      /\ \A i \in 1..Len(a) : a[i] \in S /\ (a \o c)[i] = a[i]
  BY ConcatProperties, LenProperties, ElementOfSeq
<1>2. SubSeq(a, 1, Len(a)) = a
  BY SubSeqFull
<1> DEFINE s == SubSeq(a \o c, 1, Len(a))
<1>3. /\ s \in Seq(S) /\ Len(s) = Len(a)
      /\ \A i \in 1..Len(a) : s[i] = (a \o c)[i]
  <2>1. \A i \in 1..Len(a) : (a \o c)[i] \in S
    BY <1>1
  <2> DEFINE ac == a \o c
  <2> HIDE DEF ac
  <2>2. /\ SubSeq(ac, 1, Len(a)) \in Seq(S)
        /\ Len(SubSeq(ac, 1, Len(a))) = IF 1 <= Len(a) THEN Len(a) - 1 + 1 ELSE 0
        /\ \A i \in 1..(Len(a) - 1 + 1) : SubSeq(ac, 1, Len(a))[i] = ac[1 + i - 1]
    BY <1>1, <2>1, SubSeqProperties DEF ac
  <2>3. QED
    BY <1>1, <2>2 DEF ac
<1>4. s = a
  BY <1>1, <1>3, SeqEqual
<1>5. QED
  BY <1>1, <1>2, <1>4 DEF Feed!IsPrefix

LEMMA SplitAt ==
  ASSUME NEW S, NEW s \in Seq(S), NEW i \in 0..Len(s)
  PROVE  SubSeq(s, 1, i) \o SubSeq(s, i + 1, Len(s)) = SubSeq(s, 1, Len(s))
<1>1. Len(s) \in Nat
  BY LenProperties
<1>2. 1 \in 1..(Len(s) + 1) /\ i \in (1 - 1)..Len(s) /\ Len(s) \in i..Len(s)
  BY <1>1
<1>3. QED
  BY <1>2, ConcatAdjacentSubSeq

LEMMA ReverseOf ==
  ASSUME NEW S, NEW a \in Seq(S), NEW c \in Seq(S)
  PROVE  /\ Feed!Reverse(a) \in Seq(S) /\ Feed!Reverse(c) \in Seq(S)
         /\ Feed!Reverse(a \o c) = Feed!Reverse(c) \o Feed!Reverse(a)
<1> DEFINE m == Len(a)
           n == Len(c)
<1>1. m \in Nat /\ n \in Nat /\ (\A i \in 1..m : a[i] \in S) /\ (\A i \in 1..n : c[i] \in S)
  BY LenProperties, ElementOfSeq
<1>2. /\ a \o c \in Seq(S) /\ Len(a \o c) = m + n
      /\ \A i \in 1..(m + n) : (a \o c)[i] = IF i <= m THEN a[i] ELSE c[i - m]
  BY ConcatProperties
<1> DEFINE ra == Feed!Reverse(a)
           rc == Feed!Reverse(c)
           r == Feed!Reverse(a \o c)
<1> HIDE DEF m, n
<1>3. ra = [i \in 1..m |-> a[(m - i) + 1]] /\ rc = [i \in 1..n |-> c[(n - i) + 1]]
  BY DEF Feed!Reverse, m, n
<1>4. r = [i \in 1..(m + n) |-> (a \o c)[((m + n) - i) + 1]]
  BY <1>2 DEF Feed!Reverse
<1> HIDE DEF ra, rc, r
<1>5. ra \in Seq(S) /\ Len(ra) = m /\ rc \in Seq(S) /\ Len(rc) = n
  <2>1. \A i \in 1..m : (m - i) + 1 \in 1..m
    BY <1>1
  <2>2. ra \in [1..m -> S]
    BY <1>1, <1>3, <2>1
  <2>3. \A i \in 1..n : (n - i) + 1 \in 1..n
    BY <1>1
  <2>4. rc \in [1..n -> S]
    BY <1>1, <1>3, <2>3
  <2>5. ra \in Seq(S) /\ Len(ra) = m
    BY <1>1, <2>2
  <2>6. rc \in Seq(S) /\ Len(rc) = n
    BY <1>1, <2>4
  <2>7. QED
    BY <2>5, <2>6
<1>6. r \in Seq(S) /\ Len(r) = m + n
  <2>1. \A i \in 1..(m + n) : (a \o c)[i] \in S
    BY <1>1, <1>2, ElementOfSeq
  <2>2. \A i \in 1..(m + n) : ((m + n) - i) + 1 \in 1..(m + n)
    BY <1>1
  <2>3. r \in [1..(m + n) -> S]
    BY <1>4, <2>1, <2>2
  <2>4. m + n \in Nat
    BY <1>1
  <2>5. QED
    BY <2>3, <2>4
<1>7. /\ rc \o ra \in Seq(S) /\ Len(rc \o ra) = n + m
      /\ \A i \in 1..(n + m) : (rc \o ra)[i] = IF i <= n THEN rc[i] ELSE ra[i - n]
  BY <1>5, ConcatProperties
<1>8. ASSUME NEW i \in 1..(m + n) PROVE r[i] = (rc \o ra)[i]
  <2> DEFINE j == ((m + n) - i) + 1
  <2>1. j \in 1..(m + n) /\ r[i] = (a \o c)[j]
    <3>1. j \in 1..(m + n)
      BY <1>1
    <3>2. r[i] = (a \o c)[j]
      BY <1>4, <1>8
    <3>3. QED
      BY <3>1, <3>2
  <2>2. CASE i <= n
    <3>1. ~(j <= m) /\ j - m = (n - i) + 1 /\ i \in 1..n
      BY <1>1, <2>2
    <3>2. r[i] = c[(n - i) + 1]
      BY <1>2, <2>1, <3>1
    <3>3. QED
      BY <1>1, <1>3, <1>7, <2>2, <3>1, <3>2
  <2>3. CASE ~(i <= n)
    <3>1. j <= m /\ j = (m - (i - n)) + 1 /\ i - n \in 1..m
      BY <1>1, <2>3
    <3>2. r[i] = a[j]
      BY <1>2, <2>1, <3>1
    <3>3. QED
      BY <1>1, <1>3, <1>7, <2>3, <3>1, <3>2
  <2>4. QED
    BY <2>2, <2>3
<1>9. r = rc \o ra
  BY <1>1, <1>6, <1>7, <1>8, SeqEqual
<1>10. QED
  BY <1>5, <1>9 DEF ra, rc, r

LEMMA SuffixOf ==
  ASSUME NEW S, NEW a \in Seq(S), NEW c \in Seq(S)
  PROVE  Feed!IsSuffix(c, a \o c)
<1> DEFINE ra == Feed!Reverse(a)
           rc == Feed!Reverse(c)
<1>1. ra \in Seq(S) /\ rc \in Seq(S) /\ Feed!Reverse(a \o c) = rc \o ra
  BY ReverseOf
<1> HIDE DEF ra, rc
<1>2. Feed!IsPrefix(rc, rc \o ra)
  BY <1>1, PrefixOf
<1>3. QED
  BY <1>1, <1>2 DEF Feed!IsSuffix, ra, rc

\* Where poll() is in the buffer of d, and what is left of it.
From(d) == IF current # d THEN 1 ELSE IF pc = "callback" THEN at + 1 ELSE at
Left(d) == IF reading[d] = "done" THEN SubSeq(buffer[d], From(d), Len(buffer[d])) ELSE <<>>

LEMMA FeedFacts ==
  ASSUME IInv, Buffers, NEW d \in Parents
  PROVE  /\ Ahead(d) = Left(d) \o kernel[d]
         /\ kernel[d] \in Seq(Records) /\ buffer[d] \in Seq(Records) /\ Left(d) \in Seq(Records)
         /\ Ahead(d) \in Seq(Records)
         /\ FeedNow[d] = IF d \in Watched THEN Ahead(d) ELSE <<>>
<1>1. kernel[d] \in Seq(Records) /\ buffer[d] \in Seq(Records)
  BY Typed DEF IInv
<1>2. From(d) \in Int /\ From(d) >= 1
  BY DEF From, IInv, TypeOK, Buffers
<1>3. Left(d) \in Seq(Records)
  <2>1. Len(buffer[d]) \in Int /\ \A i \in From(d)..Len(buffer[d]) : buffer[d][i] \in Records
    <3>1. Len(buffer[d]) \in Nat
      BY <1>1, LenProperties
    <3>2. \A i \in From(d)..Len(buffer[d]) : i \in 1..Len(buffer[d])
      BY <1>2, <3>1
    <3>3. QED
      BY <1>1, <3>1, <3>2, ElementOfSeq
  <2>2. SubSeq(buffer[d], From(d), Len(buffer[d])) \in Seq(Records)
    BY <1>2, <2>1, SubSeqProperties
  <2>3. QED
    BY <2>2 DEF Left
<1>4. Ahead(d) = Left(d) \o kernel[d]
  BY DEF Ahead, Left, From
<1>5. Ahead(d) \in Seq(Records)
  BY <1>1, <1>3, <1>4, ConcatProperties
<1>6. QED
  BY <1>1, <1>3, <1>4, <1>5 DEF FeedNow

\* A step that leaves all of this alone for the directories but one.
LEMMA OneFeed ==
  ASSUME Watched' = Watched, NEW d \in Parents,
         \A c \in Parents \ {d} : c \in Watched => Ahead(c)' = Ahead(c)
  PROVE  FeedNow' = [FeedNow EXCEPT ![d] = FeedNow'[d]]
BY DEF FeedNow

LEMMA NoFeed ==
  ASSUME Watched' = Watched, \A c \in Parents : c \in Watched => Ahead(c)' = Ahead(c)
  PROVE  FeedNow' = FeedNow
BY DEF FeedNow

LEMMA ChangeFeeds == ASSUME IInv, Paths, Buffers, Change PROVE Feed!Next
<1>1. PICK p \in Path \ Dir, a \in Action :
        /\ exists' = IF a \in {"removed", "renamed_old"} THEN exists \ {p} ELSE exists \cup {p}
        /\ IF Parent[p] \in Watched
           THEN Record(Parent[p], [name |-> p, action |-> a])
           ELSE UNCHANGED <<readVars, kernel, lost, excused>>
  BY DEF Change
<1> DEFINE d == Parent[p]
           r == [name |-> p, action |-> a]
<1>2. UNCHANGED <<pc, current, at>> /\ Watched' = Watched
  BY DEF Change, entryVars, Watched
<1>3. d \in Parents /\ r \in Records
  BY DEF Parents, Records
<1>4. CASE d \notin Watched
  <2>1. UNCHANGED <<reading, buffer, kernel, excused>>
    BY <1>1, <1>4 DEF readVars
  <2>2. FeedNow' = FeedNow
    BY <1>2, <2>1, NoFeed DEF Ahead
  <2>3. QED
    BY <1>1, <1>2, <1>4, <2>1, <2>2, IsFeedChange
<1>5. CASE d \in Watched
  <2>1. Record(d, r)
    BY <1>1, <1>5
  <2>2. \A c \in Parents \ {d} : reading'[c] = reading[c] /\ buffer'[c] = buffer[c]
                                  /\ kernel'[c] = kernel[c]
    BY <2>1 DEF Record, IInv, TypeOK
  <2>3. FeedNow' = [FeedNow EXCEPT ![d] = FeedNow'[d]]
    BY <1>2, <1>3, <2>2, OneFeed DEF Ahead
  <2>4. FeedNow[d] = Left(d) \o kernel[d] /\ FeedNow'[d] = Left(d)' \o kernel'[d]
    <3>1. FeedNow'[d] = Ahead(d)'
      BY <1>2, <1>3, <1>5 DEF FeedNow
    <3>2. Ahead(d)' = Left(d)' \o kernel'[d]
      BY DEF Ahead, Left, From
    <3>3. QED
      BY <1>3, <1>5, <3>1, <3>2, FeedFacts
  <2>5. kernel[d] \in Seq(Records) /\ Left(d) \in Seq(Records)
    BY <1>3, FeedFacts
  <2>6. CASE reading[d] = "pending"
    <3>1. /\ reading' = [reading EXCEPT ![d] = "done"]
          /\ buffer' = [buffer EXCEPT ![d] = <<r>>]
          /\ kernel' = kernel /\ excused' = excused
      BY <2>1, <2>6 DEF Record
    <3>2. kernel[d] = <<>> /\ Left(d) = <<>> /\ From(d)' = 1
      BY <1>2, <1>3, <2>6 DEF Buffers, Left, From, Paths
    <3>3. Left(d)' = <<r>>
      <4>1. reading'[d] = "done" /\ buffer'[d] = <<r>> /\ <<r>> \in Seq(Records)
        BY <1>3, <3>1 DEF IInv, TypeOK
      <4>2. SubSeq(<<r>>, 1, Len(<<r>>)) = <<r>>
        BY <4>1, SubSeqFull
      <4>3. QED
        BY <3>2, <4>1, <4>2 DEF Left
    <3>4. FeedNow'[d] = Append(FeedNow[d], r)
      BY <1>3, <2>4, <3>1, <3>2, <3>3
    <3>5. QED
      BY <1>1, <1>2, <1>5, <2>3, <3>1, <3>4, IsFeedChange
  <2>7. CASE reading[d] # "pending" /\ ~lost[d] /\ Len(kernel[d]) < MaxRecords
    <3>1. /\ kernel' = [kernel EXCEPT ![d] = Append(kernel[d], r)]
          /\ UNCHANGED <<reading, buffer, excused>>
      BY <2>1, <2>7 DEF Record
    <3>2. kernel'[d] = Append(kernel[d], r) /\ Left(d)' = Left(d)
      BY <1>2, <1>3, <3>1 DEF IInv, TypeOK, Left, From
    <3>3. FeedNow'[d] = Append(FeedNow[d], r)
      <4> DEFINE l == Left(d)
                 k == kernel[d]
      <4>1. l \in Seq(Records) /\ k \in Seq(Records) /\ <<r>> \in Seq(Records)
        BY <1>3, <2>5
      <4>2. FeedNow[d] = l \o k /\ FeedNow'[d] = l \o Append(k, r)
        BY <2>4, <3>2
      <4> HIDE DEF l, k, r
      <4>3. Append(k, r) = k \o <<r>> /\ l \o k \in Seq(Records)
        BY <1>3, <4>1, AppendIsConcat, ConcatProperties
      <4>4. l \o (k \o <<r>>) = (l \o k) \o <<r>>
        BY <4>1, ConcatAssociative
      <4>5. Append(l \o k, r) = (l \o k) \o <<r>>
        BY <1>3, <4>3, AppendIsConcat
      <4>6. QED
        BY <4>2, <4>3, <4>4, <4>5
    <3>4. QED
      BY <1>1, <1>2, <1>5, <2>3, <3>1, <3>3, IsFeedChange
  <2>8. CASE reading[d] # "pending" /\ ~(~lost[d] /\ Len(kernel[d]) < MaxRecords)
    <3>1. /\ kernel' = [kernel EXCEPT ![d] = <<>>]
          /\ excused' = excused \cup {d}
          /\ UNCHANGED <<reading, buffer>>
      BY <2>1, <2>8 DEF Record
    <3>2. kernel'[d] = <<>> /\ Left(d)' = Left(d)
      BY <1>2, <1>3, <3>1 DEF IInv, TypeOK, Left, From
    <3>3. FeedNow'[d] = Left(d)
      BY <2>4, <2>5, <3>2, ConcatEmptySeq
    <3>4. Feed!IsPrefix(FeedNow'[d], FeedNow[d])
      BY <2>4, <2>5, <3>3, PrefixOf
    <3>5. QED
      BY <1>1, <1>2, <1>5, <2>3, <3>1, <3>4, IsFeedChange
  <2>9. QED
    BY <2>6, <2>7, <2>8
<1>6. QED
  BY <1>4, <1>5

LEMMA AddFeeds ==
  ASSUME IInv, Paths, Buffers, NEW p \in Path, Add(p) \/ AddFails(p)
  PROVE  Feed!Next
<1>1. \A d \in Watched : Ahead(d)' = Ahead(d)
  BY Added DEF Ahead
<1>2. \A d \in Watched' \ Watched : Ahead(d)' = <<>>
  <2> TAKE d \in Watched' \ Watched
  <2>1. reading'[d] = "pending" /\ kernel'[d] = <<>>
    BY Added DEF Buffers
  <2>2. Ahead(d)' = <<>> \o <<>>
    BY <2>1 DEF Ahead
  <2>3. QED
    BY <2>2
<1>3. FeedNow' = FeedNow
  BY <1>1, <1>2, Added DEF FeedNow
<1>4. QED
  BY <1>3, Added, IsFeedWatch

LEMMA PollFeeds ==
  ASSUME IInv, Paths, Buffers, Wait \/ Skip \/ Dispatch \/ CallbackReturns \/ CallbackThrows
  PROVE  Feed!Next \/ UNCHANGED Feed!vars
<1>1. UNCHANGED <<exists, kernel, handles, reading, buffer>> /\ Watched' = Watched
  BY DEF Wait, Skip, Dispatch, CallbackReturns, CallbackThrows, systemVars, entryVars, readVars,
         Watched
<1>2. \A d \in Parents : From(d)' = From(d) => Ahead(d)' = Ahead(d)
  BY <1>1 DEF Ahead, From
<1>3. CASE Wait \/ CallbackReturns
  <2>1. \A d \in Parents : From(d)' = From(d)
    BY <1>3 DEF Wait, CallbackReturns, From, IInv, TypeOK, Paths
  <2>2. excused' = excused
    BY <1>3 DEF Wait, CallbackReturns, history
  <2>3. QED
    BY <1>1, <1>2, <2>1, <2>2, NoFeed, IsFeedStutter
<1>4. ASSUME pc \in {"dispatch", "callback"}
      PROVE  \E d \in Watched : d = current /\ d \in Parents
  BY <1>4 DEF IInv, TypeOK, ReadsAndEvents
<1>5. CASE Skip \/ Dispatch
  <2>1. PICK d \in Watched : d = current /\ d \in Parents
    BY <1>4, <1>5 DEF Skip, Dispatch
  <2>2. /\ pc = "dispatch" /\ at <= Len(buffer[d]) /\ excused' = excused /\ current' = d
        /\ \/ pc' = "dispatch" /\ at' = at + 1
           \/ pc' = "callback" /\ at' = at
    BY <1>5, <2>1 DEF Skip, Dispatch, history
  <2>3. From(d) = at /\ From(d)' = at + 1 /\ \A c \in Parents \ {d} : From(c)' = From(c)
    BY <2>2, <2>1 DEF From, IInv, TypeOK
  <2>4. FeedNow' = [FeedNow EXCEPT ![d] = FeedNow'[d]]
    BY <1>1, <1>2, <2>1, <2>3, OneFeed
  <2>5. CASE reading[d] = "done"
    <3> DEFINE b == buffer[d]
               k == kernel[d]
               r == SubSeq(b, at, Len(b)) \o k
    <3>1. b \in Seq(Records) /\ k \in Seq(Records) /\ at \in 1..Len(b)
      <4>1. b \in Seq(Records) /\ k \in Seq(Records)
        BY <2>1, FeedFacts
      <4>2. Len(b) \in Nat /\ at \in Nat /\ at >= 1
        BY <4>1, LenProperties DEF IInv, TypeOK, Buffers
      <4>3. QED
        BY <2>2, <4>1, <4>2
    <3>2. FeedNow[d] = r
      BY <2>1, <2>3, <2>5, FeedFacts DEF Left
    <3>3. FeedNow'[d] = SubSeq(b, at + 1, Len(b)) \o k
      <4>1. FeedNow'[d] = Ahead(d)'
        BY <1>1, <2>1 DEF FeedNow
      <4>2. Ahead(d)' = SubSeq(b, From(d)', Len(b)) \o k
        BY <1>1, <2>5 DEF Ahead, From
      <4>3. QED
        BY <2>3, <4>1, <4>2
    <3>4. r # <<>> /\ Tail(r) = SubSeq(b, at + 1, Len(b)) \o k
      BY <3>1, TailOfRest
    <3>5. QED
      BY <1>1, <2>2, <2>1, <2>4, <3>2, <3>3, <3>4, IsFeedStep
  <2>6. CASE reading[d] # "done"
    <3>1. Ahead(d)' = Ahead(d)
      BY <1>1, <2>6 DEF Ahead
    <3>2. FeedNow' = FeedNow
      BY <1>1, <1>2, <2>3, <3>1, NoFeed
    <3>3. QED
      BY <1>1, <2>2, <3>2, IsFeedStutter
  <2>7. QED
    BY <2>5, <2>6
<1>6. CASE CallbackThrows
  <2>1. PICK d \in Watched : d = current /\ d \in Parents
    BY <1>4, <1>6 DEF CallbackThrows
  <2> DEFINE b == buffer[d]
             k == kernel[d]
  <2>2. pc = "callback" /\ excused' = excused \cup {d} /\ current' = "none" /\ pc' = "idle"
    BY <1>6, <2>1 DEF CallbackThrows
  <2>3. From(d) = at + 1 /\ From(d)' = 1 /\ \A c \in Parents \ {d} : From(c)' = From(c)
    BY <2>2, <2>1 DEF From, IInv, TypeOK, Paths
  <2>4. FeedNow' = [FeedNow EXCEPT ![d] = FeedNow'[d]]
    BY <1>1, <1>2, <2>1, <2>3, OneFeed
  <2>5. FeedNow[d] = Left(d) \o k /\ FeedNow'[d] = Left(d)' \o k
    <3>1. FeedNow'[d] = Ahead(d)'
      BY <1>1, <2>1 DEF FeedNow
    <3>2. Ahead(d)' = Left(d)' \o k
      BY <1>1 DEF Ahead, Left, From
    <3>3. QED
      BY <2>1, <3>1, <3>2, FeedFacts
  <2>6. b \in Seq(Records) /\ k \in Seq(Records) /\ at + 1 \in 2..(Len(b) + 1)
    <3>1. b \in Seq(Records) /\ k \in Seq(Records)
      BY <2>1, FeedFacts
    <3>2. Len(b) \in Nat /\ at \in Nat /\ at >= 1
      BY <3>1, LenProperties DEF IInv, TypeOK, Buffers
    <3>3. QED
      BY <2>2, <2>1, <3>1, <3>2 DEF Buffers
  <2> DEFINE n == Len(b)
             done == SubSeq(b, 1, at)
             left == SubSeq(b, at + 1, n)
  <2>7. PICK x \in Seq(Records) : FeedNow'[d] = x \o FeedNow[d] /\ FeedNow[d] \in Seq(Records)
    <3>1. CASE reading[d] = "done"
      <4>1. Left(d) = left /\ Left(d)' = SubSeq(b, 1, n)
        BY <1>1, <2>3, <3>1 DEF Left
      <4>2. n \in Nat /\ at \in Nat /\ at \in 0..n /\ n \in at..n /\ 1 \in 1..(n + 1)
        BY <2>6, LenProperties DEF IInv, TypeOK
      <4>3. done \o left = SubSeq(b, 1, n)
        BY <2>6, <4>2, SplitAt
      <4>4. done \in Seq(Records) /\ left \in Seq(Records)
        <5>1. \A i \in 1..at : b[i] \in Records
          BY <2>6, <4>2, ElementOfSeq
        <5>2. \A i \in (at + 1)..n : b[i] \in Records
          BY <2>6, <4>2, ElementOfSeq
        <5>3. QED
          BY <4>2, <5>1, <5>2, SubSeqProperties
      <4> HIDE DEF done, left, k
      <4>5. (done \o left) \o k = done \o (left \o k)
        BY <2>6, <4>4, ConcatAssociative
      <4>6. left \o k \in Seq(Records)
        BY <2>6, <4>4, ConcatProperties
      <4>7. FeedNow[d] = left \o k /\ FeedNow'[d] = (done \o left) \o k
        BY <2>5, <4>1, <4>3
      <4>8. QED
        BY <4>4, <4>5, <4>6, <4>7
    <3>2. CASE reading[d] # "done"
      <4>1. Left(d) = <<>> /\ Left(d)' = <<>>
        BY <1>1, <3>2 DEF Left
      <4>2. FeedNow[d] = k /\ FeedNow'[d] = <<>> \o k
        BY <2>5, <2>6, <4>1, ConcatEmptySeq
      <4>3. <<>> \in Seq(Records)
        OBVIOUS
      <4>4. QED
        BY <2>6, <4>2, <4>3
    <3>3. QED
      BY <3>1, <3>2
  <2>8. Feed!IsSuffix(FeedNow[d], FeedNow'[d])
    BY <2>7, SuffixOf
  <2>9. QED
    BY <1>1, <2>2, <2>1, <2>4, <2>8, IsFeedStep
<1>7. QED
  BY <1>3, <1>5, <1>6

LEMMA RereadFeeds ==
  ASSUME IInv, Paths, Buffers, Reread \/ RereadFails
  PROVE  UNCHANGED Feed!vars
<1>0. PICK d \in Watched : d = current /\ d \in Parents
  BY DEF Reread, RereadFails, IInv, TypeOK, ReadsAndEvents
<1> DEFINE k == kernel[d]
<1>1. /\ pc = "dispatch" /\ pc' = "idle" /\ current' = "none" /\ at' = 1 /\ d \in Parents
      /\ Watched' = Watched /\ d \in Watched /\ d = current /\ at > Len(buffer[d])
      /\ exists' = exists /\ excused' = excused
  BY <1>0 DEF Reread, RereadFails, entryVars, systemVars, history, Watched
<1>2. \A c \in Parents \ {d} : Ahead(c)' = Ahead(c)
  <2>1. \A c \in Parents \ {d} : /\ reading'[c] = reading[c] /\ buffer'[c] = buffer[c]
                                 /\ kernel'[c] = kernel[c]
    BY <1>1 DEF Reread, RereadFails, ReadDirChanges, systemVars, IInv, TypeOK
  <2>2. QED
    BY <1>1, <2>1, Paths DEF Ahead, Paths
<1>3. k \in Seq(Records) /\ Ahead(d) = k
  <2>1. k \in Seq(Records) /\ buffer[d] \in Seq(Records)
    BY <1>1, FeedFacts
  <2>2. Left(d) = <<>>
    <3>1. Len(buffer[d]) \in Int /\ at \in Int
      BY <2>1, LenProperties DEF IInv, TypeOK
    <3>2. SubSeq(buffer[d], at, Len(buffer[d])) = <<>>
      BY <1>1, <3>1, SubSeqEmpty
    <3>3. QED
      BY <1>1, <3>2 DEF Left, From
  <2>3. QED
    BY <1>1, <2>1, <2>2, FeedFacts, ConcatEmptySeq
<1>4. Ahead(d)' = k
  <2>1. Ahead(d)' = (IF reading'[d] = "done" THEN SubSeq(buffer'[d], 1, Len(buffer'[d])) ELSE <<>>)
                      \o kernel'[d]
    BY <1>1, Paths DEF Ahead, Paths
  <2>2. CASE Reread
    <3>1. /\ kernel'[d] = <<>>
          /\ reading'[d] = IF lost[d] THEN "overflowed" ELSE IF k = <<>> THEN "pending" ELSE "done"
          /\ ~lost[d] => buffer'[d] = k
      BY <1>1, <2>2 DEF Reread, ReadDirChanges, IInv, TypeOK
    <3>2. CASE reading'[d] = "done"
      <4>1. buffer'[d] = k /\ SubSeq(k, 1, Len(k)) = k
        BY <1>3, <3>1, <3>2, SubSeqFull
      <4>2. QED
        BY <1>3, <2>1, <3>1, <3>2, <4>1, ConcatEmptySeq
    <3>3. CASE reading'[d] # "done"
      <4>1. k = <<>>
        BY <1>1, <3>1, <3>3 DEF Buffers
      <4>2. QED
        BY <1>3, <2>1, <3>1, <3>3, <4>1, ConcatEmptySeq
    <3>4. QED
      BY <3>2, <3>3
  <2>3. CASE RereadFails
    <3>1. reading'[d] = "none" /\ kernel'[d] = k
      BY <1>1, <2>3 DEF RereadFails, systemVars, IInv, TypeOK
    <3>2. QED
      BY <1>3, <2>1, <3>1, ConcatEmptySeq
  <2>4. QED
    BY <2>2, <2>3
<1>5. FeedNow' = FeedNow
  BY <1>1, <1>2, <1>3, <1>4, NoFeed
<1>6. QED
  BY <1>1, <1>5, IsFeedStutter

LEMMA NextFeeds ==
  ASSUME IInv, Paths, Buffers, [Next]_vars
  PROVE  [Feed!Next]_(Feed!vars)
<1>1. CASE UNCHANGED vars
  <2>1. UNCHANGED <<exists, handles, excused>> /\ Watched' = Watched
    BY <1>1 DEF vars, systemVars, entryVars, history, Watched
  <2>2. FeedNow' = FeedNow
    BY <1>1, <2>1 DEF FeedNow, Ahead, vars, systemVars, entryVars, readVars
  <2>3. QED
    BY <2>1, <2>2, IsFeedStutter
<1>2. CASE Destroy
  <2>1. exists' = exists /\ excused' = excused /\ Watched' = {}
    BY <1>2 DEF Destroy, systemVars, history, Watched, Range
  <2>2. FeedNow' = [d \in Parents |-> <<>>]
    BY <2>1 DEF FeedNow
  <2>3. QED
    BY <2>1, <2>2, IsFeedWatch
<1>3. QED
  BY <1>1, <1>2, ChangeFeeds, AddFeeds, PollFeeds, RereadFeeds DEF Next, Poll

LEMMA InitFeeds == ASSUME Init PROVE Feed!Init
<1>1. Watched = {} /\ excused = {} /\ Dir \subseteq exists /\ exists \subseteq Path
  BY DEF Init, Watched, Range
<1>2. QED
  BY <1>1 DEF Feed!Init, Feed!Directory, Parents

\* No change of a watched directory is lost from the middle, told twice or out of
\* order: every step of the monitor, of the system and of the callbacks grows a
\* feed at its end, takes its head, or breaks it by an overflow or an exception.
THEOREM FeedImplemented == ASSUME Paths PROVE Spec => ImplementsChangeFeed
<1>1. Init => Feed!Init
  BY InitFeeds
<1>2. Init => Buffers
  BY InitBuffers
<1>3. IInv /\ Buffers /\ [Next]_vars => Buffers'
  BY NextBuffers
<1>4. IInv /\ Buffers /\ [Next]_vars => [Feed!Next]_(Feed!vars)
  BY NextFeeds
<1>5. QED
  BY <1>1, <1>2, <1>3, <1>4, Invariant, PTL DEF Spec, ImplementsChangeFeed, Feed!Spec
-----------------------------------------------------------------------------
(* Whose turn it is.                                                       *)

\* An event that is set stays set until poll() is at its directory; the directories
\* before that one are always the same, and poll() serves none but them before it.
TurnIsKept ==
  \A d \in Parents : signalled[d] /\ pc' # "gone" =>
    /\ current # d => signalled'[d]
    /\ Before(d)' = Before(d)
    /\ pc = "idle" /\ pc' = "dispatch" => current' \in Before(d) \cup {d}

\* What is before the first handle of d.
LEMMA BeforeIsUpTo ==
  ASSUME NEW d, NEW h, NEW n \in Nat, NEW i \in 1..n, h[i] = d,
         \A j \in 1..(i - 1) : h[j] # d
  PROVE  {h[m] : m \in {j \in 1..n : \A k \in 1..j : h[k] # d}} = {h[m] : m \in 1..(i - 1)}
<1>1. ASSUME NEW j \in 1..n PROVE (\A k \in 1..j : h[k] # d) <=> j \in 1..(i - 1)
  <2>1. CASE j < i
    <3>1. j \in 1..(i - 1) /\ \A k \in 1..j : k \in 1..(i - 1)
      BY <2>1
    <3>2. QED
      BY <3>1
  <2>2. CASE i <= j
    <3>1. i \in 1..j /\ j \notin 1..(i - 1)
      BY <2>2
    <3>2. QED
      BY <3>1
  <2>3. QED
    BY <2>1, <2>2
<1>2. 1..(i - 1) \subseteq 1..n
  OBVIOUS
<1>3. {j \in 1..n : \A k \in 1..j : h[k] # d} = 1..(i - 1)
  <2>1. \A j : j \in {m \in 1..n : \A k \in 1..m : h[k] # d} <=> j \in 1..(i - 1)
    BY <1>1, <1>2
  <2>2. QED
    BY <2>1
<1>4. QED
  BY <1>3

LEMMA HandleOf ==
  ASSUME IInv, NEW d \in Watched
  PROVE  \E i \in 1..Len(handles) :
           /\ handles[i] = d /\ \A j \in 1..(i - 1) : handles[j] # d
           /\ Before(d) = {handles[m] : m \in 1..(i - 1)}
<1>1. PICK i \in 1..Len(handles) : handles[i] = d
  BY Typed DEF IInv
<1>2. Len(handles) \in Nat
  BY Typed DEF IInv
<1>3. \A j \in 1..(i - 1) : handles[j] # d
  <2>1. \A j \in 1..(i - 1) : j \in 1..Len(handles) /\ j # i
    BY <1>2
  <2>2. DOMAIN handles = 1..Len(handles)
    BY Typed DEF IInv
  <2>3. QED
    BY <1>1, <2>1, <2>2 DEF IInv, TypeOK, IsInjective
<1>4. QED
  BY <1>1, <1>2, <1>3, BeforeIsUpTo DEF Before

\* More entries come behind those there are.
LEMMA BeforeStays ==
  ASSUME IInv, NEW d \in Watched, NEW new \in Seq(Parents), handles' = handles \o new
  PROVE  Before(d)' = Before(d)
<1>1. PICK i \in 1..Len(handles) :
        /\ handles[i] = d /\ \A j \in 1..(i - 1) : handles[j] # d
        /\ Before(d) = {handles[m] : m \in 1..(i - 1)}
  BY HandleOf
<1>2. /\ Len(handles) \in Nat /\ Len(new) \in Nat /\ Len(handles') = Len(handles) + Len(new)
      /\ \A j \in 1..Len(handles) : handles'[j] = handles[j]
  <2>1. handles \in Seq(Parents)
    BY DEF IInv, TypeOK
  <2>2. QED
    BY <2>1, ConcatProperties, LenProperties
<1>3. i \in 1..Len(handles') /\ Len(handles') \in Nat /\ \A j \in 1..(i - 1) : j \in 1..Len(handles)
  BY <1>2
<1>4. handles'[i] = d /\ \A j \in 1..(i - 1) : handles'[j] # d /\ handles'[j] = handles[j]
  BY <1>1, <1>2, <1>3
<1>5. Before(d)' = {handles'[m] : m \in 1..(i - 1)}
  BY <1>3, <1>4, BeforeIsUpTo DEF Before
<1>6. QED
  BY <1>1, <1>4, <1>5

LEMMA EntriesBehind ==
  ASSUME IInv, Paths, NEW p \in Path, Add(p) \/ AddFails(p)
  PROVE  \E new \in Seq(Parents) : handles' = handles \o new
<1>1. Parent[p] \in Parents /\ (p \in Dir => p \in Parents)
  BY DEF Parents
<1>2. /\ (IF p \in Dir \ Watched THEN <<p>> ELSE <<>>) \in Seq(Parents)
      /\ (IF Parent[p] \in Watched \cup {p} THEN <<>> ELSE <<Parent[p]>>) \in Seq(Parents)
  BY <1>1
<1>3. Missing(p) \in Seq(Parents)
  BY <1>2, ConcatProperties DEF Missing
<1>4. Len(Missing(p)) \in Nat
  BY <1>3
<1>5. PICK n \in 0..Len(Missing(p)) : MakeEntries(p, n)
  BY <1>4 DEF Add, AddFails
<1>6. SubSeq(Missing(p), 1, n) \in Seq(Parents)
  BY <1>3, <1>4, <1>5, SubSeqProperties
<1>7. QED
  BY <1>5, <1>6 DEF MakeEntries

LEMMA KeepsTurn == ASSUME IInv, Paths, Next PROVE TurnIsKept
<1> SUFFICES ASSUME NEW d \in Parents, signalled[d], pc' # "gone"
             PROVE  /\ current # d => signalled'[d]
                    /\ Before(d)' = Before(d)
                    /\ pc = "idle" /\ pc' = "dispatch" => current' \in Before(d) \cup {d}
  BY DEF TurnIsKept
<1>1. d \in Watched
  BY DEF IInv, ReadsAndEvents
<1>2. signalled \in [Parents -> BOOLEAN] /\ reading \in [Parents -> {"none", "pending", "done", "overflowed"}]
  BY DEF IInv, TypeOK
<1>3. handles' = handles => Before(d)' = Before(d)
  BY DEF Before
<1>4. CASE Change
  BY <1>2, <1>3, <1>4 DEF Change, Record, entryVars, readVars
<1>5. ASSUME NEW p \in Path, Add(p) \/ AddFails(p)
      PROVE  Before(d)' = Before(d) /\ signalled' = signalled /\ pc' = pc
  BY <1>1, <1>5, EntriesBehind, BeforeStays DEF Add, AddFails
<1>6. CASE Wait
  <2>1. PICK i \in 1..Len(handles) : /\ signalled[handles[i]] /\ current' = handles[i]
                                     /\ \A j \in 1..(i - 1) : ~signalled[handles[j]]
    BY <1>6 DEF Wait
  <2>2. PICK k \in 1..Len(handles) : handles[k] = d /\ Before(d) = {handles[m] : m \in 1..(k - 1)}
    BY <1>1, HandleOf
  <2>3. i = k \/ i \in 1..(k - 1)
    <3>1. ~(k \in 1..(i - 1))
      BY <2>1, <2>2
    <3>2. QED
      BY <3>1
  <2>4. QED
    BY <1>3, <1>6, <2>1, <2>2, <2>3 DEF Wait, entryVars, readVars
<1>7. CASE Skip \/ Dispatch \/ CallbackReturns \/ CallbackThrows
  BY <1>3, <1>7 DEF Skip, Dispatch, CallbackReturns, CallbackThrows, entryVars, readVars
<1>8. CASE Reread \/ RereadFails
  <2>1. handles' = handles /\ pc' = "idle"
    BY <1>8 DEF Reread, RereadFails, entryVars
  <2>2. current # d => signalled'[d]
    BY <1>2, <1>8 DEF Reread, RereadFails, ReadDirChanges
  <2>3. QED
    BY <1>3, <2>1, <2>2
<1>9. CASE Destroy
  BY <1>9 DEF Destroy
<1>10. QED
  BY <1>4, <1>5, <1>6, <1>7, <1>8, <1>9 DEF Next, Poll

\* A directory with an event waits for those before it only: no later one is served
\* first, none gets before it, and its event is not reset meanwhile, however changes,
\* calls of add(), exceptions and failed reads interleave. It is what ServedInTurn
\* says, but for the fairness and for too many handles to wait for.
THEOREM NobodyOvertakes == ASSUME Paths PROVE Spec => [][TurnIsKept]_vars
<1>1. IInv /\ [Next]_vars => [TurnIsKept]_vars
  BY KeepsTurn
<1>2. QED
  BY <1>1, Invariant, PTL DEF Spec
=============================================================================
