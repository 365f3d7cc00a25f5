--------------------------- MODULE LocalFile_proofs ---------------------------
(***************************************************************************)
(* What LocalFile.tla claims of descriptors and of rewrite() and           *)
(* read_all(), for any threads and objects, any data, chunk and initial    *)
(* sizes, and any number of removals and short writes.                     *)
(*                                                                         *)
(* HandlesAreOwned counts owners; what is inductive is that an owner has a *)
(* descriptor that is open, that no two share one, and that none is open   *)
(* without an owner.  ContentIsWhole needs to know what the file has while *)
(* the call is still at work, and that a thread that does not write never  *)
(* gets a descriptor for writing.                                          *)
(***************************************************************************)
EXTENDS LocalFile, SequenceTheorems, FiniteSetTheorems, TLAPS

InCall == {"open", "truncate", "exists", "file_size", "assign"}
AtWork == {"rewrite", "rewritten", "read_all", "all_read"}

\* A descriptor is closed in all it has, or open in all it has.
OpenOrClosed ==
  \A d \in Handle : file[d] = Closed \/ (file[d].inode \in Inode /\ file[d].access # "none")

\* Who has a descriptor has an open one, for himself.
HoldersHaveOpen ==
  /\ \A o \in Object : h[o] # Invalid => file[h[o]] # Closed /\ h[o] \notin leaked
  /\ \A t \in Thread : tmp[t] # Invalid =>
       file[tmp[t]] # Closed /\ tmp[t] \notin leaked /\ file[tmp[t]].pos = 0
  /\ \A d \in leaked : file[d] # Closed

HoldersAreAlone ==
  /\ \A o, p \in Object : h[o] # Invalid /\ h[o] = h[p] => o = p
  /\ \A s, t \in Thread : tmp[s] # Invalid /\ tmp[s] = tmp[t] => s = t
  /\ \A o \in Object, t \in Thread : h[o] # Invalid => h[o] # tmp[t]

\* What is open is held, or lost.
OpenIsHeld ==
  \A d \in Handle : file[d] # Closed =>
    \/ d \in leaked
    \/ \E o \in Object : h[o] = d
    \/ \E t \in Thread : tmp[t] = d

\* What a thread is doing says what it has in hand.
CallFits(t) ==
  /\ Owner[call[t].obj] = t
  /\ call[t].mode # "read" => t \in Writer
  /\ call[t].what # "open" => call[t].obj = Temp[t]
  /\ call[t].what = "rewrite" => call[t].mode = "trunc"
  /\ pc[t] \in {"exists", "file_size"} => call[t].mode \in {"read", "write"}
  /\ pc[t] = "truncate" => call[t].mode = "resize"
  /\ pc[t] \notin InCall \ {"open"} => tmp[t] = Invalid
  /\ pc[t] \in {"rewrite", "rewritten"} => t \in Writer
  /\ pc[t] \in AtWork => h[Temp[t]] # Invalid

CallsFit == \A t \in Thread : CallFits(t)

\* Only a writer has a descriptor to write to.
ReadersRead ==
  /\ \A o \in Object : h[o] # Invalid /\ Owner[o] \notin Writer => file[h[o]].access = "read"
  /\ \A t \in Thread : tmp[t] # Invalid /\ t \notin Writer => file[tmp[t]].access = "read"

\* What rewrite() and read_all() have done so far, when nobody else writes.
Whole(t) ==
  LET f == file[h[Temp[t]]]
      bytes == content[f.inode]
  IN  /\ pc[t] = "read_all" =>
           f.pos <= Len(bytes) /\ result[t] = SubSeq(bytes, 1, f.pos)
      /\ pc[t] = "all_read" => result[t] = bytes
      /\ pc[t] = "assign" /\ call[t].what = "rewrite" /\ tmp[t] # Invalid =>
           content[file[tmp[t]].inode] = <<>>
      /\ pc[t] = "rewrite" => bytes = <<>> /\ f.pos = 0
      /\ pc[t] = "rewritten" =>
           /\ \E n \in 0..Len(Data[t]) : bytes = SubSeq(Data[t], 1, n)
           /\ short = 0 => bytes = Data[t]

WholeSoFar == \A t \in Thread : Writer \subseteq {t} => Whole(t)

Handles == OpenOrClosed /\ HoldersHaveOpen /\ HoldersAreAlone /\ OpenIsHeld

IInv == TypeOK /\ Handles /\ CallsFit /\ ReadersRead /\ WholeSoFar
-----------------------------------------------------------------------------
(* What the steps do to the descriptors.                                   *)

LEMMA HandleFacts ==
  /\ Invalid \notin Handle
  /\ \A d \in Handle : d \in Int
  /\ Closed \in [inode : Inode \cup {NoInode}, pos : Nat, access : {"read", "write", "none"}]
  /\ Closed.inode = NoInode /\ NoInode \notin Inode
BY FileAssumption DEF Invalid, Handle, Closed

\* A position moves.
LEMMA MovedHandles ==
  ASSUME TypeOK, Handles, NEW o \in Object, h[o] # Invalid, NEW n \in Nat,
         file' = [file EXCEPT ![h[o]].pos = n],
         UNCHANGED <<h, tmp, leaked>>
  PROVE  /\ Handles'
         /\ file' \in [Handle -> [inode : Inode \cup {NoInode}, pos : Nat,
                                  access : {"read", "write", "none"}]]
         /\ \A d \in Handle : /\ file'[d].inode = file[d].inode
                              /\ file'[d].access = file[d].access
<1> USE HandleFacts
<1> DEFINE d0 == h[o]
<1>1. d0 \in Handle
  BY DEF TypeOK
<1>2. file[d0].inode \in Inode /\ file[d0].access # "none"
  BY <1>1 DEF Handles, OpenOrClosed, HoldersHaveOpen
<1>3. file' \in [Handle -> [inode : Inode \cup {NoInode}, pos : Nat,
                            access : {"read", "write", "none"}]]
  BY <1>1, ZenonT(60) DEF TypeOK
<1>4. \A d \in Handle : /\ file'[d].inode = file[d].inode
                        /\ file'[d].access = file[d].access
  BY <1>1 DEF TypeOK
<1>5. file'[d0] # Closed /\ \A d \in Handle : d # d0 => file'[d] = file[d]
  BY <1>1, <1>2, <1>4 DEF TypeOK
<1>6. OpenOrClosed'
  BY <1>2, <1>4, <1>5 DEF Handles, OpenOrClosed
<1>7. HoldersHaveOpen'
  BY <1>1, <1>5 DEF TypeOK, Handles, HoldersHaveOpen, HoldersAreAlone
<1>8. HoldersAreAlone' /\ OpenIsHeld'
  BY <1>1, <1>2, <1>5 DEF Handles, HoldersAreAlone, OpenIsHeld, HoldersHaveOpen
<1>9. QED
  BY <1>3, <1>4, <1>6, <1>7, <1>8 DEF Handles

\* Closing what object o has, and giving it e: nothing, or what the thread u has
\* got from open().
LEMMA ReplacedHandles ==
  ASSUME TypeOK, Handles, NEW o \in Object, NEW u \in Thread,
         NEW e \in {Invalid, tmp[u]},
         file' = CloseHandle(h[o]),
         h' = [h EXCEPT ![o] = e],
         tmp' = IF e = Invalid THEN tmp ELSE [tmp EXCEPT ![u] = Invalid],
         UNCHANGED leaked
  PROVE  /\ Handles'
         /\ file' \in [Handle -> [inode : Inode \cup {NoInode}, pos : Nat,
                                  access : {"read", "write", "none"}]]
         /\ \A d \in Handle : d # h[o] => file'[d] = file[d]
<1> USE HandleFacts
<1> DEFINE d0 == h[o]
<1>1. d0 \in Handle \cup {Invalid} /\ e \in Handle \cup {Invalid}
  BY DEF TypeOK
<1>2. file' \in [Handle -> [inode : Inode \cup {NoInode}, pos : Nat,
                            access : {"read", "write", "none"}]]
  BY <1>1 DEF TypeOK, CloseHandle
<1>3. /\ \A d \in Handle : file'[d] = IF d = d0 THEN Closed ELSE file[d]
  BY <1>1 DEF TypeOK, CloseHandle
<1>4. /\ \A p \in Object : h'[p] = IF p = o THEN e ELSE h[p]
      /\ \A t \in Thread : tmp'[t] = IF e # Invalid /\ t = u THEN Invalid ELSE tmp[t]
  BY DEF TypeOK
<1>5. OpenOrClosed'
  BY <1>3 DEF Handles, OpenOrClosed
<1>6. HoldersHaveOpen'
  <2>1. ASSUME NEW p \in Object, h'[p] # Invalid
        PROVE  file'[h'[p]] # Closed /\ h'[p] \notin leaked
    BY <1>1, <1>3, <1>4, <2>1 DEF TypeOK, Handles, HoldersHaveOpen, HoldersAreAlone
  <2>2. ASSUME NEW t \in Thread, tmp'[t] # Invalid
        PROVE  file'[tmp'[t]] # Closed /\ tmp'[t] \notin leaked /\ file'[tmp'[t]].pos = 0
    BY <1>1, <1>3, <1>4, <2>2 DEF TypeOK, Handles, HoldersHaveOpen, HoldersAreAlone
  <2>3. \A d \in leaked : file'[d] # Closed
    BY <1>3 DEF TypeOK, Handles, HoldersHaveOpen
  <2>4. QED
    BY <2>1, <2>2, <2>3 DEF HoldersHaveOpen
<1>7. HoldersAreAlone'
  <2>1. \A p, q \in Object : h'[p] # Invalid /\ h'[p] = h'[q] => p = q
    BY <1>1, <1>4 DEF Handles, HoldersAreAlone
  <2>2. \A s, t \in Thread : tmp'[s] # Invalid /\ tmp'[s] = tmp'[t] => s = t
    BY <1>4 DEF Handles, HoldersAreAlone
  <2>3. \A p \in Object, t \in Thread : h'[p] # Invalid => h'[p] # tmp'[t]
    BY <1>1, <1>4 DEF Handles, HoldersAreAlone
  <2>4. QED
    BY <2>1, <2>2, <2>3 DEF HoldersAreAlone
<1>8. OpenIsHeld'
  <2>1. ASSUME NEW d \in Handle, file'[d] # Closed
        PROVE  d \in leaked \/ (\E p \in Object : h'[p] = d) \/ (\E t \in Thread : tmp'[t] = d)
    <3>1. file[d] # Closed /\ d # d0
      BY <1>3, <2>1
    <3>2. CASE \E p \in Object : h[p] = d
      BY <1>4, <3>1, <3>2
    <3>3. CASE \E t \in Thread : tmp[t] = d
      <4>1. PICK t \in Thread : tmp[t] = d
        BY <3>3
      <4>2. CASE t = u /\ e # Invalid
        BY <1>4, <4>1, <4>2
      <4>3. CASE ~(t = u /\ e # Invalid)
        BY <1>4, <4>1, <4>3
      <4>4. QED
        BY <4>2, <4>3
    <3>4. QED
      BY <3>1, <3>2, <3>3 DEF Handles, OpenIsHeld
  <2>2. QED
    BY <2>1 DEF OpenIsHeld
<1>9. QED
  BY <1>2, <1>3, <1>5, <1>6, <1>7, <1>8 DEF Handles

\* An open function closes its descriptor again, or an exception loses it.
LEMMA GivenUpHandles ==
  ASSUME TypeOK, Handles, NEW u \in Thread,
         tmp' = [tmp EXCEPT ![u] = Invalid], UNCHANGED h,
         \/ file' = CloseHandle(tmp[u]) /\ UNCHANGED leaked
         \/ leaked' = leaked \cup ({tmp[u]} \ {Invalid}) /\ UNCHANGED file
  PROVE  /\ Handles' /\ leaked' \subseteq Handle
         /\ file' \in [Handle -> [inode : Inode \cup {NoInode}, pos : Nat,
                                  access : {"read", "write", "none"}]]
         /\ \A d \in Handle : d # tmp[u] => file'[d] = file[d]
<1> USE HandleFacts
<1> DEFINE e == tmp[u]
<1>1. e \in Handle \cup {Invalid}
  BY DEF TypeOK
<1>2. /\ file' \in [Handle -> [inode : Inode \cup {NoInode}, pos : Nat,
                               access : {"read", "write", "none"}]]
      /\ leaked' \subseteq Handle
  <2>1. CASE file' = CloseHandle(e) /\ UNCHANGED leaked
    BY <1>1, <2>1 DEF TypeOK, CloseHandle
  <2>2. CASE leaked' = leaked \cup ({e} \ {Invalid}) /\ UNCHANGED file
    BY <1>1, <2>2 DEF TypeOK
  <2>3. QED
    BY <2>1, <2>2
<1>3. \A t \in Thread : tmp'[t] = IF t = u THEN Invalid ELSE tmp[t]
  BY DEF TypeOK
<1>4. \/ UNCHANGED leaked /\ \A d \in Handle : file'[d] = IF d = e THEN Closed ELSE file[d]
      \/ UNCHANGED file /\ leaked' = leaked \cup ({e} \ {Invalid})
  BY <1>1 DEF TypeOK, CloseHandle
<1>5. OpenOrClosed'
  BY <1>4 DEF Handles, OpenOrClosed
<1>6. HoldersHaveOpen'
  <2>1. ASSUME NEW p \in Object, h[p] # Invalid
        PROVE  file'[h[p]] # Closed /\ h[p] \notin leaked'
    BY <1>1, <1>4, <2>1 DEF TypeOK, Handles, HoldersHaveOpen, HoldersAreAlone
  <2>2. ASSUME NEW t \in Thread, tmp'[t] # Invalid
        PROVE  file'[tmp'[t]] # Closed /\ tmp'[t] \notin leaked' /\ file'[tmp'[t]].pos = 0
    BY <1>1, <1>3, <1>4, <2>2 DEF TypeOK, Handles, HoldersHaveOpen, HoldersAreAlone
  <2>3. \A d \in leaked' : file'[d] # Closed
    BY <1>1, <1>4 DEF TypeOK, Handles, HoldersHaveOpen
  <2>4. QED
    BY <2>1, <2>2, <2>3 DEF HoldersHaveOpen
<1>7. HoldersAreAlone'
  BY <1>3 DEF Handles, HoldersAreAlone
<1>8. OpenIsHeld'
  <2>1. ASSUME NEW d \in Handle, file'[d] # Closed
        PROVE  d \in leaked' \/ (\E p \in Object : h[p] = d) \/ (\E t \in Thread : tmp'[t] = d)
    <3>1. file[d] # Closed /\ (d = e => d \in leaked') /\ leaked \subseteq leaked'
      BY <1>4, <2>1
    <3>2. QED
      BY <1>3, <3>1 DEF Handles, OpenIsHeld
  <2>2. QED
    BY <2>1 DEF OpenIsHeld
<1>9. QED
  BY <1>2, <1>4, <1>5, <1>6, <1>7, <1>8 DEF Handles

\* open() gives a descriptor that nobody has.
LEMMA OpenedHandles ==
  ASSUME TypeOK, Handles, NEW u \in Thread, tmp[u] = Invalid,
         NEW d \in Handle, file[d] = Closed,
         NEW i \in Inode, NEW a \in {"read", "write"},
         tmp' = [tmp EXCEPT ![u] = d],
         file' = [file EXCEPT ![d] = [inode |-> i, pos |-> 0, access |-> a]],
         UNCHANGED <<h, leaked>>
  PROVE  /\ Handles'
         /\ file' \in [Handle -> [inode : Inode \cup {NoInode}, pos : Nat,
                                  access : {"read", "write", "none"}]]
<1> USE HandleFacts
<1>1. file' \in [Handle -> [inode : Inode \cup {NoInode}, pos : Nat,
                            access : {"read", "write", "none"}]]
  BY DEF TypeOK
<1>2. /\ \A e \in Handle : e # d => file'[e] = file[e]
      /\ file'[d] = [inode |-> i, pos |-> 0, access |-> a]
      /\ \A t \in Thread : tmp'[t] = IF t = u THEN d ELSE tmp[t]
  BY DEF TypeOK
<1>3. file'[d] # Closed /\ file'[d].inode = i /\ file'[d].access = a /\ file'[d].pos = 0
  BY <1>2
<1>4. /\ \A o \in Object : h[o] # d
      /\ \A t \in Thread : tmp[t] # d
      /\ d \notin leaked
  BY DEF Handles, HoldersHaveOpen
<1>5. OpenOrClosed'
  BY <1>2, <1>3 DEF Handles, OpenOrClosed
<1>6. HoldersHaveOpen'
  BY <1>2, <1>3, <1>4 DEF TypeOK, Handles, HoldersHaveOpen
<1>7. HoldersAreAlone'
  BY <1>2, <1>4 DEF Handles, HoldersAreAlone
<1>8. OpenIsHeld'
  BY <1>2, <1>3 DEF Handles, OpenIsHeld
<1>9. QED
  BY <1>1, <1>5, <1>6, <1>7, <1>8 DEF Handles

\* Move assignment.
LEMMA GivenAwayHandles ==
  ASSUME TypeOK, Handles, NEW o \in Object, NEW p \in Object, o # p, h[o] # Invalid,
         file' = CloseHandle(h[p]),
         h' = [h EXCEPT ![p] = h[o], ![o] = Invalid],
         UNCHANGED <<tmp, leaked>>
  PROVE  /\ Handles'
         /\ file' \in [Handle -> [inode : Inode \cup {NoInode}, pos : Nat,
                                  access : {"read", "write", "none"}]]
         /\ \A d \in Handle : d # h[p] => file'[d] = file[d]
<1> USE HandleFacts
<1>1. h[o] \in Handle /\ h[p] \in Handle \cup {Invalid} /\ h[o] # h[p]
  BY DEF TypeOK, Handles, HoldersAreAlone
<1>2. file' \in [Handle -> [inode : Inode \cup {NoInode}, pos : Nat,
                            access : {"read", "write", "none"}]]
  BY <1>1 DEF TypeOK, CloseHandle
<1>3. \A d \in Handle : file'[d] = IF d = h[p] THEN Closed ELSE file[d]
  BY <1>1 DEF TypeOK, CloseHandle
<1>4. \A q \in Object : h'[q] = IF q = o THEN Invalid ELSE IF q = p THEN h[o] ELSE h[q]
  BY DEF TypeOK
<1>5. OpenOrClosed'
  BY <1>3 DEF Handles, OpenOrClosed
<1>6. HoldersHaveOpen'
  <2>1. ASSUME NEW q \in Object, h'[q] # Invalid
        PROVE  file'[h'[q]] # Closed /\ h'[q] \notin leaked
    <3>1. PICK r \in Object : h'[q] = h[r] /\ r # p
      BY <1>4, <2>1
    <3>2. h[r] \in Handle /\ h[r] # h[p]
      BY <2>1, <3>1 DEF TypeOK, Handles, HoldersAreAlone
    <3>3. QED
      BY <1>3, <2>1, <3>1, <3>2 DEF Handles, HoldersHaveOpen
  <2>2. ASSUME NEW t \in Thread, tmp[t] # Invalid
        PROVE  file'[tmp[t]] # Closed /\ tmp[t] \notin leaked /\ file'[tmp[t]].pos = 0
    <3>1. tmp[t] \in Handle /\ tmp[t] # h[p]
      BY <2>2 DEF TypeOK, Handles, HoldersAreAlone
    <3>2. QED
      BY <1>3, <2>2, <3>1 DEF Handles, HoldersHaveOpen
  <2>3. \A d \in leaked : file'[d] # Closed
    BY <1>3 DEF TypeOK, Handles, HoldersHaveOpen
  <2>4. QED
    BY <2>1, <2>2, <2>3 DEF HoldersHaveOpen
<1>7. HoldersAreAlone'
  <2>1. \A q, r \in Object : h'[q] # Invalid /\ h'[q] = h'[r] => q = r
    <3>1. \A q \in Object : q \notin {o, p} => h[q] # h[o]
      BY <1>1 DEF Handles, HoldersAreAlone
    <3>2. \A q, r \in Object : h[q] # Invalid /\ h[q] = h[r] => q = r
      BY DEF Handles, HoldersAreAlone
    <3>3. QED
      BY <1>4, <3>1, <3>2
  <2>2. ASSUME NEW q \in Object, NEW t \in Thread, h'[q] # Invalid
        PROVE  h'[q] # tmp[t]
    <3>1. PICK r \in Object : h'[q] = h[r]
      BY <1>4, <2>2
    <3>2. QED
      BY <2>2, <3>1 DEF Handles, HoldersAreAlone
  <2>3. QED
    BY <2>1, <2>2 DEF Handles, HoldersAreAlone
<1>8. OpenIsHeld'
  <2>1. ASSUME NEW d \in Handle, file'[d] # Closed
        PROVE  d \in leaked \/ (\E q \in Object : h'[q] = d) \/ (\E t \in Thread : tmp[t] = d)
    <3>1. file[d] # Closed /\ d # h[p]
      BY <1>3, <2>1
    <3>2. ASSUME NEW q \in Object, h[q] = d PROVE \E r \in Object : h'[r] = d
      <4>1. CASE q = o
        BY <1>4, <3>2, <4>1
      <4>2. CASE q # o
        BY <1>4, <3>1, <3>2, <4>2
      <4>3. QED
        BY <4>1, <4>2
    <3>3. QED
      BY <3>1, <3>2 DEF Handles, OpenIsHeld
  <2>2. QED
    BY <2>1 DEF OpenIsHeld
<1>9. QED
  BY <1>2, <1>3, <1>5, <1>6, <1>7, <1>8 DEF Handles
-----------------------------------------------------------------------------
(* What the steps do to the bytes.                                         *)

\* What write() leaves in a file is bytes.
LEMMA OverwriteIsBytes ==
  ASSUME NEW s \in Seq(Byte), NEW d \in Seq(Byte), NEW p \in Nat, NEW n \in 0..Len(d)
  PROVE  Overwrite(s, p, d, n) \in Seq(Byte)
<1> DEFINE m == IF p + n > Len(s) THEN p + n ELSE Len(s)
           e(k) == IF k > p /\ k <= p + n THEN d[k - p] ELSE IF k <= Len(s) THEN s[k] ELSE "0"
<1>1. Len(s) \in Nat /\ Len(d) \in Nat
  BY LenProperties
<1>2. m \in Nat
  BY <1>1
<1>3. ASSUME NEW k \in 1..m PROVE e(k) \in Byte
  <2>1. CASE k > p /\ k <= p + n
    <3>1. k - p \in 1..Len(d)
      BY <1>1, <1>2, <2>1
    <3>2. QED
      BY <2>1, <3>1, ElementOfSeq
  <2>2. CASE ~(k > p /\ k <= p + n) /\ k <= Len(s)
    <3>1. k \in 1..Len(s)
      BY <1>1, <1>2, <2>2
    <3>2. QED
      BY <2>2, <3>1, ElementOfSeq
  <2>3. CASE ~(k > p /\ k <= p + n) /\ ~(k <= Len(s))
    BY <2>3, FileAssumption
  <2>4. QED
    BY <2>1, <2>2, <2>3
<1>4. [k \in 1..m |-> e(k)] \in Seq(Byte)
  BY <1>2, <1>3, IsASeq
<1>5. QED
  BY <1>4 DEF Overwrite

\* What write() leaves in an empty file is the beginning of what it was given.
LEMMA OverwriteEmpty ==
  ASSUME NEW d \in Seq(Byte), NEW n \in 0..Len(d)
  PROVE  Overwrite(<<>>, 0, d, n) = SubSeq(d, 1, n)
<1>1. Len(d) \in Nat /\ Len(<<>>) = 0
  BY LenProperties, EmptySeq
<1>2. Overwrite(<<>>, 0, d, n) = [k \in 1..n |-> d[k]]
  BY <1>1 DEF Overwrite
<1>3. SubSeq(d, 1, n) = [k \in 1..n |-> d[k]]
  BY <1>1 DEF SubSeq
<1>4. QED
  BY <1>2, <1>3

\* What ::truncate() leaves in a file is bytes.
LEMMA ResizeIsBytes ==
  ASSUME TypeOK, NEW i \in Inode, Resize(i)
  PROVE  content' \in [Inode -> Seq(Byte)]
<1> DEFINE s == content[i]
           e(k) == IF k <= Len(s) THEN s[k] ELSE "0"
<1>1. InitialSize \in Nat /\ Len(s) \in Nat /\ s \in Seq(Byte)
  BY FileAssumption, LenProperties DEF TypeOK
<1>2. ASSUME NEW k \in 1..InitialSize PROVE e(k) \in Byte
  BY <1>1, FileAssumption, ElementOfSeq
<1>3. [k \in 1..InitialSize |-> e(k)] \in Seq(Byte)
  BY <1>1, <1>2, IsASeq
<1>4. QED
  BY <1>3 DEF Resize, TypeOK

\* A step that changes nothing of a call leaves what is known of it.
LEMMA CallKept ==
  ASSUME IInv, NEW t \in Thread,
         pc'[t] = pc[t], call'[t] = call[t], tmp'[t] = tmp[t], h'[Temp[t]] = h[Temp[t]]
  PROVE  CallFits(t)'
BY DEF IInv, CallsFit, CallFits

\* A step that changes nothing a thread has in hand leaves what the thread has
\* done so far.
LEMMA WholeKept ==
  ASSUME IInv, NEW t \in Thread, Writer \subseteq {t},
         UNCHANGED <<content, short>>,
         pc'[t] = pc[t], call'[t] = call[t], tmp'[t] = tmp[t], result'[t] = result[t],
         h'[Temp[t]] = h[Temp[t]],
         NEW d, \A e \in Handle : e # d => file'[e] = file[e],
         d # Invalid => d # h[Temp[t]] /\ d # tmp[t]
  PROVE  Whole(t)'
<1>1. Whole(t)
  BY DEF IInv, WholeSoFar
<1>2. Temp[t] \in Object
  BY FileAssumption
<1>3. pc[t] \in AtWork => file'[h[Temp[t]]] = file[h[Temp[t]]]
  BY <1>2, HandleFacts DEF IInv, CallsFit, CallFits, TypeOK
<1>4. tmp[t] # Invalid => file'[tmp[t]] = file[tmp[t]]
  BY <1>2, HandleFacts DEF IInv, TypeOK
<1>5. QED
  BY <1>1, <1>3, <1>4 DEF Whole, AtWork
-----------------------------------------------------------------------------
(* The steps.                                                              *)

LEMMA InitIInv == Init => IInv
<1> SUFFICES ASSUME Init PROVE IInv
  OBVIOUS
<1> USE FileAssumption, HandleFacts DEF Init
<1>1. <<>> \in Seq(Byte)
  BY EmptySeq
<1>2. \A t \in Thread : NoCall(t) \in [mode : Mode, obj : Object,
                                       what : {"open", "rewrite", "read_all"}]
  BY DEF NoCall, Mode
<1>3. TypeOK
  BY <1>1, <1>2 DEF TypeOK
<1>4. Handles
  BY DEF Handles, OpenOrClosed, HoldersHaveOpen, HoldersAreAlone, OpenIsHeld
<1>5. CallsFit
  BY DEF CallsFit, CallFits, NoCall, InCall, AtWork
<1>6. ReadersRead /\ WholeSoFar
  BY DEF ReadersRead, WholeSoFar, Whole
<1>7. QED
  BY <1>3, <1>4, <1>5, <1>6 DEF IInv

LEMMA BeginIInv == ASSUME IInv, NEW u \in Thread, Begin(u) PROVE IInv'
<1> USE FileAssumption, HandleFacts
<1>1. /\ UNCHANGED <<entry, content, file, h, size, tmp, result, short, removes, leaked>>
      /\ pc[u] = "idle" /\ pc' = [pc EXCEPT ![u] = "open"]
  BY DEF Begin, Goto, fsVars
<1>2. PICK c \in [mode : Mode, obj : Object, what : {"open", "rewrite", "read_all"}] :
        /\ call' = [call EXCEPT ![u] = c]
        /\ Owner[c.obj] = u
        /\ c.mode # "read" => u \in Writer
        /\ c.what # "open" => c.obj = Temp[u]
        /\ c.what = "rewrite" => c.mode = "trunc"
  <2> DEFINE C(m, o, w) == [mode |-> m, obj |-> o, what |-> w]
             Fits(c) == /\ call' = [call EXCEPT ![u] = c]
                        /\ Owner[c.obj] = u
                        /\ c.mode # "read" => u \in Writer
                        /\ c.what # "open" => c.obj = Temp[u]
                        /\ c.what = "rewrite" => c.mode = "trunc"
             Call == [mode : Mode, obj : Object, what : {"open", "rewrite", "read_all"}]
  <2>1. \A m \in Mode, o \in Object, w \in {"open", "rewrite", "read_all"} :
          /\ C(m, o, w) \in Call
          /\ C(m, o, w).mode = m /\ C(m, o, w).obj = o /\ C(m, o, w).what = w
    OBVIOUS
  <2>2. Temp[u] \in Object /\ Owner[Temp[u]] = u /\ {"trunc", "read"} \subseteq Mode
    BY DEF Mode
  <2> HIDE DEF C
  <2>3. ASSUME NEW o \in Object, NEW m \in Mode, Owner[o] = u,
               u \in Writer \/ m = "read", call' = [call EXCEPT ![u] = C(m, o, "open")]
        PROVE  C(m, o, "open") \in Call /\ Fits(C(m, o, "open"))
    BY <2>1, <2>3
  <2>4. ASSUME u \in Writer, call' = [call EXCEPT ![u] = C("trunc", Temp[u], "rewrite")]
        PROVE  C("trunc", Temp[u], "rewrite") \in Call /\ Fits(C("trunc", Temp[u], "rewrite"))
    BY <2>1, <2>2, <2>4
  <2>5. ASSUME call' = [call EXCEPT ![u] = C("read", Temp[u], "read_all")]
        PROVE  C("read", Temp[u], "read_all") \in Call /\ Fits(C("read", Temp[u], "read_all"))
    BY <2>1, <2>2, <2>5
  <2>6. \/ \E o \in Object, m \in Mode :
             /\ Owner[o] = u /\ (u \in Writer \/ m = "read")
             /\ call' = [call EXCEPT ![u] = C(m, o, "open")]
        \/ u \in Writer /\ call' = [call EXCEPT ![u] = C("trunc", Temp[u], "rewrite")]
        \/ call' = [call EXCEPT ![u] = C("read", Temp[u], "read_all")]
    BY DEF Begin, C
  <2> HIDE DEF Call, Fits
  <2>7. \E c \in Call : Fits(c)
    BY <2>3, <2>4, <2>5, <2>6
  <2>8. QED
    BY <2>7 DEF Call, Fits
<1>3. TypeOK'
  BY <1>1, <1>2 DEF IInv, TypeOK
<1>4. Handles'
  BY <1>1 DEF IInv, Handles, OpenOrClosed, HoldersHaveOpen, HoldersAreAlone, OpenIsHeld
<1>5. CallsFit'
  BY <1>1, <1>2, SMTT(60) DEF IInv, TypeOK, CallsFit, CallFits, InCall, AtWork
<1>6. ReadersRead'
  BY <1>1 DEF IInv, ReadersRead
<1>7. ASSUME NEW t \in Thread, Writer \subseteq {t} PROVE Whole(t)'
  <2>1. CASE t # u
    <3>1. pc'[t] = pc[t] /\ call'[t] = call[t]
      BY <1>1, <1>2, <2>1 DEF IInv, TypeOK
    <3>2. QED
      BY <1>1, <1>7, <3>1, WholeKept
  <2>2. CASE t = u
    BY <1>1, <2>2 DEF IInv, TypeOK, Whole
  <2>3. QED
    BY <2>1, <2>2
<1>8. QED
  BY <1>3, <1>4, <1>5, <1>6, <1>7 DEF IInv, WholeSoFar

LEMMA OpenFileIInv == ASSUME IInv, NEW u \in Thread, OpenFile(u) PROVE IInv'
<1> USE FileAssumption, HandleFacts
<1> DEFINE m == call[u].mode
           l == CASE m \in {"read", "write"} -> "exists"
                  [] m = "resize" -> "truncate"
                  [] m = "trunc" -> "assign"
           a == IF m = "read" THEN "read" ELSE "write"
<1>1. /\ UNCHANGED <<h, size, call, result, short, removes, leaked>>
      /\ pc[u] = "open" /\ pc' = [pc EXCEPT ![u] = l]
  BY DEF OpenFile, Goto
<1>2. PICK d \in Handle :
        /\ file[d] = Closed
        /\ tmp' = [tmp EXCEPT ![u] = d]
        /\ file' = [file EXCEPT ![d] = [inode |-> entry', pos |-> 0, access |-> a]]
  BY DEF OpenFile, LowestFree
<1>3. /\ entry' \in Inode
      /\ \/ m = "read" /\ UNCHANGED <<entry, content>>
         \/ /\ m # "read"
            /\ \/ content' = [content EXCEPT ![entry'] = <<>>]
               \/ m # "trunc" /\ UNCHANGED content
  <2>1. CASE m = "read" /\ entry # NoInode /\ UNCHANGED fsVars
    BY <2>1 DEF fsVars, IInv, TypeOK
  <2>2. ASSUME m # "read", NEW i \in IF entry = NoInode THEN Unused ELSE {entry},
               entry' = i,
               content' = IF entry = NoInode \/ Truncates(m)
                          THEN [content EXCEPT ![i] = <<>>] ELSE content
        PROVE  /\ entry' \in Inode
               /\ content' = [content EXCEPT ![entry'] = <<>>]
                    \/ (m # "trunc" /\ UNCHANGED content)
    BY <2>2 DEF Truncates, IInv, TypeOK, Unused
  <2>3. QED
    BY <2>1, <2>2 DEF OpenFile
<1>4. tmp[u] = Invalid /\ m \in Mode /\ l \in InCall
  BY <1>1 DEF IInv, TypeOK, CallsFit, CallFits, InCall, Mode
<1>5. /\ Handles'
      /\ file' \in [Handle -> [inode : Inode \cup {NoInode}, pos : Nat,
                               access : {"read", "write", "none"}]]
  BY <1>1, <1>2, <1>3, <1>4, OpenedHandles DEF IInv
<1>6. content' \in [Inode -> Seq(Byte)]
  <2>1. <<>> \in Seq(Byte)
    BY EmptySeq
  <2>2. QED
    BY <1>3, <2>1 DEF IInv, TypeOK
<1>7. TypeOK'
  BY <1>1, <1>2, <1>3, <1>4, <1>5, <1>6 DEF IInv, TypeOK, InCall
<1>8. CallsFit'
  BY <1>1, <1>2, <1>4, SMTT(60) DEF IInv, TypeOK, CallsFit, CallFits, InCall, AtWork, Mode
<1>9. ReadersRead'
  <2>1. \A e \in Handle : e # d => file'[e] = file[e]
    BY <1>2 DEF IInv, TypeOK
  <2>2. file'[d].access = a
    BY <1>2 DEF IInv, TypeOK
  <2>3. m # "read" => u \in Writer
    BY DEF IInv, CallsFit, CallFits
  <2>4. \A o \in Object : h[o] # d
    BY <1>2, ZenonT(60) DEF IInv, Handles, HoldersHaveOpen
  <2>5. \A t \in Thread : t # u => tmp'[t] = tmp[t] /\ tmp[t] # d
    BY <1>2 DEF IInv, TypeOK, Handles, HoldersHaveOpen
  <2>6. tmp'[u] = d
    BY <1>2 DEF IInv, TypeOK
  <2>7. ASSUME NEW o \in Object, h[o] # Invalid, Owner[o] \notin Writer
        PROVE  file'[h[o]].access = "read"
    <3>1. h[o] \in Handle /\ h[o] # d
      BY <2>4, <2>7 DEF IInv, TypeOK
    <3>2. file[h[o]].access = "read"
      BY <2>7 DEF IInv, ReadersRead
    <3>3. QED
      BY <2>1, <3>1, <3>2
  <2>8. ASSUME NEW t \in Thread, tmp'[t] # Invalid, t \notin Writer
        PROVE  file'[tmp'[t]].access = "read"
    <3>1. CASE t = u
      BY <2>2, <2>3, <2>6, <2>8, <3>1
    <3>2. CASE t # u
      <4>1. tmp[t] \in Handle /\ tmp[t] # d /\ tmp'[t] = tmp[t]
        BY <2>5, <2>8, <3>2 DEF IInv, TypeOK
      <4>2. file[tmp[t]].access = "read"
        BY <2>8, <4>1 DEF IInv, ReadersRead
      <4>3. QED
        BY <2>1, <4>1, <4>2
    <3>3. QED
      BY <3>1, <3>2
  <2>9. QED
    BY <1>1, <2>7, <2>8 DEF ReadersRead
<1>10. ASSUME NEW t \in Thread, Writer \subseteq {t} PROVE Whole(t)'
  <2>1. CASE t # u
    <3>1. UNCHANGED content
      BY <1>3, <1>10, <2>1 DEF IInv, CallsFit, CallFits
    <3>2. pc'[t] = pc[t] /\ tmp'[t] = tmp[t]
      BY <1>1, <1>2, <2>1 DEF IInv, TypeOK
    <3>3. \A e \in Handle : e # d => file'[e] = file[e]
      BY <1>2 DEF IInv, TypeOK
    <3>4. d # h[Temp[t]] /\ d # tmp[t]
      BY <1>2 DEF IInv, Handles, HoldersHaveOpen
    <3>5. QED
      BY <1>1, <1>10, <3>1, <3>2, <3>3, <3>4, WholeKept
  <2>2. CASE t = u
    <3>1. pc'[t] = l /\ tmp'[t] = d /\ file'[d].inode = entry'
      BY <1>1, <1>2, <2>2, ZenonT(60) DEF IInv, TypeOK
    <3>2. l = "assign" => m = "trunc"
      BY <1>4 DEF Mode
    <3>3. m = "trunc" => content'[entry'] = <<>>
      BY <1>3 DEF IInv, TypeOK
    <3>4. QED
      BY <1>1, <1>4, <2>2, <3>1, <3>2, <3>3 DEF Whole, InCall
  <2>3. QED
    BY <2>1, <2>2
<1>11. QED
  BY <1>5, <1>7, <1>8, <1>9, <1>10 DEF IInv, WholeSoFar

\* An exception leaves the open function.
LEMMA ThrowIInv ==
  ASSUME IInv, NEW u \in Thread, Throw(u), UNCHANGED <<fsVars, short, removes>>,
         pc[u] \in InCall
  PROVE  IInv'
<1> USE FileAssumption, HandleFacts
<1>1. /\ UNCHANGED <<entry, content, file, h, size, result, short, removes>>
      /\ leaked' = leaked \cup ({tmp[u]} \ {Invalid})
      /\ tmp' = [tmp EXCEPT ![u] = Invalid]
      /\ call' = [call EXCEPT ![u] = NoCall(u)]
      /\ pc' = [pc EXCEPT ![u] = "idle"]
  BY DEF Throw, Goto, fsVars
<1>2. Handles' /\ leaked' \subseteq Handle
  BY <1>1, GivenUpHandles DEF IInv
<1>3. NoCall(u) \in [mode : Mode, obj : Object, what : {"open", "rewrite", "read_all"}]
  BY DEF NoCall, Mode
<1>4. TypeOK'
  BY <1>1, <1>2, <1>3 DEF IInv, TypeOK
<1>5. CallsFit'
  <2>1. /\ pc'[u] = "idle" /\ tmp'[u] = Invalid /\ call'[u] = NoCall(u)
        /\ \A t \in Thread : t # u => pc'[t] = pc[t] /\ tmp'[t] = tmp[t] /\ call'[t] = call[t]
    BY <1>1 DEF IInv, TypeOK
  <2>2. /\ Owner[NoCall(u).obj] = u /\ NoCall(u).mode = "read" /\ NoCall(u).what = "open"
    BY DEF NoCall
  <2>3. ASSUME NEW t \in Thread, t # u PROVE CallFits(t)'
    BY <1>1, <2>1, <2>3, CallKept
  <2>4. CallFits(u)'
    BY <1>1, <2>1, <2>2 DEF CallFits, InCall, AtWork
  <2>5. QED
    BY <2>3, <2>4 DEF CallsFit
<1>6. ReadersRead'
  BY <1>1 DEF IInv, TypeOK, ReadersRead
<1>7. ASSUME NEW t \in Thread, Writer \subseteq {t} PROVE Whole(t)'
  <2>1. CASE t # u
    <3>1. pc'[t] = pc[t] /\ call'[t] = call[t] /\ tmp'[t] = tmp[t]
      BY <1>1, <2>1 DEF IInv, TypeOK
    <3>2. QED
      BY <1>1, <1>7, <3>1, WholeKept
  <2>2. CASE t = u
    BY <1>1, <2>2 DEF IInv, TypeOK, Whole
  <2>3. QED
    BY <2>1, <2>2
<1>8. QED
  BY <1>2, <1>4, <1>5, <1>6, <1>7 DEF IInv, WholeSoFar

\* The open function goes on without having touched anything.
LEMMA GoOnIInv ==
  ASSUME IInv, NEW u \in Thread, NEW l \in {"exists", "file_size", "assign"},
         pc[u] \in {"open", "exists"}, pc' = [pc EXCEPT ![u] = l],
         l # "assign" => call[u].mode \in {"read", "write"},
         l = "assign" => pc[u] = "exists" \/ tmp[u] = Invalid,
         UNCHANGED <<entry, content, file, h, size, call, tmp, result, short, removes, leaked>>
  PROVE  IInv'
<1> USE FileAssumption, HandleFacts
<1>1. TypeOK'
  BY DEF IInv, TypeOK
<1>2. Handles'
  BY DEF IInv, Handles, OpenOrClosed, HoldersHaveOpen, HoldersAreAlone, OpenIsHeld
<1>3. CallsFit'
  <2>1. pc'[u] = l /\ \A t \in Thread : t # u => pc'[t] = pc[t]
    BY DEF IInv, TypeOK
  <2>2. ASSUME NEW t \in Thread, t # u PROVE CallFits(t)'
    BY <2>1, <2>2, CallKept
  <2>3. CallFits(u)'
    BY <2>1 DEF IInv, CallsFit, CallFits, InCall, AtWork
  <2>4. QED
    BY <2>2, <2>3 DEF CallsFit
<1>4. ReadersRead'
  BY DEF IInv, ReadersRead
<1>5. ASSUME NEW t \in Thread, Writer \subseteq {t} PROVE Whole(t)'
  <2>1. CASE t # u
    <3>1. pc'[t] = pc[t]
      BY <2>1 DEF IInv, TypeOK
    <3>2. QED
      BY <1>5, <3>1, WholeKept
  <2>2. CASE t = u
    <3>1. pc'[t] = l
      BY <2>2 DEF IInv, TypeOK
    <3>2. l = "assign" /\ tmp[t] # Invalid => call[t].what # "rewrite"
      BY <2>2 DEF IInv, CallsFit, CallFits
    <3>3. QED
      BY <3>1, <3>2 DEF Whole
  <2>3. QED
    BY <2>1, <2>2
<1>6. QED
  BY <1>1, <1>2, <1>3, <1>4, <1>5 DEF IInv, WholeSoFar

LEMMA OpenFailsIInv == ASSUME IInv, NEW u \in Thread, OpenFails(u) PROVE IInv'
<1>1. pc[u] = "open" /\ tmp[u] = Invalid
  BY DEF OpenFails, IInv, CallsFit, CallFits, InCall
<1>2. CASE Throw(u)
  BY <1>1, <1>2, ThrowIInv DEF OpenFails, InCall
<1>3. CASE ~Throw(u)
  <2>1. /\ pc' = [pc EXCEPT ![u] = IF call[u].mode \in {"read", "write"}
                                   THEN "exists" ELSE "assign"]
        /\ UNCHANGED <<entry, content, file, h, size, call, tmp, result, short, removes, leaked>>
    BY <1>3 DEF OpenFails, Goto, fsVars
  <2>2. QED
    BY <1>1, <2>1, GoOnIInv
<1>4. QED
  BY <1>2, <1>3

LEMMA SizeExistsIInv == ASSUME IInv, NEW u \in Thread, SizeExists(u) PROVE IInv'
<1>1. pc[u] = "exists" /\ call[u].mode \in {"read", "write"}
  BY DEF SizeExists, IInv, CallsFit, CallFits
<1>2. CASE Throw(u)
  BY <1>1, <1>2, ThrowIInv DEF SizeExists, InCall
<1>3. CASE ~Throw(u)
  <2>1. /\ pc' = [pc EXCEPT ![u] = IF entry # NoInode THEN "file_size" ELSE "assign"]
        /\ UNCHANGED <<entry, content, file, h, size, call, tmp, result, short, removes, leaked>>
    BY <1>3 DEF SizeExists, Goto, fsVars
  <2>2. QED
    BY <1>1, <2>1, GoOnIInv
<1>4. QED
  BY <1>2, <1>3

\* The objects of two threads are two, and so are their descriptors.
LEMMA OthersApart ==
  ASSUME IInv, NEW u \in Thread, NEW t \in Thread, t # u,
         NEW o \in Object, Owner[o] = u
  PROVE  /\ o # Temp[t]
         /\ h[o] # Invalid => h[o] # h[Temp[t]] /\ h[o] # tmp[t]
<1>1. Temp[t] \in Object /\ Owner[Temp[t]] = t
  BY FileAssumption
<1>2. QED
  BY <1>1 DEF IInv, Handles, HoldersAreAlone

LEMMA TruncateIInv == ASSUME IInv, NEW u \in Thread, Truncate(u) PROVE IInv'
<1> USE FileAssumption, HandleFacts
<1>1. pc[u] = "truncate" /\ u \in Writer /\ call[u].what # "rewrite"
  BY DEF Truncate, IInv, CallsFit, CallFits
<1>2. \A t \in Thread : Writer \subseteq {t} => t = u
  BY <1>1
<1>3. CASE /\ entry # NoInode /\ Resize(entry) /\ Goto(u, "assign")
           /\ UNCHANGED <<file, h, size, call, tmp, result, leaked>>
  <2>1. content' \in [Inode -> Seq(Byte)]
    BY <1>3, ResizeIsBytes DEF IInv, TypeOK
  <2>2. UNCHANGED <<entry, short, removes>> /\ pc' = [pc EXCEPT ![u] = "assign"]
    BY <1>3 DEF Truncate, Goto
  <2>3. TypeOK'
    BY <1>3, <2>1, <2>2 DEF IInv, TypeOK
  <2>4. Handles'
    BY <1>3 DEF IInv, Handles, OpenOrClosed, HoldersHaveOpen, HoldersAreAlone, OpenIsHeld
  <2>5. pc'[u] = "assign" /\ \A t \in Thread : t # u => pc'[t] = pc[t]
    BY <2>2 DEF IInv, TypeOK
  <2>6. CallsFit'
    <3>1. ASSUME NEW t \in Thread, t # u PROVE CallFits(t)'
      BY <1>3, <2>5, <3>1, CallKept
    <3>2. CallFits(u)'
      BY <1>1, <1>3, <2>5 DEF IInv, CallsFit, CallFits, InCall, AtWork
    <3>3. QED
      BY <3>1, <3>2 DEF CallsFit
  <2>7. ReadersRead'
    BY <1>3 DEF IInv, ReadersRead
  <2>8. ASSUME NEW t \in Thread, Writer \subseteq {t} PROVE Whole(t)'
    BY <1>1, <1>2, <1>3, <2>5, <2>8 DEF Whole
  <2>9. QED
    BY <2>3, <2>4, <2>6, <2>7, <2>8 DEF IInv, WholeSoFar
<1>4. CASE /\ entry = NoInode /\ file' = CloseHandle(tmp[u])
           /\ tmp' = [tmp EXCEPT ![u] = Invalid] /\ Goto(u, "assign")
           /\ UNCHANGED <<content, h, size, call, result, leaked>>
  <2>1. UNCHANGED <<entry, short, removes>> /\ pc' = [pc EXCEPT ![u] = "assign"]
    BY <1>4 DEF Truncate, Goto
  <2>2. /\ Handles'
        /\ file' \in [Handle -> [inode : Inode \cup {NoInode}, pos : Nat,
                                 access : {"read", "write", "none"}]]
        /\ \A d \in Handle : d # tmp[u] => file'[d] = file[d]
    BY <1>4, GivenUpHandles DEF IInv
  <2>3. TypeOK'
    BY <1>4, <2>1, <2>2 DEF IInv, TypeOK
  <2>4. /\ pc'[u] = "assign" /\ tmp'[u] = Invalid
        /\ \A t \in Thread : t # u => pc'[t] = pc[t] /\ tmp'[t] = tmp[t]
    BY <1>4, <2>1 DEF IInv, TypeOK
  <2>5. CallsFit'
    <3>1. ASSUME NEW t \in Thread, t # u PROVE CallFits(t)'
      BY <1>4, <2>4, <3>1, CallKept
    <3>2. CallFits(u)'
      BY <1>1, <1>4, <2>4 DEF IInv, CallsFit, CallFits, InCall, AtWork
    <3>3. QED
      BY <3>1, <3>2 DEF CallsFit
  <2>6. ReadersRead'
    <3>1. ASSUME NEW o \in Object, h[o] # Invalid, Owner[o] \notin Writer
          PROVE  file'[h[o]].access = "read"
      <4>1. h[o] \in Handle /\ h[o] # tmp[u]
        BY <3>1 DEF IInv, TypeOK, Handles, HoldersAreAlone
      <4>2. QED
        BY <2>2, <3>1, <4>1 DEF IInv, ReadersRead
    <3>2. ASSUME NEW t \in Thread, tmp'[t] # Invalid, t \notin Writer
          PROVE  file'[tmp'[t]].access = "read"
      <4>1. t # u /\ tmp'[t] = tmp[t]
        BY <2>4, <3>2
      <4>2. tmp[t] \in Handle /\ tmp[t] # tmp[u]
        BY <3>2, <4>1 DEF IInv, TypeOK, Handles, HoldersAreAlone
      <4>3. QED
        BY <2>2, <3>2, <4>1, <4>2, ZenonT(60) DEF IInv, ReadersRead
    <3>3. QED
      BY <1>4, <3>1, <3>2 DEF ReadersRead
  <2>7. ASSUME NEW t \in Thread, Writer \subseteq {t} PROVE Whole(t)'
    BY <1>2, <2>4, <2>7 DEF Whole
  <2>8. QED
    BY <2>2, <2>3, <2>5, <2>6, <2>7 DEF IInv, WholeSoFar
<1>5. CASE entry = NoInode /\ Throw(u) /\ UNCHANGED content
  BY <1>1, <1>5, ThrowIInv DEF Truncate, fsVars, InCall
<1>6. QED
  BY <1>3, <1>4, <1>5 DEF Truncate

\* The object of the call takes over what the open function has got.
LEMMA AssignIInv ==
  ASSUME IInv, NEW u \in Thread, pc[u] \in {"file_size", "assign"},
         NEW n \in Nat, Assign(u, tmp[u], n), UNCHANGED <<fsVars, short, removes>>
  PROVE  IInv'
<1> USE FileAssumption, HandleFacts
<1> DEFINE o == call[u].obj
           d == tmp[u]
           l == IF call[u].what = "open" \/ d = Invalid THEN "idle" ELSE call[u].what
<1>1. /\ UNCHANGED <<entry, content, short, removes, leaked>>
      /\ file' = CloseHandle(h[o])
      /\ h' = [h EXCEPT ![o] = d]
      /\ size' = [size EXCEPT ![o] = n]
      /\ tmp' = [tmp EXCEPT ![u] = Invalid]
      /\ result' = [result EXCEPT ![u] = <<>>]
      /\ pc' = [pc EXCEPT ![u] = l]
      /\ call' = [call EXCEPT ![u] = NoCall(u)]
  BY DEF Assign, Goto, fsVars
<1>2. /\ o \in Object /\ Owner[o] = u /\ d \in Handle \cup {Invalid}
      /\ l \in {"idle", "rewrite", "read_all"}
      /\ l # "idle" => o = Temp[u] /\ d # Invalid
      /\ l = "rewrite" => call[u].mode = "trunc" /\ u \in Writer
  BY DEF IInv, TypeOK, CallsFit, CallFits
<1>3. d = Invalid => tmp' = tmp
  BY <1>1 DEF IInv, TypeOK
<1>4. /\ Handles'
      /\ file' \in [Handle -> [inode : Inode \cup {NoInode}, pos : Nat,
                               access : {"read", "write", "none"}]]
      /\ \A e \in Handle : e # h[o] => file'[e] = file[e]
  <2>1. tmp' = IF d = Invalid THEN tmp ELSE [tmp EXCEPT ![u] = Invalid]
    BY <1>1, <1>3
  <2>2. QED
    BY <1>1, <1>2, <2>1, ReplacedHandles, ZenonT(60) DEF IInv
<1>5. NoCall(u) \in [mode : Mode, obj : Object, what : {"open", "rewrite", "read_all"}]
  BY DEF NoCall, Mode
<1>6. <<>> \in Seq(Byte)
  BY EmptySeq
<1> HIDE DEF l
<1>7. TypeOK'
  BY <1>1, <1>2, <1>4, <1>5, <1>6 DEF IInv, TypeOK
<1>8. /\ pc'[u] = l /\ call'[u] = NoCall(u) /\ tmp'[u] = Invalid /\ result'[u] = <<>>
      /\ h'[o] = d /\ \A p \in Object : p # o => h'[p] = h[p]
      /\ \A t \in Thread : t # u =>
           /\ pc'[t] = pc[t] /\ call'[t] = call[t] /\ tmp'[t] = tmp[t]
           /\ result'[t] = result[t]
  BY <1>1, <1>2 DEF IInv, TypeOK
<1>9. \A t \in Thread : t # u => Temp[t] # o /\ h'[Temp[t]] = h[Temp[t]]
  BY <1>2, <1>8
<1>10. CallsFit'
  <2>1. ASSUME NEW t \in Thread, t # u PROVE CallFits(t)'
    BY <1>8, <1>9, <2>1, CallKept
  <2>2. CallFits(u)'
    BY <1>2, <1>8 DEF CallFits, NoCall, InCall, AtWork
  <2>3. QED
    BY <2>1, <2>2 DEF CallsFit
<1>11. ReadersRead'
  <2>1. ASSUME NEW p \in Object, h'[p] # Invalid, Owner[p] \notin Writer
        PROVE  file'[h'[p]].access = "read"
    <3>1. CASE p = o
      <4>1. d \in Handle /\ d # h[o] /\ h'[p] = d /\ u \notin Writer
        BY <1>2, <1>8, <2>1, <3>1 DEF IInv, Handles, HoldersAreAlone
      <4>2. QED
        BY <1>4, <4>1, ZenonT(60) DEF IInv, ReadersRead
    <3>2. CASE p # o
      <4>1. h'[p] = h[p] /\ h[p] \in Handle /\ h[p] # h[o]
        BY <1>2, <1>8, <2>1, <3>2, ZenonT(60) DEF IInv, TypeOK, Handles, HoldersAreAlone
      <4>2. QED
        <5>1. file'[h[p]] = file[h[p]]
          BY <1>4, <4>1
        <5>2. file[h[p]].access = "read"
          BY <2>1, <4>1 DEF IInv, ReadersRead
        <5>3. QED
          BY <4>1, <5>1, <5>2
    <3>3. QED
      BY <3>1, <3>2
  <2>2. ASSUME NEW t \in Thread, tmp'[t] # Invalid, t \notin Writer
        PROVE  file'[tmp'[t]].access = "read"
    <3>1. t # u /\ tmp'[t] = tmp[t]
      BY <1>8, <2>2
    <3>2. tmp[t] \in Handle /\ tmp[t] # h[o]
      BY <1>2, <2>2, <3>1 DEF IInv, TypeOK, Handles, HoldersAreAlone
    <3>3. file'[tmp[t]] = file[tmp[t]]
      BY <1>4, <3>2
    <3>4. file[tmp[t]].access = "read"
      BY <2>2, <3>1 DEF IInv, ReadersRead
    <3>5. QED
      BY <3>1, <3>3, <3>4
  <2>3. QED
    BY <2>1, <2>2 DEF ReadersRead
<1>12. ASSUME NEW t \in Thread, Writer \subseteq {t} PROVE Whole(t)'
  <2>1. CASE t # u
    <3>1. h[o] # Invalid => h[o] # h[Temp[t]] /\ h[o] # tmp[t]
      BY <1>2, <2>1, OthersApart
    <3>2. /\ pc'[t] = pc[t] /\ call'[t] = call[t] /\ tmp'[t] = tmp[t]
          /\ result'[t] = result[t] /\ h'[Temp[t]] = h[Temp[t]]
      BY <1>8, <1>9, <2>1
    <3>3. UNCHANGED <<content, short>> /\ \A e \in Handle : e # h[o] => file'[e] = file[e]
      BY <1>1, <1>4
    <3>4. QED
      BY <1>12, <3>1, <3>2, <3>3, WholeKept, ZenonT(60)
  <2>2. CASE t = u /\ l = "idle"
    BY <1>8, <2>2 DEF Whole
  <2>3. CASE t = u /\ l # "idle"
    <3>1. d \in Handle /\ d # h[o] /\ h'[Temp[u]] = d
      BY <1>2, <1>8, <2>3 DEF IInv, Handles, HoldersAreAlone
    <3>2. file'[d] = file[d] /\ file[d].pos = 0 /\ file[d].inode \in Inode
      BY <1>4, <3>1 DEF IInv, Handles, HoldersHaveOpen, OpenOrClosed
    <3>3. CASE l = "read_all"
      <4>1. content[file[d].inode] \in Seq(Byte)
        BY <3>2 DEF IInv, TypeOK
      <4>2. 0 <= Len(content[file[d].inode])
        BY <4>1, LenProperties
      <4>3. SubSeq(content[file[d].inode], 1, 0) = <<>>
        BY SubSeqEmpty
      <4>4. QED
        BY <1>1, <1>8, <2>3, <3>1, <3>2, <3>3, <4>2, <4>3, ZenonT(60) DEF Whole
    <3>4. CASE l = "rewrite"
      <4>1. pc[u] = "assign" /\ call[u].what = "rewrite"
        BY <1>2, <3>4 DEF IInv, CallsFit, CallFits, l
      <4>2. content[file[d].inode] = <<>>
        BY <1>12, <2>3, <3>1, <4>1 DEF IInv, WholeSoFar, Whole
      <4>3. QED
        BY <1>1, <1>8, <2>3, <3>1, <3>2, <3>4, <4>2 DEF Whole
    <3>5. QED
      BY <1>2, <2>3, <3>3, <3>4
  <2>4. QED
    BY <2>1, <2>2, <2>3
<1>13. QED
  BY <1>4, <1>7, <1>10, <1>11, <1>12 DEF IInv, WholeSoFar

LEMMA FileSizeIInv == ASSUME IInv, NEW u \in Thread, FileSize(u) PROVE IInv'
<1>1. CASE entry # NoInode
  <2>1. content[entry] \in Seq(Byte)
    BY <1>1 DEF IInv, TypeOK
  <2>2. Len(content[entry]) \in Nat
    BY <2>1, LenProperties
  <2>3. QED
    BY <1>1, <2>2, AssignIInv DEF FileSize
<1>2. CASE entry = NoInode
  BY <1>2, ThrowIInv DEF FileSize, InCall
<1>3. QED
  BY <1>1, <1>2

LEMMA AssignEmptyIInv == ASSUME IInv, NEW u \in Thread, AssignEmpty(u) PROVE IInv'
BY AssignIInv DEF AssignEmpty

\* As long as descriptors keep their access and their holders, readers read.
LEMMA ReadersKept ==
  ASSUME IInv, UNCHANGED <<h, tmp>>,
         \A d \in Handle : file'[d].access = file[d].access
  PROVE  ReadersRead'
<1>1. ASSUME NEW o \in Object, h[o] # Invalid, Owner[o] \notin Writer
      PROVE  file'[h[o]].access = "read"
  <2>1. h[o] \in Handle
    BY <1>1 DEF IInv, TypeOK
  <2>2. file[h[o]].access = "read"
    BY <1>1 DEF IInv, ReadersRead
  <2>3. QED
    BY <2>1, <2>2
<1>2. ASSUME NEW t \in Thread, tmp[t] # Invalid, t \notin Writer
      PROVE  file'[tmp[t]].access = "read"
  <2>1. tmp[t] \in Handle
    BY <1>2 DEF IInv, TypeOK
  <2>2. file[tmp[t]].access = "read"
    BY <1>2 DEF IInv, ReadersRead
  <2>3. QED
    BY <2>1, <2>2
<1>3. QED
  BY <1>1, <1>2 DEF ReadersRead

\* The position of an object moves: read(), set_pos() and skip().
LEMMA MovedIInv ==
  ASSUME IInv, NEW u \in Thread, NEW o \in Object, Working(u, o), NEW n \in Nat,
         file' = [file EXCEPT ![h[o]].pos = n],
         UNCHANGED <<entry, content, h, size, pc, call, tmp, result, short, removes, leaked>>
  PROVE  IInv'
<1> USE FileAssumption, HandleFacts
<1>1. /\ Handles'
      /\ file' \in [Handle -> [inode : Inode \cup {NoInode}, pos : Nat,
                               access : {"read", "write", "none"}]]
      /\ \A d \in Handle : /\ file'[d].inode = file[d].inode
                           /\ file'[d].access = file[d].access
  BY MovedHandles DEF Working, IInv
<1>2. TypeOK'
  BY <1>1 DEF IInv, TypeOK
<1>3. CallsFit'
  BY CallKept DEF CallsFit
<1>4. ReadersRead'
  BY <1>1, ReadersKept
<1>5. ASSUME NEW t \in Thread, Writer \subseteq {t} PROVE Whole(t)'
  <2>1. CASE t # u
    <3>1. h[o] # h[Temp[t]] /\ h[o] # tmp[t]
      BY <2>1, OthersApart DEF Working
    <3>2. \A e \in Handle : e # h[o] => file'[e] = file[e]
      BY DEF IInv, TypeOK
    <3>3. QED
      BY <1>5, <3>1, <3>2, WholeKept
  <2>2. CASE t = u
    BY <2>2 DEF Working, Whole
  <2>3. QED
    BY <2>1, <2>2
<1>6. QED
  BY <1>1, <1>2, <1>3, <1>4, <1>5 DEF IInv, WholeSoFar

LEMMA PositionIInv ==
  ASSUME IInv, NEW u \in Thread, NEW o \in Object,
         Read(u, o) \/ SetPos(u, o) \/ Skip(u, o)
  PROVE  IInv'
<1>1. Working(u, o)
  BY DEF Read, SetPos, Skip
<1>2. h[o] \in Handle
  BY <1>1 DEF Working, IInv, TypeOK
<1>3. file[h[o]].pos \in Nat /\ size[o] \in Nat
  BY <1>2 DEF IInv, TypeOK
<1>4. /\ UNCHANGED <<entry, content, h, size, pc, call, tmp, result, short, removes, leaked>>
      /\ \E n \in Nat : file' = [file EXCEPT ![h[o]].pos = n]
  <2>1. CASE Read(u, o)
    <3> DEFINE f == file[h[o]]
               n == Least(ChunkSize, Len(content[f.inode]) - f.pos)
    <3>1. f.inode \in Inode
      BY <1>1, <1>2, HandleFacts DEF Working, IInv, Handles, HoldersHaveOpen, OpenOrClosed
    <3>2. content[f.inode] \in Seq(Byte)
      BY <3>1 DEF IInv, TypeOK
    <3>3. Len(content[f.inode]) \in Nat
      BY <3>2, LenProperties
    <3>4. n \in Nat
      <4>1. ChunkSize \in Int /\ Len(content[f.inode]) - f.pos \in Int
        BY <1>3, <3>3, FileAssumption, SMTT(60)
      <4>2. n \in Int
        BY <4>1 DEF Least
      <4>3. n > 0
        BY <2>1 DEF Read
      <4>4. QED
        BY <4>2, <4>3
    <3>5. file' = [file EXCEPT ![h[o]].pos = f.pos + n]
      BY <2>1 DEF Read
    <3> HIDE DEF n
    <3>6. f.pos + n \in Nat
      BY <1>3, <3>4
    <3>7. QED
      BY <2>1, <3>5, <3>6 DEF Read, fsVars
  <2>2. CASE SetPos(u, o)
    <3>1. PICK p \in 0..(size[o] - 1) : file' = [file EXCEPT ![h[o]].pos = p]
      BY <2>2 DEF SetPos
    <3>2. p \in Nat
      BY <1>3
    <3>3. QED
      BY <2>2, <3>1, <3>2 DEF SetPos, fsVars
  <2>3. CASE Skip(u, o)
    <3>1. PICK n \in 0..size[o] : file' = [file EXCEPT ![h[o]].pos = file[h[o]].pos + n]
      BY <2>3 DEF Skip
    <3>2. file[h[o]].pos + n \in Nat
      BY <1>3
    <3>3. QED
      BY <2>3, <3>1, <3>2 DEF Skip, fsVars
  <2>4. QED
    BY <2>1, <2>2, <2>3
<1>5. QED
  BY <1>1, <1>4, MovedIInv

\* What ::write() does, to a descriptor of its thread.
LEMMA WriteFacts ==
  ASSUME IInv, NEW u \in Thread, NEW o \in Object, h[o] # Invalid, WriteSome(u, o),
         UNCHANGED <<h, tmp, leaked>>
  PROVE  /\ Handles'
         /\ file' \in [Handle -> [inode : Inode \cup {NoInode}, pos : Nat,
                                  access : {"read", "write", "none"}]]
         /\ \A d \in Handle : /\ file'[d].inode = file[d].inode
                              /\ file'[d].access = file[d].access
         /\ content' \in [Inode -> Seq(Byte)] /\ short' \in 0..MaxShort
         /\ \E n \in 0..Len(Data[u]) :
              /\ content' = [content EXCEPT ![file[h[o]].inode] =
                               Overwrite(@, file[h[o]].pos, Data[u], n)]
              /\ short' = 0 => n = Len(Data[u])
<1> USE FileAssumption, HandleFacts
<1> DEFINE f == file[h[o]]
<1>1. PICK n \in 0..Len(Data[u]) :
        /\ n < Len(Data[u]) => short < MaxShort
        /\ short' = IF n < Len(Data[u]) THEN short + 1 ELSE short
        /\ content' = [content EXCEPT ![f.inode] = Overwrite(@, f.pos, Data[u], n)]
        /\ file' = [file EXCEPT ![h[o]].pos = @ + n]
  BY DEF WriteSome
<1>2. Data[u] \in Seq(Byte) /\ Len(Data[u]) \in Nat /\ n \in Nat
  BY LenProperties
<1>3. h[o] \in Handle /\ f.inode \in Inode /\ f.pos \in Nat
  BY DEF IInv, TypeOK, Handles, HoldersHaveOpen, OpenOrClosed
<1>4. content[f.inode] \in Seq(Byte)
  BY <1>3 DEF IInv, TypeOK
<1>5. Overwrite(content[f.inode], f.pos, Data[u], n) \in Seq(Byte)
  BY <1>2, <1>3, <1>4, OverwriteIsBytes
<1>6. content' \in [Inode -> Seq(Byte)]
  BY <1>1, <1>3, <1>5 DEF IInv, TypeOK
<1>7. short' \in 0..MaxShort /\ (short' = 0 => n = Len(Data[u]))
  <2>1. short \in 0..MaxShort /\ MaxShort \in Nat
    BY DEF IInv, TypeOK
  <2>2. QED
    BY <1>1, <1>2, <2>1
<1>8. f.pos + n \in Nat /\ file' = [file EXCEPT ![h[o]].pos = f.pos + n]
  BY <1>1, <1>2, <1>3, SMTT(60)
<1>9. /\ Handles'
      /\ file' \in [Handle -> [inode : Inode \cup {NoInode}, pos : Nat,
                               access : {"read", "write", "none"}]]
      /\ \A d \in Handle : /\ file'[d].inode = file[d].inode
                           /\ file'[d].access = file[d].access
  <2> HIDE DEF f
  <2>1. QED
    BY <1>8, MovedHandles DEF IInv
<1>10. QED
  BY <1>1, <1>6, <1>7, <1>9

LEMMA WriteIInv ==
  ASSUME IInv, NEW u \in Thread, NEW o \in Object, Write(u, o) PROVE IInv'
<1> USE FileAssumption, HandleFacts
<1>1. /\ Working(u, o) /\ Writable(o) /\ WriteSome(u, o)
      /\ UNCHANGED <<entry, h, size, pc, call, tmp, result, removes, leaked>>
  BY DEF Write
<1>2. /\ Handles'
      /\ file' \in [Handle -> [inode : Inode \cup {NoInode}, pos : Nat,
                               access : {"read", "write", "none"}]]
      /\ \A d \in Handle : file'[d].access = file[d].access
      /\ content' \in [Inode -> Seq(Byte)] /\ short' \in 0..MaxShort
  BY <1>1, WriteFacts DEF Working
<1>3. TypeOK'
  BY <1>1, <1>2 DEF IInv, TypeOK
<1>4. CallsFit'
  BY <1>1, CallKept DEF CallsFit
<1>5. ReadersRead'
  BY <1>1, <1>2, ReadersKept
<1>6. u \in Writer
  BY <1>1 DEF Working, Writable, IInv, ReadersRead
<1>7. ASSUME NEW t \in Thread, Writer \subseteq {t} PROVE Whole(t)'
  BY <1>1, <1>6, <1>7 DEF Working, Whole
<1>8. QED
  BY <1>2, <1>3, <1>4, <1>5, <1>7 DEF IInv, WholeSoFar

\* A descriptor is closed: close(), the destructor, and the end of the local
\* object of rewrite() and read_all().
LEMMA ClosedIInv ==
  ASSUME IInv, NEW u \in Thread, NEW o \in Object, Owner[o] = u,
         pc[u] \in {"idle", "rewritten", "all_read"},
         pc' = [pc EXCEPT ![u] = "idle"],
         file' = CloseHandle(h[o]), h' = [h EXCEPT ![o] = Invalid],
         result' \in [Thread -> Seq(Byte)],
         \A t \in Thread : t # u => result'[t] = result[t],
         UNCHANGED <<entry, content, size, call, tmp, short, removes, leaked>>
  PROVE  IInv'
<1> USE FileAssumption, HandleFacts
<1>1. /\ Handles'
      /\ file' \in [Handle -> [inode : Inode \cup {NoInode}, pos : Nat,
                               access : {"read", "write", "none"}]]
      /\ \A d \in Handle : d # h[o] => file'[d] = file[d]
  BY ReplacedHandles DEF IInv
<1>3. TypeOK'
  <2>1. /\ pc \in [Thread -> {"idle", "open", "truncate", "exists", "file_size", "assign",
                              "rewrite", "rewritten", "read_all", "all_read"}]
        /\ h' \in [Object -> Handle \cup {Invalid}]
    BY DEF IInv, TypeOK
  <2>2. pc' \in [Thread -> {"idle", "open", "truncate", "exists", "file_size", "assign",
                            "rewrite", "rewritten", "read_all", "all_read"}]
    BY <2>1
  <2>3. QED
    BY <1>1, <2>1, <2>2 DEF IInv, TypeOK
<1>4. /\ pc'[u] = "idle" /\ h'[o] = Invalid
      /\ \A p \in Object : p # o => h'[p] = h[p]
      /\ \A t \in Thread : t # u => pc'[t] = pc[t] /\ result'[t] = result[t]
  BY DEF IInv, TypeOK
<1>5. \A t \in Thread : t # u => h'[Temp[t]] = h[Temp[t]]
  BY <1>4, OthersApart
<1>6. CallsFit'
  <2>1. ASSUME NEW t \in Thread, t # u PROVE CallFits(t)'
    BY <1>4, <1>5, <2>1, CallKept
  <2>2. CallFits(u)'
    BY <1>4 DEF IInv, CallsFit, CallFits, InCall, AtWork
  <2>3. QED
    BY <2>1, <2>2 DEF CallsFit
<1>7. ReadersRead'
  <2>1. ASSUME NEW p \in Object, h'[p] # Invalid, Owner[p] \notin Writer
        PROVE  file'[h'[p]].access = "read"
    <3>1. p # o /\ h'[p] = h[p] /\ h[p] # Invalid
      BY <1>4, <2>1
    <3>2. h[p] \in Handle /\ h[p] # h[o]
      BY <3>1 DEF IInv, TypeOK, Handles, HoldersAreAlone
    <3>3. file[h[p]].access = "read"
      BY <2>1, <3>1 DEF IInv, ReadersRead
    <3>4. QED
      BY <1>1, <3>1, <3>2, <3>3
  <2>2. ASSUME NEW t \in Thread, tmp[t] # Invalid, t \notin Writer
        PROVE  file'[tmp[t]].access = "read"
    <3>1. tmp[t] \in Handle /\ tmp[t] # h[o]
      BY <2>2 DEF IInv, TypeOK, Handles, HoldersAreAlone
    <3>2. QED
      BY <1>1, <2>2, <3>1 DEF IInv, ReadersRead
  <2>3. QED
    BY <2>1, <2>2 DEF ReadersRead
<1>8. ASSUME NEW t \in Thread, Writer \subseteq {t} PROVE Whole(t)'
  <2>1. CASE t # u
    <3>1. h[o] # Invalid => h[o] # h[Temp[t]] /\ h[o] # tmp[t]
      BY <2>1, OthersApart
    <3>2. /\ pc'[t] = pc[t] /\ call'[t] = call[t] /\ tmp'[t] = tmp[t]
          /\ result'[t] = result[t] /\ h'[Temp[t]] = h[Temp[t]]
      BY <1>4, <1>5, <2>1
    <3> DEFINE d == h[o]
    <3>3. /\ \A e \in Handle : e # d => file'[e] = file[e]
          /\ d # Invalid => d # h[Temp[t]] /\ d # tmp[t]
      BY <1>1, <3>1
    <3> HIDE DEF d
    <3>4. QED
      BY <1>8, <3>2, <3>3, WholeKept, ZenonT(60)
  <2>2. CASE t = u
    BY <1>4, <2>2 DEF Whole
  <2>3. QED
    BY <2>1, <2>2
<1>9. QED
  BY <1>1, <1>3, <1>6, <1>7, <1>8 DEF IInv, WholeSoFar

LEMMA CloseIInv ==
  ASSUME IInv, NEW u \in Thread, NEW o \in Object, Close(u, o) PROVE IInv'
<1>1. pc' = [pc EXCEPT ![u] = "idle"] /\ result' \in [Thread -> Seq(Byte)]
  BY DEF Close, Working, IInv, TypeOK
<1>2. QED
  BY <1>1, ClosedIInv DEF Close, Working, fsVars

LEMMA ReturnIInv == ASSUME IInv, NEW u \in Thread, Return(u) PROVE IInv'
<1>1. <<>> \in Seq(Byte)
  BY EmptySeq
<1>2. /\ result' \in [Thread -> Seq(Byte)]
      /\ \A t \in Thread : t # u => result'[t] = result[t]
  BY <1>1 DEF Return, IInv, TypeOK
<1>3. Temp[u] \in Object /\ Owner[Temp[u]] = u
  BY FileAssumption
<1>4. QED
  BY <1>2, <1>3, ClosedIInv DEF Return, Goto, fsVars

LEMMA MoveIInv ==
  ASSUME IInv, NEW u \in Thread, NEW o \in Object, NEW p \in Object, Move(u, o, p)
  PROVE  IInv'
<1> USE FileAssumption, HandleFacts
<1>1. /\ UNCHANGED <<entry, content, pc, call, tmp, result, short, removes, leaked>>
      /\ pc[u] = "idle" /\ Owner[o] = u /\ Owner[p] = u /\ o # p /\ h[o] # Invalid
      /\ Temp[u] \notin {o, p}
      /\ file' = CloseHandle(h[p])
      /\ h' = [h EXCEPT ![p] = h[o], ![o] = Invalid]
      /\ size' = [size EXCEPT ![p] = size[o], ![o] = 0]
  BY DEF Move, Working, fsVars
<1>2. /\ Handles'
      /\ file' \in [Handle -> [inode : Inode \cup {NoInode}, pos : Nat,
                               access : {"read", "write", "none"}]]
      /\ \A d \in Handle : d # h[p] => file'[d] = file[d]
  BY <1>1, GivenAwayHandles DEF IInv
<1>3. TypeOK'
  <2>1. h' \in [Object -> Handle \cup {Invalid}] /\ size' \in [Object -> Nat]
    BY <1>1 DEF IInv, TypeOK
  <2>2. QED
    BY <1>1, <1>2, <2>1 DEF IInv, TypeOK
<1>4. \A q \in Object : h'[q] = IF q = o THEN Invalid ELSE IF q = p THEN h[o] ELSE h[q]
  BY <1>1 DEF IInv, TypeOK
<1>5. ASSUME NEW t \in Thread PROVE h'[Temp[t]] = h[Temp[t]]
  <2>1. Temp[t] \in Object /\ Temp[t] \notin {o, p}
    <3>1. Temp[t] \in Object /\ Owner[Temp[t]] = t
      OBVIOUS
    <3>2. QED
      BY <1>1, <3>1
  <2>2. QED
    BY <1>4, <2>1
<1>6. CallsFit'
  BY <1>1, <1>5, CallKept DEF CallsFit
<1>7. ReadersRead'
  <2>1. ASSUME NEW q \in Object, h'[q] # Invalid, Owner[q] \notin Writer
        PROVE  file'[h'[q]].access = "read"
    <3>1. PICK r \in Object : h'[q] = h[r] /\ r # p /\ Owner[r] = Owner[q]
      BY <1>1, <1>4, <2>1
    <3>2. h[r] \in Handle /\ h[r] # h[p]
      BY <2>1, <3>1 DEF IInv, TypeOK, Handles, HoldersAreAlone
    <3>3. file[h[r]].access = "read"
      BY <2>1, <3>1 DEF IInv, ReadersRead
    <3>4. QED
      BY <1>2, <3>1, <3>2, <3>3
  <2>2. ASSUME NEW t \in Thread, tmp[t] # Invalid, t \notin Writer
        PROVE  file'[tmp[t]].access = "read"
    <3>1. tmp[t] \in Handle /\ tmp[t] # h[p]
      BY <2>2 DEF IInv, TypeOK, Handles, HoldersAreAlone
    <3>2. QED
      BY <1>2, <2>2, <3>1 DEF IInv, ReadersRead
  <2>3. QED
    BY <1>1, <2>1, <2>2 DEF ReadersRead
<1>8. ASSUME NEW t \in Thread, Writer \subseteq {t} PROVE Whole(t)'
  <2>1. CASE t # u
    <3>1. h[p] # Invalid => h[p] # h[Temp[t]] /\ h[p] # tmp[t]
      BY <1>1, <2>1, OthersApart
    <3>2. QED
      BY <1>1, <1>2, <1>5, <1>8, <3>1, WholeKept
  <2>2. CASE t = u
    BY <1>1, <2>2 DEF Whole
  <2>3. QED
    BY <2>1, <2>2
<1>9. QED
  BY <1>2, <1>3, <1>6, <1>7, <1>8 DEF IInv, WholeSoFar

LEMMA RewriteWriteIInv == ASSUME IInv, NEW u \in Thread, RewriteWrite(u) PROVE IInv'
<1> USE FileAssumption, HandleFacts
<1> DEFINE o == Temp[u]
           i == file[h[o]].inode
<1>1. /\ pc[u] = "rewrite" /\ WriteSome(u, o) /\ pc' = [pc EXCEPT ![u] = "rewritten"]
      /\ UNCHANGED <<entry, h, size, call, tmp, result, removes, leaked>>
  BY DEF RewriteWrite, Goto
<1>2. o \in Object /\ h[o] # Invalid /\ u \in Writer
  BY <1>1 DEF IInv, CallsFit, CallFits, AtWork
<1>3. /\ Handles'
      /\ file' \in [Handle -> [inode : Inode \cup {NoInode}, pos : Nat,
                               access : {"read", "write", "none"}]]
      /\ \A d \in Handle : /\ file'[d].inode = file[d].inode
                           /\ file'[d].access = file[d].access
      /\ content' \in [Inode -> Seq(Byte)] /\ short' \in 0..MaxShort
      /\ \E n \in 0..Len(Data[u]) :
           /\ content' = [content EXCEPT ![i] = Overwrite(@, file[h[o]].pos, Data[u], n)]
           /\ short' = 0 => n = Len(Data[u])
  BY <1>1, <1>2, WriteFacts
<1>4. TypeOK'
  BY <1>1, <1>3 DEF IInv, TypeOK
<1>5. pc'[u] = "rewritten" /\ \A t \in Thread : t # u => pc'[t] = pc[t]
  BY <1>1 DEF IInv, TypeOK
<1>6. CallsFit'
  <2>1. ASSUME NEW t \in Thread, t # u PROVE CallFits(t)'
    BY <1>1, <1>5, <2>1, CallKept
  <2>2. CallFits(u)'
    BY <1>1, <1>2, <1>5 DEF IInv, CallsFit, CallFits, InCall, AtWork
  <2>3. QED
    BY <2>1, <2>2 DEF CallsFit
<1>7. ReadersRead'
  BY <1>1, <1>3, ReadersKept
<1>8. ASSUME NEW t \in Thread, Writer \subseteq {t} PROVE Whole(t)'
  <2>1. t = u
    BY <1>2, <1>8
  <2>2. content[i] = <<>> /\ file[h[o]].pos = 0
    BY <1>1, <1>8, <2>1 DEF IInv, WholeSoFar, Whole
  <2>3. h[o] \in Handle /\ i \in Inode
    BY <1>2 DEF IInv, TypeOK, Handles, HoldersHaveOpen, OpenOrClosed
  <2>4. PICK n \in 0..Len(Data[u]) :
          /\ content' = [content EXCEPT ![i] = Overwrite(@, file[h[o]].pos, Data[u], n)]
          /\ short' = 0 => n = Len(Data[u])
    BY <1>3
  <2>5. content'[i] = Overwrite(<<>>, 0, Data[u], n)
    BY <2>2, <2>3, <2>4 DEF IInv, TypeOK
  <2>6. Data[u] \in Seq(Byte)
    OBVIOUS
  <2>7. content'[i] = SubSeq(Data[u], 1, n)
    BY <2>5, <2>6, OverwriteEmpty
  <2>8. SubSeq(Data[u], 1, Len(Data[u])) = Data[u]
    BY <2>6, SubSeqFull
  <2>9. h'[Temp[u]] = h[o] /\ file'[h[o]].inode = i
    BY <1>1, <1>3, <2>3
  <2> HIDE DEF o, i
  <2>10. (\E k \in 0..Len(Data[u]) : content'[i] = SubSeq(Data[u], 1, k))
         /\ (short' = 0 => content'[i] = Data[u])
    BY <2>4, <2>7, <2>8
  <2>11. QED
    BY <1>5, <2>1, <2>9, <2>10 DEF Whole
<1>9. QED
  BY <1>3, <1>4, <1>6, <1>7, <1>8 DEF IInv, WholeSoFar

LEMMA ReadAllChunkIInv == ASSUME IInv, NEW u \in Thread, ReadAllChunk(u) PROVE IInv'
<1> USE FileAssumption, HandleFacts
<1> DEFINE o == Temp[u]
           f == file[h[o]]
           bytes == content[f.inode]
           n == Least(ChunkSize, Len(bytes) - f.pos)
<1>1. pc[u] = "read_all" /\ UNCHANGED <<entry, content, h, size, call, tmp, short, removes, leaked>>
  BY DEF ReadAllChunk, fsVars
<1>2. o \in Object /\ Owner[o] = u /\ h[o] # Invalid /\ h[o] \in Handle
  BY <1>1 DEF IInv, TypeOK, CallsFit, CallFits, AtWork
<1>3. f.inode \in Inode /\ f.pos \in Nat
  BY <1>2 DEF IInv, TypeOK, Handles, HoldersHaveOpen, OpenOrClosed
<1>4. bytes \in Seq(Byte) /\ Len(bytes) \in Nat
  <2>1. bytes \in Seq(Byte)
    BY <1>3 DEF IInv, TypeOK
  <2>2. QED
    BY <2>1, LenProperties
<1>5. n \in Int /\ n <= Len(bytes) - f.pos /\ (n <= 0 => Len(bytes) - f.pos <= 0)
  <2>1. ChunkSize \in Int /\ ChunkSize > 0
    OBVIOUS
  <2> DEFINE rest == Len(bytes) - f.pos
  <2>2. rest \in Int
    BY <1>3, <1>4
  <2> HIDE DEF rest
  <2>3. \A r \in Int : LET k == Least(ChunkSize, r)
                       IN  k \in Int /\ k <= r /\ (k <= 0 => r <= 0)
    BY <2>1 DEF Least
  <2>4. n = Least(ChunkSize, rest)
    BY DEF rest
  <2>5. QED
    BY <2>2, <2>3, <2>4 DEF rest
<1>6. Writer \subseteq {u} => f.pos <= Len(bytes) /\ result[u] = SubSeq(bytes, 1, f.pos)
  BY <1>1 DEF IInv, WholeSoFar, Whole
<1>7. CASE n > 0 /\ UNCHANGED pc
           /\ result' = [result EXCEPT ![u] = @ \o SubSeq(bytes, f.pos + 1, f.pos + n)]
           /\ file' = [file EXCEPT ![h[o]].pos = @ + n]
  <2> DEFINE q == f.pos + n
             chunk == SubSeq(bytes, f.pos + 1, q)
  <2>1. q \in Nat /\ f.pos < q /\ q <= Len(bytes)
    <3>1. n > 0
      BY <1>7
    <3> HIDE DEF n, bytes, f
    <3>2. QED
      BY <1>3, <1>4, <1>5, <3>1
  <2>2. chunk \in Seq(Byte)
    <3>1. \A k \in f.pos + 1 .. q : bytes[k] \in Byte
      BY <1>3, <1>4, <2>1, ElementOfSeq, SMTT(60)
    <3>2. f.pos + 1 \in Int /\ q \in Int
      BY <1>3, <2>1
    <3> HIDE DEF f, bytes, q
    <3>3. QED
      BY <3>1, <3>2, SubSeqProperties
  <2>3. result[u] \in Seq(Byte)
    BY DEF IInv, TypeOK
  <2>4. result[u] \o chunk \in Seq(Byte)
    BY <2>2, <2>3, ConcatProperties
  <2>5. result' = [result EXCEPT ![u] = result[u] \o chunk]
    BY <1>7
  <2>6. file' = [file EXCEPT ![h[o]].pos = q]
    BY <1>7
  <2>7. Writer \subseteq {u} => result[u] \o chunk = SubSeq(bytes, 1, q)
    <3>1. ASSUME f.pos <= Len(bytes)
          PROVE  SubSeq(bytes, 1, f.pos) \o chunk = SubSeq(bytes, 1, q)
      <4>1. /\ 1 \in 1 .. Len(bytes) + 1
            /\ f.pos \in 1 - 1 .. Len(bytes)
            /\ q \in f.pos .. Len(bytes)
        BY <1>3, <1>4, <2>1, <3>1
      <4> HIDE DEF f, bytes, q
      <4>2. QED
        BY <1>4, <4>1, ConcatAdjacentSubSeq
    <3>2. QED
      BY <1>6, <3>1
  <2> HIDE DEF f, bytes, n, q, chunk
  <2>8. /\ Handles'
        /\ file' \in [Handle -> [inode : Inode \cup {NoInode}, pos : Nat,
                                 access : {"read", "write", "none"}]]
        /\ \A d \in Handle : /\ file'[d].inode = file[d].inode
                             /\ file'[d].access = file[d].access
    BY <1>1, <1>2, <2>1, <2>6, MovedHandles DEF IInv
  <2>9. TypeOK'
    <3>1. result' \in [Thread -> Seq(Byte)]
      BY <2>4, <2>5 DEF IInv, TypeOK
    <3>2. QED
      BY <1>1, <1>7, <2>8, <3>1 DEF IInv, TypeOK
  <2>10. CallsFit'
    BY <1>1, <1>7, CallKept DEF CallsFit
  <2>11. ReadersRead'
    BY <1>1, <2>8, ReadersKept
  <2>12. ASSUME NEW t \in Thread, Writer \subseteq {t} PROVE Whole(t)'
    <3>1. CASE t # u
      <4>1. h[o] # h[Temp[t]] /\ h[o] # tmp[t]
        BY <1>2, <3>1, OthersApart
      <4>2. \A e \in Handle : e # h[o] => file'[e] = file[e]
        BY <1>2, <2>6 DEF IInv, TypeOK
      <4>3. result'[t] = result[t]
        BY <2>5, <3>1 DEF IInv, TypeOK
      <4>4. QED
        BY <1>1, <1>7, <2>12, <4>1, <4>2, <4>3, WholeKept
    <3>2. CASE t = u
      <4>1. file'[h[o]].pos = q /\ file'[h[o]].inode = f.inode
        BY <1>2, <2>6, <2>8 DEF IInv, TypeOK, f
      <4>2. result'[u] = SubSeq(bytes, 1, q)
        BY <2>5, <2>7, <2>12, <3>2 DEF IInv, TypeOK
      <4>3. QED
        BY <1>1, <1>7, <2>1, <3>2, <4>1, <4>2 DEF Whole, bytes
    <3>3. QED
      BY <3>1, <3>2
  <2>13. QED
    BY <2>8, <2>9, <2>10, <2>11, <2>12 DEF IInv, WholeSoFar
<1>8. CASE n <= 0 /\ Goto(u, "all_read") /\ UNCHANGED <<result, file>>
  <2>1. pc' = [pc EXCEPT ![u] = "all_read"] /\ UNCHANGED <<result, file>>
    BY <1>8 DEF Goto
  <2>2. TypeOK'
    BY <1>1, <2>1 DEF IInv, TypeOK
  <2>3. Handles'
    BY <1>1, <2>1 DEF IInv, Handles, OpenOrClosed, HoldersHaveOpen, HoldersAreAlone, OpenIsHeld
  <2>4. pc'[u] = "all_read" /\ \A t \in Thread : t # u => pc'[t] = pc[t]
    BY <2>1 DEF IInv, TypeOK
  <2>5. CallsFit'
    <3>1. ASSUME NEW t \in Thread, t # u PROVE CallFits(t)'
      BY <1>1, <2>4, <3>1, CallKept
    <3>2. CallFits(u)'
      BY <1>1, <1>2, <2>4 DEF IInv, CallsFit, CallFits, InCall, AtWork
    <3>3. QED
      BY <3>1, <3>2 DEF CallsFit
  <2>6. ReadersRead'
    BY <1>1, <2>1, ReadersKept
  <2>7. ASSUME NEW t \in Thread, Writer \subseteq {t} PROVE Whole(t)'
    <3>1. CASE t # u
      BY <1>1, <2>1, <2>4, <2>7, <3>1, WholeKept
    <3>2. CASE t = u
      <4>1. f.pos = Len(bytes) /\ result[u] = SubSeq(bytes, 1, f.pos)
        <5>1. Writer \subseteq {u} /\ n <= 0
          BY <1>8, <2>7, <3>2
        <5>2. f.pos <= Len(bytes) /\ result[u] = SubSeq(bytes, 1, f.pos)
          BY <1>6, <5>1
        <5>3. Len(bytes) - f.pos <= 0
          BY <1>5, <5>1
        <5> HIDE DEF n, bytes, f
        <5>4. f.pos = Len(bytes)
          BY <1>3, <1>4, <5>2, <5>3
        <5>5. QED
          BY <5>2, <5>4
      <4>2. SubSeq(bytes, 1, Len(bytes)) = bytes
        BY <1>4, SubSeqFull
      <4>3. result[u] = bytes
        BY <4>1, <4>2
      <4>4. QED
        BY <1>1, <2>1, <2>4, <3>2, <4>3 DEF Whole
    <3>3. QED
      BY <3>1, <3>2
  <2>8. QED
    BY <2>2, <2>3, <2>5, <2>6, <2>7 DEF IInv, WholeSoFar
<1>9. QED
  BY <1>7, <1>8 DEF ReadAllChunk

\* Another process removes the path, or nothing happens.
LEMMA QuietIInv ==
  ASSUME IInv, entry' \in {entry, NoInode}, removes' \in 0..MaxRemove,
         UNCHANGED <<content, file, h, size, pc, call, tmp, result, short, leaked>>
  PROVE  IInv'
<1>1. TypeOK'
  BY DEF IInv, TypeOK
<1>2. Handles'
  BY DEF IInv, Handles, OpenOrClosed, HoldersHaveOpen, HoldersAreAlone, OpenIsHeld
<1>3. CallsFit' /\ ReadersRead'
  BY CallKept, ReadersKept DEF CallsFit
<1>4. WholeSoFar'
  BY DEF IInv, WholeSoFar, Whole
<1>5. QED
  BY <1>1, <1>2, <1>3, <1>4 DEF IInv

LEMMA RemoveIInv == ASSUME IInv, Remove PROVE IInv'
<1>1. removes' \in 0..MaxRemove
  BY FileAssumption DEF Remove, IInv, TypeOK
<1>2. QED
  BY <1>1, QuietIInv DEF Remove

LEMMA NextIInv == IInv /\ [Next]_vars => IInv'
<1> SUFFICES ASSUME IInv, [Next]_vars PROVE IInv'
  OBVIOUS
<1>1. ASSUME NEW t \in Thread,
             \/ Begin(t) \/ OpenFile(t) \/ OpenFails(t) \/ Truncate(t)
             \/ SizeExists(t) \/ FileSize(t) \/ AssignEmpty(t)
             \/ RewriteWrite(t) \/ ReadAllChunk(t) \/ Return(t)
      PROVE  IInv'
  BY <1>1, BeginIInv, OpenFileIInv, OpenFailsIInv, TruncateIInv, SizeExistsIInv,
     FileSizeIInv, AssignEmptyIInv, RewriteWriteIInv, ReadAllChunkIInv, ReturnIInv
<1>2. ASSUME NEW t \in Thread, NEW o \in Object,
             \/ Write(t, o) \/ Read(t, o) \/ SetPos(t, o) \/ Skip(t, o) \/ Close(t, o)
             \/ \E p \in Object : Move(t, o, p)
      PROVE  IInv'
  BY <1>2, WriteIInv, PositionIInv, CloseIInv, MoveIInv
<1>3. CASE UNCHANGED vars
  <2>1. removes' \in 0..MaxRemove
    BY <1>3 DEF vars, fsVars, IInv, TypeOK
  <2>2. QED
    BY <1>3, <2>1, QuietIInv DEF vars, fsVars
<1>4. QED
  BY <1>1, <1>2, <1>3, RemoveIInv DEF Next

LEMMA AlwaysIInv == Spec => []IInv
BY InitIInv, NextIInv, PTL DEF Spec
-----------------------------------------------------------------------------
(* What the runs check on a small instance.                                *)

\* Every variable keeps its type, and no file object has a position below 0.
THEOREM TypeCorrect == Spec => []TypeOK
<1>1. IInv => TypeOK
  BY DEF IInv
<1>2. QED
  BY <1>1, AlwaysIInv, PTL

\* However many threads open, move and close objects of their own while the path
\* comes and goes, every open descriptor has exactly one owner that will close
\* it, unless an exception of an open function lost it.
THEOREM HandlesOwned == Spec => []HandlesAreOwned
<1>1. ASSUME IInv, NEW d \in Handle
      PROVE  Cardinality(OwnersOf(d)) = IF file[d] # Closed /\ d \notin leaked THEN 1 ELSE 0
  <2>1. d # Invalid
    BY HandleFacts
  <2>2. CASE file[d] # Closed /\ d \notin leaked
    <3>1. CASE \E o \in Object : h[o] = d
      <4>1. PICK o \in Object : h[o] = d
        BY <3>1
      <4>2. \A p \in Object : h[p] = d => p = o
        BY <1>1, <2>1, <4>1 DEF IInv, Handles, HoldersAreAlone
      <4>3. \A t \in Thread : tmp[t] # d
        BY <1>1, <2>1, <4>1 DEF IInv, Handles, HoldersAreAlone
      <4>4. OwnersOf(d) = {o}
        BY <4>1, <4>2, <4>3 DEF OwnersOf
      <4>5. QED
        BY <2>2, <4>4, FS_Singleton
    <3>2. CASE \E t \in Thread : tmp[t] = d
      <4>1. PICK t \in Thread : tmp[t] = d
        BY <3>2
      <4>2. \A s \in Thread : tmp[s] = d => s = t
        BY <1>1, <2>1, <4>1 DEF IInv, Handles, HoldersAreAlone
      <4>3. \A o \in Object : h[o] # d
        BY <1>1, <2>1, <4>1 DEF IInv, Handles, HoldersAreAlone
      <4>4. OwnersOf(d) = {t}
        BY <4>1, <4>2, <4>3 DEF OwnersOf
      <4>5. QED
        BY <2>2, <4>4, FS_Singleton
    <3>3. QED
      BY <1>1, <2>2, <3>1, <3>2 DEF IInv, Handles, OpenIsHeld
  <2>3. CASE ~(file[d] # Closed /\ d \notin leaked)
    <3>1. /\ \A o \in Object : h[o] # d
          /\ \A t \in Thread : tmp[t] # d
      BY <1>1, <2>1, <2>3 DEF IInv, Handles, HoldersHaveOpen
    <3>2. OwnersOf(d) = {}
      BY <3>1 DEF OwnersOf
    <3>3. QED
      BY <2>3, <3>2, FS_EmptySet
  <2>4. QED
    BY <2>2, <2>3
<1>2. IInv => HandlesAreOwned
  BY <1>1 DEF HandlesAreOwned
<1>3. QED
  BY <1>2, AlwaysIInv, PTL

\* A call of rewrite() or read_all(path) by the only thread that writes leaves,
\* or returns, the whole of the data, whatever the sizes of data and chunks, and
\* even if the path is removed on the way.
THEOREM WholeContent == Spec => []ContentIsWhole
<1>1. IInv => ContentIsWhole
  BY DEF IInv, WholeSoFar, Whole, ContentIsWhole, RewriteIsWhole, ReadAllIsWhole, FileOf
<1>2. QED
  BY <1>1, AlwaysIInv, PTL
=============================================================================
