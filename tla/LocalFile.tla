------------------------------ MODULE LocalFile ------------------------------
(***************************************************************************)
(* ionik::file<local_file_provider>: file objects over the descriptors of  *)
(* one process, used by several threads on one path, while the path may be *)
(* removed.  A thread works with file objects of its own; the descriptors  *)
(* (handles) and the files behind them are shared.                         *)
(*                                                                         *)
(* The open functions call several system calls by path, one after the     *)
(* other, so each is a step: exists, open, truncate, exists, file_size.    *)
(***************************************************************************)
EXTENDS Integers, Sequences, FiniteSets

CONSTANTS
  Thread,
  Writer,       \* the threads that open the file for writing
  Object,       \* file objects
  Owner,        \* Owner[o]: the thread that uses object o
  Temp,         \* Temp[t]: the object that is local to rewrite() and
                \* read_all(path)
  Inode,
  Byte,
  Data,         \* Data[t]: what thread t writes
  ChunkSize,    \* the buffer of read_all()
  InitialSize,  \* the initial_size an open function is given
  MaxHandle,    \* bound: descriptors open at a time
  MaxShort,     \* bound: write() calls that write less than they are given
  MaxRemove,    \* bound: removals of the path
  NoInode

ASSUME FileAssumption ==
  /\ NoInode \notin Inode
  /\ Writer \subseteq Thread
  /\ Owner \in [Object -> Thread]
  /\ Temp \in [Thread -> Object]
  /\ \A t \in Thread : Owner[Temp[t]] = t
  /\ "0" \in Byte
  /\ Data \in [Thread -> Seq(Byte)]
  /\ {ChunkSize, InitialSize, MaxHandle} \subseteq Nat \ {0}
  /\ {MaxShort, MaxRemove} \subseteq Nat

VARIABLES
  entry,        \* the inode the path leads to
  content,      \* content[i]: the bytes of inode i
  file,         \* file[h]: the inode, position and access of descriptor h
  h, size,      \* _h and _size of each object
  pc,           \* pc[t]: what thread t is doing
  call,         \* call[t]: the open function, and the object it is for
  tmp,          \* tmp[t]: the descriptor open() returned to it
  result,       \* result[t]: what read_all() has read
  short, removes,
  leaked        \* history: descriptors no object will ever close

fsVars == <<entry, content>>
vars == <<fsVars, file, h, size, pc, call, tmp, result, short, removes, leaked>>

Handle == 0..(MaxHandle - 1)
Invalid == -1
Closed == [inode |-> NoInode, pos |-> 0, access |-> "none"]
Mode == {"read", "write", "trunc", "resize"}
NoCall(t) == [mode |-> "read", obj |-> Temp[t], what |-> "open"]

Init ==
  /\ entry = NoInode
  /\ content = [i \in Inode |-> <<>>]
  /\ file = [d \in Handle |-> Closed]
  /\ h = [o \in Object |-> Invalid]
  /\ size = [o \in Object |-> 0]
  /\ pc = [t \in Thread |-> "idle"]
  /\ call = [t \in Thread |-> NoCall(t)]
  /\ tmp = [t \in Thread |-> Invalid]
  /\ result = [t \in Thread |-> <<>>]
  /\ short = 0
  /\ removes = 0
  /\ leaked = {}
-----------------------------------------------------------------------------
Goto(t, l) == pc' = [pc EXCEPT ![t] = l]
Least(a, b) == IF a < b THEN a ELSE b
AnyFree == \E d \in Handle : file[d] = Closed
LowestFree(d) == file[d] = Closed /\ \A e \in Handle : file[e] = Closed => d <= e
Unused == {i \in Inode : i # entry /\ \A d \in Handle : file[d].inode # i}

\* FileProvider::close() of a descriptor that may be invalid.
CloseHandle(d) == IF d = Invalid THEN file ELSE [file EXCEPT ![d] = Closed]

\* A thread calls one of the open functions: for an object of its own, or in
\* rewrite() ("trunc") and read_all(path) ("read") for their local one.
Begin(t) ==
  /\ pc[t] = "idle"
  /\ \/ \E o \in Object, m \in Mode :
          /\ Owner[o] = t /\ o # Temp[t]
          /\ t \in Writer \/ m = "read"
          /\ call' = [call EXCEPT ![t] = [mode |-> m, obj |-> o, what |-> "open"]]
     \/ /\ t \in Writer
        /\ call' = [call EXCEPT ![t] = [mode |-> "trunc", obj |-> Temp[t], what |-> "rewrite"]]
     \/ call' = [call EXCEPT ![t] = [mode |-> "read", obj |-> Temp[t], what |-> "read_all"]]
  /\ Goto(t, "open")
  /\ UNCHANGED <<fsVars, file, h, size, tmp, result, short, removes, leaked>>

\* O_TRUNC: truncation is on and the initial size is 0.
Truncates(m) == m = "trunc"

\* open_read_only(): exists() and ::open(); open_write_only(): ::open() with
\* O_CREAT, and O_TRUNC for truncation to an initial size of 0.
OpenFile(t) ==
  LET m == call[t].mode
  IN  /\ pc[t] = "open"
      /\ \/ m = "read" /\ entry # NoInode /\ UNCHANGED fsVars
         \/ /\ m # "read"
            /\ \E i \in IF entry = NoInode THEN Unused ELSE {entry} :
                 /\ entry' = i
                 /\ content' = IF entry = NoInode \/ Truncates(m)
                               THEN [content EXCEPT ![i] = <<>>] ELSE content
      /\ \E d \in Handle :
           /\ LowestFree(d)
           /\ tmp' = [tmp EXCEPT ![t] = d]
           /\ file' = [file EXCEPT ![d] =
                         [inode |-> entry', pos |-> 0,
                          access |-> IF m = "read" THEN "read" ELSE "write"]]
      /\ Goto(t, CASE m \in {"read", "write"} -> "exists"
                   [] m = "resize" -> "truncate"
                   [] m = "trunc" -> "assign")
      /\ UNCHANGED <<h, size, call, result, short, removes, leaked>>

\* An exception leaves the open function; the object keeps what it had, and a
\* descriptor that was open already is lost.
Throw(t) ==
  /\ leaked' = leaked \cup ({tmp[t]} \ {Invalid})
  /\ tmp' = [tmp EXCEPT ![t] = Invalid]
  /\ call' = [call EXCEPT ![t] = NoCall(t)]
  /\ Goto(t, "idle")
  /\ UNCHANGED <<file, h, size, result>>

\* No file to read, or no descriptor left.  With a perr the open function goes
\* on to the size, without one it throws.
OpenFails(t) ==
  /\ pc[t] = "open"
  /\ (call[t].mode = "read" /\ entry = NoInode) \/ ~AnyFree
  /\ \/ /\ Goto(t, IF call[t].mode \in {"read", "write"} THEN "exists" ELSE "assign")
        /\ UNCHANGED <<file, h, size, call, tmp, result, leaked>>
     \/ Throw(t)
  /\ UNCHANGED <<fsVars, short, removes>>

Resize(i) ==
  content' = [content EXCEPT ![i] =
    [k \in 1..InitialSize |-> IF k <= Len(@) THEN @[k] ELSE "0"]]

\* Mutant: the descriptor is not closed when the file cannot be resized.
TruncateNoClose(t) ==
  /\ pc[t] = "truncate"
  /\ \/ /\ entry # NoInode
        /\ Resize(entry)
        /\ UNCHANGED tmp
     \/ /\ entry = NoInode
        /\ tmp' = [tmp EXCEPT ![t] = Invalid]
        /\ UNCHANGED content
  /\ Goto(t, "assign")
  /\ UNCHANGED <<entry, file, h, size, call, result, short, removes, leaked>>

\* ::truncate(path, initial_size), of the file the path leads to by now.  When
\* there is none the descriptor is closed again, but throw_or() comes first.
Truncate(t) ==
  /\ pc[t] = "truncate"
  /\ \/ /\ entry # NoInode
        /\ Resize(entry)
        /\ Goto(t, "assign")
        /\ UNCHANGED <<file, h, size, call, tmp, result, leaked>>
     \/ /\ entry = NoInode
        /\ file' = CloseHandle(tmp[t])
        /\ tmp' = [tmp EXCEPT ![t] = Invalid]
        /\ Goto(t, "assign")
        /\ UNCHANGED <<content, h, size, call, result, leaked>>
     \/ /\ entry = NoInode
        /\ Throw(t)
        /\ UNCHANGED content
  /\ UNCHANGED <<entry, short, removes>>

\* size(path): exists().  When the path is gone and there is a perr, the size
\* is 0 and the descriptor stays.
SizeExists(t) ==
  /\ pc[t] = "exists"
  /\ \/ /\ Goto(t, IF entry # NoInode THEN "file_size" ELSE "assign")
        /\ UNCHANGED <<file, h, size, call, tmp, result, leaked>>
     \/ /\ entry = NoInode
        /\ Throw(t)
  /\ UNCHANGED <<fsVars, short, removes>>

\* Closing what the object had, and taking over the result of the open
\* function: file & operator = (file &&), or the construction of a local object.
Assign(t, d, n) ==
  LET o == call[t].obj
  IN  /\ file' = CloseHandle(h[o])
      /\ h' = [h EXCEPT ![o] = d]
      /\ size' = [size EXCEPT ![o] = n]
      /\ tmp' = [tmp EXCEPT ![t] = Invalid]
      /\ result' = [result EXCEPT ![t] = <<>>]
      /\ Goto(t, IF call[t].what = "open" \/ d = Invalid THEN "idle" ELSE call[t].what)
      /\ call' = [call EXCEPT ![t] = NoCall(t)]
      /\ UNCHANGED leaked

\* size(path): file_size(), which throws when the path is gone by now.
FileSize(t) ==
  /\ pc[t] = "file_size"
  /\ IF entry # NoInode THEN Assign(t, tmp[t], Len(content[entry])) ELSE Throw(t)
  /\ UNCHANGED <<fsVars, short, removes>>

\* The object gets the descriptor with a size of 0: a truncated file, whatever
\* its initial size, one whose path is gone, and no file at all.
AssignEmpty(t) ==
  /\ pc[t] = "assign"
  /\ Assign(t, tmp[t], 0)
  /\ UNCHANGED <<fsVars, short, removes>>
-----------------------------------------------------------------------------
(* The operations on an open object.                                       *)

Working(t, o) == pc[t] = "idle" /\ Owner[o] = t /\ h[o] # Invalid

\* read() and write() of a descriptor that is not open for it fail (EBADF).
Readable(o) == file[h[o]].access = "read"
Writable(o) == file[h[o]].access = "write"

\* The bytes of s after n bytes of d are written at position p.
Overwrite(s, p, d, n) ==
  [k \in 1..(IF p + n > Len(s) THEN p + n ELSE Len(s)) |->
     IF k > p /\ k <= p + n THEN d[k - p] ELSE IF k <= Len(s) THEN s[k] ELSE "0"]

\* ::write() takes n bytes of the data, normally all of them.
WriteSome(t, o) ==
  LET f == file[h[o]]
  IN  \E n \in 0..Len(Data[t]) :
        /\ n < Len(Data[t]) => short < MaxShort
        /\ short' = IF n < Len(Data[t]) THEN short + 1 ELSE short
        /\ content' = [content EXCEPT ![f.inode] = Overwrite(@, f.pos, Data[t], n)]
        /\ file' = [file EXCEPT ![h[o]].pos = @ + n]

Write(t, o) ==
  /\ Working(t, o) /\ Writable(o)
  /\ file[h[o]].pos = 0     \* bound: one write after each open or set_pos
  /\ WriteSome(t, o)
  /\ UNCHANGED <<entry, h, size, pc, call, tmp, result, removes, leaked>>

\* read() of at most one chunk.
Read(t, o) ==
  LET f == file[h[o]]
      n == Least(ChunkSize, Len(content[f.inode]) - f.pos)
  IN  /\ Working(t, o) /\ Readable(o)
      /\ n > 0
      /\ file' = [file EXCEPT ![h[o]].pos = @ + n]
      /\ UNCHANGED <<fsVars, h, size, pc, call, tmp, result, short, removes, leaked>>

\* set_pos() accepts what is below the size the object knows.
SetPos(t, o) ==
  /\ Working(t, o)
  /\ \E p \in 0..(size[o] - 1) : file' = [file EXCEPT ![h[o]].pos = p]
  /\ UNCHANGED <<fsVars, h, size, pc, call, tmp, result, short, removes, leaked>>

\* Mutant: the offset is subtracted.
SkipBackwards(t, o) ==
  /\ Working(t, o)
  /\ \E n \in 0..size[o] :
       /\ file[h[o]].pos - n < size[o]
       /\ file' = [file EXCEPT ![h[o]].pos = @ - n]
  /\ UNCHANGED <<fsVars, h, size, pc, call, tmp, result, short, removes, leaked>>

\* skip() is set_pos() relative to the current position.  The sum is computed
\* in the width of the file size (64 bits), which no file comes near.
Skip(t, o) ==
  /\ Working(t, o)
  /\ \E n \in 0..size[o] :
       /\ file[h[o]].pos + n < size[o]
       /\ file' = [file EXCEPT ![h[o]].pos = @ + n]
  /\ UNCHANGED <<fsVars, h, size, pc, call, tmp, result, short, removes, leaked>>

\* Mutant: _h keeps its value.
CloseKeepingHandle(t, o) ==
  /\ Working(t, o)
  /\ file' = CloseHandle(h[o])
  /\ UNCHANGED <<fsVars, h, size, pc, call, tmp, result, short, removes, leaked>>

\* close() and the destructor; _size stays.
Close(t, o) ==
  /\ Working(t, o)
  /\ file' = CloseHandle(h[o])
  /\ h' = [h EXCEPT ![o] = Invalid]
  /\ UNCHANGED <<fsVars, size, pc, call, tmp, result, short, removes, leaked>>

\* Move assignment from one object to another.
Move(t, o, p) ==
  /\ Working(t, o) /\ Owner[p] = t /\ o # p
  /\ Temp[t] \notin {o, p}
  /\ file' = CloseHandle(h[p])
  /\ h' = [h EXCEPT ![p] = h[o], ![o] = Invalid]
  /\ size' = [size EXCEPT ![p] = size[o], ![o] = 0]
  /\ UNCHANGED <<fsVars, pc, call, tmp, result, short, removes, leaked>>
-----------------------------------------------------------------------------
(* rewrite() and read_all().                                               *)

\* rewrite(): the one write(); its result is true unless write() failed.
RewriteWrite(t) ==
  /\ pc[t] = "rewrite"
  /\ WriteSome(t, Temp[t])
  /\ Goto(t, "rewritten")
  /\ UNCHANGED <<entry, h, size, call, tmp, result, removes, leaked>>

\* Mutant: a chunk that does not fill the buffer is taken for the last one
\* before it is appended.
ReadAllLosingTail(t) ==
  LET o == Temp[t]
      f == file[h[o]]
      n == Least(ChunkSize, Len(content[f.inode]) - f.pos)
  IN  /\ pc[t] = "read_all"
      /\ \/ /\ n >= ChunkSize
            /\ result' = [result EXCEPT ![t] =
                 @ \o SubSeq(content[f.inode], f.pos + 1, f.pos + n)]
            /\ file' = [file EXCEPT ![h[o]].pos = @ + n]
            /\ UNCHANGED pc
         \/ /\ n < ChunkSize
            /\ Goto(t, "all_read")
            /\ UNCHANGED <<result, file>>
      /\ UNCHANGED <<fsVars, h, size, call, tmp, short, removes, leaked>>

\* read_all(): chunk after chunk until read() returns 0.
ReadAllChunk(t) ==
  LET o == Temp[t]
      f == file[h[o]]
      n == Least(ChunkSize, Len(content[f.inode]) - f.pos)
  IN  /\ pc[t] = "read_all"
      /\ \/ /\ n > 0
            /\ result' = [result EXCEPT ![t] =
                 @ \o SubSeq(content[f.inode], f.pos + 1, f.pos + n)]
            /\ file' = [file EXCEPT ![h[o]].pos = @ + n]
            /\ UNCHANGED pc
         \/ /\ n <= 0
            /\ Goto(t, "all_read")
            /\ UNCHANGED <<result, file>>
      /\ UNCHANGED <<fsVars, h, size, call, tmp, short, removes, leaked>>

\* Both return, which destroys the local object; what was read is the caller's.
Return(t) ==
  /\ pc[t] \in {"rewritten", "all_read"}
  /\ result' = [result EXCEPT ![t] = <<>>]
  /\ file' = CloseHandle(h[Temp[t]])
  /\ h' = [h EXCEPT ![Temp[t]] = Invalid]
  /\ Goto(t, "idle")
  /\ UNCHANGED <<fsVars, size, call, tmp, short, removes, leaked>>

\* Another process removes the path.
Remove ==
  /\ entry # NoInode
  /\ removes < MaxRemove
  /\ removes' = removes + 1
  /\ entry' = NoInode
  /\ UNCHANGED <<content, file, h, size, pc, call, tmp, result, short, leaked>>

Next ==
  \/ \E t \in Thread :
       \/ Begin(t) \/ OpenFile(t) \/ OpenFails(t) \/ Truncate(t)
       \/ SizeExists(t) \/ FileSize(t) \/ AssignEmpty(t)
       \/ RewriteWrite(t) \/ ReadAllChunk(t) \/ Return(t)
       \/ \E o \in Object :
            \/ Write(t, o) \/ Read(t, o) \/ SetPos(t, o) \/ Skip(t, o) \/ Close(t, o)
            \/ \E p \in Object : Move(t, o, p)
  \/ Remove

Spec == Init /\ [][Next]_vars
-----------------------------------------------------------------------------
FileOf(o) == content[file[h[o]].inode]

\* The values of the variables.
TypeOK ==
  /\ entry \in Inode \cup {NoInode}
  /\ content \in [Inode -> Seq(Byte)]
  /\ file \in [Handle -> [inode : Inode \cup {NoInode}, pos : Nat,
                      access : {"read", "write", "none"}]]
  /\ h \in [Object -> Handle \cup {Invalid}]
  /\ size \in [Object -> Nat]
  /\ pc \in [Thread -> {"idle", "open", "truncate", "exists", "file_size", "assign",
                        "rewrite", "rewritten", "read_all", "all_read"}]
  /\ call \in [Thread -> [mode : Mode, obj : Object,
                          what : {"open", "rewrite", "read_all"}]]
  /\ tmp \in [Thread -> Handle \cup {Invalid}]
  /\ result \in [Thread -> Seq(Byte)]
  /\ short \in 0..MaxShort /\ removes \in 0..MaxRemove
  /\ leaked \subseteq Handle

OwnersOf(d) ==
  {o \in Object : h[o] = d} \cup {t \in Thread : tmp[t] = d}

\* Every open descriptor belongs to exactly one object, or to one open function
\* that is about to return it, and neither has a descriptor that is not open:
\* no descriptor is closed twice, which would close what another thread got
\* under the same number, and none is lost, except by an exception after open()
\* in the open functions (file.hpp:190-193, 209-212, local_file_provider.cpp:174).
HandlesAreOwned ==
  \A d \in Handle :
    Cardinality(OwnersOf(d)) = IF file[d] # Closed /\ d \notin leaked THEN 1 ELSE 0

\* When rewrite() returns true the file has the content of the buffer
\* (file.hpp:220-221), if no other thread writes to it and ::write() took all
\* of it: rewrite() does not look at how much that was (file.hpp:230), and after
\* a short write the file has only the beginning.
RewriteIsWhole ==
  \A t \in Thread : Writer = {t} /\ pc[t] = "rewritten" =>
    /\ \E n \in 0..Len(Data[t]) : FileOf(Temp[t]) = SubSeq(Data[t], 1, n)
    /\ (short = 0 => FileOf(Temp[t]) = Data[t])

\* What read_all(path) returns is the content of the file (file.hpp:119-121),
\* if no other thread writes to it.
ReadAllIsWhole ==
  \A t \in Thread : Writer \subseteq {t} /\ pc[t] = "all_read" => result[t] = FileOf(Temp[t])

\* The two calls that take or give a whole file do so.
ContentIsWhole == RewriteIsWhole /\ ReadAllIsWhole
=============================================================================
