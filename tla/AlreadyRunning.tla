--------------------------- MODULE AlreadyRunning ---------------------------
(***************************************************************************)
(* ionik::already_running on Linux: a lock file in the temporary folder    *)
(* and flock() on it.  Every system call of the constructor and of the     *)
(* destructor is a step of its own, because the steps of two processes     *)
(* interleave.                                                             *)
(*                                                                         *)
(* An Instance is one already_running object.  All of them use the same    *)
(* unique_name, hence one path.  The directory entry of the path leads to  *)
(* a File (an inode); open() creates a new one when there is no entry,     *)
(* remove() drops the entry, and a file without an entry lives on while a  *)
(* descriptor refers to it.  flock() belongs to the file, not to the path. *)
(* The process may die before any step; the kernel then closes its         *)
(* descriptor, which releases the lock, and leaves the entry alone.        *)
(***************************************************************************)
EXTENDS Integers

CONSTANTS
  Instance,    \* the already_running objects (processes) of one unique name
  File,        \* inodes
  Graceful,    \* the instances whose destructor runs; the others (see the
               \* demo, which loops for ever) only ever end by being killed
  LowFd,       \* the instances that started with descriptor 0 closed, for
               \* which open() returns 0
  MaxCrash,    \* bound: how many instances die before they finish
  MaxOpenFail, \* bound: how many open() calls fail
  NoFile,      \* no directory entry / no open file
  NoInstance   \* no lock holder

ASSUME ConstantsAssumption ==
  /\ NoFile \notin File
  /\ NoInstance \notin Instance
  /\ Graceful \subseteq Instance
  /\ LowFd \subseteq Instance
  /\ MaxCrash \in Nat
  /\ MaxOpenFail \in Nat

VARIABLES
  entry,       \* the file the lock path leads to
  locker,      \* locker[i]: the instance with flock(LOCK_EX) on file i
  pc,          \* where each instance is in its constructor or destructor
  fd,          \* _fd of each instance
  file,        \* the file the kernel has open behind that descriptor
  crashes, openFails

vars == <<entry, locker, pc, fd, file, crashes, openFails>>

\* "out": no object.  "opened", "rejecting": in the constructor.
\* "first", "other": constructed, operator() is false / true.
\* "unlocked", "closed": in the destructor.  "destroyed": the object is gone
\* and the process still runs.
Location ==
  {"out", "opened", "rejecting", "first", "other", "unlocked", "closed",
   "destroyed"}

Init ==
  /\ entry = NoFile
  /\ locker = [i \in File |-> NoInstance]
  /\ pc = [p \in Instance |-> "out"]
  /\ fd = [p \in Instance |-> -1]
  /\ file = [p \in Instance |-> NoFile]
  /\ crashes = 0
  /\ openFails = 0
-----------------------------------------------------------------------------
Goto(p, l) == pc' = [pc EXCEPT ![p] = l]

\* An inode number the file system can hand out.
Unused(i) == i # entry /\ \A q \in Instance : file[q] # i

\* The descriptor open() returns: the lowest one that is free.
LowestFd(p) == IF p \in LowFd THEN 0 ELSE 3

\* close(): with the only descriptor of an open file goes its lock.
LockerAfterClose(p) ==
  [i \in File |-> IF locker[i] = p THEN NoInstance ELSE locker[i]]

\* Mutant: O_CREAT | O_EXCL, a lock file whose existence is the lock.
OpenExclusive(p) ==
  /\ pc[p] = "out"
  /\ \/ /\ entry = NoFile
        /\ \E i \in File :
             /\ Unused(i)
             /\ entry' = i
             /\ file' = [file EXCEPT ![p] = i]
        /\ fd' = [fd EXCEPT ![p] = LowestFd(p)]
        /\ Goto(p, "opened")
     \/ /\ entry # NoFile
        /\ Goto(p, "other")
        /\ UNCHANGED <<entry, fd, file>>
  /\ UNCHANGED <<locker, crashes, openFails>>

\* open(path, O_WRONLY | O_CREAT) finds the file or creates it.
Open(p) ==
  /\ pc[p] = "out"
  /\ \E i \in File :
       /\ IF entry = NoFile THEN Unused(i) ELSE i = entry
       /\ entry' = i
       /\ file' = [file EXCEPT ![p] = i]
  /\ fd' = [fd EXCEPT ![p] = LowestFd(p)]
  /\ Goto(p, "opened")
  /\ UNCHANGED <<locker, crashes, openFails>>

\* open() fails: throw_or(), and with a perr the object lives with _fd = -1.
OpenFails(p) ==
  /\ pc[p] = "out"
  /\ openFails < MaxOpenFail
  /\ openFails' = openFails + 1
  /\ Goto(p, "other")
  /\ UNCHANGED <<entry, locker, fd, file, crashes>>

\* Mutant: the result of flock() is not looked at.
LockIgnoringResult(p) ==
  /\ pc[p] = "opened"
  /\ locker' = [locker EXCEPT ![file[p]] = IF @ = NoInstance THEN p ELSE @]
  /\ Goto(p, "first")
  /\ UNCHANGED <<entry, fd, file, crashes, openFails>>

\* flock(LOCK_EX | LOCK_NB) succeeds.
Lock(p) ==
  /\ pc[p] = "opened"
  /\ locker[file[p]] = NoInstance
  /\ locker' = [locker EXCEPT ![file[p]] = p]
  /\ Goto(p, "first")
  /\ UNCHANGED <<entry, fd, file, crashes, openFails>>

\* flock() returns EWOULDBLOCK.
LockRefused(p) ==
  /\ pc[p] = "opened"
  /\ locker[file[p]] # NoInstance
  /\ Goto(p, "rejecting")
  /\ UNCHANGED <<entry, locker, fd, file, crashes, openFails>>

\* Mutant: _fd keeps its value.
RejectWithoutReset(p) ==
  /\ pc[p] = "rejecting"
  /\ locker' = LockerAfterClose(p)
  /\ file' = [file EXCEPT ![p] = NoFile]
  /\ Goto(p, "other")
  /\ UNCHANGED <<entry, fd, crashes, openFails>>

\* ... and the constructor closes the descriptor.
Reject(p) ==
  /\ pc[p] = "rejecting"
  /\ locker' = LockerAfterClose(p)
  /\ fd' = [fd EXCEPT ![p] = -1]
  /\ file' = [file EXCEPT ![p] = NoFile]
  /\ Goto(p, "other")
  /\ UNCHANGED <<entry, crashes, openFails>>
-----------------------------------------------------------------------------
\* Mutant: the lock is left to close().
UnlockLate(p) ==
  /\ pc[p] = "first"
  /\ p \in Graceful
  /\ fd[p] > 0
  /\ Goto(p, "unlocked")
  /\ UNCHANGED <<entry, locker, fd, file, crashes, openFails>>

\* The destructor: flock(LOCK_UN), if _fd > 0.
Unlock(p) ==
  /\ pc[p] = "first"
  /\ p \in Graceful
  /\ fd[p] > 0
  /\ locker' = [locker EXCEPT ![file[p]] = NoInstance]
  /\ Goto(p, "unlocked")
  /\ UNCHANGED <<entry, fd, file, crashes, openFails>>

Close(p) ==
  /\ pc[p] = "unlocked"
  /\ locker' = LockerAfterClose(p)
  /\ fd' = [fd EXCEPT ![p] = -1]
  /\ file' = [file EXCEPT ![p] = NoFile]
  /\ Goto(p, "closed")
  /\ UNCHANGED <<entry, crashes, openFails>>

\* fs::remove(_lock_file_path): whatever file the path leads to by now.
Remove(p) ==
  /\ pc[p] = "closed"
  /\ entry' = NoFile
  /\ Goto(p, "destroyed")
  /\ UNCHANGED <<locker, fd, file, crashes, openFails>>

\* Mutant: the destructor is empty.
DestroyNothingEver(p) ==
  /\ pc[p] \in {"first", "other"}
  /\ pc[p] = "first" => p \in Graceful
  /\ Goto(p, "destroyed")
  /\ UNCHANGED <<entry, locker, fd, file, crashes, openFails>>

\* The destructor of an instance with _fd <= 0 does nothing: one that was
\* rejected, and one whose descriptor is 0.
DestroyNothing(p) ==
  /\ pc[p] \in {"first", "other"}
  /\ pc[p] = "first" => p \in Graceful
  /\ ~(fd[p] > 0)
  /\ Goto(p, "destroyed")
  /\ UNCHANGED <<entry, locker, fd, file, crashes, openFails>>
-----------------------------------------------------------------------------
\* The kernel closes the descriptors of a process that ends.
EndOfProcess(p) ==
  /\ locker' = LockerAfterClose(p)
  /\ fd' = [fd EXCEPT ![p] = -1]
  /\ file' = [file EXCEPT ![p] = NoFile]
  /\ Goto(p, "out")
  /\ UNCHANGED entry

\* main() returns after the destructor; the program may be started again.
Exit(p) ==
  /\ pc[p] = "destroyed"
  /\ EndOfProcess(p)
  /\ UNCHANGED <<crashes, openFails>>

\* The process is killed.
Crash(p) ==
  /\ pc[p] \notin {"out", "destroyed"}
  /\ crashes < MaxCrash
  /\ crashes' = crashes + 1
  /\ EndOfProcess(p)
  /\ UNCHANGED openFails

Construct(p) == Open(p) \/ Lock(p) \/ LockRefused(p) \/ Reject(p)

Destroy(p) == Unlock(p) \/ Close(p) \/ Remove(p) \/ DestroyNothing(p)

Next ==
  \E p \in Instance :
    Construct(p) \/ OpenFails(p) \/ Destroy(p) \/ Exit(p) \/ Crash(p)

Spec == Init /\ [][Next]_vars

\* A running process goes on: its constructor and destructor do not stall,
\* it exits, and it is started again.
Fairness == \A p \in Instance : WF_vars(Construct(p) \/ Destroy(p) \/ Exit(p))

FairSpec == Spec /\ Fairness
-----------------------------------------------------------------------------
First == {p \in Instance : pc[p] = "first"}

\* The values of the variables; _fd is -1 exactly when no descriptor is open,
\* which is what the destructor and operator() go by.
TypeOK ==
  /\ entry \in File \cup {NoFile}
  /\ locker \in [File -> Instance \cup {NoInstance}]
  /\ pc \in [Instance -> Location]
  /\ fd \in [Instance -> {-1, 0, 3}]
  /\ file \in [Instance -> File \cup {NoFile}]
  /\ \A p \in Instance : fd[p] = -1 <=> file[p] = NoFile
  /\ crashes \in 0..MaxCrash
  /\ openFails \in 0..MaxOpenFail

\* An instance whose operator() says "not running yet" holds the lock of the
\* file its descriptor refers to, until its own destructor: no step of another
\* constructor, destructor or dying process takes it away.  Hence no two of
\* them share a file.
FirstHoldsLock ==
  \A p \in First : file[p] \in File /\ locker[file[p]] = p

\* A lock never outlives its owner: who holds one has the file open and is
\* the first instance or, when its descriptor is 0, an instance whose
\* destructor did nothing (already_running.cpp:71 tests _fd > 0).
NoStaleLock ==
  \A i \in File : locker[i] # NoInstance =>
    LET p == locker[i]
    IN  /\ file[p] = i
        /\ pc[p] = "first" \/ (pc[p] = "destroyed" /\ fd[p] = 0)

\* What the class is for, as the demo words it (demo/already_running/main.cpp:25,
\* "First application instance"): at most one instance is told it is the first.
MutualExclusion == \A p, q \in First : p = q

\* An instance is turned away only while another one is the first instance, so
\* that "Application already running" (main.cpp:22) is true when it is found; or
\* while one with descriptor 0, whose destructor did nothing, has not exited.
RefusedOnlyByFirst ==
  [][\A p \in Instance :
       pc[p] = "opened" /\ pc'[p] = "rejecting"
         => \E q \in Instance \ {p} :
                file[q] = file[p] /\ (q \in First \/ fd[q] = 0)]_vars

\* Whatever was killed, and whatever lock files it left behind, a program that
\* is started again and again always gets a first instance again.
FirstAgainAndAgain == []<>(First # {})

\* With no destructor ever run the lock file keeps the promise of the class.
Promise == INSTANCE SingleInstance WITH first <- First

ImplementsSingleInstance == Promise!Spec
=============================================================================
