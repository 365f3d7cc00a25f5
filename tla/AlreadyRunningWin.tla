------------------------- MODULE AlreadyRunningWin -------------------------
(***************************************************************************)
(* ionik::already_running on Windows: a named mutex.  The kernel object    *)
(* lives while any process has a handle to it, so that the handle a        *)
(* rejected constructor is about to close keeps it alive as well as that   *)
(* of the first instance.                                                  *)
(***************************************************************************)
EXTENDS Integers

CONSTANTS
  Instance,     \* the already_running objects (processes) of one name
  MaxCrash,     \* bound: how many processes are killed
  MaxDenied     \* bound: how many CreateMutex calls return NULL

ASSUME WinConstantsAssumption ==
  /\ MaxCrash \in Nat
  /\ MaxDenied \in Nat

VARIABLES
  pc,           \* where each instance is
  handle,       \* _mutex # nullptr: the instance has a handle to the object
  crashes, denied

vars == <<pc, handle, crashes, denied>>

Init ==
  /\ pc = [p \in Instance |-> "out"]
  /\ handle = [p \in Instance |-> FALSE]
  /\ crashes = 0
  /\ denied = 0

MutexExists == \E p \in Instance : handle[p]

Goto(p, l) == pc' = [pc EXCEPT ![p] = l]

\* CreateMutex() made the object: GetLastError() is still the 0 set before.
Create(p) ==
  /\ pc[p] = "out"
  /\ ~MutexExists
  /\ handle' = [handle EXCEPT ![p] = TRUE]
  /\ Goto(p, "first")
  /\ UNCHANGED <<crashes, denied>>

\* Mutant: ERROR_ALREADY_EXISTS is not looked at.
OpenExistingAsFirst(p) ==
  /\ pc[p] = "out"
  /\ MutexExists
  /\ handle' = [handle EXCEPT ![p] = TRUE]
  /\ Goto(p, "first")
  /\ UNCHANGED <<crashes, denied>>

\* CreateMutex() opened the existing object: ERROR_ALREADY_EXISTS.
OpenExisting(p) ==
  /\ pc[p] = "out"
  /\ MutexExists
  /\ handle' = [handle EXCEPT ![p] = TRUE]
  /\ Goto(p, "rejecting")
  /\ UNCHANGED <<crashes, denied>>

\* CreateMutex() returned NULL: throw_or(), and with a perr the object lives.
CreateFails(p) ==
  /\ pc[p] = "out"
  /\ denied < MaxDenied
  /\ denied' = denied + 1
  /\ Goto(p, "other")
  /\ UNCHANGED <<handle, crashes>>

\* Mutant: _mutex is reset and the handle is not closed.
RejectWithoutClose(p) ==
  /\ pc[p] = "rejecting"
  /\ Goto(p, "other")
  /\ UNCHANGED <<handle, crashes, denied>>

\* CloseHandle(_mutex) in the constructor.
Reject(p) ==
  /\ pc[p] = "rejecting"
  /\ handle' = [handle EXCEPT ![p] = FALSE]
  /\ Goto(p, "other")
  /\ UNCHANGED <<crashes, denied>>

\* The destructor.
Destroy(p) ==
  /\ pc[p] \in {"first", "other"}
  /\ handle' = [handle EXCEPT ![p] = FALSE]
  /\ Goto(p, "destroyed")
  /\ UNCHANGED <<crashes, denied>>

\* The process returns from main() and may be started again.
Exit(p) ==
  /\ pc[p] = "destroyed"
  /\ Goto(p, "out")
  /\ UNCHANGED <<handle, crashes, denied>>

\* The process is killed; the system closes its handles.
Crash(p) ==
  /\ pc[p] \in {"first", "rejecting", "other"}
  /\ crashes < MaxCrash
  /\ crashes' = crashes + 1
  /\ handle' = [handle EXCEPT ![p] = FALSE]
  /\ Goto(p, "out")
  /\ UNCHANGED denied

Next ==
  \E p \in Instance :
    \/ Create(p) \/ OpenExisting(p) \/ CreateFails(p) \/ Reject(p)
    \/ Destroy(p) \/ Exit(p) \/ Crash(p)

Spec == Init /\ [][Next]_vars
-----------------------------------------------------------------------------
First == {p \in Instance : pc[p] = "first"}

\* The values of the variables; a handle is open exactly in the first
\* instance and in a constructor that has not closed its duplicate yet.
TypeOK ==
  /\ pc \in [Instance -> {"out", "rejecting", "first", "other", "destroyed"}]
  /\ handle \in [Instance -> BOOLEAN]
  /\ \A p \in Instance : handle[p] <=> pc[p] \in {"first", "rejecting"}
  /\ crashes \in 0..MaxCrash
  /\ denied \in 0..MaxDenied

\* At most one instance at a time is told it is the first one, whatever
\* instances start, end or are killed in the meantime.
Promise == INSTANCE SingleInstance WITH first <- First

ImplementsSingleInstance == Promise!Spec
=============================================================================
