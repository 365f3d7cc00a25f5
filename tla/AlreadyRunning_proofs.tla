----------------------- MODULE AlreadyRunning_proofs -----------------------
(***************************************************************************)
(* What AlreadyRunning.tla claims of the Linux lock file, for any number   *)
(* of instances and files, and any number of crashes and failures.         *)
(*                                                                         *)
(* Neither FirstHoldsLock nor NoStaleLock is inductive: that a lock is not *)
(* given to a second instance, and that closing a descriptor takes no      *)
(* other lock away, needs to know in which location which instance has a   *)
(* file open, and that only "first" and "destroyed" instances hold locks.  *)
(***************************************************************************)
EXTENDS AlreadyRunning, TLAPS

\* Where an instance has the lock file open.
OpenWhere ==
  \A p \in Instance :
    /\ pc[p] \in {"opened", "rejecting", "first", "unlocked"} => file[p] \in File
    /\ pc[p] \in {"out", "other", "closed"} => file[p] = NoFile
    /\ pc[p] = "destroyed" => fd[p] # 3

\* Who can hold a lock.
LockedBy ==
  \A i \in File : locker[i] # NoInstance =>
    /\ file[locker[i]] = i
    /\ pc[locker[i]] \in {"first", "destroyed"}

IInv == TypeOK /\ OpenWhere /\ LockedBy /\ FirstHoldsLock
-----------------------------------------------------------------------------
\* A dying process, and any other step that closes the descriptor of p and
\* leads it out of "first", keeps the invariant.
LEMMA CloseKeepsIInv ==
  ASSUME NEW p \in Instance, IInv,
         NEW l \in {"out", "other", "closed"},
         locker' = LockerAfterClose(p),
         fd' = [fd EXCEPT ![p] = -1],
         file' = [file EXCEPT ![p] = NoFile],
         pc' = [pc EXCEPT ![p] = l],
         entry' = entry,
         crashes' \in 0..MaxCrash,
         openFails' = openFails
  PROVE  IInv'
<1> USE ConstantsAssumption DEF IInv
<1>1. TypeOK'
  BY DEF TypeOK, LockerAfterClose, Location
<1>2. OpenWhere'
  BY DEF TypeOK, OpenWhere
<1>3. LockedBy'
  BY DEF TypeOK, LockedBy, LockerAfterClose
<1>4. FirstHoldsLock'
  BY DEF TypeOK, FirstHoldsLock, First, LockerAfterClose, LockedBy
<1>5. QED
  BY <1>1, <1>2, <1>3, <1>4

\* The initial state has the invariant.
LEMMA InitIInv == Init => IInv
BY ConstantsAssumption
   DEF Init, IInv, TypeOK, OpenWhere, LockedBy, FirstHoldsLock, First, Location

\* Every step keeps the invariant.
LEMMA NextIInv == IInv /\ [Next]_vars => IInv'
<1> SUFFICES ASSUME IInv, [Next]_vars PROVE IInv'
  OBVIOUS
<1> USE ConstantsAssumption
<1>1. ASSUME NEW p \in Instance, Open(p) PROVE IInv'
  <2>1. PICK i \in File :
          /\ entry' = i
          /\ file' = [file EXCEPT ![p] = i]
    BY <1>1 DEF Open
  <2>2. LowestFd(p) \in {0, 3}
    BY DEF LowestFd
  <2>3. TypeOK'
    BY <1>1, <2>1, <2>2 DEF Open, Goto, IInv, TypeOK, Location
  <2>4. OpenWhere'
    BY <1>1, <2>1, <2>2 DEF Open, Goto, IInv, TypeOK, OpenWhere
  <2>5. LockedBy'
    BY <1>1, <2>1 DEF Open, Goto, IInv, TypeOK, OpenWhere, LockedBy
  <2>6. FirstHoldsLock'
    BY <1>1, <2>1 DEF Open, Goto, IInv, TypeOK, FirstHoldsLock, First
  <2>7. QED
    BY <2>3, <2>4, <2>5, <2>6 DEF IInv
<1>2. ASSUME NEW p \in Instance, OpenFails(p) PROVE IInv'
  BY <1>2 DEF OpenFails, Goto, IInv, TypeOK, OpenWhere, LockedBy, FirstHoldsLock,
              First, Location
<1>3. ASSUME NEW p \in Instance, Lock(p) PROVE IInv'
  <2>1. TypeOK'
    BY <1>3 DEF Lock, Goto, IInv, TypeOK, OpenWhere, Location
  <2>2. OpenWhere'
    BY <1>3 DEF Lock, Goto, IInv, TypeOK, OpenWhere
  <2>3. LockedBy'
    BY <1>3 DEF Lock, Goto, IInv, TypeOK, OpenWhere, LockedBy
  <2>4. FirstHoldsLock'
    BY <1>3 DEF Lock, Goto, IInv, TypeOK, OpenWhere, FirstHoldsLock, First
  <2>5. QED
    BY <2>1, <2>2, <2>3, <2>4 DEF IInv
<1>4. ASSUME NEW p \in Instance, LockRefused(p) PROVE IInv'
  BY <1>4 DEF LockRefused, Goto, IInv, TypeOK, OpenWhere, LockedBy, FirstHoldsLock,
              First, Location
<1>5. ASSUME NEW p \in Instance, Reject(p) PROVE IInv'
  BY <1>5, CloseKeepsIInv DEF Reject, Goto, IInv, TypeOK
<1>6. ASSUME NEW p \in Instance, Unlock(p) PROVE IInv'
  <2>1. TypeOK'
    BY <1>6 DEF Unlock, Goto, IInv, TypeOK, Location
  <2>2. OpenWhere'
    BY <1>6 DEF Unlock, Goto, IInv, TypeOK, OpenWhere
  <2>3. LockedBy'
    BY <1>6 DEF Unlock, Goto, IInv, TypeOK, OpenWhere, LockedBy
  <2>4. FirstHoldsLock'
    BY <1>6 DEF Unlock, Goto, IInv, TypeOK, OpenWhere, FirstHoldsLock, First
  <2>5. QED
    BY <2>1, <2>2, <2>3, <2>4 DEF IInv
<1>7. ASSUME NEW p \in Instance, Close(p) PROVE IInv'
  BY <1>7, CloseKeepsIInv DEF Close, Goto, IInv, TypeOK
<1>8. ASSUME NEW p \in Instance, Remove(p) PROVE IInv'
  BY <1>8 DEF Remove, Goto, IInv, TypeOK, OpenWhere, LockedBy, FirstHoldsLock,
              First, Location
<1>9. ASSUME NEW p \in Instance, DestroyNothing(p) PROVE IInv'
  BY <1>9 DEF DestroyNothing, Goto, IInv, TypeOK, OpenWhere, LockedBy,
              FirstHoldsLock, First, Location
<1>10. ASSUME NEW p \in Instance, Exit(p) PROVE IInv'
  BY <1>10, CloseKeepsIInv DEF Exit, EndOfProcess, Goto, IInv, TypeOK
<1>11. ASSUME NEW p \in Instance, Crash(p) PROVE IInv'
  <2>1. crashes' \in 0..MaxCrash
    BY <1>11 DEF Crash, IInv, TypeOK
  <2>2. QED
    BY <1>11, <2>1, CloseKeepsIInv DEF Crash, EndOfProcess, Goto
<1>12. CASE UNCHANGED vars
  BY <1>12 DEF vars, IInv, TypeOK, OpenWhere, LockedBy, FirstHoldsLock, First
<1>13. QED
  BY <1>1, <1>2, <1>3, <1>4, <1>5, <1>6, <1>7, <1>8, <1>9, <1>10, <1>11, <1>12
     DEF Next, Construct, Destroy

LEMMA Inductive == Spec => []IInv
BY InitIInv, NextIInv, PTL DEF Spec
-----------------------------------------------------------------------------
\* The values of the variables are as declared, and _fd is -1 exactly when no
\* descriptor is open.
THEOREM TypeCorrect == Spec => []TypeOK
BY Inductive, PTL DEF IInv

\* The first instance holds the lock of its file until its own destructor.
THEOREM FirstKeepsLock == Spec => []FirstHoldsLock
BY Inductive, PTL DEF IInv

\* A lock that outlives its object is one whose descriptor was 0.
THEOREM LocksAreAlive == Spec => []NoStaleLock
<1>1. IInv => NoStaleLock
  BY ConstantsAssumption
     DEF IInv, TypeOK, OpenWhere, LockedBy, NoStaleLock
<1>2. QED
  BY <1>1, Inductive, PTL

\* An instance is turned away by another one that holds the lock of the file it
\* has just opened: the first, or one whose descriptor is 0.
THEOREM RefusedByHolder == Spec => RefusedOnlyByFirst
<1> DEFINE Refused(p) == pc[p] = "opened" /\ pc'[p] = "rejecting"
           Reason(p) ==
             \E q \in Instance \ {p} : file[q] = file[p] /\ (q \in First \/ fd[q] = 0)
<1>1. ASSUME IInv, Next, NEW p \in Instance, Refused(p) PROVE LockRefused(p)
  <2> USE <1>1, ConstantsAssumption DEF IInv, TypeOK
  <2>1. ASSUME NEW q \in Instance, OpenFails(q) \/ Open(q) \/ Lock(q) \/ Reject(q)
        PROVE  FALSE
    BY <2>1 DEF OpenFails, Open, Lock, Reject, Goto
  <2>2. ASSUME NEW q \in Instance, Destroy(q) \/ Exit(q) \/ Crash(q)
        PROVE  FALSE
    BY <2>2 DEF Destroy, Unlock, Close, Remove, DestroyNothing, Exit, Crash, EndOfProcess, Goto
  <2>3. ASSUME NEW q \in Instance, LockRefused(q) PROVE LockRefused(p)
    BY <2>3 DEF LockRefused, Goto
  <2>4. QED
    BY <1>1, <2>1, <2>2, <2>3 DEF Next, Construct
<1>2. ASSUME IInv, NEW p \in Instance, LockRefused(p) PROVE Reason(p)
  <2> DEFINE q == locker[file[p]]
  <2>1. file[p] \in File /\ q # NoInstance
    BY <1>2 DEF IInv, OpenWhere, LockRefused
  <2>2. q \in Instance /\ file[q] = file[p] /\ pc[q] \in {"first", "destroyed"}
    BY <1>2, <2>1 DEF IInv, TypeOK, LockedBy
  <2>3. q # p
    BY <1>2, <2>2 DEF LockRefused
  <2>4. pc[q] = "destroyed" => fd[q] = 0
    BY <1>2, <2>1, <2>2, ConstantsAssumption DEF IInv, TypeOK, OpenWhere
  <2>5. QED
    BY <2>2, <2>3, <2>4 DEF First
<1>3. IInv /\ [Next]_vars => [\A p \in Instance : Refused(p) => Reason(p)]_vars
  BY <1>1, <1>2
<1>4. QED
  BY <1>3, Inductive, PTL DEF Spec, RefusedOnlyByFirst
-----------------------------------------------------------------------------
(* Without destructors.                                                    *)

\* The path leads to the only file that any instance has open: nothing ever
\* removes the entry.
OneFile ==
  \A p \in Instance :
    /\ file[p] # NoFile => file[p] = entry
    /\ pc[p] \notin {"unlocked", "closed"}
    /\ pc[p] = "destroyed" => file[p] = NoFile

LEMMA NextOneFile ==
  ASSUME Graceful = {}, IInv, OneFile, [Next]_vars
  PROVE  OneFile'
<1> USE ConstantsAssumption DEF IInv, TypeOK
<1>1. ASSUME NEW p \in Instance, Open(p) PROVE OneFile'
  BY <1>1 DEF Open, Goto, Unused, OneFile, OpenWhere
<1>2. ASSUME NEW p \in Instance, OpenFails(p) PROVE OneFile'
  BY <1>2 DEF OpenFails, Goto, OneFile
<1>3. ASSUME NEW p \in Instance, Lock(p) PROVE OneFile'
  BY <1>3 DEF Lock, Goto, OneFile
<1>4. ASSUME NEW p \in Instance, LockRefused(p) PROVE OneFile'
  BY <1>4 DEF LockRefused, Goto, OneFile
<1>5. ASSUME NEW p \in Instance, Reject(p) PROVE OneFile'
  BY <1>5 DEF Reject, Goto, OneFile
<1>6. ASSUME NEW p \in Instance, Destroy(p) PROVE OneFile'
  BY <1>6 DEF Destroy, Unlock, Close, Remove, DestroyNothing, Goto, OneFile, OpenWhere
<1>7. ASSUME NEW p \in Instance, Exit(p) \/ Crash(p) PROVE OneFile'
  BY <1>7 DEF Exit, Crash, EndOfProcess, Goto, OneFile
<1>8. CASE UNCHANGED vars
  BY <1>8 DEF vars, OneFile
<1>9. QED
  BY <1>1, <1>2, <1>3, <1>4, <1>5, <1>6, <1>7, <1>8 DEF Next, Construct

\* With one file there is one lock, hence one first instance.
LEMMA OneFileOneFirst ==
  ASSUME IInv, OneFile
  PROVE  MutualExclusion
<1> SUFFICES ASSUME NEW p \in First, NEW q \in First PROVE p = q
  BY DEF MutualExclusion
<1>1. file[p] = entry /\ file[q] = entry
  BY ConstantsAssumption DEF IInv, FirstHoldsLock, First, OneFile
<1>2. locker[entry] = p /\ locker[entry] = q
  BY <1>1 DEF IInv, FirstHoldsLock
<1>3. QED
  BY <1>2

\* Every step is one of the abstract specification, or leaves it unchanged.
LEMMA StepImplements ==
  ASSUME Graceful = {}, IInv, OneFile, [Next]_vars
  PROVE  [Promise!Next]_First
<1> USE ConstantsAssumption DEF IInv, TypeOK
<1>1. ASSUME NEW p \in Instance, Lock(p) PROVE Promise!Enter(p)
  <2>1. First = {}
    BY <1>1 DEF Lock, First, FirstHoldsLock, OneFile, OpenWhere
  <2>2. First' = {p}
    BY <1>1, <2>1 DEF Lock, Goto, First
  <2>3. QED
    BY <2>1, <2>2 DEF Promise!Enter
<1>2. ASSUME NEW p \in Instance,
             \/ Open(p) \/ OpenFails(p) \/ LockRefused(p) \/ Reject(p)
             \/ Destroy(p) \/ Exit(p)
      PROVE  First' = First
  BY <1>2 DEF Open, OpenFails, LockRefused, Reject, Destroy, Unlock, Close, Remove,
              DestroyNothing, Exit, EndOfProcess, Goto, First
<1>3. ASSUME NEW p \in Instance, Crash(p) PROVE First' = First \/ Promise!Leave(p)
  <2>1. First' = First \ {p}
    BY <1>3 DEF Crash, EndOfProcess, Goto, First
  <2>2. QED
    BY <2>1 DEF Promise!Leave
<1>4. CASE UNCHANGED vars
  BY <1>4 DEF vars, First
<1>5. QED
  BY <1>1, <1>2, <1>3, <1>4 DEF Next, Construct, Promise!Next

\* If no destructor ever runs, the lock file implements SingleInstance.
THEOREM KilledImplements ==
  ASSUME Graceful = {}
  PROVE  Spec => ImplementsSingleInstance
<1>1. Init => Promise!Init /\ OneFile
  BY DEF Init, Promise!Init, First, OneFile
<1>2. IInv /\ OneFile /\ [Next]_vars => OneFile'
  BY NextOneFile
<1>3. IInv /\ OneFile /\ [Next]_vars => [Promise!Next]_First
  BY StepImplements
<1>4. QED
  BY <1>1, <1>2, <1>3, Inductive, PTL DEF Spec, ImplementsSingleInstance, Promise!Spec

\* If no destructor ever runs, at most one instance is the first.
THEOREM KilledExclusive ==
  ASSUME Graceful = {}
  PROVE  Spec => []MutualExclusion
<1>1. Init => OneFile
  BY DEF Init, OneFile
<1>2. IInv /\ OneFile /\ [Next]_vars => OneFile'
  BY NextOneFile
<1>3. IInv /\ OneFile => MutualExclusion
  BY OneFileOneFirst
<1>4. QED
  BY <1>1, <1>2, <1>3, Inductive, PTL DEF Spec
=============================================================================
