----------------------- MODULE InotifyMonitor_proofs -----------------------
(***************************************************************************)
(* What InotifyMonitor.tla claims of the watch map, the kernel's queue and *)
(* the edge-triggered descriptor, for any objects, paths, masks and        *)
(* callbacks, any lengths of the queue and of the buffer, and any number   *)
(* of events, failures and signals.                                        *)
(*                                                                         *)
(* TypeOK is not inductive: that the queue holds at most one event more    *)
(* than max_queued_events is because the one event too many is always the  *)
(* overflow event.  Nor are the two halves of WatchMapIsCurrent: that a    *)
(* watch and an event are mapped follows from where descriptors come from, *)
(* and that a second add() of an object spoils no other entry, from each   *)
(* object having one watch.                                                *)
(***************************************************************************)
EXTENDS InotifyMonitor, SequenceTheorems, TLAPS

\* Watches have descriptors that were handed out, and no object has two.
WatchesAreIssued ==
  \A w \in Wd : kwatch[w] # NoObject =>
    /\ w < nextWd
    /\ \A v \in Wd : kwatch[v] = kwatch[w] => v = w

\* What is queued carries a descriptor that was handed out, or is the overflow.
Issued(e) == e = QOverflow \/ (e.wd \in Wd /\ e.wd < nextWd)

\* A queue the kernel can have: only the overflow event may exceed its limit.
QueueIsKept(q) ==
  /\ q \in Seq(Event) /\ Len(q) <= MaxQueued + 1
  /\ \A i \in 1..Len(q) : Issued(q[i])
  /\ Len(q) > MaxQueued => \E i \in 1..Len(q) : q[i] = QOverflow

IInv ==
  /\ TypeOK
  /\ WatchesAreIssued
  /\ QueueIsKept(queue)
  /\ WatchedPathIsCurrent
  /\ NoLostWakeup
-----------------------------------------------------------------------------
\* The overflow event is one, and is as good as issued.
LEMMA OverflowIsEvent == QOverflow \in Event /\ Issued(QOverflow)
<1>1. 1 \in 1..BufferUnits /\ -1 \in Wd \cup {-1}
  BY MonitorAssumption
<1>2. QED
  BY <1>1 DEF QOverflow, Event, Mask, Issued

\* The kernel never queues more than it keeps, nor an event out of nothing.
LEMMA EnqueueKeeps ==
  ASSUME NEW q, QueueIsKept(q), NEW e \in Event, Issued(e)
  PROVE  QueueIsKept(Enqueue(q, e))
<1> DEFINE Full == QOverflow \in {q[i] : i \in 1..Len(q)}
<1> USE MonitorAssumption DEF QueueIsKept
<1>1. Len(q) \in Nat
  BY LenProperties
<1>2. CASE Enqueue(q, e) = q
  BY <1>2
<1>3. CASE Enqueue(q, e) = Append(q, e) /\ Len(q) < MaxQueued
  <2>1. /\ Append(q, e) \in Seq(Event) /\ Len(Append(q, e)) = Len(q) + 1
        /\ \A i \in 1..Len(q) : Append(q, e)[i] = q[i]
        /\ Append(q, e)[Len(q) + 1] = e
    BY AppendProperties
  <2>2. \A i \in 1..(Len(q) + 1) : i \in 1..Len(q) \/ i = Len(q) + 1
    BY <1>1
  <2>3. QED
    BY <1>1, <1>3, <2>1, <2>2
<1>4. CASE Enqueue(q, e) = Append(q, QOverflow) /\ ~Full /\ Len(q) >= MaxQueued
  <2>1. /\ Append(q, QOverflow) \in Seq(Event)
        /\ Len(Append(q, QOverflow)) = Len(q) + 1
        /\ \A i \in 1..Len(q) : Append(q, QOverflow)[i] = q[i]
        /\ Append(q, QOverflow)[Len(q) + 1] = QOverflow
    BY OverflowIsEvent, AppendProperties
  <2>2. \A i \in 1..(Len(q) + 1) : i \in 1..Len(q) \/ i = Len(q) + 1
    BY <1>1
  <2>3. Len(q) = MaxQueued
    BY <1>1, <1>4
  <2>4. \A i \in 1..(Len(q) + 1) : Issued(Append(q, QOverflow)[i])
    BY <2>1, <2>2, OverflowIsEvent
  <2>5. Len(q) + 1 \in 1..(Len(q) + 1)
    BY <1>1
  <2>6. QED
    BY <1>1, <1>4, <2>1, <2>3, <2>4, <2>5
<1>5. QED
  BY <1>1, <1>2, <1>3, <1>4 DEF Enqueue

\* What read() leaves behind is a shorter queue of the same events.
LEMMA ReadKeeps ==
  ASSUME QueueIsKept(queue), NEW n \in 1..Len(queue)
  PROVE  QueueIsKept(SubSeq(queue, n + 1, Len(queue)))
<1> DEFINE rest == SubSeq(queue, n + 1, Len(queue))
<1>1. Len(queue) \in Nat /\ MaxQueued \in Nat
  BY LenProperties, MonitorAssumption DEF QueueIsKept
<1>2. \A i \in (n + 1)..Len(queue) : queue[i] \in Event /\ i \in 1..Len(queue)
  BY <1>1, ElementOfSeq DEF QueueIsKept
<1>3. /\ rest \in Seq(Event)
      /\ Len(rest) = IF n + 1 <= Len(queue) THEN Len(queue) - n ELSE 0
      /\ \A i \in 1..(Len(queue) - n) : rest[i] = queue[n + i]
  <2>1. n + 1 \in Int /\ Len(queue) \in Int
    BY <1>1
  <2>2. /\ rest \in Seq(Event)
        /\ Len(rest) = IF n + 1 <= Len(queue) THEN Len(queue) - (n + 1) + 1 ELSE 0
        /\ \A i \in 1..(Len(queue) - (n + 1) + 1) : rest[i] = queue[(n + 1) + i - 1]
    BY <1>2, <2>1, SubSeqProperties
  <2>3. QED
    BY <1>1, <2>2
<1>4. Len(rest) <= MaxQueued
  BY <1>1, <1>3 DEF QueueIsKept
<1>5. ASSUME NEW i \in 1..Len(rest) PROVE Issued(rest[i])
  <2>1. i \in 1..(Len(queue) - n) /\ n + i \in 1..Len(queue)
    BY <1>1, <1>3, <1>5
  <2>2. QED
    BY <1>3, <2>1 DEF QueueIsKept
<1>6. QED
  BY <1>1, <1>3, <1>4, <1>5 DEF QueueIsKept

\* A step of the file system that queues events of watches it finds.
LEMMA QueueKeepsWakeup ==
  ASSUME IInv, NEW q, QueueIsKept(q), Queue(q),
         UNCHANGED <<nextWd, pollVars, watchMap, adding>>
  PROVE  /\ QueueIsKept(queue)' /\ NoLostWakeup'
         /\ ready' \in BOOLEAN /\ events' \in 0..MaxEvents
<1> USE MonitorAssumption DEF IInv
<1>1. QueueIsKept(queue)'
  BY DEF Queue, QueueIsKept, Issued
<1>2. NoLostWakeup'
  BY DEF Queue, NoLostWakeup, pollVars
<1>3. ready' \in BOOLEAN
  BY Zenon DEF Queue, TypeOK
<1>4. events' \in 0..MaxEvents
  BY DEF Queue, TypeOK
<1>5. QED
  BY <1>1, <1>2, <1>3, <1>4

\* The watch of an object, if it has one, is issued, and is the only one.
LEMMA WatchOfIsIssued ==
  ASSUME IInv, NEW o \in Object, WatchOf(o) # {},
         NEW w, w = CHOOSE v \in WatchOf(o) : TRUE
  PROVE  w \in Wd /\ w < nextWd /\ kwatch[w] = o
BY MonitorAssumption DEF IInv, WatchesAreIssued, WatchOf

\* An event of an issued watch is one the queue can take.
LEMMA EventOfWatch ==
  ASSUME NEW w \in Wd, w < nextWd, NEW m \in Mask, NEW s \in 1..BufferUnits
  PROVE  LET e == [wd |-> w, mask |-> m, size |-> s] IN e \in Event /\ Issued(e)
BY DEF Event, Issued

\* The initial state has the invariant.
LEMMA InitIInv == Init => IInv
<1> SUFFICES ASSUME Init PROVE IInv
  OBVIOUS
<1> USE MonitorAssumption DEF Init
<1>1. queue \in Seq(Event) /\ Len(queue) = 0
  BY EmptySeq
<1>2. TypeOK
  <2>1. at \in [Path -> Object \cup {NoObject}]
    OBVIOUS
  <2>2. nextWd \in 1..(MaxWd + 1) /\ \A w \in Wd : w >= nextWd
    BY DEF Wd
  <2>3. Len(queue) <= MaxQueued + 1
    BY <1>1
  <2>4. events \in 0..MaxEvents /\ faults \in 0..MaxFault /\ resumes \in 0..MaxResume
    OBVIOUS
  <2>5. QED
    BY <1>1, <2>1, <2>2, <2>3, <2>4, OverflowIsEvent DEF TypeOK
<1>3. QueueIsKept(queue)
  BY <1>1 DEF QueueIsKept
<1>4. WatchesAreIssued /\ WatchedPathIsCurrent /\ NoLostWakeup
  BY DEF WatchesAreIssued, WatchedPathIsCurrent, NoLostWakeup
<1>5. QED
  BY <1>2, <1>3, <1>4 DEF IInv

\* What the file system does keeps the invariant.
LEMMA FileSystemIInv == IInv /\ FileSystem => IInv'
<1> SUFFICES ASSUME IInv, FileSystem PROVE IInv'
  OBVIOUS
<1> USE MonitorAssumption
<1>1. ASSUME NEW w \in Wd, NEW m \in SelfMask, HappenSelf(w, m) PROVE IInv'
  <2> DEFINE e == [wd |-> w, mask |-> m, size |-> 1]
  <2>1. w < nextWd
    BY <1>1 DEF HappenSelf, IInv, WatchesAreIssued
  <2>2. e \in Event /\ Issued(e)
    BY <2>1, EventOfWatch DEF Mask
  <2>3. QueueIsKept(Enqueue(queue, e))
    BY <2>2, EnqueueKeeps DEF IInv
  <2>4. /\ QueueIsKept(queue)' /\ NoLostWakeup'
        /\ ready' \in BOOLEAN /\ events' \in 0..MaxEvents
    BY <1>1, <2>3, QueueKeepsWakeup DEF HappenSelf
  <2>5. TypeOK'
    BY <1>1, <2>4 DEF HappenSelf, pollVars, IInv, TypeOK, QueueIsKept
  <2>6. WatchesAreIssued' /\ WatchedPathIsCurrent'
    BY <1>1 DEF HappenSelf, IInv, WatchesAreIssued, WatchedPathIsCurrent
  <2>7. QED
    BY <2>4, <2>5, <2>6 DEF IInv
<1>2. ASSUME NEW w \in Wd, NEW m \in ChildMask, NEW u \in NameUnits,
             HappenChild(w, m, u)
      PROVE  IInv'
  <2> DEFINE e == [wd |-> w, mask |-> m, size |-> 1 + u]
  <2>1. w < nextWd
    BY <1>2 DEF HappenChild, IInv, WatchesAreIssued
  <2>2. 1 + u \in 1..BufferUnits /\ m \in Mask
    <3>1. u \in Nat \ {0} /\ 1 + u <= BufferUnits /\ BufferUnits \in Nat
      OBVIOUS
    <3>2. QED
      BY <3>1 DEF Mask
  <2>3. e \in Event /\ Issued(e)
    BY <2>1, <2>2, EventOfWatch
  <2>4. QueueIsKept(Enqueue(queue, e))
    BY <2>3, EnqueueKeeps DEF IInv
  <2>5. /\ QueueIsKept(queue)' /\ NoLostWakeup'
        /\ ready' \in BOOLEAN /\ events' \in 0..MaxEvents
    BY <1>2, <2>4, QueueKeepsWakeup DEF HappenChild
  <2>6. TypeOK'
    BY <1>2, <2>5 DEF HappenChild, pollVars, IInv, TypeOK, QueueIsKept
  <2>7. WatchesAreIssued' /\ WatchedPathIsCurrent'
    BY <1>2 DEF HappenChild, IInv, WatchesAreIssued, WatchedPathIsCurrent
  <2>8. QED
    BY <2>5, <2>6, <2>7 DEF IInv
<1>3. ASSUME NEW p \in Path, DeleteObject(p) PROVE IInv'
  <2> DEFINE o == at[p]
             v == CHOOSE w \in WatchOf(o) : TRUE
             gone == [wd |-> v, mask |-> "IN_DELETE_SELF", size |-> 1]
             ignored == [wd |-> v, mask |-> "IN_IGNORED", size |-> 1]
             q == IF WatchOf(o) = {} THEN queue
                  ELSE Enqueue(Enqueue(queue, gone), ignored)
  <2>1. o \in Object
    BY <1>3 DEF DeleteObject, IInv, TypeOK
  <2>2. QueueIsKept(q)
    <3>1. CASE WatchOf(o) = {}
      BY <3>1 DEF IInv
    <3>2. CASE WatchOf(o) # {}
      <4>1. v \in Wd /\ v < nextWd
        BY <2>1, <3>2, WatchOfIsIssued
      <4>2. gone \in Event /\ Issued(gone) /\ ignored \in Event /\ Issued(ignored)
        <5>1. 1 \in 1..BufferUnits /\ {"IN_DELETE_SELF", "IN_IGNORED"} \subseteq Mask
          BY DEF Mask
        <5>2. QED
          BY <4>1, <5>1, EventOfWatch
      <4>3. QueueIsKept(Enqueue(queue, gone))
        BY <4>2, EnqueueKeeps DEF IInv
      <4>4. QueueIsKept(Enqueue(Enqueue(queue, gone), ignored))
        BY <4>2, <4>3, EnqueueKeeps
      <4>5. QED
        BY <3>2, <4>4
    <3>3. QED
      BY <3>1, <3>2
  <2>3. Queue(q) /\ UNCHANGED <<nextWd, pollVars, watchMap, adding>>
    BY <1>3 DEF DeleteObject
  <2>4. /\ QueueIsKept(queue)' /\ NoLostWakeup'
        /\ ready' \in BOOLEAN /\ events' \in 0..MaxEvents
    BY <2>2, <2>3, QueueKeepsWakeup
  <2>5. /\ at' = [at EXCEPT ![p] = NoObject]
        /\ kwatch' = [w \in Wd |-> IF kwatch[w] = o THEN NoObject ELSE kwatch[w]]
        /\ moved' = moved \ {o}
    BY <1>3 DEF DeleteObject
  <2>6. TypeOK'
    BY <2>3, <2>4, <2>5 DEF pollVars, IInv, TypeOK, QueueIsKept
  <2>7. WatchesAreIssued'
    BY <2>3, <2>5 DEF IInv, WatchesAreIssued
  <2>8. WatchedPathIsCurrent'
    BY <2>1, <2>3, <2>5 DEF IInv, TypeOK, WatchesAreIssued, WatchedPathIsCurrent
  <2>9. QED
    BY <2>4, <2>6, <2>7, <2>8 DEF IInv
<1>4. ASSUME NEW p \in Path, NEW r \in Path, MoveObject(p, r) PROVE IInv'
  <2> DEFINE o == at[p]
             v == CHOOSE w \in WatchOf(o) : TRUE
             e == [wd |-> v, mask |-> "IN_MOVE_SELF", size |-> 1]
             q == IF WatchOf(o) = {} THEN queue ELSE Enqueue(queue, e)
  <2>1. o \in Object
    BY <1>4 DEF MoveObject, IInv, TypeOK
  <2>2. QueueIsKept(q)
    <3>1. CASE WatchOf(o) = {}
      BY <3>1 DEF IInv
    <3>2. CASE WatchOf(o) # {}
      <4>1. v \in Wd /\ v < nextWd
        BY <2>1, <3>2, WatchOfIsIssued
      <4>2. 1 \in 1..BufferUnits /\ "IN_MOVE_SELF" \in Mask
        BY DEF Mask
      <4>3. QueueIsKept(Enqueue(queue, e))
        BY <4>1, <4>2, EventOfWatch, EnqueueKeeps DEF IInv
      <4>4. QED
        BY <3>2, <4>3
    <3>3. QED
      BY <3>1, <3>2
  <2>3. Queue(q) /\ UNCHANGED <<kwatch, nextWd, pollVars, watchMap, adding>>
    BY <1>4 DEF MoveObject
  <2>4. /\ QueueIsKept(queue)' /\ NoLostWakeup'
        /\ ready' \in BOOLEAN /\ events' \in 0..MaxEvents
    BY <2>2, <2>3, QueueKeepsWakeup
  <2>5. /\ at' = [at EXCEPT ![p] = NoObject, ![r] = o] /\ at[r] = NoObject
        /\ moved' = IF WatchOf(o) = {} THEN moved ELSE moved \cup {o}
    BY <1>4 DEF MoveObject
  <2>6. TypeOK'
    BY <2>1, <2>3, <2>4, <2>5 DEF pollVars, IInv, TypeOK, QueueIsKept
  <2>7. WatchesAreIssued'
    BY <2>3 DEF IInv, WatchesAreIssued
  <2>8. WatchedPathIsCurrent'
    <3>1. ASSUME NEW w \in Wd, kwatch[w] # NoObject
          PROVE  at'[watchMap[w]] = kwatch[w] \/ kwatch[w] \in moved'
      <4>1. CASE kwatch[w] = o
        BY <2>5, <4>1 DEF WatchOf
      <4>2. CASE kwatch[w] # o
        <5>1. watchMap[w] \in Path
          BY <3>1, SMTT(60) DEF IInv, TypeOK, WatchesAreIssued, Wd
        <5>2. CASE kwatch[w] \in moved
          BY <2>5, <5>2
        <5>3. CASE at[watchMap[w]] = kwatch[w]
          BY <2>5, <3>1, <4>2, <5>1, <5>3 DEF IInv, TypeOK
        <5>4. QED
          BY <3>1, <5>2, <5>3 DEF IInv, WatchedPathIsCurrent
      <4>3. QED
        BY <4>1, <4>2
    <3>2. QED
      BY <2>3, <3>1 DEF WatchedPathIsCurrent
  <2>9. QED
    BY <2>4, <2>6, <2>7, <2>8 DEF IInv
<1>5. ASSUME NEW p \in Path, NEW o \in Object, MakeObject(p, o) PROVE IInv'
  <2>1. QueueIsKept(queue) /\ Queue(queue)
    BY <1>5 DEF MakeObject, IInv
  <2>2. /\ QueueIsKept(queue)' /\ NoLostWakeup'
        /\ ready' \in BOOLEAN /\ events' \in 0..MaxEvents
    BY <1>5, <2>1, QueueKeepsWakeup DEF MakeObject
  <2>3. TypeOK'
    BY <1>5, <2>2 DEF MakeObject, pollVars, IInv, TypeOK, QueueIsKept
  <2>4. WatchesAreIssued' /\ WatchedPathIsCurrent'
    BY <1>5 DEF MakeObject, IInv, TypeOK, WatchesAreIssued, WatchedPathIsCurrent
  <2>5. QED
    BY <2>2, <2>3, <2>4 DEF IInv
<1>6. QED
  BY <1>1, <1>2, <1>3, <1>4, <1>5 DEF FileSystem

\* What add() does keeps the invariant: a new watch gets a new descriptor, and
\* one that exists gets the new path.
LEMMA AddIInv == IInv /\ Add => IInv'
<1> SUFFICES ASSUME IInv, Add PROVE IInv'
  OBVIOUS
<1> USE MonitorAssumption
<1>1. ASSUME NEW p \in Path, AddExists(p) PROVE IInv'
  <2>1. UNCHANGED <<fsVars, pollVars, watchMap>> /\ adding' = p
    BY <1>1 DEF AddExists
  <2>2. TypeOK'
    BY <2>1 DEF fsVars, pollVars, IInv, TypeOK
  <2>3. QED
    BY <2>1, <2>2 DEF fsVars, pollVars, IInv, WatchesAreIssued, QueueIsKept, Issued,
                      WatchedPathIsCurrent, NoLostWakeup
<1>2. CASE AddWatch
  <2> DEFINE o == at[adding]
             w == IF WatchOf(o) = {} THEN nextWd ELSE CHOOSE v \in WatchOf(o) : TRUE
  <2>1. o \in Object /\ adding \in Path
    BY <1>2 DEF AddWatch, IInv, TypeOK
  <2>2. w \in Wd
    <3>1. CASE WatchOf(o) = {}
      BY <1>2, <3>1 DEF AddWatch, IInv, TypeOK, Wd
    <3>2. CASE WatchOf(o) # {}
      BY <2>1, <3>2, WatchOfIsIssued
    <3>3. QED
      BY <3>1, <3>2
  <2>3. /\ kwatch' = [kwatch EXCEPT ![w] = o]
        /\ nextWd' = IF w = nextWd THEN w + 1 ELSE nextWd
        /\ watchMap' = [watchMap EXCEPT ![w] = adding]
        /\ moved' = moved \ {o}
        /\ adding' = NoPath
        /\ UNCHANGED <<at, queue, ready, events, pollVars>>
    BY <1>2 DEF AddWatch
  <2>4. \/ w = nextWd /\ \A v \in Wd : kwatch[v] # o
        \/ w < nextWd /\ kwatch[w] = o
    <3>1. CASE WatchOf(o) = {}
      BY <3>1 DEF WatchOf
    <3>2. CASE WatchOf(o) # {}
      BY <2>1, <3>2, WatchOfIsIssued
    <3>3. QED
      BY <3>1, <3>2
  <2> HIDE DEF w
  <2>5. nextWd' \in 1..(MaxWd + 1) /\ nextWd <= nextWd' /\ w < nextWd'
    BY <2>2, <2>3, <2>4 DEF IInv, TypeOK, Wd
  <2>6. \A v \in Wd : watchMap'[v] = NoPath <=> v >= nextWd'
    <3>1. watchMap'[w] # NoPath
      BY <2>1, <2>2, <2>3 DEF IInv, TypeOK
    <3>2. \A v \in Wd : v # w => watchMap'[v] = watchMap[v]
      BY <2>3 DEF IInv, TypeOK
    <3>3. \A v \in Wd : v # w => (v >= nextWd <=> v >= nextWd')
      BY <2>2, <2>3, <2>4 DEF IInv, TypeOK, Wd
    <3>4. QED
      BY <2>2, <2>5, <3>1, <3>2, <3>3, SMTT(60) DEF IInv, TypeOK, Wd
  <2>7. TypeOK'
    BY <2>1, <2>2, <2>3, <2>5, <2>6 DEF pollVars, IInv, TypeOK
  <2>8. WatchesAreIssued'
    <3>1. \A v \in Wd : kwatch'[v] = IF v = w THEN o ELSE kwatch[v]
      BY <2>3 DEF IInv, TypeOK
    <3>2. \A v \in Wd : kwatch'[v] # NoObject => v < nextWd'
      BY <2>2, <2>5, <3>1, SMTT(60) DEF IInv, TypeOK, WatchesAreIssued, Wd
    <3>3. \A v \in Wd : v # w => kwatch[v] # o
      BY <2>1, <2>2, <2>4 DEF IInv, WatchesAreIssued
    <3>4. QED
      BY <2>1, <3>1, <3>2, <3>3 DEF IInv, WatchesAreIssued
  <2>9. QueueIsKept(queue)'
    BY <2>3, <2>5, SMTT(60) DEF IInv, TypeOK, QueueIsKept, Issued, Wd
  <2>10. WatchedPathIsCurrent'
    <3>1. ASSUME NEW v \in Wd, kwatch'[v] # NoObject
          PROVE  at[watchMap'[v]] = kwatch'[v] \/ kwatch'[v] \in moved'
      <4>1. CASE v = w
        BY <2>2, <2>3, <4>1 DEF IInv, TypeOK
      <4>2. CASE v # w
        <5>1. kwatch'[v] = kwatch[v] /\ watchMap'[v] = watchMap[v]
          BY <2>3, <4>2 DEF IInv, TypeOK
        <5>2. kwatch[v] # o
          BY <2>1, <2>2, <2>4, <4>2 DEF IInv, WatchesAreIssued
        <5>3. QED
          BY <2>3, <3>1, <5>1, <5>2 DEF IInv, WatchedPathIsCurrent
      <4>3. QED
        BY <4>1, <4>2
    <3>2. QED
      BY <2>3, <3>1 DEF WatchedPathIsCurrent
  <2>11. NoLostWakeup'
    BY <2>3 DEF pollVars, IInv, NoLostWakeup
  <2>12. QED
    BY <2>7, <2>8, <2>9, <2>10, <2>11 DEF IInv
<1>3. CASE AddFails
  <2>1. UNCHANGED <<fsVars, pollVars, watchMap>> /\ adding' = NoPath
    BY <1>3 DEF AddFails
  <2>2. TypeOK'
    BY <2>1 DEF fsVars, pollVars, IInv, TypeOK
  <2>3. QED
    BY <2>1, <2>2 DEF fsVars, pollVars, IInv, WatchesAreIssued, QueueIsKept, Issued,
                      WatchedPathIsCurrent, NoLostWakeup
<1>4. QED
  BY <1>1, <1>2, <1>3 DEF Add

\* A step of poll() or of the loop around it leaves the watches and the map
\* alone, and what it changes of the queue and the edge is said where it is taken.
LEMMA PollKeepsWatches ==
  ASSUME IInv, UNCHANGED <<at, kwatch, nextWd, moved, events, watchMap, adding>>,
         QueueIsKept(queue)', NoLostWakeup',
         ready' \in BOOLEAN, termApp' \in BOOLEAN, abandoned' \in BOOLEAN,
         pc' \in {"idle", "reading", "dispatch", "callback"},
         app' \in {"polling", "stopped"},
         current' \in Event, faults' \in 0..MaxFault, resumes' \in 0..MaxResume
  PROVE  IInv'
<1>1. TypeOK'
  BY DEF IInv, TypeOK, QueueIsKept
<1>2. WatchesAreIssued' /\ WatchedPathIsCurrent'
  BY DEF IInv, WatchesAreIssued, WatchedPathIsCurrent
<1>3. QED
  BY <1>1, <1>2 DEF IInv

\* What poll() and its loop do keeps the invariant.
LEMMA PollIInv ==
  IInv /\ (Poll \/ EpollTerminated \/ EpollInterrupted \/ EpollFails
           \/ ReadFails \/ CallbackThrows) => IInv'
<1> SUFFICES ASSUME IInv, \/ Poll \/ EpollTerminated \/ EpollInterrupted
                          \/ EpollFails \/ ReadFails \/ CallbackThrows
             PROVE  IInv'
  OBVIOUS
<1> USE MonitorAssumption
<1>1. ASSUME QueueIsKept(queue), UNCHANGED <<queue, nextWd>> PROVE QueueIsKept(queue)'
  BY <1>1 DEF QueueIsKept, Issued
<1>2. QueueIsKept(queue)
  BY DEF IInv
<1>3. CASE EpollWait
  BY <1>1, <1>2, <1>3, PollKeepsWatches DEF EpollWait, IInv, TypeOK, NoLostWakeup
<1>4. CASE EpollTimeout
  BY <1>1, <1>2, <1>4, PollKeepsWatches
     DEF EpollTimeout, MayPoll, Readable, AfterPoll, IInv, TypeOK, NoLostWakeup
<1>5. CASE Read
  <2>1. PICK n \in 1..Len(queue) :
          /\ queue' = SubSeq(queue, n + 1, Len(queue))
          /\ current' = queue[1]
          /\ \/ pc' = "dispatch" /\ UNCHANGED <<app, abandoned>>
             \/ LeaveLoop(queue')
    BY <1>5 DEF Read
  <2>2. UNCHANGED <<at, kwatch, nextWd, ready, moved, events, watchMap, adding,
                    termApp, faults, resumes>>
    BY <1>5 DEF Read
  <2>3. QueueIsKept(queue')
    BY <1>2, <2>1, ReadKeeps
  <2>4. QueueIsKept(queue)'
    BY <2>2, <2>3 DEF QueueIsKept, Issued
  <2>5. 1 \in 1..Len(queue)
    BY <1>2, <2>1, LenProperties DEF QueueIsKept
  <2>6. current' \in Event
    BY <1>2, <2>1, <2>5, ElementOfSeq DEF QueueIsKept
  <2>7. /\ pc' \in {"idle", "dispatch"} /\ app' \in {"polling", "stopped"}
        /\ abandoned' \in BOOLEAN /\ NoLostWakeup'
    BY <2>1 DEF LeaveLoop, AfterPoll, IInv, TypeOK, NoLostWakeup
  <2>8. QED
    BY <2>2, <2>4, <2>6, <2>7, PollKeepsWatches DEF IInv, TypeOK
<1>6. CASE Drained
  BY <1>1, <1>2, <1>6, PollKeepsWatches
     DEF Drained, fsVars, AfterPoll, IInv, TypeOK, NoLostWakeup
<1>7. CASE Dispatch
  BY <1>1, <1>2, <1>7, PollKeepsWatches
     DEF Dispatch, fsVars, IInv, TypeOK, NoLostWakeup
<1>8. CASE CallbackReturns
  BY <1>1, <1>2, <1>8, PollKeepsWatches
     DEF CallbackReturns, fsVars, IInv, TypeOK, NoLostWakeup
<1>9. CASE EpollTerminated
  BY <1>1, <1>2, <1>9, PollKeepsWatches
     DEF EpollTerminated, MayPoll, Readable, fsVars, IInv, TypeOK, NoLostWakeup
<1>10. CASE EpollInterrupted
  BY <1>1, <1>2, <1>10, PollKeepsWatches
     DEF EpollInterrupted, MayPoll, Readable, AfterPoll, fsVars, IInv, TypeOK, NoLostWakeup
<1>11. CASE EpollFails
  BY <1>1, <1>2, <1>11, PollKeepsWatches
     DEF EpollFails, MayPoll, Fault, AfterPoll, fsVars, IInv, TypeOK, NoLostWakeup
<1>12. CASE ReadFails
  <2>1. abandoned' \in BOOLEAN
    BY <1>12, Zenon DEF ReadFails, LeaveLoop
  <2>2. NoLostWakeup'
    BY <1>12 DEF ReadFails, LeaveLoop, fsVars, NoLostWakeup
  <2>3. /\ pc' = "idle" /\ app' \in {"polling", "stopped"} /\ faults' \in 0..MaxFault
        /\ UNCHANGED <<fsVars, watchMap, adding, current, termApp, resumes>>
    BY <1>12 DEF ReadFails, Fault, LeaveLoop, AfterPoll, IInv, TypeOK
  <2>4. QED
    BY <1>1, <1>2, <2>1, <2>2, <2>3, PollKeepsWatches DEF fsVars, IInv, TypeOK
<1>13. CASE CallbackThrows
  <2>1. abandoned' \in BOOLEAN
    BY <1>13, Zenon DEF CallbackThrows, LeaveLoop
  <2>2. NoLostWakeup'
    BY <1>13 DEF CallbackThrows, LeaveLoop, fsVars, NoLostWakeup
  <2>3. /\ pc' = "idle" /\ app' \in {"polling", "stopped"} /\ faults' \in 0..MaxFault
        /\ UNCHANGED <<fsVars, watchMap, adding, current, termApp, resumes>>
    BY <1>13 DEF CallbackThrows, Fault, LeaveLoop, AfterPoll, IInv, TypeOK
  <2>4. QED
    BY <1>1, <1>2, <2>1, <2>2, <2>3, PollKeepsWatches DEF fsVars, IInv, TypeOK
<1>14. QED
  BY <1>3, <1>4, <1>5, <1>6, <1>7, <1>8, <1>9, <1>10, <1>11, <1>12, <1>13 DEF Poll

\* Every step keeps the invariant.
LEMMA NextIInv == IInv /\ [Next]_vars => IInv'
<1>1. ASSUME IInv, UNCHANGED vars PROVE IInv'
  BY <1>1 DEF vars, fsVars, pollVars, IInv, TypeOK, WatchesAreIssued, QueueIsKept, Issued,
              WatchedPathIsCurrent, NoLostWakeup
<1>2. QED
  BY <1>1, FileSystemIInv, AddIInv, PollIInv DEF Next
-----------------------------------------------------------------------------
\* The invariant holds in every state of every behaviour.
LEMMA AlwaysIInv == Spec => []IInv
BY InitIInv, NextIInv, PTL DEF Spec

\* The types, among them that the watch map has an entry for exactly the
\* descriptors handed out so far, and that the queue exceeds its limit by no more
\* than the overflow event.
THEOREM TypeCorrect == Spec => []TypeOK
<1>1. IInv => TypeOK
  BY DEF IInv
<1>2. QED
  BY AlwaysIInv, <1>1, PTL

\* Between two polls nothing unread is left without an edge for epoll to report,
\* unless an error or an exception has left the read loop (inotify.cpp:137-141,
\* 242-250).
THEOREM EdgesAreNotLost == Spec => []NoLostWakeup
<1>1. IInv => NoLostWakeup
  BY DEF IInv
<1>2. QED
  BY AlwaysIInv, <1>1, PTL

\* Every watch, and every event that waits to be read, has its entry in the watch
\* map, and the path in the entry leads to the watched object unless that was
\* renamed since it was added (inotify.cpp:88-105, 135-141).
THEOREM MapIsCurrent == Spec => []WatchMapIsCurrent
<1>1. IInv => WatchMapIsCurrent
  <2> SUFFICES ASSUME IInv PROVE WatchMapIsCurrent
    OBVIOUS
  <2> USE MonitorAssumption
  <2>1. \A w \in Wd : w < nextWd => Known(w)
    BY DEF Known, IInv, TypeOK, Wd
  <2>2. EveryWatchIsMapped
    BY <2>1 DEF EveryWatchIsMapped, IInv, WatchesAreIssued, QueueIsKept, Issued
  <2>3. QED
    BY <2>2 DEF WatchMapIsCurrent, IInv
<1>2. QED
  BY AlwaysIInv, <1>1, PTL

\* An entry that is there is never erased, and replaced only by a path that leads to
\* the object the descriptor is the watch of, and stays.
EntriesKeepTheirObject ==
  \A w \in Wd : Known(w) =>
    /\ Known(w)'
    /\ watchMap'[w] # watchMap[w] =>
         kwatch[w] # NoObject /\ kwatch'[w] = kwatch[w] /\ at[watchMap'[w]] = kwatch[w]
    /\ kwatch'[w] \in {kwatch[w], NoObject}

\* An event that has waited in the queue is told with a path the object it happened
\* to was added by, never with one of another object: a descriptor is not used
\* again, and no add() of another object takes its entry in the watch map, however
\* long the event waits and whatever is deleted, renamed and added meanwhile, also
\* by callbacks (inotify.cpp:88-105, 135-141).
THEOREM EntriesAreNotReused == Spec => [][EntriesKeepTheirObject]_vars
<1>1. ASSUME IInv, Next PROVE EntriesKeepTheirObject
  <2> SUFFICES ASSUME NEW w \in Wd, Known(w)
               PROVE  /\ Known(w)'
                      /\ watchMap'[w] # watchMap[w] =>
                           /\ kwatch[w] # NoObject /\ kwatch'[w] = kwatch[w]
                           /\ at[watchMap'[w]] = kwatch[w]
                      /\ kwatch'[w] \in {kwatch[w], NoObject}
    BY DEF EntriesKeepTheirObject
  <2>1. /\ watchMap \in [Wd -> Path \cup {NoPath}] /\ kwatch \in [Wd -> Object \cup {NoObject}]
        /\ watchMap[w] # NoPath /\ w < nextWd /\ nextWd \in 1..(MaxWd + 1)
        /\ at \in [Path -> Object \cup {NoObject}] /\ adding \in Path \cup {NoPath}
    BY <1>1 DEF IInv, TypeOK, Known, Wd
  <2>2. CASE UNCHANGED watchMap /\ kwatch'[w] \in {kwatch[w], NoObject}
    BY <2>1, <2>2 DEF Known
  <2>3. CASE FileSystem
    BY <2>1, <2>2, <2>3
       DEF FileSystem, HappenSelf, HappenChild, DeleteObject, MoveObject, MakeObject
  <2>4. CASE AddWatch
    <3>1. PICK v \in Wd :
            /\ v = nextWd \/ kwatch[v] = at[adding]
            /\ kwatch' = [kwatch EXCEPT ![v] = at[adding]]
            /\ watchMap' = [watchMap EXCEPT ![v] = adding]
      <4>1. WatchOf(at[adding]) # {} =>
              (CHOOSE v \in WatchOf(at[adding]) : TRUE) \in WatchOf(at[adding])
        OBVIOUS
      <4>2. \A v \in WatchOf(at[adding]) : v \in Wd /\ kwatch[v] = at[adding]
        BY DEF WatchOf
      <4>3. nextWd <= MaxWd => nextWd \in Wd
        BY <2>1 DEF Wd
      <4>4. QED
        BY <2>4, <4>1, <4>2, <4>3 DEF AddWatch
    <3>2. at[adding] # NoObject /\ adding \in Path /\ adding # NoPath
      BY <2>1, <2>4 DEF AddWatch
    <3>3. CASE v = w
      <4>1. kwatch[w] = at[adding]
        BY <2>1, <3>1, <3>3
      <4>2. watchMap'[w] = adding /\ kwatch'[w] = at[adding]
        BY <2>1, <3>1, <3>3
      <4>3. QED
        BY <3>2, <4>1, <4>2 DEF Known
    <3>4. CASE v # w
      BY <2>1, <2>2, <3>1, <3>4 DEF Known
    <3>5. QED
      BY <3>3, <3>4
  <2>5. CASE Next /\ ~FileSystem /\ ~AddWatch
    <3>1. UNCHANGED <<watchMap, kwatch>>
      BY <2>5 DEF Next, Add, AddExists, AddFails, Poll, EpollWait, EpollTimeout, Read, Drained,
                  Dispatch, CallbackReturns, EpollTerminated, EpollInterrupted, EpollFails,
                  ReadFails, CallbackThrows, fsVars
    <3>2. QED
      BY <2>2, <3>1
  <2>6. QED
    BY <1>1, <2>3, <2>4, <2>5
<1>2. IInv /\ [Next]_vars => [EntriesKeepTheirObject]_vars
  BY <1>1
<1>3. QED
  BY AlwaysIInv, <1>2, PTL DEF Spec
=============================================================================
