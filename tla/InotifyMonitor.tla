--------------------------- MODULE InotifyMonitor ---------------------------
(***************************************************************************)
(* ionik::filesystem_monitor::monitor<backend::inotify>: add() and poll(), *)
(* the inotify queue and the edge-triggered epoll descriptor they sit on,  *)
(* the file system that produces the events, and the loop of the demo.     *)
(*                                                                         *)
(* Sizes are in units of sizeof(inotify_event) = 16 bytes: an event about  *)
(* the watched object itself takes one, an event about a named entry of a  *)
(* watched directory takes one more per 16 bytes of padded name, and the   *)
(* buffer of poll() holds one event with the longest name there is.        *)
(***************************************************************************)
EXTENDS Integers, Sequences, FiniteSets

CONSTANTS
  Object,       \* the files and directories (inodes)
  Path,         \* canonical path names
  SelfMask,     \* masks of the events on a watched object that occur
  ChildMask,    \* masks of the events on an entry of a watched directory
  NameUnits,    \* the sizes the names of such entries can have
  BufferUnits,  \* the size of the read buffer
  Installed,    \* the callbacks that are set
  StopOnError,  \* TRUE: the loop of the demo; FALSE: a loop that polls again
  MaxQueued,    \* fs.inotify.max_queued_events
  MaxEvents,    \* bound: events of the file system
  MaxWd,        \* bound: watch descriptors handed out
  MaxFault,     \* bound: failing system calls and throwing callbacks
  MaxResume,    \* bound: times the process is stopped and continued
  NoObject, NoPath

ASSUME MonitorAssumption ==
  /\ NoObject \notin Object /\ NoPath \notin Path
  /\ NameUnits \subseteq Nat \ {0}
  /\ BufferUnits \in Nat \ {0} /\ \A u \in NameUnits : 1 + u <= BufferUnits
  /\ StopOnError \in BOOLEAN
  /\ {MaxQueued, MaxEvents, MaxWd} \subseteq Nat \ {0}
  /\ {MaxFault, MaxResume} \subseteq Nat

VARIABLES
  at,           \* at[p]: the object path p leads to
  kwatch,       \* kwatch[wd]: the object the kernel watches under wd
  nextWd,       \* the next descriptor inotify_add_watch() hands out
  queue,        \* the events of the inotify instance not read yet
  ready,        \* the epoll descriptor has an edge to report
  watchMap,     \* _rep.watch_map
  adding,       \* the path an add() is about to watch
  pc,           \* where poll() is
  current,      \* the event *x poll() looks at
  termApp,      \* TERM_APP of the demo
  app,          \* "polling" or "stopped": the loop around poll()
  moved,        \* history: watched objects renamed since they were added
  abandoned,    \* history: the last read loop left events behind it
  events, faults, resumes

fsVars == <<at, kwatch, nextWd, queue, ready, moved, events>>
pollVars == <<pc, current, termApp, app, abandoned, faults, resumes>>
vars == <<fsVars, pollVars, watchMap, adding>>

Wd == 1..MaxWd
QOverflow == [wd |-> -1, mask |-> "IN_Q_OVERFLOW", size |-> 1]

\* The chain of if (x->mask & ...) in poll().
CallbackOf(mask) ==
  CASE mask = "IN_ACCESS" -> "accessed"
    [] mask = "IN_MODIFY" -> "modified"
    [] mask = "IN_ATTRIB" -> "metadata_changed"
    [] mask = "IN_OPEN" -> "opened"
    [] mask \in {"IN_CLOSE_WRITE", "IN_CLOSE_NOWRITE"} -> "closed"
    [] mask = "IN_CREATE" -> "created"
    [] mask \in {"IN_DELETE", "IN_DELETE_SELF"} -> "deleted"
    [] mask \in {"IN_MOVED_FROM", "IN_MOVED_TO", "IN_MOVE_SELF"} -> "moved"
    [] OTHER -> "none"

Init ==
  /\ at \in {f \in [Path -> Object \cup {NoObject}] :
               \A p, q \in Path : p # q /\ f[p] = f[q] => f[p] = NoObject}
  /\ kwatch = [w \in Wd |-> NoObject]
  /\ nextWd = 1
  /\ queue = <<>>
  /\ ready = FALSE
  /\ watchMap = [w \in Wd |-> NoPath]
  /\ adding = NoPath
  /\ pc = "idle"
  /\ current = QOverflow
  /\ termApp = FALSE
  /\ app = "polling"
  /\ moved = {}
  /\ abandoned = FALSE
  /\ events = 0 /\ faults = 0 /\ resumes = 0
-----------------------------------------------------------------------------
(* The kernel.                                                             *)

Last(q) == q[Len(q)]

\* A queue takes an event unless it equals the last one queued; when it is
\* full it takes one overflow event instead of whatever else happens.
Enqueue(q, e) ==
  IF q # <<>> /\ Last(q) = e /\ e.mask # "IN_IGNORED" THEN q
  ELSE IF Len(q) < MaxQueued THEN Append(q, e)
  ELSE IF QOverflow \in {q[i] : i \in 1..Len(q)} THEN q
  ELSE Append(q, QOverflow)

\* What is queued wakes epoll: an edge.
Queue(q) ==
  /\ queue' = q
  /\ ready' = (ready \/ queue' # queue)
  /\ events < MaxEvents
  /\ events' = events + 1

WatchOf(o) == {w \in Wd : kwatch[w] = o}

\* Something is done to a watched object.
HappenSelf(w, mask) ==
  /\ kwatch[w] # NoObject
  /\ Queue(Enqueue(queue, [wd |-> w, mask |-> mask, size |-> 1]))
  /\ UNCHANGED <<at, kwatch, nextWd, moved, pollVars, watchMap, adding>>

\* Something is done to an entry of a watched directory.
HappenChild(w, mask, units) ==
  /\ kwatch[w] # NoObject
  /\ Queue(Enqueue(queue, [wd |-> w, mask |-> mask, size |-> 1 + units]))
  /\ UNCHANGED <<at, kwatch, nextWd, moved, pollVars, watchMap, adding>>

\* The object at p is deleted: its watch ends with IN_DELETE_SELF, IN_IGNORED.
DeleteObject(p) ==
  LET o == at[p]
      Gone(q, w) == Enqueue(Enqueue(q, [wd |-> w, mask |-> "IN_DELETE_SELF", size |-> 1]),
                            [wd |-> w, mask |-> "IN_IGNORED", size |-> 1])
  IN  /\ o # NoObject
      /\ at' = [at EXCEPT ![p] = NoObject]
      /\ Queue(IF WatchOf(o) = {} THEN queue
               ELSE Gone(queue, CHOOSE w \in WatchOf(o) : TRUE))
      /\ kwatch' = [w \in Wd |-> IF kwatch[w] = o THEN NoObject ELSE kwatch[w]]
      /\ moved' = moved \ {o}
      /\ UNCHANGED <<nextWd, pollVars, watchMap, adding>>

\* The object at p is renamed to q.
MoveObject(p, q) ==
  LET o == at[p]
  IN  /\ o # NoObject /\ at[q] = NoObject
      /\ at' = [at EXCEPT ![p] = NoObject, ![q] = o]
      /\ Queue(IF WatchOf(o) = {} THEN queue
               ELSE Enqueue(queue, [wd |-> CHOOSE w \in WatchOf(o) : TRUE,
                                    mask |-> "IN_MOVE_SELF", size |-> 1]))
      /\ moved' = IF WatchOf(o) = {} THEN moved ELSE moved \cup {o}
      /\ UNCHANGED <<kwatch, nextWd, pollVars, watchMap, adding>>

\* A new object appears at p.
MakeObject(p, o) ==
  /\ at[p] = NoObject /\ \A q \in Path : at[q] # o
  /\ at' = [at EXCEPT ![p] = o]
  /\ Queue(queue)
  /\ UNCHANGED <<kwatch, nextWd, moved, pollVars, watchMap, adding>>

FileSystem ==
  \/ \E w \in Wd, m \in SelfMask : HappenSelf(w, m)
  \/ \E w \in Wd, m \in ChildMask, u \in NameUnits : HappenChild(w, m, u)
  \/ \E p \in Path : DeleteObject(p)
  \/ \E p, q \in Path : MoveObject(p, q)
  \/ \E p \in Path, o \in Object : MakeObject(p, o)
-----------------------------------------------------------------------------
(* add(), called between two polls or from a callback.                     *)

\* fs::exists(path) and fs::canonical(path) succeed.
AddExists(p) ==
  /\ pc \in {"idle", "callback"} /\ app = "polling"
  /\ adding = NoPath
  /\ at[p] # NoObject
  /\ adding' = p
  /\ UNCHANGED <<fsVars, pollVars, watchMap>>

\* Mutant: the path is stored after it was moved from.
AddWatchMovedPath ==
  /\ adding # NoPath
  /\ adding' = NoPath
  /\ at[adding] # NoObject
  /\ LET o == at[adding]
         w == IF WatchOf(o) = {} THEN nextWd ELSE CHOOSE v \in WatchOf(o) : TRUE
     IN  /\ w <= MaxWd
         /\ kwatch' = [kwatch EXCEPT ![w] = o]
         /\ nextWd' = IF w = nextWd THEN w + 1 ELSE nextWd
         /\ watchMap' = [watchMap EXCEPT ![w] = adding']
         /\ moved' = moved \ {o}
  /\ UNCHANGED <<at, queue, ready, events, pollVars>>

\* inotify_add_watch() returns the descriptor the object is watched under
\* already, or a new one, and the path is stored under it.
AddWatch ==
  /\ adding # NoPath
  /\ at[adding] # NoObject
  /\ LET o == at[adding]
         w == IF WatchOf(o) = {} THEN nextWd ELSE CHOOSE v \in WatchOf(o) : TRUE
     IN  /\ w <= MaxWd
         /\ kwatch' = [kwatch EXCEPT ![w] = o]
         /\ nextWd' = IF w = nextWd THEN w + 1 ELSE nextWd
         /\ watchMap' = [watchMap EXCEPT ![w] = adding]
         /\ moved' = moved \ {o}
  /\ adding' = NoPath
  /\ UNCHANGED <<at, queue, ready, events, pollVars>>

\* The path is gone by now (ENOENT), or there are too many watches (ENOSPC).
AddFails ==
  /\ adding # NoPath
  /\ at[adding] # NoObject => WatchOf(at[adding]) = {} /\ nextWd > MaxWd
  /\ adding' = NoPath
  /\ UNCHANGED <<fsVars, pollVars, watchMap>>

Add == (\E p \in Path : AddExists(p)) \/ AddWatch \/ AddFails
-----------------------------------------------------------------------------
(* poll() and the loop of the demo.                                        *)

MayPoll == pc = "idle" /\ app = "polling" /\ adding = NoPath

\* The loop goes round again or ends, by what poll() returned.
AfterPoll(rc) ==
  /\ pc' = "idle"
  /\ app' = IF termApp \/ (rc < 0 /\ StopOnError) THEN "stopped" ELSE app

Fault == faults < MaxFault /\ faults' = faults + 1

Readable == ready /\ queue # <<>>

\* epoll_wait() reports the edge and forgets it.
EpollWait ==
  /\ MayPoll
  /\ Readable
  /\ ready' = FALSE
  /\ abandoned' = FALSE
  /\ pc' = "reading"
  /\ UNCHANGED <<at, kwatch, nextWd, queue, moved, events, watchMap, adding,
                 current, termApp, app, faults, resumes>>

\* epoll_wait() times out; an edge whose events were read since is dropped.
EpollTimeout ==
  /\ MayPoll
  /\ ~Readable
  /\ ready' = FALSE
  /\ AfterPoll(0)
  /\ UNCHANGED <<at, kwatch, nextWd, queue, moved, events, watchMap, adding,
                 current, termApp, abandoned, faults, resumes>>

\* A blocked epoll_wait() returns EINTR: SIGINT or SIGTERM set TERM_APP ...
EpollTerminated ==
  /\ MayPoll
  /\ ~Readable
  /\ termApp' = TRUE
  /\ pc' = "idle"
  /\ app' = "stopped"
  /\ UNCHANGED <<fsVars, watchMap, adding, current, abandoned, faults, resumes>>

\* ... or the process was stopped and continued.
EpollInterrupted ==
  /\ MayPoll
  /\ ~Readable
  /\ resumes < MaxResume
  /\ resumes' = resumes + 1
  /\ AfterPoll(-1)
  /\ UNCHANGED <<fsVars, watchMap, adding, current, termApp, abandoned, faults>>

EpollFails ==
  /\ MayPoll
  /\ Fault
  /\ AfterPoll(-1)
  /\ UNCHANGED <<fsVars, watchMap, adding, current, termApp, abandoned, resumes>>

\* read() copies the n events at the head of the queue: as many whole ones as
\* the buffer holds.
UnitsOf(n) ==
  LET S[i \in 0..n] == IF i = 0 THEN 0 ELSE S[i - 1] + queue[i].size IN S[n]

Fitting(n) ==
  /\ UnitsOf(n) <= BufferUnits
  /\ n < Len(queue) => UnitsOf(n + 1) > BufferUnits

\* Leaving the read loop other than by an empty queue.
LeaveLoop(q) ==
  /\ abandoned' = (q # <<>>)
  /\ AfterPoll(-1)

Known(w) == w \in Wd /\ watchMap[w] # NoPath

\* read() returns some events; poll() looks up the first of them, and goes on
\* to the next read() without looking at the others.
Read ==
  /\ pc = "reading"
  /\ queue # <<>>
  /\ \E n \in 1..Len(queue) :
       /\ Fitting(n)
       /\ queue' = SubSeq(queue, n + 1, Len(queue))
       /\ current' = queue[1]
       /\ \/ /\ Known(queue[1].wd)
             /\ pc' = "dispatch"
             /\ UNCHANGED <<app, abandoned>>
          \/ /\ ~Known(queue[1].wd)
             /\ LeaveLoop(queue')
  /\ UNCHANGED <<at, kwatch, nextWd, ready, moved, events, watchMap, adding,
                 termApp, faults, resumes>>

\* Mutant: "if (read() > 0)" for "while (read() > 0)".
ReturnAfterRead ==
  /\ pc = "reading"
  /\ AfterPoll(1)
  /\ UNCHANGED <<fsVars, watchMap, adding, current, termApp, abandoned, faults, resumes>>

\* read() returns EAGAIN: the queue is empty, poll() returns 1.
Drained ==
  /\ pc = "reading"
  /\ queue = <<>>
  /\ AfterPoll(1)
  /\ UNCHANGED <<fsVars, watchMap, adding, current, termApp, abandoned, faults, resumes>>

\* read() fails in another way.
ReadFails ==
  /\ pc = "reading"
  /\ Fault
  /\ LeaveLoop(queue)
  /\ UNCHANGED <<fsVars, watchMap, adding, current, termApp, resumes>>

\* Mutant: the entry of a moved object is erased when it is reported.
DispatchErasing ==
  /\ pc = "dispatch"
  /\ pc' = IF CallbackOf(current.mask) \in Installed THEN "callback" ELSE "reading"
  /\ watchMap' = IF current.mask = "IN_MOVE_SELF"
                 THEN [watchMap EXCEPT ![current.wd] = NoPath] ELSE watchMap
  /\ UNCHANGED <<fsVars, adding, current, termApp, app, abandoned, faults, resumes>>

\* The callback of the mask is called if it is set.
Dispatch ==
  /\ pc = "dispatch"
  /\ pc' = IF CallbackOf(current.mask) \in Installed THEN "callback" ELSE "reading"
  /\ UNCHANGED <<fsVars, watchMap, adding, current, termApp, app,
                 abandoned, faults, resumes>>

CallbackReturns ==
  /\ pc = "callback" /\ adding = NoPath
  /\ pc' = "reading"
  /\ UNCHANGED <<fsVars, watchMap, adding, current, termApp, app,
                 abandoned, faults, resumes>>

\* An exception of the callback leaves poll().
CallbackThrows ==
  /\ pc = "callback" /\ adding = NoPath
  /\ Fault
  /\ LeaveLoop(queue)
  /\ UNCHANGED <<fsVars, watchMap, adding, current, termApp, resumes>>

Poll ==
  \/ EpollWait \/ EpollTimeout \/ Read \/ Drained \/ Dispatch \/ CallbackReturns

Next ==
  \/ FileSystem \/ Add \/ Poll
  \/ EpollTerminated \/ EpollInterrupted \/ EpollFails \/ ReadFails \/ CallbackThrows

Spec == Init /\ [][Next]_vars

\* The loop comes back to poll() whatever it adds in between, and a poll() or an
\* add() that has begun goes on.  The file system owes nothing, and no signal
\* has to come.
Fairness == SF_vars(Poll) /\ WF_vars(AddWatch \/ AddFails)

FairSpec == Spec /\ Fairness
-----------------------------------------------------------------------------
Mask == SelfMask \cup ChildMask
          \cup {"IN_DELETE_SELF", "IN_MOVE_SELF", "IN_IGNORED", "IN_Q_OVERFLOW"}
Event == [wd : Wd \cup {-1}, mask : Mask, size : 1..BufferUnits]

\* The values of the variables; the watch map has an entry for every watch
\* descriptor there ever was (nothing erases one).
TypeOK ==
  /\ at \in [Path -> Object \cup {NoObject}]
  /\ kwatch \in [Wd -> Object \cup {NoObject}]
  /\ nextWd \in 1..(MaxWd + 1)
  /\ queue \in Seq(Event) /\ Len(queue) <= MaxQueued + 1
  /\ ready \in BOOLEAN
  /\ watchMap \in [Wd -> Path \cup {NoPath}]
  /\ \A w \in Wd : watchMap[w] = NoPath <=> w >= nextWd
  /\ adding \in Path \cup {NoPath}
  /\ pc \in {"idle", "reading", "dispatch", "callback"}
  /\ current \in Event
  /\ termApp \in BOOLEAN /\ abandoned \in BOOLEAN
  /\ app \in {"polling", "stopped"}
  /\ moved \subseteq Object
  /\ events \in 0..MaxEvents /\ faults \in 0..MaxFault /\ resumes \in 0..MaxResume

\* The edge-triggered descriptor never leaves events behind unnoticed: between
\* two polls, if there is something to read then epoll will report it, unless
\* the last read loop was left by an error (inotify.cpp:137-141, 242-250) or by
\* an exception of a callback.
NoLostWakeup ==
  pc = "idle" /\ queue # <<>> => ready \/ abandoned

\* Every event that can still come out of the queue, and every watch that can
\* still produce one, has its entry in the watch map, so that "entry not found
\* in watch map" (inotify.cpp:137) is only ever the answer to an overflow.
EveryWatchIsMapped ==
  /\ \A w \in Wd : kwatch[w] # NoObject => Known(w)
  /\ \A i \in 1..Len(queue) : queue[i] = QOverflow \/ Known(queue[i].wd)

\* The path poll() reports for a watch leads to the object that is watched, or
\* that object was renamed after the last add() of it: adding the new path
\* makes the reports right again.
WatchedPathIsCurrent ==
  \A w \in Wd : kwatch[w] # NoObject =>
    at[watchMap[w]] = kwatch[w] \/ kwatch[w] \in moved

\* The watch map has what poll() needs of it: each watch, under a path that leads
\* to what is watched.
WatchMapIsCurrent == EveryWatchIsMapped /\ WatchedPathIsCurrent

\* Whatever the kernel queued is taken out of the queue, unless the loop ends or
\* an error or an exception has left the read loop (inotify.cpp:137-141, 163,
\* 242-250): then it waits for an event that may never come.
EventsAreRead ==
  queue # <<>> ~> (queue = <<>> \/ app = "stopped" \/ abandoned)

\* Every event has its callback called ("closed;  // inotify" and its siblings,
\* functional.hpp:22-29): what read() takes from the queue together with the
\* event that poll() goes on with is nothing a callback is set for.
EveryEventIsDispatched ==
  [][pc = "reading" /\ pc' = "dispatch" =>
       \A i \in 2..(Len(queue) - Len(queue')) :
         CallbackOf(queue[i].mask) \notin Installed]_vars
=============================================================================
