--------------------------- MODULE MCDevices_proofs ---------------------------
(***************************************************************************)
(* What the run devices checks of the observer on udev, of the session     *)
(* with PulseAudio, of the list of Video4Linux2 and of the descriptors of  *)
(* the monitor, for any devices, cameras and links, any number of events,  *)
(* calls, changes and faults, and any size of the socket.                  *)
(***************************************************************************)
EXTENDS MCDevices, SequenceTheorems, TLAPS

Uevents == [dev : Device, action : {"add", "remove", "bind", "unbind", "change"}]

EveryCallback == Hooked = {"arrived", "removed", "bound", "unbound"}

\* The actions of the events lead to a status, but for "change".
LEMMA Actions ==
  ASSUME NEW s \in Status, NEW a \in May(s)
  PROVE  /\ a \in {"add", "remove", "bind", "unbind", "change"}
         /\ a # "change" => After(a) \in Status
         /\ CallbackOf(a) \in Hooked => a # "change" /\ After(a) \in Status
BY ObserverAssumption DEF Status, May, After, CallbackOf

LEMMA UdevInit == Init => TypeOK /\ NothingIsSkipped
<1> SUFFICES ASSUME Init PROVE TypeOK /\ NothingIsSkipped
  OBVIOUS
<1>1. queue \in Seq(Uevents) /\ Len(queue) = 0
  BY EmptySeq DEF Init
<1>2. Len(queue) <= MaxBacklog /\ events \in 0..MaxEvents
  BY <1>1, ObserverAssumption DEF Init
<1>3. status \in [Device -> Status] /\ view \in [Device -> Status]
  BY DEF Init
<1>4. /\ life \in {"new", "up", "failed", "thrown", "gone", "aborted"}
      /\ life # "gone" /\ life # "up"
      /\ held \subseteq {"rep", "u", "m", "ed"} /\ pc \in {"idle", "receiving"}
  BY DEF Init
<1>5. {overrun, ready, dropped} \subseteq BOOLEAN
  BY DEF Init
<1>6. TypeOK
  BY <1>1, <1>2, <1>3, <1>4, <1>5 DEF TypeOK, Uevents
<1>7. NothingIsSkipped
  BY <1>4 DEF NothingIsSkipped
<1>8. QED
  BY <1>6, <1>7

LEMMA UdevEvent ==
  ASSUME TypeOK, NEW d \in Device, NEW a \in May(status[d]), Uevent(d, a)
  PROVE  /\ TypeOK'
         /\ EveryCallback /\ NothingIsSkipped => NothingIsSkipped'
<1> DEFINE e == [dev |-> d, action |-> a]
<1>1. status[d] \in Status
  BY DEF TypeOK
<1>2. a \in {"add", "remove", "bind", "unbind", "change"} /\ (a # "change" => After(a) \in Status)
  BY <1>1, Actions
<1>3. status' = IF a = "change" THEN status ELSE [status EXCEPT ![d] = After(a)]
  BY DEF Uevent
<1>4. status' \in [Device -> Status]
  BY <1>2, <1>3 DEF TypeOK
<1>5. UNCHANGED <<life, held, pc>> /\ events' \in 0..MaxEvents
  BY ObserverAssumption DEF Uevent, TypeOK
<1>6. queue \in Seq(Uevents) /\ Len(queue) \in Nat /\ Len(queue) <= MaxBacklog
  BY LenProperties DEF TypeOK, Uevents
<1>7. CASE life # "up"
  <2>1. view' = status' /\ UNCHANGED <<queue, overrun, dropped, ready>>
    BY <1>7 DEF Uevent
  <2>2. TypeOK'
    BY <1>4, <1>5, <2>1 DEF TypeOK
  <2>3. NothingIsSkipped'
    BY <1>5, <1>7 DEF NothingIsSkipped
  <2>4. QED
    BY <2>2, <2>3
<1>8. CASE life = "up" /\ ~(Len(queue) < MaxBacklog)
  <2>1. UNCHANGED <<view, queue>> /\ overrun' = TRUE /\ dropped' = TRUE /\ ready' = TRUE
    BY <1>8 DEF Uevent
  <2>2. TypeOK'
    BY <1>4, <1>5, <2>1 DEF TypeOK
  <2>3. NothingIsSkipped'
    BY <2>1 DEF NothingIsSkipped
  <2>4. QED
    BY <2>2, <2>3
<1>9. CASE life = "up" /\ Len(queue) < MaxBacklog
  <2>1. /\ UNCHANGED <<view, overrun, dropped>> /\ ready' = TRUE
        /\ queue' = Append(queue, e)
    BY <1>9 DEF Uevent
  <2>2. e \in Uevents
    BY <1>2 DEF Uevents
  <2>3. /\ queue' \in Seq(Uevents) /\ Len(queue') = Len(queue) + 1
        /\ \A i \in 1..Len(queue) : queue'[i] = queue[i]
        /\ queue'[Len(queue) + 1] = e
    BY <1>6, <2>1, <2>2, AppendProperties
  <2>4. TypeOK'
    <3>1. Len(queue') <= MaxBacklog
      BY <1>6, <1>9, <2>3, ObserverAssumption
    <3>2. view' \in [Device -> Status]
      BY <2>1 DEF TypeOK
    <3>3. {overrun', ready', dropped'} \subseteq BOOLEAN
      BY <2>1 DEF TypeOK
    <3>4. /\ life' \in {"new", "up", "failed", "thrown", "gone", "aborted"}
          /\ held' \subseteq {"rep", "u", "m", "ed"} /\ pc' \in {"idle", "receiving"}
          /\ life' = "gone" => held' = {}
      BY <1>5 DEF TypeOK
    <3>5. QED
      BY <1>4, <1>5, <2>3, <3>1, <3>2, <3>3, <3>4 DEF TypeOK, Uevents
  <2>5. ASSUME EveryCallback, NothingIsSkipped, ~dropped, NEW c \in Device
        PROVE  /\ \A i \in 1..Len(queue') :
                    Tells(i, c)' /\ (\A j \in 1..Len(queue') : Tells(j, c)' => j <= i) =>
                      status'[c] = After(queue'[i].action)
               /\ (\A i \in 1..Len(queue') : ~Tells(i, c)') => view'[c] = status'[c]
    <3> DEFINE n == Len(queue)
               Told(i) == queue'[i].dev = c /\ CallbackOf(queue'[i].action) \in Hooked
    <3>1. \A i \in 1..n : Told(i) <=> Tells(i, c)
      BY <2>3 DEF Tells
    <3>2. 1..Len(queue') = 1..n \cup {n + 1} /\ n \in Nat
      BY <1>6, <2>3
    <3>3. /\ \A i \in 1..n : Tells(i, c) /\ (\A j \in 1..n : Tells(j, c) => j <= i) =>
               status[c] = After(queue[i].action)
          /\ (\A i \in 1..n : ~Tells(i, c)) => view[c] = status[c]
      BY <1>9, <2>5 DEF NothingIsSkipped
    <3>4. Told(n + 1) <=> c = d /\ a # "change"
      <4>1. queue'[n + 1].dev = d /\ queue'[n + 1].action = a
        BY <2>3
      <4>2. CallbackOf(a) \in Hooked <=> a # "change"
        BY <1>2, <2>5 DEF CallbackOf, EveryCallback
      <4>3. QED
        BY <4>1, <4>2
    <3>5. \A i \in 1..n : queue'[i] = queue[i]
      BY <2>3
    <3>6. queue'[n + 1].action = a
      BY <2>3
    <3> HIDE DEF Told, n
    <3>7. ASSUME NEW i \in 1..Len(queue'), Told(i),
                 \A j \in 1..Len(queue') : Told(j) => j <= i
          PROVE  status'[c] = After(queue'[i].action)
      <4>1. CASE c = d /\ a # "change"
        <5>1. i = n + 1
          BY <3>2, <3>4, <3>7, <4>1
        <5>2. status'[c] = After(a)
          BY <1>3, <4>1 DEF TypeOK
        <5>3. QED
          BY <3>6, <5>1, <5>2
      <4>2. CASE ~(c = d /\ a # "change")
        <5>1. status'[c] = status[c]
          BY <1>3, <4>2 DEF TypeOK
        <5>2. i \in 1..n
          BY <3>2, <3>4, <3>7, <4>2
        <5>3. Tells(i, c) /\ \A j \in 1..n : Tells(j, c) => j <= i
          BY <3>1, <3>2, <3>7, <5>2
        <5>4. QED
          BY <3>3, <3>5, <5>1, <5>2, <5>3
      <4>3. QED
        BY <4>1, <4>2
    <3>8. ASSUME \A i \in 1..Len(queue') : ~Told(i)
          PROVE  view'[c] = status'[c]
      <4>1. ~(c = d /\ a # "change")
        BY <3>2, <3>4, <3>8
      <4>2. status'[c] = status[c]
        BY <1>3, <4>1 DEF TypeOK
      <4>3. \A i \in 1..n : ~Tells(i, c)
        BY <3>1, <3>2, <3>8
      <4>4. QED
        BY <2>1, <3>3, <4>2, <4>3
    <3>9. QED
      BY <3>7, <3>8 DEF Told, Tells
  <2>6. QED
    BY <2>1, <2>4, <2>5 DEF NothingIsSkipped
<1>10. QED
  BY <1>7, <1>8, <1>9

LEMMA UdevReceive ==
  ASSUME TypeOK, Receive
  PROVE  /\ TypeOK'
         /\ NothingIsSkipped => NothingIsSkipped'
<1>1. UNCHANGED <<life, held, status, dropped, events, ready>> /\ pc' = "idle"
  BY DEF Receive
<1>2. CASE overrun \/ queue = <<>>
  <2>1. (UNCHANGED <<queue, view>> /\ overrun' = FALSE)
    BY <1>2 DEF Receive
  <2>2. TypeOK'
    BY <1>1, <2>1 DEF TypeOK
  <2>3. NothingIsSkipped => NothingIsSkipped'
    BY <1>1, <2>1 DEF NothingIsSkipped, Tells
  <2>4. QED
    BY <2>2, <2>3
<1>3. CASE ~overrun /\ queue # <<>>
  <2> DEFINE e == queue[1]
             n == Len(queue)
  <2>1. queue' = Tail(queue) /\ view' = Apply(view, Head(queue)) /\ UNCHANGED overrun
    BY <1>3 DEF Receive
  <2>2. queue \in Seq(Uevents) /\ n <= MaxBacklog
    BY DEF TypeOK, Uevents
  <2>3. n \in Nat \ {0} /\ Head(queue) = e /\ e \in Uevents
    BY <1>3, <2>2, LenProperties, EmptySeq, HeadTailProperties, ElementOfSeq
  <2>4. /\ queue' \in Seq(Uevents) /\ Len(queue') = n - 1
        /\ \A i \in 1..(n - 1) : queue'[i] = queue[i + 1]
    BY <1>3, <2>1, <2>2, HeadTailProperties
  <2>5. view' = IF CallbackOf(e.action) \in Hooked
                THEN [view EXCEPT ![e.dev] = After(e.action)] ELSE view
    BY <2>1, <2>3 DEF Apply
  <2>6. CallbackOf(e.action) \in Hooked => After(e.action) \in Status
    BY <2>3, ObserverAssumption DEF Uevents, CallbackOf, After, Status
  <2>7. view' \in [Device -> Status]
    BY <2>3, <2>5, <2>6 DEF TypeOK, Uevents
  <2>8. TypeOK'
    <3>1. Len(queue') <= MaxBacklog
      BY <2>2, <2>3, <2>4, ObserverAssumption
    <3>2. {overrun', ready', dropped'} \subseteq BOOLEAN
      BY <1>1, <2>1 DEF TypeOK
    <3>3. QED
      BY <1>1, <2>4, <2>7, <3>1, <3>2 DEF TypeOK, Uevents
  <2>9. ASSUME NothingIsSkipped, life = "up", ~dropped, NEW c \in Device
        PROVE  /\ \A i \in 1..Len(queue') :
                    Tells(i, c)' /\ (\A j \in 1..Len(queue') : Tells(j, c)' => j <= i) =>
                      status'[c] = After(queue'[i].action)
               /\ (\A i \in 1..Len(queue') : ~Tells(i, c)') => view'[c] = status'[c]
    <3>1. \A i \in 1..(n - 1) : Tells(i, c)' <=> Tells(i + 1, c)
      BY <2>4 DEF Tells
    <3>2. /\ \A i \in 1..n : Tells(i, c) /\ (\A j \in 1..n : Tells(j, c) => j <= i) =>
               status[c] = After(queue[i].action)
          /\ (\A i \in 1..n : ~Tells(i, c)) => view[c] = status[c]
      BY <2>9 DEF NothingIsSkipped
    <3>3. \A j \in 1..n : j = 1 \/ (j - 1 \in 1..(n - 1) /\ j = (j - 1) + 1)
      BY <2>3
    <3>4. ASSUME NEW i \in 1..(n - 1), Tells(i, c)',
                 \A j \in 1..(n - 1) : Tells(j, c)' => j <= i
          PROVE  status[c] = After(queue'[i].action)
      <4>1. i + 1 \in 1..n /\ Tells(i + 1, c)
        BY <2>3, <3>1, <3>4
      <4>2. ASSUME NEW j \in 1..n, Tells(j, c) PROVE j <= i + 1
        <5>1. CASE j = 1
          BY <5>1
        <5>2. CASE j # 1
          <6>1. j - 1 \in 1..(n - 1) /\ (j - 1) + 1 = j
            BY <3>3, <5>2
          <6>2. Tells(j - 1, c)'
            BY <3>1, <4>2, <6>1
          <6>3. j - 1 <= i
            BY <3>4, <6>1, <6>2
          <6>4. QED
            BY <6>3
        <5>3. QED
          BY <5>1, <5>2
      <4>3. status[c] = After(queue[i + 1].action)
        BY <3>2, <4>1, <4>2
      <4>4. QED
        BY <2>4, <4>3
    <3>5. ASSUME \A i \in 1..(n - 1) : ~Tells(i, c)'
          PROVE  view'[c] = status[c]
      <4>1. \A j \in 1..n : Tells(j, c) => j = 1
        BY <3>1, <3>3, <3>5
      <4>2. CASE Tells(1, c)
        <5>1. status[c] = After(e.action)
          BY <2>3, <3>2, <4>1, <4>2
        <5>2. view'[c] = After(e.action)
          BY <2>5, <4>2 DEF Tells, TypeOK
        <5>3. QED
          BY <5>1, <5>2
      <4>3. CASE ~Tells(1, c)
        <5>1. view[c] = status[c]
          BY <3>2, <4>1, <4>3
        <5>2. view'[c] = view[c]
          BY <2>5, <4>3 DEF Tells, TypeOK
        <5>3. QED
          BY <5>1, <5>2
      <4>4. QED
        BY <4>2, <4>3
    <3>6. QED
      BY <1>1, <2>4, <3>4, <3>5
  <2>10. NothingIsSkipped => NothingIsSkipped'
    BY <1>1, <2>9 DEF NothingIsSkipped
  <2>11. QED
    BY <2>8, <2>10
<1>4. QED
  BY <1>2, <1>3

LEMMA UdevStep ==
  ASSUME TypeOK, [Next]_vars
  PROVE  TypeOK' /\ (EveryCallback /\ NothingIsSkipped => NothingIsSkipped')
<1>1. CASE Construct
  <2>1. /\ life' = "up" /\ held' = {"rep", "u", "m", "ed"} /\ view' = status
        /\ queue' = <<>> /\ ready' = TRUE
        /\ UNCHANGED <<status, overrun, dropped, events, pc>>
    BY <1>1 DEF Construct, Acquired
  <2>2. queue' \in Seq(Uevents) /\ Len(queue') = 0
    BY <2>1, EmptySeq
  <2>3. TypeOK'
    BY <2>1, <2>2, ObserverAssumption DEF TypeOK, Uevents
  <2>4. NothingIsSkipped'
    BY <2>1, <2>2 DEF NothingIsSkipped
  <2>5. QED
    BY <2>3, <2>4
<1>2. CASE ConstructFails \/ ConstructThrows
  <2>1. /\ life' \in {"failed", "thrown"} /\ held' \subseteq {"rep", "u", "m", "ed"}
        /\ UNCHANGED <<status, queue, overrun, dropped, events, ready, pc, view>>
    BY <1>2 DEF ConstructFails, ConstructThrows, Acquired, kernelVars
  <2>2. QED
    BY <2>1 DEF TypeOK, NothingIsSkipped
<1>3. CASE Destroy
  <2>1. /\ life' \in {"gone", "aborted"} /\ held' \in {{}, held}
        /\ life' = "gone" => held' = {}
        /\ ready' = FALSE
        /\ UNCHANGED <<status, queue, overrun, dropped, events, pc, view>>
    BY <1>3 DEF Destroy, kernelVars
  <2>2. QED
    BY <2>1 DEF TypeOK, NothingIsSkipped
<1>4. CASE EpollWait
  <2>1. /\ UNCHANGED <<life, held, status, queue, overrun, dropped, events, view>>
        /\ ready' = FALSE /\ pc' = "receiving"
    BY <1>4 DEF EpollWait, kernelVars
  <2>2. QED
    BY <2>1 DEF TypeOK, NothingIsSkipped, Tells
<1>5. CASE EpollNothing \/ UNCHANGED vars
  <2>1. UNCHANGED <<life, held, status, queue, overrun, dropped, events, view, ready, pc>>
    BY <1>5 DEF EpollNothing, vars, kernelVars
  <2>2. QED
    BY <2>1 DEF TypeOK, NothingIsSkipped, Tells
<1>6. QED
  BY <1>1, <1>2, <1>3, <1>4, <1>5, UdevEvent, UdevReceive DEF Next, Poll
-----------------------------------------------------------------------------
(* The descriptors of the monitor of the file system.                      *)

\* What belongs to the monitor at each step of its life.
Monitors == {d \in Life!Descriptor : iOwner[d] = "monitor"}

Own ==
  CASE iState = "init" -> {}
    [] iState = "epoll" -> {iFd}
    [] iState \in {"control", "alive"} -> {iFd, iEd}
    [] iState = "closing" -> {0, iEd}
    [] iState = "gone" -> {0}

\* A monitor whose inotify descriptor has been opened owns the one, and the other
\* as soon as there is one, until each is closed: so that nobody else has got the
\* number meanwhile, which is what DescriptorsAreOwned needs.
LifeInv ==
  /\ Life!TypeOK
  /\ iState \in {"init", "epoll", "control", "alive", "closing", "gone", "thrown"}
  /\ iInitFailed \in BOOLEAN
  /\ iInitFailed => Monitors = {} /\ iState \notin {"init", "epoll", "control"}
  /\ ~iInitFailed =>
       /\ iTaken = {}
       /\ iState # "thrown" => Monitors \subseteq Own
       /\ iState \in {"epoll", "control", "alive"} => iFd \in Monitors
       /\ iState = "control" => iEd \in Monitors
       /\ iState \in {"alive", "closing"} => iEd = -1 \/ iEd \in Monitors
       /\ iState \in {"control", "alive"} => iFd # iEd

LEMMA LifeInit == Life!Init => LifeInv
BY DEF Life!Init, LifeInv, Life!TypeOK, Monitors, Own, Life!Descriptor

LEMMA LifeStep ==
  ASSUME MaxDescriptor \in Nat, LifeInv, Life!Next
  PROVE  LifeInv'
<1> USE DEF LifeInv, Life!TypeOK, Monitors, Own, Life!Descriptor, Life!Free, Life!LowestFree,
            Life!Fail
<1>1. CASE Life!OtherMoves
  <2>1. Monitors' = Monitors /\ UNCHANGED <<iFd, iEd, iPlace, iState, iInitFailed, iTaken>>
    BY <1>1 DEF Life!OtherMoves
  <2>2. Life!TypeOK'
    BY <1>1 DEF Life!OtherMoves
  <2>3. QED
    BY <2>1, <2>2
<1>2. CASE Life!InotifyInit
  <2>1. UNCHANGED <<iEd, iPlace, iTaken>> /\ Monitors = {} /\ ~iInitFailed /\ iTaken = {}
    BY <1>2 DEF Life!InotifyInit
  <2>2. CASE iFd' = -1 /\ iInitFailed' = TRUE /\ Life!Fail /\ UNCHANGED iOwner
    BY <2>1, <2>2
  <2>3. CASE /\ iFd' \in Life!LowestFree /\ iOwner' = [iOwner EXCEPT ![iFd'] = "monitor"]
             /\ iState' = "epoll" /\ UNCHANGED iInitFailed
    BY <2>1, <2>3
  <2>4. QED
    BY <1>2, <2>2, <2>3 DEF Life!InotifyInit
<1>3. CASE Life!EpollCreate
  BY <1>3 DEF Life!EpollCreate
<1>4. CASE Life!EpollControl
  BY <1>4 DEF Life!EpollControl
<1>5. CASE Life!CloseInotify
  BY <1>5 DEF Life!CloseInotify, Life!CloseDescriptor
<1>6. CASE Life!CloseEpoll
  BY <1>6 DEF Life!CloseEpoll, Life!CloseDescriptor
<1>7. QED
  BY <1>1, <1>2, <1>3, <1>4, <1>5, <1>6 DEF Life!Next

LEMMA LifeOwned == LifeInv => Life!TypeOK /\ Life!DescriptorsAreOwned
BY DEF LifeInv, Life!DescriptorsAreOwned, Monitors, Own
-----------------------------------------------------------------------------
(* The list of Video4Linux2.                                               *)

\* A call that has an entry of the list in work.
Entered == {"current", "formats", "sizes", "rates"}
Asking == {"capabilities"} \cup Entered

Entry == [id : Node, current : Nat, formats : Seq(Format)]

VideoTypes ==
  /\ Video!TypeOK
  /\ vStep \in Asking \cup {"scan", "thrown", "open", "end"}
  /\ vStep \in Asking => vAt <= Len(vFiles)
  /\ vResult \in Seq(Entry)

\* Each file is found once, and what stays is found.
Scanned ==
  /\ \A i, j \in DOMAIN vFiles : vFiles[i] = vFiles[j] => i = j
  /\ \A n \in vPlugged \ vDisturbed : n \in vUnseen \/ \E i \in DOMAIN vFiles : vFiles[i] = n
  /\ vStep \in {"scan", "thrown"} => vAt = 1 /\ vResult = <<>>
  /\ vStep \notin {"scan", "thrown"} => vUnseen = {}

\* The descriptor is open while a device is asked, and dead only if it has gone.
Descriptor ==
  /\ vFd = "closed" <=> vStep \notin Asking
  /\ vFd = "dead" => vFiles[vAt] \in vDisturbed

\* The files that have an entry, if they are of capture devices.
Behind == {k \in DOMAIN vFiles : k < vAt \/ (k = vAt /\ vStep \in Entered)}

\* The list has an entry for each of the files passed, and the one in work is last.
OneEntryEach ==
  /\ \A i, j \in DOMAIN vResult : vResult[i].id = vResult[j].id => i = j
  /\ \A i \in DOMAIN vResult : \E k \in Behind : vResult[i].id = vFiles[k]
  /\ \A k \in Behind : vFiles[k] \in (vPlugged \cap Capture) \ vDisturbed =>
       \E i \in DOMAIN vResult : vResult[i].id = vFiles[k]
  /\ vStep \in Entered => Len(vResult) > 0 /\ vResult[Len(vResult)].id = vFiles[vAt]
  /\ vStep = "end" => vAt > Len(vFiles)

\* What any entry has, also one of a device that has been moved.
Begun(r) ==
  /\ Len(r.formats) <= Len(Driver[r.id].formats)
  /\ \A k \in DOMAIN r.formats : r.formats[k].name = Driver[r.id].formats[k].name
  /\ r.formats = <<>> => r.current = 1
  /\ r.formats # <<>> => r.current \in DOMAIN r.formats

Finished(r) == Begun(r) /\ (r.id \notin vDisturbed => Video!Whole(r))

\* The device in work has not been moved, and it has answered so far.
Trusted == vFiles[vAt] \notin vDisturbed

EntriesFinished ==
  \A i \in DOMAIN vResult : i < Len(vResult) \/ vStep \notin Entered => Finished(vResult[i])

\* The entry in work: its formats are as many as were asked for, and the current
\* one is the last of them with its name.
FormatsSoFar(r) ==
  /\ Begun(r)
  /\ Len(r.formats) = CASE vStep = "current" -> 0 [] vStep = "formats" -> vFormat - 1
                        [] vStep \in {"sizes", "rates"} -> vFormat
  /\ (\E k \in DOMAIN r.formats : r.formats[k].name = vCurrent) =>
       r.formats[r.current].name = vCurrent

\* What has come of a device that is trusted: formats that are whole,
\* and of the last one sizes, and of the last size rates.
WholeSoFar(r) ==
  /\ vStep # "current" => vCurrent = Driver[r.id].current
  /\ \A k \in DOMAIN r.formats : k < vFormat \/ vStep = "formats" =>
       Video!WholeFormat(r.formats[k], Driver[r.id].formats[k])

SizeTold(s, t) ==
  /\ s.area = t.area
  /\ Video!RatesOrdered(s.rates) /\ Video!Range(s.rates) = Video!Range(t.rates)

RatesSoFar(s, t, n) ==
  /\ s.area = t.area
  /\ Len(s.rates) = n /\ n <= Len(t.rates)
  /\ \A m \in 1..n : s.rates[m] = t.rates[m]

SizesSoFar(f, t) ==
  /\ Len(f.sizes) <= Len(t.sizes)
  /\ \A j \in DOMAIN f.sizes : j < vSize => SizeTold(f.sizes[j], t.sizes[j])
  /\ vStep = "rates" => RatesSoFar(f.sizes[vSize], t.sizes[vSize], vRate - 1)

EntrySoFar ==
  vStep \in Entered =>
    LET r == vResult[Len(vResult)] IN
    /\ FormatsSoFar(r)
    /\ Trusted => WholeSoFar(r)
    /\ vStep \in {"sizes", "rates"} =>
         /\ Len(r.formats[vFormat].sizes) = IF vStep = "sizes" THEN vSize - 1 ELSE vSize
         /\ Trusted => SizesSoFar(r.formats[vFormat], Driver[r.id].formats[vFormat])

VideoInv ==
  VideoTypes /\ Scanned /\ Descriptor /\ OneEntryEach /\ EntriesFinished /\ EntrySoFar

LEMMA VideoInit == Video!Init => VideoInv
<1> SUFFICES ASSUME Video!Init PROVE VideoInv
  OBVIOUS
<1>1. /\ vFiles \in Seq(Node) /\ Len(vFiles) = 0 /\ DOMAIN vFiles = {}
      /\ vResult \in Seq(Entry) /\ DOMAIN vResult = {}
  BY EmptySeq DEF Video!Init
<1>2. VideoTypes
  BY <1>1 DEF Video!Init, VideoTypes, Video!TypeOK, Asking, Entered
<1>3. Scanned /\ Descriptor /\ EntrySoFar
  BY <1>1 DEF Video!Init, Scanned, Descriptor, EntrySoFar, Asking, Entered
<1>4. OneEntryEach /\ EntriesFinished
  BY <1>1 DEF Video!Init, OneEntryEach, EntriesFinished, Behind, Entered
<1>5. QED
  BY <1>2, <1>3, <1>4 DEF VideoInv

\* What std::sort() makes of a sequence has the same elements.
LEMMA ShuffledFacts ==
  ASSUME NEW S, NEW s \in Seq(S), NEW t \in Video!Shuffled(s)
  PROVE  /\ t \in Seq(S) /\ Len(t) = Len(s)
         /\ Video!Range(t) = Video!Range(s)
<1>1. PICK p \in Video!Bijection(DOMAIN s, DOMAIN s) : t = [i \in DOMAIN s |-> s[p[i]]]
  BY DEF Video!Shuffled
<1>2. /\ p \in [DOMAIN s -> DOMAIN s]
      /\ \A i \in DOMAIN s : \E j \in DOMAIN s : p[j] = i
  BY <1>1 DEF Video!Bijection, Video!Injection, Video!Surjection
<1>3. DOMAIN s = 1..Len(s) /\ Len(s) \in Nat /\ \A i \in DOMAIN s : s[i] \in S
  OBVIOUS
<1>4. t \in [1..Len(s) -> S]
  BY <1>1, <1>2, <1>3
<1>5. t \in Seq(S) /\ Len(t) = Len(s)
  BY <1>3, <1>4
<1>6. Video!Range(t) = Video!Range(s)
  BY <1>1, <1>2 DEF Video!Range
<1>7. QED
  BY <1>5, <1>6

\* A system call for the device in work is answered, or it fails.
Asked == vDisturbed' \in {vDisturbed, vDisturbed \cup {vFiles[vAt]}}

\* An entry that is finished stays so, whatever becomes of devices.
LEMMA FinishedStays ==
  ASSUME NEW r, Finished(r), vDisturbed \subseteq vDisturbed'
  PROVE  Finished(r)'
BY DEF Finished, Begun

LEMMA PlugStep == ASSUME VideoInv, Video!Plug PROVE VideoInv'
<1>1. PICK n \in Node :
        /\ Video!Toggle(n)
        /\ vPlugged' = IF n \in vPlugged THEN vPlugged \ {n} ELSE vPlugged \cup {n}
        /\ vFd' = IF vFd # "closed" /\ n = Video!Now THEN "dead" ELSE vFd
  BY DEF Video!Plug
<1>2. vDisturbed' = vDisturbed \cup {n}
      /\ UNCHANGED <<vStep, vUnseen, vFiles, vAt, vCurrent, vFormat, vSize, vRate, vResult>>
  BY <1>1 DEF Video!Plug, Video!Toggle, Video!indices
<1>3. VideoTypes'
  BY <1>1, <1>2 DEF VideoInv, VideoTypes, Video!TypeOK
<1>4. Scanned'
  BY <1>1, <1>2 DEF VideoInv, Scanned
<1>5. Descriptor'
  BY <1>1, <1>2 DEF VideoInv, Descriptor, Video!Now
<1>6. OneEntryEach'
  BY <1>1, <1>2 DEF VideoInv, OneEntryEach, Behind
<1>7. EntriesFinished'
  BY <1>2, FinishedStays DEF VideoInv, EntriesFinished
<1>8. EntrySoFar'
  <2>1. Trusted' => Trusted
    BY <1>2 DEF Trusted
  <2>2. QED
    BY <1>2, <2>1
       DEF VideoInv, EntrySoFar, FormatsSoFar, WholeSoFar, SizesSoFar, RatesSoFar, SizeTold, Begun
<1>9. QED
  BY <1>3, <1>4, <1>5, <1>6, <1>7, <1>8 DEF VideoInv

LEMMA ScanStep ==
  ASSUME VideoInv, Video!Scan \/ Video!ScanThrows \/ Video!ScanEnds
  PROVE  VideoInv'
<1> DEFINE Rest == UNCHANGED <<vAt, vFd, vCurrent, vFormat, vSize, vRate, vResult>>
<1>1. vStep = "scan" /\ vAt = 1 /\ vResult = <<>> /\ vFd = "closed" /\ Rest
  BY DEF VideoInv, Scanned, Descriptor, Asking, Entered, Video!Scan, Video!ScanThrows,
         Video!ScanEnds, Video!indices
<1>2. vResult \in Seq(Entry) /\ DOMAIN vResult = {} /\ Behind = {}
  <2>1. DOMAIN vResult = {} /\ vFiles \in Seq(Node)
    BY <1>1 DEF VideoInv, VideoTypes, Video!TypeOK
  <2>2. QED
    BY <1>1, <2>1 DEF VideoInv, VideoTypes, Behind, Entered
<1>3. /\ vFiles' \in Seq(Node) /\ Len(vFiles) \in Nat /\ Len(vFiles') >= Len(vFiles)
      /\ vStep' \in {"scan", "thrown", "open"}
      /\ vPlugged' \cup vDisturbed' \subseteq Node /\ vUnseen' \subseteq vUnseen
      /\ Scanned'
  <2>1. /\ vFiles \in Seq(Node) /\ vUnseen \subseteq Node \cup Link
        /\ vPlugged \cup vDisturbed \subseteq Node
    BY DEF VideoInv, VideoTypes, Video!TypeOK
  <2>2. CASE Video!Scan
    <3>1. PICK e \in vUnseen : Video!AddFile(e) /\ vUnseen' = vUnseen \ {e}
      BY <2>2 DEF Video!Scan
    <3>2. UNCHANGED <<vStep, vPlugged, vDisturbed>>
      BY <2>2 DEF Video!Scan
    <3>3. Video!File(e) \in Node /\ (e \in Node => Video!File(e) = e)
      BY <2>1, <3>1, VideoAssumption DEF Video!File
    <3>4. CASE Video!File(e) \in vPlugged /\ ~Video!Contains(vFiles, Video!File(e))
      <4> DEFINE f == Video!File(e)
      <4>1. vFiles' = Append(vFiles, f)
        BY <3>1, <3>4 DEF Video!AddFile
      <4>2. \A i \in DOMAIN vFiles : vFiles[i] # f
        BY <2>1, <3>4 DEF Video!Contains
      <4>3. /\ vFiles' \in Seq(Node) /\ Len(vFiles') = Len(vFiles) + 1 /\ Len(vFiles) \in Nat
            /\ DOMAIN vFiles = 1..Len(vFiles) /\ DOMAIN vFiles' = 1..(Len(vFiles) + 1)
            /\ \A i \in DOMAIN vFiles : vFiles'[i] = vFiles[i]
            /\ vFiles'[Len(vFiles) + 1] = f
        BY <2>1, <3>3, <4>1
      <4>4. \A i, j \in DOMAIN vFiles' : vFiles'[i] = vFiles'[j] => i = j
        BY <4>2, <4>3 DEF VideoInv, Scanned
      <4>5. \A m \in vPlugged' \ vDisturbed' :
              m \in vUnseen' \/ \E i \in DOMAIN vFiles' : vFiles'[i] = m
        <5> SUFFICES ASSUME NEW m \in vPlugged \ vDisturbed, m \notin vUnseen'
                     PROVE  \E i \in DOMAIN vFiles' : vFiles'[i] = m
          BY <3>2
        <5>1. CASE m = e
          BY <2>1, <3>3, <4>3, <5>1
        <5>2. CASE m # e
          <6>1. \E i \in DOMAIN vFiles : vFiles[i] = m
            BY <3>1, <5>2 DEF VideoInv, Scanned
          <6>2. QED
            BY <4>3, <6>1
        <5>3. QED
          BY <5>1, <5>2
      <4>6. Scanned'
        BY <1>1, <3>2, <4>4, <4>5 DEF Scanned
      <4>7. QED
        BY <1>1, <2>1, <3>1, <3>2, <4>3, <4>6
    <3>5. CASE ~(Video!File(e) \in vPlugged /\ ~Video!Contains(vFiles, Video!File(e)))
      <4>1. vFiles' = vFiles
        BY <3>1, <3>5 DEF Video!AddFile
      <4>2. e \in vPlugged => \E i \in DOMAIN vFiles : vFiles[i] = e
        BY <2>1, <3>3, <3>5 DEF Video!Contains
      <4>3. Scanned'
        BY <1>1, <3>1, <3>2, <4>1, <4>2 DEF VideoInv, Scanned
      <4>4. QED
        BY <1>1, <2>1, <3>1, <3>2, <4>1, <4>3
    <3>6. QED
      BY <3>4, <3>5
  <2>3. CASE Video!ScanThrows
    BY <1>1, <2>1, <2>3, VideoAssumption DEF Video!ScanThrows, Video!Toggle, VideoInv, Scanned
  <2>4. CASE Video!ScanEnds
    BY <1>1, <2>1, <2>4 DEF Video!ScanEnds, VideoInv, Scanned
  <2>5. QED
    BY <2>2, <2>3, <2>4
<1>4. VideoTypes'
  BY <1>1, <1>2, <1>3 DEF VideoInv, VideoTypes, Video!TypeOK, Asking, Entered
<1>5. Descriptor' /\ EntrySoFar'
  BY <1>1, <1>3 DEF Descriptor, EntrySoFar, Asking, Entered
<1>6. Behind' = {}
  BY <1>1, <1>3 DEF Behind, Entered
<1>7. OneEntryEach' /\ EntriesFinished'
  BY <1>1, <1>2, <1>3, <1>6 DEF OneEntryEach, EntriesFinished, Entered
<1>8. QED
  BY <1>3, <1>4, <1>5, <1>7 DEF VideoInv
-----------------------------------------------------------------------------
\* A step that asks for more of the device in work changes its entry only.
LEMMA EntryStep ==
  ASSUME VideoInv, vStep \in Entered, vStep' \in Entered,
         NEW r \in Entry, r.id = vResult[Len(vResult)].id,
         vResult' = [vResult EXCEPT ![Len(vResult)] = r],
         {vFormat', vSize', vRate'} \subseteq Nat \ {0}, Asked,
         UNCHANGED <<vAt, vFd, vPlugged, vUnseen, vFiles>>
  PROVE  /\ VideoTypes' /\ Scanned' /\ Descriptor' /\ OneEntryEach' /\ EntriesFinished'
         /\ Len(vResult') = Len(vResult) /\ vResult'[Len(vResult')] = r
<1>1. /\ vResult \in Seq(Entry) /\ Len(vResult) \in Nat \ {0}
      /\ DOMAIN vResult = 1..Len(vResult)
  BY DEF VideoInv, VideoTypes, OneEntryEach
<1>2. /\ vResult' \in Seq(Entry) /\ Len(vResult') = Len(vResult)
      /\ DOMAIN vResult' = DOMAIN vResult /\ vResult'[Len(vResult)] = r
      /\ \A i \in DOMAIN vResult : i # Len(vResult) => vResult'[i] = vResult[i]
  BY <1>1
<1>3. \A i \in DOMAIN vResult : vResult'[i].id = vResult[i].id
  BY <1>2
<1> USE DEF Asked
<1>4. vDisturbed \subseteq vDisturbed' /\ vDisturbed' \subseteq Node
  <2>1. vFiles[vAt] \in Node
    BY DEF VideoInv, VideoTypes, Video!TypeOK, Asking
  <2>2. QED
    BY <2>1 DEF VideoInv, VideoTypes, Video!TypeOK
<1>10. VideoTypes'
  BY <1>2, <1>4 DEF VideoInv, VideoTypes, Video!TypeOK, Asking
<1>5. Scanned' /\ Descriptor'
  BY <1>4 DEF VideoInv, Scanned, Descriptor, Asking, Entered
<1>6. Behind' = Behind
  BY DEF Behind
<1>7. OneEntryEach'
  BY <1>1, <1>2, <1>3, <1>4, <1>6 DEF VideoInv, OneEntryEach, Entered
<1>8. EntriesFinished'
  <2> SUFFICES ASSUME NEW i \in DOMAIN vResult, i < Len(vResult) PROVE Finished(vResult[i])'
    BY <1>1, <1>2 DEF EntriesFinished
  <2>1. Finished(vResult[i])
    BY DEF VideoInv, EntriesFinished
  <2>2. vResult'[i] = vResult[i]
    BY <1>1, <1>2
  <2>3. QED
    BY <1>4, <2>1, <2>2 DEF Finished, Begun
<1>9. QED
  BY <1>2, <1>5, <1>7, <1>8, <1>10

\* The device in work is done, or the next one need not be asked.
LEMMA PassStep ==
  ASSUME VideoInv, vStep \in {"open", "capabilities", "formats"}, vAt <= Len(vFiles),
         vStep = "formats" => Finished(vResult[Len(vResult)])',
         vStep # "formats" => vFiles[vAt] \notin (vPlugged \cap Capture) \ vDisturbed',
         vStep' = "open", vFd' = "closed", vAt' = vAt + 1,
         vResult' = vResult, {vFormat', vSize', vRate'} \subseteq Nat \ {0}, Asked,
         UNCHANGED <<vPlugged, vUnseen, vFiles>>
  PROVE  VideoInv'
<1>1. /\ vFiles \in Seq(Node) /\ Len(vFiles) \in Nat /\ DOMAIN vFiles = 1..Len(vFiles)
      /\ vAt \in 1..Len(vFiles) /\ vResult \in Seq(Entry) /\ DOMAIN vResult = 1..Len(vResult)
      /\ Len(vResult) \in Nat
  BY DEF VideoInv, VideoTypes, Video!TypeOK
<1>8. vDisturbed \subseteq vDisturbed' /\ vDisturbed' \subseteq Node
  BY <1>1 DEF Asked, VideoInv, VideoTypes, Video!TypeOK
<1>2. VideoTypes'
  BY <1>1, <1>8 DEF VideoInv, VideoTypes, Video!TypeOK, Asking, Entered
<1>3. Scanned' /\ Descriptor' /\ EntrySoFar'
  BY <1>8 DEF VideoInv, Scanned, Descriptor, EntrySoFar, Asking, Entered
<1>4. Behind' = Behind \cup {vAt} /\ (vStep = "formats" => vAt \in Behind)
  BY <1>1 DEF Behind, Entered
<1>5. OneEntryEach'
  <2>1. \A i \in DOMAIN vResult : \E k \in Behind' : vResult[i].id = vFiles[k]
    BY <1>4 DEF VideoInv, OneEntryEach
  <2>2. \A k \in Behind' : vFiles[k] \in (vPlugged \cap Capture) \ vDisturbed' =>
          \E i \in DOMAIN vResult : vResult[i].id = vFiles[k]
    BY <1>4, <1>8 DEF VideoInv, OneEntryEach
  <2>3. \A i, j \in DOMAIN vResult : vResult[i].id = vResult[j].id => i = j
    BY DEF VideoInv, OneEntryEach
  <2>4. QED
    BY <2>1, <2>2, <2>3 DEF OneEntryEach, Entered
<1>6. EntriesFinished'
  <2> SUFFICES ASSUME NEW i \in DOMAIN vResult PROVE Finished(vResult[i])'
    BY DEF EntriesFinished
  <2>1. CASE vStep = "formats" /\ i = Len(vResult)
    BY <2>1
  <2>2. CASE ~(vStep = "formats" /\ i = Len(vResult))
    <3>1. Finished(vResult[i])
      BY <1>1, <2>2 DEF VideoInv, EntriesFinished, Entered
    <3>2. QED
      BY <1>8, <3>1 DEF Finished, Begun
  <2>3. QED
    BY <2>1, <2>2
<1>7. QED
  BY <1>2, <1>3, <1>5, <1>6 DEF VideoInv

LEMMA OpenStep == ASSUME VideoInv, Video!Open PROVE VideoInv'
<1>1. /\ vStep = "open" /\ vAt <= Len(vFiles) /\ vResult' = vResult
      /\ UNCHANGED <<vFormat, vSize, vRate, vPlugged, vUnseen, vFiles>>
  BY DEF Video!Open, Video!Environment, Video!indices
<1>2. /\ vFiles \in Seq(Node) /\ vAt \in Nat /\ {vFormat, vSize, vRate} \subseteq Nat \ {0}
      /\ vFd = "closed"
  BY <1>1 DEF VideoInv, VideoTypes, Video!TypeOK, Descriptor, Asking, Entered
<1>3. CASE vStep' = "capabilities" /\ vFd' = "open" /\ UNCHANGED <<vAt, vDisturbed>>
  <2>1. vStep' = "capabilities" /\ vFd' = "open" /\ vAt' = vAt /\ vDisturbed' = vDisturbed
    BY <1>3
  <2>2. VideoTypes'
    BY <1>1, <2>1 DEF VideoInv, VideoTypes, Video!TypeOK, Asking, Entered
  <2>3. Scanned' /\ Descriptor' /\ EntrySoFar'
    BY <1>1, <2>1 DEF VideoInv, Scanned, Descriptor, EntrySoFar, Asking, Entered
  <2>4. Behind' = Behind
    BY <1>1, <2>1 DEF Behind, Entered
  <2>5. OneEntryEach'
    BY <1>1, <2>1, <2>4 DEF VideoInv, OneEntryEach, Entered
  <2>6. EntriesFinished'
    BY <1>1, <2>1 DEF VideoInv, EntriesFinished, Finished, Begun, Entered
  <2>7. QED
    BY <2>2, <2>3, <2>5, <2>6 DEF VideoInv
<1>4. CASE Video!Fails /\ vAt' = vAt + 1 /\ UNCHANGED <<vStep, vFd>>
  <2>1. vAt' = vAt + 1 /\ vStep' = "open" /\ vFd' = "closed"
    BY <1>1, <1>2, <1>4
  <2>2. Asked /\ vFiles[vAt] \in vDisturbed'
    BY <1>4 DEF Asked, Video!Fails, Video!Now
  <2>3. {vFormat', vSize', vRate'} \subseteq Nat \ {0}
    BY <1>1, <1>2
  <2>4. QED
    BY <1>1, <2>1, <2>2, <2>3, PassStep
<1>5. QED
  BY <1>3, <1>4 DEF Video!Open

LEMMA QueryCapabilitiesStep == ASSUME VideoInv, Video!QueryCapabilities PROVE VideoInv'
<1>1. /\ vStep = "capabilities"
      /\ UNCHANGED <<vFormat, vSize, vRate, vPlugged, vUnseen, vFiles>>
  BY DEF Video!QueryCapabilities, Video!Environment, Video!indices
<1>2. /\ vFiles \in Seq(Node) /\ Len(vFiles) \in Nat /\ vAt \in 1..Len(vFiles)
      /\ DOMAIN vFiles = 1..Len(vFiles)
      /\ {vFormat, vSize, vRate} \subseteq Nat \ {0}
      /\ vFd \in {"open", "dead"} /\ (vFd = "dead" => vFiles[vAt] \in vDisturbed)
      /\ vResult \in Seq(Entry) /\ Len(vResult) \in Nat /\ DOMAIN vResult = 1..Len(vResult)
  BY <1>1 DEF VideoInv, VideoTypes, Video!TypeOK, Descriptor, Asking, Entered
<1>3. CASE /\ Video!Answered /\ vStep' = "current" /\ UNCHANGED <<vAt, vFd>>
           /\ vResult' =
                Append(vResult, [id |-> vFiles[vAt], current |-> 1, formats |-> <<>>])
  <2> DEFINE n == Len(vResult)
             r == [id |-> vFiles[vAt], current |-> 1, formats |-> <<>>]
  <2>1. /\ vStep' = "current" /\ vResult' = Append(vResult, r)
        /\ UNCHANGED <<vAt, vFd, vDisturbed>>
    BY <1>3 DEF Video!Answered
  <2>2. r \in Entry
    BY <1>2 DEF Entry
  <2>3. /\ vResult' \in Seq(Entry) /\ Len(vResult') = n + 1 /\ DOMAIN vResult' = 1..(n + 1)
        /\ \A i \in 1..n : vResult'[i] = vResult[i]
        /\ vResult'[n + 1] = r
    BY <1>2, <2>1, <2>2
  <2>4. VideoTypes'
    BY <1>1, <1>2, <2>1, <2>3 DEF VideoInv, VideoTypes, Video!TypeOK, Asking, Entered
  <2>5. Scanned' /\ Descriptor'
    BY <1>1, <2>1 DEF VideoInv, Scanned, Descriptor, Asking, Entered
  <2>6. Behind' = Behind \cup {vAt} /\ vAt \notin Behind /\ Behind \subseteq DOMAIN vFiles
    BY <1>1, <1>2, <2>1 DEF Behind, Entered
  <2>7. OneEntryEach'
    <3>1. \A i \in 1..n : vResult[i].id # vFiles[vAt]
      <4> SUFFICES ASSUME NEW i \in 1..n, vResult[i].id = vFiles[vAt] PROVE FALSE
        OBVIOUS
      <4>1. PICK k \in Behind : vResult[i].id = vFiles[k]
        BY <1>2 DEF VideoInv, OneEntryEach
      <4>2. k = vAt
        BY <1>2, <2>6, <4>1 DEF VideoInv, Scanned
      <4>3. QED
        BY <2>6, <4>2
    <3>2. \A i, j \in DOMAIN vResult' : vResult'[i].id = vResult'[j].id => i = j
      <4>1. \A i \in 1..n : vResult'[i].id = vResult[i].id
        BY <2>3
      <4>2. vResult'[n + 1].id = vFiles[vAt]
        BY <2>3
      <4>3. \A i, j \in 1..n : vResult[i].id = vResult[j].id => i = j
        BY <1>2 DEF VideoInv, OneEntryEach
      <4>4. ASSUME NEW i \in 1..(n + 1), NEW j \in 1..(n + 1), vResult'[i].id = vResult'[j].id
            PROVE  i = j
        <5>1. i \in 1..n \/ i = n + 1
          BY <1>2
        <5>2. j \in 1..n \/ j = n + 1
          BY <1>2
        <5>3. QED
          BY <3>1, <4>1, <4>2, <4>3, <4>4, <5>1, <5>2
      <4>5. QED
        BY <2>3, <4>4
    <3>3. \A i \in DOMAIN vResult' : \E k \in Behind' : vResult'[i].id = vFiles[k]
      BY <1>2, <2>3, <2>6 DEF VideoInv, OneEntryEach
    <3>4. \A k \in Behind' : vFiles[k] \in (vPlugged \cap Capture) \ vDisturbed =>
            \E i \in DOMAIN vResult' : vResult'[i].id = vFiles[k]
      <4> SUFFICES ASSUME NEW k \in Behind', vFiles[k] \in (vPlugged \cap Capture) \ vDisturbed
                   PROVE  \E i \in 1..(n + 1) : vResult'[i].id = vFiles[k]
        BY <2>3
      <4>1. CASE k = vAt
        BY <1>2, <2>3, <4>1
      <4>2. CASE k \in Behind
        <5>1. \E i \in 1..n : vResult[i].id = vFiles[k]
          BY <1>2, <4>2 DEF VideoInv, OneEntryEach
        <5>2. QED
          BY <1>2, <2>3, <5>1
      <4>3. QED
        BY <2>6, <4>1, <4>2
    <3>5. QED
      BY <1>1, <1>2, <2>1, <2>3, <3>2, <3>3, <3>4 DEF OneEntryEach, Entered
  <2>8. EntriesFinished'
    <3> SUFFICES ASSUME NEW i \in 1..n PROVE Finished(vResult[i])'
      BY <1>2, <2>1, <2>3 DEF EntriesFinished, Entered
    <3>1. Finished(vResult[i])
      BY <1>1, <1>2 DEF VideoInv, EntriesFinished, Entered
    <3>2. vResult'[i] = vResult[i] /\ vDisturbed' = vDisturbed
      BY <2>1, <2>3
    <3>3. QED
      BY <3>1, <3>2 DEF Finished, Begun
  <2>9. EntrySoFar'
    <3>1. Driver[vFiles[vAt]].formats \in Seq(Format)
      BY <1>2, VideoAssumption
    <3>2. PICK e \in Entry : e = r
      BY <2>2
    <3>3. /\ e.formats = <<>> /\ Len(e.formats) = 0 /\ DOMAIN e.formats = {} /\ e.current = 1
          /\ Len(Driver[e.id].formats) \in Nat
      BY <3>1, <3>2
    <3>4. FormatsSoFar(e)' /\ WholeSoFar(e)'
      BY <2>1, <3>3 DEF FormatsSoFar, WholeSoFar, Begun
    <3>5. vResult'[Len(vResult')] = e
      BY <2>3, <3>2
    <3>6. QED
      BY <2>1, <3>4, <3>5 DEF EntrySoFar
  <2>10. QED
    BY <2>4, <2>5, <2>7, <2>8, <2>9 DEF VideoInv
<1>4. CASE /\ (Video!Answered /\ vFiles[vAt] \notin Capture) \/ Video!Fails
           /\ Video!Close /\ UNCHANGED vResult
  <2>1. /\ vStep' = "open" /\ vFd' = "closed" /\ vAt' = vAt + 1 /\ vResult' = vResult
    BY <1>4 DEF Video!Close
  <2>2. Asked /\ vFiles[vAt] \notin Capture \ vDisturbed'
    BY <1>4 DEF Asked, Video!Answered, Video!Fails, Video!Now
  <2>3. {vFormat', vSize', vRate'} \subseteq Nat \ {0}
    BY <1>1, <1>2
  <2>4. QED
    BY <1>1, <1>2, <2>1, <2>2, <2>3, PassStep
<1>5. QED
  BY <1>3, <1>4 DEF Video!QueryCapabilities, Video!Now

\* The entry in work is that of the device that is asked.
LEMMA InWork ==
  ASSUME VideoInv, vStep \in Entered
  PROVE  \E r \in Entry :
           /\ r = vResult[Len(vResult)] /\ r.id = vFiles[vAt]
           /\ FormatsSoFar(r) /\ (Trusted => WholeSoFar(r))
           /\ Trusted <=> r.id \notin vDisturbed
           /\ r.formats \in Seq(Format) /\ Driver[r.id].formats \in Seq(Format)
           /\ vResult \in Seq(Entry) /\ Len(vResult) \in Nat \ {0}
           /\ vAt <= Len(vFiles) /\ {vFormat, vSize, vRate} \subseteq Nat \ {0}
<1> DEFINE e == vResult[Len(vResult)]
<1>1. vResult \in Seq(Entry) /\ Len(vResult) \in Nat \ {0} /\ e.id = vFiles[vAt]
  BY DEF VideoInv, VideoTypes, OneEntryEach
<1>2. e \in Entry
  BY <1>1
<1>3. e.formats \in Seq(Format) /\ e.id \in Node
  BY <1>2 DEF Entry
<1>4. Driver[e.id].formats \in Seq(Format)
  BY <1>3, VideoAssumption
<1>5. Trusted <=> e.id \notin vDisturbed
  BY <1>1 DEF Trusted
<1>6. vAt <= Len(vFiles) /\ {vFormat, vSize, vRate} \subseteq Nat \ {0}
  BY DEF VideoInv, VideoTypes, Video!TypeOK, Descriptor, Asking
<1>7. FormatsSoFar(e) /\ (Trusted => WholeSoFar(e))
  BY DEF VideoInv, EntrySoFar
<1>8. QED
  BY <1>1, <1>2, <1>3, <1>4, <1>5, <1>6, <1>7

LEMMA GetFormatStep == ASSUME VideoInv, Video!GetFormat PROVE VideoInv'
<1>1. /\ vStep = "current" /\ vStep' = "formats" /\ vFormat' = 1
      /\ Asked /\ (Trusted' => Trusted /\ vCurrent' = Driver[vFiles[vAt]].current)
      /\ UNCHANGED <<vAt, vFd, vSize, vRate, vResult, vPlugged, vUnseen, vFiles>>
  BY DEF Video!GetFormat, Video!Environment, Video!Answered, Video!Fails, Video!Now, Asked, Trusted
<1>2. vStep \in Entered /\ vStep' \in Entered
  BY <1>1 DEF Entered
<1>3. PICK r \in Entry :
        /\ r = vResult[Len(vResult)] /\ r.id = vFiles[vAt]
        /\ FormatsSoFar(r)
        /\ r.formats \in Seq(Format)
        /\ vResult \in Seq(Entry) /\ Len(vResult) \in Nat \ {0}
        /\ {vFormat, vSize, vRate} \subseteq Nat \ {0}
  BY <1>2, InWork
<1>4. vResult' = [vResult EXCEPT ![Len(vResult)] = r]
  BY <1>1, <1>3
<1>5. /\ VideoTypes' /\ Scanned' /\ Descriptor' /\ OneEntryEach' /\ EntriesFinished'
      /\ Len(vResult') = Len(vResult) /\ vResult'[Len(vResult')] = r
  <2>1. {vFormat', vSize', vRate'} \subseteq Nat \ {0}
    BY <1>1, <1>3
  <2>2. QED
    BY <1>1, <1>2, <1>3, <1>4, <2>1, EntryStep
<1>6. Len(r.formats) = 0 /\ DOMAIN r.formats = {} /\ Begun(r)
  BY <1>1, <1>3 DEF FormatsSoFar
<1>7. FormatsSoFar(r)'
  BY <1>1, <1>6 DEF FormatsSoFar, Begun
<1>8. Trusted' => WholeSoFar(r)'
  BY <1>1, <1>3, <1>6 DEF WholeSoFar
<1>9. EntrySoFar'
  BY <1>1, <1>5, <1>7, <1>8 DEF EntrySoFar
<1>10. QED
  BY <1>5, <1>9 DEF VideoInv

LEMMA NextFormatStep == ASSUME VideoInv, Video!NextFormat PROVE VideoInv'
<1>1. /\ vStep = "formats"
      /\ UNCHANGED <<vCurrent, vFormat, vRate, vPlugged, vUnseen, vFiles>>
  BY DEF Video!NextFormat, Video!Environment
<1>2. vStep \in Entered
  BY <1>1 DEF Entered
<1>3. PICK r \in Entry :
        /\ r = vResult[Len(vResult)] /\ r.id = vFiles[vAt]
        /\ FormatsSoFar(r) /\ (Trusted => WholeSoFar(r))
        /\ Trusted <=> r.id \notin vDisturbed
        /\ r.formats \in Seq(Format) /\ Driver[r.id].formats \in Seq(Format)
        /\ vResult \in Seq(Entry) /\ Len(vResult) \in Nat \ {0}
        /\ vAt <= Len(vFiles) /\ {vFormat, vSize, vRate} \subseteq Nat \ {0}
  BY <1>2, InWork
<1> DEFINE told == Driver[r.id].formats
<1>4. Len(told) \in Nat /\ DOMAIN told = 1..Len(told) /\ Len(r.formats) = vFormat - 1
      /\ DOMAIN r.formats = 1..(vFormat - 1) /\ Begun(r)
      /\ ((\E k \in DOMAIN r.formats : r.formats[k].name = vCurrent) =>
            r.formats[r.current].name = vCurrent)
  BY <1>1, <1>3 DEF FormatsSoFar
<1>5. Trusted => /\ vCurrent = Driver[r.id].current
                      /\ \A k \in DOMAIN r.formats : Video!WholeFormat(r.formats[k], told[k])
  BY <1>1, <1>3 DEF WholeSoFar
<1>6. CASE /\ Video!Answered /\ vFormat <= Len(told) /\ vStep' = "sizes" /\ vSize' = 1
           /\ UNCHANGED <<vAt, vFd>>
           /\ vResult' = [vResult EXCEPT ![Len(vResult)] =
                [id |-> @.id,
                 current |-> IF told[vFormat].name = vCurrent THEN vFormat ELSE @.current,
                 formats |-> Append(@.formats, [name |-> told[vFormat].name, sizes |-> <<>>])]]
  <2>1. told[vFormat] \in Format /\ told[vFormat].name \in STRING
    <3>1. vFormat \in DOMAIN told
      BY <1>3, <1>4, <1>6
    <3>2. told[vFormat] \in Format
      BY <1>3, <3>1
    <3>3. QED
      BY <3>2 DEF Format
  <2>2. PICK f \in Format : f = [name |-> told[vFormat].name, sizes |-> <<>>]
    <3>1. <<>> \in Seq(Size)
      BY EmptySeq
    <3>2. [name |-> told[vFormat].name, sizes |-> <<>>] \in Format
      BY <2>1, <3>1 DEF Format
    <3>3. QED
      BY <3>2
  <2>3. PICK c \in Nat : c = IF told[vFormat].name = vCurrent THEN vFormat ELSE r.current
    BY <1>3 DEF Entry
  <2>4. PICK fs \in Seq(Format) : fs = Append(r.formats, f)
    BY <1>3, AppendProperties
  <2>5. /\ Len(fs) = vFormat /\ DOMAIN fs = 1..vFormat /\ fs[vFormat] = f
        /\ \A k \in 1..(vFormat - 1) : fs[k] = r.formats[k]
    BY <1>3, <1>4, <2>4
  <2>6. PICK e \in Entry : e = [id |-> r.id, current |-> c, formats |-> fs]
    BY <1>3 DEF Entry
  <2>7. e.id = r.id /\ e.current = c /\ e.formats = fs
    BY <2>6
  <2>8. /\ vStep' = "sizes" /\ vSize' = 1 /\ UNCHANGED <<vAt, vFd>>
        /\ vResult' = [vResult EXCEPT ![Len(vResult)] = e]
    BY <1>3, <1>6, <2>2, <2>3, <2>4, <2>6
  <2>18. Asked /\ vDisturbed' = vDisturbed /\ (Trusted' <=> Trusted)
    BY <1>1, <1>6, <2>8 DEF Asked, Trusted, Video!Answered
  <2>9. /\ VideoTypes' /\ Scanned' /\ Descriptor' /\ OneEntryEach' /\ EntriesFinished'
        /\ Len(vResult') = Len(vResult) /\ vResult'[Len(vResult')] = e
    <3>1. {vFormat', vSize', vRate'} \subseteq Nat \ {0} /\ vStep' \in Entered
      BY <1>1, <1>3, <2>8 DEF Entered
    <3>2. e.id = vResult[Len(vResult)].id
      BY <1>3, <2>7
    <3>3. QED
      BY <1>1, <1>2, <2>8, <2>18, <3>1, <3>2, EntryStep
  <2>10. Begun(e)
    <3>1. \A k \in 1..vFormat : fs[k].name = told[k].name
      <4> SUFFICES ASSUME NEW k \in 1..vFormat PROVE fs[k].name = told[k].name
        OBVIOUS
      <4>1. CASE k = vFormat
        BY <2>2, <2>5, <4>1
      <4>2. CASE k # vFormat
        <5>1. k \in 1..(vFormat - 1)
          BY <1>3, <4>2
        <5>2. r.formats[k].name = told[k].name
          BY <1>4, <5>1 DEF Begun
        <5>3. QED
          BY <2>5, <5>1, <5>2
      <4>3. QED
        BY <4>1, <4>2
    <3>2. c \in 1..vFormat
      BY <1>3, <1>4, <2>3 DEF Begun
    <3>3. QED
      BY <1>3, <1>4, <1>6, <2>5, <2>7, <3>1, <3>2 DEF Begun
  <2>11. (\E k \in DOMAIN fs : fs[k].name = vCurrent) => fs[c].name = vCurrent
    <3>1. CASE told[vFormat].name = vCurrent
      BY <2>2, <2>3, <2>5, <3>1
    <3>2. CASE told[vFormat].name # vCurrent
      <4>1. f.name # vCurrent /\ c = r.current
        BY <2>2, <2>3, <3>2
      <4>2. SUFFICES ASSUME NEW k \in 1..vFormat, fs[k].name = vCurrent PROVE fs[c].name = vCurrent
        BY <2>5
      <4>3. k \in 1..(vFormat - 1) /\ r.formats[k].name = vCurrent
        BY <1>3, <2>5, <4>1, <4>2
      <4>4. r.formats[c].name = vCurrent /\ c \in 1..(vFormat - 1)
        BY <1>4, <4>1, <4>3 DEF Begun
      <4>5. QED
        BY <2>5, <4>4
    <3>3. QED
      BY <3>1, <3>2
  <2>12. FormatsSoFar(e)'
    BY <1>1, <2>5, <2>7, <2>8, <2>10, <2>11 DEF FormatsSoFar, Begun
  <2>13. Trusted' => WholeSoFar(e)'
    <3> SUFFICES ASSUME Trusted PROVE WholeSoFar(e)'
      BY <2>18
    <3>1. \A k \in 1..(vFormat - 1) : Video!WholeFormat(fs[k], told[k])
      BY <1>4, <1>5, <2>5
    <3>2. QED
      BY <1>1, <1>3, <1>5, <2>5, <2>7, <2>8, <3>1 DEF WholeSoFar
  <2>14. /\ e.formats[vFormat'].sizes = <<>> /\ Len(e.formats[vFormat'].sizes) = 0
    BY <1>1, <2>2, <2>5, <2>7
  <2>15. Trusted' => SizesSoFar(e.formats[vFormat], Driver[e.id].formats[vFormat])'
    <3>1. Len(told[vFormat].sizes) \in Nat
      BY <2>1 DEF Format
    <3>2. QED
      BY <1>1, <2>7, <2>8, <2>14, <3>1 DEF SizesSoFar
  <2>16. EntrySoFar'
    BY <2>8, <2>9, <2>12, <2>13, <2>14, <2>15 DEF EntrySoFar
  <2>17. QED
    BY <2>9, <2>16 DEF VideoInv
<1>7. CASE /\ (Video!Answered /\ vFormat > Len(told)) \/ Video!Fails
           /\ Video!Close /\ UNCHANGED <<vSize, vResult>>
  <2>1. /\ vStep' = "open" /\ vFd' = "closed" /\ vAt' = vAt + 1 /\ UNCHANGED <<vSize, vResult>>
    BY <1>7 DEF Video!Close
  <2>2. Asked /\ (r.id \notin vDisturbed' => r.id \notin vDisturbed /\ vFormat > Len(told))
    BY <1>3, <1>7 DEF Asked, Video!Answered, Video!Fails, Video!Now
  <2>3. r.id \notin vDisturbed' => Video!Whole(r)
    <3> SUFFICES ASSUME r.id \notin vDisturbed' PROVE Video!Whole(r)
      OBVIOUS
    <3>1. vFormat - 1 = Len(told)
      BY <1>3, <1>4, <2>2 DEF Begun
    <3>2. \A k \in DOMAIN told : Video!WholeFormat(r.formats[k], told[k])
      BY <1>3, <1>4, <1>5, <2>2, <3>1
    <3>3. (\E k \in DOMAIN told : told[k].name = Driver[r.id].current) =>
            r.formats[r.current].name = Driver[r.id].current
      BY <1>3, <1>4, <1>5, <2>2, <3>1 DEF Begun
    <3>4. QED
      BY <1>4, <3>1, <3>2, <3>3 DEF Video!Whole
  <2>4. Finished(vResult[Len(vResult)])'
    <3>1. Finished(r)'
      BY <1>4, <2>3 DEF Finished, Begun
    <3>2. QED
      BY <1>3, <2>1, <3>1
  <2>5. {vFormat', vSize', vRate'} \subseteq Nat \ {0}
    BY <1>1, <1>3, <2>1
  <2>6. QED
    BY <1>1, <1>3, <2>1, <2>2, <2>4, <2>5, PassStep
<1>8. QED
  BY <1>3, <1>6, <1>7 DEF Video!NextFormat, Video!Formats, Video!Now, Video!Info

\* Only the sizes of the format in work change.
LEMMA FormatStep ==
  ASSUME VideoInv, vStep \in {"sizes", "rates"}, vStep' \in {"formats", "sizes", "rates"},
         NEW r \in Entry, r = vResult[Len(vResult)],
         NEW f \in Format, f.name = r.formats[vFormat].name,
         vResult' = [vResult EXCEPT ![Len(vResult)].formats[vFormat].sizes = f.sizes],
         vFormat' = IF vStep' = "formats" THEN vFormat + 1 ELSE vFormat,
         {vSize', vRate'} \subseteq Nat \ {0},
         Asked, UNCHANGED <<vAt, vFd, vCurrent, vPlugged, vUnseen, vFiles>>,
         vStep' = "formats" /\ Trusted' =>
           Video!WholeFormat(f, Driver[r.id].formats[vFormat]),
         vStep' # "formats" => Len(f.sizes) = IF vStep' = "sizes" THEN vSize' - 1 ELSE vSize',
         vStep' # "formats" /\ Trusted' =>
           SizesSoFar(f, Driver[r.id].formats[vFormat])'
  PROVE  VideoInv'
<1>1. vStep \in Entered /\ vStep' \in Entered
  BY DEF Entered
<1>2. /\ FormatsSoFar(r) /\ (Trusted => WholeSoFar(r))
      /\ r.formats \in Seq(Format) /\ Driver[r.id].formats \in Seq(Format)
      /\ vResult \in Seq(Entry) /\ Len(vResult) \in Nat \ {0}
      /\ {vFormat, vSize, vRate} \subseteq Nat \ {0}
  BY <1>1, InWork
<1> DEFINE told == Driver[r.id].formats
<1>3. /\ Len(r.formats) = vFormat /\ DOMAIN r.formats = 1..vFormat /\ Begun(r)
      /\ ((\E k \in DOMAIN r.formats : r.formats[k].name = vCurrent) =>
            r.formats[r.current].name = vCurrent)
  BY <1>2 DEF FormatsSoFar
<1>4. PICK fs \in Seq(Format) : fs = [r.formats EXCEPT ![vFormat] = f]
  <2>1. vFormat \in 1..Len(r.formats)
    BY <1>2, <1>3
  <2>2. QED
    BY <1>2, <2>1, ExceptSeq
<1>5. /\ Len(fs) = vFormat /\ DOMAIN fs = 1..vFormat /\ fs[vFormat] = f
      /\ \A k \in 1..vFormat : k # vFormat => fs[k] = r.formats[k]
  BY <1>2, <1>3, <1>4
<1>6. \A k \in 1..vFormat : fs[k].name = r.formats[k].name
  BY <1>5
<1>7. PICK e \in Entry : e = [id |-> r.id, current |-> r.current, formats |-> fs]
  BY DEF Entry
<1>8. e.id = r.id /\ e.current = r.current /\ e.formats = fs
  BY <1>7
<1>9. f = [name |-> r.formats[vFormat].name, sizes |-> f.sizes]
  BY DEF Format
<1>10. vResult' = [vResult EXCEPT ![Len(vResult)] = e]
  <2>1. PICK g \in Format : g = r.formats[vFormat]
    BY <1>2, <1>3
  <2>2. [g EXCEPT !.sizes = f.sizes] = [name |-> g.name, sizes |-> f.sizes]
    <3>1. PICK m, ss : g = [name |-> m, sizes |-> ss]
      BY DEF Format
    <3>2. QED
      BY <3>1
  <2>3. [g EXCEPT !.sizes = f.sizes] = f
    BY <1>9, <2>1, <2>2
  <2>4. [r EXCEPT !.formats = fs] = e
    <3>1. PICK i, c, h : r = [id |-> i, current |-> c, formats |-> h]
      BY DEF Entry
    <3>2. QED
      BY <1>7, <3>1
  <2>5. vResult' = [vResult EXCEPT ![Len(vResult)] =
          [r EXCEPT !.formats = [r.formats EXCEPT ![vFormat] = [g EXCEPT !.sizes = f.sizes]]]]
    BY <2>1
  <2>6. QED
    BY <1>4, <2>3, <2>4, <2>5
<1>11. /\ VideoTypes' /\ Scanned' /\ Descriptor' /\ OneEntryEach' /\ EntriesFinished'
       /\ Len(vResult') = Len(vResult) /\ vResult'[Len(vResult')] = e
  <2>1. {vFormat', vSize', vRate'} \subseteq Nat \ {0}
    BY <1>2
  <2>2. QED
    BY <1>1, <1>8, <1>10, <2>1, EntryStep
<1>12. Begun(e)
  BY <1>2, <1>3, <1>5, <1>6, <1>8 DEF Begun
<1>13. FormatsSoFar(e)'
  <2>1. (\E k \in 1..vFormat : fs[k].name = vCurrent) => fs[e.current].name = vCurrent
    <3>1. r.current \in 1..vFormat
      BY <1>2, <1>3 DEF Begun
    <3>2. QED
      BY <1>3, <1>6, <1>8, <3>1
  <2>2. vFormat = CASE vStep' = "formats" -> vFormat' - 1
                    [] vStep' \in {"sizes", "rates"} -> vFormat'
    BY <1>2
  <2>3. Begun(e)'
    BY <1>12 DEF Begun
  <2>4. QED
    BY <1>5, <1>8, <2>1, <2>2, <2>3 DEF FormatsSoFar
<1>14. Trusted' => WholeSoFar(e)'
  <2> SUFFICES ASSUME Trusted' PROVE WholeSoFar(e)'
    BY <1>8
  <2>5. Trusted
    BY DEF Trusted, Asked
  <2>1. /\ vCurrent = Driver[r.id].current
        /\ \A k \in 1..vFormat : k < vFormat => Video!WholeFormat(r.formats[k], told[k])
    BY <1>2, <1>3, <2>5 DEF WholeSoFar
  <2>2. \A k \in 1..vFormat : k < vFormat \/ vStep' = "formats" => Video!WholeFormat(fs[k], told[k])
    <3> SUFFICES ASSUME NEW k \in 1..vFormat, k < vFormat \/ vStep' = "formats"
                 PROVE  Video!WholeFormat(fs[k], told[k])
      OBVIOUS
    <3>1. CASE k = vFormat
      BY <1>5, <3>1
    <3>2. CASE k # vFormat
      <4>1. k < vFormat /\ fs[k] = r.formats[k]
        BY <1>2, <1>5, <3>2
      <4>2. QED
        BY <2>1, <4>1
    <3>3. QED
      BY <3>1, <3>2
  <2>3. \A k \in 1..vFormat : k < vFormat' \/ vStep' = "formats" => Video!WholeFormat(fs[k], told[k])
    BY <1>2, <2>2
  <2>4. QED
    BY <1>5, <1>8, <2>1, <2>3 DEF WholeSoFar
<1>15. vStep' # "formats" =>
         /\ Len(e.formats[vFormat'].sizes) = IF vStep' = "sizes" THEN vSize' - 1 ELSE vSize'
         /\ Trusted' => SizesSoFar(e.formats[vFormat], Driver[e.id].formats[vFormat])'
  <2> SUFFICES ASSUME vStep' # "formats"
               PROVE  /\ Len(e.formats[vFormat].sizes) = IF vStep' = "sizes" THEN vSize' - 1 ELSE vSize'
                      /\ Trusted' =>
                           SizesSoFar(e.formats[vFormat], Driver[e.id].formats[vFormat])'
    BY <1>8
  <2>1. vFormat' = vFormat /\ e.formats[vFormat] = f
    BY <1>2, <1>5, <1>8
  <2>2. QED
    <3>1. Len(f.sizes) = IF vStep' = "sizes" THEN vSize' - 1 ELSE vSize'
      OBVIOUS
    <3>2. Trusted' => SizesSoFar(f, told[vFormat])'
      OBVIOUS
    <3>3. e.formats[vFormat'] = f /\ Driver[e.id].formats = told
      BY <1>8, <2>1
    <3>4. QED
      BY <1>8, <2>1, <3>1, <3>2, <3>3 DEF SizesSoFar
<1>16. EntrySoFar'
  BY <1>11, <1>13, <1>14, <1>15 DEF EntrySoFar
<1>17. QED
  BY <1>11, <1>16 DEF VideoInv

\* The format in work, and what the driver tells of it.
LEMMA FormatInWork ==
  ASSUME VideoInv, vStep \in {"sizes", "rates"}
  PROVE  \E r \in Entry, g, t \in Format :
           /\ r = vResult[Len(vResult)] /\ r.id = vFiles[vAt]
           /\ g = r.formats[vFormat] /\ t = Driver[r.id].formats[vFormat]
           /\ vFormat \in DOMAIN Driver[r.id].formats
           /\ g.name = t.name
           /\ Len(g.sizes) = IF vStep = "sizes" THEN vSize - 1 ELSE vSize
           /\ Trusted => SizesSoFar(g, t)
           /\ {vFormat, vSize, vRate} \subseteq Nat \ {0}
<1>1. PICK r \in Entry :
        /\ r = vResult[Len(vResult)] /\ r.id = vFiles[vAt]
        /\ FormatsSoFar(r)
        /\ r.formats \in Seq(Format) /\ Driver[r.id].formats \in Seq(Format)
        /\ {vFormat, vSize, vRate} \subseteq Nat \ {0}
  BY InWork DEF Entered
<1>2. /\ Len(r.formats) = vFormat /\ Len(r.formats) <= Len(Driver[r.id].formats)
      /\ \A k \in DOMAIN r.formats : r.formats[k].name = Driver[r.id].formats[k].name
  BY <1>1 DEF FormatsSoFar, Begun
<1>3. vFormat \in DOMAIN r.formats /\ vFormat \in DOMAIN Driver[r.id].formats
  BY <1>1, <1>2
<1>4. r.formats[vFormat] \in Format /\ Driver[r.id].formats[vFormat] \in Format
  BY <1>1, <1>3
<1>5. /\ Len(r.formats[vFormat].sizes) = IF vStep = "sizes" THEN vSize - 1 ELSE vSize
      /\ Trusted => SizesSoFar(r.formats[vFormat], Driver[r.id].formats[vFormat])
  BY <1>1 DEF VideoInv, EntrySoFar, Entered
<1>6. QED
  BY <1>1, <1>2, <1>3, <1>4, <1>5

LEMMA NextSizeStep == ASSUME VideoInv, Video!NextSize PROVE VideoInv'
<1>1. /\ vStep = "sizes"
      /\ UNCHANGED <<vAt, vFd, vCurrent, vSize, vPlugged, vUnseen, vFiles>>
  BY DEF Video!NextSize, Video!Environment
<1>2. PICK r \in Entry, g \in Format, t \in Format :
        /\ r = vResult[Len(vResult)] /\ r.id = vFiles[vAt]
        /\ g = r.formats[vFormat] /\ t = Driver[r.id].formats[vFormat]
        /\ g.name = t.name
        /\ Len(g.sizes) = vSize - 1
        /\ Trusted => SizesSoFar(g, t)
        /\ {vFormat, vSize, vRate} \subseteq Nat \ {0}
  BY <1>1, FormatInWork
<1>3. g.sizes \in Seq(Size) /\ t.sizes \in Seq(Size) /\ g.name \in STRING /\ Len(t.sizes) \in Nat
      /\ DOMAIN g.sizes = 1..(vSize - 1) /\ DOMAIN t.sizes = 1..Len(t.sizes)
  BY <1>2 DEF Format
<1>4. Trusted =>
        /\ vSize - 1 <= Len(t.sizes)
        /\ \A j \in 1..(vSize - 1) : SizeTold(g.sizes[j], t.sizes[j])
  <2> SUFFICES ASSUME Trusted
               PROVE  /\ vSize - 1 <= Len(t.sizes)
                      /\ \A j \in 1..(vSize - 1) : SizeTold(g.sizes[j], t.sizes[j])
    OBVIOUS
  <2>1. /\ Len(g.sizes) <= Len(t.sizes)
        /\ \A j \in 1..(vSize - 1) : j < vSize => SizeTold(g.sizes[j], t.sizes[j])
    BY <1>1, <1>2, <1>3 DEF SizesSoFar
  <2>2. \A j \in 1..(vSize - 1) : j < vSize
    BY <1>2
  <2>3. QED
    BY <1>2, <2>1, <2>2
<1>5. CASE /\ Video!Answered /\ vSize <= Len(t.sizes)
           /\ vResult' = [vResult EXCEPT ![Len(vResult)].formats[vFormat].sizes =
                            Append(@, [area |-> t.sizes[vSize].area, rates |-> <<>>])]
           /\ vStep' = "rates" /\ vRate' = 1 /\ vFormat' = vFormat
  <2>1. t.sizes[vSize] \in Size /\ t.sizes[vSize].area \in Nat /\ t.sizes[vSize].rates \in Seq(Nat)
    <3>1. t.sizes[vSize] \in Size
      BY <1>2, <1>3, <1>5
    <3>2. QED
      BY <3>1 DEF Size
  <2>2. PICK s \in Size : s = [area |-> t.sizes[vSize].area, rates |-> <<>>]
    <3>1. <<>> \in Seq(Nat)
      BY EmptySeq
    <3>2. [area |-> t.sizes[vSize].area, rates |-> <<>>] \in Size
      BY <2>1, <3>1 DEF Size
    <3>3. QED
      BY <3>2
  <2>3. PICK ss \in Seq(Size) : ss = Append(g.sizes, s)
    BY <1>3, AppendProperties
  <2>4. Len(ss) = vSize /\ DOMAIN ss = 1..vSize /\ ss[vSize] = s
        /\ \A j \in 1..(vSize - 1) : ss[j] = g.sizes[j]
    <3>1. PICK n \in Nat : n = Len(g.sizes) /\ vSize = n + 1
      BY <1>2
    <3>2. /\ Len(ss) = n + 1 /\ DOMAIN ss = 1..(n + 1) /\ ss[n + 1] = s
          /\ \A j \in 1..n : ss[j] = g.sizes[j]
      BY <1>3, <2>3, <3>1, AppendProperties
    <3>3. QED
      BY <3>1, <3>2
  <2>5. PICK f \in Format : f = [name |-> g.name, sizes |-> ss]
    BY <1>3 DEF Format
  <2>6. f.name = g.name /\ f.sizes = ss
    BY <2>5
  <2>7. /\ vResult' = [vResult EXCEPT ![Len(vResult)].formats[vFormat].sizes =
                         Append(@, [area |-> t.sizes[vSize].area, rates |-> <<>>])]
        /\ vStep' = "rates" /\ vRate' = 1 /\ vFormat' = vFormat
    BY <1>5
  <2>12. Asked /\ (Trusted' => Trusted)
    BY <1>1, <1>5 DEF Asked, Trusted, Video!Answered
  <2>8. vResult' = [vResult EXCEPT ![Len(vResult)].formats[vFormat].sizes = f.sizes]
    BY <1>2, <2>2, <2>3, <2>6, <2>7
  <2>9. Trusted' => SizesSoFar(f, t)'
    <3> SUFFICES ASSUME Trusted PROVE SizesSoFar(f, t)'
      BY <2>12
    <3>4. \A j \in 1..vSize : j < vSize => j \in 1..(vSize - 1)
      BY <1>2
    <3>1. \A j \in 1..vSize : j < vSize => SizeTold(ss[j], t.sizes[j])
      BY <1>4, <2>4, <3>4
    <3>2. RatesSoFar(ss[vSize], t.sizes[vSize], 0)
      BY <2>1, <2>2, <2>4 DEF RatesSoFar
    <3>3. QED
      <4>1. \A j \in DOMAIN f.sizes : j < vSize' => SizeTold(f.sizes[j], t.sizes[j])
        BY <1>1, <2>4, <2>6, <3>1
      <4>2. RatesSoFar(f.sizes[vSize'], t.sizes[vSize'], vRate' - 1)
        BY <1>1, <2>6, <2>7, <3>2
      <4>3. Len(f.sizes) <= Len(t.sizes)
        BY <1>5, <2>4, <2>6
      <4>4. QED
        BY <4>1, <4>2, <4>3 DEF SizesSoFar
  <2>10. {vSize', vRate'} \subseteq Nat \ {0} /\ Len(f.sizes) = vSize'
    BY <1>1, <1>2, <2>4, <2>6, <2>7
  <2>11. QED
    BY <1>1, <1>2, <2>6, <2>7, <2>8, <2>9, <2>10, <2>12, FormatStep
<1>6. CASE /\ (Video!Answered /\ vSize > Len(t.sizes)) \/ Video!Fails
           /\ \E ss \in Video!Shuffled(g.sizes) :
                /\ Video!SizesOrdered(ss)
                /\ vResult' = [vResult EXCEPT ![Len(vResult)].formats[vFormat].sizes = ss]
           /\ vStep' = "formats" /\ vFormat' = vFormat + 1 /\ vRate' = vRate
  <2>9. Asked /\ (Trusted' => Trusted /\ vSize > Len(t.sizes))
    BY <1>1, <1>6 DEF Asked, Trusted, Video!Answered, Video!Fails, Video!Now
  <2>1. PICK ss \in Video!Shuffled(g.sizes) :
          /\ Video!SizesOrdered(ss)
          /\ vResult' = [vResult EXCEPT ![Len(vResult)].formats[vFormat].sizes = ss]
    BY <1>6
  <2>2. ss \in Seq(Size) /\ Len(ss) = vSize - 1 /\ Video!Range(ss) = Video!Range(g.sizes)
    BY <1>2, <1>3, <2>1, ShuffledFacts
  <2>3. vStep' = "formats" /\ vFormat' = vFormat + 1 /\ vRate' = vRate
    BY <1>6
  <2>4. PICK f \in Format : f = [name |-> g.name, sizes |-> ss]
    BY <1>3, <2>2 DEF Format
  <2>5. f.name = g.name /\ f.sizes = ss
    BY <2>4
  <2>6. Trusted' => Video!WholeFormat(f, t)
    <3> SUFFICES ASSUME Trusted' PROVE Video!WholeFormat(f, t)
      OBVIOUS
    <3>10. Trusted
      BY <2>9
    <3>1. vSize - 1 = Len(t.sizes)
      BY <1>2, <1>3, <1>4, <2>9, <3>10
    <3>2. \A s \in Video!Range(ss) : \E j \in 1..Len(t.sizes) : s = g.sizes[j]
      BY <1>3, <2>2, <3>1 DEF Video!Range
    <3>3. \A j \in 1..Len(t.sizes) : g.sizes[j] \in Video!Range(ss)
      BY <1>3, <2>2, <3>1 DEF Video!Range
    <3>4. \A j \in 1..Len(t.sizes) :
            /\ Video!RatesOrdered(g.sizes[j].rates)
            /\ <<g.sizes[j].area, Video!Range(g.sizes[j].rates)>>
                 = <<t.sizes[j].area, Video!Range(t.sizes[j].rates)>>
      BY <1>4, <3>1, <3>10 DEF SizeTold
    <3>5. \A s \in Video!Range(ss) : Video!RatesOrdered(s.rates)
      BY <3>2, <3>4
    <3>6. \A s : s \in Video!Range(t.sizes) <=> \E j \in 1..Len(t.sizes) : s = t.sizes[j]
      BY <1>3 DEF Video!Range
    <3>7. {<<s.area, Video!Range(s.rates)>> : s \in Video!Range(ss)}
            = {<<s.area, Video!Range(s.rates)>> : s \in Video!Range(t.sizes)}
      <4>1. ASSUME NEW s \in Video!Range(ss)
            PROVE  \E u \in Video!Range(t.sizes) :
                     <<s.area, Video!Range(s.rates)>> = <<u.area, Video!Range(u.rates)>>
        BY <3>2, <3>4, <3>6
      <4>2. ASSUME NEW u \in Video!Range(t.sizes)
            PROVE  \E s \in Video!Range(ss) :
                     <<u.area, Video!Range(u.rates)>> = <<s.area, Video!Range(s.rates)>>
        BY <3>3, <3>4, <3>6
      <4>3. QED
        BY <4>1, <4>2
    <3>8. QED
      BY <1>2, <2>1, <2>5, <3>5, <3>7 DEF Video!WholeFormat
  <2>7. {vSize', vRate'} \subseteq Nat \ {0}
    BY <1>1, <1>2, <2>3
  <2>8. QED
    BY <1>1, <1>2, <2>1, <2>3, <2>5, <2>6, <2>7, <2>9, FormatStep
<1>7. QED
  BY <1>2, <1>5, <1>6 DEF Video!NextSize, Video!Sizes, Video!Formats, Video!Now, Video!Info

\* What the driver tells of a format: sizes, with their rates.
LEMMA SizesTyped ==
  ASSUME NEW ss \in Seq(Size)
  PROVE  /\ Len(ss) \in Nat
         /\ \A j \in 1..Len(ss) : ss[j].rates \in Seq(Nat) /\ Len(ss[j].rates) \in Nat
<1>1. Len(ss) \in Nat /\ \A j \in 1..Len(ss) : ss[j] \in Size
  OBVIOUS
<1>2. \A j \in 1..Len(ss) : ss[j].rates \in Seq(Nat)
  BY <1>1 DEF Size
<1>3. QED
  BY <1>1, <1>2

\* The three enumerations are inside of what the driver tells, or one behind.
WithinTold ==
  LET told == Driver[vFiles[vAt]].formats IN
  /\ vStep \in {"formats", "sizes", "rates"} => vFormat <= Len(told) + 1
  /\ vStep \in {"sizes", "rates"} =>
       /\ vFormat <= Len(told)
       /\ vSize <= Len(told[vFormat].sizes) + 1
  /\ vStep = "rates" =>
       /\ vSize <= Len(told[vFormat].sizes)
       /\ vRate <= Len(told[vFormat].sizes[vSize].rates) + 1

LEMMA Told ==
  ASSUME VideoInv, vStep \in Asking
  PROVE  LET told == Driver[vFiles[vAt]].formats IN
         /\ told \in Seq(Format) /\ Len(told) \in Nat
         /\ \A k \in 1..Len(told) : Len(told[k].sizes) \in Nat
         /\ \A k \in 1..Len(told) : \A j \in 1..Len(told[k].sizes) :
              Len(told[k].sizes[j].rates) \in Nat
<1>1. vFiles[vAt] \in Node
  BY DEF VideoInv, VideoTypes, Video!TypeOK
<1> SUFFICES ASSUME NEW told, told = Driver[vFiles[vAt]].formats
             PROVE  /\ told \in Seq(Format) /\ Len(told) \in Nat
                    /\ \A k \in 1..Len(told) : Len(told[k].sizes) \in Nat
                    /\ \A k \in 1..Len(told) : \A j \in 1..Len(told[k].sizes) :
                         Len(told[k].sizes[j].rates) \in Nat
  OBVIOUS
<1>2. told \in Seq(Format)
  BY <1>1, VideoAssumption
<1>3. Len(told) \in Nat /\ \A k \in 1..Len(told) : told[k] \in Format
  BY <1>2
<1>4. \A k \in 1..Len(told) : told[k].sizes \in Seq(Size)
  BY <1>3 DEF Format
<1>5. \A k \in 1..Len(told) : Len(told[k].sizes) \in Nat
  BY <1>4, SizesTyped
<1>6. ASSUME NEW k \in 1..Len(told), NEW j \in 1..Len(told[k].sizes)
      PROVE  Len(told[k].sizes[j].rates) \in Nat
  BY <1>4, SizesTyped
<1>7. QED
  BY <1>2, <1>3, <1>5, <1>6

LEMMA WithinInit == Video!Init => WithinTold
BY DEF Video!Init, WithinTold

LEMMA WithinKept == ASSUME VideoInv, WithinTold, Video!Next PROVE WithinTold'
<1>1. vStep \in Asking => vFiles[vAt] \in Node
  BY DEF VideoInv, VideoTypes, Video!TypeOK, Asking, Entered
<1>2. vFormat \in Nat \ {0} /\ vSize \in Nat \ {0} /\ vRate \in Nat \ {0}
  BY DEF VideoInv, VideoTypes, Video!TypeOK
<1> DEFINE told == Driver[vFiles[vAt]].formats
<1>3. CASE Video!Plug
  <2>1. UNCHANGED <<vStep, vFiles, vAt, vFormat, vSize, vRate>>
    BY <1>3 DEF Video!Plug, Video!Toggle, Video!indices
  <2>2. QED
    BY <2>1 DEF WithinTold
<1>4. CASE Video!ScanThrows \/ Video!Scan \/ Video!ScanEnds \/ Video!Open
           \/ Video!QueryCapabilities \/ Video!Return
  <2>1. vStep' \notin {"formats", "sizes", "rates"}
    BY <1>4 DEF Video!ScanThrows, Video!Scan, Video!ScanEnds, Video!Open, Video!Close,
                Video!QueryCapabilities, Video!Return
  <2>2. QED
    BY <2>1 DEF WithinTold
<1>5. CASE Video!GetFormat
  <2>1. vStep = "current" /\ vStep' = "formats" /\ vFormat' = 1 /\ UNCHANGED <<vFiles, vAt>>
    BY <1>5 DEF Video!GetFormat, Video!Environment
  <2>2. Len(told) \in Nat
    BY <2>1, Told DEF Asking, Entered
  <2>3. 1 <= Len(told) + 1
    BY <2>2
  <2>4. QED
    BY <2>1, <2>3 DEF WithinTold
<1>6. CASE Video!NextFormat
  <2>1. vStep = "formats" /\ UNCHANGED <<vFiles, vFormat>>
    BY <1>6 DEF Video!NextFormat, Video!Environment
  <2>2. CASE vStep' = "sizes"
    <3>1. vFormat <= Len(told) /\ vSize' = 1 /\ vAt' = vAt
      BY <1>6, <2>1, <2>2 DEF Video!NextFormat, Video!Close, Video!Formats, Video!Now
    <3>2. /\ Len(told) \in Nat /\ \A k \in 1..Len(told) : Len(told[k].sizes) \in Nat
      BY <2>1, Told DEF Asking, Entered
    <3>3. 1 <= Len(told[vFormat].sizes) + 1 /\ vFormat <= Len(told) + 1
      <4>1. vFormat \in 1..Len(told)
        BY <1>2, <3>1, <3>2
      <4>2. Len(told[vFormat].sizes) \in Nat
        BY <3>2, <4>1
      <4>3. QED
        BY <1>2, <3>1, <3>2, <4>2
    <3>4. QED
      BY <2>1, <2>2, <3>1, <3>3 DEF WithinTold
  <2>3. CASE vStep' = "open"
    BY <2>3 DEF WithinTold
  <2>4. QED
    BY <1>6, <2>2, <2>3 DEF Video!NextFormat, Video!Close
<1>7. CASE Video!NextSize
  <2>1. vStep = "sizes" /\ UNCHANGED <<vFiles, vAt, vSize>>
    BY <1>7 DEF Video!NextSize, Video!Environment
  <2>2. /\ Len(told) \in Nat /\ \A k \in 1..Len(told) : Len(told[k].sizes) \in Nat
        /\ \A k \in 1..Len(told) : \A j \in 1..Len(told[k].sizes) :
             Len(told[k].sizes[j].rates) \in Nat
    BY <2>1, Told DEF Asking, Entered
  <2>3. vFormat <= Len(told) /\ vSize <= Len(told[vFormat].sizes) + 1 /\ vFormat <= Len(told) + 1
    BY <1>2, <2>1, <2>2 DEF WithinTold
  <2>4. CASE vStep' = "rates"
    <3>1. vSize <= Len(told[vFormat].sizes) /\ vRate' = 1 /\ vFormat' = vFormat
      BY <1>7, <2>1, <2>4 DEF Video!NextSize, Video!Sizes, Video!Formats, Video!Now
    <3>2. 1 <= Len(told[vFormat].sizes[vSize].rates) + 1
      <4>1. vFormat \in 1..Len(told)
        BY <1>2, <2>2, <2>3
      <4>2. vSize \in 1..Len(told[vFormat].sizes)
        BY <1>2, <2>2, <3>1, <4>1
      <4>3. Len(told[vFormat].sizes[vSize].rates) \in Nat
        BY <2>2, <4>1, <4>2
      <4>4. \A m \in Nat : 1 <= m + 1
        OBVIOUS
      <4>5. QED
        BY <4>3, <4>4, Zenon
    <3>3. QED
      BY <2>1, <2>3, <2>4, <3>1, <3>2 DEF WithinTold
  <2>5. CASE vStep' = "formats"
    <3>1. vFormat' = vFormat + 1
      BY <1>7, <2>1, <2>5 DEF Video!NextSize
    <3>2. vFormat' <= Len(told) + 1
      BY <1>2, <2>2, <2>3, <3>1
    <3>3. QED
      BY <2>1, <2>5, <3>2 DEF WithinTold
  <2>6. QED
    BY <1>7, <2>4, <2>5 DEF Video!NextSize
<1>8. CASE Video!NextRate
  <2>1. vStep = "rates" /\ UNCHANGED <<vFiles, vAt, vFormat>>
    BY <1>8 DEF Video!NextRate, Video!Environment
  <2>2. /\ Len(told) \in Nat /\ \A k \in 1..Len(told) : Len(told[k].sizes) \in Nat
        /\ \A k \in 1..Len(told) : \A j \in 1..Len(told[k].sizes) :
             Len(told[k].sizes[j].rates) \in Nat
    BY <2>1, Told DEF Asking, Entered
  <2>3. /\ vFormat <= Len(told) /\ vFormat <= Len(told) + 1
        /\ vSize <= Len(told[vFormat].sizes) /\ vSize <= Len(told[vFormat].sizes) + 1
        /\ vSize + 1 <= Len(told[vFormat].sizes) + 1
    BY <1>2, <2>1, <2>2 DEF WithinTold
  <2>4. CASE vStep' = "rates"
    <3>1. /\ vRate <= Len(told[vFormat].sizes[vSize].rates)
          /\ vRate' = vRate + 1 /\ vSize' = vSize
      BY <1>8, <2>1, <2>4 DEF Video!NextRate, Video!Rates, Video!Sizes, Video!Formats, Video!Now
    <3>2. vRate' <= Len(told[vFormat].sizes[vSize].rates) + 1
      BY <1>2, <2>2, <2>3, <3>1
    <3>3. QED
      BY <2>1, <2>3, <2>4, <3>1, <3>2 DEF WithinTold
  <2>5. CASE vStep' = "sizes"
    <3>1. vSize' = vSize + 1
      BY <1>8, <2>1, <2>5 DEF Video!NextRate
    <3>2. QED
      BY <2>1, <2>3, <2>5, <3>1 DEF WithinTold
  <2>6. QED
    BY <1>8, <2>1, <2>4, <2>5 DEF Video!NextRate
<1>9. QED
  BY <1>3, <1>4, <1>5, <1>6, <1>7, <1>8 DEF Video!Next, Video!Work

\* Only the rates of the size in work change.
LEMMA SizeStep ==
  ASSUME VideoInv, vStep = "rates", vStep' \in {"sizes", "rates"},
         NEW r \in Entry, NEW g \in Format, NEW t \in Format, NEW s \in Size,
         r = vResult[Len(vResult)], g = r.formats[vFormat], t = Driver[r.id].formats[vFormat],
         s.area = g.sizes[vSize].area,
         vResult' = [vResult EXCEPT ![Len(vResult)].formats[vFormat].sizes[vSize].rates = s.rates],
         vSize' = IF vStep' = "sizes" THEN vSize + 1 ELSE vSize,
         vRate' \in Nat \ {0},
         Asked, UNCHANGED <<vAt, vFd, vCurrent, vFormat, vPlugged, vUnseen, vFiles>>,
         Trusted' =>
           IF vStep' = "sizes" THEN SizeTold(s, t.sizes[vSize])
                               ELSE RatesSoFar(s, t.sizes[vSize], vRate' - 1)
  PROVE  VideoInv'
<1>1. /\ Len(g.sizes) = vSize /\ {vFormat, vSize, vRate} \subseteq Nat \ {0}
      /\ Trusted => SizesSoFar(g, t)
  BY FormatInWork
<1>2. g.sizes \in Seq(Size) /\ g.name \in STRING /\ DOMAIN g.sizes = 1..vSize /\ vSize \in 1..vSize
  BY <1>1 DEF Format
<1>3. PICK ss \in Seq(Size) : ss = [g.sizes EXCEPT ![vSize] = s]
  BY <1>1, <1>2, ExceptSeq
<1>4. /\ Len(ss) = vSize /\ DOMAIN ss = 1..vSize /\ ss[vSize] = s
      /\ \A j \in 1..vSize : j # vSize => ss[j] = g.sizes[j]
  BY <1>1, <1>2, <1>3
<1>5. PICK f \in Format : f = [name |-> g.name, sizes |-> ss]
  BY <1>2 DEF Format
<1>6. f.name = g.name /\ f.sizes = ss
  BY <1>5
<1>7. vResult' = [vResult EXCEPT ![Len(vResult)].formats[vFormat].sizes = f.sizes]
  <2>1. PICK z \in Size : z = g.sizes[vSize]
    BY <1>2
  <2>2. [z EXCEPT !.rates = s.rates] = s
    <3>1. s = [area |-> s.area, rates |-> s.rates] /\ z = [area |-> z.area, rates |-> z.rates]
      BY DEF Size
    <3>2. QED
      BY <2>1, <3>1
  <2>3. vResult' = [vResult EXCEPT ![Len(vResult)].formats[vFormat].sizes =
                      [g.sizes EXCEPT ![vSize] = [z EXCEPT !.rates = s.rates]]]
    BY <2>1
  <2>4. QED
    BY <1>3, <1>6, <2>2, <2>3
<1>8. Trusted' => SizesSoFar(f, t)'
  <2> SUFFICES ASSUME Trusted' PROVE SizesSoFar(f, t)'
    OBVIOUS
  <2>7. Trusted
    BY DEF Trusted, Asked
  <2>1. /\ vSize <= Len(t.sizes)
        /\ \A j \in 1..vSize : j < vSize => SizeTold(g.sizes[j], t.sizes[j])
    BY <1>1, <1>2, <2>7 DEF SizesSoFar
  <2>2. \A j \in 1..vSize : j < vSize => SizeTold(ss[j], t.sizes[j])
    <3>1. \A j \in 1..vSize : j < vSize => j # vSize
      OBVIOUS
    <3>2. QED
      BY <1>4, <2>1, <3>1
  <2>3. Len(f.sizes) <= Len(t.sizes) /\ DOMAIN f.sizes = 1..vSize
    BY <1>4, <1>6, <2>1
  <2>4. CASE vStep' = "sizes"
    <3>1. \A j \in 1..vSize : SizeTold(ss[j], t.sizes[j])
      <4> SUFFICES ASSUME NEW j \in 1..vSize PROVE SizeTold(ss[j], t.sizes[j])
        OBVIOUS
      <4>1. j < vSize \/ j = vSize
        <5>1. vSize \in Nat
          BY <1>1
        <5>2. QED
          BY <5>1
      <4>2. QED
        BY <1>4, <2>2, <2>4, <4>1
    <3>2. QED
      BY <1>6, <2>3, <2>4, <3>1 DEF SizesSoFar
  <2>5. CASE vStep' = "rates"
    <3>1. vSize' = vSize /\ RatesSoFar(f.sizes[vSize], t.sizes[vSize], vRate' - 1)
      BY <1>4, <1>6, <2>5
    <3>2. QED
      BY <1>6, <2>2, <2>3, <3>1 DEF SizesSoFar
  <2>6. QED
    BY <2>4, <2>5
<1>9. {vSize', vRate'} \subseteq Nat \ {0}
  BY <1>1
<1>10. Len(f.sizes) = IF vStep' = "sizes" THEN vSize' - 1 ELSE vSize'
  BY <1>1, <1>4, <1>6
<1>11. QED
  BY <1>1, <1>6, <1>7, <1>8, <1>9, <1>10, FormatStep

LEMMA NextRateStep == ASSUME VideoInv, WithinTold, Video!NextRate PROVE VideoInv'
<1>1. /\ vStep = "rates"
      /\ UNCHANGED <<vAt, vFd, vCurrent, vFormat, vPlugged, vUnseen, vFiles>>
  BY DEF Video!NextRate, Video!Environment
<1>2. PICK r \in Entry, g \in Format, t \in Format :
        /\ r = vResult[Len(vResult)] /\ r.id = vFiles[vAt]
        /\ g = r.formats[vFormat] /\ t = Driver[r.id].formats[vFormat]
        /\ Len(g.sizes) = vSize
        /\ Trusted => SizesSoFar(g, t)
        /\ {vFormat, vSize, vRate} \subseteq Nat \ {0}
  BY <1>1, FormatInWork
<1>3. g.sizes \in Seq(Size) /\ t.sizes \in Seq(Size) /\ vSize \in DOMAIN g.sizes
      /\ Len(t.sizes) \in Nat /\ vSize \in 1..Len(t.sizes)
  <2>1. g.sizes \in Seq(Size) /\ t.sizes \in Seq(Size)
    BY DEF Format
  <2>2. vSize <= Len(t.sizes)
    <3>1. vSize <= Len(Driver[vFiles[vAt]].formats[vFormat].sizes)
      BY <1>1 DEF WithinTold
    <3>2. t = Driver[vFiles[vAt]].formats[vFormat]
      BY <1>2
    <3>3. QED
      BY <3>1, <3>2
  <2>3. vSize \in Nat \ {0} /\ Len(g.sizes) = vSize
    BY <1>2
  <2>4. DOMAIN g.sizes = 1..Len(g.sizes) /\ Len(t.sizes) \in Nat
    BY <2>1
  <2>5. QED
    BY <2>1, <2>2, <2>3, <2>4
<1>4. PICK z \in Size : z = g.sizes[vSize]
  BY <1>3
<1>5. z.rates \in Seq(Nat) /\ z.area \in Nat /\ Len(z.rates) \in Nat
      /\ DOMAIN z.rates = 1..Len(z.rates)
  BY DEF Size
<1> DEFINE u == t.sizes[vSize]
<1>10. u \in Size /\ u.rates \in Seq(Nat) /\ Len(u.rates) \in Nat
  <2>1. u \in Size
    BY <1>3
  <2>2. QED
    BY <2>1 DEF Size
<1>6. Trusted =>
        /\ z.area = u.area
        /\ Len(z.rates) = vRate - 1 /\ vRate - 1 <= Len(u.rates)
        /\ \A m \in 1..(vRate - 1) : z.rates[m] = u.rates[m]
  <2> SUFFICES ASSUME Trusted
               PROVE  /\ z.area = u.area
                      /\ Len(z.rates) = vRate - 1 /\ vRate - 1 <= Len(u.rates)
                      /\ \A m \in 1..(vRate - 1) : z.rates[m] = u.rates[m]
    OBVIOUS
  <2>1. RatesSoFar(z, u, vRate - 1)
    BY <1>1, <1>2, <1>4 DEF SizesSoFar
  <2>2. QED
    BY <2>1 DEF RatesSoFar
<1>7. CASE /\ Video!Answered /\ vRate <= Len(u.rates)
           /\ vResult' = [vResult EXCEPT ![Len(vResult)].formats[vFormat].sizes[vSize].rates =
                            Append(@, u.rates[vRate])]
           /\ vRate' = vRate + 1 /\ UNCHANGED <<vStep, vSize>>
  <2>1. /\ vResult' = [vResult EXCEPT ![Len(vResult)].formats[vFormat].sizes[vSize].rates =
                         Append(@, u.rates[vRate])]
        /\ vRate' = vRate + 1 /\ vStep' = "rates" /\ vSize' = vSize
    BY <1>1, <1>7
  <2>12. Asked /\ (Trusted' => Trusted)
    BY <1>1, <1>7 DEF Asked, Trusted, Video!Answered
  <2>2. u.rates[vRate] \in Nat
    <3>1. vRate \in 1..Len(u.rates)
      BY <1>2, <1>7, <1>10
    <3>2. QED
      BY <1>10, <3>1
  <2>3. PICK q \in Seq(Nat) : q = Append(z.rates, u.rates[vRate])
    BY <1>5, <2>2, AppendProperties
  <2>4. PICK n \in Nat : n = Len(z.rates)
    BY <1>5
  <2>5. /\ Len(q) = n + 1 /\ q[n + 1] = u.rates[vRate]
        /\ \A m \in 1..n : q[m] = z.rates[m]
    BY <1>5, <2>2, <2>3, <2>4, AppendProperties
  <2>6. PICK s \in Size : s = [area |-> z.area, rates |-> q]
    BY <1>5 DEF Size
  <2>7. s.area = g.sizes[vSize].area /\ s.rates = q
    BY <1>4, <2>6
  <2>8. vResult' =
          [vResult EXCEPT ![Len(vResult)].formats[vFormat].sizes[vSize].rates = s.rates]
    BY <1>2, <1>4, <2>1, <2>3, <2>7
  <2>9. Trusted' => RatesSoFar(s, u, vRate' - 1)
    <3> SUFFICES ASSUME Trusted PROVE RatesSoFar(s, u, vRate' - 1)
      BY <2>12
    <3>4. vRate = n + 1
      <4>1. n = vRate - 1
        BY <1>6, <2>4
      <4>2. QED
        BY <1>2, <2>4, <4>1
    <3>1. vRate' - 1 = n + 1 /\ n + 1 <= Len(u.rates)
      <4>1. vRate' = vRate + 1 /\ vRate <= Len(u.rates)
        BY <1>7, <2>1
      <4>2. QED
        BY <2>4, <3>4, <4>1
    <3>2. \A m \in 1..(n + 1) : q[m] = u.rates[m]
      <4>1. \A m \in 1..n : q[m] = u.rates[m]
        BY <1>6, <2>4, <2>5, <3>4
      <4>2. \A m \in 1..(n + 1) : m \in 1..n \/ m = n + 1
        BY <2>4
      <4>3. QED
        BY <2>4, <2>5, <3>4, <4>1, <4>2
    <3>3. QED
      BY <1>6, <2>5, <2>6, <3>1, <3>2 DEF RatesSoFar
  <2>10. vRate' \in Nat \ {0}
    BY <1>2, <2>1
  <2>11. QED
    <3>1. Trusted' => IF vStep' = "sizes" THEN SizeTold(s, t.sizes[vSize])
                          ELSE RatesSoFar(s, t.sizes[vSize], vRate' - 1)
      BY <2>1, <2>9
    <3>2. vStep' \in {"sizes", "rates"}
      BY <2>1
    <3>3. vSize' = IF vStep' = "sizes" THEN vSize + 1 ELSE vSize
      BY <2>1
    <3> HIDE DEF u
    <3>4. QED
      BY <1>1, <1>2, <2>7, <2>8, <2>10, <2>12, <3>1, <3>2, <3>3, SizeStep
<1>8. CASE /\ (Video!Answered /\ vRate > Len(u.rates)) \/ Video!Fails
           /\ \E q \in Video!Shuffled(z.rates) :
                /\ Video!RatesOrdered(q)
                /\ vResult' =
                     [vResult EXCEPT ![Len(vResult)].formats[vFormat].sizes[vSize].rates = q]
           /\ vStep' = "sizes" /\ vSize' = vSize + 1 /\ vRate' = vRate
  <2>8. Asked /\ (Trusted' => Trusted /\ vRate > Len(u.rates))
    BY <1>1, <1>8 DEF Asked, Trusted, Video!Answered, Video!Fails, Video!Now
  <2>1. PICK q \in Video!Shuffled(z.rates) :
          /\ Video!RatesOrdered(q)
          /\ vResult' =
               [vResult EXCEPT ![Len(vResult)].formats[vFormat].sizes[vSize].rates = q]
    BY <1>8
  <2>2. vStep' = "sizes" /\ vSize' = vSize + 1 /\ vRate' = vRate
    BY <1>8
  <2>3. q \in Seq(Nat) /\ Video!Range(q) = Video!Range(z.rates)
    BY <1>5, <2>1, ShuffledFacts
  <2>4. PICK s \in Size : s = [area |-> z.area, rates |-> q]
    BY <1>5, <2>3 DEF Size
  <2>5. s.area = g.sizes[vSize].area /\ s.rates = q
    BY <1>4, <2>4
  <2>6. Trusted' => SizeTold(s, u)
    <3> SUFFICES ASSUME Trusted, vRate > Len(u.rates) PROVE SizeTold(s, u)
      BY <2>8
    <3>1. Len(u.rates) = Len(z.rates) /\ \A m \in 1..Len(z.rates) : z.rates[m] = u.rates[m]
      <4>2. vRate \in Nat /\ vRate - 1 <= Len(u.rates)
        BY <1>2, <1>6
      <4>3. Len(u.rates) = vRate - 1
        BY <1>10, <4>2
      <4>4. QED
        BY <1>6, <4>3
    <3>2. DOMAIN u.rates = 1..Len(z.rates)
      BY <1>10, <3>1
    <3>3. Video!Range(z.rates) = Video!Range(u.rates)
      BY <1>5, <3>1, <3>2 DEF Video!Range
    <3>4. QED
      BY <1>6, <2>1, <2>3, <2>4, <3>3 DEF SizeTold
  <2>7. QED
    BY <1>1, <1>2, <2>1, <2>2, <2>5, <2>6, <2>8, SizeStep
<1>9. QED
  BY <1>2, <1>4, <1>7, <1>8
     DEF Video!NextRate, Video!Rates, Video!Sizes, Video!Formats, Video!Now, Video!Info

LEMMA ReturnStep == ASSUME VideoInv, Video!Return PROVE VideoInv'
<1>1. /\ vStep = "open" /\ vAt > Len(vFiles) /\ vStep' = "end"
      /\ UNCHANGED <<vAt, vFd, vFormat, vSize, vRate, vResult, vPlugged, vUnseen, vFiles,
                     vDisturbed>>
  BY DEF Video!Return, Video!Environment, Video!indices
<1>2. VideoTypes'
  BY <1>1 DEF VideoInv, VideoTypes, Video!TypeOK, Asking, Entered
<1>3. Scanned' /\ Descriptor' /\ EntrySoFar'
  BY <1>1 DEF VideoInv, Scanned, Descriptor, EntrySoFar, Asking, Entered
<1>4. Behind' = Behind
  BY <1>1 DEF Behind, Entered
<1>5. OneEntryEach' /\ EntriesFinished'
  BY <1>1, <1>4 DEF VideoInv, OneEntryEach, EntriesFinished, Finished, Begun, Entered
<1>6. QED
  BY <1>2, <1>3, <1>5 DEF VideoInv

LEMMA VideoStep == ASSUME VideoInv, WithinTold, Video!Next PROVE VideoInv'
BY PlugStep, ScanStep, OpenStep, QueryCapabilitiesStep, GetFormatStep, NextFormatStep,
   NextSizeStep, NextRateStep, ReturnStep DEF Video!Next, Video!Work

LEMMA VideoSame == ASSUME VideoInv, UNCHANGED vVars PROVE VideoInv'
<1>1. UNCHANGED <<vPlugged, vStep, vUnseen, vFiles, vAt, vFd, vCurrent, vFormat, vSize, vRate,
                  vResult, vDisturbed>>
  BY DEF vVars
<1>2. VideoTypes' /\ Scanned' /\ Descriptor'
  BY <1>1 DEF VideoInv, VideoTypes, Video!TypeOK, Scanned, Descriptor
<1>3. OneEntryEach'
  BY <1>1 DEF VideoInv, OneEntryEach, Behind
<1>4. EntriesFinished'
  BY <1>1, FinishedStays DEF VideoInv, EntriesFinished
<1>5. EntrySoFar'
  BY <1>1 DEF VideoInv, EntrySoFar, FormatsSoFar, WholeSoFar, SizesSoFar, RatesSoFar, SizeTold, Begun,
         Trusted
<1>6. QED
  BY <1>2, <1>3, <1>4, <1>5 DEF VideoInv

\* What the list is like when the call returns.
LEMMA VideoListed == VideoInv => Video!TypeOK /\ Video!ListedAsFound
<1> SUFFICES ASSUME VideoInv PROVE Video!TypeOK /\ Video!ListedAsFound
  OBVIOUS
<1>1. Video!TypeOK
  BY DEF VideoInv, VideoTypes
<1>2. SUFFICES ASSUME vStep = "end" PROVE Video!ListedAsFound
  BY <1>1 DEF Video!ListedAsFound
<1>3. /\ vFd = "closed" /\ vUnseen = {} /\ vAt > Len(vFiles) /\ vStep \notin Entered
      /\ DOMAIN vFiles = 1..Len(vFiles) /\ Len(vFiles) \in Nat /\ vAt \in Nat
  BY <1>2 DEF VideoInv, VideoTypes, Video!TypeOK, Scanned, Descriptor, OneEntryEach, Asking, Entered
<1>4. Behind = DOMAIN vFiles
  BY <1>3 DEF Behind
<1>5. \A i, j \in DOMAIN vResult : vResult[i].id = vResult[j].id => i = j
  BY DEF VideoInv, OneEntryEach
<1>6. \A n \in (vPlugged \cap Capture) \ vDisturbed : \E i \in DOMAIN vResult : vResult[i].id = n
  <2> SUFFICES ASSUME NEW n \in (vPlugged \cap Capture) \ vDisturbed
               PROVE  \E i \in DOMAIN vResult : vResult[i].id = n
    OBVIOUS
  <2>1. PICK k \in DOMAIN vFiles : vFiles[k] = n
    BY <1>3 DEF VideoInv, Scanned
  <2>2. QED
    BY <1>4, <2>1 DEF VideoInv, OneEntryEach
<1>7. \A i \in DOMAIN vResult : Finished(vResult[i])
  BY <1>3 DEF VideoInv, EntriesFinished
<1>8. QED
  BY <1>3, <1>5, <1>6, <1>7 DEF Video!ListedAsFound, Finished, Begun

\* How far the list has come: the device, what is done for it, its format, whether
\* the sizes of it are asked for, the size, and the same of the rates.
Stage(s) == CASE s = "open" -> 0 [] s = "capabilities" -> 1 [] s = "current" -> 2
              [] s \in {"formats", "sizes", "rates"} -> 3 [] s = "end" -> 4

Place ==
  <<vAt, Stage(vStep), vFormat, IF vStep = "formats" THEN 0 ELSE 1, vSize,
    IF vStep = "sizes" THEN 0 ELSE 1, vRate>>

Later(a, b) == \E k \in DOMAIN a : a[k] < b[k] /\ \A j \in 1..(k - 1) : a[j] = b[j]

\* A step leaves the scan or goes on with it, or it goes on with the devices, or it
\* is a device that is plugged in or out.
ListGoesOn ==
  \/ vStep = "scan" /\ (vStep' # "scan" \/ (vUnseen' \subseteq vUnseen /\ vUnseen' # vUnseen))
  \/ vStep # "scan" /\ vStep' # "scan" /\ Later(Place, Place')
  \/ vPlugged' # vPlugged /\ UNCHANGED <<vStep, vUnseen, vFiles, Place>>

LEMMA VideoGoesOn == ASSUME VideoInv, Video!Next PROVE ListGoesOn
<1>1. /\ vAt \in Nat /\ vFormat \in Nat /\ vSize \in Nat /\ vRate \in Nat
      /\ vUnseen \subseteq Node \cup Link
  BY DEF VideoInv, VideoTypes, Video!TypeOK
<1>2. CASE Video!Plug
  <2>1. /\ vPlugged' # vPlugged
        /\ UNCHANGED <<vStep, vUnseen, vFiles, vAt, vFormat, vSize, vRate>>
    BY <1>2 DEF Video!Plug, Video!Toggle, Video!indices
  <2>2. QED
    BY <2>1 DEF ListGoesOn, Place
<1>3. CASE Video!ScanThrows \/ Video!Scan \/ Video!ScanEnds
  BY <1>1, <1>3 DEF Video!ScanThrows, Video!Scan, Video!ScanEnds, ListGoesOn
\* The device is asked something else, or it is the next one.
<1>4. ASSUME vStep # "scan", vStep' # "scan", Later(Place, Place') PROVE ListGoesOn
  BY <1>4 DEF ListGoesOn
<1>5. CASE vAt' = vAt + 1 /\ vStep # "scan" /\ vStep' # "scan"
  <2>1. Place[1] < Place'[1]
    BY <1>1, <1>5 DEF Place
  <2>2. Later(Place, Place')
    <3>1. 1 \in DOMAIN Place /\ 1..(1 - 1) = {}
      BY DEF Place
    <3>2. QED
      BY <2>1, <3>1 DEF Later
  <2>3. QED
    BY <1>4, <1>5, <2>2
<1>6. CASE /\ vAt' = vAt /\ vStep # "scan" /\ vStep' # "scan"
           /\ Stage(vStep) \in 0..4 /\ Stage(vStep') \in 0..4 /\ Stage(vStep) < Stage(vStep')
  <2>1. Later(Place, Place')
    <3>1. 2 \in DOMAIN Place /\ 1..(2 - 1) = {1}
      BY DEF Place
    <3>2. Place[1] = Place'[1] /\ Place[2] < Place'[2]
      BY <1>6 DEF Place
    <3>3. QED
      BY <3>1, <3>2 DEF Later
  <2>2. QED
    BY <1>4, <1>6, <2>1
<1>7. CASE Video!Open \/ Video!QueryCapabilities \/ Video!GetFormat \/ Video!Return
  <2>1. \/ vAt' = vAt + 1 /\ vStep # "scan" /\ vStep' # "scan"
        \/ /\ vAt' = vAt
           /\ <<vStep, vStep'>> \in {<<"open", "capabilities">>, <<"capabilities", "current">>,
                                     <<"current", "formats">>, <<"open", "end">>}
    BY <1>7 DEF Video!Open, Video!QueryCapabilities, Video!GetFormat, Video!Return, Video!Close
  <2>2. QED
    BY <1>5, <1>6, <2>1 DEF Stage
<1>8. CASE Video!NextFormat
  <2>1. CASE vStep' = "sizes"
    <3>1. vStep = "formats" /\ vAt' = vAt /\ vFormat' = vFormat
      BY <1>8, <2>1 DEF Video!NextFormat, Video!Close
    <3>2. 4 \in DOMAIN Place /\ 1..(4 - 1) = {1, 2, 3}
      BY DEF Place
    <3>3. /\ Place[1] = Place'[1] /\ Place[2] = Place'[2] /\ Place[3] = Place'[3]
          /\ Place[4] < Place'[4]
      BY <2>1, <3>1 DEF Place, Stage
    <3>4. QED
      BY <1>4, <2>1, <3>1, <3>2, <3>3 DEF Later
  <2>2. CASE vStep' # "sizes"
    BY <1>5, <1>8, <2>2 DEF Video!NextFormat, Video!Close
  <2>3. QED
    BY <2>1, <2>2
<1>9. CASE Video!NextSize
  <2>1. vStep = "sizes" /\ vAt' = vAt /\ vSize' = vSize /\ vStep' \in {"rates", "formats"}
    BY <1>9 DEF Video!NextSize
  <2>2. CASE vStep' = "rates"
    <3>1. vFormat' = vFormat
      BY <1>9, <2>1, <2>2 DEF Video!NextSize
    <3>2. 6 \in DOMAIN Place /\ 1..(6 - 1) = {1, 2, 3, 4, 5}
      BY DEF Place
    <3>3. /\ Place[1] = Place'[1] /\ Place[2] = Place'[2] /\ Place[3] = Place'[3]
          /\ Place[4] = Place'[4] /\ Place[5] = Place'[5] /\ Place[6] < Place'[6]
      BY <2>1, <2>2, <3>1 DEF Place, Stage
    <3>4. QED
      BY <1>4, <2>1, <3>2, <3>3 DEF Later
  <2>3. CASE vStep' = "formats"
    <3>1. vFormat' = vFormat + 1
      BY <1>9, <2>1, <2>3 DEF Video!NextSize
    <3>2. 3 \in DOMAIN Place /\ 1..(3 - 1) = {1, 2}
      BY DEF Place
    <3>3. Place[1] = Place'[1] /\ Place[2] = Place'[2] /\ Place[3] < Place'[3]
      BY <1>1, <2>1, <2>3, <3>1 DEF Place, Stage
    <3>4. QED
      BY <1>4, <2>1, <3>2, <3>3 DEF Later
  <2>4. QED
    BY <2>1, <2>2, <2>3
<1>10. CASE Video!NextRate
  <2>1. /\ vStep = "rates" /\ vAt' = vAt /\ vFormat' = vFormat
        /\ \/ vStep' = "rates" /\ vSize' = vSize /\ vRate' = vRate + 1
           \/ vStep' = "sizes" /\ vSize' = vSize + 1
    BY <1>10 DEF Video!NextRate
  <2>2. /\ Place[1] = Place'[1] /\ Place[2] = Place'[2] /\ Place[3] = Place'[3]
        /\ Place[4] = Place'[4]
    BY <2>1 DEF Place, Stage
  <2>3. CASE vStep' = "sizes"
    <3>1. 5 \in DOMAIN Place /\ 1..(5 - 1) = {1, 2, 3, 4}
      BY DEF Place
    <3>2. Place[5] < Place'[5]
      BY <1>1, <2>1, <2>3 DEF Place
    <3>3. QED
      BY <1>4, <2>1, <2>2, <3>1, <3>2 DEF Later
  <2>4. CASE vStep' = "rates"
    <3>1. 7 \in DOMAIN Place /\ 1..(7 - 1) = {1, 2, 3, 4, 5, 6}
      BY DEF Place
    <3>2. Place[5] = Place'[5] /\ Place[6] = Place'[6] /\ Place[7] < Place'[7]
      BY <1>1, <2>1, <2>4 DEF Place
    <3>3. QED
      BY <1>4, <2>1, <2>2, <3>1, <3>2 DEF Later
  <2>5. QED
    BY <2>1, <2>3, <2>4
<1>11. QED
  BY <1>2, <1>3, <1>7, <1>8, <1>9, <1>10 DEF Video!Next, Video!Work
-----------------------------------------------------------------------------
(* The session with PulseAudio.                                            *)

Messages == [kind : {"connecting", "ready", "lost", "reply", "error"},
             to : {"none", "server_info", "info_by_name", "info_list"},
             devices : SUBSET Source]

IsAnswer(m) == m.kind \in {"reply", "error"}

PulseTypes ==
  /\ Pulse!TypeOK
  /\ pFaults \in Nat
  /\ pPc # "idle" => pCall # "none"

\* A session begins without a connection, and nothing comes behind a loss of it.
Connection ==
  /\ pPc \in {"idle", "connect"} =>
       pLink = "closed" /\ pInbox = <<>> /\ pOutbox = "none" /\ pAsked = "none"
  /\ pPc # "idle" /\ pNotifier = "failed" => pLink = "broken" /\ pInbox = <<>>
  /\ \A i \in 1..Len(pInbox) :
       pInbox[i].kind = "lost" => pLink = "broken" /\ i = Len(pInbox)

InSession == pPc \in {"loop", "waiting", "iterating"}

\* The references that are kept, with that of the operation that is going on,
\* are paid for by faults.
References ==
  /\ pPc \in {"idle", "connect", "end"} => pRefs <= pFaults
  /\ InSession \/ pPc = "crashed" =>
       /\ pStep = 1 => pRefs >= 1
       /\ pLink # "broken" => pRefs <= pFaults + pStep
       /\ pLink = "broken" /\ pNotifier # "failed" => pRefs + 1 <= pFaults + pStep
       /\ pNotifier = "failed" => pRefs <= pFaults

\* There is one request at a time, written, asked or answered, and it is that of
\* the operation that is waited for; the result is that of the last one done.
Answers ==
  /\ InSession /\ pNotifier # "failed" =>
       /\ pStep = 0 <=> pOp = "none"
       /\ pOp # "running" => pOutbox = "none" /\ pAsked = "none"
       /\ pOutbox # "none" => pOutbox = Pulse!Request /\ pAsked = "none"
       /\ pAsked # "none" => pAsked = Pulse!Request
       /\ \A i \in 1..Len(pInbox) : IsAnswer(pInbox[i]) =>
            /\ pOp = "running" /\ pOutbox = "none" /\ pAsked = "none"
            /\ pInbox[i].to = Pulse!Request /\ pInbox[i].devices = pTruth
       /\ \A i, j \in 1..Len(pInbox) : IsAnswer(pInbox[i]) /\ IsAnswer(pInbox[j]) => i = j
       /\ pOp # "done" \/ Pulse!Request = "server_info" => pResult = {}
       /\ pOp = "done" /\ Pulse!Request # "server_info" => pResult = pTruth
  /\ pPc = "connect" => pResult = {} /\ ~pRc
  /\ pPc = "end" /\ pRc /\ pNotifier # "failed" =>
       pOp = "done" /\ pResult = pTruth /\ pAsked = "none"

PulseInv == PulseTypes /\ Connection /\ References /\ Answers

LEMMA PulseInit == Pulse!Init => PulseInv
<1> SUFFICES ASSUME Pulse!Init PROVE PulseInv
  OBVIOUS
<1>1. pInbox \in Seq(Messages) /\ Len(pInbox) = 0
  BY EmptySeq DEF Pulse!Init
<1>2. PulseTypes
  <2>1. {pHeld, pRc} \subseteq BOOLEAN
    BY DEF Pulse!Init
  <2>2. pDevices \subseteq Source /\ pDefault \in Source \cup {NoSource}
    BY DEF Pulse!Init
  <2>3. pPc = "idle" /\ ~pHeld
    BY DEF Pulse!Init
  <2>4. QED
    BY <1>1, <2>1, <2>2, <2>3 DEF Pulse!Init, PulseTypes, Pulse!TypeOK, Messages
<1>3. Connection /\ References /\ Answers
  BY <1>1 DEF Pulse!Init, Connection, References, Answers, InSession
<1>4. QED
  BY <1>2, <1>3 DEF PulseInv

\* What is left of the messages when the first one has been dispatched.
LEMMA Dispatched ==
  ASSUME PulseTypes, pInbox # <<>>, pInbox' = Tail(pInbox)
  PROVE  /\ Len(pInbox) \in Nat \ {0} /\ Head(pInbox) = pInbox[1] /\ pInbox[1] \in Messages
         /\ pInbox' \in Seq(Messages) /\ Len(pInbox') = Len(pInbox) - 1
         /\ \A i \in 1..Len(pInbox') : i + 1 \in 1..Len(pInbox) /\ pInbox'[i] = pInbox[i + 1]
<1>1. pInbox \in Seq(Messages)
  BY DEF PulseTypes, Pulse!TypeOK, Messages
<1>2. QED
  BY <1>1, LenProperties, EmptySeq, HeadTailProperties, ElementOfSeq

LEMMA Appended ==
  ASSUME PulseTypes, NEW m \in Messages, pInbox' = Append(pInbox, m)
  PROVE  /\ Len(pInbox) \in Nat
         /\ pInbox' \in Seq(Messages) /\ Len(pInbox') = Len(pInbox) + 1
         /\ \A i \in 1..Len(pInbox) : pInbox'[i] = pInbox[i]
         /\ pInbox'[Len(pInbox) + 1] = m
<1>1. pInbox \in Seq(Messages)
  BY DEF PulseTypes, Pulse!TypeOK, Messages
<1>2. QED
  BY <1>1, LenProperties, AppendProperties

\* The answer of the server to a request, as a message.
LEMMA ServerAnswers ==
  ASSUME PulseTypes, Pulse!Answer
  PROVE  \E m \in Messages :
           /\ pInbox' = Append(pInbox, m)
           /\ IsAnswer(m) /\ m.to = pAsked /\ m.devices = pTruth' /\ pTruth' \subseteq Source
<1> DEFINE found == CASE pAsked = "server_info" -> {pDefault} \ {NoSource}
                      [] pAsked = "info_by_name" -> {pName} \cap pDevices
                      [] pAsked = "info_list" -> pDevices
           m == [kind |-> IF pAsked = "info_by_name" /\ found = {} THEN "error" ELSE "reply",
                 to |-> pAsked, devices |-> found]
<1>1. pInbox' = Append(pInbox, m) /\ pTruth' = found
  BY DEF Pulse!Answer, Pulse!Send
<1>2. pAsked \in {"server_info", "info_by_name", "info_list"}
  BY DEF Pulse!Answer, PulseTypes, Pulse!TypeOK
<1>3. found \subseteq Source
  BY <1>2 DEF PulseTypes, Pulse!TypeOK
<1>4. m \in Messages /\ IsAnswer(m) /\ m.to = pAsked /\ m.devices = found
  BY <1>2, <1>3 DEF Messages, IsAnswer
<1>5. QED
  BY <1>1, <1>3, <1>4

LEMMA AnyName == ASSUME NEW S, S # {} PROVE (CHOOSE d \in S : TRUE) \in S
OBVIOUS

LEMMA PulseTypesKept ==
  ASSUME PulseInv, Pulse!Next
  PROVE  PulseTypes'
<1> USE DEF PulseInv, PulseTypes, Pulse!TypeOK, References, InSession,
            Pulse!serverVars, Pulse!linkVars, Pulse!opVars, Pulse!dataVars, Pulse!Fault,
            Pulse!Return, Pulse!Enter, Pulse!Iterate
<1>1. CASE Pulse!DevicesChange
  BY <1>1 DEF Pulse!DevicesChange
<1>2. CASE Pulse!Accept
  <2>1. /\ Pulse!Message("connecting") \in Messages /\ Pulse!Message("ready") \in Messages
        /\ pInbox' = <<Pulse!Message("connecting"), Pulse!Message("ready")>>
    BY <1>2 DEF Pulse!Accept, Pulse!Message, Messages
  <2>2. pInbox' \in Seq(Messages)
    BY <2>1
  <2>3. QED
    BY <1>2, <2>2 DEF Pulse!Accept, Messages
<1>3. CASE Pulse!Answer
  <2>1. pInbox' \in Seq(Messages) /\ pTruth' \subseteq Source
    BY <1>3, ServerAnswers, Appended
  <2>2. QED
    BY <1>3, <2>1 DEF Pulse!Answer, Messages
<1>4. CASE Pulse!Break
  <2>1. Pulse!Message("lost") \in Messages
    BY DEF Pulse!Message, Messages
  <2>2. pInbox' \in Seq(Messages)
    BY <1>4, <2>1, Appended DEF Pulse!Break, Pulse!Send
  <2>3. QED
    BY <1>4, <2>2 DEF Pulse!Break, Messages
<1>5. CASE Pulse!Connect
  BY <1>5 DEF Pulse!Connect
<1>6. CASE Pulse!WaitForReady
  BY <1>6 DEF Pulse!WaitForReady
<1>7. CASE Pulse!Disconnected
  BY <1>7 DEF Pulse!Disconnected
<1>8. CASE Pulse!StartOperation
  BY <1>8 DEF Pulse!StartOperation, Pulse!Request
<1>9. CASE Pulse!NoOperation
  <2>1. /\ pRc' = FALSE /\ pPc = "loop" /\ pPc' = "end" /\ pFaults' \in {pFaults, pFaults + 1}
        /\ UNCHANGED <<pDevices, pDefault, pInbox, pOutbox, pAsked, pLink, pHeld, pNotifier,
                       pCall, pStage, pStep, pOp, pRefs, pName, pResult, pTruth>>
    BY <1>9 DEF Pulse!NoOperation
  <2>2. {pHeld', pRc'} \subseteq BOOLEAN
    BY <2>1
  <2>3. QED
    BY <2>1, <2>2
<1>10. CASE Pulse!StillRunning
  BY <1>10 DEF Pulse!StillRunning
<1>11. CASE Pulse!OperationDone
  BY <1>11 DEF Pulse!OperationDone
<1>12. CASE Pulse!Transmit
  BY <1>12 DEF Pulse!Transmit
<1>13. CASE Pulse!StateChanges
  <2>1. pInbox' \in Seq(Messages) /\ Head(pInbox).kind \in {"connecting", "ready", "lost"}
    BY <1>13, Dispatched DEF Pulse!StateChanges, Pulse!Iterating
  <2>2. QED
    BY <1>13, <2>1 DEF Pulse!StateChanges, Pulse!Iterating, Messages
<1>14. CASE Pulse!Reply
  <2>1. pInbox' \in Seq(Messages) /\ Head(pInbox).devices \subseteq Source
    BY <1>14, Dispatched DEF Pulse!Reply, Pulse!Iterating, Messages
  <2>2. pName' \in Source \cup {NoSource} /\ pResult' \subseteq Source
    BY <1>14, <2>1, AnyName DEF Pulse!Reply
  <2>3. QED
    BY <1>14, <2>1, <2>2 DEF Pulse!Reply, Pulse!Iterating, Messages
<1>15. CASE Pulse!ErrorReply
  BY <1>15 DEF Pulse!ErrorReply
<1>16. CASE Pulse!End
  <2>1. pInbox' \in Seq(Messages)
    BY <1>16, EmptySeq DEF Pulse!End
  <2>2. QED
    BY <1>16, <2>1 DEF Pulse!End, Messages
<1>17. CASE Pulse!ConnectFails
  BY <1>17 DEF Pulse!ConnectFails
<1>18. CASE Pulse!IterateFails
  <2>1. /\ pPc \in {"waiting", "iterating"} /\ pFaults' = pFaults + 1
        /\ \/ pRc' = FALSE /\ pPc' = "end"
           \/ pRc' = pRc /\ pPc' = "loop"
        /\ UNCHANGED <<pDevices, pDefault, pInbox, pOutbox, pAsked, pLink, pHeld, pNotifier,
                       pCall, pStage, pStep, pOp, pRefs, pName, pResult, pTruth>>
    BY <1>18 DEF Pulse!IterateFails
  <2>2. {pHeld', pRc'} \subseteq BOOLEAN
    BY <2>1
  <2>3. QED
    BY <2>1, <2>2
<1>19. ASSUME NEW c \in {"default", "fetch"}, Pulse!Begin(c) PROVE PulseTypes'
  <2>1. pHeld' = TRUE /\ pRc' = FALSE /\ pPc' = "connect" /\ pCall' = c
    BY <1>19 DEF Pulse!Begin
  <2>2. {pHeld', pRc'} \subseteq BOOLEAN /\ pHeld'
    BY <2>1
  <2>3. QED
    BY <1>19, <2>1, <2>2 DEF Pulse!Begin
<1>20. QED
  BY <1>1, <1>2, <1>3, <1>4, <1>5, <1>6, <1>7, <1>8, <1>9, <1>10,
     <1>11, <1>12, <1>13, <1>14, <1>15, <1>16, <1>17, <1>18, <1>19
     DEF Pulse!Next, Pulse!Server, Pulse!Session

LEMMA ConnectionKept ==
  ASSUME PulseInv, Pulse!Next
  PROVE  Connection'
<1> USE DEF PulseInv, PulseTypes, Pulse!TypeOK, Connection,
            Pulse!serverVars, Pulse!linkVars, Pulse!opVars, Pulse!dataVars, Pulse!Fault,
            Pulse!Return, Pulse!Enter, Pulse!Iterate
<1>1. CASE Pulse!DevicesChange
  BY <1>1 DEF Pulse!DevicesChange
<1>2. CASE Pulse!Accept
  <2>1. /\ pInbox' = <<Pulse!Message("connecting"), Pulse!Message("ready")>>
        /\ pLink = "closed" /\ pPc # "connect" /\ pHeld /\ UNCHANGED <<pPc, pNotifier>>
    BY <1>2 DEF Pulse!Accept
  <2>2. \A i \in 1..Len(pInbox') : pInbox'[i].kind # "lost"
    BY <2>1 DEF Pulse!Message
  <2>3. QED
    BY <2>1, <2>2
<1>3. CASE Pulse!Answer
  <2>1. PICK m \in Messages : pInbox' = Append(pInbox, m) /\ IsAnswer(m)
    BY <1>3, ServerAnswers
  <2>2. /\ pLink = "open" /\ pAsked # "none"
        /\ UNCHANGED <<pLink, pPc, pNotifier>>
    BY <1>3 DEF Pulse!Answer
  <2>3. \A i \in 1..Len(pInbox') : pInbox'[i].kind # "lost"
    BY <2>1, <2>2, Appended DEF IsAnswer
  <2>4. QED
    BY <2>2, <2>3
<1>4. CASE Pulse!Break
  <2> DEFINE m == Pulse!Message("lost")
  <2>1. /\ m \in Messages /\ pInbox' = Append(pInbox, m)
        /\ pLink # "broken" /\ pLink' = "broken" /\ pPc \notin {"idle", "connect"}
        /\ UNCHANGED <<pPc, pNotifier>>
    BY <1>4 DEF Pulse!Break, Pulse!Send, Pulse!Message, Messages
  <2>2. \A i \in 1..Len(pInbox') : pInbox'[i].kind = "lost" => i = Len(pInbox')
    BY <2>1, Appended
  <2>3. QED
    BY <2>1, <2>2
<1>5. CASE Pulse!Connect
  BY <1>5 DEF Pulse!Connect
<1>6. CASE Pulse!WaitForReady
  BY <1>6 DEF Pulse!WaitForReady
<1>7. CASE Pulse!Disconnected
  BY <1>7 DEF Pulse!Disconnected
<1>8. CASE Pulse!StartOperation
  BY <1>8 DEF Pulse!StartOperation
<1>9. CASE Pulse!NoOperation
  BY <1>9 DEF Pulse!NoOperation
<1>10. CASE Pulse!StillRunning
  BY <1>10 DEF Pulse!StillRunning
<1>11. CASE Pulse!OperationDone
  BY <1>11 DEF Pulse!OperationDone
<1>12. CASE Pulse!Transmit
  BY <1>12 DEF Pulse!Transmit
<1>13. CASE Pulse!StateChanges
  <2>1. /\ pInbox # <<>> /\ pInbox' = Tail(pInbox)
        /\ pPc \in {"waiting", "iterating"} /\ pPc' \in {"loop", "waiting", "iterating"}
        /\ Head(pInbox).kind \in {"connecting", "ready", "lost"}
        /\ pNotifier' = IF Head(pInbox).kind = "lost" THEN "failed" ELSE Head(pInbox).kind
        /\ UNCHANGED pLink
    BY <1>13 DEF Pulse!StateChanges, Pulse!Iterating
  <2>2. \A i \in 1..Len(pInbox') : pInbox'[i].kind = "lost" => pLink = "broken" /\ i = Len(pInbox')
    BY <2>1, Dispatched
  <2>3. pNotifier' = "failed" => pLink = "broken" /\ Len(pInbox') = 0
    <3>1. Head(pInbox) = pInbox[1] /\ Len(pInbox) \in Nat \ {0} /\ Len(pInbox') = Len(pInbox) - 1
      BY <2>1, Dispatched
    <3>2. pNotifier' = "failed" => pInbox[1].kind = "lost"
      BY <2>1, <3>1
    <3>3. QED
      BY <3>1, <3>2
  <2>4. pNotifier' = "failed" => pLink = "broken" /\ pInbox' = <<>>
    BY <2>1, <2>3, Dispatched, EmptySeq
  <2>5. QED
    BY <2>1, <2>2, <2>4
<1>14. CASE Pulse!Reply
  <2>1. /\ pInbox # <<>> /\ pInbox' = Tail(pInbox)
        /\ pPc \in {"waiting", "iterating"} /\ pPc' \in {"loop", "waiting", "iterating"}
        /\ UNCHANGED <<pLink, pNotifier>>
    BY <1>14 DEF Pulse!Reply, Pulse!Iterating
  <2>2. \A i \in 1..Len(pInbox') : pInbox'[i].kind = "lost" => pLink = "broken" /\ i = Len(pInbox')
    BY <2>1, Dispatched
  <2>3. QED
    BY <2>1, <2>2
<1>15. CASE Pulse!ErrorReply
  BY <1>15 DEF Pulse!ErrorReply
<1>16. CASE Pulse!End
  <2>1. Len(pInbox') = 0
    BY <1>16, EmptySeq DEF Pulse!End
  <2>2. QED
    BY <1>16, <2>1 DEF Pulse!End
<1>17. CASE Pulse!ConnectFails
  BY <1>17 DEF Pulse!ConnectFails
<1>18. CASE Pulse!IterateFails
  BY <1>18 DEF Pulse!IterateFails
<1>19. ASSUME NEW c \in {"default", "fetch"}, Pulse!Begin(c) PROVE Connection'
  BY <1>19 DEF Pulse!Begin
<1>20. QED
  BY <1>1, <1>2, <1>3, <1>4, <1>5, <1>6, <1>7, <1>8, <1>9, <1>10,
     <1>11, <1>12, <1>13, <1>14, <1>15, <1>16, <1>17, <1>18, <1>19
     DEF Pulse!Next, Pulse!Server, Pulse!Session

LEMMA ReferencesKept ==
  ASSUME PulseInv, Pulse!Next
  PROVE  References'
<1> USE DEF PulseInv, PulseTypes, Pulse!TypeOK, Connection, References, InSession,
            Pulse!serverVars, Pulse!linkVars, Pulse!opVars, Pulse!dataVars, Pulse!Fault,
            Pulse!Return, Pulse!Enter, Pulse!Iterate
<1>1. CASE Pulse!DevicesChange
  BY <1>1 DEF Pulse!DevicesChange
<1>2. CASE Pulse!Accept
  BY <1>2 DEF Pulse!Accept
<1>3. CASE Pulse!Answer
  BY <1>3 DEF Pulse!Answer
<1>4. CASE Pulse!Break
  BY <1>4 DEF Pulse!Break
<1>5. CASE Pulse!Connect
  BY <1>5 DEF Pulse!Connect
<1>6. CASE Pulse!WaitForReady
  BY <1>6 DEF Pulse!WaitForReady
<1>7. CASE Pulse!Disconnected
  BY <1>7 DEF Pulse!Disconnected
<1>8. CASE Pulse!StartOperation
  BY <1>8 DEF Pulse!StartOperation
<1>9. CASE Pulse!NoOperation
  BY <1>9 DEF Pulse!NoOperation
<1>10. CASE Pulse!StillRunning
  BY <1>10 DEF Pulse!StillRunning
<1>11. CASE Pulse!OperationDone
  BY <1>11 DEF Pulse!OperationDone
<1>12. CASE Pulse!Transmit
  BY <1>12 DEF Pulse!Transmit
<1>13. CASE Pulse!StateChanges
  <2>1. /\ pPc \in {"waiting", "iterating"} /\ pPc' \in {"loop", "waiting", "iterating"}
        /\ UNCHANGED <<pRefs, pFaults, pLink, pStep>>
        /\ pInbox # <<>>
    BY <1>13 DEF Pulse!StateChanges, Pulse!Iterating
  <2>2. pNotifier # "failed"
    BY <2>1
  <2>3. pNotifier' = "failed" => pLink = "broken"
    BY <2>1, <1>13, ConnectionKept DEF Pulse!Next, Pulse!Session
  <2>4. QED
    BY <2>1, <2>2, <2>3
<1>14. CASE Pulse!Reply
  <2>1. /\ pPc \in {"waiting", "iterating"} /\ pPc' \in {"loop", "waiting", "iterating"}
        /\ UNCHANGED <<pRefs, pFaults, pLink, pStep, pNotifier>>
    BY <1>14 DEF Pulse!Reply, Pulse!Iterating
  <2>2. QED
    BY <2>1
<1>15. CASE Pulse!ErrorReply
  BY <1>15 DEF Pulse!ErrorReply
<1>16. CASE Pulse!End
  BY <1>16 DEF Pulse!End
<1>17. CASE Pulse!ConnectFails
  BY <1>17 DEF Pulse!ConnectFails
<1>18. CASE Pulse!IterateFails
  <2>1. /\ pPc \in {"waiting", "iterating"} /\ pPc' \in {"end", "loop"}
        /\ pFaults' = pFaults + 1
        /\ UNCHANGED <<pRefs, pLink, pNotifier>> /\ UNCHANGED pStep
    BY <1>18 DEF Pulse!IterateFails
  <2>2. pRefs <= pFaults'
    BY <2>1
  <2>3. QED
    BY <2>1, <2>2
<1>19. ASSUME NEW c \in {"default", "fetch"}, Pulse!Begin(c) PROVE References'
  BY <1>19 DEF Pulse!Begin
<1>20. QED
  BY <1>1, <1>2, <1>3, <1>4, <1>5, <1>6, <1>7, <1>8, <1>9, <1>10,
     <1>11, <1>12, <1>13, <1>14, <1>15, <1>16, <1>17, <1>18, <1>19
     DEF Pulse!Next, Pulse!Server, Pulse!Session

LEMMA AnswersKept ==
  ASSUME PulseInv, Pulse!Next
  PROVE  Answers'
<1> USE DEF PulseInv, PulseTypes, Pulse!TypeOK, Connection, Answers, InSession,
            Pulse!Request,
            Pulse!serverVars, Pulse!linkVars, Pulse!opVars, Pulse!dataVars, Pulse!Fault,
            Pulse!Return, Pulse!Enter, Pulse!Iterate
<1>1. CASE Pulse!DevicesChange
  BY <1>1 DEF Pulse!DevicesChange
<1>2. CASE Pulse!Accept
  <2>1. /\ pInbox' = <<Pulse!Message("connecting"), Pulse!Message("ready")>>
        /\ pLink = "closed" /\ pPc # "connect"
        /\ UNCHANGED <<pPc, pNotifier, pOutbox, pAsked, pStep, pOp, pResult, pTruth, pRc, pCall,
                       pStage>>
    BY <1>2 DEF Pulse!Accept
  <2>2. \A i \in 1..Len(pInbox') : ~IsAnswer(pInbox'[i])
    BY <2>1 DEF Pulse!Message, IsAnswer
  <2>3. QED
    BY <2>1, <2>2
<1>3. CASE Pulse!Answer
  <2>1. PICK m \in Messages : /\ pInbox' = Append(pInbox, m)
                            /\ m.to = pAsked /\ m.devices = pTruth'
    BY <1>3, ServerAnswers
  <2>2. /\ pLink = "open" /\ pAsked # "none" /\ pAsked' = "none"
        /\ UNCHANGED <<pLink, pPc, pNotifier, pOutbox, pStep, pOp, pResult, pRc, pCall, pStage>>
    BY <1>3 DEF Pulse!Answer
  <2>3. pPc # "connect"
    BY <2>2
  <2>4. ASSUME InSession, pNotifier # "failed"
        PROVE  /\ \A i \in 1..Len(pInbox) : ~IsAnswer(pInbox[i])
               /\ pOp = "running" /\ pOutbox = "none" /\ pAsked = Pulse!Request
    BY <2>2, <2>4
  <2>5. ASSUME InSession, pNotifier # "failed", NEW i \in 1..Len(pInbox'), IsAnswer(pInbox'[i])
        PROVE  i = Len(pInbox) + 1 /\ pInbox'[i].to = Pulse!Request /\ pInbox'[i].devices = pTruth'
    BY <2>1, <2>4, <2>5, Appended
  <2>6. QED
    BY <2>2, <2>3, <2>4, <2>5
<1>4. CASE Pulse!Break
  <2> DEFINE m == Pulse!Message("lost")
  <2>1. /\ m \in Messages /\ ~IsAnswer(m) /\ pInbox' = Append(pInbox, m)
        /\ UNCHANGED <<pPc, pNotifier, pOutbox, pAsked, pStep, pOp, pResult, pTruth, pRc, pCall,
                       pStage>>
    BY <1>4 DEF Pulse!Break, Pulse!Send, Pulse!Message, Messages, IsAnswer
  <2>2. \A i \in 1..Len(pInbox') : IsAnswer(pInbox'[i]) =>
          i \in 1..Len(pInbox) /\ pInbox'[i] = pInbox[i]
    BY <2>1, Appended
  <2>3. QED
    BY <2>1, <2>2
<1>5. CASE Pulse!Connect
  BY <1>5 DEF Pulse!Connect
<1>6. CASE Pulse!WaitForReady
  BY <1>6 DEF Pulse!WaitForReady
<1>7. CASE Pulse!Disconnected
  BY <1>7 DEF Pulse!Disconnected
<1>8. CASE Pulse!StartOperation
  BY <1>8 DEF Pulse!StartOperation
<1>9. CASE Pulse!NoOperation
  BY <1>9 DEF Pulse!NoOperation
<1>10. CASE Pulse!StillRunning
  BY <1>10 DEF Pulse!StillRunning
<1>11. CASE Pulse!OperationDone
  BY <1>11 DEF Pulse!OperationDone
<1>12. CASE Pulse!Transmit
  BY <1>12 DEF Pulse!Transmit
<1>13. CASE Pulse!StateChanges
  <2>1. /\ pInbox # <<>> /\ pInbox' = Tail(pInbox)
        /\ pPc \in {"waiting", "iterating"} /\ pPc' \in {"loop", "waiting", "iterating"}
        /\ UNCHANGED <<pOutbox, pAsked, pStep, pOp, pResult, pTruth, pRc, pCall, pStage>>
    BY <1>13 DEF Pulse!StateChanges, Pulse!Iterating
  <2>2. pNotifier # "failed"
    BY <2>1
  <2>3. \A i \in 1..Len(pInbox') : i + 1 \in 1..Len(pInbox) /\ pInbox'[i] = pInbox[i + 1]
    BY <2>1, Dispatched
  <2>4. \A i, j \in 1..Len(pInbox') : i + 1 = j + 1 => i = j
    OBVIOUS
  <2>5. QED
    BY <2>1, <2>2, <2>3, <2>4
<1>14. CASE Pulse!Reply
  <2>1. /\ pInbox # <<>> /\ pInbox' = Tail(pInbox)
        /\ pPc \in {"waiting", "iterating"} /\ pPc' \in {"loop", "waiting", "iterating"}
        /\ Head(pInbox).kind = "reply" /\ pOp' = "done"
        /\ UNCHANGED <<pOutbox, pAsked, pStep, pTruth, pRc, pCall, pStage, pNotifier>>
    BY <1>14 DEF Pulse!Reply, Pulse!Iterating
  <2>2. pNotifier # "failed"
    BY <2>1
  <2>3. /\ Len(pInbox) \in Nat \ {0} /\ Head(pInbox) = pInbox[1]
        /\ \A i \in 1..Len(pInbox') : i + 1 \in 1..Len(pInbox) /\ pInbox'[i] = pInbox[i + 1]
    BY <2>1, Dispatched
  <2>4. 1 \in 1..Len(pInbox) /\ IsAnswer(pInbox[1])
    BY <2>1, <2>3 DEF IsAnswer
  <2>5. /\ pOp = "running" /\ pOutbox = "none" /\ pAsked = "none" /\ pStep # 0
        /\ pInbox[1].to = Pulse!Request /\ pInbox[1].devices = pTruth /\ pResult = {}
    BY <2>1, <2>2, <2>4
  <2>6. \A i \in 1..Len(pInbox') : ~IsAnswer(pInbox'[i])
    BY <2>1, <2>2, <2>3, <2>4
  <2>7. IF Pulse!Request = "server_info" THEN pResult' = {} ELSE pResult' = pTruth
    BY <1>14, <2>3, <2>5 DEF Pulse!Reply
  <2>8. QED
    BY <2>1, <2>5, <2>6, <2>7
<1>15. CASE Pulse!ErrorReply
  BY <1>15 DEF Pulse!ErrorReply
<1>16. CASE Pulse!End
  BY <1>16 DEF Pulse!End
<1>17. CASE Pulse!ConnectFails
  BY <1>17 DEF Pulse!ConnectFails
<1>18. CASE Pulse!IterateFails
  BY <1>18 DEF Pulse!IterateFails
<1>19. ASSUME NEW c \in {"default", "fetch"}, Pulse!Begin(c) PROVE Answers'
  BY <1>19 DEF Pulse!Begin
<1>20. QED
  BY <1>1, <1>2, <1>3, <1>4, <1>5, <1>6, <1>7, <1>8, <1>9, <1>10,
     <1>11, <1>12, <1>13, <1>14, <1>15, <1>16, <1>17, <1>18, <1>19
     DEF Pulse!Next, Pulse!Server, Pulse!Session

LEMMA PulseStep ==
  ASSUME PulseInv, Pulse!Next
  PROVE  PulseInv'
BY PulseTypesKept, ConnectionKept, ReferencesKept, AnswersKept DEF PulseInv

LEMMA PulseTrue ==
  PulseInv => /\ Pulse!TypeOK /\ Pulse!OperationsReleased
              /\ Pulse!TrueMeansAnswered /\ Pulse!ReplyFitsRequest
<1> SUFFICES ASSUME PulseInv
             PROVE  /\ Pulse!TypeOK /\ Pulse!OperationsReleased
                    /\ Pulse!TrueMeansAnswered /\ Pulse!ReplyFitsRequest
  OBVIOUS
<1>1. Pulse!TypeOK /\ Pulse!OperationsReleased
  BY DEF PulseInv, PulseTypes, References, Pulse!OperationsReleased
<1>2. Pulse!TrueMeansAnswered
  BY DEF PulseInv, Answers, Pulse!TrueMeansAnswered
<1>3. ASSUME InSession, NEW i \in 1..Len(pInbox), IsAnswer(pInbox[i])
      PROVE  pOp = "running" /\ pInbox[i].to = Pulse!Request
  <2>1. pNotifier # "failed"
    <3>1. pInbox # <<>>
      BY <1>3
    <3>2. QED
      BY <1>3, <3>1 DEF PulseInv, Connection, InSession
  <2>2. QED
    BY <1>3, <2>1 DEF PulseInv, Answers
<1>4. QED
  BY <1>1, <1>2, <1>3 DEF Pulse!ReplyFitsRequest, InSession, IsAnswer
-----------------------------------------------------------------------------
(* The program that has any one of them.                                   *)

DevicesInv ==
  /\ TypeOK /\ PulseInv /\ VideoInv /\ WithinTold /\ LifeInv
  /\ EveryCallback => NothingIsSkipped

LEMMA DevicesInit == MCInit => DevicesInv
BY UdevInit, PulseInit, VideoInit, WithinInit, LifeInit DEF MCInit, DevicesInv

LEMMA DevicesStep ==
  ASSUME MaxDescriptor \in Nat, DevicesInv, [MCNext]_<<subject, vars, pVars, vVars, iVars>>
  PROVE  DevicesInv'
<1>1. UNCHANGED vars => TypeOK' /\ (EveryCallback /\ NothingIsSkipped => NothingIsSkipped')
  BY UdevStep DEF DevicesInv
<1>2. UNCHANGED pVars => PulseInv'
  BY DEF DevicesInv, pVars, PulseInv, PulseTypes, Pulse!TypeOK, Connection, References, Answers,
         InSession, Pulse!Request
<1>3. UNCHANGED vVars => VideoInv' /\ WithinTold'
  BY VideoSame DEF DevicesInv, vVars, WithinTold
<1>4. UNCHANGED iVars => LifeInv'
  BY DEF DevicesInv, iVars, LifeInv, Life!TypeOK, Monitors, Own
<1>5. TypeOK' /\ (EveryCallback /\ NothingIsSkipped => NothingIsSkipped')
  BY <1>1, UdevStep DEF DevicesInv, MCNext, UdevMoves, PulseMoves, VideoMoves, LifeMoves
<1>6. PulseInv'
  BY <1>2, PulseStep DEF DevicesInv, MCNext, UdevMoves, PulseMoves, VideoMoves, LifeMoves
<1>7. VideoInv' /\ WithinTold'
  BY <1>3, VideoStep, WithinKept DEF DevicesInv, MCNext, UdevMoves, PulseMoves, VideoMoves, LifeMoves
<1>8. LifeInv'
  BY <1>4, LifeStep DEF DevicesInv, MCNext, UdevMoves, PulseMoves, VideoMoves, LifeMoves
<1>9. QED
  BY <1>5, <1>6, <1>7, <1>8 DEF DevicesInv, EveryCallback

LEMMA DevicesInvariant == ASSUME MaxDescriptor \in Nat PROVE MCSpec => []DevicesInv
BY DevicesInit, DevicesStep, PTL DEF MCSpec

\* Each part keeps the types of its variables, whatever fails.
THEOREM TypesCorrect == ASSUME MaxDescriptor \in Nat PROVE MCSpec => []TypesOK
<1>1. DevicesInv => TypesOK
  BY PulseTrue, LifeOwned, VideoListed DEF DevicesInv, TypesOK
<1>2. QED
  BY <1>1, DevicesInvariant, PTL

\* With all callbacks set, the observer on udev tells every change of a device,
\* once and in order, however poll() and the events interleave, as long as the
\* socket has had room for them.
THEOREM NothingSkipped ==
  ASSUME MaxDescriptor \in Nat, EveryCallback PROVE MCSpec => []NothingIsSkipped
<1>1. DevicesInv => NothingIsSkipped
  BY DEF DevicesInv
<1>2. QED
  BY <1>1, DevicesInvariant, PTL

\* A call of PulseAudio that has succeeded has what the server has answered to its
\* own request, and no answer finds an operation that has been given up, however
\* the messages, the losses of the connection and the calls interleave.
THEOREM AnswersTrue == ASSUME MaxDescriptor \in Nat PROVE MCSpec => []AnswersAreTrue
<1>1. DevicesInv => AnswersAreTrue
  BY PulseTrue DEF DevicesInv, AnswersAreTrue
<1>2. QED
  BY <1>1, DevicesInvariant, PTL

\* Operations of PulseAudio are released but for one for each fault, and a
\* monitor that is gone has closed its own descriptors and nobody else's, unless
\* inotify_init1() has failed.
THEOREM Released == ASSUME MaxDescriptor \in Nat PROVE MCSpec => []EverythingIsReleased
<1>1. DevicesInv => EverythingIsReleased
  BY PulseTrue, LifeOwned DEF DevicesInv, EverythingIsReleased
<1>2. QED
  BY <1>1, DevicesInvariant, PTL

\* When the list of Video4Linux2 is returned, every descriptor is closed, no device
\* is told twice, and one that has stayed and of which no system call has failed is
\* told with all its formats, sizes and rates in order, whatever drivers and links
\* there are, whichever devices are plugged in and out meanwhile and whichever
\* calls for others fail (capture_device_info_v4l2.cpp:45-207).
THEOREM ListTrue == ASSUME MaxDescriptor \in Nat PROVE MCSpec => []ListedAsFound
<1>1. DevicesInv => ListedAsFound
  BY VideoListed DEF DevicesInv, ListedAsFound
<1>2. QED
  BY <1>1, DevicesInvariant, PTL

\* The list does not ask for ever: every step goes on in the scan, or comes to a later
\* device, format, size or rate, never behind the last one the driver tells, also
\* when a device goes in the middle of its enumerations and comes back; only the
\* devices themselves may come and go without that.  It is what CallReturns
\* says of Video4Linux2, but for the fairness (capture_device_info_v4l2.cpp:45-207).
THEOREM ListLeadsOn ==
  ASSUME MaxDescriptor \in Nat PROVE MCSpec => [][ListGoesOn /\ WithinTold']_vVars
<1>1. ASSUME DevicesInv, [MCNext]_<<subject, vars, pVars, vVars, iVars>>
      PROVE  [ListGoesOn /\ WithinTold']_vVars
  <2>1. CASE UNCHANGED vVars
    BY <2>1
  <2>2. CASE Video!Next
    BY <1>1, <2>2, WithinKept, VideoGoesOn DEF DevicesInv
  <2>3. QED
    BY <1>1, <2>1, <2>2 DEF MCNext, UdevMoves, PulseMoves, VideoMoves, LifeMoves
<1>2. QED
  BY <1>1, DevicesInvariant, PTL DEF MCSpec
=============================================================================
