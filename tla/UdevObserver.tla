---------------------------- MODULE UdevObserver ----------------------------
(***************************************************************************)
(* ionik::device_observer on Linux: construction step by step, poll() on   *)
(* an edge-triggered epoll descriptor, the netlink socket of the udev      *)
(* monitor behind it, and the devices that come and go meanwhile.          *)
(***************************************************************************)
EXTENDS Integers, Sequences

CONSTANTS
  Device,
  Hooked,       \* the callbacks that are set (all of them by default)
  Burst,        \* how many events are unread at most when one more is sent
  MaxBacklog,   \* the receive buffer of the socket, in events
  MaxEvents     \* bound: events sent

ASSUME ObserverAssumption ==
  /\ Hooked \subseteq {"arrived", "removed", "bound", "unbound"}
  /\ {Burst, MaxBacklog, MaxEvents} \subseteq Nat \ {0}

VARIABLES
  life,         \* of the observer
  held,         \* what the representation holds
  status,       \* status[d]: the device as the kernel has it
  queue,        \* the uevents in the socket
  overrun,      \* the socket has ENOBUFS to report
  ready,        \* the epoll descriptor has an edge to report
  pc,           \* where poll() is
  view,         \* view[d]: the device as the callbacks have told
  dropped,      \* history: an event did not fit into the socket
  events

kernelVars == <<status, queue, overrun, dropped, events>>
vars == <<life, held, kernelVars, ready, pc, view>>

Status == {"absent", "present", "driven"}

Init ==
  /\ life = "new"
  /\ held = {}
  /\ status \in [Device -> Status]
  /\ queue = <<>>
  /\ overrun = FALSE
  /\ ready = FALSE
  /\ pc = "idle"
  /\ view = status
  /\ dropped = FALSE
  /\ events = 0
-----------------------------------------------------------------------------
(* Construction and destruction.                                           *)

\* What init() holds when the call number n is the one that fails: after new,
\* udev_new(), udev_monitor_new_from_netlink(), add_match .. fcntl,
\* epoll_create(), epoll_ctl().
Acquired == <<{"rep"}, {"rep", "u"}, {"rep", "u", "m"}, {"rep", "u", "m", "ed"}>>

\* init() succeeds.  The descriptor is writable, which is the first edge.
Construct ==
  /\ life = "new"
  /\ life' = "up"
  /\ held' = Acquired[4]
  /\ ready' = TRUE
  /\ view' = status
  /\ queue' = <<>>
  /\ UNCHANGED <<status, overrun, dropped, events, pc>>

\* init() fails in device_observer(error &, ...): the object lives.
ConstructFails ==
  /\ life = "new"
  /\ \E n \in 1..4 : held' = Acquired[n]
  /\ life' = "failed"
  /\ UNCHANGED <<kernelVars, ready, pc, view>>

\* init() fails in the constructor that throws: no destructor will run.
ConstructThrows ==
  /\ life = "new"
  /\ \E n \in 1..4 : held' = Acquired[n]
  /\ life' = "thrown"
  /\ UNCHANGED <<kernelVars, ready, pc, view>>

\* Mutant: the epoll descriptor is not closed.
DestroyKeepingEpoll ==
  /\ life \in {"up", "failed"} /\ pc = "idle"
  /\ \/ /\ {"u", "m"} \subseteq held
        /\ held' = held \cap {"ed"}
        /\ life' = "gone"
     \/ /\ ~({"u", "m"} \subseteq held)
        /\ life' = "aborted"
        /\ UNCHANGED held
  /\ ready' = FALSE
  /\ UNCHANGED <<kernelVars, pc, view>>

\* deinit() asserts that there are a udev context and a monitor.
Destroy ==
  /\ life \in {"up", "failed"} /\ pc = "idle"
  /\ \/ /\ {"u", "m"} \subseteq held
        /\ held' = {}
        /\ life' = "gone"
     \/ /\ ~({"u", "m"} \subseteq held)
        /\ life' = "aborted"
        /\ UNCHANGED held
  /\ ready' = FALSE
  /\ UNCHANGED <<kernelVars, pc, view>>
-----------------------------------------------------------------------------
(* The kernel and udevd.                                                   *)

\* The status an action of udevd leads to.
After(action) ==
  CASE action = "add" -> "present"
    [] action = "bind" -> "driven"
    [] action = "unbind" -> "present"
    [] action = "remove" -> "absent"

May(s) ==
  CASE s = "absent" -> {"add"}
    [] s = "present" -> {"bind", "remove", "change"}
    [] s = "driven" -> {"unbind", "change"}

\* A device changes and an event is sent, or dropped when the socket is full.
\* Either wakes epoll.
Uevent(d, action) ==
  /\ action \in May(status[d])
  /\ events < MaxEvents
  /\ Len(queue) < Burst
  /\ events' = events + 1
  /\ status' = IF action = "change" THEN status
               ELSE [status EXCEPT ![d] = After(action)]
  /\ IF life # "up"
     THEN /\ view' = status'
          /\ UNCHANGED <<queue, overrun, dropped, ready>>
     ELSE /\ ready' = TRUE
          /\ UNCHANGED view
          /\ IF Len(queue) < MaxBacklog
             THEN /\ queue' = Append(queue, [dev |-> d, action |-> action])
                  /\ UNCHANGED <<overrun, dropped>>
             ELSE /\ overrun' = TRUE
                  /\ dropped' = TRUE
                  /\ UNCHANGED queue
  /\ UNCHANGED <<life, held, pc>>
-----------------------------------------------------------------------------
(* poll()                                                                  *)

\* epoll_wait() returns 1 and forgets the edge.
EpollWait ==
  /\ life = "up" /\ pc = "idle"
  /\ ready
  /\ ready' = FALSE
  /\ pc' = "receiving"
  /\ UNCHANGED <<life, held, kernelVars, view>>

\* epoll_wait() returns 0, or -1: the loop has no round.
EpollNothing ==
  /\ life \in {"up", "failed"} /\ pc = "idle"
  /\ ~ready
  /\ UNCHANGED vars

\* The callback of each action; it tells the application of the change.
CallbackOf(action) ==
  CASE action = "add" -> "arrived"
    [] action = "remove" -> "removed"
    [] action = "bind" -> "bound"
    [] action = "unbind" -> "unbound"
    [] OTHER -> "none"

Apply(v, e) ==
  IF CallbackOf(e.action) \in Hooked
  THEN [v EXCEPT ![e.dev] = After(e.action)] ELSE v

\* Mutant: the newest event is taken first.
ReceiveLast ==
  /\ pc = "receiving"
  /\ pc' = "idle"
  /\ \/ /\ ~overrun /\ queue # <<>>
        /\ queue' = SubSeq(queue, 1, Len(queue) - 1)
        /\ view' = Apply(view, queue[Len(queue)])
        /\ UNCHANGED overrun
     \/ /\ overrun \/ queue = <<>>
        /\ overrun' = FALSE
        /\ UNCHANGED <<queue, view>>
  /\ UNCHANGED <<life, held, status, dropped, events, ready>>

\* The one round of the loop: udev_monitor_receive_device() returns the next
\* device or NULL, and the callback of its action is called if it is set.
Receive ==
  /\ pc = "receiving"
  /\ pc' = "idle"
  /\ \/ /\ ~overrun /\ queue # <<>>
        /\ queue' = Tail(queue)
        /\ view' = Apply(view, Head(queue))
        /\ UNCHANGED overrun
     \/ /\ overrun \/ queue = <<>>
        /\ overrun' = FALSE
        /\ UNCHANGED <<queue, view>>
  /\ UNCHANGED <<life, held, status, dropped, events, ready>>

Poll == EpollWait \/ Receive

Next ==
  \/ Construct \/ ConstructFails \/ ConstructThrows \/ Destroy
  \/ Poll \/ EpollNothing
  \/ \E d \in Device : \E a \in May(status[d]) : Uevent(d, a)

Spec == Init /\ [][Next]_vars

\* The application polls in an endless loop.
FairSpec == Spec /\ WF_vars(Poll)
-----------------------------------------------------------------------------
\* The values of the variables, and what a finished observer holds.
TypeOK ==
  /\ life \in {"new", "up", "failed", "thrown", "gone", "aborted"}
  /\ held \subseteq {"rep", "u", "m", "ed"}
  /\ status \in [Device -> Status] /\ view \in [Device -> Status]
  /\ queue \in Seq([dev : Device, action : {"add", "remove", "bind", "unbind", "change"}])
  /\ Len(queue) <= MaxBacklog
  /\ {overrun, ready, dropped} \subseteq BOOLEAN
  /\ pc \in {"idle", "receiving"}
  /\ events \in 0..MaxEvents
  /\ life = "gone" => held = {}

\* Event i in the socket is one that a callback will tell of device d.
Tells(i, d) == queue[i].dev = d /\ CallbackOf(queue[i].action) \in Hooked

\* What the callbacks have told, together with what is still in the socket, is
\* the state of the devices: of the last event that is there for a device, or of
\* the last callback when there is none.  No event is skipped, taken twice or out
\* of order, unless the socket was too small for one.
NothingIsSkipped ==
  life = "up" /\ ~dropped =>
    \A d \in Device :
      /\ \A i \in 1..Len(queue) :
           Tells(i, d) /\ (\A j \in 1..Len(queue) : Tells(j, d) => j <= i) =>
             status[d] = After(queue[i].action)
      /\ (\A i \in 1..Len(queue) : ~Tells(i, d)) => view[d] = status[d]

\* Each event is taken from the socket in the end, and its callback called: the
\* demo, which polls for ever, prints each device that arrived or was removed
\* (demo/usb_monitor/main.cpp:52-64).  It is with Burst = 1, when every event is
\* read before the next one is sent, but not when several can be sent between two
\* polls.
EventIsReported == queue # <<>> ~> (queue = <<>> \/ life # "up")
=============================================================================
