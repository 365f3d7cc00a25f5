--------------------------- MODULE Win32Observer ---------------------------
(***************************************************************************)
(* ionik::device_observer on Windows: a window that is made for the        *)
(* notifications of the system, poll(), which lets its window procedure    *)
(* handle them, and the timer that is to end the wait.                     *)
(***************************************************************************)
EXTENDS Integers, Sequences, FiniteSets, SequencesExt

CONSTANTS
  Device,
  SubsystemOf,   \* SubsystemOf[d]: the subsystem of a device
  Known,         \* the names of __subsystems
  Asked,         \* the arguments of the constructor, one after the other
  MaxChange      \* bound: devices plugged in and out, and broadcasts

VARIABLES
  present,       \* the devices of the machine
  state,         \* of the object: "window", "user_data", "notifications",
                 \* "idle", "polling", "thrown", "gone"
  window,        \* hwnd: "none", "message_only" or "top_level"
  userData,      \* GWLP_USERDATA is the observer
  asked,         \* subsystems still to be registered
  notifications, \* dev_notifs, each by its subsystem, or "null"
  sent,          \* messages the system has sent and nobody has received
  timer,         \* "none", "set" for the window, "thread"
  told,          \* history: the devices arrived and removed have told of
  fatal,         \* history: the window procedure has thrown, or read a null
                 \* pointer
  changes

object == <<state, window, userData, asked, notifications>>
vars == <<present, object, sent, timer, told, fatal, changes>>

Registered == Range(notifications) \ {"null"}
Of(subsystems) == {d \in Device : SubsystemOf[d] \in subsystems}

Init ==
  /\ present \in SUBSET Device
  /\ state = "window" /\ window = "none" /\ userData = FALSE
  /\ asked = Asked /\ notifications = <<>>
  /\ sent = <<>> /\ timer = "none" /\ told = {} /\ fatal = FALSE /\ changes = 0
-----------------------------------------------------------------------------
(* The machine.                                                            *)

\* A device arrives or is removed: the system sends WM_DEVICECHANGE once for
\* each registration for its class.
DeviceChanges ==
  /\ changes < MaxChange /\ changes' = changes + 1
  /\ \E d \in Device :
       LET what == IF d \in present THEN "removed" ELSE "arrived"
           times == Cardinality({i \in DOMAIN notifications : notifications[i] = SubsystemOf[d]})
       IN
       /\ present' = IF d \in present THEN present \ {d} ELSE present \cup {d}
       /\ sent' = sent \o [i \in 1..times |-> [what |-> what, device |-> d]]
  /\ UNCHANGED <<object, timer, told, fatal>>

\* DBT_DEVNODES_CHANGED is broadcast without a header, to windows that are not
\* message-only.
NodesChanged ==
  /\ changes < MaxChange /\ changes' = changes + 1
  /\ sent' = IF window = "top_level"
             THEN Append(sent, [what |-> "nodes_changed", device |-> "none"]) ELSE sent
  /\ UNCHANGED <<present, object, timer, told, fatal>>
-----------------------------------------------------------------------------
(* init().                                                                 *)

Rest == UNCHANGED <<present, sent, timer, told, fatal, changes>>

\* Mutant: the window is not made under HWND_MESSAGE.
CreateTopWindow ==
  /\ state = "window"
  /\ window' = "top_level" /\ state' = "user_data"
  /\ UNCHANGED <<userData, asked, notifications>>
  /\ Rest

\* If the class cannot be registered, there is no window and no error; if the
\* window cannot be created, one constructor throws and the other leaves an
\* observer of nothing.
CreateWindow ==
  /\ state = "window"
  /\ \/ window' = "message_only" /\ state' = "user_data"
     \/ window' = "none" /\ state' \in {"user_data", "thrown", "idle"}
  /\ UNCHANGED <<userData, asked, notifications>>
  /\ Rest

SetUserData ==
  /\ state = "user_data"
  /\ userData' = (window # "none")
  /\ state' = "notifications"
  /\ UNCHANGED <<window, asked, notifications>>
  /\ Rest

\* A name that is not known is skipped; a registration that fails is kept as a
\* null handle.  From here on the application is told of changes.
Register ==
  /\ state = "notifications" /\ asked # <<>>
  /\ asked' = Tail(asked)
  /\ LET s == Head(asked) IN
     \/ s \notin Known /\ UNCHANGED <<notifications, told>>
     \/ /\ s \in Known /\ window # "none"
        /\ notifications' = Append(notifications, s)
        /\ told' = told \cup (present \cap Of({s} \ Registered))
     \/ /\ s \in Known
        /\ notifications' = Append(notifications, "null")
        /\ UNCHANGED told
  /\ UNCHANGED <<present, state, window, userData, sent, timer, fatal, changes>>

Constructed ==
  /\ state = "notifications" /\ asked = <<>>
  /\ state' = "idle"
  /\ UNCHANGED <<window, userData, asked, notifications>>
  /\ Rest
-----------------------------------------------------------------------------
(* poll().                                                                 *)

\* SetTimer(), which may fail; a timer that is left of the last poll() stays.
PollBegins ==
  /\ state = "idle" /\ state' = "polling"
  /\ \/ timer' = IF window = "none" THEN "thread" ELSE "set"
     \/ UNCHANGED timer
  /\ UNCHANGED <<present, window, userData, asked, notifications, sent, told, fatal,
                 changes>>

\* GetMessage() hands each message that has been sent to notify_window_proc(),
\* in the order of sending, and returns for none of them.
Notify ==
  /\ state = "polling" /\ sent # <<>>
  /\ LET m == Head(sent) IN
     IF ~userData \/ m.what = "nodes_changed"
     THEN fatal' = TRUE /\ UNCHANGED told
     ELSE /\ told' = IF m.what = "arrived" THEN told \cup {m.device} ELSE told \ {m.device}
          /\ UNCHANGED fatal
  /\ sent' = Tail(sent)
  /\ UNCHANGED <<present, object, timer, changes>>

\* It returns for a posted message, which WM_TIMER is.  KillTimer() without the
\* window ends a timer of the thread only; the other one goes on, and its next
\* message is dispatched as any other.
PollReturns ==
  /\ state = "polling" /\ sent = <<>>
  /\ timer # "none"
  /\ timer' = IF timer = "thread" THEN "none" ELSE timer
  /\ state' = "idle"
  /\ UNCHANGED <<present, window, userData, asked, notifications, sent, told, fatal,
                 changes>>

\* deinit(); the window takes its timers and messages with it.
Destroy ==
  /\ state = "idle" /\ state' = "gone"
  /\ notifications' = <<>> /\ window' = "none" /\ userData' = FALSE
  /\ sent' = <<>> /\ timer' = "none"
  /\ UNCHANGED <<present, asked, told, fatal, changes>>

Next ==
  \/ DeviceChanges \/ NodesChanged
  \/ CreateWindow \/ SetUserData \/ Register \/ Constructed
  \/ PollBegins \/ Notify \/ PollReturns \/ Destroy

Spec == Init /\ [][Next]_vars
-----------------------------------------------------------------------------
\* The values of the variables; only a window is notified, through handles.
TypeOK ==
  /\ present \cup told \subseteq Device
  /\ Registered \subseteq Known /\ (Registered # {} => window # "none")
  /\ timer \in {"none", "set", "thread"}

\* What the callbacks have said and the messages under way say together is what
\* is plugged in, for every device of a subsystem that is registered: its last
\* message, or what has been told when there is none; and no message finds the
\* window without its observer, or comes without a header.
DevicesAreFollowed ==
  /\ ~fatal
  /\ \A d \in Of(Registered) :
       /\ (\A i \in 1..Len(sent) : sent[i].device # d) => (d \in told <=> d \in present)
       /\ \A i \in 1..Len(sent) :
            sent[i].device = d /\ (\A j \in (i + 1)..Len(sent) : sent[j].device # d) =>
              (sent[i].what = "arrived" <=> d \in present)
=============================================================================
