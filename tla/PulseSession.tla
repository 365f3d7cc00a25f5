---------------------------- MODULE PulseSession ----------------------------
(***************************************************************************)
(* ionik::audio on PulseAudio: default_input_device() (and, alike for      *)
(* sinks, default_output_device()) and fetch_devices(): a session with its *)
(* main loop, the state machine of process_operation() in it, and the      *)
(* server at the other end of the connection, whose messages libpulse      *)
(* dispatches in pa_mainloop_iterate().                                    *)
(***************************************************************************)
EXTENDS Integers, Sequences, FiniteSets

CONSTANTS
  Device,       \* names of the sources (or sinks)
  NoDevice,     \* no name: none of them
  MaxCalls,     \* bound: calls of the library
  MaxChange,    \* bound: changes of the devices
  MaxFault      \* bound: failing calls of libpulse, and broken connections

VARIABLES
  devices,      \* the devices the server has
  default,      \* the one it has for its default
  inbox,        \* messages on their way to the client
  outbox,       \* the request libpulse has not written to the connection yet
  asked,        \* the request the server has not answered yet
  link,         \* the connection: "closed", "open" or "broken"
  held,         \* the session has a main loop and a context
  notifier,     \* _context_notifier._state
  pc, call,
  stage,        \* which process_operation() of the call it is
  step,         \* step, in process_operation()
  op,           \* the state of the operation
  refs,         \* references to operations
  rc,           \* what process_operation() returned
  name,         \* srv_info.default_source_name()
  result,       \* what the call has for a result
  truth,        \* history: what the server put into its last answer
  calls, changes, faults

serverVars == <<devices, default, changes>>
linkVars == <<inbox, outbox, asked, link>>
opVars == <<stage, step, op, refs, rc>>
dataVars == <<name, result, truth>>
vars == <<serverVars, linkVars, held, notifier, pc, call, opVars, dataVars, calls, faults>>

Init ==
  /\ devices \in SUBSET Device
  /\ default \in devices \cup (IF devices = {} THEN {NoDevice} ELSE {})
  /\ inbox = <<>> /\ outbox = "none" /\ asked = "none" /\ link = "closed"
  /\ held = FALSE
  /\ notifier = "unconnected"
  /\ pc = "idle" /\ call = "none"
  /\ stage = 1 /\ step = 0 /\ op = "none" /\ refs = 0 /\ rc = FALSE
  /\ name = NoDevice /\ result = {} /\ truth = {}
  /\ calls = 0 /\ changes = 0 /\ faults = 0

Fault == faults < MaxFault /\ faults' = faults + 1
-----------------------------------------------------------------------------
(* The server, and the connection to it.                                   *)

\* Devices come and go, and the default is always one of them, if there is one.
DevicesChange ==
  /\ changes < MaxChange
  /\ changes' = changes + 1
  /\ devices' \in SUBSET Device
  /\ default' \in devices' \cup (IF devices' = {} THEN {NoDevice} ELSE {})
  /\ UNCHANGED <<linkVars, held, notifier, pc, call, opVars, dataVars, calls, faults>>

Send(m) == inbox' = Append(inbox, m)

Message(kind) == [kind |-> kind, to |-> "none", devices |-> {}]

\* The connection gets through its states, of which the client only waits for
\* the last one ...
Accept ==
  /\ held /\ pc # "connect" /\ link = "closed"
  /\ link' = "open"
  /\ inbox' = <<Message("connecting"), Message("ready")>>
  /\ UNCHANGED <<serverVars, outbox, asked, held, notifier, pc, call, opVars, dataVars, calls, faults>>

\* ... or it is refused, or breaks, behind what it has delivered.
Break ==
  /\ held /\ pc # "connect" /\ link # "broken"
  /\ Fault
  /\ link' = "broken"
  /\ Send(Message("lost"))
  /\ UNCHANGED <<serverVars, outbox, asked, held, notifier, pc, call, opVars, dataVars, calls>>

\* A request is answered by what the server has just then: its default, the
\* device of a name, which may be gone by now, or all devices.
Answer ==
  /\ asked # "none" /\ link = "open"
  /\ LET found == CASE asked = "server_info" -> {default} \ {NoDevice}
                    [] asked = "info_by_name" -> {name} \cap devices
                    [] asked = "info_list" -> devices
     IN  /\ Send([kind |-> IF asked = "info_by_name" /\ found = {} THEN "error" ELSE "reply",
                  to |-> asked, devices |-> found])
         /\ truth' = found
  /\ asked' = "none"
  /\ UNCHANGED <<serverVars, outbox, link, held, notifier, pc, call, opVars, name, result,
                 calls, faults>>
-----------------------------------------------------------------------------
(* The session.                                                            *)

\* default_input_device() or fetch_devices(): a main loop and a context.
Begin(c) ==
  /\ pc = "idle"
  /\ calls < MaxCalls
  /\ calls' = calls + 1
  /\ call' = c
  /\ held' = TRUE
  /\ notifier' = "unconnected"
  /\ stage' = 1 /\ rc' = FALSE
  /\ name' = NoDevice /\ result' = {} /\ truth' = {}
  /\ pc' = "connect"
  /\ UNCHANGED <<serverVars, linkVars, step, op, refs, faults>>

\* process_operation() starts.
Enter == pc' = "loop" /\ step' = 0 /\ op' = "none"

\* pa_context_connect() succeeds.
Connect ==
  /\ pc = "connect"
  /\ Enter
  /\ UNCHANGED <<serverVars, linkVars, held, notifier, call, stage, refs, rc, dataVars,
                 calls, faults>>

\* It fails: begin() returns false, and the destructor ends the session.
ConnectFails ==
  /\ pc = "connect"
  /\ Fault
  /\ pc' = "end"
  /\ UNCHANGED <<serverVars, linkVars, held, notifier, call, opVars, dataVars, calls>>

\* process_operation() returns v.  The default device takes two of them, the
\* first for its name; any other result ends the session.
Return(v) ==
  /\ rc' = v
  /\ IF v /\ call = "default" /\ stage = 1
     THEN stage' = 2 /\ Enter
     ELSE pc' = "end" /\ UNCHANGED <<stage, step, op>>

Iterate(l) ==
  /\ pc' = l
  /\ UNCHANGED <<stage, step, op, refs, rc>>

\* One round of the loop, up to pa_mainloop_iterate(): connecting ...
WaitForReady ==
  /\ pc = "loop" /\ notifier \in {"unconnected", "connecting"}
  /\ Iterate("waiting")
  /\ UNCHANGED <<serverVars, linkVars, held, notifier, call, dataVars, calls, faults>>

\* ... disconnected: done, and no error ...
Disconnected ==
  /\ pc = "loop" /\ notifier = "failed"
  /\ Return(TRUE)
  /\ UNCHANGED <<serverVars, linkVars, held, notifier, call, refs, dataVars, calls, faults>>

Request ==
  IF call = "fetch" THEN "info_list" ELSE IF stage = 1 THEN "server_info" ELSE "info_by_name"

\* ... ready: the operation is started ...
StartOperation ==
  /\ pc = "loop" /\ notifier = "ready" /\ step = 0
  /\ stage = 2 => name # NoDevice
  /\ outbox' = Request
  /\ op' = "running" /\ refs' = refs + 1
  /\ step' = 1
  /\ pc' = "iterating"
  /\ UNCHANGED <<serverVars, inbox, asked, link, held, notifier, call, stage, rc, dataVars,
                 calls, faults>>

\* ... or there is none: an empty name, or libpulse refuses.
NoOperation ==
  /\ pc = "loop" /\ notifier = "ready" /\ step = 0
  /\ IF stage = 2 /\ name = NoDevice THEN UNCHANGED faults ELSE Fault
  /\ Return(FALSE)
  /\ UNCHANGED <<serverVars, linkVars, held, notifier, call, refs, dataVars, calls>>

\* Mutant: PA_OPERATION_RUNNING falls through to PA_OPERATION_DONE.
RunningIsDone ==
  /\ pc = "loop" /\ notifier = "ready" /\ step = 1 /\ op = "running"
  /\ refs' = refs - 1
  /\ Return(TRUE)
  /\ UNCHANGED <<serverVars, linkVars, held, notifier, call, dataVars, calls, faults>>

\* ... or it is still running ...
StillRunning ==
  /\ pc = "loop" /\ notifier = "ready" /\ step = 1 /\ op = "running"
  /\ Iterate("iterating")
  /\ UNCHANGED <<serverVars, linkVars, held, notifier, call, dataVars, calls, faults>>

\* Mutant: the operation is not released.
OperationKept ==
  /\ pc = "loop" /\ notifier = "ready" /\ step = 1 /\ op = "done"
  /\ Return(TRUE)
  /\ UNCHANGED <<serverVars, linkVars, held, notifier, call, refs, dataVars, calls, faults>>

\* ... or done.  (PA_OPERATION_CANCELLED is never seen here: what cancels an
\* operation is a lost connection, which the loop has noticed before.)
OperationDone ==
  /\ pc = "loop" /\ notifier = "ready" /\ step = 1 /\ op = "done"
  /\ refs' = refs - 1
  /\ Return(TRUE)
  /\ UNCHANGED <<serverVars, linkVars, held, notifier, call, dataVars, calls, faults>>
-----------------------------------------------------------------------------
(* pa_mainloop_iterate(), which blocks until there is something to do.     *)

\* Whatever has arrived is dispatched, one message or several in an iteration.
Iterating ==
  /\ pc \in {"waiting", "iterating"}
  /\ inbox # <<>> /\ inbox' = Tail(inbox)
  /\ pc' \in {"loop"} \cup (IF inbox' = <<>> THEN {} ELSE {pc})

\* An iteration may write the request to the connection, and nothing else.
Transmit ==
  /\ pc = "iterating" /\ link = "open"
  /\ outbox # "none"
  /\ asked' = outbox /\ outbox' = "none"
  /\ pc' = "loop"
  /\ UNCHANGED <<serverVars, inbox, link, held, notifier, call, opVars, dataVars, calls, faults>>

\* Mutant: the state callback was not set.
StateIgnored ==
  /\ Iterating
  /\ Head(inbox).kind \in {"connecting", "ready", "lost"}
  /\ UNCHANGED <<serverVars, outbox, asked, link, held, notifier, call, opVars, dataVars,
                 calls, faults>>

\* The state of the context changes, and the callback tells the notifier.
StateChanges ==
  /\ Iterating
  /\ Head(inbox).kind \in {"connecting", "ready", "lost"}
  /\ notifier' = IF Head(inbox).kind = "lost" THEN "failed" ELSE Head(inbox).kind
  /\ UNCHANGED <<serverVars, outbox, asked, link, held, call, opVars, dataVars, calls, faults>>

\* The reply is given to the callback, entry after entry, and the operation is
\* done with the end of the list.
Reply ==
  /\ Iterating
  /\ Head(inbox).kind = "reply"
  /\ LET r == Head(inbox)
     IN  IF r.to = "server_info"
         THEN /\ name' = IF r.devices = {} THEN NoDevice ELSE CHOOSE d \in r.devices : TRUE
              /\ UNCHANGED result
         ELSE /\ result' = result \cup r.devices
              /\ UNCHANGED name
  /\ op' = "done"
  /\ UNCHANGED <<serverVars, outbox, asked, link, held, notifier, call, stage, step, refs, rc,
                 truth, calls, faults>>

\* An error is given to the callback as eol < 0 without an info, which it reads.
ErrorReply ==
  /\ pc \in {"waiting", "iterating"} /\ inbox # <<>>
  /\ Head(inbox).kind = "error"
  /\ pc' = "crashed"
  /\ UNCHANGED <<serverVars, linkVars, held, notifier, call, opVars, dataVars, calls, faults>>

\* The iteration fails, which only matters once the connection is ready.
IterateFails ==
  /\ pc \in {"waiting", "iterating"}
  /\ Fault
  /\ IF pc = "iterating" THEN Return(FALSE) ELSE Iterate("loop")
  /\ UNCHANGED <<serverVars, linkVars, held, notifier, call, refs, dataVars, calls>>

\* end(): disconnect, and free the context and the main loop.
End ==
  /\ pc = "end"
  /\ held' = FALSE
  /\ inbox' = <<>> /\ outbox' = "none" /\ asked' = "none" /\ link' = "closed"
  /\ pc' = "idle"
  /\ UNCHANGED <<serverVars, notifier, call, opVars, dataVars, calls, faults>>

Server == Accept \/ Answer

Session ==
  \/ Connect \/ WaitForReady \/ Disconnected \/ StartOperation \/ NoOperation
  \/ StillRunning \/ OperationDone \/ Transmit \/ StateChanges \/ Reply \/ ErrorReply \/ End

Next ==
  \/ DevicesChange \/ Server \/ Break
  \/ \E c \in {"default", "fetch"} : Begin(c)
  \/ Session \/ ConnectFails \/ IterateFails

Spec == Init /\ [][Next]_vars

\* A call that has begun goes on, and a server accepts connections and answers
\* requests as long as the connection does not break.
FairSpec == Spec /\ WF_vars(Session) /\ WF_vars(Server)
-----------------------------------------------------------------------------
\* The values of the variables; between two calls nothing of libpulse is held.
TypeOK ==
  /\ devices \subseteq Device /\ default \in Device \cup {NoDevice}
  /\ inbox \in Seq([kind : {"connecting", "ready", "lost", "reply", "error"},
                    to : {"none", "server_info", "info_by_name", "info_list"},
                    devices : SUBSET Device])
  /\ {outbox, asked} \subseteq {"none", "server_info", "info_by_name", "info_list"}
  /\ link \in {"closed", "open", "broken"}
  /\ {held, rc} \subseteq BOOLEAN
  /\ pc = "idle" <=> ~held
  /\ notifier \in {"unconnected", "connecting", "ready", "failed"}
  /\ pc \in {"idle", "connect", "loop", "waiting", "iterating", "end", "crashed"}
  /\ call \in {"none", "default", "fetch"}
  /\ stage \in 1..2 /\ step \in 0..1
  /\ op \in {"none", "running", "done"}
  /\ refs \in Nat
  /\ name \in Device \cup {NoDevice}
  /\ result \subseteq Device /\ truth \subseteq Device

\* When the last process_operation() of a call returns true, the connection was
\* lost, or the result is what the server answered: all the devices, or the one
\* that was the default when it was asked for and was still there.
TrueMeansAnswered ==
  pc = "end" /\ rc /\ notifier # "failed" => op = "done" /\ result = truth

\* A reply that libpulse may still dispatch is one to the operation that is
\* waited for, whose userdata is alive: never to one given up before.
ReplyFitsRequest ==
  pc \in {"loop", "waiting", "iterating"} =>
    \A i \in 1..Len(inbox) : inbox[i].kind \in {"reply", "error"} =>
      op = "running" /\ inbox[i].to = Request

\* Operations are released: over all calls, what is kept is at most one for each
\* time that the connection or the main loop failed.
OperationsReleased == pc \in {"end", "idle"} => refs <= faults

\* Every call returns (or dies of an error reply), if the server answers or the
\* connection breaks.
CallReturns == pc = "connect" ~> pc \in {"idle", "crashed"}
=============================================================================
