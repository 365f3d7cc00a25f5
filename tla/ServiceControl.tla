--------------------------- MODULE ServiceControl ---------------------------
(***************************************************************************)
(* The demo program that controls a Windows service: svccontrol start,     *)
(* stop and dacl, each one run of the program, while the service and its   *)
(* dependents move on their own and the tick counter may wrap around.      *)
(***************************************************************************)
EXTENDS Integers, Sequences, FiniteSets, SequencesExt

CONSTANTS
  Main,           \* the service named on the command line
  Dependent,      \* the services that depend on it
  WaitHint,       \* the wait hints services give, in ticks
  HintPart,       \* dwWaitHint / 10
  MinWait, MaxWait,  \* 1000 and 10000
  Timeout,        \* dwTimeout
  Wrap,           \* GetTickCount() counts modulo 2^32
  Boot,           \* bound: what it may be when the program starts
  MaxMoves        \* bound: what services do without being told

VARIABLES
  services,       \* what a query of each service would tell
  tickCount,      \* GetTickCount()
  elapsed,        \* history: the time since the start, up to Wrap
  command, phase,
  asleep,         \* Sleep() of a loop of the phase, and the query behind it
  seen,           \* ssStatus or ssp
  start,          \* dwStartTickCount or dwStartTime
  depStart,       \* dwStartTime of StopDependentServices()
  oldCheckPoint, todo,
  held,           \* the handles and memory that are open
  said,           \* what the program has printed last
  moves

tool == <<command, phase, asleep, seen, start, depStart, oldCheckPoint, todo, held, said>>
vars == <<services, tickCount, elapsed, tool, moves>>

Service == {Main} \cup Dependent
Pending == {"start_pending", "stop_pending"}
Statuses(state) == [state : {state}, checkPoint : IF state \in Pending THEN {1} ELSE {0},
                    hint : IF state \in Pending THEN WaitHint ELSE {0}]
Active == {s \in Dependent : services[s].state # "stopped"}

Init ==
  /\ services \in [Service -> UNION {Statuses(x) : x \in Pending \cup {"stopped", "running"}}]
  /\ tickCount \in Boot /\ elapsed = 0
  /\ command \in {"start", "stop", "dacl"} /\ phase = "open" /\ asleep = FALSE
  /\ seen = services[Main] /\ start = tickCount /\ depStart = 0 /\ oldCheckPoint = 0
  /\ todo = <<>> /\ held = {} /\ said = "nothing" /\ moves = 0
-----------------------------------------------------------------------------
(* The services.                                                           *)

After(state) ==
  CASE state = "stopped"       -> {"start_pending"}
    [] state = "start_pending" -> {"running", "stopped"}
    [] state = "running"       -> {"stop_pending", "stopped"}
    [] state = "stop_pending"  -> {"stopped", "running"}

\* A service reports progress, or another state.
Reports(st) ==
  {[state |-> st.state, checkPoint |-> st.checkPoint + 1, hint |-> h] :
     h \in IF st.state \in Pending THEN WaitHint ELSE {}}
  \cup UNION {Statuses(x) : x \in After(st.state)}

\* The system starts a dependent only when the service it depends on runs.
ServiceMoves ==
  /\ moves < MaxMoves /\ moves' = moves + 1
  /\ \E s \in Service :
       /\ \E st \in Reports(services[s]) : services' = [services EXCEPT ![s] = st]
       /\ s = Main \/ s \in Active \/ services[Main].state = "running"
  /\ UNCHANGED <<tickCount, elapsed, tool>>

\* ControlService(SERVICE_CONTROL_STOP) of a service that is running and has no
\* running dependents; the status it fills in is the service's new one.
Control(s) ==
  /\ services[s].state = "running"
  /\ s = Main => Active = {}
  /\ \E st \in UNION {Statuses(x) : x \in {"stop_pending", "stopped", "running"}} :
       /\ services' = [services EXCEPT ![s] = st]
       /\ seen' = st
-----------------------------------------------------------------------------
Goto(p) == phase' = p /\ asleep' = FALSE

\* Every way out of a command closes what it has opened.
Return(text, closed) ==
  /\ said' = text /\ held' = held \ closed
  /\ Goto("end")
  /\ UNCHANGED <<services, command, seen, start, depStart, oldCheckPoint, todo>>

Stay == UNCHANGED <<tickCount, elapsed, moves>>
Handles == {"manager", "service"}

OpenManager ==
  /\ phase = "open" /\ Stay
  /\ \/ Return("failed", {})
     \/ /\ Goto("manager") /\ held' = {"manager"}
        /\ UNCHANGED <<services, command, seen, start, depStart, oldCheckPoint, todo, said>>

\* Mutant: the manager stays open when the service cannot be opened.
OpenServiceForgets ==
  /\ phase = "manager" /\ Stay
  /\ \/ Return("failed", {})
     \/ /\ Goto(IF command = "dacl" THEN "descriptor" ELSE "query")
        /\ held' = held \cup {"service"}
        /\ UNCHANGED <<services, command, seen, start, depStart, oldCheckPoint, todo, said>>

OpenService ==
  /\ phase = "manager" /\ Stay
  /\ \/ Return("failed", {"manager"})
     \/ /\ Goto(IF command = "dacl" THEN "descriptor" ELSE "query")
        /\ held' = held \cup {"service"}
        /\ UNCHANGED <<services, command, seen, start, depStart, oldCheckPoint, todo, said>>
-----------------------------------------------------------------------------
(* svccontrol dacl: each step may fail, which ends in dacl_cleanup.         *)

DaclStep(from, to, got) ==
  /\ phase = from /\ Stay
  /\ \/ Return("failed", Handles \cup {"descriptor", "acl"})
     \/ /\ Goto(to) /\ held' = held \cup got
        /\ UNCHANGED <<services, command, seen, start, depStart, oldCheckPoint, todo, said>>

DoUpdateSvcDacl ==
  \/ DaclStep("descriptor", "read_descriptor", {"descriptor"})
  \/ DaclStep("read_descriptor", "entries", {})
  \/ DaclStep("entries", "set_dacl", {"acl"})
  \/ /\ phase = "set_dacl" /\ Stay
     /\ \E text \in {"failed", "updated"} : Return(text, Handles \cup {"descriptor", "acl"})
-----------------------------------------------------------------------------
(* Waiting.  Between Sleep() and the query behind it the services may move.*)

\* One tenth of the wait hint within the two limits.
Interval(hint) ==
  LET part == hint \div HintPart
  IN  IF part < MinWait THEN MinWait ELSE IF part > MaxWait THEN MaxWait ELSE part

\* Less than a tick counts as one.
Sleep(time) ==
  /\ asleep' = TRUE
  /\ tickCount' = (tickCount + Max({time, 1})) % Wrap
  /\ elapsed' = Min({elapsed + Max({time, 1}), Wrap})
  /\ UNCHANGED <<services, moves, command, phase, seen, start, depStart, oldCheckPoint,
                 todo, held, said>>

Since(tick) == (tickCount - tick) % Wrap

\* Mutant: the end of the wait is computed ahead, where it may never be reached.
NoProgressUntil(hint) == tickCount > (start + hint) % Wrap

\* No progress within the wait hint.
NoProgress(hint) == Since(start) > hint

Look == seen' = services[Main] /\ UNCHANGED services
-----------------------------------------------------------------------------
(* svccontrol start.                                                       *)

\* The first look at the service, and the one behind StartService().
Remember(p) ==
  /\ start' = tickCount /\ oldCheckPoint' = seen'.checkPoint
  /\ Goto(p)
  /\ UNCHANGED <<command, depStart, todo, held>>

StartQuery ==
  /\ command = "start" /\ phase = "query" /\ Stay
  /\ \/ Return("failed", Handles)
     \/ services[Main].state \notin {"stopped", "stop_pending"} /\ Return("is_running", Handles)
     \/ /\ services[Main].state \in {"stopped", "stop_pending"}
        /\ Look /\ Remember("wait_for_stop") /\ UNCHANGED said

\* The loops that wait for the pending state to end: sleep, look, and go on
\* waiting only when there is progress or time left.
WaitPending(p, state, next) ==
  /\ phase = p /\ ~asleep
  /\ \/ seen.state = state /\ Sleep(Interval(seen.hint))
     \/ /\ seen.state # state /\ Goto(next) /\ Stay
        /\ UNCHANGED <<services, command, seen, start, depStart, oldCheckPoint, todo, held, said>>

Progress == services[Main].checkPoint > oldCheckPoint

\* Where a wait ends without progress: the first loop gives the command up, the
\* second one leaves it to the verdict.
LookPending(p, gone) ==
  /\ phase = p /\ asleep /\ Stay
  /\ Look
  /\ \/ /\ Progress
        /\ start' = tickCount /\ oldCheckPoint' = seen'.checkPoint
        /\ Goto(p) /\ UNCHANGED <<held, said>>
     \/ /\ ~Progress /\ NoProgress(seen'.hint)
        /\ gone
        /\ UNCHANGED <<start, oldCheckPoint>>
     \/ /\ ~Progress /\ ~NoProgress(seen'.hint)
        /\ Goto(p) /\ UNCHANGED <<start, oldCheckPoint, held, said>>
  /\ UNCHANGED <<command, depStart, todo>>

WaitForStop ==
  \/ WaitPending("wait_for_stop", "stop_pending", "start_service")
  \/ phase = "wait_for_stop" /\ asleep /\ Stay /\ Return("failed", Handles)
  \/ LookPending("wait_for_stop",
                 Goto("end") /\ said' = "stop_timeout" /\ held' = held \ Handles)

\* StartService() and the look behind it, each of which may fail.
StartService ==
  /\ phase = "start_service" /\ Stay
  /\ \/ Return("failed", Handles)
     \/ /\ services[Main].state = "stopped"
        /\ said' = "start_pending"
        /\ \E st \in UNION {Statuses(x) : x \in {"start_pending", "running", "stopped"}} :
             services' = [services EXCEPT ![Main] = st] /\ seen' = st
        /\ Remember("wait_for_start")

\* A query that fails leaves the loop with the status seen before.
WaitForStart ==
  \/ WaitPending("wait_for_start", "start_pending", "verdict")
  \/ /\ phase = "wait_for_start" /\ asleep /\ Stay /\ Goto("verdict")
     /\ UNCHANGED <<services, command, seen, start, depStart, oldCheckPoint, todo, held, said>>
  \/ LookPending("wait_for_start", Goto("verdict") /\ UNCHANGED <<held, said>>)

Verdict ==
  /\ phase = "verdict" /\ Stay
  /\ Return(IF seen.state = "running" THEN "started" ELSE "not_started", Handles)

DoStartSvc == StartQuery \/ WaitForStop \/ StartService \/ WaitForStart \/ Verdict
-----------------------------------------------------------------------------
(* svccontrol stop.                                                        *)

StopQuery ==
  /\ command = "stop" /\ phase = "query" /\ Stay
  /\ \/ Return("failed", Handles)
     \/ services[Main].state = "stopped" /\ Return("is_stopped", Handles)
     \/ /\ services[Main].state # "stopped"
        /\ Look /\ Goto("stop_pending")
        /\ UNCHANGED <<command, start, depStart, oldCheckPoint, todo, held, said>>

\* The look behind Sleep(): the service has stopped, the time is over, or the
\* loop goes on.
LookStopping(p) ==
  /\ phase = p /\ asleep /\ Stay
  /\ \/ Return("failed", Handles)
     \/ services[Main].state = "stopped" /\ Return("stopped", Handles)
     \/ /\ services[Main].state # "stopped"
        /\ IF Since(start) > Timeout THEN Return("timed_out", Handles)
           ELSE /\ Look /\ Goto(p)
                /\ UNCHANGED <<command, start, depStart, oldCheckPoint, todo, held, said>>

WaitPendingStop ==
  \/ WaitPending("stop_pending", "stop_pending", "dependents")
  \/ LookStopping("stop_pending")

\* StopDependentServices() returns; whether it has failed is not asked.
GiveUp ==
  /\ held' = held \ {"dependent", "list"} /\ todo' = <<>>
  /\ Goto("control")
  /\ UNCHANGED <<services, command, seen, start, depStart, oldCheckPoint, said>>

\* There are no dependents that are active, or they cannot be listed, or the list
\* is there.
ListDependents ==
  /\ phase = "dependents" /\ Stay
  /\ \/ GiveUp
     \/ /\ Active # {}
        /\ todo' \in SetToSeqs(Active)
        /\ held' = held \cup {"list"} /\ depStart' = tickCount
        /\ Goto("next_dependent")
        /\ UNCHANGED <<services, command, seen, start, oldCheckPoint, said>>

\* The next dependent is opened and told to stop, or one of the two fails, or
\* there is none.
StopNext ==
  /\ phase = "next_dependent" /\ Stay
  /\ \/ GiveUp
     \/ /\ todo # <<>> /\ Control(Head(todo))
        /\ held' = held \cup {"dependent"}
        /\ Goto("stopping_dependent")
        /\ UNCHANGED <<command, start, depStart, oldCheckPoint, todo, said>>

DependentStopped ==
  /\ held' = held \ {"dependent"} /\ todo' = Tail(todo)
  /\ Goto("next_dependent")
  /\ UNCHANGED <<services, command, seen, start, depStart, oldCheckPoint, said>>

\* All dependents share one time limit, which is not asked when one has stopped.
WaitForDependent ==
  /\ phase = "stopping_dependent"
  /\ \/ ~asleep /\ seen.state # "stopped" /\ Sleep(seen.hint)
     \/ ~asleep /\ seen.state = "stopped" /\ Stay /\ DependentStopped
     \/ asleep /\ Stay /\ GiveUp
     \/ /\ asleep /\ Stay /\ services[Head(todo)].state = "stopped"
        /\ DependentStopped
     \/ /\ asleep /\ Stay /\ services[Head(todo)].state # "stopped"
        /\ Since(depStart) <= Timeout
        /\ Goto(phase) /\ seen' = services[Head(todo)]
        /\ UNCHANGED <<services, command, start, depStart, oldCheckPoint, todo, held, said>>

\* Mutant: the time is taken anew when the service itself is told to stop.
ControlMainAnew ==
  /\ phase = "control" /\ Stay
  /\ \/ Return("failed", Handles)
     \/ /\ Control(Main) /\ Goto("stopping") /\ start' = tickCount
        /\ UNCHANGED <<command, depStart, oldCheckPoint, todo, held, said>>

ControlMain ==
  /\ phase = "control" /\ Stay
  /\ \/ Return("failed", Handles)
     \/ /\ Control(Main) /\ Goto("stopping")
        /\ UNCHANGED <<command, start, depStart, oldCheckPoint, todo, held, said>>

WaitForMain ==
  \/ phase = "stopping" /\ ~asleep /\ seen.state # "stopped" /\ Sleep(seen.hint)
  \/ phase = "stopping" /\ ~asleep /\ seen.state = "stopped" /\ Stay /\ Return("stopped", Handles)
  \/ LookStopping("stopping")

DoStopSvc == StopQuery \/ WaitPendingStop \/ ListDependents \/ StopNext \/ WaitForDependent
             \/ ControlMain \/ WaitForMain

Step == OpenManager \/ OpenService \/ DoUpdateSvcDacl \/ DoStartSvc \/ DoStopSvc

Next == ServiceMoves \/ Step

Spec == Init /\ [][Next]_vars

\* The program runs; nothing is assumed of the services.
FairSpec == Spec /\ WF_vars(Step)
-----------------------------------------------------------------------------
\* The values of the variables.
TypeOK ==
  /\ \A s \in Service : services[s] \in [state : Pending \cup {"stopped", "running"},
                                         checkPoint : 0..(MaxMoves + 1), hint : WaitHint \cup {0}]
  /\ {tickCount, start, depStart} \subseteq 0..(Wrap - 1) /\ elapsed \in 0..Wrap
  /\ todo \in Seq(Dependent) /\ asleep \in BOOLEAN
  /\ held \subseteq Handles \cup {"dependent", "list", "descriptor", "acl"}

\* Whatever fails, the program has closed every handle and freed all memory
\* when it ends.
EverythingIsGivenBack == phase = "end" => held = {}

\* The time-out of thirty seconds is asked by two functions, after a sleep as
\* long as the service likes: a stop takes no longer than two time-outs and one
\* wait hint for the service and for each of its dependents.
StopIsBounded ==
  command = "stop" => elapsed <= 2 * Timeout + (Cardinality(Dependent) + 1) * Max(WaitHint)

\* A command ends, even if the tick counter wraps around while it waits, when the
\* service stops making progress.
CommandReturns == <>(phase = "end")

\* "Timeout waiting for service to stop" is said of a service that has not
\* stopped.
TimeoutMeansPending == said = "stop_timeout" => seen.state = "stop_pending"
=============================================================================
