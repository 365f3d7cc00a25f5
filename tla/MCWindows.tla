----------------------------- MODULE MCWindows -----------------------------
(***************************************************************************)
(* A program on Windows with one of the parts of the library there: the    *)
(* named mutex, the monitor of the file system, the observer of devices,   *)
(* the lists of audio endpoints and of capture devices; or the demo that   *)
(* controls a service.  They share nothing, so that what holds of each     *)
(* alone holds of a program that has several.                              *)
(***************************************************************************)
EXTENDS AlreadyRunningWin, Sequences

CONSTANTS
  MaxWait, MaxRecords, MaxAdd, MaxFault,  \* the monitor
  WaitHint, Timeout, Wrap, Boot, MaxMoves               \* the service

VARIABLES
  subject,
  mExists, mHandles, mFilter, mReading, mSignalled, mKernel, mLost, mBuffer, mPc, mCurrent,
  mAt, mDeaf, mExcused, mAdds, mFaults,
  oPresent, oState, oWindow, oUserData, oAsked, oNotifications, oSent, oTimer, oTold, oFatal,
  oChanges,
  sServices, sTickCount, sElapsed, sCommand, sPhase, sAsleep, sSeen, sStart, sDepStart,
  sOldCheckPoint, sTodo, sHeld, sSaid, sMoves,
  eFails, eCall, eStep, eRest, eCurrent, eHeld, eRefs, eInitialized, eResult,
  cTypes, cPlace, cStarts, cStep, cAt, cUnreleased, cHeld, cStartedUp, cRunning, cPosition,
  cFormats, cLostTypes, cFailed, cResult

Monitor == INSTANCE Win32Monitor WITH
  Path <- {"sub", "a", "b"}, Dir <- {"sub"},
  Parent <- [p \in {"sub", "a", "b"} |-> IF p = "b" THEN "sub" ELSE "top"],
  Action <- {"modified", "removed"},
  exists <- mExists, handles <- mHandles, filter <- mFilter, reading <- mReading,
  signalled <- mSignalled, kernel <- mKernel, lost <- mLost, buffer <- mBuffer, pc <- mPc,
  current <- mCurrent, at <- mAt, deaf <- mDeaf, excused <- mExcused,
  adds <- mAdds, faults <- mFaults

Observer == INSTANCE Win32Observer WITH
  Device <- {"stick", "disk", "mouse"}, Known <- {"usb", "hid", "volume"},
  SubsystemOf <- [d \in {"stick", "disk", "mouse"} |-> IF d = "mouse" THEN "hid" ELSE "usb"],
  Asked <- <<"usb", "floppy", "usb", "hid">>, MaxChange <- 4,
  present <- oPresent, state <- oState, window <- oWindow, userData <- oUserData,
  asked <- oAsked, notifications <- oNotifications, sent <- oSent, timer <- oTimer,
  told <- oTold, fatal <- oFatal, changes <- oChanges

Control == INSTANCE ServiceControl WITH
  Main <- "service", Dependent <- {"dependent"}, HintPart <- 2, MinWait <- 1, MaxWait <- 2,
  services <- sServices, tickCount <- sTickCount, elapsed <- sElapsed, command <- sCommand,
  phase <- sPhase, asleep <- sAsleep, seen <- sSeen, start <- sStart, depStart <- sDepStart,
  oldCheckPoint <- sOldCheckPoint, todo <- sTodo, held <- sHeld, said <- sSaid, moves <- sMoves

Endpoints == INSTANCE EndpointList WITH
  Endpoint <- <<"e1", "e2", "e3">>, Failure <- {"item", "id", "store", "value"},
  fails <- eFails, call <- eCall, step <- eStep, rest <- eRest, current <- eCurrent,
  held <- eHeld, endpointRefs <- eRefs, initialized <- eInitialized, result <- eResult

Type(name, size) == [name |-> name, size |-> size]

Cameras == INSTANCE CaptureSources WITH
  Device <- <<"c1", "c2">>, Supported <- {"YUY2", "MJPG"},
  NativeTypes <-
    {<<>>, <<Type("YUY2", "vga"), Type("odd", "vga"), Type("YUY2", "hd"), Type("MJPG", "hd")>>,
     <<Type("odd", "vga"), Type("MJPG", "vga"), Type("MJPG", "vga")>>},
  types <- cTypes, place <- cPlace, starts <- cStarts, step <- cStep, at <- cAt,
  unreleased <- cUnreleased, held <- cHeld, startedUp <- cStartedUp, running <- cRunning,
  position <- cPosition, formats <- cFormats, lostTypes <- cLostTypes, failed <- cFailed, result <- cResult

mVars == <<mExists, mHandles, mFilter, mReading, mSignalled, mKernel, mLost, mBuffer, mPc,
           mCurrent, mAt, mDeaf, mExcused, mAdds, mFaults>>
oVars == <<oPresent, oState, oWindow, oUserData, oAsked, oNotifications, oSent, oTimer,
           oTold, oFatal, oChanges>>
sVars == <<sServices, sTickCount, sElapsed, sCommand, sPhase, sAsleep, sSeen, sStart,
           sDepStart, sOldCheckPoint, sTodo, sHeld, sSaid, sMoves>>
eVars == <<eFails, eCall, eStep, eRest, eCurrent, eHeld, eRefs, eInitialized, eResult>>
cVars == <<cTypes, cPlace, cStarts, cStep, cAt, cUnreleased, cHeld, cStartedUp, cRunning,
           cPosition, cFormats, cLostTypes, cFailed, cResult>>
allVars == <<subject, vars, mVars, oVars, sVars, eVars, cVars>>

\* Each part starts in any of its initial states; those of the parts that do not
\* move are one of them.
Only(name, init, fixed) == init /\ (subject # name => fixed)

MCInit ==
  /\ subject \in {"mutex", "monitor", "observer", "service", "endpoints", "cameras"}
  /\ Init
  /\ Only("monitor", Monitor!Init, mExists = {"sub"})
  /\ Only("observer", Observer!Init, oPresent = {})
  /\ Only("service", Control!Init,
         /\ sCommand = "stop" /\ sTickCount = 0
         /\ \A s \in {"service", "dependent"} : sServices[s].state = "stopped")
  /\ Only("endpoints", Endpoints!Init, eCall = "fetch" /\ \A e \in DOMAIN eFails : eFails[e] = "none")
  /\ Only("cameras", Cameras!Init,
         cPlace /\ cStarts = {} /\ \A d \in DOMAIN cTypes : cTypes[d] = <<>>)

MutexMoves     == subject = "mutex" /\ Next /\ UNCHANGED <<mVars, oVars, sVars, eVars, cVars>>
MonitorMoves   == subject = "monitor" /\ Monitor!Next
                  /\ UNCHANGED <<vars, oVars, sVars, eVars, cVars>>
ObserverMoves  == subject = "observer" /\ Observer!Next
                  /\ UNCHANGED <<vars, mVars, sVars, eVars, cVars>>
ServiceMoves   == subject = "service" /\ Control!Next
                  /\ UNCHANGED <<vars, mVars, oVars, eVars, cVars>>
EndpointsMove  == subject = "endpoints" /\ Endpoints!Next
                  /\ UNCHANGED <<vars, mVars, oVars, sVars, cVars>>
CamerasMove    == subject = "cameras" /\ Cameras!Next
                  /\ UNCHANGED <<vars, mVars, oVars, sVars, eVars>>

MCNext ==
  /\ UNCHANGED subject
  /\ MutexMoves \/ MonitorMoves \/ ObserverMoves \/ ServiceMoves \/ EndpointsMove \/ CamerasMove

\* The monitor is polled for ever, and svccontrol runs.
MCSpec ==
  /\ MCInit /\ [][MCNext]_allVars
  /\ WF_mVars(subject = "monitor" /\ Monitor!Poll)
  /\ WF_sVars(subject = "service" /\ Control!Step)
-----------------------------------------------------------------------------
\* The values of the variables; see the modules.
TypesOK ==
  /\ TypeOK /\ Monitor!TypeOK /\ Observer!TypeOK /\ Control!TypeOK /\ Endpoints!TypeOK
  /\ Cameras!TypeOK

\* The monitor gives its application the changes of each directory, as they come;
\* see ChangeFeed.
ImplementsChangeFeed == Monitor!ImplementsChangeFeed

\* Between two polls nothing can happen unseen; see Win32Monitor.
NoDeafDirectory == Monitor!NoDeafDirectory

\* A directory waits for those before it only; see Win32Monitor.
ServedInTurn == subject = "monitor" => Monitor!ServedInTurn

\* What the observer has told, and is told of, are the devices; see
\* Win32Observer.
DevicesAreFollowed == Observer!DevicesAreFollowed

\* svccontrol, the list of endpoints and the list of capture devices release, on
\* every way out, what they have got; see the modules for the exceptions.
EverythingIsGivenBack ==
  Control!EverythingIsGivenBack /\ Endpoints!NothingIsKept /\ Cameras!EverythingIsReleased

\* The two lists have all the devices that can be read, as the system has them;
\* see EndpointList and CaptureSources.
ListsAreWhole == Endpoints!ListIsWhole /\ Cameras!ListIsWhole

\* A stop takes two time-outs and a little more; see ServiceControl.
StopIsBounded == Control!StopIsBounded

\* svccontrol ends; see ServiceControl.
CommandReturns == subject = "service" => Control!CommandReturns
=============================================================================
