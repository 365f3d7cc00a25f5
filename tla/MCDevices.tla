----------------------------- MODULE MCDevices -----------------------------
(***************************************************************************)
(* A program on Linux with one of the parts that hold what the system      *)
(* gives them: the observer on udev, the lists of PulseAudio, the list of  *)
(* Video4Linux2, or a monitor of the file system that is made and          *)
(* destroyed.  They share nothing, so that what holds of each alone holds  *)
(* of a program that has all of them.                                      *)
(***************************************************************************)
EXTENDS UdevObserver

CONSTANTS
  Source, NoSource, MaxCalls, MaxServerChange, MaxFault,  \* PulseAudio
  Node, Link, Target, Capture, Driver, MaxMove,           \* Video4Linux2
  MaxDescriptor, MaxOther                                 \* the monitor

VARIABLES
  subject,
  pDevices, pDefault, pChanges, pInbox, pOutbox, pAsked, pLink, pHeld, pNotifier, pPc, pCall,
  pStage, pStep, pOp, pRefs, pRc, pName, pResult, pTruth, pCalls, pFaults,
  vPlugged, vStep, vUnseen, vFiles, vAt, vFd, vCurrent, vFormat, vSize, vRate, vResult, vDisturbed,
  vChanges,
  iOwner, iFd, iEd, iPlace, iState, iInitFailed, iTaken, iOthers

Pulse == INSTANCE PulseSession WITH
  Device <- Source, NoDevice <- NoSource, MaxChange <- MaxServerChange,
  devices <- pDevices, default <- pDefault, changes <- pChanges, inbox <- pInbox,
  outbox <- pOutbox, asked <- pAsked, link <- pLink, held <- pHeld, notifier <- pNotifier,
  pc <- pPc, call <- pCall, stage <- pStage, step <- pStep, op <- pOp, refs <- pRefs, rc <- pRc,
  name <- pName, result <- pResult, truth <- pTruth, calls <- pCalls, faults <- pFaults

\* What the drivers of cameras tell.
Size == [area : Nat, rates : Seq(Nat)]
Format == [name : STRING, sizes : Seq(Size)]

\* A link is no node, and leads to one.
ASSUME VideoAssumption ==
  /\ Node \cap Link = {} /\ Target \in [Link -> Node] /\ Capture \subseteq Node
  /\ \A n \in Node : Driver[n].formats \in Seq(Format)

Video == INSTANCE VideoNodes WITH
  MaxChange <- MaxMove,
  plugged <- vPlugged, step <- vStep, unseen <- vUnseen, files <- vFiles, at <- vAt, fd <- vFd,
  current <- vCurrent, format <- vFormat, size <- vSize, rate <- vRate, result <- vResult,
  disturbed <- vDisturbed, changes <- vChanges

Life == INSTANCE InotifyLifecycle WITH
  owner <- iOwner, fd <- iFd, ed <- iEd, place <- iPlace, state <- iState,
  initFailed <- iInitFailed, taken <- iTaken, others <- iOthers

pVars == <<pDevices, pDefault, pChanges, pInbox, pOutbox, pAsked, pLink, pHeld, pNotifier, pPc,
           pCall, pStage, pStep, pOp, pRefs, pRc, pName, pResult, pTruth, pCalls, pFaults>>
vVars == <<vPlugged, vStep, vUnseen, vFiles, vAt, vFd, vCurrent, vFormat, vSize, vRate, vResult,
           vDisturbed, vChanges>>
iVars == <<iOwner, iFd, iEd, iPlace, iState, iInitFailed, iTaken, iOthers>>

MCInit ==
  /\ subject \in {"udev", "pulse", "video", "life"}
  /\ Init /\ (subject # "udev" => status = [d \in Device |-> "absent"])
  /\ Pulse!Init /\ (subject # "pulse" => pDevices = {})
  /\ Video!Init /\ (subject # "video" => vPlugged = {})
  /\ Life!Init
  /\ subject # "life" =>
       iFd = -1 /\ iEd = -1 /\ iPlace /\ \A d \in DOMAIN iOwner : iOwner[d] = "free"

UdevMoves  == subject = "udev" /\ Next /\ UNCHANGED <<pVars, vVars, iVars>>
PulseMoves == subject = "pulse" /\ Pulse!Next /\ UNCHANGED <<vars, vVars, iVars>>
VideoMoves == subject = "video" /\ Video!Next /\ UNCHANGED <<vars, pVars, iVars>>
LifeMoves  == subject = "life" /\ Life!Next /\ UNCHANGED <<vars, pVars, vVars>>

MCNext ==
  /\ UNCHANGED subject
  /\ UdevMoves \/ PulseMoves \/ VideoMoves \/ LifeMoves

\* The calls go on, and the sound server answers; see PulseSession.
MCSpec ==
  /\ MCInit /\ [][MCNext]_<<subject, vars, pVars, vVars, iVars>>
  /\ WF_pVars(subject = "pulse" /\ Pulse!Session)
  /\ WF_pVars(subject = "pulse" /\ Pulse!Server)
  /\ WF_vVars(subject = "video" /\ Video!Work)
-----------------------------------------------------------------------------
\* The values of the variables, and what a finished observer or session holds.
TypesOK == TypeOK /\ Pulse!TypeOK /\ Video!TypeOK /\ Life!TypeOK

\* A result is what the server answered, to this request; see PulseSession.
AnswersAreTrue == Pulse!TrueMeansAnswered /\ Pulse!ReplyFitsRequest

\* An operation of PulseAudio is released, and so are the descriptors of the
\* monitor; see PulseSession and InotifyLifecycle for the exceptions.
EverythingIsReleased == Pulse!OperationsReleased /\ Life!DescriptorsAreOwned

\* Every list is returned, by PulseAudio and by Video4Linux2, or the call ends by
\* an exception or by an error reply.
CallReturns ==
  /\ Pulse!CallReturns
  /\ subject = "video" ~> vStep \in {"end", "thrown"}

\* The list of cameras is what was found in /dev; see VideoNodes.
ListedAsFound == Video!ListedAsFound
-----------------------------------------------------------------------------
(* Values for TLC: a camera with two formats, one of which has two sizes   *)
(* of one area, and one with a format without sizes; the other node of the *)
(* first has metadata.                                                     *)

Nodes == {"video0", "video1", "video2"}
Links == {"video-cam"}
Targets == [l \in Links |-> "video0"]
Captures == {"video0", "video2"}

SizeOf(area, rates) == [area |-> area, rates |-> rates]

Drivers == [n \in Nodes |->
  IF n = "video0"
  THEN [current |-> "MJPG",
        formats |->
          <<[name |-> "YUYV",
             sizes |-> <<SizeOf(2, <<1, 2>>), SizeOf(1, <<1>>), SizeOf(2, <<>>)>>],
            [name |-> "MJPG", sizes |-> <<SizeOf(1, <<>>)>>]>>]
  ELSE [current |-> "YUYV", formats |-> <<[name |-> "YUYV", sizes |-> <<>>]>>]]
=============================================================================
