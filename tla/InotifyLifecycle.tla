-------------------------- MODULE InotifyLifecycle --------------------------
(***************************************************************************)
(* Constructor and destructor of monitor<backend::inotify>: the inotify    *)
(* and the epoll descriptor among the descriptors of the process, when a   *)
(* call of the system fails half way.                                      *)
(***************************************************************************)
EXTENDS Integers

CONSTANTS
  MaxDescriptor, \* bound: descriptors are numbers up to this
  MaxOther       \* bound: descriptors others open and close

VARIABLES
  owner,     \* owner[d]: "free", "monitor" or "other", whoever opened d
  fd, ed,    \* of the representation, which nothing initializes
  place,     \* perr is not null
  state,     \* "init", "epoll", "control", "alive", "closing", "gone", "thrown"
  initFailed,\* history: inotify_init1() has failed
  taken,     \* history: descriptors of others the destructor has closed
  others

vars == <<owner, fd, ed, place, state, initFailed, taken, others>>

Descriptor == 0..MaxDescriptor
Free == {d \in Descriptor : owner[d] = "free"}
LowestFree == {d \in Free : \A e \in Free : d <= e}

Init ==
  /\ owner \in [Descriptor -> {"free", "other"}]
  /\ fd \in Descriptor \cup {-1} /\ ed \in Descriptor \cup {-1}
  /\ place \in BOOLEAN
  /\ state = "init" /\ initFailed = FALSE /\ taken = {} /\ others = 0

\* Other parts of the program open and close theirs; the system gives the lowest
\* number that is free.
OtherMoves ==
  /\ others < MaxOther /\ others' = others + 1
  /\ \/ \E d \in LowestFree : owner' = [owner EXCEPT ![d] = "other"]
     \/ \E d \in Descriptor : owner[d] = "other" /\ owner' = [owner EXCEPT ![d] = "free"]
  /\ UNCHANGED <<fd, ed, place, state, initFailed, taken>>

\* With a place for the error the constructor returns, and there is an object to
\* be destroyed; otherwise it throws, and there is none.
Fail == state' = IF place THEN "alive" ELSE "thrown"

\* The new descriptor, or -1.
InotifyInit ==
  /\ state = "init"
  /\ \/ /\ fd' \in LowestFree /\ owner' = [owner EXCEPT ![fd'] = "monitor"]
        /\ state' = "epoll" /\ UNCHANGED initFailed
     \/ fd' = -1 /\ initFailed' = TRUE /\ Fail /\ UNCHANGED owner
  /\ UNCHANGED <<ed, place, taken, others>>

EpollCreate ==
  /\ state = "epoll"
  /\ \/ /\ ed' \in LowestFree /\ owner' = [owner EXCEPT ![ed'] = "monitor"]
        /\ state' = "control"
     \/ ed' = -1 /\ Fail /\ UNCHANGED owner
  /\ UNCHANGED <<fd, place, initFailed, taken, others>>

EpollControl ==
  /\ state = "control"
  /\ state' = "alive" \/ Fail
  /\ UNCHANGED <<owner, fd, ed, place, initFailed, taken, others>>

\* close(d), if it is greater than 0, whosever it is.
CloseDescriptor(d) ==
  IF d > 0 /\ owner[d] # "free"
  THEN /\ owner' = [owner EXCEPT ![d] = "free"]
       /\ taken' = IF owner[d] = "other" THEN taken \cup {d} ELSE taken
  ELSE UNCHANGED <<owner, taken>>

CloseInotify ==
  /\ state = "alive" /\ state' = "closing"
  /\ CloseDescriptor(fd)
  /\ fd' = IF fd > 0 THEN -1 ELSE fd
  /\ UNCHANGED <<ed, place, initFailed, others>>

CloseEpoll ==
  /\ state = "closing" /\ state' = "gone"
  /\ CloseDescriptor(ed)
  /\ ed' = IF ed > 0 THEN -1 ELSE ed
  /\ UNCHANGED <<fd, place, initFailed, others>>

Next == OtherMoves \/ InotifyInit \/ EpollCreate \/ EpollControl \/ CloseInotify \/ CloseEpoll

Spec == Init /\ [][Next]_vars
-----------------------------------------------------------------------------
\* The values of the variables.
TypeOK ==
  /\ owner \in [Descriptor -> {"free", "monitor", "other"}]
  /\ {fd, ed} \subseteq Descriptor \cup {-1}

\* Wherever the constructor has failed, a monitor that is gone has closed its
\* descriptors, but for one that is 0; and it has closed nobody else's, unless
\* inotify_init1() failed, behind which ed is any number.
DescriptorsAreOwned ==
  /\ state = "gone" => {d \in Descriptor : owner[d] = "monitor"} \subseteq {0}
  /\ taken # {} => initFailed
=============================================================================
