---------------------------- MODULE NetworkCounters ----------------------------
(***************************************************************************)
(* ionik::metrics::network_counters on Linux: set_interface() and query(), *)
(* with sys_class_net_provider, call after call on one object.             *)
(*                                                                         *)
(* An interface counts bytes in two files, which are read one after the    *)
(* other.  It is any number of bytes that a file says: the interface       *)
(* counts on, or it was removed and made again.  A speed is a pair, of     *)
(* bytes and milliseconds.                                                 *)
(***************************************************************************)
EXTENDS Integers

CONSTANTS
  MaxBytes,   \* bound: what a counter of an interface says
  MaxNow,     \* bound: the clock, in milliseconds
  MaxFault,   \* bound: reads that fail
  None        \* no value

VARIABLES
  now,         \* the clock; 0 is the epoch of time_point
  given,       \* _d is not null
  recent,      \* _recent_data.rx_bytes, tx_bytes
  speed,       \* _recent_data.rx_speed, tx_speed
  speedMax,    \* _recent_data.rx_speed_max, tx_speed_max
  checkpoint,  \* _recent_checkpoint
  pc,          \* where the call is
  place,       \* the call has a place for an error: perr # nullptr
  err,         \* *perr is set
  read,        \* read(): rx_bytes, tx_bytes
  answer,      \* the group of the last query(): None, "empty" or "whole"
  first,       \* history: what the constructor has read and when, None if it failed
  counted,     \* history: bytes that speeds were given out of
  measured,    \* history: milliseconds that speeds were given out of
  faults

dataVars == <<recent, speed, speedMax, checkpoint>>
historyVars == <<first, counted, measured>>
callVars == <<place, err, read, answer>>
vars == <<now, given, dataVars, pc, callVars, historyVars, faults>>

Way == {"rx", "tx"}
Zero == [w \in Way |-> 0]
Epoch == 0

\* b bytes in m milliseconds are more than c in n.
Faster(v, w) == v[1] * w[2] > w[1] * v[2]
Fastest(v, w) == IF Faster(w, v) THEN w ELSE v

Init ==
  /\ now = 1
  /\ given = FALSE
  /\ recent = Zero
  /\ speed = [w \in Way |-> <<0, 1>>]
  /\ speedMax = [w \in Way |-> <<0, 1>>]
  /\ checkpoint = Epoch
  /\ pc = "idle"
  /\ place = TRUE /\ err = FALSE
  /\ read = Zero
  /\ answer = None
  /\ first = None
  /\ counted = Zero
  /\ measured = 0
  /\ faults = 0
-----------------------------------------------------------------------------
Tick ==
  /\ now < MaxNow
  /\ now' = now + 1
  /\ UNCHANGED <<given, dataVars, pc, callVars, historyVars, faults>>

\* set_interface(): an object for the new interface is built before the old one
\* is given up.
SetInterface ==
  /\ pc = "idle"
  /\ place' \in BOOLEAN
  /\ err' = FALSE
  /\ answer' = None
  /\ pc' = "new::rx"
  /\ UNCHANGED <<now, given, dataVars, read, historyVars, faults>>

Query ==
  /\ pc = "idle"
  /\ given
  /\ place' \in BOOLEAN
  /\ err' = FALSE
  /\ answer' = None
  /\ pc' = "rx"
  /\ UNCHANGED <<now, given, dataVars, read, historyVars, faults>>

QueryNothing ==
  /\ pc = "idle"
  /\ ~given
  /\ place' \in BOOLEAN
  /\ err' = FALSE
  /\ answer' = "empty"
  /\ UNCHANGED <<now, given, dataVars, pc, read, historyVars, faults>>

\* query(counters) does not ask whether there is an interface.
QueryThroughNull ==
  /\ pc = "idle"
  /\ ~given
  /\ pc' = "crashed"
  /\ UNCHANGED <<now, given, dataVars, callVars, historyVars, faults>>

\* rx_bytes of the constructor, or of read_all()
ReadRx ==
  /\ \/ pc = "new::rx" /\ pc' = "new::tx"
     \/ pc = "rx" /\ pc' = "tx"
  /\ \E n \in 0..MaxBytes : read' = [read EXCEPT !["rx"] = n]
  /\ UNCHANGED <<now, given, dataVars, place, err, answer, historyVars, faults>>

ReadTx ==
  /\ \/ pc = "new::tx" /\ pc' = "new"
     \/ pc = "tx" /\ pc' = "sample"
  /\ \E n \in 0..MaxBytes : read' = [read EXCEPT !["tx"] = n]
  /\ UNCHANGED <<now, given, dataVars, place, err, answer, historyVars, faults>>

Fault ==
  /\ faults < MaxFault
  /\ faults' = faults + 1

\* Without a place for the error an exception leaves the call, and what the
\* object had is as it was.
ReadThrows ==
  /\ pc \in {"new::rx", "new::tx", "rx", "tx"}
  /\ ~place
  /\ Fault
  /\ pc' = "idle"
  /\ UNCHANGED <<now, given, dataVars, callVars, historyVars>>

\* Mutant: read_all() reads into _recent_data.
ReadFailsHalfway ==
  /\ pc \in {"rx", "tx"}
  /\ place
  /\ Fault
  /\ err' = TRUE
  /\ answer' = "empty"
  /\ pc' = "idle"
  /\ recent' = IF pc = "tx" THEN [recent EXCEPT !["rx"] = read["rx"]] ELSE recent
  /\ UNCHANGED <<now, given, speed, speedMax, checkpoint, place, read, historyVars>>

\* A query that fails gives an empty group.
ReadFails ==
  /\ pc \in {"rx", "tx"}
  /\ place
  /\ Fault
  /\ err' = TRUE
  /\ answer' = "empty"
  /\ pc' = "idle"
  /\ UNCHANGED <<now, given, dataVars, place, read, historyVars>>

\* The members of a new provider.
NewData ==
  /\ speed' = [w \in Way |-> <<0, 1>>]
  /\ speedMax' = [w \in Way |-> <<0, 1>>]
  /\ counted' = Zero
  /\ measured' = 0

Constructed ==
  /\ pc = "new"
  /\ given' = TRUE
  /\ recent' = read
  /\ checkpoint' = now
  /\ first' = [bytes |-> read, at |-> now]
  /\ NewData
  /\ pc' = "idle"
  /\ UNCHANGED <<now, callVars, faults>>

\* A constructor that fails leaves an object all the same: the interface is not
\* there (zeros), or its first or second file was not read (-1).
ConstructFails ==
  /\ pc \in {"new::rx", "new::tx"}
  /\ place
  /\ Fault
  /\ err' = TRUE
  /\ given' = TRUE
  /\ recent' \in IF pc = "new::rx"
                 THEN {Zero, [rx |-> -1, tx |-> 0]}
                 ELSE {[rx |-> read["rx"], tx |-> -1]}
  /\ checkpoint' = Epoch
  /\ first' = None
  /\ NewData
  /\ pc' = "idle"
  /\ UNCHANGED <<now, place, read, answer>>

\* No millisecond has passed: false, without an error.
SampleTooEarly ==
  /\ pc = "sample"
  /\ now <= checkpoint
  /\ answer' = "empty"
  /\ pc' = "idle"
  /\ UNCHANGED <<now, given, dataVars, place, err, read, historyVars, faults>>

\* The speeds since the last answer, which this one takes the place of.
TakeSample ==
  /\ speed' = [w \in Way |-> <<read[w] - recent[w], now - checkpoint>>]
  /\ speedMax' = [w \in Way |-> Fastest(speedMax[w], speed'[w])]
  /\ recent' = read
  /\ checkpoint' = now
  /\ counted' = [w \in Way |-> counted[w] + speed'[w][1]]
  /\ measured' = measured + speed'["rx"][2]
  /\ answer' = "whole"
  /\ pc' = "idle"
  /\ UNCHANGED <<now, given, place, err, read, first, faults>>

Sample == pc = "sample" /\ now > checkpoint /\ TakeSample

Next ==
  \/ Tick
  \/ SetInterface \/ Constructed \/ ConstructFails
  \/ Query \/ QueryNothing \/ QueryThroughNull
  \/ ReadRx \/ ReadTx \/ ReadThrows \/ ReadFails
  \/ SampleTooEarly \/ Sample

Spec == Init /\ [][Next]_vars
-----------------------------------------------------------------------------
\* The values of the variables.
TypeOK ==
  /\ now \in 1..MaxNow /\ checkpoint \in 0..now
  /\ given \in BOOLEAN /\ place \in BOOLEAN /\ err \in BOOLEAN
  /\ recent \in [Way -> -1..MaxBytes] /\ read \in [Way -> 0..MaxBytes]
  /\ \A w \in Way : speed[w][2] \in 1..MaxNow /\ speedMax[w][2] \in 1..MaxNow
  /\ pc \in {"idle", "new::rx", "new::tx", "new", "rx", "tx", "sample", "crashed"}
  /\ answer \in {None, "empty", "whole"}

\* The speeds given out since set_interface() account for every byte and for
\* every millisecond of the interface once, whichever queries between them have
\* failed, thrown or come too early, and whatever was set in vain.
SpeedsAddUp ==
  first # None =>
    /\ \A w \in Way : counted[w] = recent[w] - first.bytes[w]
    /\ measured = checkpoint - first.at

\* The maximum is that of the interface that is set: no speed given out is above
\* it, and it is nothing before the first of them.
MaxIsOfInterface ==
  \A w \in Way :
    /\ ~Faster(speed[w], speedMax[w])
    /\ measured = 0 => speedMax[w][1] = 0
=============================================================================
