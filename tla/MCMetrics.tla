------------------------------- MODULE MCMetrics -------------------------------
(***************************************************************************)
(* A program with one object: system_counters, or network_counters.  The   *)
(* two share nothing in the library, so that what holds of each of them    *)
(* alone holds of a program that has both, like demo/metrics_provider.     *)
(***************************************************************************)
EXTENDS SystemCounters

CONSTANTS MaxBytes, MaxMillis

VARIABLES subject, now, given, sample, speed, speedMax, checkpoint, npc, place,
          nerr, read, answer, first, counted, measured, nfaults

Network == INSTANCE NetworkCounters WITH
             MaxNow <- MaxMillis, recent <- sample, pc <- npc, err <- nerr,
             faults <- nfaults

networkVars == <<now, given, sample, speed, speedMax, checkpoint, npc, place, nerr,
                 read, answer, first, counted, measured, nfaults>>

\* The system is only counted when the user is: fewer readings, but each of the
\* three that are added up grows and falls.
MCReading == {r \in [usr : 0..1, usr_low : {0}, sys : 0..1, idl : 0..1] : r.sys <= r.usr}

ASSUME NetworkAssumption == {MaxBytes, MaxMillis} \subseteq Nat \ {0}

MCInit ==
  /\ subject \in {"system", "network"}
  /\ Init
  /\ subject = "network" => online = {0}
  /\ Network!Init

MCNext ==
  /\ UNCHANGED subject
  /\ \/ subject = "system" /\ Next /\ UNCHANGED networkVars
     \/ subject = "network" /\ Network!Next /\ UNCHANGED vars

MCSpec == MCInit /\ [][MCNext]_<<subject, vars, networkVars>>

\* The values of the variables of both; see SystemCounters and NetworkCounters.
TypesOK == TypeOK /\ Network!TypeOK

\* Speeds account for every byte and millisecond once, and the maximal speed is
\* of the interface that is set; see NetworkCounters.
TrafficIsCounted == Network!SpeedsAddUp /\ Network!MaxIsOfInterface
=============================================================================
