---------------------------- MODULE MCMetrics_proofs ----------------------------
(***************************************************************************)
(* What the run counters checks of system_counters and network_counters,   *)
(* for any readings, any number of processors that come and go, any number *)
(* of failures, calls and interfaces.                                      *)
(*                                                                         *)
(* Of system_counters it has to be known as well that the vector of recent *)
(* data has no gaps and grows with the lines the constructor reads, and    *)
(* that a line that is looked at is one that the text has.                 *)
(*                                                                         *)
(* Of network_counters, which is an instance here, the sums need only that *)
(* what is added and subtracted are numbers (Numbers), and the maximum     *)
(* that every speed given out is one of a time that is not 0 (Speeds).     *)
(*                                                                         *)
(* And what the run proc_texts checks of the readers of /proc and          *)
(* os-release, for any texts of any length: what each function of the      *)
(* parser makes of a text, what a record says of its line, and where the   *)
(* loop is between two records (ReaderInv).                                *)
(***************************************************************************)
EXTENDS MCMetrics, MCProcText, FiniteSetTheorems, WellFoundedInduction, TLAPS

Element == Reading \cup {NoTicks}
InConstructor == {"none", "stat::stat", "constructed", "thrown"}

Types ==
  /\ online \in SUBSET Index /\ 0 \in online
  /\ cores \in 0..MaxIndex
  /\ ticks \in [now : Int, usr : Int]
  /\ pc \in Location
  /\ index \in 0..(MaxIndex + 1)
  /\ swap \in {None, 0, 1}
  /\ failed \subseteq {"times", "stat", "sysinfo", "status"}
  /\ seen \in [Index -> Reading \cup {None}]
  /\ \E n \in 0..(MaxIndex + 1) : recent \in [0..(n - 1) -> Element]

\* A line has an element as soon as it has been looked at, and the constructor
\* has elements only for lines before the one that is next.
SeenHasElement == \A i \in Index : seen[i] # None => i \in DOMAIN recent
GrowsWithLines == pc \in {"none", "stat::stat"} => \A i \in DOMAIN recent : i < index

\* The next line is one of the text.
LineIsOnline == pc \in {"none", "stat::stat", "line"} /\ index <= MaxIndex => index \in online

StartsAtFirst == pc = "none" => index = 0

\* Without a fault, only a core that has no element is an error.
ErrorIsUnknownCore ==
  err /\ faults = 0 =>
    /\ pc \notin InConstructor
    /\ pc # "idle" => \E i \in online : i \notin DOMAIN recent

SInv == /\ Types /\ SeenHasElement /\ GrowsWithLines /\ LineIsOnline /\ StartsAtFirst
        /\ UsageIsOfInterval /\ ErrorIsUnknownCore /\ faults \in Nat
-----------------------------------------------------------------------------
\* What a line that is not skipped gives is a percentage.
LEMMA LineIsPercent ==
  ASSUME NEW from \in Element, NEW to \in Element, ~Skipped(from, to)
  PROVE  All(from, to) > 0 /\ Busy(from, to) \in 0..All(from, to)
<1>1. /\ from.usr \in Nat /\ from.usr_low \in Nat /\ from.sys \in Nat /\ from.idl \in Nat
      /\ to.usr \in Nat /\ to.usr_low \in Nat /\ to.sys \in Nat /\ to.idl \in Nat
  BY CountersAssumption DEF Element, NoTicks
<1>2. QED
  BY <1>1 DEF Skipped, All, Busy

\* What the time of the process gives, is a share of some time.
LEMMA TimesArePositive ==
  ASSUME NEW m \in Int, NEW n \in Int, m > 0, n > 0
  PROVE  m * n > 0
OBVIOUS

LEMMA InitSystem == Init => SInv
<1> SUFFICES ASSUME Init PROVE SInv
  OBVIOUS
<1> USE CountersAssumption DEF Init
<1>1. online \in SUBSET Index /\ 0 \in online
  BY DEF Index
<1>2. recent \in [0..(0 - 1) -> Element] /\ DOMAIN recent = {}
  OBVIOUS
<1>3. Types
  BY <1>1, <1>2 DEF Types, Location, Index
<1>4. SeenHasElement /\ GrowsWithLines /\ LineIsOnline /\ StartsAtFirst
  BY <1>1, <1>2 DEF SeenHasElement, GrowsWithLines, LineIsOnline, StartsAtFirst
<1>5. UsageIsOfInterval /\ ErrorIsUnknownCore
  BY DEF UsageIsOfInterval, UsageIsPercent, ReferenceIsLastReading, ErrorIsUnknownCore
<1>6. QED
  BY <1>3, <1>4, <1>5 DEF SInv

\* A step that touches neither lines nor usages.
LEMMA CallStep ==
  ASSUME SInv, UNCHANGED <<systemVars, statVars, cores, usage>>,
         ticks' \in [now : Int, usr : Int], pc' \in Location,
         pc' \in {"none", "stat::stat", "line"} => pc' = pc,
         swap' \in {None, 0, 1}, failed' \subseteq {"times", "stat", "sysinfo", "status"},
         faults' \in Nat, ErrorIsUnknownCore'
  PROVE  SInv'
<1>1. UNCHANGED <<online, recent, index, total, seen, cores, usage>>
  BY DEF systemVars, statVars
<1>2. Types'
  BY <1>1 DEF SInv, Types
<1>3. SeenHasElement' /\ GrowsWithLines' /\ LineIsOnline' /\ StartsAtFirst'
  BY <1>1 DEF SInv, SeenHasElement, GrowsWithLines, LineIsOnline, StartsAtFirst
<1>4. UsageIsOfInterval'
  BY <1>1 DEF SInv, UsageIsOfInterval, UsageIsPercent, ReferenceIsLastReading
<1>5. QED
  BY <1>2, <1>3, <1>4 DEF SInv

LEMMA FaultCause ==
  ASSUME SInv, Fault
  PROVE  ErrorIsUnknownCore' /\ faults' \in Nat
BY DEF SInv, Fault, ErrorIsUnknownCore

LEMMA LineFacts ==
  ASSUME SInv, NextLine
  PROVE  /\ index' \in 0..(MaxIndex + 1) /\ index' > index
         /\ index' <= MaxIndex => index' \in online
<1>1. online \subseteq 0..MaxIndex /\ MaxIndex \in Nat
  BY CountersAssumption DEF SInv, Types, Index
<1>2. index' \in online \cup {MaxIndex + 1} /\ index' > index
  BY DEF NextLine
<1>3. index' \in 0..(MaxIndex + 1)
  BY <1>1, <1>2
<1>4. index' <= MaxIndex => index' \in online
  BY <1>1, <1>2
<1>5. QED
  BY <1>2, <1>3, <1>4

\* The times_provider is there, with or without an error.
LEMMA Build ==
  ASSUME SInv, pc = "none", pc' = "stat::stat",
         UNCHANGED <<online, recent, index, total, seen, usage, swap, failed>>,
         ticks' \in [now : Int, usr : Int], cores' \in 0..MaxIndex, faults' \in Nat,
         UNCHANGED <<err, faults>> \/ ErrorIsUnknownCore'
  PROVE  SInv'
<1>1. Types'
  BY DEF SInv, Types, Location
<1>2. SeenHasElement' /\ GrowsWithLines' /\ LineIsOnline' /\ StartsAtFirst'
  BY DEF SInv, SeenHasElement, GrowsWithLines, LineIsOnline, StartsAtFirst
<1>3. UsageIsOfInterval'
  BY DEF SInv, UsageIsOfInterval, UsageIsPercent, ReferenceIsLastReading
<1>4. ErrorIsUnknownCore'
  BY DEF SInv, ErrorIsUnknownCore, InConstructor
<1>5. QED
  BY <1>1, <1>2, <1>3, <1>4 DEF SInv

LEMMA ConstructLineStep == ASSUME SInv, ConstructLine PROVE SInv'
<1> USE CountersAssumption
<1>1. PICK r \in Reading :
        /\ recent' = [i \in 0..index |->
                        IF i = index THEN r
                        ELSE IF i \in DOMAIN recent THEN recent[i] ELSE NoTicks]
        /\ seen' = [seen EXCEPT ![index] = r]
  BY DEF ConstructLine
<1>2. /\ UNCHANGED <<online, cores, ticks, usage, total, swap, failed, err, faults, pc>>
      /\ pc = "stat::stat" /\ index <= MaxIndex /\ NextLine
  BY DEF ConstructLine, systemVars, timesVars, callVars
<1>3. index \in Index /\ index \in Nat
  BY <1>2 DEF SInv, Types, Index
<1>4. /\ index' \in 0..(MaxIndex + 1) /\ index' > index
      /\ index' <= MaxIndex => index' \in online
  BY <1>2, LineFacts
<1>5. \A i \in DOMAIN recent : recent[i] \in Element
  BY DEF SInv, Types
<1>6. recent' \in [0..index -> Element]
  BY <1>1, <1>5 DEF Element
<1>7. \E n \in 0..(MaxIndex + 1) : recent' \in [0..(n - 1) -> Element]
  <2>1. (index + 1) - 1 = index /\ index + 1 \in 0..(MaxIndex + 1)
    BY <1>2, <1>3
  <2>2. QED
    BY <1>6, <2>1
<1>8. seen' \in [Index -> Reading \cup {None}]
  BY <1>1 DEF SInv, Types
<1>9. Types'
  BY <1>2, <1>4, <1>7, <1>8 DEF SInv, Types
<1>10. \A i \in Index : i # index /\ seen'[i] # None =>
         seen'[i] = seen[i] /\ i \in DOMAIN recent /\ i < index
  BY <1>1, <1>2 DEF SInv, Types, SeenHasElement, GrowsWithLines
<1>11. SeenHasElement'
  <2>1. ASSUME NEW i \in Index, seen'[i] # None PROVE i \in 0..index
    BY <1>3, <1>10, <2>1 DEF Index
  <2>2. DOMAIN recent' = 0..index
    BY <1>1
  <2>3. QED
    BY <2>1, <2>2 DEF SeenHasElement
<1>12. GrowsWithLines' /\ LineIsOnline' /\ StartsAtFirst'
  BY <1>1, <1>2, <1>3, <1>4 DEF GrowsWithLines, LineIsOnline, StartsAtFirst
<1>13. ReferenceIsLastReading'
  <2>1. ASSUME NEW i \in Index, seen'[i] # None PROVE recent'[i] = seen'[i]
    <3>1. CASE i = index
      BY <1>1, <1>3, <3>1 DEF SInv, Types
    <3>2. CASE i # index
      <4>1. seen'[i] = seen[i] /\ i \in DOMAIN recent /\ i \in 0..index
        BY <1>3, <1>10, <2>1, <3>2 DEF Index
      <4>2. recent'[i] = recent[i]
        BY <1>1, <3>2, <4>1
      <4>3. QED
        BY <2>1, <4>1, <4>2 DEF SInv, UsageIsOfInterval, ReferenceIsLastReading
    <3>3. QED
      BY <3>1, <3>2
  <2>2. QED
    BY <2>1 DEF ReferenceIsLastReading
<1>14. UsageIsOfInterval'
  BY <1>2, <1>13 DEF SInv, UsageIsOfInterval, UsageIsPercent
<1>15. ErrorIsUnknownCore'
  BY <1>2 DEF SInv, ErrorIsUnknownCore, InConstructor
<1>16. QED
  BY <1>2, <1>9, <1>11, <1>12, <1>14, <1>15 DEF SInv

LEMMA ConstructStep == ASSUME SInv, Construct PROVE SInv'
<1> USE CountersAssumption
<1>1. CASE ConstructTimes
  <2>1. ticks' \in [now : Int, usr : Int] /\ cores' \in 0..MaxIndex /\ pc' = "stat::stat"
    BY <1>1 DEF ConstructTimes, Times
  <2>2. /\ UNCHANGED <<online, recent, index, total, seen, usage, swap, failed, err, faults>>
        /\ pc = "none" /\ faults' \in Nat
    BY <1>1 DEF ConstructTimes, systemVars, statVars, callVars, SInv
  <2>3. QED
    BY <2>1, <2>2, Build
<1>2. CASE ConstructTimesFails
  <2>1. UNCHANGED <<online, recent, index, total, seen, usage, ticks, swap, failed>>
    BY <1>2 DEF ConstructTimesFails, systemVars, statVars
  <2>2. pc = "none" /\ pc' = "stat::stat" /\ cores' \in 0..MaxIndex /\ Fault
    BY <1>2 DEF ConstructTimesFails
  <2>3. ErrorIsUnknownCore' /\ faults' \in Nat /\ ticks' \in [now : Int, usr : Int]
    BY <2>1, <2>2, FaultCause DEF SInv, Types
  <2>4. QED
    BY <2>1, <2>2, <2>3, Build
<1>3. CASE ConstructLine
  BY <1>3, ConstructLineStep
<1>4. CASE ConstructLineFails
  <2>1. /\ UNCHANGED <<systemVars, statVars, cores, usage, ticks, swap, failed>>
        /\ pc' = "constructed" /\ Fault
    BY <1>4 DEF ConstructLineFails, timesVars
  <2>2. QED
    BY <2>1, FaultCause, CallStep DEF SInv, Types, Location
<1>5. CASE ConstructLastLine \/ Constructed \/ ConstructThrows
  <2>1. /\ UNCHANGED <<systemVars, statVars, cores, usage, ticks, swap, failed, err, faults>>
        /\ pc \in InConstructor /\ pc' \in {"constructed", "idle", "thrown"}
    BY <1>5 DEF ConstructLastLine, Constructed, ConstructThrows, InConstructor,
                timesVars, callVars
  <2>2. ErrorIsUnknownCore'
    BY <2>1 DEF SInv, ErrorIsUnknownCore
  <2>3. QED
    BY <2>1, <2>2, CallStep DEF SInv, Types, Location
<1>6. QED
  BY <1>1, <1>2, <1>3, <1>4, <1>5 DEF Construct

LEMMA HotplugStep == ASSUME SInv, Hotplug PROVE SInv'
<1>1. /\ pc \in {"none", "idle"}
      /\ UNCHANGED <<cores, ticks, usage, recent, index, total, seen, swap, failed, err,
                     faults, pc>>
  BY DEF Hotplug, timesVars, statVars, callVars
<1>2. online' \in SUBSET Index /\ 0 \in online'
  BY DEF Hotplug, SInv, Types
<1>3. Types'
  BY <1>1, <1>2 DEF SInv, Types
<1>4. pc = "none" => index = 0
  BY DEF SInv, StartsAtFirst
<1>5. SeenHasElement' /\ GrowsWithLines' /\ LineIsOnline' /\ StartsAtFirst'
  BY <1>1, <1>2, <1>4 DEF SInv, SeenHasElement, GrowsWithLines, LineIsOnline, StartsAtFirst
<1>6. UsageIsOfInterval' /\ ErrorIsUnknownCore'
  BY <1>1 DEF SInv, UsageIsOfInterval, UsageIsPercent, ReferenceIsLastReading,
              ErrorIsUnknownCore, InConstructor
<1>7. QED
  BY <1>1, <1>3, <1>5, <1>6 DEF SInv

\* A call that starts, throws or returns gives up usages, or leaves them alone.
LEMMA GroupStep ==
  ASSUME SInv, UNCHANGED <<systemVars, cores, ticks, recent, index, seen>>,
         \/ usage' = None /\ total' = None /\ swap' = None
         \/ UNCHANGED <<usage, total, swap>>,
         pc' \in {"times", "idle"}, pc \notin InConstructor,
         failed' \in {{}, failed}, err' \in {FALSE, err}, faults' \in Nat,
         faults' = 0 => faults = 0 /\ (pc' = "idle" \/ err' = FALSE)
  PROVE  SInv'
<1> USE CountersAssumption
<1>1. UNCHANGED <<online, cores, ticks, recent, index, seen>>
  BY DEF systemVars
<1>2. Types'
  <2>1. swap' \in {None, 0, 1} /\ failed' \subseteq {"times", "stat", "sysinfo", "status"}
    BY DEF SInv, Types
  <2>2. pc' \in Location
    BY DEF Location
  <2>3. QED
    BY <1>1, <2>1, <2>2 DEF SInv, Types
<1>3. SeenHasElement' /\ GrowsWithLines' /\ LineIsOnline' /\ StartsAtFirst'
  BY <1>1 DEF SInv, SeenHasElement, GrowsWithLines, LineIsOnline, StartsAtFirst
<1>4. UsageIsOfInterval'
  BY <1>1 DEF SInv, UsageIsOfInterval, UsageIsPercent, ReferenceIsLastReading
<1>5. ErrorIsUnknownCore'
  BY <1>1 DEF SInv, ErrorIsUnknownCore, InConstructor
<1>6. QED
  BY <1>2, <1>3, <1>4, <1>5 DEF SInv

LEMMA QueryTimesStep == ASSUME SInv, QueryTimes PROVE SInv'
<1> USE CountersAssumption
<1>1. PICK now0 \in Times :
        /\ ticks' = now0
        /\ usage' = IF now0.now <= ticks.now \/ now0.usr < ticks.usr
                    THEN None
                    ELSE <<now0.usr - ticks.usr, (now0.now - ticks.now) * cores>>
  BY DEF QueryTimes
<1>2. /\ UNCHANGED <<online, recent, index, total, seen, cores, swap, failed, err, faults>>
      /\ pc = "times" /\ pc' = "stat" /\ cores > 0
  BY DEF QueryTimes, systemVars, statVars, callVars
<1>3. now0.now \in Int /\ now0.usr \in Int /\ ticks' \in [now : Int, usr : Int]
  BY <1>1 DEF Times
<1>4. ticks.now \in Int /\ ticks.usr \in Int /\ cores \in Int
  BY DEF SInv, Types
<1>5. usage' # None => usage'[2] > 0 /\ usage'[1] >= 0
  <2>1. CASE now0.now <= ticks.now \/ now0.usr < ticks.usr
    BY <1>1, <2>1
  <2>2. CASE ~(now0.now <= ticks.now \/ now0.usr < ticks.usr)
    <3> DEFINE u == now0.usr - ticks.usr
               a == (now0.now - ticks.now) * cores
    <3>1. a > 0
      <4>1. now0.now - ticks.now \in Int /\ now0.now - ticks.now > 0
        BY <1>3, <1>4, <2>2
      <4>2. QED
        BY <1>2, <1>4, <4>1, TimesArePositive
    <3>2. u >= 0
      BY <1>3, <1>4, <2>2
    <3>3. usage' = <<u, a>>
      BY <1>1, <2>2
    <3> HIDE DEF u, a
    <3>4. QED
      BY <3>1, <3>2, <3>3
  <2>3. QED
    BY <2>1, <2>2
<1>6. Types'
  BY <1>2, <1>3 DEF SInv, Types, Location
<1>7. SeenHasElement' /\ GrowsWithLines' /\ LineIsOnline' /\ StartsAtFirst'
  BY <1>2 DEF SInv, SeenHasElement, GrowsWithLines, LineIsOnline, StartsAtFirst
<1>8. UsageIsOfInterval'
  BY <1>2, <1>5 DEF SInv, UsageIsOfInterval, UsageIsPercent, ReferenceIsLastReading
<1>9. ErrorIsUnknownCore'
  BY <1>2 DEF SInv, ErrorIsUnknownCore, InConstructor
<1>10. QED
  BY <1>2, <1>6, <1>7, <1>8, <1>9 DEF SInv

LEMMA QueryStatStep == ASSUME SInv, QueryStat PROVE SInv'
<1> USE CountersAssumption
<1>1. /\ UNCHANGED <<online, cores, ticks, usage, recent, total, seen, swap, failed, err,
                     faults>>
      /\ pc = "stat" /\ pc' = "line" /\ index' = 0
  BY DEF QueryStat, systemVars, timesVars, callVars
<1>2. Types'
  BY <1>1 DEF SInv, Types, Location
<1>3. SeenHasElement' /\ GrowsWithLines' /\ LineIsOnline' /\ StartsAtFirst'
  BY <1>1 DEF SInv, Types, SeenHasElement, GrowsWithLines, LineIsOnline, StartsAtFirst
<1>4. UsageIsOfInterval' /\ ErrorIsUnknownCore'
  BY <1>1 DEF SInv, UsageIsOfInterval, UsageIsPercent, ReferenceIsLastReading,
              ErrorIsUnknownCore, InConstructor
<1>5. QED
  BY <1>1, <1>2, <1>3, <1>4 DEF SInv

LEMMA QueryLineStep == ASSUME SInv, QueryLine PROVE SInv'
<1> USE CountersAssumption
<1> DEFINE old == recent[index]
           skip(r) == Skipped(old, r)
           stop(r) == index = 0 /\ ~skip(r)
<1>1. PICK r \in Reading :
        /\ recent' = [recent EXCEPT ![index] = r]
        /\ seen' = [seen EXCEPT ![index] = r]
        /\ total' = IF stop(r) THEN <<Busy(recent[0], r), All(recent[0], r)>> ELSE total
        /\ pc' = IF stop(r) THEN "sysinfo" ELSE "line"
  BY DEF QueryLine
<1>2. /\ UNCHANGED <<online, cores, ticks, usage, swap, failed, err, faults>>
      /\ pc = "line" /\ index \in DOMAIN recent /\ NextLine
  BY DEF QueryLine, systemVars, timesVars, callVars
<1>3. old \in Element /\ r \in Element /\ index \in Index
  BY <1>2 DEF SInv, Types, Element, Index
<1>4. total' # None => total'[2] > 0 /\ total'[1] \in 0..total'[2]
  <2>1. CASE stop(r)
    <3>1. All(old, r) > 0 /\ Busy(old, r) \in 0..All(old, r)
      BY <1>3, <2>1, LineIsPercent
    <3>2. total' = <<Busy(old, r), All(old, r)>>
      BY <1>1, <2>1
    <3>3. QED
      BY <3>1, <3>2
  <2>2. CASE ~stop(r)
    BY <1>1, <2>2 DEF SInv, UsageIsOfInterval, UsageIsPercent
  <2>3. QED
    BY <2>1, <2>2
<1> HIDE DEF old, skip, stop
<1>5. /\ index' \in 0..(MaxIndex + 1)
      /\ index' <= MaxIndex => index' \in online
  BY <1>2, LineFacts
<1>6. \E n \in 0..(MaxIndex + 1) : recent' \in [0..(n - 1) -> Element]
  BY <1>1, <1>3 DEF SInv, Types
<1>7. DOMAIN recent' = DOMAIN recent
  BY <1>1
<1>8. seen' \in [Index -> Reading \cup {None}]
  BY <1>1 DEF SInv, Types
<1>9. Types'
  BY <1>1, <1>2, <1>5, <1>6, <1>8 DEF SInv, Types, Location
<1>10. SeenHasElement' /\ GrowsWithLines' /\ LineIsOnline' /\ StartsAtFirst'
  <2>1. SeenHasElement'
    BY <1>1, <1>2, <1>7 DEF SInv, Types, SeenHasElement
  <2>2. pc' \notin {"none", "stat::stat"}
    BY <1>1
  <2>3. QED
    BY <1>2, <1>5, <2>1, <2>2 DEF GrowsWithLines, LineIsOnline, StartsAtFirst
<1>11. ReferenceIsLastReading'
  <2>1. ASSUME NEW i \in Index, seen'[i] # None PROVE recent'[i] = seen'[i]
    <3>1. CASE i = index
      BY <1>1, <1>2, <1>3, <3>1 DEF SInv, Types
    <3>2. CASE i # index
      <4>1. seen'[i] = seen[i]
        BY <1>1, <3>2 DEF SInv, Types
      <4>2. recent'[i] = recent[i]
        BY <1>1, <2>1, <3>2, <4>1 DEF SInv, SeenHasElement
      <4>3. QED
        BY <2>1, <4>1, <4>2 DEF SInv, UsageIsOfInterval, ReferenceIsLastReading
    <3>3. QED
      BY <3>1, <3>2
  <2>2. QED
    BY <2>1 DEF ReferenceIsLastReading
<1>12. UsageIsOfInterval'
  BY <1>2, <1>4, <1>11 DEF SInv, UsageIsOfInterval, UsageIsPercent
<1>13. ErrorIsUnknownCore'
  BY <1>1, <1>2, <1>7 DEF SInv, ErrorIsUnknownCore, InConstructor
<1>14. QED
  BY <1>2, <1>9, <1>10, <1>12, <1>13 DEF SInv

LEMMA ContinueStep == ASSUME SInv, Continue PROVE SInv'
<1> USE CountersAssumption
<1>1. CASE \/ QueryTimesFails \/ QueryStatFails \/ QueryLineDamaged
           \/ QuerySysinfoFails \/ QueryStatusFails
  <2>1. /\ UNCHANGED <<systemVars, statVars, cores, usage, ticks, swap>> /\ Fault
        /\ pc' \in {"stat", "sysinfo", "status", "return"}
        /\ failed' \subseteq failed \cup {"times", "stat", "sysinfo", "status"}
    BY <1>1 DEF QueryTimesFails, QueryStatFails, QueryLineDamaged, QuerySysinfoFails,
                QueryStatusFails, timesVars
  <2>2. QED
    BY <2>1, FaultCause, CallStep DEF SInv, Types, Location
<1>2. CASE Terminate \/ QueryLastLine \/ QuerySysinfo \/ QueryStatus
  <2>1. /\ UNCHANGED <<systemVars, statVars, cores, usage, ticks, failed, err, faults>>
        /\ pc \in {"times", "line", "sysinfo", "status"}
        /\ pc' \in {"terminated", "sysinfo", "status", "return"}
        /\ swap' \in {None, 0, 1}
    BY <1>2 DEF Terminate, QueryLastLine, QuerySysinfo, QueryStatus, timesVars, callVars,
                SInv, Types
  <2>2. ErrorIsUnknownCore'
    BY <2>1 DEF SInv, ErrorIsUnknownCore, InConstructor, systemVars, statVars
  <2>3. QED
    BY <2>1, <2>2, CallStep DEF SInv, Types, Location
<1>3. CASE QueryLineUnknown
  <2>1. /\ UNCHANGED <<systemVars, statVars, cores, usage, ticks, swap, faults>>
        /\ pc = "line" /\ pc' = "sysinfo"
        /\ failed' = failed \cup {"stat"}
        /\ index <= MaxIndex /\ index \notin DOMAIN recent
    BY <1>3 DEF QueryLineUnknown, timesVars
  <2>2. index \in online
    BY <2>1 DEF SInv, LineIsOnline
  <2>3. ErrorIsUnknownCore'
    BY <2>1, <2>2 DEF ErrorIsUnknownCore, InConstructor, systemVars, statVars
  <2>4. QED
    BY <2>1, <2>3, CallStep DEF SInv, Types, Location
<1>4. CASE QueryThrows \/ QueryLineUnknownThrows
  <2>1. /\ UNCHANGED <<systemVars, cores, ticks, recent, index, seen, failed, err>>
        /\ usage' = None /\ total' = None /\ swap' = None /\ pc' = "idle"
        /\ pc \in {"times", "stat", "line", "sysinfo", "status"}
        /\ faults' \in {faults, faults + 1}
    BY <1>4 DEF QueryThrows, QueryLineUnknownThrows, Throw
  <2>2. faults' \in Nat /\ (faults' = 0 => faults = 0)
    BY <2>1 DEF SInv
  <2>3. QED
    BY <2>1, <2>2, GroupStep DEF InConstructor
<1>5. CASE Return
  <2>1. /\ UNCHANGED <<systemVars, cores, ticks, recent, index, seen, failed, err, faults>>
        /\ \/ usage' = None /\ total' = None /\ swap' = None
           \/ UNCHANGED <<usage, total, swap>>
        /\ pc = "return" /\ pc' = "idle"
    BY <1>5 DEF Return
  <2>2. QED
    BY <2>1, GroupStep DEF InConstructor, SInv
<1>6. QED
  BY <1>1, <1>2, <1>3, <1>4, <1>5, QueryTimesStep, QueryStatStep, QueryLineStep DEF Continue

LEMMA SystemStep == SInv /\ [Next]_vars => SInv'
<1> SUFFICES ASSUME SInv, [Next]_vars PROVE SInv'
  OBVIOUS
<1>1. CASE Query
  <2>1. /\ UNCHANGED <<systemVars, cores, ticks, recent, index, seen, faults>>
        /\ usage' = None /\ total' = None /\ swap' = None
        /\ pc = "idle" /\ pc' = "times" /\ failed' = {} /\ err' = FALSE
    BY <1>1 DEF Query
  <2>2. QED
    BY <2>1, GroupStep DEF InConstructor, SInv
<1>2. CASE UNCHANGED vars
  <2>1. UNCHANGED <<online, cores, ticks, usage, recent, index, total, seen, swap, failed, err,
                    faults, pc>>
    BY <1>2 DEF vars, systemVars, timesVars, statVars, callVars
  <2>2. Types'
    BY <2>1 DEF SInv, Types
  <2>3. SeenHasElement' /\ GrowsWithLines' /\ LineIsOnline' /\ StartsAtFirst'
    BY <2>1 DEF SInv, SeenHasElement, GrowsWithLines, LineIsOnline, StartsAtFirst
  <2>4. UsageIsOfInterval' /\ ErrorIsUnknownCore'
    BY <2>1 DEF SInv, UsageIsOfInterval, UsageIsPercent, ReferenceIsLastReading,
                ErrorIsUnknownCore
  <2>5. QED
    BY <2>1, <2>2, <2>3, <2>4 DEF SInv
<1>3. QED
  BY <1>1, <1>2, HotplugStep, ConstructStep, ContinueStep DEF Next

LEMMA AlwaysSystem == MCSpec => []SInv
<1>1. MCInit => SInv
  BY InitSystem DEF MCInit
<1>2. SInv /\ [MCNext]_<<subject, vars, networkVars>> => SInv'
  BY SystemStep DEF MCNext
<1>3. QED
  BY <1>1, <1>2, PTL DEF MCSpec
-----------------------------------------------------------------------------
(* network_counters.                                                       *)

\* What the additions need to know of the variables, and what the constructor
\* has read when it is finished.
Numbers ==
  /\ now \in Int /\ checkpoint \in Int /\ measured \in Int
  /\ sample \in [Network!Way -> Int] /\ read \in [Network!Way -> Int]
  /\ counted \in [Network!Way -> Int]
  /\ first # None => first.bytes \in [Network!Way -> Int] /\ first.at \in Int

TrafficInv == Numbers /\ Network!SpeedsAddUp

LEMMA WayHas == "rx" \in Network!Way /\ "tx" \in Network!Way
  BY DEF Network!Way

LEMMA InitSums == Network!Init => TrafficInv
  BY DEF Network!Init, TrafficInv, Numbers, Network!SpeedsAddUp, Network!Zero, Network!Epoch

\* Only a finished constructor, one that failed and a sample touch the sums.
LEMMA StepSums ==
  ASSUME MaxBytes \in Nat, TrafficInv, [Network!Next]_networkVars
  PROVE  TrafficInv'
<1> USE DEF TrafficInv, Numbers, Network!SpeedsAddUp
<1>1. CASE Network!Tick
  BY <1>1 DEF Network!Tick, Network!dataVars, Network!callVars, Network!historyVars
<1>2. CASE \/ Network!SetInterface \/ Network!Query
           \/ Network!QueryNothing \/ Network!QueryThroughNull
  BY <1>2 DEF Network!SetInterface, Network!Query, Network!QueryNothing,
              Network!QueryThroughNull,
              Network!dataVars, Network!callVars, Network!historyVars
<1>3. CASE Network!ReadRx \/ Network!ReadTx
  BY <1>3, WayHas DEF Network!ReadRx, Network!ReadTx, Network!dataVars, Network!historyVars
<1>4. CASE Network!ReadThrows \/ Network!ReadFails \/ Network!SampleTooEarly
  BY <1>4 DEF Network!ReadThrows, Network!ReadFails, Network!SampleTooEarly, Network!dataVars,
              Network!callVars, Network!historyVars
<1>5. CASE Network!Constructed
  BY <1>5 DEF Network!Constructed, Network!NewData, Network!Zero, Network!callVars
<1>6. CASE Network!ConstructFails
  BY <1>6, WayHas DEF Network!ConstructFails, Network!NewData, Network!Zero, Network!Way,
                      Network!Epoch
<1>7. CASE Network!Sample
  <2>1. /\ sample' = read
        /\ counted' = [w \in Network!Way |-> counted[w] + (read[w] - sample[w])]
        /\ UNCHANGED <<read, first>>
    BY <1>7 DEF Network!Sample, Network!TakeSample
  <2>2. /\ checkpoint' = now
        /\ measured' = measured + (now - checkpoint)
        /\ UNCHANGED <<now, first>>
    BY <1>7, WayHas DEF Network!Sample, Network!TakeSample
  <2>3. Numbers'
    BY <2>1, <2>2
  <2>4. ASSUME first # None, NEW w \in Network!Way
        PROVE  counted'[w] = sample'[w] - first.bytes[w]
    BY <2>1, <2>4
  <2>5. ASSUME first # None
        PROVE  measured' = checkpoint' - first.at
    <3>1. /\ measured = checkpoint - first.at
          /\ first.at \in Int /\ now \in Int /\ checkpoint \in Int
      BY <2>5
    <3>2. QED
      BY <2>2, <3>1
  <2>6. Network!SpeedsAddUp'
    BY <2>1, <2>4, <2>5
  <2>7. QED
    BY <2>3, <2>6
<1>8. CASE UNCHANGED networkVars
  BY <1>8 DEF networkVars
<1>9. QED
  BY <1>1, <1>2, <1>3, <1>4, <1>5, <1>6, <1>7, <1>8 DEF Network!Next

\* Whether a maximum is 0 is seen by the time that was measured, which never
\* falls below 0.
Speeds ==
  /\ speed \in [Network!Way -> Int \X Int] /\ speedMax \in [Network!Way -> Int \X Int]
  /\ measured \in Nat

SpeedInv == Network!TypeOK /\ Speeds /\ Network!MaxIsOfInterface

\* The faster of two speeds is one of them, and no slower than either.
LEMMA FastestIsMaximal ==
  ASSUME NEW v \in Int \X Int, NEW w \in Int \X Int
  PROVE  Network!Fastest(v, w) \in {v, w} /\ ~Network!Faster(w, Network!Fastest(v, w))
<1>1. w[1] * w[2] \in Int
  OBVIOUS
<1>2. ~Network!Faster(w, w)
  BY <1>1 DEF Network!Faster
<1>3. QED
  BY <1>2 DEF Network!Fastest

\* The members of a new provider have nothing above the maximum.
LEMMA NewSpeeds ==
  ASSUME MaxMillis \in Nat \ {0}, Network!NewData
  PROVE  /\ Speeds' /\ Network!MaxIsOfInterface'
         /\ \A w \in Network!Way : speed'[w][2] \in 1..MaxMillis /\ speedMax'[w][2] \in 1..MaxMillis
<1>1. /\ speed' = [w \in Network!Way |-> <<0, 1>>] /\ speedMax' = [w \in Network!Way |-> <<0, 1>>]
      /\ measured' = 0
  BY DEF Network!NewData
<1>2. ~Network!Faster(<<0, 1>>, <<0, 1>>)
  BY DEF Network!Faster
<1>3. QED
  BY <1>1, <1>2 DEF Speeds, Network!MaxIsOfInterface

LEMMA InitSpeeds ==
  ASSUME MaxBytes \in Nat, MaxMillis \in Nat \ {0}, Network!Init
  PROVE  SpeedInv
<1>1. Network!TypeOK
  <2>1. now \in 1..MaxMillis /\ checkpoint \in 0..now
    BY DEF Network!Init, Network!Epoch
  <2>2. sample \in [Network!Way -> -1..MaxBytes] /\ read \in [Network!Way -> 0..MaxBytes]
    BY DEF Network!Init, Network!Zero
  <2>3. \A w \in Network!Way : speed[w][2] \in 1..MaxMillis /\ speedMax[w][2] \in 1..MaxMillis
    BY DEF Network!Init
  <2>4. QED
    BY <2>1, <2>2, <2>3 DEF Network!Init, Network!TypeOK
<1>2. ~Network!Faster(<<0, 1>>, <<0, 1>>)
  BY DEF Network!Faster
<1>3. Speeds /\ Network!MaxIsOfInterface
  BY <1>2 DEF Network!Init, Speeds, Network!MaxIsOfInterface
<1>4. QED
  BY <1>1, <1>3 DEF SpeedInv

LEMMA StepSpeeds ==
  ASSUME MaxBytes \in Nat, MaxMillis \in Nat \ {0}, SpeedInv, [Network!Next]_networkVars
  PROVE  SpeedInv'
<1> USE DEF SpeedInv
<1>1. ASSUME UNCHANGED <<speed, speedMax, measured>>
      PROVE  Speeds' /\ Network!MaxIsOfInterface'
  BY <1>1 DEF Speeds, Network!MaxIsOfInterface
<1>2. CASE Network!Tick
  <2>1. Network!TypeOK'
    BY <1>2 DEF Network!Tick, Network!dataVars, Network!callVars, Network!TypeOK
  <2>2. QED
    BY <1>1, <1>2, <2>1 DEF Network!Tick, Network!dataVars, Network!historyVars
<1>3. CASE \/ Network!SetInterface \/ Network!Query
           \/ Network!QueryNothing \/ Network!QueryThroughNull
  <2>1. Network!TypeOK'
    BY <1>3 DEF Network!SetInterface, Network!Query, Network!QueryNothing,
                Network!QueryThroughNull, Network!dataVars, Network!callVars, Network!TypeOK
  <2>2. QED
    BY <1>1, <1>3, <2>1 DEF Network!SetInterface, Network!Query, Network!QueryNothing,
                            Network!QueryThroughNull,
                            Network!dataVars, Network!historyVars
<1>4. CASE Network!ReadRx \/ Network!ReadTx
  <2>1. Network!TypeOK'
    BY <1>4, WayHas DEF Network!ReadRx, Network!ReadTx, Network!dataVars, Network!TypeOK
  <2>2. QED
    BY <1>1, <1>4, <2>1 DEF Network!ReadRx, Network!ReadTx, Network!dataVars,
                            Network!historyVars
<1>5. CASE Network!ReadThrows \/ Network!ReadFails \/ Network!SampleTooEarly
  <2>1. Network!TypeOK'
    BY <1>5 DEF Network!ReadThrows, Network!ReadFails, Network!SampleTooEarly,
                Network!dataVars, Network!callVars, Network!TypeOK
  <2>2. QED
    BY <1>1, <1>5, <2>1 DEF Network!ReadThrows, Network!ReadFails, Network!SampleTooEarly,
                            Network!dataVars, Network!historyVars
<1>6. CASE Network!Constructed
  <2>1. Network!NewData
    BY <1>6 DEF Network!Constructed
  <2>2. Network!TypeOK'
    BY <1>6, <2>1, NewSpeeds DEF Network!Constructed, Network!callVars, Network!TypeOK
  <2>3. QED
    BY <2>1, <2>2, NewSpeeds
<1>7. CASE Network!ConstructFails
  <2>1. Network!NewData
    BY <1>7 DEF Network!ConstructFails
  <2>2. sample' \in [Network!Way -> -1..MaxBytes]
    BY <1>7, WayHas DEF Network!ConstructFails, Network!Zero, Network!Way, Network!TypeOK
  <2>3. Network!TypeOK'
    BY <1>7, <2>1, <2>2, NewSpeeds DEF Network!ConstructFails, Network!Epoch, Network!TypeOK
  <2>4. QED
    BY <2>1, <2>3, NewSpeeds
<1>8. CASE Network!Sample
  <2>1. /\ checkpoint < now /\ checkpoint' = now /\ sample' = read
        /\ speed' = [w \in Network!Way |-> <<read[w] - sample[w], now - checkpoint>>]
        /\ speedMax' = [w \in Network!Way |-> Network!Fastest(speedMax[w], speed'[w])]
        /\ measured' = measured + speed'["rx"][2]
        /\ answer' = "whole" /\ npc' = "idle"
        /\ UNCHANGED <<now, given, place, nerr, read>>
    BY <1>8 DEF Network!Sample, Network!TakeSample, Network!TypeOK
  <2>2. now - checkpoint \in 1..MaxMillis
    BY <2>1 DEF Network!TypeOK
  <2>3. \A w \in Network!Way : read[w] - sample[w] \in Int
    BY DEF Network!TypeOK
  <2>4. /\ speed' \in [Network!Way -> Int \X Int]
        /\ \A w \in Network!Way : speed'[w][2] = now - checkpoint
    BY <2>1, <2>2, <2>3
  <2>5. \A w \in Network!Way : /\ speedMax'[w] \in {speedMax[w], speed'[w]}
                       /\ ~Network!Faster(speed'[w], speedMax'[w])
    BY <2>1, <2>4, FastestIsMaximal DEF Speeds
  <2>6. speedMax' \in [Network!Way -> Int \X Int]
    BY <2>1, <2>4, <2>5 DEF Speeds
  <2>7. measured' \in Nat /\ measured' # 0
    BY <2>1, <2>2, <2>4, WayHas DEF Speeds
  <2>8. Network!TypeOK'
    <3>1. \A w \in Network!Way : speed'[w][2] \in 1..MaxMillis /\ speedMax'[w][2] \in 1..MaxMillis
      BY <2>2, <2>4, <2>5 DEF Network!TypeOK
    <3>2. sample' \in [Network!Way -> -1..MaxBytes]
      BY <2>1 DEF Network!TypeOK
    <3>3. QED
      BY <2>1, <3>1, <3>2 DEF Network!TypeOK
  <2>9. QED
    BY <2>4, <2>5, <2>6, <2>7, <2>8 DEF Speeds, Network!MaxIsOfInterface
<1>9. CASE UNCHANGED networkVars
  <2>1. Network!TypeOK'
    BY <1>9 DEF networkVars, Network!TypeOK
  <2>2. QED
    BY <1>1, <1>9, <2>1 DEF networkVars
<1>10. QED
  BY <1>2, <1>3, <1>4, <1>5, <1>6, <1>7, <1>8, <1>9 DEF Network!Next

LEMMA AlwaysNetwork == MCSpec => [](TrafficInv /\ SpeedInv)
<1> USE NetworkAssumption
<1>1. MCInit => TrafficInv /\ SpeedInv
  BY InitSums, InitSpeeds DEF MCInit
<1>2. TrafficInv /\ SpeedInv /\ [MCNext]_<<subject, vars, networkVars>> => TrafficInv' /\ SpeedInv'
  <2>1. [MCNext]_<<subject, vars, networkVars>> => [Network!Next]_networkVars
    BY DEF MCNext
  <2>2. QED
    BY <2>1, StepSums, StepSpeeds
<1>3. QED
  BY <1>1, <1>2, PTL DEF MCSpec
-----------------------------------------------------------------------------
\* Every variable of both keeps its type, the vector of recent data has no gaps,
\* and has an element for each line it was compared with.
THEOREM TypesCorrect == MCSpec => []TypesOK
<1> USE CountersAssumption, NetworkAssumption
<1>1. SInv => TypeOK
  <2>1. ASSUME SInv, NEW n \in 0..(MaxIndex + 1), recent \in [0..(n - 1) -> Element]
        PROVE  DOMAIN recent = 0..(Cardinality(DOMAIN recent) - 1)
    <3>1. DOMAIN recent = 0..(n - 1)
      BY <2>1
    <3>2. Cardinality(0..(n - 1)) = n
      <4>1. 0 \in Int /\ n - 1 \in Int
        OBVIOUS
      <4>2. Cardinality(0..(n - 1)) = IF 0 > n - 1 THEN 0 ELSE (n - 1) - 0 + 1
        BY <4>1, FS_Interval
      <4>3. QED
        BY <4>2
    <3>3. QED
      BY <3>1, <3>2
  <2>2. SInv => DOMAIN recent = 0..(Cardinality(DOMAIN recent) - 1)
    BY <2>1 DEF SInv, Types
  <2>3. SInv => \A i \in DOMAIN recent : recent[i] \in Reading \cup {NoTicks}
    BY DEF SInv, Types, Element
  <2>4. QED
    BY <2>2, <2>3 DEF SInv, Types, SeenHasElement, TypeOK
<1>2. SpeedInv => Network!TypeOK
  BY DEF SpeedInv
<1>3. QED
  BY <1>1, <1>2, AlwaysSystem, AlwaysNetwork, PTL DEF TypesOK

\* A usage is a percentage, and of the interval since the last reading of its
\* line, for any readings: whatever wraps, is reset or skipped, whichever calls
\* fail or throw (proc_stat_provider.cpp:162-200, times_provider.cpp:185-232).
THEOREM UsageOfInterval == MCSpec => []UsageIsOfInterval
<1>1. SInv => UsageIsOfInterval
  BY DEF SInv
<1>2. QED
  BY <1>1, AlwaysSystem, PTL

\* A query of a healthy system fails only for a core whose index is higher than
\* that of any line the constructor has read (proc_stat_provider.cpp:172).
THEOREM ErrorsHaveCause == MCSpec => []ErrorHasCause
<1>1. SInv => ErrorHasCause
  <2>1. ASSUME SInv, err, faults = 0, pc # "idle"
        PROVE  \E i \in online : \A j \in Index : seen[j] # None => j < i
    <3>1. PICK i \in online : i \notin DOMAIN recent
      BY <2>1 DEF SInv, ErrorIsUnknownCore
    <3>2. PICK n \in 0..(MaxIndex + 1) : recent \in [0..(n - 1) -> Element]
      BY <2>1 DEF SInv, Types
    <3>3. i \in Nat /\ n \in Nat /\ n <= i
      BY <2>1, <3>1, <3>2, CountersAssumption DEF SInv, Types, Index
    <3>4. ASSUME NEW j \in Index, seen[j] # None PROVE j < i
      <4>1. j \in 0..(n - 1)
        BY <2>1, <3>2, <3>4 DEF SInv, SeenHasElement
      <4>2. QED
        BY <3>3, <4>1
    <3>5. QED
      BY <3>4
  <2>2. QED
    BY <2>1 DEF ErrorHasCause
<1>2. QED
  BY <1>1, AlwaysSystem, PTL

\* The speeds of the interface that is set account for its traffic, once, and
\* none is above its maximum.
THEOREM TrafficCounted == MCSpec => []TrafficIsCounted
<1>1. TrafficInv /\ SpeedInv => TrafficIsCounted
  BY DEF TrafficInv, SpeedInv, TrafficIsCounted
<1>2. QED
  BY <1>1, AlwaysNetwork, PTL
-----------------------------------------------------------------------------
(* The readers of /proc and os-release (ProcText), for any set of texts.    *)


LEMMA LeastOf == ASSUME NEW I \in SUBSET Nat, I # {} PROVE \E x \in I : \A y \in I : x <= y
<1> DEFINE T == {1..x : x \in I}
           R == StrictSubsetOrdering(Nat)
<1>1. T \subseteq FiniteSubsetsOf(Nat) /\ T # {}
  <2>1. ASSUME NEW x \in I PROVE 1..x \in FiniteSubsetsOf(Nat)
    <3>1. IsFiniteSet(1..x)
      BY FS_Interval
    <3>2. QED
      BY <3>1 DEF FiniteSubsetsOf
  <2>2. QED
    BY <2>1
<1>2. IsWellFoundedOn(R, FiniteSubsetsOf(Nat))
  BY FS_StrictSubsetOrderingWellFounded
<1>3. \E t \in T : \A u \in T : ~(<<u, t>> \in R)
  <2> HIDE DEF T, R
  <2>1. QED
    BY <1>1, <1>2, WFMin
<1>4. PICK x \in I : \A y \in I : ~(<<1..y, 1..x>> \in R)
  BY <1>3
<1>5. ASSUME NEW y \in I, y < x PROVE FALSE
  <2>1. /\ x \in 1..x /\ x \notin 1..y /\ 1..y \subseteq 1..x
        /\ 1..y \in SUBSET Nat /\ 1..x \in SUBSET Nat
    BY <1>5
  <2>2. <<1..y, 1..x>> \in R
    BY <2>1 DEF StrictSubsetOrdering
  <2>3. QED
    BY <1>4, <2>2
<1>6. QED
  BY <1>5

\* A text, and its end.
IsText == text \in Seq(Reader!Lexeme)

LEMMA EndOfText ==
  ASSUME IsText
  PROVE  /\ Len(text) \in Nat /\ Reader!End = Len(text) + 1 /\ Reader!End \in Nat \ {0}
         /\ Reader!Fail = 0 /\ Reader!Fail \in Reader!Position
         /\ Reader!Position = 0..Reader!End
         /\ \A i : Reader!Inside(i) <=> i \in 1..Len(text)
         /\ \A i \in 1..Len(text) : text[i] \in Reader!Lexeme
BY DEF IsText, Reader!End, Reader!Fail, Reader!Position, Reader!Inside

\* Skip() stops at the first lexeme outside of C, or at the end.
LEMMA SkipFacts ==
  ASSUME IsText, NEW i \in Reader!Position, NEW C
  PROVE  /\ Reader!Skip(i, C) \in i..Reader!End
         /\ ~Reader!At(Reader!Skip(i, C), C)
         /\ \A k \in i..(Reader!Skip(i, C) - 1) : Reader!At(k, C)
<1> DEFINE e == Reader!End
           J == {j \in i..e : ~Reader!At(j, C)}
           Stop(j) == ~Reader!At(j, C) /\ \A k \in i..(j - 1) : Reader!At(k, C)
<1>1. e \in Nat /\ i \in 0..e /\ ~Reader!At(e, C)
  BY EndOfText DEF Reader!At
<1>2. PICK j \in J : \A k \in J : j <= k
  <2>1. J \in SUBSET Nat /\ J # {}
    BY <1>1
  <2> HIDE DEF J
  <2>2. QED
    BY <2>1, LeastOf
<1>3. j \in i..e /\ Stop(j)
  <2>1. ASSUME NEW k \in i..(j - 1) PROVE Reader!At(k, C)
    <3>1. k \in i..e /\ ~(j <= k)
      BY <1>1, <1>2
    <3>2. QED
      BY <1>2, <3>1
  <2>2. QED
    BY <1>2, <2>1
<1>4. Reader!Skip(i, C) = CHOOSE k \in i..e : Stop(k)
  BY DEF Reader!Skip
<1> HIDE DEF Stop
<1>5. Reader!Skip(i, C) \in i..e /\ Stop(Reader!Skip(i, C))
  BY <1>3, <1>4
<1>6. QED
  BY <1>5 DEF Stop

\* It is at the same place from everywhere before it.
LEMMA SkipIs ==
  ASSUME IsText, NEW i \in Reader!Position, NEW C, NEW j \in i..Reader!End,
         ~Reader!At(j, C), \A k \in i..(j - 1) : Reader!At(k, C)
  PROVE  Reader!Skip(i, C) = j
<1> DEFINE s == Reader!Skip(i, C)
<1>1. s \in i..Reader!End /\ ~Reader!At(s, C) /\ \A k \in i..(s - 1) : Reader!At(k, C)
  BY SkipFacts
<1> HIDE DEF s
<1>2. i \in Int /\ j \in Int /\ s \in Int
  BY <1>1, EndOfText
<1>3. ~(s < j)
  BY <1>1, <1>2
<1>4. ~(j < s)
  BY <1>1, <1>2
<1>5. QED
  BY <1>2, <1>3, <1>4 DEF s

\* From i to j there are lexemes of C, and nothing else.
Run(i, j, C) == j \in i..Reader!End /\ \A k \in i..(j - 1) : text[k] \in C

LEMMA SkipRuns ==
  ASSUME IsText, NEW i \in 1..Len(text), NEW C
  PROVE  /\ Run(i, Reader!Skip(i, C), C) /\ ~Reader!At(Reader!Skip(i, C), C)
         /\ Reader!Skip(i, C) \in Reader!Position
         /\ text[i] \in C => Reader!Skip(i, C) # i
<1>1. i \in Reader!Position /\ Reader!End \in Nat
  BY EndOfText
<1>2. /\ Reader!Skip(i, C) \in i..Reader!End /\ ~Reader!At(Reader!Skip(i, C), C)
      /\ \A k \in i..(Reader!Skip(i, C) - 1) : Reader!At(k, C)
  BY <1>1, SkipFacts
<1> HIDE DEF Reader!Skip
<1>3. Reader!Skip(i, C) \in Reader!Position
  BY <1>1, <1>2, EndOfText
<1>4. text[i] \in C => Reader!At(i, C)
  BY EndOfText DEF Reader!At
<1>5. QED
  BY <1>2, <1>3, <1>4 DEF Run, Reader!At

\* The functions of the parser: what a position that is not Fail says of the text.
LEMMA WordFacts ==
  ASSUME IsText, NEW i \in Reader!Position
  PROVE  /\ Reader!Word[i] \in Reader!Position
         /\ Reader!Word[i] # Reader!Fail =>
              /\ i \in 1..Len(text) /\ text[i] \in Reader!Alpha
              /\ Run(i, Reader!Word[i], Reader!Alnum) /\ Reader!Word[i] # i
              /\ ~Reader!At(Reader!Word[i], Reader!Alnum)
<1>1. Reader!Word[i] = IF Reader!At(i, Reader!Alpha) THEN Reader!Skip(i, Reader!Alnum)
                                                      ELSE Reader!Fail
  BY DEF Reader!Word
<1>2. Reader!At(i, Reader!Alpha) => /\ i \in 1..Len(text) /\ text[i] \in Reader!Alpha
                                    /\ text[i] \in Reader!Alnum
  BY EndOfText DEF Reader!At, Reader!Alnum
<1>3. QED
  BY <1>1, <1>2, SkipRuns, EndOfText

LEMMA Ws0nFacts ==
  ASSUME IsText, NEW i \in Reader!Position
  PROVE  /\ Reader!Ws0n[i] \in Reader!Position
         /\ Reader!Ws0n[i] # Reader!Fail =>
              /\ i \in 1..Len(text) /\ Run(i, Reader!Ws0n[i], {"ws"})
              /\ ~Reader!At(Reader!Ws0n[i], {"ws"})
<1>1. Reader!Ws0n[i] = IF Reader!Inside(i) THEN Reader!Skip(i, {"ws"}) ELSE Reader!Fail
  BY DEF Reader!Ws0n
<1>2. QED
  BY <1>1, SkipRuns, EndOfText

LEMMA SeparatorFacts ==
  ASSUME IsText, NEW i \in Reader!Position
  PROVE  /\ Reader!Separator[i] \in Reader!Position
         /\ Reader!Separator[i] # Reader!Fail =>
              i \in 1..Len(text) /\ text[i] = "sep" /\ Reader!Separator[i] = i + 1
<1>1. Reader!Separator[i] = IF Reader!At(i, {"sep"}) THEN i + 1 ELSE Reader!Fail
  BY DEF Reader!Separator
<1>2. QED
  BY <1>1, EndOfText DEF Reader!At

LEMMA Nl1nFacts ==
  ASSUME IsText, NEW i \in Reader!Position
  PROVE  /\ Reader!Nl1n[i] \in Reader!Position
         /\ Reader!Nl1n[i] # Reader!Fail =>
              i \in 1..Len(text) /\ Run(i, Reader!Nl1n[i], {"nl"}) /\ Reader!Nl1n[i] # i
         /\ Reader!Nl1n[i] = Reader!Fail => i \in {Reader!Fail, Reader!End} \/ text[i] # "nl"
<1>1. Reader!Nl1n[i] = IF Reader!At(i, {"nl"}) THEN Reader!Skip(i, {"nl"}) ELSE Reader!Fail
  BY DEF Reader!Nl1n
<1>2. Reader!At(i, {"nl"}) <=> i \in 1..Len(text) /\ text[i] = "nl"
  BY EndOfText DEF Reader!At
<1>3. i \in 1..Len(text) \/ i \in {Reader!Fail, Reader!End}
  BY EndOfText
<1>4. ASSUME Reader!At(i, {"nl"})
      PROVE  /\ Run(i, Reader!Skip(i, {"nl"}), {"nl"}) /\ Reader!Skip(i, {"nl"}) # i
             /\ Reader!Skip(i, {"nl"}) \in Reader!Position /\ Reader!Skip(i, {"nl"}) # Reader!Fail
  <2>1. /\ Run(i, Reader!Skip(i, {"nl"}), {"nl"}) /\ Reader!Skip(i, {"nl"}) # i
        /\ Reader!Skip(i, {"nl"}) \in Reader!Position
    BY <1>2, <1>4, SkipRuns
  <2>2. QED
    BY <1>2, <1>4, <2>1, EndOfText DEF Run
<1>5. QED
  BY <1>1, <1>2, <1>3, <1>4, EndOfText

LEMMA NlOrEndFacts ==
  ASSUME IsText, NEW i \in Reader!Position
  PROVE  /\ Reader!NlOrEnd[i] \in Reader!Position
         /\ Reader!NlOrEnd[i] # Reader!Fail =>
              \/ i = Reader!End /\ Reader!NlOrEnd[i] = i
              \/ i \in 1..Len(text) /\ text[i] = "nl" /\ Reader!NlOrEnd[i] = i + 1
<1>1. Reader!NlOrEnd[i] = IF i = Reader!End THEN Reader!End
                          ELSE IF Reader!At(i, {"nl"}) THEN i + 1 ELSE Reader!Fail
  BY DEF Reader!NlOrEnd
<1>2. QED
  BY <1>1, EndOfText DEF Reader!At

LEMMA TokenFacts ==
  ASSUME IsText, NEW i \in Reader!Position
  PROVE  /\ Reader!Token[i] \in Reader!Position
         /\ Reader!Token[i] # Reader!Fail =>
              /\ i \in 1..Len(text) /\ Run(i, Reader!Token[i], Reader!Alnum)
              /\ Reader!Token[i] # Reader!End /\ ~Reader!At(Reader!Token[i], Reader!Alnum)
         /\ Reader!Token[i] = Reader!Fail =>
              i \in {Reader!Fail, Reader!End} \/ Reader!Skip(i, Reader!Alnum) = Reader!End
<1>1. Reader!Token[i] = IF Reader!Inside(i) /\ Reader!Skip(i, Reader!Alnum) # Reader!End
                        THEN Reader!Skip(i, Reader!Alnum) ELSE Reader!Fail
  BY DEF Reader!Token
<1>2. i \in 1..Len(text) \/ i \in {Reader!Fail, Reader!End}
  BY EndOfText
<1>3. ASSUME i \in 1..Len(text)
      PROVE  /\ Run(i, Reader!Skip(i, Reader!Alnum), Reader!Alnum)
             /\ ~Reader!At(Reader!Skip(i, Reader!Alnum), Reader!Alnum)
             /\ Reader!Skip(i, Reader!Alnum) \in Reader!Position
             /\ Reader!Skip(i, Reader!Alnum) # Reader!Fail
  <2>1. /\ Run(i, Reader!Skip(i, Reader!Alnum), Reader!Alnum)
        /\ ~Reader!At(Reader!Skip(i, Reader!Alnum), Reader!Alnum)
        /\ Reader!Skip(i, Reader!Alnum) \in Reader!Position
    BY <1>3, SkipRuns
  <2>2. QED
    BY <1>3, <2>1, EndOfText DEF Run
<1>4. QED
  BY <1>1, <1>2, <1>3, EndOfText

LEMMA DigitsFacts ==
  ASSUME IsText, NEW i \in Reader!Position
  PROVE  /\ Reader!Digits[i] \in Reader!Position
         /\ Reader!Digits[i] # Reader!Fail =>
              i \in 1..Len(text) /\ Run(i, Reader!Digits[i], {"num"})
<1>1. Reader!Digits[i] = IF Reader!At(i, {"num"}) THEN Reader!Skip(i, {"num"}) ELSE Reader!Fail
  BY DEF Reader!Digits
<1>2. QED
  BY <1>1, SkipRuns, EndOfText DEF Reader!At

\* It hands a failure on, but has none of its own.
LEMMA UnitsFacts ==
  ASSUME IsText, NEW i \in Reader!Position
  PROVE  /\ Reader!Units[i] \in Reader!Position
         /\ Reader!Units[i] # Reader!Fail =>
              i # Reader!Fail /\ Run(i, Reader!Units[i], Reader!Alnum)
<1>1. Reader!Units[i] = IF Reader!Word[i] = Reader!Fail THEN i ELSE Reader!Word[i]
  BY DEF Reader!Units
<1>2. Run(i, i, Reader!Alnum)
  BY EndOfText DEF Run
<1>3. QED
  BY <1>1, <1>2, WordFacts, EndOfText

LEMMA UntilNlFacts ==
  ASSUME IsText, NEW i \in Reader!Position
  PROVE  /\ Reader!UntilNl[i] \in Reader!Position
         /\ Reader!UntilNl[i] # Reader!Fail =>
              /\ i \in 1..Len(text) /\ Run(i, Reader!UntilNl[i], Reader!Lexeme \ {"nl"})
              /\ Reader!UntilNl[i] = Reader!End \/ text[Reader!UntilNl[i]] = "nl"
         /\ i \in 1..Len(text) => Reader!UntilNl[i] # Reader!Fail
<1> DEFINE C == Reader!Lexeme \ {"nl"}
           s == Reader!Skip(i, C)
<1>1. Reader!UntilNl[i] = IF Reader!Inside(i) THEN s ELSE Reader!Fail
  BY DEF Reader!UntilNl
<1>2. ASSUME i \in 1..Len(text)
      PROVE  /\ Run(i, s, C) /\ s \in Reader!Position /\ s # Reader!Fail
             /\ s = Reader!End \/ text[s] = "nl"
  <2>1. Run(i, s, C) /\ ~Reader!At(s, C) /\ s \in Reader!Position
    BY <1>2, SkipRuns
  <2> HIDE DEF s, C
  <2>2. s \in i..Reader!End
    BY <2>1 DEF Run
  <2>3. s # Reader!Fail /\ (s = Reader!End \/ s \in 1..Len(text))
    BY <1>2, <2>2, EndOfText
  <2>4. s \in 1..Len(text) => text[s] = "nl"
    BY <2>1, EndOfText DEF Reader!At, C
  <2>5. QED
    BY <2>1, <2>3, <2>4
<1> HIDE DEF s
<1>3. QED
  BY <1>1, <1>2, EndOfText
-----------------------------------------------------------------------------
\* f has a sequence for each position: nothing, or behind those in G a head and the
\* sequence of the position it leads to.
IsChain(f, N, G, to, head, S) ==
  /\ f \in [0..N -> Seq(S)]
  /\ \A i \in 0..N : f[i] = IF i \in G THEN <<head[i]>> \o f[to[i]] ELSE <<>>

\* It exists if the way leads on: the last position that had none would get one
\* from the position it leads to.
LEMMA ChainExists ==
  ASSUME NEW N \in Nat, NEW G \in SUBSET (0..N), NEW to, NEW head, NEW S,
         \A i \in G : to[i] \in (i + 1)..N /\ head[i] \in S
  PROVE  \E f : IsChain(f, N, G, to, head, S)
<1> DEFINE Link(f, i) == IF i \in G THEN <<head[i]>> \o f[to[i]] ELSE <<>>
           Exists(m) == \E f \in [(N - m)..N -> Seq(S)] :
                          \A i \in (N - m)..N : f[i] = Link(f, i)
           I == {m \in 0..N : ~Exists(m)}
<1>1. ASSUME I # {} PROVE FALSE
  <2>1. PICK m \in I : \A k \in I : m <= k
    <3>1. I \in SUBSET Nat
      OBVIOUS
    <3> HIDE DEF I
    <3>2. QED
      BY <1>1, <3>1, LeastOf
  <2>2. m \in 0..N /\ ~Exists(m)
    BY <2>1
  <2>3. CASE m = 0
    <3> DEFINE f == [i \in (N - m)..N |-> <<>>]
    <3>1. \A i \in (N - m)..N : i \notin G
      BY <2>3
    <3>2. f \in [(N - m)..N -> Seq(S)] /\ \A i \in (N - m)..N : f[i] = Link(f, i)
      BY <3>1
    <3>3. QED
      BY <2>2, <3>2
  <2>4. CASE m # 0
    <3>1. m - 1 \in 0..N /\ ~(m <= m - 1)
      BY <2>2, <2>4
    <3>2. Exists(m - 1)
      BY <2>1, <3>1
    <3>3. PICK f \in [(N - (m - 1))..N -> Seq(S)] :
            \A i \in (N - (m - 1))..N : f[i] = Link(f, i)
      BY <3>2
    <3> DEFINE g == [i \in (N - m)..N |-> IF i = N - m THEN Link(f, i) ELSE f[i]]
    <3>4. ASSUME NEW i \in (N - m)..N
          PROVE  /\ i \in 0..N /\ (i # N - m => i \in (N - (m - 1))..N)
                 /\ i \in G => /\ to[i] \in (N - (m - 1))..N /\ to[i] \in (N - m)..N
                               /\ to[i] # N - m /\ head[i] \in S
      <4>1. m \in Int /\ N \in Int /\ i \in Int /\ 0 <= m /\ m <= N /\ N - m <= i /\ i <= N
        BY <2>2
      <4>2. i \in 0..N /\ (i # N - m => i \in (N - (m - 1))..N)
        BY <4>1
      <4>3. i \in G => to[i] \in (i + 1)..N /\ head[i] \in S
        OBVIOUS
      <4>4. QED
        BY <4>1, <4>2, <4>3
    <3>5. ASSUME NEW i \in (N - m)..N PROVE g[i] = Link(f, i) /\ g[i] \in Seq(S)
      <4>1. CASE i = N - m
        <5>1. i \in G => f[to[i]] \in Seq(S) /\ <<head[i]>> \in Seq(S)
          BY <3>3, <3>4
        <5>2. Link(f, i) \in Seq(S)
          BY <5>1
        <5>3. QED
          BY <4>1, <5>2
      <4>2. CASE i # N - m
        BY <3>3, <3>4, <4>2
      <4>3. QED
        BY <4>1, <4>2
    <3>6. ASSUME NEW i \in (N - m)..N PROVE Link(f, i) = Link(g, i)
      BY <3>4
    <3>7. g \in [(N - m)..N -> Seq(S)]
      BY <3>5
    <3> HIDE DEF g, Link
    <3>8. Exists(m)
      BY <3>5, <3>6, <3>7
    <3>9. QED
      BY <2>2, <3>8
  <2>5. QED
    BY <2>3, <2>4
<1>2. Exists(N)
  <2>1. N \in 0..N
    OBVIOUS
  <2> HIDE DEF Exists
  <2>2. QED
    BY <1>1, <2>1
<1>3. N - N = 0
  OBVIOUS
<1>4. QED
  BY <1>2, <1>3 DEF IsChain

\* A value follows at i.
Follows(i) == Reader!At(i, {"ws"}) /\ Reader!Token[Reader!Skip(i, {"ws"})] # Reader!Fail

LEMMA FollowsFacts ==
  ASSUME IsText, NEW i \in Reader!Position, Follows(i),
         NEW from, from = Reader!Skip(i, {"ws"}), NEW to, to = Reader!Token[from]
  PROVE  /\ i \in 1..Len(text) /\ from \in 1..Len(text) /\ to \in (i + 1)..Len(text)
         /\ Run(i, from, {"ws"}) /\ Run(from, to, Reader!Alnum) /\ ~Reader!At(to, Reader!Alnum)
<1>1. i \in 1..Len(text) /\ text[i] = "ws"
  BY EndOfText DEF Follows, Reader!At
<1>2. Run(i, from, {"ws"}) /\ from \in Reader!Position /\ from # i
  BY <1>1, SkipRuns
<1>3. /\ from \in 1..Len(text) /\ Run(from, to, Reader!Alnum)
      /\ to # Reader!End /\ ~Reader!At(to, Reader!Alnum)
  BY <1>2, TokenFacts DEF Follows
<1>4. to \in (i + 1)..Len(text)
  <2>1. from \in i..Reader!End /\ to \in from..Reader!End
    BY <1>2, <1>3 DEF Run
  <2>2. Len(text) \in Nat /\ Reader!End = Len(text) + 1
    BY EndOfText
  <2>3. QED
    BY <1>1, <1>2, <1>3, <2>1, <2>2
<1>5. QED
  BY <1>1, <1>2, <1>3, <1>4

\* StatValues is the recursion it is written as.
LEMMA StatValuesDef ==
  ASSUME IsText, NEW i \in Reader!Position
  PROVE  Reader!StatValues[i] =
           IF Follows(i)
           THEN <<<<Reader!Skip(i, {"ws"}), Reader!Token[Reader!Skip(i, {"ws"})]>>>>
                  \o Reader!StatValues[Reader!Token[Reader!Skip(i, {"ws"})]]
           ELSE <<>>
<1> DEFINE P == Reader!Position
           from == [j \in P |-> Reader!Skip(j, {"ws"})]
           to == [j \in P |-> Reader!Token[from[j]]]
           head == [j \in P |-> <<from[j], to[j]>>]
           G == {j \in P : Follows(j)}
           Body(f) == [j \in P |->
                         IF Reader!At(j, {"ws"}) /\ Reader!Token[Reader!Skip(j, {"ws"})] # Reader!Fail
                         THEN <<<<Reader!Skip(j, {"ws"}), Reader!Token[Reader!Skip(j, {"ws"})]>>>>
                                \o f[Reader!Token[Reader!Skip(j, {"ws"})]]
                         ELSE <<>>]
<1>1. Reader!End \in Nat /\ P = 0..Reader!End
  BY EndOfText
<1>2. ASSUME NEW j \in G
      PROVE  to[j] \in (j + 1)..Reader!End /\ head[j] \in {head[k] : k \in P}
  <2>1. to[j] \in (j + 1)..Len(text)
    BY FollowsFacts
  <2> HIDE DEF to, head
  <2>2. QED
    BY <1>1, <2>1, EndOfText
<1>3. \E f : IsChain(f, Reader!End, G, to, head, {head[k] : k \in P})
  <2>1. G \in SUBSET (0..Reader!End)
    BY <1>1
  <2> DEFINE S == {head[k] : k \in P}
  <2>2. \A j \in G : to[j] \in (j + 1)..Reader!End /\ head[j] \in S
    BY <1>2
  <2> HIDE DEF G, to, head, S
  <2>3. QED
    BY <1>1, <2>1, <2>2, ChainExists
<1>4. PICK f \in [P -> Seq({head[k] : k \in P})] : \A j \in P :
        f[j] = IF Follows(j) THEN <<<<from[j], to[j]>>>> \o f[to[j]] ELSE <<>>
  BY <1>1, <1>3 DEF IsChain
<1>5. f = Body(f)
  BY <1>4 DEF Follows
<1>6. Reader!StatValues = CHOOSE g : g = Body(g)
  BY DEF Reader!StatValues
<1> HIDE DEF Body
<1>7. Reader!StatValues = Body(Reader!StatValues)
  BY <1>5, <1>6
<1>8. QED
  BY <1>7 DEF Body, Follows

\* What the values v say of the text from i to t, where they end: they have all
\* that is not white space, nothing more, and the last is not followed by another.
AreValues(v, i, t) ==
  /\ t \in (i + 1)..Len(text)
  /\ \A k \in i..(t - 1) :
       /\ text[k] \in Reader!Alnum \cup {"ws"}
       /\ text[k] \in Reader!Alnum => \E n \in DOMAIN v : k \in Reader!Span(v[n])
  /\ \A n \in DOMAIN v : Reader!Span(v[n]) \subseteq i..(t - 1)
  /\ ~Reader!At(t, Reader!Alnum) /\ ~Follows(t)

Spans == Seq(Reader!Position \X Reader!Position)

LEMMA ValuesFacts ==
  ASSUME IsText, NEW i \in Reader!Position
  PROVE  /\ Reader!StatValues[i] \in Spans
         /\ LET v == Reader!StatValues[i]
            IN  v # <<>> => AreValues(v, i, v[Len(v)][2]) /\ text[i] = "ws"
<1> DEFINE P == Reader!Position
           V(j) == Reader!StatValues[j]
           Good(j) == /\ V(j) \in Spans
                      /\ V(j) # <<>> => AreValues(V(j), j, V(j)[Len(V(j))][2]) /\ text[j] = "ws"
           I == {m \in 0..Reader!End : ~Good(Reader!End - m)}
<1>1. Len(text) \in Nat /\ Reader!End = Len(text) + 1 /\ P = 0..Reader!End
  BY EndOfText
<1>2. ASSUME NEW m \in I, \A k \in I : m <= k PROVE FALSE
  <2> DEFINE j == Reader!End - m
             from == Reader!Skip(j, {"ws"})
             to == Reader!Token[from]
  <2>1. j \in P /\ m \in Nat /\ j \in Nat
    BY <1>1
  <2>2. CASE ~Follows(j)
    <3>1. V(j) = <<>>
      BY <2>1, <2>2, StatValuesDef
    <3>2. Good(j)
      BY <3>1 DEF Spans
    <3>3. QED
      BY <3>2
  <2>3. CASE Follows(j)
    <3>1. /\ j \in 1..Len(text) /\ from \in 1..Len(text) /\ to \in (j + 1)..Len(text)
          /\ Run(j, from, {"ws"}) /\ Run(from, to, Reader!Alnum) /\ ~Reader!At(to, Reader!Alnum)
      BY <2>1, <2>3, FollowsFacts
    <3>2. V(j) = <<<<from, to>>>> \o V(to)
      BY <2>1, <2>3, StatValuesDef
    <3>3. text[j] = "ws"
      BY <2>3, <3>1, EndOfText DEF Follows, Reader!At
    <3>4. to \in P /\ Reader!End - to \in 0..Reader!End /\ ~(m <= Reader!End - to)
          /\ Reader!End - (Reader!End - to) = to
      <4> HIDE DEF from, to
      <4>1. QED
        BY <1>1, <3>1
    <3>5. Good(to)
      <4> HIDE DEF Good, from, to
      <4>1. QED
        BY <1>2, <3>4
    <3> HIDE DEF j, from, to, V
    <3>6. V(to) \in Spans /\ <<from, to>> \in P \X P /\ V(j) \in Spans
      <4>1. V(to) \in Spans /\ <<from, to>> \in P \X P
        BY <1>1, <3>1, <3>5
      <4>2. QED
        BY <3>2, <4>1 DEF Spans
    <3> DEFINE w == V(to)
               u == V(j)
    <3>7. w \in Seq(P \X P) /\ <<from, to>> \in P \X P
      BY <3>6 DEF Spans
    <3>8. /\ u = <<<<from, to>>>> \o w /\ Len(u) = Len(w) + 1 /\ Len(w) \in Nat
          /\ DOMAIN u = 1..(Len(w) + 1) /\ DOMAIN w = 1..Len(w)
          /\ u[1] = <<from, to>> /\ \A n \in 1..Len(w) : u[n + 1] = w[n]
      BY <3>2, <3>7
    <3>9. Reader!Span(u[1]) = from..(to - 1)
      BY <3>8 DEF Reader!Span
    <3>10. from \in j..to /\ j \in Int /\ from \in Int /\ to \in Int
      BY <3>1 DEF Run
    <3>11. ASSUME NEW k \in j..(to - 1)
           PROVE  /\ text[k] \in Reader!Alnum \cup {"ws"}
                  /\ text[k] \in Reader!Alnum => k \in Reader!Span(u[1])
      <4>1. CASE k < from
        <5>1. text[k] = "ws"
          BY <3>1, <3>10, <4>1 DEF Run
        <5>2. QED
          BY <5>1 DEF Reader!Alnum, Reader!Alpha
      <4>2. CASE ~(k < from)
        <5>1. k \in from..(to - 1)
          BY <3>10, <4>2
        <5>2. QED
          BY <3>1, <3>9, <5>1 DEF Run
      <4>3. QED
        BY <4>1, <4>2
    <3>12. CASE w = <<>>
      <4>1. u[Len(u)][2] = to /\ DOMAIN u = {1}
        BY <3>8, <3>12
      <4>2. ~Follows(to)
        <5>1. ASSUME Follows(to) PROVE FALSE
          <6>1. w # <<>>
            <7> DEFINE x == <<Reader!Skip(to, {"ws"}), Reader!Token[Reader!Skip(to, {"ws"})]>>
                       y == Reader!StatValues[Reader!Token[Reader!Skip(to, {"ws"})]]
            <7>1. w = <<x>> \o y
              BY <3>4, <5>1, StatValuesDef DEF V
            <7> HIDE DEF x, y, w
            <7>2. w[1] = x /\ 1 \in DOMAIN w
              <8>1. w \in Seq(P \X P)
                BY <3>7
              <8>2. QED
                BY <7>1, <8>1
            <7>3. QED
              BY <7>2
          <6>2. QED
            BY <3>12, <6>1
        <5>2. QED
          BY <5>1
      <4>3. AreValues(u, j, to)
        <5>1. Reader!Span(u[1]) \subseteq j..(to - 1)
          BY <3>9, <3>10
        <5>2. QED
          BY <3>1, <3>11, <4>1, <4>2, <5>1 DEF AreValues
      <4>4. QED
        BY <3>3, <3>6, <4>1, <4>3, <1>2 DEF j
    <3>13. CASE w # <<>>
      <4> DEFINE t == w[Len(w)][2]
      <4>1. AreValues(w, to, t) /\ text[to] = "ws"
        BY <3>5, <3>13
      <4>2. u[Len(u)][2] = t
        <5>1. Len(w) \in 1..Len(w)
          BY <3>7, <3>13
        <5>2. QED
          BY <3>8, <5>1
      <4> HIDE DEF t, u, w
      <4>3. t \in (to + 1)..Len(text) /\ t \in (j + 1)..Len(text) /\ t \in Int
        BY <3>1, <3>10, <4>1 DEF AreValues
      <4>4. ASSUME NEW k \in j..(t - 1)
            PROVE  /\ text[k] \in Reader!Alnum \cup {"ws"}
                   /\ text[k] \in Reader!Alnum => \E n \in DOMAIN u : k \in Reader!Span(u[n])
        <5>1. CASE k < to
          <6>1. k \in j..(to - 1) /\ 1 \in DOMAIN u
            BY <3>8, <3>10, <5>1
          <6>2. QED
            BY <3>11, <6>1
        <5>2. CASE ~(k < to)
          <6>1. k \in to..(t - 1)
            BY <3>10, <4>3, <5>2
          <6>2. /\ text[k] \in Reader!Alnum \cup {"ws"}
                /\ text[k] \in Reader!Alnum => \E n \in DOMAIN w : k \in Reader!Span(w[n])
            BY <4>1, <6>1 DEF AreValues
          <6>3. \A n \in DOMAIN w : n + 1 \in DOMAIN u /\ u[n + 1] = w[n]
            BY <3>8
          <6>4. QED
            BY <6>2, <6>3
        <5>3. QED
          BY <5>1, <5>2
      <4>5. ASSUME NEW n \in DOMAIN u PROVE Reader!Span(u[n]) \subseteq j..(t - 1)
        <5>1. CASE n = 1
          BY <3>9, <3>10, <4>3, <5>1
        <5>2. CASE n # 1
          <6>1. n - 1 \in DOMAIN w /\ u[n] = w[n - 1]
            BY <3>8, <5>2
          <6>2. Reader!Span(w[n - 1]) \subseteq to..(t - 1)
            BY <4>1, <6>1 DEF AreValues
          <6>3. to..(t - 1) \subseteq j..(t - 1)
            BY <3>1, <3>10, <4>3
          <6>4. QED
            BY <6>1, <6>2, <6>3
        <5>3. QED
          BY <5>1, <5>2
      <4>6. AreValues(u, j, t)
        BY <4>1, <4>3, <4>4, <4>5 DEF AreValues
      <4>7. QED
        BY <3>3, <3>6, <4>2, <4>6, <1>2 DEF j, u
    <3>14. QED
      BY <3>12, <3>13
  <2>4. QED
    BY <2>2, <2>3
<1>3. I = {}
  <2>1. I \in SUBSET Nat
    BY <1>1
  <2> HIDE DEF I
  <2>2. QED
    BY <1>2, <2>1, LeastOf
<1>4. Good(i)
  <2>1. Reader!End - i \in 0..Reader!End /\ Reader!End - (Reader!End - i) = i
    BY <1>1
  <2> HIDE DEF Good
  <2>2. QED
    BY <1>3, <2>1
<1>5. QED
  BY <1>4
-----------------------------------------------------------------------------
\* A record of what stands from p to e: all of it, in one line.
Covers(rec, p, e) ==
  /\ rec.key \in Reader!Position \X Reader!Position /\ rec.values \in Spans
  /\ rec.key[1] = p /\ rec.values # <<>>
  /\ e \in (p + 1)..Reader!End /\ \A k \in p..(e - 1) : text[k] # "nl"
  /\ Reader!Content(rec) = Reader!Solid(p..(e - 1))

\* The line ends at e, and the next record is behind its end.
LineEnds(e, next) ==
  \/ e = Reader!End /\ next = e
  \/ e \in 1..Len(text) /\ text[e] = "nl" /\ next # e /\ Run(e, next, {"nl"})

LEMMA ContentIs ==
  ASSUME NEW rec, NEW p, NEW e,
         Reader!Span(rec.key) \subseteq p..(e - 1),
         \A n \in DOMAIN rec.values : Reader!Span(rec.values[n]) \subseteq p..(e - 1),
         \A k \in p..(e - 1) :
           \/ text[k] \in {"ws", "nl", "sep", "quote"} \/ k \in Reader!Span(rec.key)
           \/ \E n \in DOMAIN rec.values : k \in Reader!Span(rec.values[n])
  PROVE  Reader!Content(rec) = Reader!Solid(p..(e - 1))
BY DEF Reader!Content, Reader!Solid

\* A record of one value, from v to e, and its key, which ends at k.
LEMMA OneValue ==
  ASSUME IsText, NEW p \in 1..Len(text), NEW k \in (p + 1)..Reader!End,
         NEW v \in k..Reader!End, NEW e \in v..Reader!End,
         NEW f \in v..Reader!End, NEW t \in Reader!Position, t - 1 <= e - 1, NEW next,
         \A i \in p..(e - 1) :
           /\ text[i] # "nl"
           /\ i \in p..(k - 1) \/ i \in f..(t - 1) \/ text[i] \in {"ws", "sep", "quote"}
  PROVE  Covers(Reader!Record(<<p, k>>, <<<<f, t>>>>, next), p, e)
<1> DEFINE rec == Reader!Record(<<p, k>>, <<<<f, t>>>>, next)
<1>1. Len(text) \in Nat /\ Reader!End = Len(text) + 1 /\ Reader!Position = 0..Reader!End
  BY EndOfText
<1>2. /\ rec.key = <<p, k>> /\ rec.values = <<<<f, t>>>> /\ DOMAIN rec.values = {1}
      /\ rec.key[1] = p /\ rec.values[1] = <<f, t>>
  BY DEF Reader!Record
<1>3. Reader!Span(rec.key) = p..(k - 1) /\ Reader!Span(rec.values[1]) = f..(t - 1)
  BY <1>2 DEF Reader!Span
<1>4. <<p, k>> \in Reader!Position \X Reader!Position /\ <<f, t>> \in Reader!Position \X Reader!Position
  BY <1>1
<1> HIDE DEF rec
<1>5. rec.values \in Spans /\ rec.values # <<>>
  BY <1>2, <1>4 DEF Spans
<1>6. Reader!Content(rec) = Reader!Solid(p..(e - 1))
  <2>1. p..(k - 1) \subseteq p..(e - 1) /\ f..(t - 1) \subseteq p..(e - 1)
    BY <1>1
  <2>2. QED
    BY <1>2, <1>3, <2>1, ContentIs
<1>7. e \in (p + 1)..Reader!End
  BY <1>1
<1>8. QED
  BY <1>2, <1>4, <1>5, <1>6, <1>7 DEF Covers, rec

\* The key and the separator, with or without white space between: value begins at v.
LEMMA ValueBegins ==
  ASSUME IsText, NEW p \in 1..Len(text),
         NEW k, k = Reader!Word[p], NEW m, m \in {k, Reader!Ws0n[k]},
         NEW v, v = Reader!Ws0n[Reader!Separator[m]], v # Reader!Fail
  PROVE  /\ k \in (p + 1)..Reader!End /\ v \in k..Reader!End /\ k \in Reader!Position
         /\ v \in Reader!Position
         /\ \A i \in p..(v - 1) :
              text[i] # "nl" /\ (i \in p..(k - 1) \/ text[i] \in {"ws", "sep"})
<1> DEFINE s == Reader!Separator[m]
<1>1. /\ Len(text) \in Nat /\ Reader!End = Len(text) + 1
      /\ Reader!Position = 0..Reader!End /\ Reader!Fail = 0 /\ p \in Reader!Position
  BY EndOfText
<1>2. k \in Reader!Position /\ m \in Reader!Position
  BY <1>1, WordFacts, Ws0nFacts
<1>3. s \in Reader!Position /\ v \in Reader!Position
  BY <1>2, SeparatorFacts, Ws0nFacts
<1>4. s \in 1..Len(text) /\ Run(s, v, {"ws"})
  BY <1>3, Ws0nFacts
<1>5. m \in 1..Len(text) /\ text[m] = "sep" /\ s = m + 1
  <2>1. s # Reader!Fail
    BY <1>1, <1>4
  <2>2. QED
    BY <1>2, <2>1, SeparatorFacts
<1>6. k \in 1..Reader!End /\ Run(k, m, {"ws"})
  <2>1. CASE m = k
    BY <1>1, <1>5, <2>1 DEF Run
  <2>2. CASE m = Reader!Ws0n[k]
    <3>1. m # Reader!Fail
      BY <1>1, <1>5
    <3>2. QED
      BY <1>1, <1>2, <2>2, <3>1, Ws0nFacts
  <2>3. QED
    BY <2>1, <2>2
<1>7. Run(p, k, Reader!Alnum) /\ k # p
  <2>1. k # Reader!Fail
    BY <1>1, <1>6
  <2>2. QED
    BY <1>1, <2>1, WordFacts
<1> HIDE DEF s
<1>8. k \in (p + 1)..Reader!End /\ m \in k..Reader!End /\ v \in s..Reader!End
  BY <1>1, <1>4, <1>6, <1>7 DEF Run
<1>9. v \in k..Reader!End
  BY <1>1, <1>5, <1>8
<1>10. ASSUME NEW i \in p..(v - 1)
       PROVE  text[i] # "nl" /\ (i \in p..(k - 1) \/ text[i] \in {"ws", "sep"})
  <2>1. i \in p..(k - 1) \/ i \in k..(m - 1) \/ i = m \/ i \in s..(v - 1)
    BY <1>1, <1>5, <1>8
  <2>2. QED
    BY <1>4, <1>5, <1>6, <1>7, <2>1 DEF Run, Reader!Alnum, Reader!Alpha
<1>11. QED
  BY <1>2, <1>3, <1>8, <1>9, <1>10

\* The value that goes on until the end of the line.
LEMMA ValueEnds ==
  ASSUME IsText, NEW v \in Reader!Position, NEW e, e = Reader!UntilNl[v], e # Reader!Fail
  PROVE  /\ e \in Reader!Position /\ v \in 1..Len(text) /\ e \in v..Reader!End
         /\ \A i \in v..(e - 1) : text[i] # "nl"
         /\ e \in 1..Len(text) => text[e] = "nl"
<1>1. /\ v \in 1..Len(text) /\ Run(v, e, Reader!Lexeme \ {"nl"})
      /\ e = Reader!End \/ text[e] = "nl"
  BY UntilNlFacts
<1>2. e \in Reader!Position
  BY UntilNlFacts
<1>3. QED
  BY <1>1, <1>2, EndOfText DEF Run

LEMMA NlEndsLine ==
  ASSUME IsText, NEW e \in Reader!Position, NEW n, n = Reader!Nl1n[e], n # Reader!Fail
  PROVE  e \in 1..Len(text) /\ LineEnds(e, n) /\ n \in Reader!Position
<1>1. e \in 1..Len(text) /\ Run(e, n, {"nl"}) /\ n # e /\ n \in Reader!Position
  BY Nl1nFacts
<1>2. text[e] = "nl"
  BY <1>1, EndOfText DEF Run
<1>3. QED
  BY <1>1, <1>2 DEF LineEnds

LEMMA KeyAndValue ==
  ASSUME IsText, NEW p \in 1..Len(text),
         NEW k, k = Reader!Word[p], NEW m, m \in {k, Reader!Ws0n[k]},
         NEW v, v = Reader!Ws0n[Reader!Separator[m]],
         NEW e, e = Reader!UntilNl[v], e # Reader!Fail
  PROVE  /\ k \in (p + 1)..Reader!End /\ v \in k..Reader!End /\ e \in v..Reader!End
         /\ e \in Reader!Position
         /\ \A i \in p..(e - 1) :
              /\ text[i] # "nl"
              /\ i \in p..(k - 1) \/ i \in v..(e - 1) \/ text[i] \in {"ws", "sep"}
         /\ e \in 1..Len(text) => text[e] = "nl"
<1>1. /\ Reader!Fail = 0 /\ p \in Reader!Position
      /\ Len(text) \in Nat /\ Reader!End = Len(text) + 1
  BY EndOfText
<1>2. k \in Reader!Position /\ m \in Reader!Position /\ v \in Reader!Position
  BY <1>1, WordFacts, SeparatorFacts, Ws0nFacts
<1>3. /\ v \in 1..Len(text) /\ e \in v..Reader!End /\ e \in Reader!Position
      /\ \A i \in v..(e - 1) : text[i] # "nl"
      /\ e \in 1..Len(text) => text[e] = "nl"
  BY <1>2, ValueEnds
<1>4. v # Reader!Fail
  BY <1>1, <1>3
<1>5. /\ k \in (p + 1)..Reader!End /\ v \in k..Reader!End
      /\ \A i \in p..(v - 1) :
           text[i] # "nl" /\ (i \in p..(k - 1) \/ text[i] \in {"ws", "sep"})
  BY <1>4, ValueBegins
<1>6. ASSUME NEW i \in p..(e - 1)
      PROVE  /\ text[i] # "nl"
             /\ i \in p..(k - 1) \/ i \in v..(e - 1) \/ text[i] \in {"ws", "sep"}
  <2>1. i \in p..(v - 1) \/ i \in v..(e - 1)
    BY <1>1, <1>3, <1>5
  <2>2. QED
    BY <1>3, <1>5, <2>1
<1>7. QED
  BY <1>3, <1>5, <1>6

LEMMA UnparsedLine ==
  ASSUME IsText, NEW p \in 1..Len(text),
         NEW k, k = Reader!Word[p], NEW m, m \in {k, Reader!Ws0n[k]},
         NEW v, v = Reader!Ws0n[Reader!Separator[m]],
         NEW e, e = Reader!UntilNl[v], NEW n, n = Reader!Nl1n[e], n # Reader!Fail
  PROVE  /\ Covers(Reader!Record(<<p, k>>, <<<<v, e>>>>, n), p, e)
         /\ LineEnds(e, n) /\ n \in Reader!Position
<1>1. /\ Reader!Fail = 0 /\ p \in Reader!Position
      /\ Len(text) \in Nat /\ Reader!End = Len(text) + 1
  BY EndOfText
<1>2. k \in Reader!Position /\ m \in Reader!Position
  BY <1>1, WordFacts, Ws0nFacts
<1>3. v \in Reader!Position
  BY <1>2, SeparatorFacts, Ws0nFacts
<1>4. e \in Reader!Position
  BY <1>3, UntilNlFacts
<1>5. e \in 1..Len(text) /\ LineEnds(e, n) /\ n \in Reader!Position
  BY <1>4, NlEndsLine
<1>6. e # Reader!Fail
  BY <1>1, <1>5
<1>7. /\ k \in (p + 1)..Reader!End /\ v \in k..Reader!End /\ e \in v..Reader!End
      /\ \A i \in p..(e - 1) :
           /\ text[i] # "nl"
           /\ i \in p..(k - 1) \/ i \in v..(e - 1) \/ text[i] \in {"ws", "sep"}
  BY <1>6, KeyAndValue
<1>8. e - 1 <= e - 1 /\ v \in v..Reader!End
  BY <1>1, <1>5, <1>7
<1>9. Covers(Reader!Record(<<p, k>>, <<<<v, e>>>>, n), p, e)
  BY <1>4, <1>7, <1>8, OneValue
<1>10. QED
  BY <1>5, <1>9

\* A value in quotes.
LEMMA QuotedLine ==
  ASSUME IsText, NEW p \in 1..Len(text), NEW rec, rec = Reader!ParseOsRelease(p),
         rec.next # Reader!Fail
  PROVE  \E e : Covers(rec, p, e) /\ LineEnds(e, rec.next) /\ rec.next \in Reader!Position
<1> SUFFICES ASSUME NEW k, k = Reader!Word[p],
                    NEW v, v = Reader!Ws0n[Reader!Separator[k]],
                    NEW e, e = Reader!UntilNl[v]
             PROVE  Covers(rec, p, e) /\ LineEnds(e, rec.next) /\ rec.next \in Reader!Position
  OBVIOUS
<1> DEFINE f == Reader!Unquoted(v, e)[1]
           t == Reader!Unquoted(v, e)[2]
           n == Reader!NlOrEnd[e]
<1>1. /\ Reader!Fail = 0 /\ p \in Reader!Position /\ Reader!Position = 0..Reader!End
      /\ Len(text) \in Nat /\ Reader!End = Len(text) + 1
  BY EndOfText
<1>2. k \in Reader!Position /\ v \in Reader!Position /\ e \in Reader!Position
  BY <1>1, WordFacts, SeparatorFacts, Ws0nFacts, UntilNlFacts
<1>3. rec = Reader!Record(<<p, k>>, <<<<f, t>>>>, n) /\ rec.next = n
  BY DEF Reader!ParseOsRelease, Reader!Record, Reader!Unquoted
<1>4. /\ n # Reader!Fail /\ n \in Reader!Position
      /\ \/ e = Reader!End /\ n = e
         \/ e \in 1..Len(text) /\ text[e] = "nl" /\ n = e + 1
  BY <1>2, <1>3, NlOrEndFacts
<1>5. LineEnds(e, n)
  BY <1>1, <1>4 DEF LineEnds, Run
<1>6. e # Reader!Fail
  BY <1>1, <1>4
<1>7. /\ k \in (p + 1)..Reader!End /\ v \in k..Reader!End /\ e \in v..Reader!End
      /\ \A i \in p..(e - 1) :
           /\ text[i] # "nl"
           /\ i \in p..(k - 1) \/ i \in v..(e - 1) \/ text[i] \in {"ws", "sep"}
  BY <1>6, KeyAndValue
<1>8. /\ f = v \/ (v < e /\ f = v + 1 /\ text[v] = "quote")
      /\ t = e \/ (v < e /\ t = e - 1 /\ text[e - 1] = "quote")
  BY DEF Reader!Unquoted
<1> HIDE DEF f, t, n
<1>9. f \in v..Reader!End /\ t \in Reader!Position /\ t - 1 <= e - 1
  <2>1. v \in Nat /\ e \in Nat /\ v <= e /\ e <= Reader!End /\ Reader!End \in Nat
    BY <1>1, <1>2, <1>7
  <2>2. f \in v..Reader!End
    BY <1>8, <2>1
  <2>3. t \in 0..Reader!End /\ t - 1 <= e - 1
    BY <1>8, <2>1
  <2>4. QED
    BY <1>1, <2>2, <2>3
<1>10. ASSUME NEW i \in p..(e - 1)
       PROVE  /\ text[i] # "nl"
              /\ i \in p..(k - 1) \/ i \in f..(t - 1) \/ text[i] \in {"ws", "sep", "quote"}
  <2>1. i \in v..(e - 1) => i \in f..(t - 1) \/ text[i] = "quote"
    <3>1. v \in Nat /\ e \in Nat /\ i \in Int
      BY <1>1, <1>2
    <3>2. ASSUME i \in v..(e - 1), i \notin f..(t - 1)
          PROVE  \/ i = v /\ f = v + 1 /\ text[v] = "quote"
                 \/ i = e - 1 /\ t = e - 1 /\ text[e - 1] = "quote"
      BY <1>8, <3>1, <3>2
    <3>3. QED
      BY <3>2
  <2>2. QED
    BY <1>7, <2>1
<1>11. Covers(rec, p, e)
  BY <1>3, <1>7, <1>9, <1>10, OneValue
<1>12. QED
  BY <1>3, <1>4, <1>5, <1>11

\* Digits and units.
LEMMA AmountLine ==
  ASSUME IsText, NEW p \in 1..Len(text), NEW rec, rec = Reader!ParseAmount(p),
         rec.next # Reader!Fail
  PROVE  \E e : Covers(rec, p, e) /\ LineEnds(e, rec.next) /\ rec.next \in Reader!Position
<1> DEFINE k == Reader!Word[p]
           s == Reader!Separator[k]
           v == Reader!Ws0n[s]
           d == Reader!Digits[v]
           u == Reader!Ws0n[d]
           x == Reader!Units[u]
           e == Reader!Ws0n[x]
           n == Reader!Nl1n[e]
           values == <<<<v, d>>, <<u, x>>>>
<1>3. /\ rec.key = <<p, k>> /\ rec.values = values /\ rec.next = n
  BY DEF Reader!ParseAmount, Reader!Record
<1> HIDE DEF k, s, v, d, u, x, e, n, values
<1>1. /\ Reader!Fail = 0 /\ p \in Reader!Position /\ Reader!Position = 0..Reader!End
      /\ Len(text) \in Nat /\ Reader!End = Len(text) + 1
  BY EndOfText
<1>k. k \in Reader!Position
  BY <1>1, WordFacts DEF k
<1>s. s \in Reader!Position
  BY <1>k, SeparatorFacts DEF s
<1>v. v \in Reader!Position
  BY <1>s, Ws0nFacts DEF v
<1>d. d \in Reader!Position
  BY <1>v, DigitsFacts DEF d
<1>u. u \in Reader!Position
  BY <1>d, Ws0nFacts DEF u
<1>x. x \in Reader!Position
  BY <1>u, UnitsFacts DEF x
<1>e. e \in Reader!Position
  BY <1>x, Ws0nFacts DEF e
<1>4. e \in 1..Len(text) /\ LineEnds(e, n) /\ n \in Reader!Position
  BY <1>e, <1>3, NlEndsLine DEF n
<1>5. x \in 1..Len(text) /\ Run(x, e, {"ws"})
  BY <1>1, <1>x, <1>4, Ws0nFacts DEF e
<1>6. u # Reader!Fail /\ Run(u, x, Reader!Alnum)
  BY <1>1, <1>u, <1>5, UnitsFacts DEF x
<1>7. d \in 1..Len(text) /\ Run(d, u, {"ws"})
  BY <1>d, <1>6, Ws0nFacts DEF u
<1>8. v \in 1..Len(text) /\ Run(v, d, {"num"})
  BY <1>1, <1>v, <1>7, DigitsFacts DEF d
<1>9. v # Reader!Fail
  BY <1>1, <1>8
<1>10. /\ k \in (p + 1)..Reader!End /\ v \in k..Reader!End
       /\ \A i \in p..(v - 1) :
            text[i] # "nl" /\ (i \in p..(k - 1) \/ text[i] \in {"ws", "sep"})
  BY <1>9, ValueBegins DEF k, v, s
<1>11. /\ d \in v..Reader!End /\ u \in d..Reader!End /\ x \in u..Reader!End
       /\ e \in x..Reader!End
  BY <1>5, <1>6, <1>7, <1>8 DEF Run
<1>12. ASSUME NEW i \in p..(e - 1)
       PROVE  /\ text[i] # "nl"
              /\ \/ i \in p..(k - 1) \/ i \in v..(d - 1) \/ i \in u..(x - 1)
                 \/ text[i] \in {"ws", "sep"}
  <2>1. i \in p..(v - 1) \/ i \in v..(d - 1) \/ i \in d..(u - 1) \/ i \in u..(x - 1)
        \/ i \in x..(e - 1)
    BY <1>1, <1>10, <1>11
  <2>2. QED
    BY <1>5, <1>6, <1>7, <1>8, <1>10, <2>1 DEF Run, Reader!Alnum, Reader!Alpha
<1>13. /\ DOMAIN rec.values = {1, 2} /\ rec.key[1] = p
       /\ Reader!Span(rec.key) = p..(k - 1) /\ Reader!Span(rec.values[1]) = v..(d - 1)
       /\ Reader!Span(rec.values[2]) = u..(x - 1)
  BY <1>3 DEF Reader!Span, values
<1>14. rec.key \in Reader!Position \X Reader!Position /\ rec.values \in Spans /\ rec.values # <<>>
  BY <1>1, <1>k, <1>v, <1>d, <1>u, <1>x, <1>3 DEF Spans, values
<1>15. Reader!Content(rec) = Reader!Solid(p..(e - 1))
  <2>1. /\ p..(k - 1) \subseteq p..(e - 1) /\ v..(d - 1) \subseteq p..(e - 1)
        /\ u..(x - 1) \subseteq p..(e - 1)
    BY <1>1, <1>10, <1>11
  <2>2. QED
    BY <1>12, <1>13, <2>1, ContentIs
<1>16. e \in (p + 1)..Reader!End
  BY <1>1, <1>10, <1>11
<1>17. QED
  BY <1>3, <1>4, <1>12, <1>13, <1>14, <1>15, <1>16 DEF Covers

\* Where the parser of /proc/stat cannot go on, behind a part of a line.
Stuck(e) ==
  /\ format = "stat" /\ e \in 1..Len(text) /\ text[e] \notin {"ws", "nl"}
  /\ Reader!Word[e] \in {Reader!Fail, Reader!End}

LEMMA StuckFails ==
  ASSUME IsText, NEW e, Stuck(e)
  PROVE  Reader!ParseStat(e).next = Reader!Fail
<1>1. ~Follows(Reader!End) /\ Reader!End \in Reader!Position
  BY EndOfText DEF Follows, Reader!At
<1>2. Reader!StatValues[Reader!End] = <<>>
  BY <1>1, StatValuesDef
<1>3. QED
  BY <1>2 DEF Stuck, Reader!ParseStat, Reader!Record

LEMMA NothingFollows ==
  ASSUME IsText, NEW t \in 1..Len(text), ~Reader!At(t, Reader!Alnum), ~Follows(t),
         NEW e, e = Reader!Skip(t, {"ws"})
  PROVE  /\ Run(t, e, {"ws"}) /\ e \in Reader!Position
         /\ e # Reader!End => text[e] # "ws" /\ Reader!Word[e] \in {Reader!Fail, Reader!End}
<1>1. /\ Len(text) \in Nat /\ Reader!End = Len(text) + 1 /\ Reader!Fail = 0
      /\ t \in Reader!Position
  BY EndOfText
<1>2. Run(t, e, {"ws"}) /\ ~Reader!At(e, {"ws"}) /\ e \in Reader!Position
  BY SkipRuns
<1>3. ASSUME e # Reader!End
      PROVE  text[e] # "ws" /\ Reader!Word[e] \in {Reader!Fail, Reader!End}
  <2>1. e \in 1..Len(text) /\ text[e] # "ws"
    <3>1. e \in t..Reader!End
      BY <1>2 DEF Run
    <3>2. e \in 1..Len(text)
      BY <1>1, <1>3, <3>1
    <3>3. QED
      BY <1>2, <3>2, EndOfText DEF Reader!At
  <2>2. CASE Reader!Word[e] = Reader!Fail
    BY <2>1, <2>2
  <2>3. CASE Reader!Word[e] # Reader!Fail
    <3>1. text[e] \in Reader!Alnum
      BY <1>2, <2>3, WordFacts DEF Reader!Alnum
    <3>2. Reader!At(t, {"ws"})
      <4>1. CASE e = t
        BY <2>1, <3>1, <4>1, EndOfText DEF Reader!At
      <4>2. CASE e # t
        <5>1. t \in t..(e - 1)
          BY <1>1, <1>2, <4>2 DEF Run
        <5>2. QED
          BY <1>2, <5>1, EndOfText DEF Run, Reader!At
      <4>3. QED
        BY <4>1, <4>2
    <3>3. Reader!Token[e] = Reader!Fail
      BY <3>2 DEF Follows
    <3>4. e \notin {Reader!Fail, Reader!End}
      BY <1>1, <2>1
    <3>5. Reader!Skip(e, Reader!Alnum) = Reader!End
      BY <1>2, <3>3, <3>4, TokenFacts
    <3>6. Reader!Word[e] = Reader!End
      <4>1. Reader!Word[e] \in {Reader!Fail, Reader!Skip(e, Reader!Alnum)}
        BY <1>2 DEF Reader!Word
      <4>2. QED
        BY <2>3, <3>5, <4>1
    <3>7. QED
      BY <2>1, <3>6
  <2>4. QED
    BY <2>2, <2>3
<1>4. QED
  BY <1>2, <1>3

\* A line of /proc/stat, or as much of it as has the values.
LEMMA StatLine ==
  ASSUME IsText, format = "stat", NEW p \in 1..Len(text),
         NEW rec, rec = Reader!ParseStat(p), rec.next # Reader!Fail
  PROVE  \E e : /\ Covers(rec, p, e) /\ rec.next \in Reader!Position
                /\ LineEnds(e, rec.next) \/ (rec.next = e /\ Stuck(e))
<1> DEFINE k == Reader!Word[p]
           v == Reader!StatValues[k]
           t == v[Len(v)][2]
           e == Reader!Skip(t, {"ws"})
           n == Reader!Nl1n[e]
<1>1. /\ Len(text) \in Nat /\ Reader!End = Len(text) + 1 /\ Reader!Fail = 0
      /\ p \in Reader!Position /\ Reader!Position = 0..Reader!End
  BY EndOfText
<1>2. /\ k # Reader!Fail /\ v # <<>> /\ rec.key = <<p, k>> /\ rec.values = v
      /\ rec.next = IF n = Reader!Fail THEN e ELSE n
  BY DEF Reader!ParseStat, Reader!Record
<1>3. /\ k \in Reader!Position /\ Run(p, k, Reader!Alnum) /\ k # p
  BY <1>1, <1>2, WordFacts
<1>4. v \in Spans /\ AreValues(v, k, t) /\ text[k] = "ws"
  <2> HIDE DEF k
  <2>1. QED
    BY <1>2, <1>3, ValuesFacts
<1> HIDE DEF k, v, t
<1>5. /\ t \in (k + 1)..Len(text) /\ ~Reader!At(t, Reader!Alnum) /\ ~Follows(t)
      /\ \A i \in k..(t - 1) :
           /\ text[i] \in Reader!Alnum \cup {"ws"}
           /\ text[i] \in Reader!Alnum => \E m \in DOMAIN v : i \in Reader!Span(v[m])
      /\ \A m \in DOMAIN v : Reader!Span(v[m]) \subseteq k..(t - 1)
  BY <1>4 DEF AreValues
<1>6. k \in (p + 1)..Reader!End /\ \A i \in p..(k - 1) : text[i] \in Reader!Alnum
  BY <1>1, <1>3 DEF Run
<1>7. t \in 1..Len(text)
  BY <1>1, <1>5, <1>6
<1>8. /\ Run(t, e, {"ws"}) /\ e \in Reader!Position
      /\ e # Reader!End => text[e] # "ws" /\ Reader!Word[e] \in {Reader!Fail, Reader!End}
  BY <1>5, <1>7, NothingFollows
<1> HIDE DEF e
<1>9. e \in t..Reader!End /\ \A i \in t..(e - 1) : text[i] = "ws"
  BY <1>8 DEF Run
<1>10. e \in (p + 1)..Reader!End /\ p..(k - 1) \subseteq p..(e - 1) /\ k..(t - 1) \subseteq p..(e - 1)
  BY <1>1, <1>5, <1>6, <1>9
<1>11. ASSUME NEW i \in p..(e - 1)
       PROVE  /\ text[i] # "nl"
              /\ \/ text[i] = "ws" \/ i \in p..(k - 1)
                 \/ \E m \in DOMAIN v : i \in Reader!Span(v[m])
  <2>1. i \in p..(k - 1) \/ i \in k..(t - 1) \/ i \in t..(e - 1)
    BY <1>1, <1>5, <1>6, <1>9
  <2>2. QED
    BY <1>5, <1>6, <1>9, <2>1 DEF Reader!Alnum, Reader!Alpha
<1>12. Reader!Span(rec.key) = p..(k - 1)
  BY <1>2 DEF Reader!Span
<1>13. Reader!Content(rec) = Reader!Solid(p..(e - 1))
  <2>1. \A m \in DOMAIN rec.values : Reader!Span(rec.values[m]) \subseteq p..(e - 1)
    BY <1>2, <1>5, <1>10
  <2>2. Reader!Span(rec.key) \subseteq p..(e - 1)
    BY <1>10, <1>12
  <2>3. \A i \in p..(e - 1) :
           \/ text[i] \in {"ws", "nl", "sep", "quote"} \/ i \in Reader!Span(rec.key)
           \/ \E m \in DOMAIN rec.values : i \in Reader!Span(rec.values[m])
    BY <1>2, <1>11, <1>12
  <2>4. QED
    BY <2>1, <2>2, <2>3, ContentIs
<1>14. Covers(rec, p, e)
  BY <1>1, <1>2, <1>3, <1>4, <1>10, <1>11, <1>13 DEF Covers
<1>15. n # Reader!Fail => LineEnds(e, n) /\ n \in Reader!Position
  BY <1>8, NlEndsLine
<1>16. n = Reader!Fail /\ e = Reader!End => LineEnds(e, e)
  BY DEF LineEnds
<1>17. n = Reader!Fail /\ e # Reader!End => Stuck(e)
  <2> SUFFICES ASSUME n = Reader!Fail, e # Reader!End PROVE Stuck(e)
    OBVIOUS
  <2>1. e \in 1..Len(text)
    BY <1>1, <1>7, <1>9
  <2>2. text[e] # "nl"
    BY <1>1, <1>8, <2>1, Nl1nFacts
  <2>3. QED
    BY <1>8, <2>1, <2>2 DEF Stuck
<1> HIDE DEF n
<1>18. QED
  BY <1>2, <1>8, <1>14, <1>15, <1>16, <1>17

\* An empty line of /proc/cpuinfo.
IsEmpty(rec, p) ==
  /\ format = "cpuinfo" /\ rec.key = <<p, p>> /\ rec.values = <<>>
  /\ text[p] = "nl" /\ Run(p, rec.next, {"nl"}) /\ rec.next # p

LEMMA CpuInfoLine ==
  ASSUME IsText, format = "cpuinfo", NEW p \in 1..Len(text),
         NEW rec, rec = Reader!ParseCpuInfo(p), rec.next # Reader!Fail
  PROVE  /\ rec.next \in Reader!Position
         /\ IsEmpty(rec, p) \/ \E e : Covers(rec, p, e) /\ LineEnds(e, rec.next)
<1> DEFINE k == Reader!Word[p]
           m == Reader!Ws0n[k]
           v == Reader!Ws0n[Reader!Separator[m]]
           e == Reader!UntilNl[v]
           n == Reader!Nl1n[e]
<1>1. rec = IF text[p] = "nl"
            THEN Reader!Record(<<p, p>>, <<>>, Reader!Nl1n[p])
            ELSE Reader!Record(<<p, k>>, <<<<v, e>>>>, n)
  BY DEF Reader!ParseCpuInfo
<1>2. CASE text[p] = "nl"
  <2>1. p \in Reader!Position
    BY EndOfText
  <2>2. rec.key = <<p, p>> /\ rec.values = <<>> /\ rec.next = Reader!Nl1n[p]
    BY <1>1, <1>2 DEF Reader!Record
  <2>3. QED
    BY <1>2, <2>1, <2>2, Nl1nFacts DEF IsEmpty
<1>3. CASE text[p] # "nl"
  <2> HIDE DEF k, m, v, e, n
  <2>1. rec = Reader!Record(<<p, k>>, <<<<v, e>>>>, n) /\ rec.next = n
    BY <1>1, <1>3 DEF Reader!Record
  <2>2. /\ Covers(Reader!Record(<<p, k>>, <<<<v, e>>>>, n), p, e)
        /\ LineEnds(e, n) /\ n \in Reader!Position
    BY <2>1, UnparsedLine DEF k, m, v, e, n
  <2>3. QED
    BY <2>1, <2>2
<1>4. QED
  BY <1>2, <1>3

LEMMA StatusLine ==
  ASSUME IsText, NEW p \in 1..Len(text),
         NEW rec, rec = Reader!ParseUnparsed(p), rec.next # Reader!Fail
  PROVE  \E e : Covers(rec, p, e) /\ LineEnds(e, rec.next) /\ rec.next \in Reader!Position
<1> DEFINE k == Reader!Word[p]
           v == Reader!Ws0n[Reader!Separator[k]]
           e == Reader!UntilNl[v]
           n == Reader!Nl1n[e]
<1>1. rec = Reader!Record(<<p, k>>, <<<<v, e>>>>, n) /\ rec.next = n
  BY DEF Reader!ParseUnparsed, Reader!Record
<1> HIDE DEF k, v, e, n
<1>2. /\ Covers(Reader!Record(<<p, k>>, <<<<v, e>>>>, n), p, e)
      /\ LineEnds(e, n) /\ n \in Reader!Position
  BY <1>1, UnparsedLine DEF k, v, e, n
<1>3. QED
  BY <1>1, <1>2

\* What a record that has been parsed is, in each of the formats.
LEMMA ParseFacts ==
  ASSUME IsText, format \in {"stat", "status", "meminfo", "cpuinfo", "os-release"},
         NEW p \in 1..Len(text), NEW rec, rec = Reader!Parse(p), rec.next # Reader!Fail
  PROVE  /\ rec.next \in Reader!Position
         /\ \/ IsEmpty(rec, p)
            \/ \E e : /\ Covers(rec, p, e)
                      /\ LineEnds(e, rec.next) \/ (rec.next = e /\ Stuck(e))
<1>1. CASE format = "stat"
  BY <1>1, StatLine DEF Reader!Parse
<1>2. CASE format = "status"
  <2>1. rec \in {Reader!ParseAmount(p), Reader!ParseUnparsed(p)}
    BY <1>2 DEF Reader!Parse, Reader!ParseStatus
  <2>2. QED
    BY <2>1, AmountLine, StatusLine
<1>3. CASE format = "meminfo"
  BY <1>3, AmountLine DEF Reader!Parse
<1>4. CASE format = "cpuinfo"
  BY <1>4, CpuInfoLine DEF Reader!Parse
<1>5. CASE format = "os-release"
  BY <1>5, QuotedLine DEF Reader!Parse
<1>6. QED
  BY <1>1, <1>2, <1>3, <1>4, <1>5

LEMMA ParseIsRecord ==
  ASSUME format \in {"stat", "status", "meminfo", "cpuinfo", "os-release"}, NEW p
  PROVE  LET rec == Reader!Parse(p) IN rec = Reader!Record(rec.key, rec.values, rec.next)
<1>1. \E a, b, c : Reader!Parse(p) = Reader!Record(a, b, c)
  BY DEF Reader!Parse, Reader!ParseStat, Reader!ParseStatus, Reader!ParseAmount,
         Reader!ParseUnparsed, Reader!ParseCpuInfo, Reader!ParseOsRelease
<1>2. QED
  BY <1>1 DEF Reader!Record
-----------------------------------------------------------------------------
\* The lines of a text.
LEMMA TextLines ==
  ASSUME IsText, NEW l \in Reader!Lines
  PROVE  /\ l[1] \in 1..Len(text) /\ l[2] \in l[1]..Reader!End
         /\ l[1] = 1 \/ text[l[1] - 1] = "nl"
         /\ l[2] = Reader!End \/ text[l[2]] = "nl"
         /\ \A k \in l[1]..(l[2] - 1) : text[k] # "nl"
         /\ \E k \in l[1]..(l[2] - 1) : text[k] # "ws"
         /\ text[l[1]] # "nl"
<1>1. PICK i \in Reader!LineStarts :
        l = <<i, Reader!UntilNl[i]>> /\ \E k \in Reader!Span(l) : text[k] # "ws"
  BY DEF Reader!Lines
<1>2. i \in 1..Len(text) /\ (i = 1 \/ text[i - 1] = "nl") /\ i \in Reader!Position
  BY EndOfText DEF Reader!LineStarts
<1>3. l[1] = i /\ l[2] = Reader!UntilNl[i]
  BY <1>1
<1>4. /\ Run(l[1], l[2], Reader!Lexeme \ {"nl"})
      /\ l[2] = Reader!End \/ text[l[2]] = "nl"
  BY <1>2, <1>3, UntilNlFacts
<1>5. \E k \in l[1]..(l[2] - 1) : text[k] # "ws"
  BY <1>1 DEF Reader!Span
<1>6. l[2] \in l[1]..Reader!End /\ \A k \in l[1]..(l[2] - 1) : text[k] # "nl"
  BY <1>4 DEF Run
<1>7. l[1] \in l[1]..(l[2] - 1)
  BY <1>2, <1>3, <1>5, <1>6, EndOfText
<1>8. QED
  BY <1>2, <1>3, <1>4, <1>5, <1>6, <1>7

\* The line from i on, where p to e has been read behind white space.
LEMMA LineFrom ==
  ASSUME IsText, NEW i \in 1..Len(text), i = 1 \/ text[i - 1] = "nl",
         NEW p \in i..Len(text), \A k \in i..(p - 1) : text[k] = "ws", text[p] # "ws",
         NEW e \in (p + 1)..Reader!End, \A k \in p..(e - 1) : text[k] # "nl",
         NEW line, line = <<i, Reader!UntilNl[i]>>
  PROVE  /\ line \in Reader!Lines /\ line[1] = i /\ p \in Reader!Span(line)
         /\ Reader!Solid(p..(e - 1)) \subseteq Reader!Solid(Reader!Span(line))
         /\ e = Reader!End \/ text[e] = "nl" =>
              Reader!Solid(p..(e - 1)) = Reader!Solid(Reader!Span(line))
<1> DEFINE f == Reader!UntilNl[i]
<1>1. /\ Len(text) \in Nat /\ Reader!End = Len(text) + 1 /\ i \in Reader!Position
      /\ Reader!Fail = 0
  BY EndOfText
<1>2. /\ Run(i, f, Reader!Lexeme \ {"nl"})
      /\ f = Reader!End \/ text[f] = "nl"
  BY <1>1, UntilNlFacts
<1>3. line[1] = i /\ line[2] = f
  OBVIOUS
<1> HIDE DEF f
<1>4. Reader!Span(line) = i..(f - 1)
  BY <1>3 DEF Reader!Span
<1>5. f \in i..Reader!End /\ \A k \in i..(f - 1) : text[k] # "nl"
  BY <1>2 DEF Run
<1>6. \A k \in i..(e - 1) : text[k] # "nl"
  BY <1>1
<1>7. e <= f
  <2>1. ASSUME f < e PROVE FALSE
    <3>1. f # Reader!End /\ f \in i..(e - 1)
      BY <1>1, <1>5, <2>1
    <3>2. QED
      BY <1>2, <1>6, <3>1
  <2>2. QED
    BY <1>1, <1>5, <2>1
<1>8. p \in i..(f - 1) /\ p..(e - 1) \subseteq i..(f - 1)
  BY <1>1, <1>5, <1>7
<1>9. line \in Reader!Lines
  <2>1. i \in Reader!LineStarts
    BY DEF Reader!LineStarts
  <2>2. \E k \in Reader!Span(line) : text[k] # "ws"
    BY <1>4, <1>8
  <2>3. QED
    BY <2>1, <2>2 DEF Reader!Lines
<1>10. Reader!Solid(p..(e - 1)) \subseteq Reader!Solid(i..(f - 1))
  BY <1>8 DEF Reader!Solid
<1>11. ASSUME e = Reader!End \/ text[e] = "nl"
       PROVE  Reader!Solid(p..(e - 1)) = Reader!Solid(i..(f - 1))
  <2>1. e = f
    <3>1. ASSUME e < f PROVE FALSE
      <4>1. e # Reader!End /\ e \in i..(f - 1)
        BY <1>1, <1>5, <3>1
      <4>2. QED
        BY <1>5, <1>11, <4>1
    <3>2. QED
      BY <1>1, <1>5, <1>7, <3>1
  <2>2. ASSUME NEW k \in i..(f - 1) PROVE k \in i..(p - 1) \/ k \in p..(e - 1)
    BY <1>1, <2>1
  <2>3. QED
    BY <1>10, <2>2 DEF Reader!Solid
<1>12. QED
  BY <1>3, <1>4, <1>8, <1>9, <1>10, <1>11

\* No line begins behind the first lexeme of a line that has been read, before the
\* next record.
LEMMA LinesUntilNext ==
  ASSUME IsText, NEW i \in 1..Len(text), NEW e \in i..Reader!End, NEW next \in Reader!Position,
         \A k \in i..(e - 1) : text[k] # "nl", LineEnds(e, next),
         NEW l \in Reader!Lines, l[1] \in i..(next - 1)
  PROVE  l[1] = i
<1>1. /\ Len(text) \in Nat /\ Reader!End = Len(text) + 1 /\ Reader!Position = 0..Reader!End
  BY EndOfText
<1>2. /\ l[1] \in 1..Len(text) /\ text[l[1]] # "nl"
      /\ l[1] = 1 \/ text[l[1] - 1] = "nl"
  BY TextLines
<1>3. SUFFICES ASSUME l[1] # i PROVE FALSE
  OBVIOUS
<1>4. l[1] \in (i + 1)..(next - 1) /\ text[l[1] - 1] = "nl" /\ l[1] - 1 \notin i..(e - 1)
  BY <1>1, <1>2, <1>3
<1>5. l[1] \in e..(next - 1)
  BY <1>1, <1>4
<1>6. Run(e, next, {"nl"})
  BY <1>1, <1>5 DEF LineEnds
<1>7. QED
  BY <1>2, <1>5, <1>6 DEF Run
-----------------------------------------------------------------------------
RecordSet ==
  [key : Reader!Position \X Reader!Position, values : Spans, next : Reader!Position]

ReaderTypes ==
  /\ format \in Format /\ text \in Text[format] /\ pos \in 1..Reader!End
  /\ outcome \in Reader!Outcome /\ inCore \in BOOLEAN
  /\ records \in Seq(RecordSet)
  /\ \A n \in DOMAIN records : records[n].key[1] < pos

\* The nth record is of the line, and those before it of all the lines before that.
PlaceOf(n, line) ==
  /\ Reader!IsOf(records[n], line)
  /\ \A m \in Reader!Filled : m < n => records[m].key[1] < line[1]
  /\ \A l \in Reader!Lines :
       l[1] < line[1] => \E m \in Reader!Filled : m < n /\ Reader!IsOf(records[m], l)

Whole(n, line) ==
  PlaceOf(n, line) /\ Reader!Content(records[n]) = Reader!Solid(Reader!Span(line))

\* A line begins here, or the text is at its end, and what is before has been read.
AtLine ==
  /\ pos \in {1, Reader!End} \/ text[pos - 1] = "nl"
  /\ \A n \in Reader!Filled : \E line \in Reader!Lines : Whole(n, line)
  /\ \A l \in Reader!Lines :
       l[1] < pos => \E n \in Reader!Filled : Reader!IsOf(records[n], l)

ReaderInv ==
  /\ ReaderTypes /\ Reader!TypeOK /\ Reader!TextIsUnderstood
  /\ AtLine \/ (Stuck(pos) /\ outcome # "done")

LEMMA SameCardinality == \A S : Reader!Cardinality(S) = Cardinality(S)
BY DEF Reader!Cardinality, Cardinality

LEMMA ReaderTexts ==
  ASSUME ReaderTypes
  PROVE  IsText /\ format \in {"stat", "status", "meminfo", "cpuinfo", "os-release"}
BY TextAssumption DEF ReaderTypes, IsText

LEMMA ReaderInit == Reader!Init => ReaderInv
<1> SUFFICES ASSUME Reader!Init PROVE ReaderInv
  OBVIOUS
<1>1. /\ format \in Format /\ text \in Text[format] /\ pos = 1 /\ records = <<>>
      /\ processors = 0 /\ inCore = FALSE /\ outcome = "running"
  BY DEF Reader!Init
<1>2. IsText
  BY <1>1, TextAssumption DEF IsText
<1>3. pos \in 1..Reader!End /\ outcome \in Reader!Outcome
  BY <1>1, <1>2, EndOfText DEF Reader!Outcome
<1>4. DOMAIN records = {} /\ records \in Seq(RecordSet) /\ Reader!Filled = {}
  BY <1>1 DEF Reader!Filled
<1>5. ReaderTypes
  BY <1>1, <1>3, <1>4 DEF ReaderTypes
<1>6. Reader!TypeOK
  <2>1. {n \in DOMAIN records : Reader!IsCore(records[n])} = {}
    BY <1>4
  <2>2. QED
    BY <1>1, <1>3, <1>4, <2>1, FS_EmptySet, SameCardinality DEF Reader!TypeOK
<1>7. \A l \in Reader!Lines : ~(l[1] < pos)
  BY <1>1, <1>2, TextLines
<1>8. AtLine
  BY <1>1, <1>4, <1>7 DEF AtLine
<1>9. Reader!TextIsUnderstood
  BY <1>1, <1>4 DEF Reader!TextIsUnderstood, Reader!RecordsAreLines, Reader!DoneMeansAll
<1>10. QED
  BY <1>5, <1>6, <1>8, <1>9 DEF ReaderInv

\* What does not depend on more than the text and its format.
LEMMA SameText ==
  ASSUME UNCHANGED <<format, text>>
  PROVE  /\ Reader!End' = Reader!End /\ Reader!Lines' = Reader!Lines
         /\ Reader!Position' = Reader!Position /\ RecordSet' = RecordSet
         /\ \A S : Reader!Solid(S)' = Reader!Solid(S)
         /\ \A rec : /\ Reader!Content(rec)' = Reader!Content(rec)
                     /\ Reader!IsCore(rec)' = Reader!IsCore(rec)
         /\ \A i : Stuck(i)' = Stuck(i)
<1>1. Reader!End' = Reader!End
  BY DEF Reader!End
<1>2. \A i, C : Reader!Skip(i, C)' = Reader!Skip(i, C)
  BY <1>1 DEF Reader!Skip, Reader!At, Reader!Inside
<1>3. Reader!Position' = Reader!Position
  BY <1>1 DEF Reader!Position
<1>4. Reader!UntilNl' = Reader!UntilNl /\ Reader!Word' = Reader!Word
  BY <1>2, <1>3 DEF Reader!UntilNl, Reader!Word, Reader!At, Reader!Inside
<1>5. Reader!Lines' = Reader!Lines
  BY <1>4 DEF Reader!Lines, Reader!LineStarts
<1>6. \A S : Reader!Solid(S)' = Reader!Solid(S)
  BY DEF Reader!Solid
<1>7. \A rec : Reader!Content(rec)' = Reader!Content(rec)
  BY <1>6 DEF Reader!Content
<1>8. \A rec : Reader!IsCore(rec)' = Reader!IsCore(rec)
  BY DEF Reader!IsCore, Reader!IsKey
<1>9. \A i : Stuck(i)' = Stuck(i)
  BY <1>1, <1>4 DEF Stuck
<1>10. RecordSet' = RecordSet
  BY <1>3 DEF RecordSet, Spans
<1>11. QED
  BY <1>1, <1>3, <1>5, <1>6, <1>7, <1>8, <1>9, <1>10
-----------------------------------------------------------------------------
LEMMA StartFacts ==
  ASSUME IsText, pos \in 1..Reader!End, ~Reader!AtEnd
  PROVE  /\ Reader!Start \in pos..Len(text) /\ text[Reader!Start] # "ws"
         /\ \A k \in pos..(Reader!Start - 1) : text[k] = "ws"
<1> DEFINE s == Reader!Skip(pos, {"ws"})
<1>1. /\ Len(text) \in Nat /\ Reader!End = Len(text) + 1 /\ pos \in Reader!Position
      /\ Reader!Start = s /\ s # Reader!End
  BY EndOfText DEF Reader!Start, Reader!AtEnd
<1>2. /\ s \in pos..Reader!End /\ ~Reader!At(s, {"ws"})
      /\ \A k \in pos..(s - 1) : Reader!At(k, {"ws"})
  BY <1>1, SkipFacts
<1> HIDE DEF s
<1>3. s \in pos..Len(text) /\ s \in 1..Len(text)
  BY <1>1, <1>2
<1>4. QED
  BY <1>1, <1>2, <1>3, EndOfText DEF Reader!At

\* In the middle of a line of /proc/stat no record is found.
LEMMA StuckStart ==
  ASSUME IsText, pos \in 1..Reader!End, Stuck(pos)
  PROVE  ~Reader!AtEnd /\ Reader!Parsed.next = Reader!Fail
<1>1. /\ Len(text) \in Nat /\ Reader!End = Len(text) + 1 /\ pos \in Reader!Position
      /\ pos \in 1..Len(text) /\ text[pos] # "ws"
  BY EndOfText DEF Stuck
<1>2. /\ Reader!Start \in pos..Reader!End
      /\ \A k \in pos..(Reader!Start - 1) : Reader!At(k, {"ws"})
  BY <1>1, SkipFacts DEF Reader!Start
<1>3. Reader!Start = pos
  <2>1. pos \notin pos..(Reader!Start - 1)
    BY <1>1, <1>2 DEF Reader!At
  <2>2. QED
    BY <1>1, <1>2, <2>1
<1>4. QED
  BY <1>1, <1>3, StuckFails DEF Stuck, Reader!AtEnd, Reader!Parsed, Reader!Parse

LEMMA RecordFacts ==
  ASSUME ReaderTypes, ~Reader!AtEnd, NEW rec, rec = Reader!Parsed,
         NEW p, p = Reader!Start, rec.next # Reader!Fail
  PROVE  /\ rec \in RecordSet /\ rec.key[1] = p /\ rec.next \in (p + 1)..Reader!End
         /\ \/ IsEmpty(rec, p)
            \/ \E e : /\ Covers(rec, p, e)
                      /\ LineEnds(e, rec.next) \/ (rec.next = e /\ Stuck(e))
         /\ Reader!IsCore(rec) => rec.values # <<>>
<1>1. IsText /\ format \in {"stat", "status", "meminfo", "cpuinfo", "os-release"}
  BY ReaderTexts
<1>2. /\ pos \in 1..Reader!End /\ Len(text) \in Nat /\ Reader!End = Len(text) + 1
      /\ Reader!Position = 0..Reader!End
  BY <1>1, EndOfText DEF ReaderTypes
<1>3. p \in 1..Len(text)
  BY <1>1, <1>2, StartFacts
<1>4. rec = Reader!Parse(p)
  BY DEF Reader!Parsed
<1>5. /\ rec.next \in Reader!Position
      /\ \/ IsEmpty(rec, p)
         \/ \E e : /\ Covers(rec, p, e)
                   /\ LineEnds(e, rec.next) \/ (rec.next = e /\ Stuck(e))
  BY <1>1, <1>3, <1>4, ParseFacts
<1>6. rec = Reader!Record(rec.key, rec.values, rec.next)
  BY <1>1, <1>4, ParseIsRecord
<1>7. CASE IsEmpty(rec, p)
  <2>1. rec.key = <<p, p>> /\ rec.values = <<>> /\ rec.next \in (p + 1)..Reader!End
    BY <1>2, <1>3, <1>7 DEF IsEmpty, Run
  <2>2. <<p, p>> \in Reader!Position \X Reader!Position /\ rec.values \in Spans
    BY <1>2, <1>3, <2>1 DEF Spans
  <2>3. rec \in RecordSet
    BY <1>5, <1>6, <2>1, <2>2 DEF Reader!Record, RecordSet
  <2>4. ~Reader!IsCore(rec)
    BY <1>3, <2>1 DEF Reader!IsCore, Reader!IsKey
  <2>5. QED
    BY <1>5, <2>1, <2>3, <2>4
<1>8. ASSUME NEW e, Covers(rec, p, e), LineEnds(e, rec.next) \/ (rec.next = e /\ Stuck(e))
      PROVE  rec \in RecordSet /\ rec.key[1] = p /\ rec.next \in (p + 1)..Reader!End
             /\ rec.values # <<>>
  <2>1. /\ rec.key \in Reader!Position \X Reader!Position /\ rec.values \in Spans
        /\ rec.key[1] = p /\ rec.values # <<>> /\ e \in (p + 1)..Reader!End
    BY <1>8 DEF Covers
  <2>2. rec.next \in e..Reader!End
    BY <1>2, <1>8, <2>1 DEF LineEnds, Run
  <2>3. rec \in RecordSet
    BY <1>5, <1>6, <2>1 DEF Reader!Record, RecordSet
  <2>4. QED
    BY <1>2, <1>3, <2>1, <2>2, <2>3
<1>9. QED
  BY <1>5, <1>7, <1>8

LEMMA AppendFacts ==
  ASSUME ReaderTypes, UNCHANGED <<format, text>>, NEW rec \in RecordSet,
         records' = Append(records, rec)
  PROVE  /\ Len(records) \in Nat /\ DOMAIN records = 1..Len(records)
         /\ Len(records') = Len(records) + 1 /\ DOMAIN records' = 1..(Len(records) + 1)
         /\ records' \in Seq(RecordSet')
         /\ \A n \in 1..Len(records) : records'[n] = records[n]
         /\ records'[Len(records) + 1] = rec
         /\ Reader!Filled \subseteq 1..Len(records)
         /\ Reader!Filled' = IF rec.values = <<>> THEN Reader!Filled
                             ELSE Reader!Filled \cup {Len(records) + 1}
<1>1. /\ Len(records) \in Nat /\ DOMAIN records = 1..Len(records)
      /\ Len(records') = Len(records) + 1 /\ DOMAIN records' = 1..(Len(records) + 1)
      /\ records' \in Seq(RecordSet)
      /\ \A n \in 1..Len(records) : records'[n] = records[n]
      /\ records'[Len(records) + 1] = rec
  BY DEF ReaderTypes
<1>2. records' \in Seq(RecordSet')
  BY <1>1, SameText
<1>3. Reader!Filled' = {n \in DOMAIN records' : records'[n].values # <<>>}
  BY DEF Reader!Filled
<1>4. Reader!Filled = {n \in DOMAIN records : records[n].values # <<>>}
  BY DEF Reader!Filled
<1>5. 1..(Len(records) + 1) = 1..Len(records) \cup {Len(records) + 1}
  BY <1>1
<1>6. ASSUME NEW n
      PROVE  n \in Reader!Filled' <=>
               n \in Reader!Filled \/ (n = Len(records) + 1 /\ rec.values # <<>>)
  BY <1>1, <1>3, <1>4, <1>5
<1>7. QED
  BY <1>1, <1>2, <1>4, <1>6

\* The cores are counted, and pcore is set from "processor" to the next empty line.
LEMMA CoresCounted ==
  ASSUME ReaderTypes, Reader!TypeOK, UNCHANGED <<format, text>>, NEW rec \in RecordSet,
         records' = Append(records, rec), Reader!IsCore(rec) => rec.values # <<>>,
         processors' = IF Reader!IsCore(rec) THEN processors + 1 ELSE processors,
         inCore' = (Reader!IsCore(rec) \/ (inCore /\ rec.values # <<>>))
  PROVE  /\ processors' = Cardinality({n \in DOMAIN records' : Reader!IsCore(records'[n])})
         /\ inCore' <=> \E n \in DOMAIN records' :
                          /\ Reader!IsCore(records'[n])
                          /\ \A m \in n..Len(records') : records'[m].values # <<>>
<1> DEFINE N == Len(records)
           S == {n \in DOMAIN records : Reader!IsCore(records[n])}
           T == {n \in DOMAIN records' : Reader!IsCore(records'[n])}
<1>1. /\ N \in Nat /\ DOMAIN records = 1..N /\ Len(records') = N + 1
      /\ DOMAIN records' = 1..(N + 1) /\ records'[N + 1] = rec
      /\ \A n \in 1..N : records'[n] = records[n]
  BY AppendFacts
<1> HIDE DEF N
<1>2. T = IF Reader!IsCore(rec) THEN S \cup {N + 1} ELSE S
  <2>1. ASSUME NEW n PROVE n \in T <=> n \in S \/ (n = N + 1 /\ Reader!IsCore(rec))
    BY <1>1
  <2>2. QED
    BY <2>1
<1>3. IsFiniteSet(S) /\ N + 1 \notin S
  <2>1. IsFiniteSet(1..N) /\ S \subseteq 1..N
    BY <1>1, FS_Interval
  <2>2. N + 1 \notin 1..N
    BY <1>1
  <2>3. QED
    BY <2>1, <2>2, FS_Subset
<1>4. processors = Cardinality(S)
  BY SameCardinality DEF Reader!TypeOK
<1>5. processors' = Cardinality(T)
  <2> HIDE DEF S, T
  <2>1. QED
    BY <1>2, <1>3, <1>4, FS_AddElement
<1>6. inCore <=> \E n \in 1..N : /\ Reader!IsCore(records[n])
                                 /\ \A m \in n..N : records[m].values # <<>>
  BY <1>1 DEF Reader!TypeOK, N
<1>7. (\E n \in 1..(N + 1) : /\ Reader!IsCore(records'[n])
                             /\ \A m \in n..(N + 1) : records'[m].values # <<>>)
      <=> Reader!IsCore(rec) \/ (inCore /\ rec.values # <<>>)
  <2>1. ASSUME NEW n \in 1..(N + 1), Reader!IsCore(records'[n]),
               \A m \in n..(N + 1) : records'[m].values # <<>>
        PROVE  Reader!IsCore(rec) \/ (inCore /\ rec.values # <<>>)
    <3>1. CASE n = N + 1
      BY <1>1, <2>1, <3>1
    <3>2. CASE n \in 1..N
      <4>1. rec.values # <<>>
        BY <1>1, <2>1
      <4>2. ASSUME NEW m \in n..N PROVE records[m].values # <<>>
        BY <1>1, <2>1, <4>2
      <4>3. inCore
        BY <1>1, <1>6, <2>1, <3>2, <4>2
      <4>4. QED
        BY <4>1, <4>3
    <3>3. QED
      BY <1>1, <3>1, <3>2
  <2>2. ASSUME Reader!IsCore(rec)
        PROVE  \E n \in 1..(N + 1) : /\ Reader!IsCore(records'[n])
                                     /\ \A m \in n..(N + 1) : records'[m].values # <<>>
    <3>1. N + 1 \in 1..(N + 1) /\ \A m \in (N + 1)..(N + 1) : m = N + 1
      BY <1>1
    <3>2. QED
      BY <1>1, <2>2, <3>1
  <2>3. ASSUME inCore, rec.values # <<>>
        PROVE  \E n \in 1..(N + 1) : /\ Reader!IsCore(records'[n])
                                     /\ \A m \in n..(N + 1) : records'[m].values # <<>>
    <3>1. PICK n \in 1..N : /\ Reader!IsCore(records[n])
                            /\ \A m \in n..N : records[m].values # <<>>
      BY <1>6, <2>3
    <3>2. ASSUME NEW m \in n..(N + 1) PROVE records'[m].values # <<>>
      BY <1>1, <2>3, <3>1
    <3>3. n \in 1..(N + 1) /\ Reader!IsCore(records'[n])
      BY <1>1, <3>1
    <3>4. QED
      BY <3>2, <3>3
  <2>4. QED
    BY <2>1, <2>2, <2>3
<1>8. QED
  BY <1>1, <1>5, <1>7

\* A new record takes no place from another.
LEMMA KeepsPlace ==
  ASSUME ReaderTypes, UNCHANGED <<format, text>>, NEW rec \in RecordSet,
         records' = Append(records, rec), NEW n \in Reader!Filled, NEW line
  PROVE  /\ PlaceOf(n, line)' <=> PlaceOf(n, line)
         /\ Reader!Content(records[n])' = Reader!Content(records[n])
<1>1. /\ Len(records) \in Nat /\ Reader!Filled \subseteq 1..Len(records)
      /\ \A m \in 1..Len(records) : records'[m] = records[m]
      /\ Reader!Filled' = IF rec.values = <<>> THEN Reader!Filled
                          ELSE Reader!Filled \cup {Len(records) + 1}
  BY AppendFacts
<1>2. n \in 1..Len(records) /\ records'[n] = records[n]
  BY <1>1
<1>3. \A m : m \in Reader!Filled' /\ m < n <=> m \in Reader!Filled /\ m < n
  BY <1>1, <1>2
<1>4. \A m \in Reader!Filled : records'[m] = records[m]
  BY <1>1
<1>5. \A m \in Reader!Filled : \A l : Reader!IsOf(records[m], l)' <=> Reader!IsOf(records[m], l)
  BY <1>4 DEF Reader!IsOf
<1>6. PlaceOf(n, line)' <=> PlaceOf(n, line)
  BY <1>3, <1>4, <1>5, SameText DEF PlaceOf
<1>7. Reader!Content(records[n])' = Reader!Content(records[n])
  BY <1>2, SameText
<1>8. QED
  BY <1>6, <1>7

LEMMA LastBefore == \A i, j \in Int : i <= j /\ i # j => j - 1 \in i..(j - 1)
OBVIOUS

LEMMA ParseRecordStep ==
  ASSUME ReaderInv, Reader!ParseRecord
  PROVE  ReaderInv'
<1> SUFFICES ASSUME NEW p, p = Reader!Start, NEW rec, rec = Reader!Parsed,
                    NEW N, N = Len(records)
             PROVE  ReaderInv'
  OBVIOUS
<1>1. /\ outcome = "running" /\ ~Reader!AtEnd /\ rec.next # Reader!Fail
      /\ pos' = rec.next /\ records' = Append(records, rec) /\ UNCHANGED <<format, text>>
      /\ processors' = IF Reader!IsCore(rec) THEN processors + 1 ELSE processors
      /\ inCore' = (Reader!IsCore(rec) \/ (inCore /\ rec.values # <<>>))
      /\ outcome' \in Reader!Outcome \ {"done"}
  BY DEF Reader!ParseRecord, Reader!After, Reader!Outcome
<1>2. /\ ReaderTypes /\ Reader!TypeOK /\ Reader!TextIsUnderstood
      /\ AtLine \/ (Stuck(pos) /\ outcome # "done")
  BY DEF ReaderInv
<1>3. /\ IsText /\ Len(text) \in Nat /\ Reader!End = Len(text) + 1
      /\ Reader!Position = 0..Reader!End /\ pos \in 1..Reader!End
  BY <1>2, ReaderTexts, EndOfText DEF ReaderTypes
<1>4. /\ p \in pos..Len(text) /\ text[p] # "ws" /\ \A k \in pos..(p - 1) : text[k] = "ws"
  BY <1>1, <1>3, StartFacts
<1>5. /\ rec \in RecordSet /\ rec.key[1] = p /\ rec.next \in (p + 1)..Reader!End
      /\ \/ IsEmpty(rec, p)
         \/ \E e : /\ Covers(rec, p, e)
                   /\ LineEnds(e, rec.next) \/ (rec.next = e /\ Stuck(e))
      /\ Reader!IsCore(rec) => rec.values # <<>>
  BY <1>1, <1>2, RecordFacts
<1>6. AtLine
  BY <1>1, <1>2, <1>3, StuckStart
<1>7. /\ N \in Nat /\ DOMAIN records = 1..N
      /\ Len(records') = N + 1 /\ DOMAIN records' = 1..(N + 1)
      /\ records' \in Seq(RecordSet')
      /\ \A n \in 1..N : records'[n] = records[n]
      /\ records'[N + 1] = rec /\ Reader!Filled \subseteq 1..N
      /\ Reader!Filled' = IF rec.values = <<>> THEN Reader!Filled
                          ELSE Reader!Filled \cup {N + 1}
  BY <1>1, <1>2, <1>5, AppendFacts
<1>8. /\ Reader!End' = Reader!End /\ Reader!Lines' = Reader!Lines
      /\ \A S : Reader!Solid(S)' = Reader!Solid(S)
      /\ \A r : Reader!Content(r)' = Reader!Content(r)
      /\ \A i : Stuck(i)' = Stuck(i)
  BY <1>1, SameText
<1>9. pos < pos' /\ p < pos' /\ pos' \in 1..Reader!End
  BY <1>1, <1>3, <1>4, <1>5
<1>10. ASSUME NEW n \in 1..N
       PROVE  records[n].key[1] \in Reader!Position /\ records[n].key[1] < pos
  <2>1. records[n] \in RecordSet
    BY <1>2, <1>7 DEF ReaderTypes
  <2>2. records[n].key \in Reader!Position \X Reader!Position
    BY <2>1 DEF RecordSet
  <2>3. QED
    BY <1>2, <1>7, <2>2 DEF ReaderTypes
<1>11. ReaderTypes'
  <2>1. /\ format' \in Format /\ text' \in Text[format'] /\ pos' \in 1..Reader!End'
        /\ outcome' \in Reader!Outcome' /\ inCore' \in BOOLEAN
    BY <1>1, <1>2, <1>8, <1>9 DEF ReaderTypes, Reader!Outcome, Reader!IsCore, Reader!IsKey
  <2>2. ASSUME NEW n \in 1..(N + 1) PROVE records'[n].key[1] < pos'
    <3>1. CASE n = N + 1
      BY <1>5, <1>7, <1>9, <3>1
    <3>2. CASE n \in 1..N
      BY <1>3, <1>7, <1>9, <1>10, <3>2
    <3>3. QED
      BY <1>7, <3>1, <3>2
  <2>3. QED
    BY <1>7, <2>1, <2>2 DEF ReaderTypes
<1>12. Reader!TypeOK'
  <2>1. /\ format' \in Format /\ pos' \in 1..Reader!End' /\ outcome' \in Reader!Outcome'
    BY <1>11 DEF ReaderTypes
  <2>2. /\ processors' = Cardinality({n \in DOMAIN records' : Reader!IsCore(records'[n])})
        /\ inCore' <=> \E n \in DOMAIN records' :
                         /\ Reader!IsCore(records'[n])
                         /\ \A m \in n..Len(records') : records'[m].values # <<>>
    BY <1>1, <1>2, <1>5, CoresCounted
  <2>3. QED
    BY <1>1, <2>1, <2>2, SameText, SameCardinality DEF Reader!TypeOK
<1>13. Reader!DoneMeansAll'
  BY <1>1 DEF Reader!DoneMeansAll
\* The lines before and the records of them.
<1>14. /\ pos = 1 \/ text[pos - 1] = "nl"
       /\ \A n \in Reader!Filled : \E line \in Reader!Lines : Whole(n, line)
       /\ \A l \in Reader!Lines :
            l[1] < pos => \E n \in Reader!Filled : Reader!IsOf(records[n], l)
  BY <1>3, <1>4, <1>6 DEF AtLine
<1>15. ASSUME NEW n \in Reader!Filled, NEW line, Whole(n, line)
       PROVE  Whole(n, line)'
  <2>1. /\ PlaceOf(n, line)' <=> PlaceOf(n, line)
        /\ Reader!Content(records[n])' = Reader!Content(records[n])
    BY <1>1, <1>2, <1>5, KeepsPlace
  <2>2. QED
    BY <1>8, <1>15, <2>1 DEF Whole
<1>16. \A n \in Reader!Filled : \E line \in Reader!Lines' : Whole(n, line)'
  BY <1>8, <1>14, <1>15
<1>17. \A l \in Reader!Lines' :
         l[1] < pos => \E n \in Reader!Filled : n \in Reader!Filled' /\ Reader!IsOf(records[n], l)'
  BY <1>7, <1>8, <1>14 DEF Reader!IsOf
<1>18. ASSUME \A n \in Reader!Filled' : \E line \in Reader!Lines' : Whole(n, line)'
       PROVE  Reader!RecordsAreLines'
  BY <1>18 DEF Reader!RecordsAreLines, Whole, PlaceOf
<1>19. CASE IsEmpty(rec, p)
  <2>1. Reader!Filled' = Reader!Filled /\ text[p] = "nl" /\ Run(p, pos', {"nl"})
    BY <1>1, <1>7, <1>19 DEF IsEmpty
  <2>2. /\ pos' \in p..Reader!End /\ \A k \in p..(pos' - 1) : text[k] = "nl"
    BY <2>1 DEF Run
  <2>3. ASSUME NEW l \in Reader!Lines, l[1] < pos' PROVE l[1] < pos
    <3>1. /\ l[1] \in 1..Len(text) /\ text[l[1]] # "nl" /\ l[2] \in l[1]..Reader!End
          /\ l[1] = 1 \/ text[l[1] - 1] = "nl"
          /\ \A k \in l[1]..(l[2] - 1) : text[k] # "nl"
          /\ \E k \in l[1]..(l[2] - 1) : text[k] # "ws"
      BY <1>3, TextLines
    <3>2. SUFFICES ASSUME l[1] \in pos..(pos' - 1) PROVE FALSE
      BY <1>3, <1>9, <2>3, <3>1
    <3>3. l[1] \in pos..(p - 1)
      <4>1. l[1] \notin p..(pos' - 1)
        BY <2>2, <3>1
      <4>2. pos \in Int /\ p \in Int /\ pos' \in Int
        BY <1>3, <1>4, <1>9
      <4>3. QED
        BY <3>2, <4>1, <4>2
    <3>4. l[1] = pos
      <4>1. l[1] # pos => l[1] - 1 \in pos..(p - 1)
        BY <1>3, <1>4, <3>3
      <4>2. l[1] # pos => text[l[1] - 1] = "ws" /\ l[1] # 1
        BY <1>3, <1>4, <3>3, <4>1
      <4>3. QED
        BY <3>1, <4>2
    <3>5. l[2] <= p
      <4>1. p < l[2] => p \in l[1]..(l[2] - 1)
        BY <1>3, <1>4, <3>1, <3>4
      <4>2. QED
        BY <1>3, <1>4, <2>1, <3>1, <4>1
    <3>6. l[1]..(l[2] - 1) \subseteq pos..(p - 1)
      BY <1>3, <1>4, <3>1, <3>4, <3>5
    <3>7. QED
      BY <1>4, <3>1, <3>6
  <2>4. text[pos' - 1] = "nl"
    <3>1. pos' \in Int /\ p \in Int
      BY <1>3, <1>4, <1>9
    <3>2. p <= pos' /\ p # pos'
      BY <1>9, <3>1
    <3>3. pos' - 1 \in p..(pos' - 1)
      BY <3>1, <3>2, LastBefore
    <3>4. QED
      BY <2>2, <3>3
  <2>5. AtLine'
    <3>1. pos' \in {1, Reader!End'} \/ text'[pos' - 1] = "nl"
      BY <1>1, <2>4
    <3>2. ASSUME NEW l \in Reader!Lines', l[1] < pos'
          PROVE  \E n \in Reader!Filled' : Reader!IsOf(records[n], l)'
      BY <1>8, <1>17, <2>3, <3>2
    <3>3. QED
      BY <1>16, <2>1, <3>1, <3>2 DEF AtLine
  <2>6. Reader!RecordsAreLines'
    BY <1>16, <1>18, <2>1
  <2>7. QED
    BY <1>11, <1>12, <1>13, <2>5, <2>6 DEF ReaderInv, Reader!TextIsUnderstood
<1>20. ASSUME NEW e, Covers(rec, p, e), LineEnds(e, rec.next) \/ (rec.next = e /\ Stuck(e))
       PROVE  ReaderInv'
  <2> SUFFICES ASSUME NEW line, line = <<pos, Reader!UntilNl[pos]>>, NEW M, M = N + 1
               PROVE  ReaderInv'
    OBVIOUS
  <2>1. /\ rec.values # <<>> /\ e \in (p + 1)..Reader!End
        /\ \A k \in p..(e - 1) : text[k] # "nl"
        /\ Reader!Content(rec) = Reader!Solid(p..(e - 1))
    BY <1>20 DEF Covers
  <2>2. Reader!Filled' = Reader!Filled \cup {M} /\ M \notin Reader!Filled /\ records'[M] = rec
    BY <1>7, <2>1
  <2>3. pos \in 1..Len(text) /\ p \in pos..Len(text)
    BY <1>3, <1>4
  <2>4. /\ line \in Reader!Lines /\ line[1] = pos /\ p \in Reader!Span(line)
        /\ Reader!Solid(p..(e - 1)) \subseteq Reader!Solid(Reader!Span(line))
        /\ e = Reader!End \/ text[e] = "nl" =>
             Reader!Solid(p..(e - 1)) = Reader!Solid(Reader!Span(line))
    <3>1. pos = 1 \/ text[pos - 1] = "nl"
      BY <1>14
    <3>2. \A k \in pos..(p - 1) : text[k] = "ws"
      BY <1>4
    <3>3. text[p] # "ws"
      BY <1>4
    <3>4. e \in (p + 1)..Reader!End /\ \A k \in p..(e - 1) : text[k] # "nl"
      BY <2>1
    <3>5. IsText
      BY <1>3
    <3>6. QED
      BY <2>3, <3>1, <3>2, <3>3, <3>4, <3>5, LineFrom
  <2>5. PlaceOf(M, line)'
    <3>1. Reader!IsOf(records[M], line)'
      BY <1>5, <2>2, <2>4 DEF Reader!IsOf
    <3>2. ASSUME NEW m \in Reader!Filled', m < M PROVE records'[m].key[1] < line[1]
      <4>1. m \in 1..N
        <5>1. m # M
          BY <1>7, <3>2
        <5>2. QED
          BY <1>7, <2>2, <5>1
      <4>2. QED
        BY <1>7, <1>10, <2>4, <4>1
    <3>3. ASSUME NEW l \in Reader!Lines', l[1] < line[1]
          PROVE  \E m \in Reader!Filled' : m < M /\ Reader!IsOf(records[m], l)'
      <4>1. PICK m \in Reader!Filled : m \in Reader!Filled' /\ Reader!IsOf(records[m], l)'
        BY <1>17, <2>4, <3>3
      <4>2. m < M
        BY <1>7, <4>1
      <4>3. QED
        BY <4>1, <4>2
    <3>4. QED
      BY <3>1, <3>2, <3>3 DEF PlaceOf
  <2>6. CASE LineEnds(e, rec.next)
    <3>1. e = Reader!End \/ text[e] = "nl"
      BY <2>6 DEF LineEnds
    <3>2. Whole(M, line)'
      <4>1. Reader!Content(records[M])' = Reader!Solid(Reader!Span(line))'
        BY <1>8, <2>1, <2>2, <2>4, <3>1
      <4>2. QED
        BY <2>5, <4>1 DEF Whole
    <3>3. \A n \in Reader!Filled' : \E l \in Reader!Lines' : Whole(n, l)'
      BY <1>8, <1>16, <2>2, <2>4, <3>2
    <3>4. pos' \in {1, Reader!End'} \/ text'[pos' - 1] = "nl"
      <4>1. CASE e = Reader!End /\ pos' = e
        BY <1>8, <4>1
      <4>2. CASE text[e] = "nl" /\ pos' # e /\ Run(e, pos', {"nl"})
        <5>1. pos' \in e..Reader!End /\ \A k \in e..(pos' - 1) : text[k] = "nl"
          BY <4>2 DEF Run
        <5>2. pos' - 1 \in e..(pos' - 1)
          <6>1. e \in Int /\ pos' \in Int
            BY <1>3, <1>4, <1>9, <2>1
          <6>2. pos' # e /\ pos' >= e
            BY <4>2, <5>1, <6>1
          <6>3. QED
            BY <6>1, <6>2, LastBefore
        <5>3. QED
          BY <1>1, <5>1, <5>2
      <4>3. QED
        BY <1>1, <2>6, <4>1, <4>2 DEF LineEnds
    <3>5. ASSUME NEW l \in Reader!Lines', l[1] < pos'
          PROVE  \E n \in Reader!Filled' : Reader!IsOf(records[n], l)'
      <4>1. l \in Reader!Lines
        BY <1>8
      <4>2. CASE l[1] < pos
        BY <1>17, <4>2
      <4>3. CASE ~(l[1] < pos)
        <5>1. /\ l[1] \in 1..Len(text) /\ l[2] \in l[1]..Reader!End
              /\ l[2] = Reader!End \/ text[l[2]] = "nl"
              /\ \E k \in l[1]..(l[2] - 1) : text[k] # "ws"
              /\ text[l[1]] # "nl"
          BY <1>3, <4>1, TextLines
        <5>2. /\ e \in pos..Reader!End /\ rec.next \in Reader!Position
              /\ l[1] \in pos..(rec.next - 1)
              /\ \A k \in pos..(e - 1) : text[k] # "nl"
          <6>1. ASSUME NEW k \in pos..(e - 1) PROVE k \in pos..(p - 1) \/ k \in p..(e - 1)
            BY <1>3, <1>4, <2>1
          <6>2. QED
            <7>1. e \in pos..Reader!End /\ rec.next \in Reader!Position
              BY <1>3, <1>4, <1>5, <2>1
            <7>2. l[1] \in pos..(rec.next - 1)
              BY <1>1, <1>3, <1>9, <3>5, <4>3, <5>1
            <7>3. \A k \in pos..(e - 1) : text[k] # "nl"
              BY <1>4, <2>1, <6>1
            <7>4. QED
              BY <7>1, <7>2, <7>3
        <5>3. l[1] = pos
          BY <1>3, <2>3, <2>6, <4>1, <5>2, LinesUntilNext
        <5>4. p \in l[1]..(l[2] - 1)
          <6>1. l[2] \notin pos..p
            <7>1. ASSUME l[2] \in pos..p PROVE FALSE
              <8>1. l[2] # Reader!End /\ l[2] \in pos..(e - 1)
                BY <1>3, <1>4, <2>1, <7>1
              <8>2. QED
                BY <5>1, <5>2, <8>1
            <7>2. QED
              BY <7>1
          <6>2. QED
            BY <1>3, <1>4, <5>1, <5>3, <6>1
        <5>5. Reader!IsOf(records[M], l)'
          BY <1>5, <2>2, <5>4 DEF Reader!IsOf, Reader!Span
        <5>6. QED
          BY <2>2, <5>5
      <4>4. QED
        BY <4>2, <4>3
    <3>6. AtLine'
      BY <3>3, <3>4, <3>5 DEF AtLine
    <3>7. QED
      BY <1>11, <1>12, <1>13, <1>18, <3>3, <3>6 DEF ReaderInv, Reader!TextIsUnderstood
  <2>7. CASE rec.next = e /\ Stuck(e)
    <3>1. Stuck(pos)' /\ format' = "stat" /\ outcome' # "done"
      BY <1>1, <1>8, <2>7 DEF Stuck
    <3>2. Reader!RecordsAreLines'
      <4>1. ASSUME NEW n \in Reader!Filled
            PROVE  \E l \in Reader!Lines' : Whole(n, l)'
        BY <1>16
      <4>2. /\ line \in Reader!Lines' /\ M = Len(records')
            /\ Reader!Content(records[M])' \subseteq Reader!Solid(Reader!Span(line))'
        BY <1>7, <1>8, <2>1, <2>2, <2>4
      <4>3. QED
        BY <2>2, <2>5, <3>1, <4>1, <4>2 DEF Reader!RecordsAreLines, Whole, PlaceOf
    <3>3. QED
      BY <1>11, <1>12, <1>13, <3>1, <3>2 DEF ReaderInv, Reader!TextIsUnderstood
  <2>8. QED
    BY <1>20, <2>6, <2>7
<1>21. QED
  BY <1>5, <1>19, <1>20

\* A step that ends the loop, or none.
LEMMA OutcomeStep ==
  ASSUME ReaderInv,
         UNCHANGED <<format, text, pos, records, processors, inCore>>,
         outcome' \in Reader!Outcome,
         outcome' = "done" =>
           /\ AtLine
           /\ format # "cpuinfo" => \A l \in Reader!Lines :
                \E n \in Reader!Filled : Reader!IsOf(records[n], l)
  PROVE  ReaderInv'
<1>1. /\ ReaderTypes /\ Reader!TypeOK /\ Reader!RecordsAreLines
      /\ AtLine \/ (Stuck(pos) /\ outcome # "done")
  BY DEF ReaderInv, Reader!TextIsUnderstood
<1>2. /\ Reader!End' = Reader!End /\ Reader!Lines' = Reader!Lines /\ RecordSet' = RecordSet
      /\ \A S : Reader!Solid(S)' = Reader!Solid(S)
      /\ \A r : Reader!Content(r)' = Reader!Content(r) /\ Reader!IsCore(r)' = Reader!IsCore(r)
      /\ \A i : Stuck(i)' = Stuck(i)
  BY SameText
<1>3. Reader!Filled' = Reader!Filled
  BY DEF Reader!Filled
<1>4. \A n \in Reader!Filled, line \in Reader!Lines : PlaceOf(n, line)' <=> PlaceOf(n, line)
  BY <1>2, <1>3 DEF PlaceOf, Reader!IsOf
<1>5. \A n \in Reader!Filled, line \in Reader!Lines : Whole(n, line)' <=> Whole(n, line)
  BY <1>2, <1>4 DEF Whole
<1>6. ReaderTypes'
  BY <1>1, <1>2 DEF ReaderTypes, Reader!Outcome
<1>7. Reader!TypeOK'
  <2>1. format' \in Format /\ pos' \in 1..Reader!End' /\ outcome' \in Reader!Outcome'
    BY <1>6 DEF ReaderTypes
  <2>2. QED
    BY <1>1, <1>2, <2>1, SameCardinality DEF Reader!TypeOK
<1>8. AtLine <=> AtLine'
  BY <1>2, <1>3, <1>5 DEF AtLine, Reader!IsOf
<1>9. Reader!RecordsAreLines'
  <2>1. CASE outcome' = "done"
    BY <1>8, <2>1 DEF AtLine, Reader!RecordsAreLines, Whole, PlaceOf
  <2>2. CASE outcome' # "done"
    BY <1>1, <1>2, <1>3, <2>2 DEF Reader!RecordsAreLines, Reader!IsOf
  <2>3. QED
    BY <2>1, <2>2
<1>10. Reader!DoneMeansAll'
  BY <1>2, <1>3 DEF Reader!DoneMeansAll, Reader!IsOf
<1>11. AtLine' \/ (Stuck(pos)' /\ outcome' # "done")
  BY <1>1, <1>2, <1>8
<1>12. QED
  BY <1>6, <1>7, <1>9, <1>10, <1>11 DEF ReaderInv, Reader!TextIsUnderstood

\* At the end of the text no line is left.
LEMMA EndOfTextStep ==
  ASSUME ReaderInv, Reader!EndOfText
  PROVE  ReaderInv'
<1>1. /\ Reader!AtEnd /\ outcome' = "done"
      /\ UNCHANGED <<format, text, pos, records, processors, inCore>>
  BY DEF Reader!EndOfText
<1>2. ReaderTypes /\ (AtLine \/ Stuck(pos))
  BY DEF ReaderInv
<1>3. /\ IsText /\ Len(text) \in Nat /\ Reader!End = Len(text) + 1
      /\ pos \in 1..Reader!End /\ pos \in Reader!Position
  BY <1>2, ReaderTexts, EndOfText DEF ReaderTypes
<1>4. AtLine
  BY <1>1, <1>2, <1>3, StuckStart
<1>5. \A k \in pos..Len(text) : text[k] = "ws"
  <2>1. \A k \in pos..(Reader!Start - 1) : Reader!At(k, {"ws"})
    BY <1>3, SkipFacts DEF Reader!Start
  <2>2. QED
    BY <1>1, <1>3, <2>1 DEF Reader!At, Reader!AtEnd
<1>6. ASSUME NEW l \in Reader!Lines
      PROVE  \E n \in Reader!Filled : Reader!IsOf(records[n], l)
  <2>1. /\ l[1] \in 1..Len(text) /\ l[2] \in l[1]..Reader!End
        /\ \E k \in l[1]..(l[2] - 1) : text[k] # "ws"
    BY <1>3, TextLines
  <2>2. ASSUME ~(l[1] < pos) PROVE FALSE
    <3>1. \A k \in l[1]..(l[2] - 1) : k \in pos..Len(text)
      BY <1>3, <2>1, <2>2
    <3>2. QED
      BY <1>5, <2>1, <3>1
  <2>3. QED
    BY <1>4, <2>2 DEF AtLine
<1>7. outcome' \in Reader!Outcome
  BY <1>1 DEF Reader!Outcome
<1>8. QED
  BY <1>1, <1>4, <1>6, <1>7, OutcomeStep

\* Only the loop over /proc/cpuinfo ends as if all was read.
LEMMA ParseFailsStep ==
  ASSUME ReaderInv, Reader!ParseFails
  PROVE  ReaderInv'
<1>1. ReaderTypes /\ (AtLine \/ Stuck(pos))
  BY DEF ReaderInv
<1>2. format \in {"stat", "status", "meminfo", "cpuinfo", "os-release"}
  BY <1>1, ReaderTexts
<1>3. /\ outcome' \in Reader!Outcome
      /\ outcome' = "done" => format = "cpuinfo"
      /\ UNCHANGED <<format, text, pos, records, processors, inCore>>
  BY <1>2 DEF Reader!ParseFails, Reader!Outcome
<1>4. format = "cpuinfo" => AtLine
  BY <1>1 DEF Stuck
<1>5. QED
  BY <1>3, <1>4, OutcomeStep

LEMMA ReaderStep ==
  ASSUME ReaderInv, [Reader!Next]_(Reader!vars)
  PROVE  ReaderInv'
<1>1. CASE Reader!ParseRecord
  BY <1>1, ParseRecordStep
<1>2. CASE Reader!ParseFails
  BY <1>2, ParseFailsStep
<1>3. CASE Reader!EndOfText
  BY <1>3, EndOfTextStep
<1>4. CASE UNCHANGED Reader!vars
  <2>1. UNCHANGED <<format, text, pos, records, processors, inCore, outcome>>
    BY <1>4 DEF Reader!vars
  <2>2. outcome' \in Reader!Outcome
    BY <2>1 DEF ReaderInv, ReaderTypes
  <2>3. outcome' = "done" =>
          /\ AtLine
          /\ format # "cpuinfo" => \A l \in Reader!Lines :
               \E n \in Reader!Filled : Reader!IsOf(records[n], l)
    BY <2>1 DEF ReaderInv, Reader!TextIsUnderstood, Reader!DoneMeansAll
  <2>4. QED
    BY <2>1, <2>2, <2>3, OutcomeStep
<1>5. QED
  BY <1>1, <1>2, <1>3, <1>4 DEF Reader!Next

LEMMA AlwaysRead == Reader!Spec => []ReaderInv
<1>1. Reader!Init => ReaderInv
  BY ReaderInit
<1>2. ReaderInv /\ [Reader!Next]_(Reader!vars) => ReaderInv'
  BY ReaderStep
<1>3. QED
  BY <1>1, <1>2, PTL DEF Reader!Spec

\* The variables of the readers of /proc keep their types for any texts, and pcore
\* (inCore) is set from a "processor" of /proc/cpuinfo to the next empty line
\* (times_provider.cpp).
THEOREM ReaderTypesCorrect == Reader!Spec => []ReaderTypeOK
<1>1. ReaderInv => ReaderTypeOK
  BY DEF ReaderInv, ReaderTypeOK
<1>2. QED
  BY <1>1, AlwaysRead, PTL

\* Whatever the text is, of any length and with any damage: a record that is given
\* out is one line of it, whole, behind the records of all lines before, and a loop
\* that reports no error has read every line (parser.cpp and the providers).
THEOREM TextUnderstood == Reader!Spec => []TextIsUnderstood
<1>1. ReaderInv => TextIsUnderstood
  BY DEF ReaderInv, TextIsUnderstood
<1>2. QED
  BY <1>1, AlwaysRead, PTL

\* Every turn of a loop leads on in the text, or is the last: what lets the queries
\* return, whatever the text is.
TurnLeadsOn == (pos' > pos /\ UNCHANGED <<format, text>>) \/ outcome' # "running"

THEOREM EveryTurnLeadsOn ==
  Reader!Spec => [][TurnLeadsOn /\ outcome = "running"]_(Reader!vars)
<1>1. ASSUME ReaderInv, Reader!Next PROVE TurnLeadsOn /\ outcome = "running"
  <2>1. CASE Reader!ParseRecord
    <3>1. /\ ~Reader!AtEnd /\ Reader!Parsed.next # Reader!Fail /\ pos' = Reader!Parsed.next
          /\ UNCHANGED <<format, text>> /\ outcome = "running"
      BY <2>1 DEF Reader!ParseRecord
    <3>2. ReaderTypes
      BY <1>1 DEF ReaderInv
    <3>3. IsText /\ pos \in 1..Reader!End /\ Reader!End \in Nat
      BY <3>2, ReaderTexts, EndOfText DEF ReaderTypes
    <3>4. Reader!Start \in pos..Len(text) /\ Len(text) \in Nat
      BY <3>1, <3>3, StartFacts, EndOfText
    <3>5. pos' \in (Reader!Start + 1)..Reader!End
      BY <3>1, <3>2, RecordFacts
    <3>6. QED
      BY <3>1, <3>3, <3>4, <3>5 DEF TurnLeadsOn
  <2>2. CASE Reader!ParseFails
    <3>1. format \in {"stat", "status", "meminfo", "cpuinfo", "os-release"}
      BY <1>1, ReaderTexts DEF ReaderInv
    <3>2. QED
      BY <2>2, <3>1 DEF Reader!ParseFails, TurnLeadsOn
  <2>3. CASE Reader!EndOfText
    BY <2>3 DEF Reader!EndOfText, TurnLeadsOn
  <2>4. QED
    BY <1>1, <2>1, <2>2, <2>3 DEF Reader!Next
<1>2. ReaderInv /\ [Reader!Next]_(Reader!vars)
        => [TurnLeadsOn /\ outcome = "running"]_(Reader!vars)
  BY <1>1
<1>3. QED
  BY <1>2, AlwaysRead, PTL DEF Reader!Spec
=============================================================================
