---------------------------- MODULE SystemCounters ----------------------------
(***************************************************************************)
(* ionik::metrics::system_counters on Linux: its constructor and query(),  *)
(* with times_provider, proc_stat_provider, sysinfo_provider and           *)
(* proc_self_status_provider, call after call on one object.               *)
(*                                                                         *)
(* The counters of the system grow, but are reset or wrap, so that a       *)
(* reading is any record of values.  The processor cores that /proc/stat   *)
(* lists come and go.  A usage is a pair of ticks: busy ones and all.      *)
(* Amounts of memory are only copied, and stand for one: swap_total.       *)
(***************************************************************************)
EXTENDS Integers, FiniteSets

CONSTANTS
  Reading,     \* what a line of /proc/stat may say of a core
  MaxNow,      \* bound: values of times()
  MaxIndex,    \* bound: index of the last core; index 0 is the line "cpu"
  MaxHotplug,  \* bound: how often the set of cores changes
  MaxFault,    \* bound: failing system calls, and damaged texts
  None         \* no value

ASSUME CountersAssumption ==
  /\ Reading \subseteq [usr : Nat, usr_low : Nat, sys : Nat, idl : Nat]
  /\ None \notin Reading \cup {0, 1}
  /\ {MaxNow, MaxIndex, MaxHotplug, MaxFault} \subseteq Nat

VARIABLES
  online,     \* the indices that /proc/stat lists
  cores,      \* _times_provider._cpu_info.size()
  ticks,      \* _recent_ticks, _recent_sys, _recent_usr
  recent,     \* _stat_provider._cpu_recent_data
  pc,         \* where the constructor or the query is
  index,      \* the line of /proc/stat that is next
  usage,      \* counters.cpu_usage
  total,      \* counters.cpu_usage_total
  swap,       \* counters.swap_total
  failed,     \* the providers that returned false
  err,        \* *perr of this call is set
  seen,       \* history: the last reading of each line that was looked at
  hotplugs, faults

systemVars == <<online, hotplugs>>
timesVars == <<cores, ticks, usage>>
statVars == <<recent, index, total, seen>>
callVars == <<swap, failed, err, faults>>
vars == <<systemVars, timesVars, statVars, callVars, pc>>

NoTicks == [usr |-> 0, usr_low |-> 0, sys |-> 0, idl |-> 0]
Index == 0..MaxIndex

\* What times() returns.  The times of the process in the kernel and outside it
\* are treated alike; usr stands for both.
Times == [now : 0..MaxNow, usr : 0..1]

Init ==
  /\ online \in {S \cup {0} : S \in SUBSET Index}
  /\ cores = 0
  /\ ticks = [now |-> -1, usr |-> -1]
  /\ recent = [i \in {} |-> 0]
  /\ pc = "none"
  /\ index = 0
  /\ usage = None /\ total = None /\ swap = None
  /\ failed = {}
  /\ err = FALSE
  /\ seen = [i \in Index |-> None]
  /\ hotplugs = 0 /\ faults = 0
-----------------------------------------------------------------------------
\* A core is switched on or off.
Hotplug ==
  /\ pc \in {"none", "idle"}
  /\ hotplugs < MaxHotplug
  /\ hotplugs' = hotplugs + 1
  /\ \E i \in Index \ {0} :
       online' = IF i \in online THEN online \ {i} ELSE online \cup {i}
  /\ UNCHANGED <<timesVars, statVars, callVars, pc>>

\* Something fails, and throw_or() reports it through perr.
Fault ==
  /\ faults < MaxFault
  /\ faults' = faults + 1
  /\ err' = TRUE

\* The line that comes next in the text, MaxIndex + 1 at its end.
NextLine ==
  /\ index' \in online \cup {MaxIndex + 1}
  /\ index' > index
  /\ \A i \in online : i > index => index' <= i
-----------------------------------------------------------------------------
\* times_provider: as many cores as are understood of /proc/cpuinfo (ProcText),
\* which may be none.
ConstructTimes ==
  /\ pc = "none"
  /\ cores' \in 0..MaxIndex
  /\ ticks' \in Times
  /\ pc' = "stat::stat"
  /\ UNCHANGED <<systemVars, usage, statVars, callVars>>

\* /proc/cpuinfo is not read, or times() fails.
ConstructTimesFails ==
  /\ pc = "none"
  /\ cores' \in 0..MaxIndex
  /\ Fault
  /\ pc' = "stat::stat"
  /\ UNCHANGED <<systemVars, ticks, usage, statVars, swap, failed>>

\* Mutant: the element is appended, wherever the index says it belongs.
ConstructLineAppended ==
  /\ pc = "stat::stat"
  /\ index <= MaxIndex
  /\ \E current \in Reading :
       /\ recent' = [i \in 0..Cardinality(DOMAIN recent) |->
                       IF i \in DOMAIN recent THEN recent[i] ELSE current]
       /\ seen' = [seen EXCEPT ![index] = current]
  /\ NextLine
  /\ UNCHANGED <<systemVars, timesVars, total, callVars, pc>>

\* proc_stat_provider: _cpu_recent_data.resize(index + 1), and the new element;
\* those skipped have zeros.
ConstructLine ==
  /\ pc = "stat::stat"
  /\ index <= MaxIndex
  /\ \E current \in Reading :
       /\ recent' = [i \in 0..index |->
                       IF i = index THEN current
                       ELSE IF i \in DOMAIN recent THEN recent[i]
                       ELSE NoTicks]
       /\ seen' = [seen EXCEPT ![index] = current]
  /\ NextLine
  /\ UNCHANGED <<systemVars, timesVars, total, callVars, pc>>

\* /proc/stat is not read, or a line is bad: the lines before it are kept.
ConstructLineFails ==
  /\ pc = "stat::stat"
  /\ Fault
  /\ pc' = "constructed"
  /\ UNCHANGED <<systemVars, timesVars, statVars, swap, failed>>

ConstructLastLine ==
  /\ pc = "stat::stat"
  /\ index > MaxIndex
  /\ pc' = "constructed"
  /\ UNCHANGED <<systemVars, timesVars, statVars, callVars>>

\* The object is there: with a place for the error also after a failure.
Constructed ==
  /\ pc = "constructed"
  /\ pc' = "idle"
  /\ UNCHANGED <<systemVars, timesVars, statVars, callVars>>

\* Without such a place the first failure was an exception.
ConstructThrows ==
  /\ pc = "constructed"
  /\ err
  /\ pc' = "thrown"
  /\ UNCHANGED <<systemVars, timesVars, statVars, callVars>>
-----------------------------------------------------------------------------
\* query() with an empty group.
Query ==
  /\ pc = "idle"
  /\ usage' = None /\ total' = None /\ swap' = None
  /\ failed' = {}
  /\ err' = FALSE
  /\ pc' = "times"
  /\ UNCHANGED <<systemVars, cores, ticks, recent, index, seen, faults>>

\* times_provider::calculate_cpu_usage()
QueryTimes ==
  /\ pc = "times"
  /\ cores > 0
  /\ \E now \in Times :
       /\ ticks' = now
       /\ usage' =
            IF now.now <= ticks.now \/ now.usr < ticks.usr
            THEN None
            ELSE <<now.usr - ticks.usr, (now.now - ticks.now) * cores>>
  /\ pc' = "stat"
  /\ UNCHANGED <<systemVars, cores, statVars, callVars>>

QueryTimesFails ==
  /\ pc = "times"
  /\ cores > 0
  /\ Fault
  /\ failed' = failed \cup {"times"}
  /\ pc' = "stat"
  /\ UNCHANGED <<systemVars, timesVars, statVars, swap>>

\* PFS__TERMINATE(cpu_count > 0, "")
Terminate ==
  /\ pc = "times"
  /\ cores = 0
  /\ pc' = "terminated"
  /\ UNCHANGED <<systemVars, timesVars, statVars, callVars>>

\* proc_stat_provider::query() reads the whole text first.
QueryStat ==
  /\ pc = "stat"
  /\ index' = 0
  /\ pc' = "line"
  /\ UNCHANGED <<systemVars, timesVars, recent, total, seen, callVars>>

\* /proc/stat is not read, or the values of a line are bad.
QueryStatFails ==
  /\ pc \in {"stat", "line"}
  /\ Fault
  /\ failed' = failed \cup {"stat"}
  /\ pc' = "sysinfo"
  /\ UNCHANGED <<systemVars, timesVars, statVars, swap>>

\* A line without the form of a record ends the loop like the end of the text,
\* except that *perr is set.
QueryLineDamaged ==
  /\ pc = "line"
  /\ index <= MaxIndex
  /\ Fault
  /\ pc' = "sysinfo"
  /\ UNCHANGED <<systemVars, timesVars, statVars, swap, failed>>

\* A core that the constructor has no element for.
QueryLineUnknown ==
  /\ pc = "line"
  /\ index <= MaxIndex
  /\ index \notin DOMAIN recent
  /\ err' = TRUE
  /\ failed' = failed \cup {"stat"}
  /\ pc' = "sysinfo"
  /\ UNCHANGED <<systemVars, timesVars, statVars, swap, faults>>

\* What was busy, and all, between two readings.
Busy(from, to) ==
  (to.usr - from.usr) + (to.usr_low - from.usr_low) + (to.sys - from.sys)
All(from, to) == Busy(from, to) + (to.idl - from.idl)

\* Mutant: only the sum is looked at.
SkippedBySum(from, to) == All(from, to) <= 0

\* Values to skip: a counter got smaller, or nothing has changed.
Skipped(from, to) ==
  \/ to.usr < from.usr \/ to.usr_low < from.usr_low
  \/ to.sys < from.sys \/ to.idl < from.idl
  \/ All(from, to) = 0

\* calculate_cpu_usage() of one line; the callback of system_counters takes the
\* value of "cpu", and ends the loop then.
QueryLine ==
  /\ pc = "line"
  /\ index \in DOMAIN recent
  /\ \E current \in Reading :
       LET skip == Skipped(recent[index], current)
           stop == index = 0 /\ ~skip
       IN  /\ recent' = [recent EXCEPT ![index] = current]
           /\ seen' = [seen EXCEPT ![index] = current]
           /\ total' = IF stop
                       THEN <<Busy(recent[0], current), All(recent[0], current)>>
                       ELSE total
           /\ pc' = IF stop THEN "sysinfo" ELSE "line"
  /\ NextLine
  /\ UNCHANGED <<systemVars, timesVars, callVars>>

QueryLastLine ==
  /\ pc = "line"
  /\ index > MaxIndex
  /\ pc' = "sysinfo"
  /\ UNCHANGED <<systemVars, timesVars, statVars, callVars>>

QuerySysinfo ==
  /\ pc = "sysinfo"
  /\ swap' \in {0, 1}
  /\ pc' = "status"
  /\ UNCHANGED <<systemVars, timesVars, statVars, failed, err, faults>>

QuerySysinfoFails ==
  /\ pc = "sysinfo"
  /\ Fault
  /\ failed' = failed \cup {"sysinfo"}
  /\ pc' = "status"
  /\ UNCHANGED <<systemVars, timesVars, statVars, swap>>

QueryStatus ==
  /\ pc = "status"
  /\ pc' = "return"
  /\ UNCHANGED <<systemVars, timesVars, statVars, callVars>>

QueryStatusFails ==
  /\ pc = "status"
  /\ Fault
  /\ failed' = failed \cup {"status"}
  /\ pc' = "return"
  /\ UNCHANGED <<systemVars, timesVars, statVars, swap>>

\* An exception instead of an error: the caller has given no place for one, or
\* /proc/self/status is damaged.  The caller has no group, and may go on.
Throw ==
  /\ usage' = None /\ total' = None /\ swap' = None
  /\ pc' = "idle"
  /\ UNCHANGED <<systemVars, cores, ticks, recent, index, seen, failed, err>>

QueryThrows ==
  /\ pc \in {"times", "stat", "line", "sysinfo", "status"}
  /\ pc = "times" => cores > 0
  /\ faults < MaxFault
  /\ faults' = faults + 1
  /\ Throw

QueryLineUnknownThrows ==
  /\ pc = "line"
  /\ index <= MaxIndex
  /\ index \notin DOMAIN recent
  /\ Throw
  /\ UNCHANGED faults

\* The group if all four have succeeded, otherwise an empty one.
Return ==
  /\ pc = "return"
  /\ \/ failed = {} /\ UNCHANGED <<usage, total, swap>>
     \/ failed # {} /\ usage' = None /\ total' = None /\ swap' = None
  /\ pc' = "idle"
  /\ UNCHANGED <<systemVars, cores, ticks, recent, index, seen, failed, err, faults>>

Construct ==
  \/ ConstructTimes \/ ConstructTimesFails
  \/ ConstructLine \/ ConstructLineFails \/ ConstructLastLine
  \/ Constructed \/ ConstructThrows

\* The rest of a call of query().
Continue ==
  \/ QueryTimes \/ QueryTimesFails \/ Terminate
  \/ QueryStat \/ QueryStatFails \/ QueryLine \/ QueryLineDamaged
  \/ QueryLineUnknown \/ QueryLastLine
  \/ QuerySysinfo \/ QuerySysinfoFails
  \/ QueryStatus \/ QueryStatusFails
  \/ QueryThrows \/ QueryLineUnknownThrows
  \/ Return

Next == Hotplug \/ Construct \/ Query \/ Continue

Spec == Init /\ [][Next]_vars
-----------------------------------------------------------------------------
Location ==
  {"none", "stat::stat", "constructed", "idle", "times", "stat", "line", "sysinfo",
   "status", "return", "thrown", "terminated"}

\* The values of the variables.  The vector of recent data has no gaps, and an
\* element for every line it was ever compared with.
TypeOK ==
  /\ online \in SUBSET Index /\ 0 \in online
  /\ cores \in 0..MaxIndex
  /\ pc \in Location
  /\ index \in 0..(MaxIndex + 1)
  /\ DOMAIN recent = 0..(Cardinality(DOMAIN recent) - 1)
  /\ \A i \in DOMAIN recent : recent[i] \in Reading \cup {NoTicks}
  /\ \A i \in Index : seen[i] # None => i \in DOMAIN recent
  /\ swap \in {None, 0, 1}
  /\ failed \subseteq {"times", "stat", "sysinfo", "status"}

\* A usage that is given out is a percentage: of a number of ticks that is not
\* zero, and not less than none and not more than all of them, whatever wraps
\* or is reset between two readings.  (Of the time of the process, it is only
\* known not to be negative: see cores.)
UsageIsPercent ==
  /\ total # None => total[2] > 0 /\ total[1] \in 0..total[2]
  /\ usage # None => usage[2] > 0 /\ usage[1] >= 0

\* Usages are of consecutive intervals: the reference of a line is its last
\* reading, also if that was skipped, so that no tick counts twice or never.
ReferenceIsLastReading ==
  \A i \in Index : seen[i] # None => recent[i] = seen[i]

\* A usage is the share of the ticks between two readings, one after the other.
UsageIsOfInterval == UsageIsPercent /\ ReferenceIsLastReading

\* A query fails on a healthy system only if a core has come up whose index is
\* higher than those of all the cores the constructor has seen.  (After the call
\* that core may be switched off again, while the error is still the caller's.)
ErrorHasCause ==
  err /\ faults = 0 /\ pc # "idle" =>
    \E i \in online : \A j \in Index : seen[j] # None => j < i
=============================================================================
