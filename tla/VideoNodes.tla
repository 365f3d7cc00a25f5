----------------------------- MODULE VideoNodes -----------------------------
(***************************************************************************)
(* ionik::video::fetch_capture_devices() on Linux (Video4Linux2): the scan *)
(* of /dev and the enumerations of each device, while devices are plugged  *)
(* in and out and system calls fail.  An ioctl that a signal interrupts is *)
(* repeated, so that a step is an ioctl with its answer or its failure.    *)
(***************************************************************************)
EXTENDS Integers, Sequences, FiniteSets, SequencesExt

CONSTANTS
  Node,        \* the character devices whose names start with "video"
  Link,        \* the symbolic links to them with such a name
  Target,      \* Target[l]: the node a link points to
  Capture,     \* the nodes with V4L2_CAP_VIDEO_CAPTURE
  Driver,      \* Driver[n]: formats, sequences of [name, sizes], whose sizes are
               \* sequences of [area, rates], whose rates are ratios, and the name
               \* of the current format
  MaxChange    \* bound: devices plugged in or out

VARIABLES
  plugged,     \* the nodes that exist
  step,
  unseen,      \* entries of /dev the scan has not come to
  files,       \* what the scan has found
  at,          \* the file that is asked
  fd,          \* "closed", "open", or "dead": open to a device that is gone
  current,     \* current_pixel_format
  format, size, rate,  \* the indices of the three enumerations
  result,
  disturbed,   \* history: nodes plugged in or out during the call, or of which a
               \* system call has failed
  changes

indices == <<format, size, rate>>
vars == <<plugged, step, unseen, files, at, fd, current, indices, result, disturbed, changes>>

Init ==
  /\ plugged \in SUBSET Node
  /\ step = "scan" /\ unseen = Node \cup Link /\ files = <<>> /\ at = 1 /\ fd = "closed"
  /\ current = "none" /\ format = 1 /\ size = 1 /\ rate = 1
  /\ result = <<>> /\ disturbed = {} /\ changes = 0
-----------------------------------------------------------------------------
Now == files[at]

Toggle(n) ==
  /\ changes < MaxChange /\ changes' = changes + 1
  /\ disturbed' = disturbed \cup {n}

\* A device is plugged in or out; a descriptor that is open to it is of no use
\* from then on, even if the device comes back.
Plug ==
  /\ step \notin {"end", "thrown"}
  /\ \E n \in Node :
       /\ Toggle(n)
       /\ plugged' = IF n \in plugged THEN plugged \ {n} ELSE plugged \cup {n}
       /\ fd' = IF fd # "closed" /\ n = Now THEN "dead" ELSE fd
  /\ UNCHANGED <<step, unseen, files, at, current, indices, result>>
-----------------------------------------------------------------------------
(* The scan.                                                               *)

File(e) == IF e \in Link THEN Target[e] ELSE e

\* Mutant: every entry counts, whatever it points to.
AddEveryFile(e) ==
  files' = IF File(e) \in plugged THEN Append(files, File(e)) ELSE files

\* A node that is found by its own name and by links is added once.
AddFile(e) ==
  files' = IF File(e) \in plugged /\ ~Contains(files, File(e))
           THEN Append(files, File(e)) ELSE files

\* The entries come in any order.
Scan ==
  /\ step = "scan"
  /\ \E e \in unseen : AddFile(e) /\ unseen' = unseen \ {e}
  /\ UNCHANGED <<plugged, step, at, fd, current, indices, result, disturbed, changes>>

\* A link that has been found to be a character device is gone when it is read:
\* read_symlink() and canonical() throw.
ScanThrows ==
  /\ step = "scan"
  /\ \E e \in unseen \cap Link :
       /\ Target[e] \in plugged /\ Toggle(Target[e])
       /\ plugged' = plugged \ {Target[e]}
  /\ step' = "thrown"
  /\ UNCHANGED <<unseen, files, at, fd, current, indices, result>>

ScanEnds ==
  /\ step = "scan" /\ unseen = {}
  /\ step' = "open"
  /\ UNCHANGED <<plugged, unseen, files, at, fd, current, indices, result, disturbed, changes>>
-----------------------------------------------------------------------------
(* One device after the other.                                             *)

Environment == UNCHANGED <<plugged, unseen, files, changes>>

\* A device answers an ioctl, or it fails: any may, also of a device that is there,
\* and of one that has gone each does.
Answered == fd = "open" /\ UNCHANGED disturbed
Fails == disturbed' = disturbed \cup {Now}

\* open() fails for a node that has gone, and for one that is there when it may not
\* be read and written, is in use, or descriptors are short: it is passed over.
Open ==
  /\ step = "open" /\ at <= Len(files)
  /\ \/ /\ Now \in plugged
        /\ step' = "capabilities" /\ fd' = "open" /\ UNCHANGED <<at, disturbed>>
     \/ /\ Fails
        /\ at' = at + 1 /\ UNCHANGED <<step, fd>>
  /\ UNCHANGED <<current, indices, result>> /\ Environment

Close ==
  /\ step' = "open" /\ fd' = "closed" /\ at' = at + 1

\* VIDIOC_QUERYCAP: a capture device gets an entry.
QueryCapabilities ==
  /\ step = "capabilities"
  /\ \/ /\ Answered /\ Now \in Capture
        /\ step' = "current"
        /\ result' = Append(result, [id |-> Now, current |-> 1, formats |-> <<>>])
        /\ UNCHANGED <<at, fd>>
     \/ /\ (Answered /\ Now \notin Capture) \/ Fails
        /\ Close /\ UNCHANGED result
  /\ UNCHANGED <<current, indices>> /\ Environment

\* VIDIOC_G_FMT.
GetFormat ==
  /\ step = "current" /\ step' = "formats"
  /\ \/ Answered /\ current' = Driver[Now].current
     \/ Fails /\ current' = "none"
  /\ format' = 1
  /\ UNCHANGED <<at, fd, size, rate, result>> /\ Environment

\* What std::sort() may make of s: it need not keep the order of equal ones.
Shuffled(s) == {[i \in DOMAIN s |-> s[p[i]]] : p \in Bijection(DOMAIN s, DOMAIN s)}

SizesOrdered(s) == \A i, j \in DOMAIN s : i < j => s[i].area <= s[j].area
RatesOrdered(s) == \A i, j \in DOMAIN s : i < j => s[i] >= s[j]

Formats == Driver[Now].formats
Sizes == Formats[format].sizes
Rates == Sizes[size].rates
Info == Len(result)

\* VIDIOC_ENUM_FMT: the next format, until there is none or it fails.
NextFormat ==
  /\ step = "formats"
  /\ \/ /\ Answered /\ format <= Len(Formats)
        /\ result' = [result EXCEPT ![Info] =
               [id |-> @.id,
                current |-> IF Formats[format].name = current THEN format ELSE @.current,
                formats |-> Append(@.formats, [name |-> Formats[format].name, sizes |-> <<>>])]]
        /\ step' = "sizes" /\ size' = 1 /\ UNCHANGED <<at, fd>>
     \/ /\ (Answered /\ format > Len(Formats)) \/ Fails
        /\ Close /\ UNCHANGED <<size, result>>
  /\ UNCHANGED <<current, format, rate>> /\ Environment

\* VIDIOC_ENUM_FRAMESIZES; at their end the sizes are sorted by area.
NextSize ==
  /\ step = "sizes"
  /\ \/ /\ Answered /\ size <= Len(Sizes)
        /\ result' = [result EXCEPT ![Info].formats[format].sizes =
                         Append(@, [area |-> Sizes[size].area, rates |-> <<>>])]
        /\ step' = "rates" /\ rate' = 1 /\ UNCHANGED format
     \/ /\ (Answered /\ size > Len(Sizes)) \/ Fails
        /\ \E t \in Shuffled(result[Info].formats[format].sizes) :
              SizesOrdered(t) /\ result' = [result EXCEPT ![Info].formats[format].sizes = t]
        /\ step' = "formats" /\ format' = format + 1 /\ UNCHANGED rate
  /\ UNCHANGED <<at, fd, current, size>> /\ Environment

\* VIDIOC_ENUM_FRAMEINTERVALS; at their end the rates are sorted, the longest
\* interval first.
NextRate ==
  /\ step = "rates"
  /\ \/ /\ Answered /\ rate <= Len(Rates)
        /\ result' = [result EXCEPT ![Info].formats[format].sizes[size].rates =
                         Append(@, Rates[rate])]
        /\ rate' = rate + 1 /\ UNCHANGED <<step, size>>
     \/ /\ (Answered /\ rate > Len(Rates)) \/ Fails
        /\ \E t \in Shuffled(result[Info].formats[format].sizes[size].rates) :
              /\ RatesOrdered(t)
              /\ result' = [result EXCEPT ![Info].formats[format].sizes[size].rates = t]
        /\ step' = "sizes" /\ size' = size + 1 /\ UNCHANGED rate
  /\ UNCHANGED <<at, fd, current, format>> /\ Environment

Return ==
  /\ step = "open" /\ at > Len(files)
  /\ step' = "end"
  /\ UNCHANGED <<at, fd, current, indices, result, disturbed>> /\ Environment

Work == Scan \/ ScanEnds \/ Open \/ QueryCapabilities \/ GetFormat \/ NextFormat \/ NextSize
        \/ NextRate \/ Return

Next == Plug \/ ScanThrows \/ Work

Spec == Init /\ [][Next]_vars
-----------------------------------------------------------------------------
\* The values of the variables.
TypeOK ==
  /\ plugged \cup disturbed \subseteq Node
  /\ unseen \subseteq Node \cup Link /\ files \in Seq(Node)
  /\ fd \in {"closed", "open", "dead"}
  /\ at \in 1..(Len(files) + 1) /\ {format, size, rate} \subseteq Nat \ {0}

\* The format has all sizes and rates the driver tells, in order.
WholeFormat(f, told) ==
  /\ f.name = told.name
  /\ SizesOrdered(f.sizes) /\ \A s \in Range(f.sizes) : RatesOrdered(s.rates)
  /\ {<<s.area, Range(s.rates)>> : s \in Range(f.sizes)}
       = {<<s.area, Range(s.rates)>> : s \in Range(told.sizes)}

\* The entry has everything the driver tells, and the current format, if that is
\* one of those told.
Whole(info) ==
  LET told == Driver[info.id].formats IN
  /\ Len(info.formats) = Len(told)
  /\ \A i \in DOMAIN told : WholeFormat(info.formats[i], told[i])
  /\ (\E i \in DOMAIN told : told[i].name = Driver[info.id].current) =>
       info.formats[info.current].name = Driver[info.id].current

\* When the call returns, every descriptor is closed, no device is told twice, the
\* devices that have stayed and of which no system call failed are told whole,
\* whatever happens to others, and of one that was moved or failed there is at most
\* a beginning, to which its current format need not belong.
ListedAsFound ==
  step = "end" =>
    /\ fd = "closed"
    /\ \A i, j \in DOMAIN result : result[i].id = result[j].id => i = j
    /\ \A n \in (plugged \cap Capture) \ disturbed : \E i \in DOMAIN result : result[i].id = n
    /\ \A i \in DOMAIN result :
         LET told == Driver[result[i].id].formats IN
         /\ result[i].id \notin disturbed => Whole(result[i])
         /\ \A k \in DOMAIN result[i].formats : result[i].formats[k].name = told[k].name
         /\ result[i].formats # <<>> => result[i].current \in DOMAIN result[i].formats
=============================================================================
