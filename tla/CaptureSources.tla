--------------------------- MODULE CaptureSources ---------------------------
(***************************************************************************)
(* ionik::video::fetch_capture_devices() on Windows (Media Foundation).    *)
(* Every call of the system may fail; a failure is stored in the place the *)
(* caller gives for it, and the work goes on, or it is thrown, and what is *)
(* not guarded is lost.                                                    *)
(***************************************************************************)
EXTENDS Integers, Sequences, FiniteSets, SequencesExt

CONSTANTS
  Device,      \* the activation objects MFEnumDeviceSources() gives, in order
  NativeTypes, \* the media types of the streams: sequences of [name, size]
  Supported    \* the names of __mapping

VARIABLES
  types,       \* types[d]: the media types of a device, its current one first
  place,       \* perr is not null
  starts,      \* the libraries whose start succeeds
  step,
  at,          \* i of enumerate_devices()
  unreleased,  \* the activation objects not released yet
  held,        \* references and memory of the call
  startedUp,   \* startedUp[l]: successful starts of a library less its shutdowns
  running,     \* sources activated and not shut down
  position,    \* the media type enumerate_pixel_formats() asks for
  formats,     \* pixel_formats
  lostTypes,   \* current media types nobody releases
  failed,      \* history: the devices of which a call has failed
  result

call == <<step, at, unreleased, held, startedUp, running, position, formats, lostTypes, failed,
          result>>
vars == <<types, place, starts, call>>

\* CoInitialize() with CoUninitialize(), and MFStartup() with MFShutdown().
Library == {"com", "mediaFoundation"}

Init ==
  /\ types \in [Range(Device) -> NativeTypes]
  /\ place \in BOOLEAN /\ starts \in SUBSET Library
  /\ step = "start" /\ at = 1 /\ unreleased = {} /\ held = {} /\ running = {}
  /\ startedUp = [l \in Library |-> 0]
  /\ position = 1 /\ formats = <<>> /\ lostTypes = 0 /\ failed = {} /\ result = <<>>

Now == Device[at]
Names(fs) == {fs[i].name : i \in DOMAIN fs}
-----------------------------------------------------------------------------
\* com_library_initializer does not look whether its starts have succeeded, and
\* shuts both libraries down.
Started == [l \in Library |-> IF l \in starts THEN 1 ELSE 0]
ShutDown(up) == [l \in Library |-> up[l] - 1]

\* Guards release their objects on every way out.
Guarded == {"attributes", "source", "reader", "type"}

Leave(with) ==
  /\ step' = "end" /\ result' = with
  /\ held' = held \ Guarded /\ startedUp' = ShutDown(startedUp)

\* pfs::throw_or(): with no place for the error it leaves all functions at once;
\* otherwise the function it is in says how to go on.
ThrowOr(goOn) ==
  \/ place /\ goOn
  \/ ~place /\ Leave(<<>>) /\ UNCHANGED <<at, unreleased, running, position, formats, lostTypes>>

\* The attributes, or the list of devices, cannot be had, or there is no device.
Start ==
  /\ step = "start"
  /\ \/ /\ step' = "device" /\ unreleased' = Range(Device)
        /\ held' = {"attributes", "devices"} /\ startedUp' = Started
     \/ /\ step' = "end" /\ startedUp' = ShutDown(Started)
        /\ UNCHANGED <<unreleased, held>>
  /\ UNCHANGED <<types, place, starts, result, at, running, position, formats, lostTypes, failed>>

NextDevice(with, shut) ==
  /\ step' = "device" /\ at' = at + 1 /\ result' = with
  /\ held' = held \ {"source", "reader", "type"} /\ running' = running \ shut
  /\ UNCHANGED <<unreleased, startedUp, position, formats, lostTypes>>

\* create_capture_device(): ActivateObject().
Activate ==
  /\ step = "device" /\ at <= Len(Device)
  /\ \/ /\ step' = "formats_reader" /\ running' = running \cup {Now}
        /\ held' = held \cup {"source"} /\ position' = 1 /\ formats' = <<>>
        /\ UNCHANGED <<at, unreleased, startedUp, lostTypes, failed, result>>
     \/ /\ failed' = failed \cup {Now}
        /\ ThrowOr(NextDevice(result, {}))
  /\ UNCHANGED <<types, place, starts>>

\* enumerate_pixel_formats(): its reader, for which the source has been told not
\* to be shut down with it.  Without a reader the list of formats is empty.
OpenFormatsReader ==
  /\ step = "formats_reader"
  /\ \/ /\ step' = "types" /\ held' = held \cup {"reader"}
        /\ UNCHANGED <<at, unreleased, startedUp, running, position, formats, lostTypes, failed,
                       result>>
     \/ /\ failed' = failed \cup {Now}
        /\ ThrowOr(/\ step' = "current"
                   /\ UNCHANGED <<at, unreleased, held, startedUp, running, position, formats,
                                  lostTypes, result>>)
  /\ UNCHANGED <<types, place, starts>>

\* The mapping of video_format() has the subtype.
IsSupported(t) == t.name \in Supported

\* A format that is there already gets a further size, a size that is there a
\* further rate; a type that is not in the mapping is passed over.
AddType(t) ==
  IF ~IsSupported(t) THEN formats
  ELSE IF t.name \notin Names(formats) THEN Append(formats, [name |-> t.name, sizes |-> {t.size}])
  ELSE [i \in DOMAIN formats |->
          IF formats[i].name = t.name THEN [formats[i] EXCEPT !.sizes = @ \cup {t.size}]
          ELSE formats[i]]

\* GetNativeMediaType() until there are no more types; another failure drops
\* those that have been found.
NextType ==
  /\ step = "types"
  /\ \/ /\ position <= Len(types[Now])
        /\ formats' = AddType(types[Now][position]) /\ position' = position + 1
        /\ UNCHANGED <<step, at, unreleased, held, startedUp, running, lostTypes, failed, result>>
     \/ /\ position > Len(types[Now])
        /\ step' = "current" /\ held' = held \ {"reader"}
        /\ UNCHANGED <<at, unreleased, startedUp, running, position, formats, lostTypes, failed,
                       result>>
     \/ /\ failed' = failed \cup {Now}
        /\ ThrowOr(/\ step' = "current" /\ formats' = <<>> /\ held' = held \ {"reader"}
                   /\ UNCHANGED <<at, unreleased, startedUp, running, position, lostTypes, result>>)
  /\ UNCHANGED <<types, place, starts>>

Current == Head(types[Now])

\* current_pixel_format(): without a second reader or the type there is no format.
\* Nobody releases the media type.
CurrentFormat ==
  /\ step = "current"
  /\ \/ /\ types[Now] # <<>>
        /\ lostTypes' = lostTypes + 1 /\ step' = "shutdown"
        /\ UNCHANGED <<at, unreleased, held, startedUp, running, position, formats, failed, result>>
     \/ /\ failed' = failed \cup {Now}
        /\ ThrowOr(NextDevice(result, {Now}))
  /\ UNCHANGED <<types, place, starts>>

\* Mutant: a device without its current format is left before its source is shut
\* down.
ShutdownMatching ==
  /\ step = "shutdown"
  /\ \/ /\ IsSupported(Current)
        /\ running' = running \ {Now} /\ step' = "match"
        /\ UNCHANGED <<at, unreleased, held, startedUp, position, formats, lostTypes, failed,
                       result>>
     \/ /\ ~IsSupported(Current)
        /\ failed' = failed \cup {Now}
        /\ ThrowOr(NextDevice(result, {}))
  /\ UNCHANGED <<types, place, starts>>

\* Shutdown(), unless the format that is not in the mapping has been thrown.
Shutdown ==
  /\ step = "shutdown"
  /\ \/ /\ IsSupported(Current)
        /\ running' = running \ {Now} /\ step' = "match"
        /\ UNCHANGED <<at, unreleased, held, startedUp, position, formats, lostTypes, failed,
                       result>>
     \/ /\ ~IsSupported(Current)
        /\ failed' = failed \cup {Now}
        /\ ThrowOr(NextDevice(result, {Now}))
  /\ UNCHANGED <<types, place, starts>>

\* The current format is looked for among the formats, and the device is told.
Match ==
  /\ step = "match"
  /\ \/ /\ Current.name \in Names(formats)
        /\ NextDevice(Append(result, [device |-> Now, formats |-> formats,
                        current |-> SelectInSeq(formats, LAMBDA f : f.name = Current.name)]), {})
        /\ UNCHANGED failed
     \/ /\ Current.name \notin Names(formats)
        /\ failed' = failed \cup {Now}
        /\ ThrowOr(NextDevice(result, {}))
  /\ UNCHANGED <<types, place, starts>>

\* The activation objects and their list are given back.
ReleaseDevices ==
  /\ step = "device" /\ at > Len(Device)
  /\ unreleased' = {}
  /\ step' = "end" /\ held' = held \ (Guarded \cup {"devices"}) /\ startedUp' = ShutDown(startedUp)
  /\ UNCHANGED <<types, place, starts, at, running, position, formats, lostTypes, failed, result>>

Next == Start \/ Activate \/ OpenFormatsReader \/ NextType \/ CurrentFormat \/ Shutdown \/ Match
        \/ ReleaseDevices

Spec == Init /\ [][Next]_vars
-----------------------------------------------------------------------------
\* The values of the variables.
TypeOK ==
  /\ at \in 1..(Len(Device) + 1) /\ startedUp \in [Library -> -1..1]
  /\ unreleased \cup running \cup failed \subseteq Range(Device)
  /\ held \subseteq Guarded \cup {"devices"}

\* A caller with a place for errors gets everything given back and every source
\* shut down, whatever fails; for one without, the guards do their part.  What is
\* lost in any case is the current media type, once for each device, and a library
\* whose start has failed is shut down all the same: once too often, and exactly
\* then (capture_device_info_win.cpp:485-486, :491-492).
EverythingIsReleased ==
  step = "end" =>
    /\ held \cap Guarded = {} /\ lostTypes <= Len(Device)
    /\ \A l \in Library : startedUp[l] = IF l \in starts THEN 0 ELSE -1
    /\ place => held = {} /\ unreleased = {} /\ running = {}

\* The devices of a list are some of all, in their order.
IsPartOf(list, all) ==
  \E where \in [DOMAIN list -> DOMAIN all] :
    /\ \A i \in DOMAIN list : list[i].device = all[where[i]]
    /\ \A i, j \in DOMAIN list : i < j => where[i] < where[j]

\* A device is told with its supported formats, and with its current one among
\* them.
IsToldWhole(r) ==
  LET all == types[r.device] IN
  /\ r.current \in DOMAIN r.formats /\ r.formats[r.current].name = Head(all).name
  /\ Names(r.formats) = Names(all) \cap Supported
  /\ \A f \in Range(r.formats) :
       f.sizes = {all[j].size : j \in {k \in DOMAIN all : all[k].name = f.name}}

\* A call that gets past all the devices tells those of which no call has failed,
\* once and in their order; one that is left by an exception tells none.
ListIsWhole ==
  step = "end" =>
    IF at > Len(Device)
    THEN /\ IsPartOf(result, Device)
         /\ {result[i].device : i \in DOMAIN result} = Range(Device) \ failed
         /\ \A i \in DOMAIN result : IsToldWhole(result[i])
    ELSE result = <<>>
=============================================================================
