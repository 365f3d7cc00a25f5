---------------------------- MODULE EndpointList ----------------------------
(***************************************************************************)
(* ionik::audio::fetch_devices() and default_input/output_device() on      *)
(* Windows: the COM objects a call goes through, each of which may fail to *)
(* be had, and the guards that release them.                               *)
(***************************************************************************)
EXTENDS Integers, Sequences, FiniteSets, SequencesExt

CONSTANTS
  Endpoint,    \* the active endpoints of the wanted flow, in the system's order
  Failure      \* where an endpoint may fail: "item", "id", "store", "value"

VARIABLES
  fails,       \* which of these each endpoint fails at, "none" for a good one
  call,        \* "fetch" or "default"
  step,
  rest,        \* the endpoints still to be looked at
  current,     \* *ppDevice
  held,        \* what the call has got and not released yet
  endpointRefs,  \* references to endpoints got, less those released
  initialized, \* CoInitialize() less CoUninitialize()
  result

vars == <<fails, call, step, rest, current, held, endpointRefs, initialized, result>>

Init ==
  /\ fails \in [Range(Endpoint) -> Failure \cup {"none"}]
  /\ call \in {"fetch", "default"} /\ step = "enumerator"
  /\ rest = <<>> /\ current = "null" /\ held = {}
  /\ endpointRefs = 0 /\ initialized = 0 /\ result = <<>>

\* The destructors of the collection and of the enumerator.
Finish ==
  /\ step' = "end" /\ held' = held \ {"collection", "enumerator"}
  /\ initialized' = initialized - 1
-----------------------------------------------------------------------------
\* IMMDeviceEnumerator_initializer.  If the instance cannot be created, it calls
\* CoUninitialize(), and the destructor calls it again, because the S_FALSE left
\* in hrCoInit is a success.
Enumerator ==
  /\ step = "enumerator"
  /\ \/ /\ step' = (IF call = "fetch" THEN "collection" ELSE "default_endpoint")
        /\ held' = {"enumerator"} /\ initialized' = 1
     \/ step' = "end" /\ initialized' \in {0, -1} /\ UNCHANGED held
  /\ UNCHANGED <<fails, call, rest, current, endpointRefs, result>>

\* EnumAudioEndpoints() and GetCount(), each of which may fail.
Collection ==
  /\ step = "collection"
  /\ \/ /\ step' = "item" /\ rest' = Endpoint
        /\ held' = held \cup {"collection"} /\ UNCHANGED initialized
     \/ Finish /\ UNCHANGED rest
  /\ UNCHANGED <<fails, call, current, endpointRefs, result>>

\* Mutant: an endpoint that cannot be had ends the loop.
ItemOrBreak ==
  /\ step = "item"
  /\ IF rest = <<>>
     THEN Finish /\ UNCHANGED <<rest, current, endpointRefs>>
     ELSE LET e == Head(rest) IN
          /\ rest' = IF fails[e] = "item" THEN <<>> ELSE Tail(rest)
          /\ IF fails[e] = "item"
             THEN UNCHANGED <<step, current, endpointRefs>>
             ELSE step' = "id" /\ current' = e /\ endpointRefs' = endpointRefs + 1
          /\ UNCHANGED <<held, initialized>>
  /\ UNCHANGED <<fails, call, result>>

\* Item() of the next endpoint.
Item ==
  /\ step = "item"
  /\ IF rest = <<>>
     THEN Finish /\ UNCHANGED <<rest, current, endpointRefs>>
     ELSE LET e == Head(rest) IN
          /\ rest' = Tail(rest)
          /\ IF fails[e] = "item"
             THEN UNCHANGED <<step, current, endpointRefs>>
             ELSE step' = "id" /\ current' = e /\ endpointRefs' = endpointRefs + 1
          /\ UNCHANGED <<held, initialized>>
  /\ UNCHANGED <<fails, call, result>>

\* GetDefaultAudioEndpoint(): any endpoint, or none.
DefaultEndpoint ==
  /\ step = "default_endpoint"
  /\ \/ Finish /\ UNCHANGED <<current, endpointRefs>>
     \/ /\ \E e \in Range(Endpoint) : current' = e
        /\ step' = "id" /\ endpointRefs' = endpointRefs + 1
        /\ UNCHANGED <<held, initialized>>
  /\ UNCHANGED <<fails, call, rest, result>>

\* device_info_helper() got this far and not further, or has read the name: it
\* gives back what it has got, and the endpoint, which the guard gives back too.
Read(name) ==
  /\ result' = IF name THEN Append(result, current) ELSE result
  /\ endpointRefs' = endpointRefs - 2 /\ current' = "null"
  /\ IF call = "fetch"
     THEN step' = "item" /\ held' = held \ {"id", "store"} /\ UNCHANGED initialized
     ELSE /\ step' = "end" /\ held' = held \ {"id", "store", "enumerator"}
          /\ initialized' = initialized - 1

Query(from, got, to) ==
  /\ step = from
  /\ IF fails[current] = from THEN Read(FALSE)
     ELSE /\ step' = to /\ held' = held \cup got
          /\ UNCHANGED <<current, endpointRefs, initialized, result>>
  /\ UNCHANGED <<fails, call, rest>>

GetId == Query("id", {"id"}, "store")
OpenPropertyStore == Query("store", {"store"}, "value")
GetValue ==
  /\ step = "value" /\ Read(fails[current] # "value")
  /\ UNCHANGED <<fails, call, rest>>

Next == Enumerator \/ Collection \/ Item \/ DefaultEndpoint
        \/ GetId \/ OpenPropertyStore \/ GetValue

Spec == Init /\ [][Next]_vars
-----------------------------------------------------------------------------
\* The values of the variables.
TypeOK ==
  /\ rest \in Seq(Range(Endpoint)) /\ result \in Seq(Range(Endpoint))
  /\ current \in Range(Endpoint) \cup {"null"}
  /\ held \subseteq {"enumerator", "collection", "id", "store"}
  /\ endpointRefs \in Int /\ initialized \in {-1, 0, 1}

\* Whatever fails, a call keeps nothing.  It may give back more than it has got.
NothingIsKept ==
  step = "end" => held = {} /\ endpointRefs <= 0 /\ initialized <= 0

\* Some of a sequence, in its order.
IsPartOf(some, all) ==
  \E place \in [DOMAIN some -> DOMAIN all] :
    /\ \A i \in DOMAIN some : some[i] = all[place[i]]
    /\ \A i, j \in DOMAIN some : i < j => place[i] < place[j]

\* A call that gets as far as the endpoints tells all that can be read, once
\* and in their order; one that fails does not hide those behind it.
ListIsWhole ==
  (step = "end" /\ call = "fetch" /\ result # <<>>) =>
    /\ IsPartOf(result, Endpoint)
    /\ Range(result) = {e \in Range(Endpoint) : fails[e] = "none"}
=============================================================================
