--------------------------- MODULE MCWindows_proofs ---------------------------
(***************************************************************************)
(* What the run windows checks of the named mutex, of the monitor and the  *)
(* observer on Windows, of the demo that controls a service and of the two *)
(* lists of devices, for any number of instances, changes, calls and       *)
(* faults, and any limits of the system.                                   *)
(***************************************************************************)
EXTENDS MCWindows, SequenceTheorems, FiniteSetTheorems, WellFoundedInduction, TLAPS

-----------------------------------------------------------------------------
(* Lists of devices: of the first n of all devices those that are good, in  *)
(* their order.                                                             *)

InOrder(list, all, n) ==
  \E place \in [1..Len(list) -> 1..n] :
    /\ \A i \in 1..Len(list) : list[i] = all[place[i]]
    /\ \A i, j \in 1..Len(list) : i < j => place[i] < place[j]

GoodOnes(all, n, good) == {all[k] : k \in {k \in 1..n : all[k] \in good}}

ListOf(list, all, n, good) ==
  InOrder(list, all, n) /\ {list[i] : i \in 1..Len(list)} = GoodOnes(all, n, good)

LEMMA ListOfNone == ASSUME NEW all, NEW good PROVE ListOf(<<>>, all, 0, good)
<1>1. Len(<<>>) = 0 /\ 1..0 = {}
  OBVIOUS
<1>2. InOrder(<<>>, all, 0)
  <2>1. [i \in 1..0 |-> i] \in [1..0 -> 1..0]
    BY <1>1
  <2>2. QED
    BY <1>1, <2>1 DEF InOrder
<1>3. QED
  BY <1>1, <1>2 DEF ListOf, GoodOnes

\* Whether the devices behind the first n are good is not asked.
LEMMA SameGood ==
  ASSUME NEW list, NEW all, NEW n \in Nat, NEW good, NEW good2, ListOf(list, all, n, good),
         \A k \in 1..n : all[k] \in good <=> all[k] \in good2
  PROVE  ListOf(list, all, n, good2)
BY DEF ListOf, GoodOnes

\* The next device is left out, or it is told.
LEMMA ListGoesOn ==
  ASSUME NEW S, NEW list \in Seq(S), NEW all, NEW n \in Nat, NEW good,
         ListOf(list, all, n, good)
  PROVE  /\ all[n + 1] \notin good => ListOf(list, all, n + 1, good)
         /\ all[n + 1] \in S \cap good => ListOf(Append(list, all[n + 1]), all, n + 1, good)
<1> DEFINE d == all[n + 1]
           more == Append(list, d)
           m == Len(list)
<1>1. m \in Nat /\ DOMAIN list = 1..m
  BY LenProperties
<1>2. PICK place \in [1..m -> 1..n] : /\ \A i \in 1..m : list[i] = all[place[i]]
                                      /\ \A i, j \in 1..m : i < j => place[i] < place[j]
  BY DEF ListOf, InOrder
<1>3. 1..(n + 1) = 1..n \cup {n + 1} /\ n + 1 \notin 1..n /\ n + 1 \in 1..(n + 1)
  OBVIOUS
<1>4. GoodOnes(all, n + 1, good) = GoodOnes(all, n, good) \cup {x \in {d} : x \in good}
  BY <1>3 DEF GoodOnes
<1>5. ASSUME d \notin good PROVE ListOf(list, all, n + 1, good)
  <2>1. place \in [1..m -> 1..(n + 1)]
    BY <1>2, <1>3
  <2>2. InOrder(list, all, n + 1)
    BY <1>2, <2>1 DEF InOrder
  <2>3. GoodOnes(all, n + 1, good) = GoodOnes(all, n, good)
    BY <1>4, <1>5
  <2>4. QED
    BY <2>2, <2>3 DEF ListOf
<1>6. ASSUME d \in S \cap good PROVE ListOf(more, all, n + 1, good)
  <2>1. /\ Len(more) = m + 1 /\ more[m + 1] = d
        /\ \A i \in 1..m : more[i] = list[i]
    BY <1>1, <1>6, AppendProperties
  <2>2. 1..(m + 1) = 1..m \cup {m + 1} /\ m + 1 \notin 1..m
    BY <1>1
  <2> DEFINE p == [i \in 1..(m + 1) |-> IF i \in 1..m THEN place[i] ELSE n + 1]
  <2>3. /\ p \in [1..(m + 1) -> 1..(n + 1)]
        /\ \A i \in 1..m : p[i] = place[i] /\ p[i] \in 1..n
        /\ p[m + 1] = n + 1
    BY <1>2, <1>3, <2>2
  <2>4. \A i \in 1..(m + 1) : more[i] = all[p[i]]
    BY <1>2, <2>1, <2>2, <2>3
  <2>5. ASSUME NEW i \in 1..(m + 1), NEW j \in 1..(m + 1), i < j PROVE p[i] < p[j]
    <3>1. CASE j \in 1..m
      <4>1. i \in 1..m
        BY <1>1, <2>5, <3>1
      <4>2. QED
        BY <1>2, <2>3, <2>5, <3>1, <4>1
    <3>2. CASE j = m + 1
      <4>1. i \in 1..m
        BY <1>1, <2>5, <3>2
      <4>2. p[i] \in 1..n /\ p[j] = n + 1
        BY <2>3, <3>2, <4>1
      <4>3. QED
        BY <4>2
    <3>3. QED
      BY <2>2, <3>1, <3>2
  <2> HIDE DEF p
  <2>6. InOrder(more, all, n + 1)
    BY <2>1, <2>3, <2>4, <2>5 DEF InOrder
  <2>7. {more[i] : i \in 1..(m + 1)} = {list[i] : i \in 1..m} \cup {d}
    BY <2>1, <2>2
  <2>8. {more[i] : i \in 1..Len(more)} = GoodOnes(all, n + 1, good)
    BY <1>4, <1>6, <2>1, <2>7 DEF ListOf
  <2>9. QED
    BY <2>6, <2>8 DEF ListOf
<1>7. QED
  BY <1>5, <1>6

\* A set of numbers has a least one: of the intervals that end in one of them none
\* is within all others.
LEMMA LeastOf == ASSUME NEW I \in SUBSET Nat, I # {} PROVE \E x \in I : \A y \in I : x <= y
<1> DEFINE T == {1..x : x \in I}
           R == StrictSubsetOrdering(Nat)
<1>1. T \subseteq FiniteSubsetsOf(Nat) /\ T # {}
  <2>1. ASSUME NEW x \in I PROVE 1..x \in FiniteSubsetsOf(Nat)
    <3>1. IsFiniteSet(1..x)
      BY FS_Interval
    <3>2. QED
      BY <3>1 DEF FiniteSubsetsOf
  <2>2. QED
    BY <2>1
<1>2. IsWellFoundedOn(R, FiniteSubsetsOf(Nat))
  BY FS_StrictSubsetOrderingWellFounded
<1>3. \E t \in T : \A u \in T : ~(<<u, t>> \in R)
  <2> HIDE DEF T, R
  <2>1. QED
    BY <1>1, <1>2, WFMin
<1>4. PICK x \in I : \A y \in I : ~(<<1..y, 1..x>> \in R)
  BY <1>3
<1>5. ASSUME NEW y \in I, y < x PROVE FALSE
  <2>1. x \in 1..x /\ x \notin 1..y /\ 1..y \subseteq 1..x /\ 1..y \in SUBSET Nat /\ 1..x \in SUBSET Nat
    BY <1>5
  <2>2. <<1..y, 1..x>> \in R
    BY <2>1 DEF StrictSubsetOrdering
  <2>3. QED
    BY <1>4, <2>2
<1>6. QED
  BY <1>5

\* What SelectInSeq() finds.
LEMMA CurrentFound ==
  ASSUME NEW name, Len(cFormats) \in Nat, \E i \in 1..Len(cFormats) : cFormats[i].name = name
  PROVE  LET k == Cameras!SelectInSeq(cFormats, LAMBDA f : f.name = name)
         IN  k \in 1..Len(cFormats) /\ cFormats[k].name = name
<1> DEFINE I == {i \in 1..Len(cFormats) : cFormats[i].name = name}
           k == CHOOSE x \in I : \A y \in I : x <= y
<1>1. I # {} /\ I \in SUBSET Nat
  OBVIOUS
<1>2. Cameras!SelectInSeq(cFormats, LAMBDA f : f.name = name) = k
  BY <1>1 DEF Cameras!SelectInSeq, Cameras!Min
<1>3. \E x \in I : \A y \in I : x <= y
  <2> HIDE DEF I
  <2>1. QED
    BY <1>1, LeastOf
<1>4. k \in I
  BY <1>3
<1>5. QED
  BY <1>2, <1>4

-----------------------------------------------------------------------------
(* The list of endpoints.                                                  *)

Endpoint == {"e1", "e2", "e3"}
Looking == {"id", "store", "value"}

EndpointTypes ==
  /\ eStep \in Looking \cup {"enumerator", "collection", "default_endpoint", "item", "end"}
  /\ eRest \in Seq(Endpoint) /\ eResult \in Seq(Endpoint)
  /\ eCurrent \in Endpoint \cup {"null"} /\ (eStep \in Looking => eCurrent # "null")

\* What a call holds, by where it is.
EndpointHandles ==
  /\ eStep \in {"enumerator", "end"} => eHeld = {}
  /\ eStep \in {"collection", "default_endpoint"} => eHeld \subseteq {"enumerator"}
  /\ eStep = "item" => eHeld \subseteq {"enumerator", "collection"}
  /\ eStep \in Looking => eHeld \subseteq {"enumerator", "collection", "id", "store"}
  /\ eStep \in {"collection", "item"} \/ "collection" \in eHeld => eCall = "fetch"

\* With an endpoint it has at most one reference to it, and the library is
\* initialized once until the end.
EndpointCounts ==
  /\ eInitialized \in -1..1
  /\ eStep \notin {"enumerator", "end"} => eInitialized = 1
  /\ eStep = "end" => eInitialized <= 0
  /\ eRefs \in Int /\ eRefs <= 1 /\ (eStep \notin Looking => eRefs <= 0)

EndpointsInv == EndpointTypes /\ EndpointHandles /\ EndpointCounts

LEMMA AllEndpoints ==
  /\ Endpoints!Range(<<"e1", "e2", "e3">>) = Endpoint
  /\ <<"e1", "e2", "e3">> \in Seq(Endpoint)
BY DEF Endpoints!Range, Endpoint

LEMMA EndpointsStart == Endpoints!Init => EndpointsInv
<1> SUFFICES ASSUME Endpoints!Init PROVE EndpointsInv
  OBVIOUS
<1>1. EndpointTypes /\ EndpointHandles
  BY DEF Endpoints!Init, EndpointTypes, EndpointHandles, Looking
<1>2. EndpointCounts
  BY DEF Endpoints!Init, EndpointCounts, Looking
<1>3. QED
  BY <1>1, <1>2 DEF EndpointsInv

\* The device is read, or it is given up.
LEMMA EndpointRead ==
  ASSUME EndpointsInv, NEW name \in BOOLEAN, eStep \in Looking, Endpoints!Read(name),
         UNCHANGED <<eFails, eCall, eRest>>
  PROVE  EndpointsInv'
<1>1. Append(eResult, eCurrent) \in Seq(Endpoint)
  BY AppendProperties DEF EndpointsInv, EndpointTypes
<1>2. EndpointTypes' /\ EndpointHandles'
  BY <1>1 DEF Endpoints!Read, EndpointsInv, EndpointTypes, EndpointHandles, Looking
<1>3. EndpointCounts'
  <2>1. eInitialized = 1 /\ eRefs \in Int /\ eRefs <= 1
    BY DEF EndpointsInv, EndpointCounts, Looking
  <2>2. eRefs' = eRefs - 2
    BY DEF Endpoints!Read
  <2>3. (eStep' = "item" /\ eInitialized' = 1) \/ (eStep' = "end" /\ eInitialized' = 0)
    BY <2>1 DEF Endpoints!Read
  <2>4. eRefs' \in Int /\ eRefs' <= 0
    BY <2>1, <2>2
  <2>5. QED
    BY <2>3, <2>4 DEF EndpointCounts
<1>4. QED
  BY <1>2, <1>3 DEF EndpointsInv

\* A query has not failed.
LEMMA EndpointQuery ==
  ASSUME EndpointsInv, NEW from \in {"id", "store"}, NEW got \in SUBSET {"id", "store"},
         NEW to \in Looking, Endpoints!Query(from, got, to)
  PROVE  EndpointsInv'
<1>1. eStep \in Looking
  BY DEF Endpoints!Query, Looking
<1>2. CASE eFails[eCurrent] = from
  BY <1>1, <1>2, EndpointRead DEF Endpoints!Query
<1>3. CASE eFails[eCurrent] # from
  <2>1. /\ eStep' = to /\ eHeld' = eHeld \cup got
        /\ UNCHANGED <<eCall, eRest, eCurrent, eRefs, eInitialized, eResult>>
    BY <1>3 DEF Endpoints!Query
  <2>2. EndpointTypes' /\ EndpointHandles'
    BY <1>1, <2>1 DEF EndpointsInv, EndpointTypes, EndpointHandles, Looking
  <2>3. EndpointCounts'
    BY <1>1, <2>1 DEF EndpointsInv, EndpointCounts, Looking
  <2>4. QED
    BY <2>2, <2>3 DEF EndpointsInv
<1>4. QED
  BY <1>2, <1>3

LEMMA EndpointsStep == ASSUME EndpointsInv, Endpoints!Next PROVE EndpointsInv'
<1>1. CASE Endpoints!Enumerator
  <2>1. EndpointTypes' /\ EndpointHandles'
    BY <1>1 DEF Endpoints!Enumerator, EndpointsInv, EndpointTypes, EndpointHandles, Looking
  <2>2. /\ eRefs' \in Int /\ eRefs' <= 0
        /\ \/ eStep' \in {"collection", "default_endpoint"} /\ eInitialized' = 1
           \/ eStep' = "end" /\ eInitialized' \in {-1, 0}
    BY <1>1 DEF Endpoints!Enumerator, EndpointsInv, EndpointCounts, Looking
  <2>3. EndpointCounts'
    <3>1. CASE eStep' \in {"collection", "default_endpoint"} /\ eInitialized' = 1
      <4>1. eInitialized' \in -1..1
        BY <3>1
      <4>2. QED
        BY <2>2, <3>1, <4>1 DEF EndpointCounts, Looking
    <3>2. CASE eStep' = "end" /\ eInitialized' \in {-1, 0}
      <4>1. eInitialized' \in -1..1 /\ eInitialized' <= 0
        BY <3>2
      <4>2. QED
        BY <2>2, <3>2, <4>1 DEF EndpointCounts, Looking
    <3>3. QED
      BY <2>2, <3>1, <3>2
  <2>4. QED
    BY <2>1, <2>3 DEF EndpointsInv
<1>2. CASE Endpoints!Collection \/ Endpoints!DefaultEndpoint \/ Endpoints!Item
  <2>1. /\ eStep \notin Looking \cup {"enumerator", "end"}
        /\ eResult' = eResult /\ eCall' = eCall
        /\ eInitialized = 1 /\ eRefs \in Int /\ eRefs <= 0
    BY <1>2 DEF Endpoints!Collection, Endpoints!DefaultEndpoint, Endpoints!Item, EndpointsInv,
                EndpointCounts, Looking
  <2>2. /\ eRest' \in Seq(Endpoint) /\ eCurrent' \in Endpoint \cup {"null"}
        /\ eStep' = "id" => eCurrent' \in Endpoint
    <3>1. CASE Endpoints!Collection
      BY <2>1, <3>1, AllEndpoints
         DEF Endpoints!Collection, Endpoints!Finish, EndpointsInv, EndpointTypes
    <3>2. CASE Endpoints!DefaultEndpoint
      BY <2>1, <3>2, AllEndpoints
         DEF Endpoints!DefaultEndpoint, Endpoints!Finish, EndpointsInv, EndpointTypes
    <3>3. CASE Endpoints!Item
      <4>1. eRest # <<>> => Head(eRest) \in Endpoint /\ Tail(eRest) \in Seq(Endpoint)
        BY HeadTailProperties DEF EndpointsInv, EndpointTypes
      <4>2. QED
        BY <2>1, <3>3, <4>1 DEF Endpoints!Item, Endpoints!Finish, EndpointsInv, EndpointTypes
    <3>4. QED
      BY <1>2, <3>1, <3>2, <3>3
  <2>3. \/ /\ eStep' \in {"item", "id"} /\ eHeld' \in {eHeld, eHeld \cup {"collection"}}
           /\ eStep' = "item" => eStep \in {"collection", "item"}
           /\ "collection" \in eHeld' \ eHeld => eStep = "collection"
           /\ eInitialized' = eInitialized
           /\ (eStep' = "item" /\ eRefs' = eRefs) \/ (eStep' = "id" /\ eRefs' = eRefs + 1)
        \/ eStep' = "end" /\ eHeld' = {} /\ eInitialized' = 0 /\ eRefs' = eRefs
    <3>1. eStep \in {"collection", "default_endpoint", "item"}
      BY <1>2 DEF Endpoints!Collection, Endpoints!DefaultEndpoint, Endpoints!Item
    <3>2. eHeld \subseteq {"enumerator", "collection"}
      BY <3>1 DEF EndpointsInv, EndpointHandles
    <3>3. CASE Endpoints!Finish
      <4>1. eStep' = "end" /\ eHeld' = {} /\ eInitialized' = 0
        BY <2>1, <3>2, <3>3 DEF Endpoints!Finish
      <4>2. eRefs' = eRefs
        BY <1>2, <4>1 DEF Endpoints!Collection, Endpoints!DefaultEndpoint, Endpoints!Item
      <4>3. QED
        BY <4>1, <4>2
    <3>4. CASE Endpoints!Collection /\ ~Endpoints!Finish
      BY <3>4 DEF Endpoints!Collection
    <3>5. CASE Endpoints!DefaultEndpoint /\ ~Endpoints!Finish
      BY <3>5 DEF Endpoints!DefaultEndpoint
    <3>6. CASE Endpoints!Item /\ ~Endpoints!Finish
      BY <3>6 DEF Endpoints!Item
    <3>7. QED
      BY <1>2, <3>3, <3>4, <3>5, <3>6
  <2>4. EndpointTypes'
    BY <2>1, <2>2, <2>3 DEF EndpointsInv, EndpointTypes, Looking, Endpoint
  <2>5. EndpointHandles'
    BY <1>2, <2>1, <2>3 DEF EndpointsInv, EndpointTypes, EndpointHandles, Looking
  <2>6. EndpointCounts'
    BY <2>1, <2>3 DEF EndpointCounts, Looking
  <2>7. QED
    BY <2>4, <2>5, <2>6 DEF EndpointsInv
<1>3. CASE Endpoints!GetId \/ Endpoints!OpenPropertyStore
  BY <1>3, EndpointQuery DEF Endpoints!GetId, Endpoints!OpenPropertyStore, Looking
<1>4. CASE Endpoints!GetValue
  <2>1. (eFails[eCurrent] # "value") \in BOOLEAN
    OBVIOUS
  <2>2. QED
    BY <1>4, <2>1, EndpointRead DEF Endpoints!GetValue, Looking
<1>5. QED
  BY <1>1, <1>2, <1>3, <1>4 DEF Endpoints!Next

LEMMA EndpointsReleased ==
  ASSUME EndpointsInv PROVE Endpoints!TypeOK /\ Endpoints!NothingIsKept
<1>1. Endpoints!TypeOK
  BY AllEndpoints DEF EndpointsInv, EndpointTypes, EndpointHandles, EndpointCounts,
                      Endpoints!TypeOK, Looking
<1>2. Endpoints!NothingIsKept
  BY DEF EndpointsInv, EndpointHandles, EndpointCounts, Endpoints!NothingIsKept, Looking
<1>3. QED
  BY <1>1, <1>2
-----------------------------------------------------------------------------
(* What the list of endpoints tells.                                       *)

InOrderOfSystem == <<"e1", "e2", "e3">>
Readable == {e \in Endpoint : eFails[e] = "none"}

\* The loop has passed n endpoints.
PassedEndpoints(n) ==
  /\ Len(eRest) = 3 - n
  /\ \A i \in 1..(3 - n) : eRest[i] = InOrderOfSystem[n + i]

EndpointsTold ==
  /\ eFails \in [Endpoint -> {"item", "id", "store", "value", "none"}]
  /\ eStep \in {"enumerator", "collection"} => eResult = <<>>
  /\ eStep = "default_endpoint" => eCall # "fetch"
  /\ eStep = "item" =>
       \E n \in 0..3 : PassedEndpoints(n) /\ ListOf(eResult, InOrderOfSystem, n, Readable)
  /\ eStep \in Looking /\ eCall = "fetch" =>
       /\ \E n \in 0..2 : /\ PassedEndpoints(n + 1) /\ eCurrent = InOrderOfSystem[n + 1]
                          /\ ListOf(eResult, InOrderOfSystem, n, Readable)
       /\ eFails[eCurrent] # "item"
       /\ eStep \in {"store", "value"} => eFails[eCurrent] # "id"
       /\ eStep = "value" => eFails[eCurrent] # "store"
  /\ eStep = "end" /\ eCall = "fetch" =>
       eResult = <<>> \/ ListOf(eResult, InOrderOfSystem, 3, Readable)

LEMMA EndpointsToldStart == Endpoints!Init => EndpointsTold
BY AllEndpoints DEF Endpoints!Init, EndpointsTold, Looking

\* The endpoint has been read, or it has been given up.
LEMMA EndpointsToldRead ==
  ASSUME EndpointsInv, EndpointsTold, NEW name \in BOOLEAN, eStep \in Looking,
         Endpoints!Read(name), UNCHANGED <<eFails, eCall, eRest>>,
         name <=> eStep = "value" /\ eFails[eCurrent] # "value",
         ~name => eFails[eCurrent] # "none"
  PROVE  EndpointsTold'
<1>1. CASE eCall = "fetch"
  <2>1. /\ eStep' = "item" /\ UNCHANGED <<eFails, eCall, eRest>>
        /\ eResult' = IF name THEN Append(eResult, eCurrent) ELSE eResult
    BY <1>1 DEF Endpoints!Read
  <2>2. PICK n \in 0..2 : /\ PassedEndpoints(n + 1) /\ eCurrent = InOrderOfSystem[n + 1]
                          /\ ListOf(eResult, InOrderOfSystem, n, Readable)
    BY <1>1 DEF EndpointsTold
  <2>3. /\ eCurrent \in Endpoint /\ eResult \in Seq(Endpoint)
        /\ eFails[eCurrent] \in {"item", "id", "store", "value", "none"}
    BY DEF EndpointsInv, EndpointTypes, EndpointsTold
  <2>4. name <=> eCurrent \in Readable
    BY <1>1, <2>3 DEF EndpointsTold, Readable
  <2>5. ListOf(eResult', InOrderOfSystem, n + 1, Readable)
    <3> DEFINE all == InOrderOfSystem
    <3> HIDE DEF all
    <3>1. /\ all[n + 1] \notin Readable => ListOf(eResult, all, n + 1, Readable)
          /\ all[n + 1] \in Endpoint \cap Readable
               => ListOf(Append(eResult, all[n + 1]), all, n + 1, Readable)
      <4>1. n \in Nat /\ ListOf(eResult, all, n, Readable) /\ eResult \in Seq(Endpoint)
        BY <2>2, <2>3 DEF all
      <4>2. QED
        BY <4>1, ListGoesOn
    <3>2. QED
      BY <2>1, <2>2, <2>3, <2>4, <3>1 DEF all
  <2>6. PassedEndpoints(n + 1)' /\ Readable' = Readable /\ n + 1 \in 0..3
    BY <2>1, <2>2 DEF PassedEndpoints, Readable
  <2>7. \E k \in 0..3 : PassedEndpoints(k)' /\ ListOf(eResult', InOrderOfSystem, k, Readable')
    BY <2>5, <2>6
  <2>8. eFails' \in [Endpoint -> {"item", "id", "store", "value", "none"}]
    BY <2>1 DEF EndpointsTold
  <2>9. QED
    BY <2>1, <2>7, <2>8 DEF EndpointsTold, Looking
<1>2. CASE eCall # "fetch"
  BY <1>2 DEF EndpointsTold, Endpoints!Read, Looking
<1>3. QED
  BY <1>1, <1>2

LEMMA EndpointsToldStep == ASSUME EndpointsInv, EndpointsTold, Endpoints!Next PROVE EndpointsTold'
<1>1. eFails' = eFails /\ eCall' = eCall /\ Readable' = Readable
  BY DEF Endpoints!Next, Endpoints!Enumerator, Endpoints!Collection, Endpoints!Item,
         Endpoints!DefaultEndpoint, Endpoints!GetId, Endpoints!OpenPropertyStore,
         Endpoints!GetValue, Endpoints!Query, Readable
<1>2. CASE Endpoints!Enumerator
  BY <1>1, <1>2 DEF Endpoints!Enumerator, EndpointsTold, Looking
<1>3. CASE Endpoints!Collection
  <2>1. eResult' = <<>> /\ eStep' \in {"item", "end"}
    BY <1>3 DEF Endpoints!Collection, Endpoints!Finish, EndpointsTold
  <2>2. ASSUME eStep' = "item" PROVE PassedEndpoints(0)'
    <3>1. eRest' = InOrderOfSystem
      BY <1>3, <2>2 DEF Endpoints!Collection, Endpoints!Finish, InOrderOfSystem
    <3>2. Len(InOrderOfSystem) = 3
      BY DEF InOrderOfSystem
    <3>3. QED
      BY <3>1, <3>2 DEF PassedEndpoints
  <2>3. ListOf(eResult', InOrderOfSystem, 0, Readable')
    BY <2>1, ListOfNone
  <2>4. eStep' = "item" => \E n \in 0..3 : /\ PassedEndpoints(n)'
                                           /\ ListOf(eResult', InOrderOfSystem, n, Readable')
    BY <2>2, <2>3
  <2>5. QED
    BY <1>1, <2>1, <2>4 DEF EndpointsTold, Looking
<1>4. CASE Endpoints!Item
  <2>1. PICK n \in 0..3 : PassedEndpoints(n) /\ ListOf(eResult, InOrderOfSystem, n, Readable)
    BY <1>4 DEF Endpoints!Item, EndpointsTold
  <2>2. eRest \in Seq(Endpoint) /\ eResult \in Seq(Endpoint) /\ eResult' = eResult
    BY <1>4 DEF Endpoints!Item, EndpointsInv, EndpointTypes
  <2>3. CASE eRest = <<>>
    <3>1. n = 3
      BY <2>1, <2>3, EmptySeq DEF PassedEndpoints
    <3>2. eStep' = "end"
      BY <1>4, <2>3 DEF Endpoints!Item, Endpoints!Finish
    <3>3. QED
      BY <1>1, <2>1, <2>2, <3>1, <3>2 DEF EndpointsTold, Looking
  <2>4. CASE eRest # <<>>
    <3> DEFINE e == Head(eRest)
    <3>1. /\ n \in 0..2 /\ e = InOrderOfSystem[n + 1] /\ e \in Endpoint
          /\ Len(Tail(eRest)) = 3 - (n + 1)
          /\ \A i \in 1..(3 - (n + 1)) : Tail(eRest)[i] = InOrderOfSystem[n + 1 + i]
      <4>1. Len(eRest) \in Nat /\ Len(eRest) # 0 /\ Len(eRest) = 3 - n
        BY <2>1, <2>2, <2>4, LenProperties, EmptySeq DEF PassedEndpoints
      <4>2. n \in 0..2
        BY <4>1
      <4>3. e = eRest[1] /\ e \in Endpoint
        BY <2>2, <2>4, HeadTailProperties
      <4>4. /\ Len(Tail(eRest)) = Len(eRest) - 1
            /\ \A i \in 1..Len(Tail(eRest)) : Tail(eRest)[i] = eRest[i + 1]
        BY <2>2, <2>4, HeadTailProperties
      <4>5. Len(Tail(eRest)) = 3 - (n + 1)
        BY <4>1, <4>2, <4>4
      <4>6. \A i \in 1..(3 - (n + 1)) : i + 1 \in 1..(3 - n) /\ n + (i + 1) = n + 1 + i
        BY <4>2
      <4>7. 1 \in 1..(3 - n)
        BY <4>2
      <4> HIDE DEF e
      <4>8. QED
        BY <2>1, <4>2, <4>3, <4>4, <4>5, <4>6, <4>7 DEF PassedEndpoints
    <3>2. eRest' = Tail(eRest)
      BY <1>4, <2>4 DEF Endpoints!Item
    <3>3. PassedEndpoints(n + 1)'
      BY <3>1, <3>2 DEF PassedEndpoints
    <3>4. CASE eFails[e] = "item"
      <4>1. eStep' = "item"
        BY <1>4, <2>4, <3>4 DEF Endpoints!Item
      <4>2. e \notin Readable
        BY <3>4 DEF Readable
      <4> HIDE DEF e
      <4>3. ListOf(eResult, InOrderOfSystem, n + 1, Readable)
        BY <2>1, <2>2, <3>1, <4>2, ListGoesOn
      <4>4. \E k \in 0..3 : PassedEndpoints(k)' /\ ListOf(eResult', InOrderOfSystem, k, Readable')
        <5>1. n + 1 \in 0..3
          BY <3>1
        <5>2. QED
          BY <1>1, <2>2, <3>3, <4>3, <5>1
      <4>5. QED
        BY <1>1, <4>1, <4>4 DEF EndpointsTold, Looking
    <3>5. CASE eFails[e] # "item"
      <4>1. eStep' = "id" /\ eCurrent' = e
        BY <1>4, <2>4, <3>5 DEF Endpoints!Item
      <4> HIDE DEF e
      <4>2. \E k \in 0..2 : /\ PassedEndpoints(k + 1)' /\ eCurrent' = InOrderOfSystem[k + 1]
                            /\ ListOf(eResult', InOrderOfSystem, k, Readable')
        BY <1>1, <2>1, <2>2, <3>1, <3>3, <4>1
      <4>3. QED
        BY <1>1, <3>5, <4>1, <4>2 DEF EndpointsTold, Looking
    <3>6. QED
      BY <3>4, <3>5
  <2>5. QED
    BY <2>3, <2>4
<1>5. CASE Endpoints!DefaultEndpoint
  <2>1. eStep' \in {"id", "end"} /\ eStep = "default_endpoint"
    BY <1>5 DEF Endpoints!DefaultEndpoint, Endpoints!Finish
  <2>2. eCall # "fetch"
    BY <2>1 DEF EndpointsTold
  <2>3. QED
    BY <1>1, <2>1, <2>2 DEF EndpointsTold, Looking
<1>6. ASSUME NEW from \in {"id", "store"}, NEW got, NEW to \in Looking,
             to = (IF from = "id" THEN "store" ELSE "value"), Endpoints!Query(from, got, to)
      PROVE  EndpointsTold'
  <2>1. eStep = from /\ UNCHANGED <<eFails, eCall, eRest>> /\ from \in Looking
    BY <1>6 DEF Endpoints!Query, Looking
  <2>2. CASE eFails[eCurrent] = from
    <3>1. Endpoints!Read(FALSE)
      BY <1>6, <2>2 DEF Endpoints!Query
    <3>2. eFails[eCurrent] # "none" /\ eStep # "value"
      BY <2>1, <2>2
    <3>3. QED
      BY <2>1, <3>1, <3>2, EndpointsToldRead
  <2>3. CASE eFails[eCurrent] # from
    <3>1. eStep' = to /\ UNCHANGED <<eCurrent, eResult>>
      BY <1>6, <2>3 DEF Endpoints!Query
    <3>2. \A n \in 0..3 : PassedEndpoints(n)' <=> PassedEndpoints(n)
      BY <2>1 DEF PassedEndpoints
    <3>3. QED
      BY <1>1, <1>6, <2>1, <2>3, <3>1, <3>2 DEF EndpointsTold, Looking, PassedEndpoints
  <2>4. QED
    BY <2>2, <2>3
<1>7. CASE Endpoints!GetId \/ Endpoints!OpenPropertyStore
  BY <1>6, <1>7 DEF Endpoints!GetId, Endpoints!OpenPropertyStore, Looking
<1>8. CASE Endpoints!GetValue
  <2>1. /\ eStep = "value" /\ Endpoints!Read(eFails[eCurrent] # "value")
        /\ UNCHANGED <<eFails, eCall, eRest>>
    BY <1>8 DEF Endpoints!GetValue
  <2>2. (eFails[eCurrent] # "value") \in BOOLEAN
    OBVIOUS
  <2>3. eStep \in Looking
    BY <2>1 DEF Looking
  <2>4. ~(eFails[eCurrent] # "value") => eFails[eCurrent] # "none"
    OBVIOUS
  <2> DEFINE good == eFails[eCurrent] # "value"
  <2>5. /\ good \in BOOLEAN /\ Endpoints!Read(good)
        /\ (good <=> eStep = "value" /\ eFails[eCurrent] # "value")
        /\ (~good => eFails[eCurrent] # "none")
    BY <2>1, <2>2, <2>4
  <2> HIDE DEF good
  <2>6. QED
    BY <2>1, <2>3, <2>5, EndpointsToldRead
<1>9. QED
  BY <1>2, <1>3, <1>4, <1>5, <1>7, <1>8 DEF Endpoints!Next

LEMMA EndpointsListed == ASSUME EndpointsInv, EndpointsTold PROVE Endpoints!ListIsWhole
<1> SUFFICES ASSUME eStep = "end", eCall = "fetch", eResult # <<>>
             PROVE  /\ Endpoints!IsPartOf(eResult, InOrderOfSystem)
                    /\ Endpoints!Range(eResult) = Readable
  BY AllEndpoints DEF Endpoints!ListIsWhole, InOrderOfSystem, Readable
<1>1. ListOf(eResult, InOrderOfSystem, 3, Readable)
  BY DEF EndpointsTold
<1>2. DOMAIN eResult = 1..Len(eResult) /\ DOMAIN InOrderOfSystem = 1..3
  BY LenProperties DEF InOrderOfSystem, EndpointsInv, EndpointTypes
<1>3. Endpoints!IsPartOf(eResult, InOrderOfSystem)
  BY <1>1, <1>2 DEF ListOf, InOrder, Endpoints!IsPartOf
<1>4. {InOrderOfSystem[k] : k \in 1..3} = Endpoint
  BY DEF InOrderOfSystem, Endpoint
<1>5. GoodOnes(InOrderOfSystem, 3, Readable) = Readable
  <2> HIDE DEF InOrderOfSystem
  <2>1. Readable \subseteq Endpoint
    BY DEF Readable
  <2>2. QED
    BY <1>4, <2>1 DEF GoodOnes
<1>6. Endpoints!Range(eResult) = {eResult[i] : i \in 1..Len(eResult)}
  BY <1>2 DEF Endpoints!Range
<1>7. QED
  BY <1>1, <1>3, <1>5, <1>6 DEF ListOf

-----------------------------------------------------------------------------
(* The list of capture devices.                                            *)

\* With the source of the current device, and without.
WithSource == {"formats_reader", "types", "current", "shutdown"}
Inside == WithSource \cup {"device", "match"}

Camera == {"c1", "c2"}

CameraTypes ==
  /\ cStep \in Inside \cup {"start", "end"}
  /\ cAt \in 1..3 /\ (cStep \in Inside \ {"device"} => cAt <= 2) /\ (cStep = "start" => cAt = 1)
  /\ cUnreleased \cup cRunning \cup cFailed \subseteq Camera
  /\ cHeld \subseteq {"attributes", "source", "reader", "type", "devices"}

\* A library is up, or its start has failed.
LibrariesUp == \A l \in Cameras!Library : cStartedUp[l] = IF l \in cStarts THEN 1 ELSE 0

\* Only the source of the current device runs, while it is asked for its formats;
\* its current media type is the only one lost since the device before it.
CameraHandles ==
  /\ cStep = "start" => cHeld = {} /\ cUnreleased = {}
  /\ cStartedUp \in [Cameras!Library -> -1..1]
  /\ cStep \in Inside => LibrariesUp
  /\ cStep \in WithSource => cRunning \subseteq {Cameras!Now}
  /\ cStep \in {"start", "device", "match"} => cRunning = {}
  /\ cLostTypes \in Nat /\ cLostTypes <= 2
  /\ cStep \in {"shutdown", "match"} => cLostTypes <= cAt
  /\ cStep \notin {"shutdown", "match", "end"} => cLostTypes <= cAt - 1
  /\ cStep = "end" => Cameras!EverythingIsReleased

CamerasInv == CameraTypes /\ CameraHandles

LEMMA AllCameras ==
  /\ Cameras!Range(<<"c1", "c2">>) = Camera /\ Len(<<"c1", "c2">>) = 2
  /\ cAt \in 1..2 => Cameras!Now \in Camera
BY DEF Cameras!Range, Cameras!Now, Camera

LEMMA CamerasStart == Cameras!Init => CamerasInv
BY DEF Cameras!Init, CamerasInv, CameraTypes, CameraHandles, Inside, WithSource

\* Each library is shut down, also one that has not started.
LibrariesDown == \A l \in Cameras!Library : cStartedUp[l] = IF l \in cStarts THEN 0 ELSE -1

LEMMA LibrariesAreShutDown ==
  ASSUME NEW up, \A l \in Cameras!Library : up[l] = IF l \in cStarts THEN 1 ELSE 0,
         cStarts' = cStarts, cStartedUp' = Cameras!ShutDown(up)
  PROVE  LibrariesDown' /\ cStartedUp' \in [Cameras!Library -> -1..1]
<1>1. \A l \in Cameras!Library : up[l] - 1 = (IF l \in cStarts THEN 0 ELSE -1)
  OBVIOUS
<1>2. \A l \in Cameras!Library : cStartedUp'[l] = IF l \in cStarts THEN 0 ELSE -1
  BY <1>1 DEF Cameras!ShutDown
<1>3. \A l \in Cameras!Library : up[l] - 1 \in -1..1
  BY <1>1
<1>4. cStartedUp' \in [Cameras!Library -> -1..1]
  BY <1>3 DEF Cameras!ShutDown
<1>5. QED
  BY <1>2, <1>4 DEF LibrariesDown

\* The call is left with an error, for which the caller has no place.
LEMMA CamerasThrown ==
  ASSUME CamerasInv, cStep \in Inside, ~cPlace, UNCHANGED <<cPlace, cStarts>>, Cameras!Leave(<<>>),
         cFailed' \subseteq Camera,
         UNCHANGED <<cAt, cUnreleased, cRunning, cPosition, cFormats, cLostTypes>>
  PROVE  CamerasInv'
<1>1. /\ cStep' = "end" /\ cStartedUp' = Cameras!ShutDown(cStartedUp)
      /\ cHeld' = cHeld \ {"attributes", "source", "reader", "type"}
  BY DEF Cameras!Leave, Cameras!Guarded
<1>6. LibrariesDown' /\ cStartedUp' \in [Cameras!Library -> -1..1]
  BY <1>1, LibrariesAreShutDown DEF CamerasInv, CameraHandles, LibrariesUp
<1>2. CameraTypes'
  BY <1>1 DEF CamerasInv, CameraTypes, Inside, WithSource
<1>3. Cameras!EverythingIsReleased'
  BY <1>1, <1>6, AllCameras
     DEF Cameras!EverythingIsReleased, Cameras!Guarded, CamerasInv, CameraHandles, LibrariesDown
<1>4. CameraHandles'
  BY <1>1, <1>3, <1>6 DEF CamerasInv, CameraHandles, Inside, WithSource
<1>5. QED
  BY <1>2, <1>4 DEF CamerasInv

\* The next device, with the source of this one shut down, if it runs.
LEMMA CamerasNextDevice ==
  ASSUME CamerasInv, cStep \in Inside, cAt <= 2, cFailed' \subseteq Camera,
         NEW with, NEW shut, cRunning \subseteq shut, Cameras!NextDevice(with, shut),
         cStarts' = cStarts, cStep = "device" => cLostTypes <= cAt - 1
  PROVE  CamerasInv'
<1>1. /\ cStep' = "device" /\ cAt' = cAt + 1 /\ cRunning' = {} /\ cHeld' \subseteq cHeld
      /\ UNCHANGED <<cUnreleased, cStartedUp, cLostTypes>>
  BY DEF Cameras!NextDevice
<1>2. cLostTypes <= cAt /\ LibrariesUp /\ LibrariesUp' /\ cAt \in 1..2
  BY <1>1 DEF CamerasInv, CameraTypes, CameraHandles, Inside, WithSource, LibrariesUp
<1>3. CameraTypes'
  BY <1>1, <1>2 DEF CamerasInv, CameraTypes, Inside, WithSource
<1>4. CameraHandles'
  BY <1>1, <1>2 DEF CamerasInv, CameraTypes, CameraHandles, Inside, WithSource
<1>5. QED
  BY <1>3, <1>4 DEF CamerasInv

\* A step that stays with the device, and does not release anything.
LEMMA CamerasInside ==
  ASSUME CamerasInv, cStep \in Inside, cStep' \in WithSource, cAt <= 2,
         UNCHANGED <<cAt, cUnreleased, cStarts, cStartedUp>>,
         cHeld' \subseteq {"attributes", "source", "reader", "type", "devices"},
         cRunning' \subseteq {Cameras!Now}, cFailed' \subseteq Camera,
         \/ cStep \notin {"shutdown", "match"} /\ cStep' # "shutdown" /\ cLostTypes' = cLostTypes
         \/ cStep = "current" /\ cStep' = "shutdown" /\ cLostTypes' = cLostTypes + 1
  PROVE  CamerasInv'
<1>1. cAt \in 1..2 /\ Cameras!Now \in Camera /\ Cameras!Now' = Cameras!Now
  BY AllCameras DEF CamerasInv, CameraTypes, Inside, WithSource, Cameras!Now
<1>2. CameraTypes'
  BY <1>1 DEF CamerasInv, CameraTypes, Inside, WithSource
<1>3. /\ LibrariesUp' /\ cStartedUp' \in [Cameras!Library -> -1..1] /\ cLostTypes \in Nat
      /\ (cStep \notin {"shutdown", "match"} => cLostTypes <= cAt - 1)
  BY DEF CamerasInv, CameraHandles, Inside, WithSource, LibrariesUp
<1>4. CameraHandles'
  BY <1>1, <1>3 DEF CameraHandles, Inside, WithSource
<1>5. QED
  BY <1>2, <1>4 DEF CamerasInv

LEMMA CamerasStep == ASSUME CamerasInv, Cameras!Next PROVE CamerasInv'
<1>1. cPlace' = cPlace /\ cStarts' = cStarts
  BY DEF Cameras!Next, Cameras!Start, Cameras!Activate, Cameras!OpenFormatsReader,
         Cameras!NextType, Cameras!CurrentFormat, Cameras!Shutdown, Cameras!Match,
         Cameras!ReleaseDevices
<1>2. cAt \in 1..2 => Cameras!Now \in Camera /\ cFailed \cup {Cameras!Now} \subseteq Camera
  BY AllCameras DEF CamerasInv, CameraTypes
<1>3. cAt \in 1..3
  BY DEF CamerasInv, CameraTypes
<1>4. CASE Cameras!Start
  <2>1. cAt' = cAt /\ cRunning' = cRunning /\ cLostTypes' = cLostTypes /\ cFailed' = cFailed
    BY <1>4 DEF Cameras!Start
  <2>2. cAt = 1 /\ cRunning = {} /\ cLostTypes = 0 /\ cHeld = {}
        /\ cStep = "start" /\ cUnreleased \subseteq Camera
    BY <1>4 DEF Cameras!Start, CamerasInv, CameraTypes, CameraHandles, Inside, WithSource
  <2>3. CASE cStep' = "device" /\ cUnreleased' = Camera
             /\ cHeld' = {"attributes", "devices"} /\ cStartedUp' = Cameras!Started
    <3>1. CameraTypes'
      BY <2>1, <2>2, <2>3 DEF CamerasInv, CameraTypes, Inside, WithSource
    <3>4. LibrariesUp' /\ cStartedUp' \in [Cameras!Library -> -1..1]
      BY <1>1, <2>3 DEF LibrariesUp, Cameras!Started
    <3>2. CameraHandles'
      BY <2>1, <2>2, <2>3, <3>4 DEF CameraHandles, Inside, WithSource
    <3>3. QED
      BY <3>1, <3>2 DEF CamerasInv
  <2>4. CASE /\ cStep' = "end" /\ cStartedUp' = Cameras!ShutDown(Cameras!Started)
             /\ UNCHANGED <<cUnreleased, cHeld>>
    <3>1. CameraTypes'
      BY <2>1, <2>2, <2>4 DEF CamerasInv, CameraTypes, Inside, WithSource
    <3>2. cUnreleased = {}
      BY <1>4 DEF Cameras!Start, CamerasInv, CameraHandles
    <3>6. LibrariesDown' /\ cStartedUp' \in [Cameras!Library -> -1..1]
      BY <1>1, <2>4, LibrariesAreShutDown DEF Cameras!Started
    <3>3. Cameras!EverythingIsReleased'
      BY <2>1, <2>2, <2>4, <3>2, <3>6, AllCameras DEF Cameras!EverythingIsReleased, LibrariesDown
    <3>4. CameraHandles'
      BY <2>1, <2>2, <2>4, <3>3, <3>6 DEF CameraHandles, Inside, WithSource
    <3>5. QED
      BY <3>1, <3>4 DEF CamerasInv
  <2>5. QED
    BY <1>4, <2>3, <2>4, AllCameras DEF Cameras!Start
<1>5. CASE Cameras!ReleaseDevices
  <2>1. /\ cStep' = "end" /\ cHeld' = {} /\ cUnreleased' = {}
        /\ UNCHANGED <<cAt, cRunning, cLostTypes, cFailed>> /\ cRunning = {}
    BY <1>5 DEF Cameras!ReleaseDevices, Cameras!Guarded, CamerasInv, CameraTypes, CameraHandles,
                Inside, WithSource
  <2>2. CameraTypes'
    BY <2>1 DEF CamerasInv, CameraTypes, Inside, WithSource
  <2>6. LibrariesDown' /\ cStartedUp' \in [Cameras!Library -> -1..1]
    <3>1. cStep = "device" /\ cStartedUp' = Cameras!ShutDown(cStartedUp)
      BY <1>5 DEF Cameras!ReleaseDevices
    <3>2. QED
      BY <1>1, <3>1, LibrariesAreShutDown
         DEF CamerasInv, CameraHandles, Inside, WithSource, LibrariesUp
  <2>3. Cameras!EverythingIsReleased'
    BY <2>1, <2>6, AllCameras
       DEF Cameras!EverythingIsReleased, CamerasInv, CameraHandles, LibrariesDown
  <2>4. CameraHandles'
    BY <2>1, <2>3, <2>6 DEF CamerasInv, CameraHandles, Inside, WithSource
  <2>5. QED
    BY <2>2, <2>4 DEF CamerasInv
<1>6. CASE Cameras!Activate \/ Cameras!OpenFormatsReader \/ Cameras!NextType
           \/ Cameras!CurrentFormat \/ Cameras!Shutdown \/ Cameras!Match
  <2>1. cStep \in Inside /\ (cStep = "device" => cAt <= 2)
    BY <1>6 DEF Cameras!Activate, Cameras!OpenFormatsReader, Cameras!NextType,
                Cameras!CurrentFormat, Cameras!Shutdown, Cameras!Match, Inside, WithSource
  <2>2. cAt \in 1..2 /\ cAt <= 2 /\ Cameras!Now \in Camera
    BY <2>1, <1>2, AllCameras DEF CamerasInv, CameraTypes
  <2>3. cFailed' \subseteq Camera
    <3>1. cFailed \subseteq Camera /\ cFailed' \in {cFailed, cFailed \cup {Cameras!Now}}
      BY <1>6 DEF Cameras!Activate, Cameras!OpenFormatsReader, Cameras!NextType,
                  Cameras!CurrentFormat, Cameras!Shutdown, Cameras!Match, CamerasInv, CameraTypes
    <3>2. QED
      BY <2>2, <3>1
  <2> DEFINE Thrown ==
        /\ ~cPlace /\ Cameras!Leave(<<>>)
        /\ UNCHANGED <<cAt, cUnreleased, cRunning, cPosition, cFormats, cLostTypes>>
  <2>4. CASE Thrown
    BY <1>1, <2>1, <2>3, <2>4, CamerasThrown
  <2> HIDE DEF Thrown
  <2>5. /\ cHeld \subseteq {"attributes", "source", "reader", "type", "devices"}
        /\ cStep \in WithSource => cRunning \subseteq {Cameras!Now}
        /\ cStep \in {"device", "match"} => cRunning = {}
        /\ cLostTypes \in Nat /\ (cStep \notin {"shutdown", "match"} => cLostTypes <= cAt - 1)
    BY <2>1 DEF CamerasInv, CameraTypes, CameraHandles, Inside, WithSource
  <2>6. CASE Cameras!Activate
    <3>1. cStep = "device"
      BY <2>6 DEF Cameras!Activate
    <3>2. CASE Cameras!NextDevice(cResult, {})
      BY <1>1, <2>1, <2>2, <2>3, <2>5, <3>1, <3>2, CamerasNextDevice
    <3>3. CASE /\ cStep' = "formats_reader" /\ cRunning' = cRunning \cup {Cameras!Now}
               /\ cHeld' = cHeld \cup {"source"}
               /\ UNCHANGED <<cAt, cUnreleased, cStartedUp, cLostTypes>>
      BY <1>1, <2>1, <2>2, <2>3, <2>5, <3>1, <3>3, CamerasInside DEF WithSource
    <3>4. QED
      BY <2>4, <2>6, <3>2, <3>3 DEF Cameras!Activate, Cameras!ThrowOr, Thrown
  <2>7. CASE Cameras!OpenFormatsReader
    <3>1. cStep = "formats_reader"
      BY <2>7 DEF Cameras!OpenFormatsReader
    <3>2. CASE /\ cStep' \in {"types", "current"} /\ cHeld' \in {cHeld, cHeld \cup {"reader"}}
               /\ UNCHANGED <<cAt, cUnreleased, cStartedUp, cRunning, cLostTypes>>
      BY <1>1, <2>1, <2>2, <2>3, <2>5, <3>1, <3>2, CamerasInside DEF WithSource
    <3>3. QED
      BY <2>4, <2>7, <3>2 DEF Cameras!OpenFormatsReader, Cameras!ThrowOr, Thrown
  <2>8. CASE Cameras!NextType
    <3>1. cStep = "types"
      BY <2>8 DEF Cameras!NextType
    <3>2. CASE /\ cStep' \in {"types", "current"} /\ cHeld' \in {cHeld, cHeld \ {"reader"}}
               /\ UNCHANGED <<cAt, cUnreleased, cStartedUp, cRunning, cLostTypes>>
      BY <1>1, <2>1, <2>2, <2>3, <2>5, <3>1, <3>2, CamerasInside DEF WithSource
    <3>3. QED
      BY <2>4, <2>8, <3>1, <3>2 DEF Cameras!NextType, Cameras!ThrowOr, Thrown
  <2>9. CASE Cameras!CurrentFormat
    <3>1. cStep = "current"
      BY <2>9 DEF Cameras!CurrentFormat
    <3>2. CASE Cameras!NextDevice(cResult, {Cameras!Now})
      BY <1>1, <2>1, <2>2, <2>3, <2>5, <3>1, <3>2, CamerasNextDevice DEF WithSource
    <3>3. CASE /\ cStep' = "shutdown" /\ cLostTypes' = cLostTypes + 1
               /\ UNCHANGED <<cAt, cUnreleased, cHeld, cStartedUp, cRunning>>
      BY <1>1, <2>1, <2>2, <2>3, <2>5, <3>1, <3>3, CamerasInside DEF WithSource
    <3>4. QED
      BY <2>4, <2>9, <3>2, <3>3 DEF Cameras!CurrentFormat, Cameras!ThrowOr, Thrown
  <2>10. CASE Cameras!Shutdown
    <3>1. cStep = "shutdown"
      BY <2>10 DEF Cameras!Shutdown
    <3>2. CASE Cameras!NextDevice(cResult, {Cameras!Now})
      BY <1>1, <2>1, <2>2, <2>3, <2>5, <3>1, <3>2, CamerasNextDevice DEF WithSource
    <3>3. CASE /\ cStep' = "match" /\ cRunning' = cRunning \ {Cameras!Now}
               /\ UNCHANGED <<cAt, cUnreleased, cHeld, cStartedUp, cLostTypes>>
      <4>1. cRunning' = {}
        BY <2>5, <3>1, <3>3 DEF WithSource
      <4>2. CameraTypes'
        BY <2>2, <2>3, <3>3, <4>1 DEF CamerasInv, CameraTypes, Inside, WithSource
      <4>3. CameraHandles'
        BY <1>1, <3>1, <3>3, <4>1 DEF CamerasInv, CameraHandles, Inside, WithSource, LibrariesUp
      <4>4. QED
        BY <4>2, <4>3 DEF CamerasInv
    <3>4. QED
      BY <2>4, <2>10, <3>2, <3>3 DEF Cameras!Shutdown, Cameras!ThrowOr, Thrown
  <2>11. CASE Cameras!Match
    <3>1. cStep = "match"
      BY <2>11 DEF Cameras!Match
    <3>2. ASSUME NEW with, Cameras!NextDevice(with, {}) PROVE CamerasInv'
      BY <1>1, <2>1, <2>2, <2>3, <2>5, <3>1, <3>2, CamerasNextDevice
    <3>3. QED
      BY <2>4, <2>11, <3>2 DEF Cameras!Match, Cameras!ThrowOr, Thrown
  <2>12. QED
    BY <1>6, <2>6, <2>7, <2>8, <2>9, <2>10, <2>11
<1>7. QED
  BY <1>4, <1>5, <1>6 DEF Cameras!Next

LEMMA CamerasReleased ==
  ASSUME CamerasInv PROVE Cameras!TypeOK /\ Cameras!EverythingIsReleased
<1>1. Cameras!TypeOK
  BY AllCameras DEF CamerasInv, CameraTypes, CameraHandles, Cameras!TypeOK, Cameras!Guarded
<1>2. Cameras!EverythingIsReleased
  BY DEF CamerasInv, CameraHandles, Cameras!EverythingIsReleased
<1>3. QED
  BY <1>1, <1>2

-----------------------------------------------------------------------------
(* What the list of capture devices tells.                                 *)

CamerasInOrder == <<"c1", "c2">>
MediaType == [name : {"YUY2", "MJPG", "odd"}, size : {"vga", "hd"}]
Format == [name : {"YUY2", "MJPG", "odd"}, sizes : SUBSET {"vga", "hd"}]
ToldCamera == [device : Camera, formats : Seq(Format), current : Nat]
Devices(list) == [i \in 1..Len(list) |-> list[i].device]

\* The formats are those of the first n media types.
FormatsOf(fs, all, n) ==
  /\ {fs[i].name : i \in 1..Len(fs)} = {all[k].name : k \in 1..n} \cap {"YUY2", "MJPG"}
  /\ \A i \in 1..Len(fs) :
       fs[i].sizes = {all[k].size : k \in {k \in 1..n : all[k].name = fs[i].name}}

\* See IsToldWhole of CaptureSources.
WholeOf(r, all) ==
  /\ r.current \in 1..Len(r.formats) /\ r.formats[r.current].name = Head(all).name
  /\ FormatsOf(r.formats, all, Len(all))

\* Without its formats a device is not told.
FormatsHad ==
  \/ Cameras!Now \in cFailed /\ cFormats = <<>>
  \/ Cameras!Now \notin cFailed /\ FormatsOf(cFormats, cTypes[Cameras!Now], Len(cTypes[Cameras!Now]))

FormatsRight ==
  /\ cFormats \in Seq(Format)
  /\ cStep = "device" /\ cAt <= 2 => Cameras!Now \notin cFailed
  /\ cStep = "formats_reader" => Cameras!Now \notin cFailed /\ cFormats = <<>> /\ cPosition = 1
  /\ cStep = "types" =>
       /\ Cameras!Now \notin cFailed /\ cPosition \in 1..(Len(cTypes[Cameras!Now]) + 1)
       /\ FormatsOf(cFormats, cTypes[Cameras!Now], cPosition - 1)
  /\ cStep \in {"current", "shutdown", "match"} => FormatsHad
  /\ cStep \in {"shutdown", "match"} => cTypes[Cameras!Now] # <<>>

ListRight ==
  /\ cTypes \in [Camera -> Seq(MediaType)]
  /\ cResult \in Seq(ToldCamera)
  /\ \A i \in 1..Len(cResult) : WholeOf(cResult[i], cTypes[cResult[i].device])
  /\ cStep = "start" => cResult = <<>> /\ cFailed = {}
  /\ cStep \in Inside =>
       /\ ListOf(Devices(cResult), CamerasInOrder, cAt - 1, Camera \ cFailed)
       /\ \A k \in (cAt + 1)..2 : CamerasInOrder[k] \notin cFailed
  /\ cStep = "end" => IF cAt > 2 THEN ListOf(Devices(cResult), CamerasInOrder, 2, Camera \ cFailed)
                      ELSE cResult = <<>>

CamerasTold == ListRight /\ FormatsRight

LEMMA CamerasOrder ==
  /\ \A i, j \in 1..2 : CamerasInOrder[i] = CamerasInOrder[j] => i = j
  /\ \A i \in 1..2 : CamerasInOrder[i] \in Camera
  /\ Camera = {CamerasInOrder[k] : k \in 1..2} /\ Cameras!Now = CamerasInOrder[cAt]
  /\ DOMAIN CamerasInOrder = 1..2
BY DEF CamerasInOrder, Cameras!Now, Camera

LEMMA DevicesOf ==
  ASSUME NEW list \in Seq(ToldCamera)
  PROVE  /\ Devices(list) \in Seq(Camera) /\ Len(Devices(list)) = Len(list)
         /\ \A r \in ToldCamera : Devices(Append(list, r)) = Append(Devices(list), r.device)
<1>1. Len(list) \in Nat /\ \A i \in 1..Len(list) : list[i] \in ToldCamera
  BY LenProperties, ElementOfSeq
<1>2. Devices(list) \in Seq(Camera) /\ Len(Devices(list)) = Len(list)
  BY <1>1 DEF Devices, ToldCamera
<1>3. ASSUME NEW r \in ToldCamera PROVE Devices(Append(list, r)) = Append(Devices(list), r.device)
  <2> DEFINE a == Append(list, r)
             b == Append(Devices(list), r.device)
  <2>1. /\ a \in Seq(ToldCamera) /\ Len(a) = Len(list) + 1 /\ a[Len(list) + 1] = r
        /\ \A i \in 1..Len(list) : a[i] = list[i]
    BY <1>1, <1>3, AppendProperties
  <2>2. r.device \in Camera
    BY DEF ToldCamera
  <2>3. /\ b \in Seq(Camera) /\ Len(b) = Len(list) + 1 /\ b[Len(list) + 1] = r.device
        /\ \A i \in 1..Len(list) : b[i] = Devices(list)[i]
    BY <1>1, <1>2, <2>2, AppendProperties
  <2>4. /\ Devices(a) \in Seq(Camera) /\ Len(Devices(a)) = Len(list) + 1
        /\ \A i \in 1..(Len(list) + 1) : Devices(a)[i] = a[i].device
    <3>1. \A i \in 1..(Len(list) + 1) : a[i].device \in Camera
      <4>1. \A i \in 1..(Len(list) + 1) : a[i] \in ToldCamera
        BY <2>1, ElementOfSeq
      <4>2. QED
        BY <4>1 DEF ToldCamera
    <3> HIDE DEF a
    <3>2. Devices(a) = [i \in 1..(Len(list) + 1) |-> a[i].device]
      BY <2>1 DEF Devices
    <3>3. QED
      BY <1>1, <3>1, <3>2
  <2>5. \A i \in 1..Len(list) : Devices(list)[i] = list[i].device
    BY DEF Devices
  <2>6. \A i \in 1..(Len(list) + 1) : i \in 1..Len(list) \/ i = Len(list) + 1
    BY <1>1
  <2> HIDE DEF a, b
  <2>7. \A i \in 1..Len(b) : Devices(a)[i] = b[i]
    BY <2>1, <2>3, <2>4, <2>5, <2>6
  <2>8. Devices(a) = b
    BY <2>3, <2>4, <2>7, SeqEqual
  <2>9. QED
    BY <2>8 DEF a, b
<1>4. QED
  BY <1>2, <1>3

LEMMA CamerasToldStart == Cameras!Init => CamerasTold
<1> SUFFICES ASSUME Cameras!Init PROVE CamerasTold
  OBVIOUS
<1> DEFINE four == <<Type("YUY2", "vga"), Type("odd", "vga"), Type("YUY2", "hd"), Type("MJPG", "hd")>>
           three == <<Type("odd", "vga"), Type("MJPG", "vga"), Type("MJPG", "vga")>>
           NT == {<<>>, four, three}
<1>1. \A n \in {"YUY2", "MJPG", "odd"}, s \in {"vga", "hd"} : Type(n, s) \in MediaType
  BY DEF Type, MediaType
<1>2. NT \subseteq Seq(MediaType)
  <2>1. four \in Seq(MediaType)
    BY <1>1
  <2>2. three \in Seq(MediaType)
    BY <1>1
  <2>3. <<>> \in Seq(MediaType)
    OBVIOUS
  <2>4. QED
    BY <2>1, <2>2, <2>3
<1>3. cTypes \in [Camera -> NT]
  BY AllCameras DEF Cameras!Init
<1>4. cTypes \in [Camera -> Seq(MediaType)]
  <2> HIDE DEF NT
  <2>1. QED
    BY <1>2, <1>3
<1>5. cStep = "start" /\ cResult = <<>> /\ cFailed = {} /\ cFormats = <<>>
  BY DEF Cameras!Init
<1>6. <<>> \in Seq(ToldCamera) /\ <<>> \in Seq(Format) /\ Len(<<>>) = 0
  OBVIOUS
<1>7. QED
  BY <1>4, <1>5, <1>6 DEF CamerasTold, ListRight, FormatsRight, Inside, WithSource

\* One more media type.
LEMMA TypeAdded ==
  ASSUME cFormats \in Seq(Format), NEW all \in Seq(MediaType), NEW n \in Nat, n < Len(all),
         FormatsOf(cFormats, all, n)
  PROVE  /\ Cameras!AddType(all[n + 1]) \in Seq(Format)
         /\ FormatsOf(Cameras!AddType(all[n + 1]), all, n + 1)
<1> DEFINE t == all[n + 1]
           fs == cFormats
           m == Len(fs)
           new == Cameras!AddType(t)
<1>1. /\ t \in MediaType /\ t.name \in {"YUY2", "MJPG", "odd"} /\ t.size \in {"vga", "hd"}
      /\ m \in Nat /\ DOMAIN fs = 1..m
      /\ \A i \in 1..m : fs[i] \in Format
  <2>1. n + 1 \in 1..Len(all)
    BY LenProperties
  <2>2. t \in MediaType
    BY <2>1, ElementOfSeq
  <2>3. t.name \in {"YUY2", "MJPG", "odd"} /\ t.size \in {"vga", "hd"}
    BY <2>2 DEF MediaType
  <2>4. m \in Nat /\ DOMAIN fs = 1..m /\ \A i \in 1..m : fs[i] \in Format
    BY LenProperties, ElementOfSeq
  <2>5. QED
    BY <2>2, <2>3, <2>4
<1>2. 1..(n + 1) = 1..n \cup {n + 1}
  OBVIOUS
<1>3. {all[k].name : k \in 1..(n + 1)} = {all[k].name : k \in 1..n} \cup {t.name}
  BY <1>2
<1>4. \A name : {all[k].size : k \in {k \in 1..(n + 1) : all[k].name = name}}
                 = {all[k].size : k \in {k \in 1..n : all[k].name = name}}
                   \cup {s \in {t.size} : t.name = name}
  BY <1>2
<1>5. Cameras!Names(fs) = {fs[i].name : i \in 1..m}
  BY <1>1 DEF Cameras!Names
<1>6. \A i \in 1..m : fs[i].name \in {"YUY2", "MJPG"}
  BY DEF FormatsOf
<1>7. CASE t.name \notin {"YUY2", "MJPG"}
  <2>1. new = fs
    BY <1>7 DEF Cameras!AddType, Cameras!IsSupported
  <2> HIDE DEF t
  <2>2. FormatsOf(fs, all, n + 1)
    <3>1. {all[k].name : k \in 1..(n + 1)} \cap {"YUY2", "MJPG"}
            = {all[k].name : k \in 1..n} \cap {"YUY2", "MJPG"}
      BY <1>3, <1>7
    <3>2. ASSUME NEW i \in 1..m
          PROVE  fs[i].sizes = {all[k].size : k \in {k \in 1..(n + 1) : all[k].name = fs[i].name}}
      <4>1. fs[i].name # t.name
        BY <1>6, <1>7
      <4>2. fs[i].sizes = {all[k].size : k \in {k \in 1..n : all[k].name = fs[i].name}}
        BY DEF FormatsOf
      <4>3. QED
        BY <1>4, <4>1, <4>2
    <3>3. QED
      BY <3>1, <3>2 DEF FormatsOf
  <2>3. QED
    BY <2>1, <2>2 DEF t
<1>8. CASE t.name \in {"YUY2", "MJPG"} /\ t.name \notin Cameras!Names(fs)
  <2> DEFINE f == [name |-> t.name, sizes |-> {t.size}]
  <2>1. new = Append(fs, f)
    BY <1>8 DEF Cameras!AddType, Cameras!IsSupported
  <2>2. f \in Format /\ f.name = t.name /\ f.sizes = {t.size}
    BY <1>1, <1>8 DEF Format
  <2> HIDE DEF f, t
  <2>3. /\ new \in Seq(Format) /\ Len(new) = m + 1 /\ new[m + 1] = f
        /\ \A i \in 1..m : new[i] = fs[i]
    BY <1>1, <2>1, <2>2, AppendProperties
  <2>4. 1..(m + 1) = 1..m \cup {m + 1}
    BY <1>1
  <2> HIDE DEF new
  <2>5. {new[i].name : i \in 1..(m + 1)} = {fs[i].name : i \in 1..m} \cup {t.name}
    BY <2>2, <2>3, <2>4
  <2>6. {new[i].name : i \in 1..(m + 1)} = {all[k].name : k \in 1..(n + 1)} \cap {"YUY2", "MJPG"}
    BY <1>3, <1>8, <2>5 DEF FormatsOf
  <2>7. {all[k].size : k \in {k \in 1..n : all[k].name = t.name}} = {}
    <3>1. \A k \in 1..n : all[k].name = t.name => t.name \in {fs[i].name : i \in 1..m}
      BY <1>8 DEF FormatsOf
    <3>2. QED
      BY <1>5, <1>8, <3>1
  <2>8. ASSUME NEW i \in 1..(m + 1)
        PROVE  new[i].sizes = {all[k].size : k \in {k \in 1..(n + 1) : all[k].name = new[i].name}}
    <3>1. CASE i \in 1..m
      <4>1. fs[i].sizes = {all[k].size : k \in {k \in 1..n : all[k].name = fs[i].name}}
        BY <3>1 DEF FormatsOf
      <4>2. fs[i].name # t.name
        BY <1>5, <1>8, <3>1
      <4>3. {s \in {t.size} : t.name = fs[i].name} = {}
        BY <4>2
      <4>4. {all[k].size : k \in {k \in 1..(n + 1) : all[k].name = fs[i].name}}
              = {all[k].size : k \in {k \in 1..n : all[k].name = fs[i].name}}
        BY <1>4, <4>3
      <4>5. new[i] = fs[i]
        BY <2>3, <3>1
      <4>6. QED
        BY <4>1, <4>4, <4>5
    <3>2. CASE i = m + 1
      <4>1. {all[k].size : k \in {k \in 1..(n + 1) : all[k].name = t.name}} = {t.size}
        BY <1>4, <2>7
      <4>2. QED
        BY <2>2, <2>3, <3>2, <4>1
    <3>3. QED
      BY <2>4, <3>1, <3>2
  <2>9. QED
    BY <2>3, <2>6, <2>8 DEF FormatsOf, new, t
<1>9. CASE t.name \in {"YUY2", "MJPG"} /\ t.name \in Cameras!Names(fs)
  <2>1. new = [i \in DOMAIN fs |-> IF fs[i].name = t.name
                                   THEN [fs[i] EXCEPT !.sizes = @ \cup {t.size}] ELSE fs[i]]
    BY <1>9 DEF Cameras!AddType, Cameras!IsSupported
  <2> HIDE DEF t
  <2>2. \A i \in 1..m : /\ [fs[i] EXCEPT !.sizes = @ \cup {t.size}] \in Format
                        /\ [fs[i] EXCEPT !.sizes = @ \cup {t.size}].name = fs[i].name
                        /\ [fs[i] EXCEPT !.sizes = @ \cup {t.size}].sizes = fs[i].sizes \cup {t.size}
    BY <1>1 DEF Format
  <2>3. /\ new = [i \in 1..m |-> IF fs[i].name = t.name
                                 THEN [fs[i] EXCEPT !.sizes = @ \cup {t.size}] ELSE fs[i]]
        /\ m \in Nat
    BY <1>1, <2>1, LenProperties
  <2>4. \A i \in 1..m : (IF fs[i].name = t.name
                         THEN [fs[i] EXCEPT !.sizes = @ \cup {t.size}] ELSE fs[i]) \in Format
    BY <1>1, <2>2
  <2> HIDE DEF new
  <2>5. new \in Seq(Format) /\ Len(new) = m
    BY <2>3, <2>4
  <2>6. \A i \in 1..m : /\ new[i].name = fs[i].name
                        /\ new[i].sizes = fs[i].sizes \cup {s \in {t.size} : t.name = fs[i].name}
    BY <2>2, <2>3
  <2>7. {new[i].name : i \in 1..m} = {fs[i].name : i \in 1..m}
    BY <2>6
  <2>8. {all[k].name : k \in 1..(n + 1)} \cap {"YUY2", "MJPG"} = {fs[i].name : i \in 1..m}
    BY <1>3, <1>5, <1>9 DEF FormatsOf
  <2>9. ASSUME NEW i \in 1..m
        PROVE  new[i].sizes = {all[k].size : k \in {k \in 1..(n + 1) : all[k].name = new[i].name}}
    <3>1. fs[i].sizes = {all[k].size : k \in {k \in 1..n : all[k].name = fs[i].name}}
      BY DEF FormatsOf
    <3>2. {all[k].size : k \in {k \in 1..(n + 1) : all[k].name = fs[i].name}}
            = {all[k].size : k \in {k \in 1..n : all[k].name = fs[i].name}}
              \cup {s \in {t.size} : t.name = fs[i].name}
      BY <1>4
    <3>3. new[i].name = fs[i].name
      BY <2>6
    <3>4. QED
      BY <2>6, <3>1, <3>2, <3>3
  <2>10. QED
    BY <2>5, <2>7, <2>8, <2>9 DEF FormatsOf, new, t
<1>10. QED
  BY <1>7, <1>8, <1>9

\* The call is left with an error.
LEMMA CamerasThrownTold ==
  ASSUME CamerasInv, CamerasTold, cAt <= 2, Cameras!Leave(<<>>),
         UNCHANGED <<cTypes, cAt, cFormats>>
  PROVE  CamerasTold'
<1>1. cStep' = "end" /\ cResult' = <<>> /\ ~(cAt' > 2) /\ UNCHANGED <<cTypes, cFormats>>
  BY DEF Cameras!Leave, CamerasInv, CameraTypes
<1>2. <<>> \in Seq(ToldCamera) /\ Len(<<>>) = 0
  OBVIOUS
<1>3. QED
  BY <1>1, <1>2 DEF CamerasTold, ListRight, FormatsRight, Inside, WithSource

\* A failure of the current device does not touch the others.
LEMMA OneFails ==
  ASSUME CamerasInv, CamerasTold, cStep \in Inside, cAt <= 2,
         cFailed' \in {cFailed, cFailed \cup {Cameras!Now}}
  PROVE  /\ ListOf(Devices(cResult), CamerasInOrder, cAt - 1, Camera \ cFailed')
         /\ \A k \in (cAt + 1)..2 : CamerasInOrder[k] \notin cFailed'
<1> DEFINE f == cFailed'
           all == CamerasInOrder
<1>1. cAt \in 1..2 /\ cAt - 1 \in Nat
  BY DEF CamerasInv, CameraTypes
<1>2. /\ \A k \in 1..2 : k # cAt => (all[k] \in f <=> all[k] \in cFailed)
      /\ \A k \in 1..2 : all[k] \in Camera
  BY <1>1, CamerasOrder
<1>3. /\ ListOf(Devices(cResult), all, cAt - 1, Camera \ cFailed)
      /\ \A k \in (cAt + 1)..2 : all[k] \notin cFailed
  BY DEF CamerasTold, ListRight
<1> HIDE DEF f, all
<1>4. \A k \in 1..(cAt - 1) : k \in 1..2 /\ k # cAt
  BY <1>1
<1>5. \A k \in (cAt + 1)..2 : k \in 1..2 /\ k # cAt
  BY <1>1
<1>6. ListOf(Devices(cResult), all, cAt - 1, Camera \ f)
  BY <1>1, <1>2, <1>3, <1>4, SameGood
<1>7. QED
  BY <1>2, <1>3, <1>5, <1>6 DEF f, all

\* The device is passed, told or with an error.
LEMMA CamerasPassed ==
  ASSUME CamerasInv, CamerasTold, cStep \in Inside, cAt <= 2, NEW with, NEW shut,
         Cameras!NextDevice(with, shut), UNCHANGED cTypes,
         \/ with = cResult /\ cFailed' = cFailed \cup {Cameras!Now}
         \/ /\ cFailed' = cFailed /\ Cameras!Now \notin cFailed
            /\ \E r \in ToldCamera : /\ r.device = Cameras!Now /\ WholeOf(r, cTypes[Cameras!Now])
                                     /\ with = Append(cResult, r)
  PROVE  CamerasTold'
<1> DEFINE all == CamerasInOrder
           good == Camera \ cFailed'
<1>1. cAt \in 1..2 /\ cAt - 1 \in Nat /\ cAt + 1 \in Nat
  BY DEF CamerasInv, CameraTypes
<1>2. /\ cStep' = "device" /\ cAt' = cAt + 1 /\ cResult' = with /\ UNCHANGED <<cTypes, cFormats>>
  BY DEF Cameras!NextDevice
<1>3. Cameras!Now = all[cAt] /\ Cameras!Now \in Camera /\ (cAt - 1) + 1 = cAt /\ cAt' - 1 = cAt
  BY <1>1, <1>2, CamerasOrder
<1>4. /\ ListOf(Devices(cResult), all, cAt - 1, good)
      /\ \A k \in (cAt + 1)..2 : all[k] \notin cFailed'
  BY OneFails
<1>5. /\ cResult \in Seq(ToldCamera)
      /\ \A i \in 1..Len(cResult) : WholeOf(cResult[i], cTypes[cResult[i].device])
  BY DEF CamerasTold, ListRight
<1>6. /\ Devices(cResult) \in Seq(Camera) /\ Len(Devices(cResult)) = Len(cResult)
      /\ \A r \in ToldCamera : Devices(Append(cResult, r)) = Append(Devices(cResult), r.device)
  BY <1>5, DevicesOf
<1>7. /\ with \in Seq(ToldCamera) /\ \A i \in 1..Len(with) : WholeOf(with[i], cTypes[with[i].device])
      /\ ListOf(Devices(with), all, cAt, good)
  <2>1. CASE with = cResult /\ cFailed' = cFailed \cup {Cameras!Now}
    <3>1. all[cAt] \notin good
      BY <1>3, <2>1
    <3> HIDE DEF all, good
    <3>2. ListOf(Devices(cResult), all, cAt, good)
      BY <1>1, <1>3, <1>4, <1>6, <3>1, ListGoesOn
    <3>3. QED
      BY <1>5, <2>1, <3>2
  <2>2. CASE /\ cFailed' = cFailed /\ Cameras!Now \notin cFailed
             /\ \E r \in ToldCamera : /\ r.device = Cameras!Now /\ WholeOf(r, cTypes[Cameras!Now])
                                      /\ with = Append(cResult, r)
    <3>1. PICK r \in ToldCamera : /\ r.device = Cameras!Now /\ WholeOf(r, cTypes[Cameras!Now])
                                  /\ with = Append(cResult, r)
      BY <2>2
    <3>2. /\ with \in Seq(ToldCamera) /\ Len(with) = Len(cResult) + 1 /\ with[Len(cResult) + 1] = r
          /\ \A i \in 1..Len(cResult) : with[i] = cResult[i]
      BY <1>5, <3>1, AppendProperties
    <3>3. \A i \in 1..Len(with) : i \in 1..Len(cResult) \/ i = Len(cResult) + 1
      BY <1>5, <3>2, LenProperties
    <3>4. \A i \in 1..Len(with) : WholeOf(with[i], cTypes[with[i].device])
      BY <1>5, <3>1, <3>2, <3>3
    <3>5. all[cAt] \in Camera \cap good
      BY <1>3, <2>2
    <3> HIDE DEF all, good
    <3>6. ListOf(Append(Devices(cResult), all[cAt]), all, cAt, good)
      BY <1>1, <1>3, <1>4, <1>6, <3>5, ListGoesOn
    <3>7. Devices(with) = Append(Devices(cResult), all[cAt])
      BY <1>3, <1>6, <3>1
    <3>8. QED
      BY <3>2, <3>4, <3>6, <3>7
  <2>3. QED
    BY <2>1, <2>2
<1>9. \A i \in 1..Len(cResult') : WholeOf(cResult'[i], cTypes'[cResult'[i].device])
  BY <1>2, <1>7
<1>10. ListRight'
  <2>1. \A k \in (cAt' + 1)..2 : all[k] \notin cFailed'
    <3>1. \A k \in (cAt' + 1)..2 : k \in (cAt + 1)..2
      BY <1>1, <1>2
    <3>2. QED
      BY <1>4, <3>1
  <2>2. ListOf(Devices(cResult'), all, cAt' - 1, good)
    BY <1>2, <1>3, <1>7
  <2>3. cTypes' \in [Camera -> Seq(MediaType)] /\ cResult' \in Seq(ToldCamera)
    BY <1>2, <1>7 DEF CamerasTold, ListRight
  <2>4. QED
    BY <1>2, <1>9, <2>1, <2>2, <2>3 DEF ListRight, Inside
<1>11. FormatsRight'
  <2>1. cAt' <= 2 => Cameras!Now' \notin cFailed'
    <3>1. cAt' <= 2 => cAt' \in (cAt + 1)..2 /\ Cameras!Now' = all[cAt']
      BY <1>1, <1>2 DEF Cameras!Now, CamerasInOrder
    <3>2. QED
      BY <1>4, <3>1
  <2>2. QED
    BY <1>2, <2>1 DEF CamerasTold, FormatsRight
<1>12. QED
  BY <1>10, <1>11 DEF CamerasTold

\* A step that stays with the device.
LEMMA CamerasStaysTold ==
  ASSUME CamerasInv, CamerasTold, cStep \in Inside, cAt <= 2, cStep' \in WithSource \cup {"match"},
         UNCHANGED <<cTypes, cAt, cResult>>,
         cFailed' \in {cFailed, cFailed \cup {Cameras!Now}}, FormatsRight'
  PROVE  CamerasTold'
<1>1. /\ ListOf(Devices(cResult), CamerasInOrder, cAt - 1, Camera \ cFailed')
      /\ \A k \in (cAt + 1)..2 : CamerasInOrder[k] \notin cFailed'
  BY OneFails
<1>3. cStep' \in Inside \ {"device"} /\ cStep' \notin {"start", "end"}
  BY DEF Inside, WithSource
<1>4. cResult' = cResult /\ cTypes' = cTypes /\ cAt' = cAt
  OBVIOUS
<1>5. ListRight'
  BY <1>1, <1>3, <1>4 DEF CamerasTold, ListRight
<1>6. QED
  BY <1>5 DEF CamerasTold

\* Its current format is one of its formats: it is told.
LEMMA MatchTold ==
  ASSUME CamerasInv, CamerasTold, Cameras!Match, Cameras!Current.name \in Cameras!Names(cFormats)
  PROVE  CamerasTold'
<1> DEFINE all == cTypes[Cameras!Now]
           name == Cameras!Current.name
           k == Cameras!SelectInSeq(cFormats, LAMBDA f : f.name = name)
           r == [device |-> Cameras!Now, formats |-> cFormats, current |-> k]
<1>1. cStep = "match" /\ cStep \in Inside /\ cAt \in 1..2 /\ cAt <= 2
  BY DEF Cameras!Match, CamerasInv, CameraTypes, Inside, WithSource
<1>2. cFormats \in Seq(Format) /\ Len(cFormats) \in Nat /\ DOMAIN cFormats = 1..Len(cFormats)
  <2>1. cFormats \in Seq(Format)
    BY DEF CamerasTold, FormatsRight
  <2>2. QED
    BY <2>1, LenProperties
<1>3. \E i \in 1..Len(cFormats) : cFormats[i].name = name
  BY <1>2 DEF Cameras!Names
<1>4. k \in 1..Len(cFormats) /\ cFormats[k].name = name
  BY <1>2, <1>3, CurrentFound
<1>5. Cameras!Now \notin cFailed /\ FormatsOf(cFormats, all, Len(all))
  <2>1. cFormats # <<>>
    BY <1>2, <1>3
  <2>2. QED
    BY <1>1, <2>1 DEF CamerasTold, FormatsRight, FormatsHad
<1>6. name = Head(all).name
  BY DEF Cameras!Current
<1>7. Cameras!NextDevice(Append(cResult, r), {}) /\ cFailed' = cFailed /\ cTypes' = cTypes
  BY DEF Cameras!Match
<1>8. Cameras!Now \in Camera
  BY <1>1, AllCameras
<1> HIDE DEF k, name
<1>9. r \in ToldCamera /\ r.device = Cameras!Now /\ WholeOf(r, all)
  <2>1. k \in Nat
    BY <1>2, <1>4
  <2>2. r \in ToldCamera
    BY <1>2, <1>8, <2>1 DEF ToldCamera
  <2>3. r.device = Cameras!Now /\ r.formats = cFormats /\ r.current = k
    OBVIOUS
  <2> HIDE DEF r
  <2>4. QED
    BY <1>4, <1>5, <1>6, <2>2, <2>3 DEF WholeOf
<1> HIDE DEF r
<1>10. QED
  BY <1>1, <1>5, <1>7, <1>9, CamerasPassed

LEMMA CamerasToldStep == ASSUME CamerasInv, CamerasTold, Cameras!Next PROVE CamerasTold'
<1> DEFINE all == cTypes[Cameras!Now]
           Moving == \/ Cameras!Activate \/ Cameras!OpenFormatsReader \/ Cameras!NextType
                     \/ Cameras!CurrentFormat \/ Cameras!Shutdown \/ Cameras!Match
<1>1. cTypes' = cTypes
  BY DEF Cameras!Next, Cameras!Start, Cameras!Activate, Cameras!OpenFormatsReader,
         Cameras!NextType, Cameras!CurrentFormat, Cameras!Shutdown, Cameras!Match,
         Cameras!ReleaseDevices
<1>2. CASE Cameras!Start
  <2>1. /\ cStep = "start" /\ cAt = 1 /\ cResult = <<>> /\ cFailed = {}
        /\ cStep' \in {"device", "end"} /\ cResult' = <<>> /\ UNCHANGED <<cAt, cFailed, cFormats>>
    BY <1>2 DEF Cameras!Start, CamerasInv, CameraTypes, CamerasTold, ListRight
  <2>2. Devices(<<>>) = <<>> /\ Len(<<>>) = 0 /\ <<>> \in Seq(ToldCamera)
    BY DEF Devices
  <2>3. ListOf(Devices(cResult'), CamerasInOrder, cAt' - 1, Camera \ cFailed')
    BY <2>1, <2>2, ListOfNone
  <2>4. ListRight'
    BY <1>1, <2>1, <2>2, <2>3 DEF CamerasTold, ListRight, Inside, WithSource
  <2>5. FormatsRight'
    BY <1>1, <2>1 DEF CamerasTold, FormatsRight
  <2>6. QED
    BY <2>4, <2>5 DEF CamerasTold
<1>3. CASE Cameras!ReleaseDevices
  <2>1. /\ cStep = "device" /\ cAt = 3 /\ cStep' = "end"
        /\ UNCHANGED <<cAt, cFailed, cFormats, cResult>>
    BY <1>3, AllCameras DEF Cameras!ReleaseDevices, CamerasInv, CameraTypes
  <2>2. ListOf(Devices(cResult'), CamerasInOrder, 2, Camera \ cFailed')
    BY <2>1 DEF CamerasTold, ListRight, Inside
  <2>3. ListRight'
    BY <1>1, <2>1, <2>2 DEF CamerasTold, ListRight, Inside, WithSource
  <2>4. FormatsRight'
    BY <1>1, <2>1 DEF CamerasTold, FormatsRight
  <2>5. QED
    BY <2>3, <2>4 DEF CamerasTold
<1>4. ASSUME Moving PROVE cStep \in Inside /\ cAt \in 1..2 /\ cAt <= 2
  <2>1. cStep \in Inside /\ (cStep = "device" => cAt <= 2)
    BY <1>4, AllCameras DEF Cameras!Activate, Cameras!OpenFormatsReader, Cameras!NextType,
           Cameras!CurrentFormat, Cameras!Shutdown, Cameras!Match, Inside, WithSource
  <2>2. QED
    BY <2>1 DEF CamerasInv, CameraTypes
<1>5. ASSUME Moving, Cameras!Leave(<<>>), UNCHANGED <<cAt, cFormats>> PROVE CamerasTold'
  BY <1>1, <1>4, <1>5, CamerasThrownTold
<1>6. ASSUME Moving, NEW shut, Cameras!NextDevice(cResult, shut),
             cFailed' = cFailed \cup {Cameras!Now}
      PROVE  CamerasTold'
  BY <1>1, <1>4, <1>6, CamerasPassed
<1>7. ASSUME Moving, cStep' \in WithSource \cup {"match"}, UNCHANGED <<cAt, cResult>>,
             cFailed' \in {cFailed, cFailed \cup {Cameras!Now}}, FormatsRight'
      PROVE  CamerasTold'
  BY <1>1, <1>4, <1>7, CamerasStaysTold
<1>8. ASSUME UNCHANGED cAt PROVE Cameras!Now' = Cameras!Now
  BY <1>8 DEF Cameras!Now
<1>9. /\ cFormats \in Seq(Format) /\ <<>> \in Seq(Format)
      /\ Cameras!Now \in Camera => all \in Seq(MediaType) /\ Len(all) \in Nat
  <2>1. Cameras!Now \in Camera => all \in Seq(MediaType)
    BY DEF CamerasTold, ListRight
  <2>2. QED
    BY <2>1, LenProperties DEF CamerasTold, FormatsRight
<1>10. Moving => Cameras!Now \in Camera
  BY <1>4, AllCameras
<1>11. CASE Cameras!Activate
  <2>1. CASE /\ cStep' = "formats_reader" /\ cFormats' = <<>> /\ cPosition' = 1
             /\ UNCHANGED <<cAt, cFailed, cResult>>
    <3>1. Cameras!Now \notin cFailed
      BY <1>4, <1>11 DEF Cameras!Activate, CamerasTold, FormatsRight
    <3>2. FormatsRight'
      BY <1>8, <1>9, <2>1, <3>1 DEF FormatsRight
    <3>3. QED
      BY <1>7, <1>11, <2>1, <3>2 DEF WithSource
  <2>2. CASE cFailed' = cFailed \cup {Cameras!Now} /\ Cameras!ThrowOr(Cameras!NextDevice(cResult, {}))
    BY <1>5, <1>6, <1>11, <2>2 DEF Cameras!ThrowOr
  <2>3. QED
    BY <1>11, <2>1, <2>2 DEF Cameras!Activate
<1>12. CASE Cameras!OpenFormatsReader
  <2>1. cStep = "formats_reader" /\ Cameras!Now \notin cFailed /\ cFormats = <<>> /\ cPosition = 1
    BY <1>12 DEF Cameras!OpenFormatsReader, CamerasTold, FormatsRight
  <2>2. CASE cStep' = "types" /\ UNCHANGED <<cAt, cPosition, cFormats, cFailed, cResult>>
    <3>1. cPosition - 1 = 0 /\ cPosition \in 1..(Len(all) + 1) /\ FormatsOf(cFormats, all, 0)
      <4>1. 1..0 = {} /\ Len(<<>>) = 0
        OBVIOUS
      <4>2. FormatsOf(<<>>, all, 0)
        BY <4>1 DEF FormatsOf
      <4>3. QED
        BY <1>9, <1>10, <1>12, <2>1, <4>2
    <3>2. cPosition' = cPosition /\ cFormats' = cFormats /\ cFailed' = cFailed /\ cTypes' = cTypes
          /\ Cameras!Now' = Cameras!Now
      BY <1>1, <1>8, <2>2
    <3>3. FormatsRight'
      BY <1>9, <2>1, <2>2, <3>1, <3>2 DEF FormatsRight
    <3>4. QED
      BY <1>7, <1>12, <2>2, <3>3 DEF WithSource
  <2>3. CASE /\ cStep' = "current" /\ cFailed' = cFailed \cup {Cameras!Now}
             /\ UNCHANGED <<cAt, cPosition, cFormats, cResult>>
    <3>1. Cameras!Now' \in cFailed' /\ cFormats' = <<>>
      BY <1>8, <2>1, <2>3
    <3>2. FormatsRight'
      BY <1>9, <2>3, <3>1 DEF FormatsRight, FormatsHad
    <3>3. QED
      BY <1>7, <1>12, <2>3, <3>2 DEF WithSource
  <2>4. CASE /\ cFailed' = cFailed \cup {Cameras!Now} /\ Cameras!Leave(<<>>)
             /\ UNCHANGED <<cAt, cFormats>>
    BY <1>5, <1>12, <2>4
  <2>5. QED
    BY <1>12, <2>2, <2>3, <2>4 DEF Cameras!OpenFormatsReader, Cameras!ThrowOr
<1>13. CASE Cameras!NextType
  <2>1. /\ cStep = "types" /\ Cameras!Now \notin cFailed /\ cPosition \in 1..(Len(all) + 1)
        /\ FormatsOf(cFormats, all, cPosition - 1)
    BY <1>13 DEF Cameras!NextType, CamerasTold, FormatsRight
  <2>2. CASE /\ cPosition <= Len(all) /\ cFormats' = Cameras!AddType(all[cPosition])
             /\ cPosition' = cPosition + 1 /\ UNCHANGED <<cStep, cAt, cFailed, cResult>>
    <3>1. cPosition - 1 \in Nat /\ cPosition - 1 < Len(all) /\ (cPosition - 1) + 1 = cPosition
          /\ cPosition' - 1 = cPosition /\ cPosition' \in 1..(Len(all) + 1)
      BY <1>9, <1>10, <1>13, <2>1, <2>2
    <3>2. cFormats' \in Seq(Format) /\ FormatsOf(cFormats', all, cPosition)
      BY <1>9, <1>10, <1>13, <2>1, <2>2, <3>1, TypeAdded
    <3>3. Cameras!Now' = Cameras!Now
      BY <1>8, <2>2
    <3>4. FormatsRight'
      BY <1>1, <2>1, <2>2, <3>1, <3>2, <3>3 DEF FormatsRight
    <3>5. QED
      BY <1>7, <1>13, <2>1, <2>2, <3>4 DEF WithSource
  <2>3. CASE /\ cPosition > Len(all) /\ cStep' = "current"
             /\ UNCHANGED <<cAt, cPosition, cFormats, cFailed, cResult>>
    <3>1. cPosition - 1 = Len(all)
      BY <1>9, <1>10, <1>13, <2>1, <2>3
    <3>2. FormatsHad'
      BY <1>1, <1>8, <2>1, <2>3, <3>1 DEF FormatsHad
    <3>3. FormatsRight'
      BY <1>9, <2>3, <3>2 DEF FormatsRight
    <3>4. QED
      BY <1>7, <1>13, <2>3, <3>3 DEF WithSource
  <2>4. CASE /\ cStep' = "current" /\ cFormats' = <<>> /\ cFailed' = cFailed \cup {Cameras!Now}
             /\ UNCHANGED <<cAt, cPosition, cResult>>
    <3>1. Cameras!Now' \in cFailed'
      BY <1>8, <2>4
    <3>2. FormatsRight'
      BY <1>9, <2>4, <3>1 DEF FormatsRight, FormatsHad
    <3>3. QED
      BY <1>7, <1>13, <2>4, <3>2 DEF WithSource
  <2>5. CASE /\ cFailed' = cFailed \cup {Cameras!Now} /\ Cameras!Leave(<<>>)
             /\ UNCHANGED <<cAt, cFormats>>
    BY <1>5, <1>13, <2>5
  <2>6. QED
    BY <1>13, <2>2, <2>3, <2>4, <2>5 DEF Cameras!NextType, Cameras!ThrowOr
<1>14. CASE Cameras!CurrentFormat
  <2>1. cStep = "current" /\ FormatsHad
    BY <1>14 DEF Cameras!CurrentFormat, CamerasTold, FormatsRight
  <2>2. CASE all # <<>> /\ cStep' = "shutdown" /\ UNCHANGED <<cAt, cFormats, cFailed, cResult>>
    <3>1. Cameras!Now' = Cameras!Now /\ cFormats' = cFormats /\ cFailed' = cFailed
      BY <1>8, <2>2
    <3>2. FormatsHad' /\ cTypes'[Cameras!Now'] # <<>>
      BY <1>1, <2>1, <2>2, <3>1 DEF FormatsHad
    <3>3. FormatsRight'
      BY <1>9, <2>2, <3>1, <3>2 DEF FormatsRight
    <3>4. QED
      BY <1>7, <1>14, <2>2, <3>3 DEF WithSource
  <2>3. CASE /\ cFailed' = cFailed \cup {Cameras!Now}
             /\ Cameras!ThrowOr(Cameras!NextDevice(cResult, {Cameras!Now}))
    BY <1>5, <1>6, <1>14, <2>3 DEF Cameras!ThrowOr
  <2>4. QED
    BY <1>14, <2>2, <2>3 DEF Cameras!CurrentFormat
<1>15. CASE Cameras!Shutdown
  <2>1. cStep = "shutdown" /\ FormatsHad /\ all # <<>>
    BY <1>15 DEF Cameras!Shutdown, CamerasTold, FormatsRight
  <2>2. CASE cStep' = "match" /\ UNCHANGED <<cAt, cFormats, cFailed, cResult>>
    <3>1. Cameras!Now' = Cameras!Now /\ cFormats' = cFormats /\ cFailed' = cFailed
      BY <1>8, <2>2
    <3>2. FormatsHad' /\ cTypes'[Cameras!Now'] # <<>>
      BY <1>1, <2>1, <3>1 DEF FormatsHad
    <3>3. FormatsRight'
      BY <1>9, <2>2, <3>1, <3>2 DEF FormatsRight
    <3>4. QED
      BY <1>7, <1>15, <2>2, <3>3
  <2>3. CASE /\ cFailed' = cFailed \cup {Cameras!Now}
             /\ Cameras!ThrowOr(Cameras!NextDevice(cResult, {Cameras!Now}))
    BY <1>5, <1>6, <1>15, <2>3 DEF Cameras!ThrowOr
  <2>4. QED
    BY <1>15, <2>2, <2>3 DEF Cameras!Shutdown
<1>16. CASE Cameras!Match
  <2>1. CASE Cameras!Current.name \in Cameras!Names(cFormats)
    BY <1>16, <2>1, MatchTold
  <2>2. CASE /\ cFailed' = cFailed \cup {Cameras!Now}
             /\ Cameras!ThrowOr(Cameras!NextDevice(cResult, {}))
    BY <1>5, <1>6, <1>16, <2>2 DEF Cameras!ThrowOr
  <2>3. QED
    BY <1>16, <2>1, <2>2 DEF Cameras!Match
<1>17. QED
  BY <1>2, <1>3, <1>11, <1>12, <1>13, <1>14, <1>15, <1>16 DEF Cameras!Next

LEMMA CamerasListed == ASSUME CamerasInv, CamerasTold PROVE Cameras!ListIsWhole
<1> SUFFICES ASSUME cStep = "end"
             PROVE  IF cAt > 2
                    THEN /\ Cameras!IsPartOf(cResult, CamerasInOrder)
                         /\ {cResult[i].device : i \in DOMAIN cResult} = Camera \ cFailed
                         /\ \A i \in DOMAIN cResult : Cameras!IsToldWhole(cResult[i])
                    ELSE cResult = <<>>
  BY AllCameras DEF Cameras!ListIsWhole, CamerasInOrder
<1>1. CASE cAt > 2
  <2>1. ListOf(Devices(cResult), CamerasInOrder, 2, Camera \ cFailed)
    BY <1>1 DEF CamerasTold, ListRight
  <2>2. cResult \in Seq(ToldCamera) /\ DOMAIN cResult = 1..Len(cResult)
    <3>1. cResult \in Seq(ToldCamera)
      BY DEF CamerasTold, ListRight
    <3>2. QED
      BY <3>1, LenProperties
  <2>3. /\ Len(Devices(cResult)) = Len(cResult)
        /\ \A i \in 1..Len(cResult) : Devices(cResult)[i] = cResult[i].device
    BY <2>2, DevicesOf DEF Devices
  <2>4. Cameras!IsPartOf(cResult, CamerasInOrder)
    BY <2>1, <2>2, <2>3, CamerasOrder DEF ListOf, InOrder, Cameras!IsPartOf
  <2>5. GoodOnes(CamerasInOrder, 2, Camera \ cFailed) = Camera \ cFailed
    BY CamerasOrder DEF GoodOnes
  <2>6. {cResult[i].device : i \in DOMAIN cResult} = Camera \ cFailed
    BY <2>1, <2>2, <2>3, <2>5 DEF ListOf
  <2>7. ASSUME NEW i \in DOMAIN cResult PROVE Cameras!IsToldWhole(cResult[i])
    <3> DEFINE r == cResult[i]
               all == cTypes[r.device]
    <3>1. r \in ToldCamera /\ WholeOf(r, all)
      BY <2>2, ElementOfSeq DEF CamerasTold, ListRight
    <3>2. r.formats \in Seq(Format) /\ all \in Seq(MediaType)
      BY <3>1 DEF ToldCamera, CamerasTold, ListRight
    <3>3. DOMAIN r.formats = 1..Len(r.formats) /\ DOMAIN all = 1..Len(all)
      BY <3>2, LenProperties
    <3> HIDE DEF r
    <3>4. Cameras!Names(r.formats) = Cameras!Names(all) \cap {"YUY2", "MJPG"}
      BY <3>1, <3>3 DEF WholeOf, FormatsOf, Cameras!Names
    <3>5. \A f \in Cameras!Range(r.formats) :
            f.sizes = {all[j].size : j \in {k \in DOMAIN all : all[k].name = f.name}}
      BY <3>1, <3>3 DEF WholeOf, FormatsOf, Cameras!Range
    <3>6. Cameras!IsToldWhole(r)
      BY <3>1, <3>3, <3>4, <3>5 DEF WholeOf, Cameras!IsToldWhole
    <3>7. QED
      BY <3>6 DEF r
  <2>8. QED
    BY <1>1, <2>4, <2>6, <2>7
<1>2. CASE ~(cAt > 2)
  BY <1>2 DEF CamerasTold, ListRight
<1>3. QED
  BY <1>1, <1>2

-----------------------------------------------------------------------------
(* svccontrol: the values, and what is held.                               *)

\* Hints and limits are times; the tick counter starts somewhere below its end.
Times ==
  /\ WaitHint \subseteq Nat /\ Timeout \in Nat
  /\ Wrap \in Nat \ {0} /\ Boot \subseteq 0..(Wrap - 1)
  /\ MaxMoves \in Nat

Services == {"service", "dependent"}
States == {"start_pending", "stop_pending", "stopped", "running"}
Status(n) == [state : States, checkPoint : 0..(n + 1), hint : WaitHint \cup {0}]

ServiceTypes ==
  /\ sMoves \in 0..MaxMoves
  /\ sServices \in [Services -> Status(sMoves)] /\ sSeen \in Status(sMoves)
  /\ sTickCount \in 0..(Wrap - 1) /\ sStart \in 0..(Wrap - 1) /\ sDepStart \in 0..(Wrap - 1)
  /\ sElapsed \in 0..Wrap
  /\ sTodo \in Seq({"dependent"}) /\ sAsleep \in BOOLEAN
  /\ sPhase = "next_dependent" => Len(sTodo) \in {0, 1}
  /\ sPhase = "stopping_dependent" => Len(sTodo) = 1

Dacl == {"descriptor", "read_descriptor", "entries", "set_dacl"}
Waiting == {"query", "wait_for_stop", "start_service", "wait_for_start", "verdict",
            "stop_pending", "dependents", "control", "stopping"}

\* What the program holds, by where it is.
ServiceHandles ==
  /\ sPhase \in Dacl \cup Waiting
                  \cup {"open", "manager", "next_dependent", "stopping_dependent", "end"}
  /\ sPhase \in {"open", "end"} => sHeld = {}
  /\ sPhase = "manager" => sHeld \subseteq {"manager"}
  /\ sPhase \in Dacl => sHeld \subseteq {"manager", "service", "descriptor", "acl"}
  /\ sPhase \in Waiting => sHeld \subseteq {"manager", "service"}
  /\ sPhase = "next_dependent" => sHeld \subseteq {"manager", "service", "list"}
  /\ sPhase = "stopping_dependent" => sHeld \subseteq {"manager", "service", "list", "dependent"}

LEMMA ModWrap ==
  ASSUME Times, NEW a \in Int PROVE a % Wrap \in 0..(Wrap - 1)
BY DEF Times

LEMMA LaterOf ==
  ASSUME NEW a \in Int, NEW b \in Int PROVE Control!Max({a, b}) = IF a >= b THEN a ELSE b
<1>1. \E x \in {a, b} : \A y \in {a, b} : x >= y
  OBVIOUS
<1>2. Control!Max({a, b}) \in {a, b} /\ \A y \in {a, b} : Control!Max({a, b}) >= y
  BY <1>1 DEF Control!Max
<1>3. QED
  BY <1>2

LEMMA EarlierOf ==
  ASSUME NEW a \in Int, NEW b \in Int PROVE Control!Min({a, b}) = IF a <= b THEN a ELSE b
<1>1. \E x \in {a, b} : \A y \in {a, b} : x =< y
  OBVIOUS
<1>2. Control!Min({a, b}) \in {a, b} /\ \A y \in {a, b} : Control!Min({a, b}) =< y
  BY <1>1 DEF Control!Min
<1>3. QED
  BY <1>2

\* The statuses a service may report are of the type.
LEMMA Reported ==
  ASSUME Times, NEW n \in Nat, NEW x \in States, NEW st \in Control!Statuses(x)
  PROVE  st \in Status(n)
BY DEF Control!Statuses, Control!Pending, Status, States, Times

LEMMA AllServices == Control!Service = Services /\ Control!Active \subseteq {"dependent"}
BY DEF Control!Service, Services, Control!Active

LEMMA ServiceStart == ASSUME Times, Control!Init PROVE ServiceTypes /\ ServiceHandles
<1>1. \A s \in Services : sServices[s] \in Status(0)
  BY Reported, AllServices DEF Control!Init, Control!Pending, States
<1>2. sServices \in [Services -> Status(0)] /\ sSeen \in Status(0)
  BY <1>1, AllServices DEF Control!Init, Services
<1>3. sTodo \in Seq({"dependent"})
  BY DEF Control!Init
<1>4. ServiceTypes
  <2>1. sMoves = 0 /\ sMoves \in 0..MaxMoves /\ sElapsed \in 0..Wrap
    BY DEF Control!Init, Times
  <2>2. sAsleep \in BOOLEAN /\ sPhase = "open"
    BY DEF Control!Init
  <2>3. sTickCount \in 0..(Wrap - 1) /\ sStart \in 0..(Wrap - 1) /\ sDepStart \in 0..(Wrap - 1)
    BY DEF Control!Init, Times
  <2>4. QED
    BY <1>2, <1>3, <2>1, <2>2, <2>3 DEF ServiceTypes
<1>5. ServiceHandles
  BY DEF Control!Init, ServiceHandles, Dacl, Waiting
<1>6. QED
  BY <1>4, <1>5

\* Less than a tick counts as one.
Ticks(time) == IF time >= 1 THEN time ELSE 1

LEMMA Slept ==
  ASSUME Times, ServiceTypes, NEW time \in Nat, Control!Sleep(time)
  PROVE  /\ sAsleep' = TRUE
         /\ UNCHANGED <<sServices, sMoves, sCommand, sPhase, sSeen, sStart, sDepStart, sTodo, sHeld>>
         /\ sTickCount' = (sTickCount + Ticks(time)) % Wrap
         /\ sElapsed' = IF sElapsed + Ticks(time) <= Wrap THEN sElapsed + Ticks(time) ELSE Wrap
<1>1. Control!Max({time, 1}) = Ticks(time) /\ Ticks(time) \in Nat
  BY LaterOf DEF Ticks
<1>2. sElapsed + Ticks(time) \in Int /\ Wrap \in Int
  BY <1>1 DEF ServiceTypes, Times
<1>3. Control!Min({sElapsed + Ticks(time), Wrap})
        = IF sElapsed + Ticks(time) <= Wrap THEN sElapsed + Ticks(time) ELSE Wrap
  BY <1>2, EarlierOf
<1>4. QED
  BY <1>1, <1>3 DEF Control!Sleep

LEMMA SleepKeeps ==
  ASSUME Times, ServiceTypes, NEW time \in Nat, Control!Sleep(time)
  PROVE  ServiceTypes' /\ (ServiceHandles => ServiceHandles')
<1>1. sTickCount + Ticks(time) \in Int /\ Ticks(time) \in Nat /\ sElapsed \in Nat /\ Wrap \in Nat
  BY DEF ServiceTypes, Times, Ticks
<1>2. sTickCount' \in 0..(Wrap - 1)
  BY <1>1, Slept, ModWrap
<1>3. sElapsed' \in 0..Wrap
  <2>1. sElapsed' = IF sElapsed + Ticks(time) <= Wrap THEN sElapsed + Ticks(time) ELSE Wrap
    BY Slept
  <2> DEFINE k == Ticks(time)
  <2> HIDE DEF k
  <2>2. QED
    BY <1>1, <2>1 DEF k
<1>4. ServiceTypes'
  BY <1>2, <1>3, Slept DEF ServiceTypes
<1>5. ServiceHandles => ServiceHandles'
  BY Slept DEF ServiceHandles
<1>6. QED
  BY <1>4, <1>5

LEMMA ServiceMovesKeep ==
  ASSUME Times, ServiceTypes, ServiceHandles, Control!ServiceMoves
  PROVE  ServiceTypes' /\ ServiceHandles'
<1>1. /\ UNCHANGED <<sTickCount, sElapsed, sPhase, sAsleep, sSeen, sStart, sDepStart, sTodo, sHeld>>
      /\ sMoves' = sMoves + 1 /\ sMoves < MaxMoves
  BY DEF Control!ServiceMoves, Control!tool
<1>2. PICK s \in Services : \E st \in Control!Reports(sServices[s]) :
        sServices' = [sServices EXCEPT ![s] = st]
  BY AllServices DEF Control!ServiceMoves
<1>3. PICK st \in Control!Reports(sServices[s]) : sServices' = [sServices EXCEPT ![s] = st]
  BY <1>2
<1>4. sServices[s] \in Status(sMoves) /\ sMoves \in Nat
  BY DEF ServiceTypes
<1>5. \A r \in Status(sMoves) : r \in Status(sMoves + 1)
  BY <1>4 DEF Status
<1>6. st \in Status(sMoves + 1)
  <2>1. CASE st \in UNION {Control!Statuses(x) : x \in Control!After(sServices[s].state)}
    <3>1. Control!After(sServices[s].state) \subseteq States
      BY <1>4 DEF Control!After, Status, States
    <3>2. QED
      BY <1>4, <2>1, <3>1, Reported
  <2>2. QED
    BY <1>4, <2>1 DEF Control!Reports, Status
<1>7. ServiceTypes'
  <2>1. sServices' \in [Services -> Status(sMoves + 1)]
    BY <1>3, <1>5, <1>6 DEF ServiceTypes
  <2>2. QED
    BY <1>1, <1>4, <1>5, <2>1 DEF ServiceTypes, Times
<1>8. ServiceHandles'
  BY <1>1 DEF ServiceHandles
<1>9. QED
  BY <1>7, <1>8

\* A step of the program takes no time, unless it sleeps.
LEMMA StayKeeps ==
  ASSUME ServiceTypes, Control!Stay, sServices' \in [Services -> Status(sMoves)],
         sSeen' \in Status(sMoves), sStart' \in {sStart, sTickCount},
         sDepStart' \in {sDepStart, sTickCount},
         sTodo' \in Seq({"dependent"}), sAsleep' = FALSE,
         sPhase' = "next_dependent" => Len(sTodo') \in {0, 1},
         sPhase' = "stopping_dependent" => Len(sTodo') = 1
  PROVE  ServiceTypes'
BY DEF ServiceTypes, Control!Stay

LEMMA ReturnKeeps ==
  ASSUME ServiceTypes, ServiceHandles, Control!Stay, NEW text, NEW closed, sHeld \subseteq closed,
         Control!Return(text, closed)
  PROVE  ServiceTypes' /\ ServiceHandles'
<1>1. /\ sPhase' = "end" /\ sAsleep' = FALSE /\ sHeld' = {}
      /\ UNCHANGED <<sServices, sSeen, sStart, sDepStart, sTodo>>
  BY DEF Control!Return, Control!Goto
<1>2. ServiceTypes'
  BY <1>1, StayKeeps DEF ServiceTypes
<1>3. ServiceHandles'
  BY <1>1 DEF ServiceHandles, Dacl, Waiting
<1>4. QED
  BY <1>2, <1>3

\* Another step that changes where the program is, and what it holds.
LEMMA GotoKeeps ==
  ASSUME ServiceTypes, Control!Stay, NEW p, p \notin {"next_dependent", "stopping_dependent"},
         Control!Goto(p), UNCHANGED <<sServices, sTodo>>,
         sSeen' \in {sSeen, sServices["service"]},
         sStart' \in {sStart, sTickCount}, UNCHANGED sDepStart
  PROVE  ServiceTypes'
<1>1. sAsleep' = FALSE /\ sPhase' = p
  BY DEF Control!Goto
<1>2. sServices["service"] \in Status(sMoves)
  BY DEF ServiceTypes, Services
<1>3. QED
  BY <1>1, <1>2, StayKeeps DEF ServiceTypes

LEMMA OpenKeeps ==
  ASSUME ServiceTypes, ServiceHandles,
         Control!OpenManager \/ Control!OpenService \/ Control!DoUpdateSvcDacl
  PROVE  ServiceTypes' /\ ServiceHandles'
<1>1. CASE Control!OpenManager
  <2>1. sPhase = "open" /\ Control!Stay /\ sHeld = {}
    BY <1>1 DEF Control!OpenManager, ServiceHandles
  <2>2. CASE Control!Return("failed", {})
    BY <2>1, <2>2, ReturnKeeps
  <2>3. CASE Control!Goto("manager") /\ sHeld' = {"manager"}
             /\ UNCHANGED <<sServices, sCommand, sSeen, sStart, sDepStart, sOldCheckPoint, sTodo, sSaid>>
    <3>1. ServiceTypes'
      BY <2>1, <2>3, GotoKeeps
    <3>2. ServiceHandles'
      BY <2>3 DEF Control!Goto, ServiceHandles, Dacl, Waiting
    <3>3. QED
      BY <3>1, <3>2
  <2>4. QED
    BY <1>1, <2>2, <2>3 DEF Control!OpenManager
<1>2. CASE Control!OpenService
  <2>1. sPhase = "manager" /\ Control!Stay /\ sHeld \subseteq {"manager"}
    BY <1>2 DEF Control!OpenService, ServiceHandles
  <2>2. CASE Control!Return("failed", {"manager"})
    BY <2>1, <2>2, ReturnKeeps
  <2>3. ASSUME NEW p \in {"descriptor", "query"}, Control!Goto(p), sHeld' = sHeld \cup {"service"},
               UNCHANGED <<sServices, sCommand, sSeen, sStart, sDepStart, sOldCheckPoint, sTodo, sSaid>>
        PROVE  ServiceTypes' /\ ServiceHandles'
    <3>1. ServiceTypes'
      BY <2>1, <2>3, GotoKeeps
    <3>2. ServiceHandles'
      BY <2>1, <2>3 DEF Control!Goto, ServiceHandles, Dacl, Waiting
    <3>3. QED
      BY <3>1, <3>2
  <2>4. QED
    BY <1>2, <2>2, <2>3 DEF Control!OpenService
<1>3. ASSUME NEW from \in Dacl, NEW to \in Dacl, NEW got \in SUBSET {"descriptor", "acl"},
             Control!DaclStep(from, to, got)
      PROVE  ServiceTypes' /\ ServiceHandles'
  <2>1. sPhase \in Dacl /\ Control!Stay /\ sHeld \subseteq {"manager", "service", "descriptor", "acl"}
    BY <1>3 DEF Control!DaclStep, ServiceHandles
  <2>2. CASE Control!Return("failed", Control!Handles \cup {"descriptor", "acl"})
    BY <2>1, <2>2, ReturnKeeps DEF Control!Handles
  <2>3. CASE /\ Control!Goto(to) /\ sHeld' = sHeld \cup got
             /\ UNCHANGED <<sServices, sCommand, sSeen, sStart, sDepStart, sOldCheckPoint, sTodo, sSaid>>
    <3>1. ServiceTypes'
      BY <2>1, <2>3, GotoKeeps DEF Dacl
    <3>2. sPhase' \in Dacl /\ sHeld' \subseteq {"manager", "service", "descriptor", "acl"}
      BY <2>1, <2>3 DEF Control!Goto
    <3>3. ServiceHandles'
      BY <3>2 DEF ServiceHandles, Dacl, Waiting
    <3>4. QED
      BY <3>1, <3>3
  <2>4. QED
    BY <1>3, <2>2, <2>3 DEF Control!DaclStep
<1>4. CASE Control!DoUpdateSvcDacl
  <2>1. CASE sPhase = "set_dacl" /\ Control!Stay
             /\ \E text \in {"failed", "updated"} :
                  Control!Return(text, Control!Handles \cup {"descriptor", "acl"})
    <3>1. sHeld \subseteq Control!Handles \cup {"descriptor", "acl"}
      BY <2>1 DEF ServiceHandles, Dacl, Control!Handles
    <3>2. QED
      BY <2>1, <3>1, ReturnKeeps
  <2>2. QED
    BY <1>3, <1>4, <2>1 DEF Control!DoUpdateSvcDacl, Dacl
<1>5. QED
  BY <1>1, <1>2, <1>4

\* A sleep takes a hint, or a tenth of it within the limits.
LEMMA Hinted ==
  ASSUME Times, ServiceTypes
  PROVE  sSeen.hint \in Nat /\ Control!Interval(sSeen.hint) \in Nat
<1>1. sSeen.hint \in Nat
  <2>1. sSeen \in Status(sMoves)
    BY DEF ServiceTypes
  <2>2. \A st \in Status(sMoves) : st.hint \in WaitHint \cup {0}
    BY DEF Status
  <2>3. WaitHint \cup {0} \subseteq Nat
    BY DEF Times
  <2>4. QED
    BY <2>1, <2>2, <2>3
<1>2. sSeen.hint \div 2 \in Int
  BY <1>1
<1>3. QED
  BY <1>1, <1>2 DEF Control!Interval

LEMMA LookedAt ==
  ASSUME ServiceTypes
  PROVE  /\ sServices \in [Services -> Status(sMoves)] /\ sSeen \in Status(sMoves)
         /\ sServices["service"] \in Status(sMoves) /\ sServices["dependent"] \in Status(sMoves)
BY DEF ServiceTypes, Services

LEMMA WaitPendingKeeps ==
  ASSUME Times, ServiceTypes, ServiceHandles,
         NEW p \in Waiting, NEW state, NEW next \in Waiting, Control!WaitPending(p, state, next)
  PROVE  ServiceTypes' /\ ServiceHandles'
<1>1. CASE Control!Sleep(Control!Interval(sSeen.hint))
  BY <1>1, Hinted, SleepKeeps
<1>2. CASE /\ Control!Goto(next) /\ Control!Stay
           /\ UNCHANGED <<sServices, sCommand, sSeen, sStart, sDepStart, sOldCheckPoint, sTodo, sHeld, sSaid>>
  <2>1. ServiceTypes'
    BY <1>2, GotoKeeps DEF Waiting
  <2>2. sPhase \in Waiting
    BY DEF Control!WaitPending
  <2>3. sPhase' \in Waiting /\ sHeld' \subseteq {"manager", "service"}
    BY <1>2, <2>2 DEF Control!Goto, ServiceHandles
  <2>4. ServiceHandles'
    BY <2>3 DEF ServiceHandles, Dacl, Waiting
  <2>5. QED
    BY <2>1, <2>4
<1>3. QED
  BY <1>1, <1>2 DEF Control!WaitPending

\* A look at the service that leads to another phase of waiting.
LEMMA LookKeeps ==
  ASSUME ServiceTypes, ServiceHandles, Control!Stay, sPhase \in Waiting, NEW p \in Waiting,
         Control!Goto(p), UNCHANGED <<sServices, sDepStart, sTodo, sHeld>>,
         sSeen' \in {sSeen, sServices["service"]}, sStart' \in {sStart, sTickCount}
  PROVE  ServiceTypes' /\ ServiceHandles'
<1>1. ServiceTypes'
  BY GotoKeeps DEF Waiting
<1>2. sPhase' \in Waiting /\ sHeld' \subseteq {"manager", "service"}
  BY DEF Control!Goto, ServiceHandles
<1>3. ServiceHandles'
  BY <1>2 DEF ServiceHandles, Dacl, Waiting
<1>4. QED
  BY <1>1, <1>3

\* What is held while the program waits is what it closes then.
LEMMA WaitingCloses ==
  ASSUME ServiceHandles, sPhase \in Waiting PROVE sHeld \subseteq Control!Handles
BY DEF ServiceHandles, Control!Handles

LEMMA StartKeeps ==
  ASSUME Times, ServiceTypes, ServiceHandles, Control!DoStartSvc
  PROVE  ServiceTypes' /\ ServiceHandles'
<1>1. CASE Control!StartQuery
  <2>1. sPhase = "query" /\ sPhase \in Waiting /\ Control!Stay /\ sHeld \subseteq Control!Handles
    BY <1>1, WaitingCloses DEF Control!StartQuery, Waiting
  <2>2. ASSUME NEW text, Control!Return(text, Control!Handles) PROVE ServiceTypes' /\ ServiceHandles'
    BY <2>1, <2>2, ReturnKeeps
  <2>3. CASE Control!Look /\ Control!Remember("wait_for_stop")
    BY <2>1, <2>3, LookKeeps DEF Control!Look, Control!Remember, Waiting
  <2>4. QED
    BY <1>1, <2>2, <2>3 DEF Control!StartQuery
<1>2. ASSUME NEW p \in {"wait_for_stop", "wait_for_start"}, sPhase = p, sAsleep, Control!Stay, Control!Look,
             \/ /\ Control!Progress /\ sStart' = sTickCount /\ Control!Goto(p) /\ UNCHANGED <<sHeld, sSaid>>
             \/ Control!Goto("end") /\ sHeld' = sHeld \ Control!Handles /\ UNCHANGED sStart
             \/ Control!Goto("verdict") /\ UNCHANGED <<sHeld, sSaid, sStart>>
             \/ Control!Goto(p) /\ UNCHANGED <<sStart, sHeld, sSaid>>,
             UNCHANGED <<sCommand, sDepStart, sTodo>>
      PROVE  ServiceTypes' /\ ServiceHandles'
  <2>1. p \in Waiting /\ sPhase \in Waiting /\ "verdict" \in Waiting /\ sHeld \subseteq Control!Handles
    BY <1>2, WaitingCloses DEF Waiting
  <2>2. CASE Control!Goto("end") /\ sHeld' = sHeld \ Control!Handles /\ UNCHANGED sStart
    <3>1. ServiceTypes'
      BY <1>2, <2>2, GotoKeeps DEF Control!Look
    <3>2. ServiceHandles'
      BY <2>1, <2>2 DEF Control!Goto, ServiceHandles, Dacl, Waiting
    <3>3. QED
      BY <3>1, <3>2
  <2>3. QED
    BY <1>2, <2>1, <2>2, LookKeeps DEF Control!Look
<1>3. CASE Control!WaitForStop
  <2>1. CASE Control!WaitPending("wait_for_stop", "stop_pending", "start_service")
    BY <2>1, WaitPendingKeeps DEF Waiting
  <2>2. CASE sPhase = "wait_for_stop" /\ Control!Stay /\ Control!Return("failed", Control!Handles)
    BY <2>2, WaitingCloses, ReturnKeeps DEF Waiting
  <2>3. CASE Control!LookPending("wait_for_stop",
               Control!Goto("end") /\ sSaid' = "stop_timeout" /\ sHeld' = sHeld \ Control!Handles)
    BY <1>2, <2>3 DEF Control!LookPending
  <2>4. QED
    BY <1>3, <2>1, <2>2, <2>3 DEF Control!WaitForStop
<1>4. CASE Control!StartService
  <2>1. sPhase \in Waiting /\ Control!Stay /\ sHeld \subseteq Control!Handles
    BY <1>4, WaitingCloses DEF Control!StartService, Waiting
  <2>2. CASE Control!Return("failed", Control!Handles)
    BY <2>1, <2>2, ReturnKeeps
  <2>3. ASSUME NEW x \in {"start_pending", "running", "stopped"}, NEW st \in Control!Statuses(x),
               sServices' = [sServices EXCEPT !["service"] = st], sSeen' = st,
               Control!Remember("wait_for_start")
        PROVE  ServiceTypes' /\ ServiceHandles'
    <3>1. sMoves \in Nat /\ x \in States
      BY DEF ServiceTypes, States
    <3>2. st \in Status(sMoves)
      BY <3>1, Reported
    <3>3. sServices' \in [Services -> Status(sMoves)]
      BY <2>3, <3>2, LookedAt
    <3>4. sPhase' = "wait_for_start" /\ sAsleep' = FALSE /\ sStart' = sTickCount
          /\ UNCHANGED <<sDepStart, sTodo, sHeld>>
      BY <2>3 DEF Control!Remember, Control!Goto
    <3>5. ServiceTypes'
      BY <2>1, <2>3, <3>2, <3>3, <3>4, StayKeeps DEF ServiceTypes
    <3>6. ServiceHandles'
      BY <2>1, <3>4 DEF ServiceHandles, Dacl, Waiting, Control!Handles
    <3>7. QED
      BY <3>5, <3>6
  <2>4. QED
    BY <1>4, <2>2, <2>3 DEF Control!StartService
<1>5. CASE Control!WaitForStart
  <2>1. CASE Control!WaitPending("wait_for_start", "start_pending", "verdict")
    BY <2>1, WaitPendingKeeps DEF Waiting
  <2>2. CASE sPhase = "wait_for_start" /\ Control!Stay /\ Control!Goto("verdict")
             /\ UNCHANGED <<sServices, sCommand, sSeen, sStart, sDepStart, sOldCheckPoint, sTodo, sHeld, sSaid>>
    BY <2>2, LookKeeps DEF Waiting
  <2>3. CASE Control!LookPending("wait_for_start", Control!Goto("verdict") /\ UNCHANGED <<sHeld, sSaid>>)
    BY <1>2, <2>3 DEF Control!LookPending
  <2>4. QED
    BY <1>5, <2>1, <2>2, <2>3 DEF Control!WaitForStart
<1>6. CASE Control!Verdict
  <2>1. sPhase \in Waiting /\ Control!Stay /\ sHeld \subseteq Control!Handles
    BY <1>6, WaitingCloses DEF Control!Verdict, Waiting
  <2>2. QED
    BY <1>6, <2>1, ReturnKeeps DEF Control!Verdict
<1>7. QED
  BY <1>1, <1>3, <1>4, <1>5, <1>6 DEF Control!DoStartSvc

\* A service is told to stop.
LEMMA Told ==
  ASSUME Times, ServiceTypes, NEW s \in Services, Control!Control(s)
  PROVE  sServices' \in [Services -> Status(sMoves)] /\ sSeen' \in Status(sMoves)
<1>1. PICK x \in {"stop_pending", "stopped", "running"} :
        \E st \in Control!Statuses(x) : sServices' = [sServices EXCEPT ![s] = st] /\ sSeen' = st
  BY DEF Control!Control
<1>2. PICK st \in Control!Statuses(x) : sServices' = [sServices EXCEPT ![s] = st] /\ sSeen' = st
  BY <1>1
<1>3. x \in States /\ sMoves \in Nat
  BY DEF States, ServiceTypes
<1>4. st \in Status(sMoves)
  BY <1>3, Reported
<1>5. QED
  BY <1>2, <1>4, LookedAt

\* A list of the dependents that are active names the one there is.
LEMMA Listed ==
  ASSUME Control!Active # {}, NEW seq \in Control!SetToSeqs(Control!Active)
  PROVE  seq \in Seq({"dependent"}) /\ Len(seq) = 1
<1>1. Control!Active = {"dependent"}
  BY AllServices
<1>2. Cardinality({"dependent"}) = 1
  BY FS_Singleton
<1>3. Control!Cardinality({"dependent"}) = 1
  BY <1>2 DEF Cardinality, Control!Cardinality
<1>4. seq \in [1..1 -> {"dependent"}]
  BY <1>1, <1>3 DEF Control!SetToSeqs
<1>5. seq \in Seq({"dependent"})
  BY <1>4, SeqDef
<1>6. Len(seq) \in Nat /\ DOMAIN seq = 1..Len(seq) /\ DOMAIN seq = 1..1
  BY <1>4, <1>5, LenProperties
<1>7. Len(seq) = 1
  <2> DEFINE n == Len(seq)
  <2>1. n \in Nat /\ 1..n = 1..1
    BY <1>6
  <2> HIDE DEF n
  <2>2. 1 \in 1..n /\ n \in 1..n
    BY <2>1
  <2>3. n = 1
    BY <2>1, <2>2
  <2>4. QED
    BY <2>3 DEF n
<1>8. QED
  BY <1>5, <1>7

LEMMA GiveUpKeeps ==
  ASSUME ServiceTypes, ServiceHandles, Control!Stay, Control!GiveUp,
         sPhase \in {"dependents", "next_dependent", "stopping_dependent"}
  PROVE  ServiceTypes' /\ ServiceHandles'
<1>1. /\ sTodo' = <<>> /\ sPhase' = "control" /\ sAsleep' = FALSE
      /\ sHeld' = sHeld \ {"dependent", "list"}
      /\ UNCHANGED <<sServices, sSeen, sStart, sDepStart>>
  BY DEF Control!GiveUp, Control!Goto
<1>2. ServiceTypes'
  BY <1>1, LookedAt, StayKeeps, EmptySeq
<1>3. sHeld' \subseteq {"manager", "service"}
  BY <1>1 DEF ServiceHandles, Waiting
<1>4. ServiceHandles'
  BY <1>1, <1>3 DEF ServiceHandles, Dacl, Waiting
<1>5. QED
  BY <1>2, <1>4

LEMMA LastOne == ASSUME NEW seq \in Seq({"dependent"}), Len(seq) = 1 PROVE seq # <<>>
BY EmptySeq

LEMMA DependentStoppedKeeps ==
  ASSUME ServiceTypes, ServiceHandles, Control!Stay, Control!DependentStopped,
         sPhase = "stopping_dependent"
  PROVE  ServiceTypes' /\ ServiceHandles'
<1>1. sTodo \in Seq({"dependent"}) /\ Len(sTodo) = 1
  BY DEF ServiceTypes
<1>2. sTodo # <<>>
  BY <1>1, LastOne
<1>3. Tail(sTodo) \in Seq({"dependent"}) /\ Len(Tail(sTodo)) = 0
  BY <1>1, <1>2, HeadTailProperties
<1>4. /\ sTodo' = Tail(sTodo) /\ sPhase' = "next_dependent" /\ sAsleep' = FALSE
      /\ sHeld' = sHeld \ {"dependent"} /\ sServices' = sServices /\ sSeen' = sSeen
      /\ sStart' = sStart /\ sDepStart' = sDepStart
  BY DEF Control!DependentStopped, Control!Goto
<1>5. sTodo' \in Seq({"dependent"}) /\ Len(sTodo') = 0
  BY <1>3, <1>4
<1>6. ServiceTypes'
  BY <1>4, <1>5, LookedAt, StayKeeps
<1>7. ServiceHandles'
  BY <1>4 DEF ServiceHandles, Dacl, Waiting
<1>8. QED
  BY <1>6, <1>7

\* The next dependent is the one there is.
LEMMA ToStopNext ==
  ASSUME ServiceTypes, sPhase = "next_dependent", sTodo # <<>>
  PROVE  Head(sTodo) \in Services /\ Len(sTodo) = 1 /\ sTodo \in Seq({"dependent"})
<1>1. sTodo \in Seq({"dependent"}) /\ Len(sTodo) \in {0, 1}
  BY DEF ServiceTypes
<1>2. Head(sTodo) = "dependent"
  BY <1>1, HeadTailProperties
<1>3. Len(sTodo) # 0
  BY <1>1, EmptySeq
<1>4. Len(sTodo) = 1
  BY <1>1, <1>3
<1>5. QED
  BY <1>1, <1>2, <1>4 DEF Services

LEMMA LookStoppingKeeps ==
  ASSUME ServiceTypes, ServiceHandles, NEW p \in {"stop_pending", "stopping"}, Control!LookStopping(p)
  PROVE  ServiceTypes' /\ ServiceHandles'
<1>1. p \in Waiting /\ sPhase = p /\ Control!Stay
  BY DEF Control!LookStopping, Waiting
<1>2. sHeld \subseteq Control!Handles
  BY <1>1, WaitingCloses
<1>3. ASSUME NEW text, Control!Return(text, Control!Handles) PROVE ServiceTypes' /\ ServiceHandles'
  BY <1>1, <1>2, <1>3, ReturnKeeps
<1>4. CASE /\ Control!Look /\ Control!Goto(p)
           /\ UNCHANGED <<sCommand, sStart, sDepStart, sOldCheckPoint, sTodo, sHeld, sSaid>>
  BY <1>1, <1>4, LookKeeps DEF Control!Look
<1>5. QED
  BY <1>3, <1>4 DEF Control!LookStopping

LEMMA StopKeeps ==
  ASSUME Times, ServiceTypes, ServiceHandles, Control!DoStopSvc
  PROVE  ServiceTypes' /\ ServiceHandles'
<1>1. CASE Control!StopQuery
  <2>1. sPhase = "query" /\ sPhase \in Waiting /\ Control!Stay /\ sHeld \subseteq Control!Handles
    BY <1>1, WaitingCloses DEF Control!StopQuery, Waiting
  <2>2. ASSUME NEW text, Control!Return(text, Control!Handles) PROVE ServiceTypes' /\ ServiceHandles'
    BY <2>1, <2>2, ReturnKeeps
  <2>3. CASE /\ Control!Look /\ Control!Goto("stop_pending")
             /\ UNCHANGED <<sCommand, sStart, sDepStart, sOldCheckPoint, sTodo, sHeld, sSaid>>
    BY <2>1, <2>3, LookKeeps DEF Control!Look, Waiting
  <2>4. QED
    BY <1>1, <2>2, <2>3 DEF Control!StopQuery
<1>2. CASE Control!WaitPendingStop
  <2>1. CASE Control!WaitPending("stop_pending", "stop_pending", "dependents")
    BY <2>1, WaitPendingKeeps DEF Waiting
  <2>2. QED
    BY <1>2, <2>1, LookStoppingKeeps DEF Control!WaitPendingStop
<1>3. CASE Control!ListDependents
  <2>1. sPhase = "dependents" /\ Control!Stay
    BY <1>3 DEF Control!ListDependents
  <2>2. CASE Control!GiveUp
    BY <2>1, <2>2, GiveUpKeeps
  <2>3. CASE /\ Control!Active # {} /\ sTodo' \in Control!SetToSeqs(Control!Active)
             /\ sHeld' = sHeld \cup {"list"} /\ sDepStart' = sTickCount
             /\ Control!Goto("next_dependent")
             /\ UNCHANGED <<sServices, sCommand, sSeen, sStart, sOldCheckPoint, sSaid>>
    <3>1. sTodo' \in Seq({"dependent"}) /\ Len(sTodo') = 1
      BY <2>3, Listed
    <3>2. sPhase' = "next_dependent" /\ sAsleep' = FALSE
      BY <2>3 DEF Control!Goto
    <3>3. sServices' = sServices /\ sSeen' = sSeen /\ sStart' = sStart /\ sDepStart' = sTickCount
      BY <2>3
    <3>4. ServiceTypes'
      BY <2>1, <3>1, <3>2, <3>3, LookedAt, StayKeeps
    <3>5. ServiceHandles'
      BY <2>1, <2>3, <3>2 DEF ServiceHandles, Dacl, Waiting
    <3>6. QED
      BY <3>4, <3>5
  <2>4. QED
    BY <1>3, <2>2, <2>3 DEF Control!ListDependents
<1>4. CASE Control!StopNext
  <2>1. sPhase = "next_dependent" /\ Control!Stay
    BY <1>4 DEF Control!StopNext
  <2>2. CASE Control!GiveUp
    BY <2>1, <2>2, GiveUpKeeps
  <2>3. CASE /\ sTodo # <<>> /\ Control!Control(Head(sTodo))
             /\ sHeld' = sHeld \cup {"dependent"} /\ Control!Goto("stopping_dependent")
             /\ UNCHANGED <<sCommand, sStart, sDepStart, sOldCheckPoint, sTodo, sSaid>>
    <3>1. Head(sTodo) \in Services /\ Len(sTodo) = 1 /\ sTodo \in Seq({"dependent"})
      BY <2>1, <2>3, ToStopNext
    <3>2. sPhase' = "stopping_dependent" /\ sAsleep' = FALSE
      BY <2>3 DEF Control!Goto
    <3>3. ServiceTypes'
      BY <2>1, <2>3, <3>1, <3>2, Told, StayKeeps
    <3>4. ServiceHandles'
      BY <2>1, <2>3, <3>2 DEF ServiceHandles, Dacl, Waiting
    <3>5. QED
      BY <3>3, <3>4
  <2>4. QED
    BY <1>4, <2>2, <2>3 DEF Control!StopNext
<1>5. CASE Control!WaitForDependent
  <2>1. sPhase = "stopping_dependent" /\ Len(sTodo) = 1 /\ sTodo \in Seq({"dependent"})
        /\ Head(sTodo) = "dependent"
    BY <1>5, SMTT(60) DEF Control!WaitForDependent, ServiceTypes
  <2>2. CASE Control!Sleep(sSeen.hint)
    BY <2>2, Hinted, SleepKeeps
  <2>3. CASE Control!Stay /\ Control!GiveUp
    BY <2>1, <2>3, GiveUpKeeps
  <2>4. CASE Control!Stay /\ Control!DependentStopped
    BY <2>1, <2>4, DependentStoppedKeeps
  <2>5. CASE /\ Control!Stay /\ Control!Goto(sPhase) /\ sSeen' = sServices[Head(sTodo)]
             /\ UNCHANGED <<sServices, sCommand, sStart, sDepStart, sOldCheckPoint, sTodo, sHeld, sSaid>>
    <3>1. sPhase' = "stopping_dependent" /\ sAsleep' = FALSE
      BY <2>1, <2>5 DEF Control!Goto
    <3>2. ServiceTypes'
      BY <2>1, <2>5, <3>1, LookedAt, StayKeeps
    <3>3. ServiceHandles'
      BY <2>1, <2>5, <3>1 DEF ServiceHandles, Dacl, Waiting
    <3>4. QED
      BY <3>2, <3>3
  <2>6. QED
    BY <1>5, <2>2, <2>3, <2>4, <2>5 DEF Control!WaitForDependent
<1>6. CASE Control!ControlMain
  <2>1. sPhase = "control" /\ sPhase \in Waiting /\ Control!Stay /\ sHeld \subseteq Control!Handles
    BY <1>6, WaitingCloses DEF Control!ControlMain, Waiting
  <2>2. CASE Control!Return("failed", Control!Handles)
    BY <2>1, <2>2, ReturnKeeps
  <2>3. CASE /\ Control!Control("service") /\ Control!Goto("stopping")
             /\ UNCHANGED <<sCommand, sStart, sDepStart, sOldCheckPoint, sTodo, sHeld, sSaid>>
    <3>1. sPhase' = "stopping" /\ sAsleep' = FALSE
      BY <2>3 DEF Control!Goto
    <3>2. sServices' \in [Services -> Status(sMoves)] /\ sSeen' \in Status(sMoves)
      BY <2>3, Told DEF Services
    <3>3. ServiceTypes'
      BY <2>1, <2>3, <3>1, <3>2, StayKeeps DEF ServiceTypes
    <3>4. ServiceHandles'
      BY <2>1, <2>3, <3>1 DEF ServiceHandles, Dacl, Waiting, Control!Handles
    <3>5. QED
      BY <3>3, <3>4
  <2>4. QED
    BY <1>6, <2>2, <2>3 DEF Control!ControlMain
<1>7. CASE Control!WaitForMain
  <2>1. CASE Control!Sleep(sSeen.hint)
    BY <2>1, Hinted, SleepKeeps
  <2>2. CASE sPhase = "stopping" /\ Control!Stay /\ Control!Return("stopped", Control!Handles)
    BY <2>2, WaitingCloses, ReturnKeeps DEF Waiting
  <2>3. QED
    BY <1>7, <2>1, <2>2, LookStoppingKeeps DEF Control!WaitForMain
<1>8. QED
  BY <1>1, <1>2, <1>3, <1>4, <1>5, <1>6, <1>7 DEF Control!DoStopSvc

LEMMA ServiceStep ==
  ASSUME Times, ServiceTypes, ServiceHandles, Control!Next
  PROVE  ServiceTypes' /\ ServiceHandles'
BY ServiceMovesKeep, OpenKeeps, StartKeeps, StopKeeps DEF Control!Next, Control!Step

LEMMA ServiceReleased ==
  ASSUME Times, ServiceTypes, ServiceHandles PROVE Control!TypeOK /\ Control!EverythingIsGivenBack
<1>1. sMoves \in 0..MaxMoves
  BY DEF ServiceTypes
<1>2. \A s \in Control!Service :
        sServices[s] \in [state : Control!Pending \cup {"stopped", "running"},
                          checkPoint : 0..(MaxMoves + 1), hint : WaitHint \cup {0}]
  <2>1. \A st \in Status(sMoves) :
          st \in [state : Control!Pending \cup {"stopped", "running"},
                  checkPoint : 0..(MaxMoves + 1), hint : WaitHint \cup {0}]
    BY <1>1 DEF Status, States, Control!Pending, Times
  <2>2. QED
    BY <2>1, AllServices DEF ServiceTypes
<1>3. Control!TypeOK
  BY <1>2 DEF Control!TypeOK, Control!Handles, ServiceTypes, ServiceHandles, Dacl, Waiting
<1>4. Control!EverythingIsGivenBack
  BY DEF Control!EverythingIsGivenBack, ServiceHandles
<1>5. QED
  BY <1>3, <1>4
-----------------------------------------------------------------------------
(* How long svccontrol stop takes.                                         *)

\* A service gives a wait hint, and the counter does not come around within the
\* two time-outs and the two waits that a stop may take.
Longest == Control!Max(WaitHint)

Patience ==
  /\ \E h \in WaitHint : h >= 1 /\ \A g \in WaitHint : g <= h
  /\ 2 * Timeout + 2 * Longest < Wrap

\* What it has taken so far, by where it is: the time-out is asked behind a sleep
\* only, and of the dependent by a clock of its own.
ServiceTimes ==
  sCommand = "stop" =>
    /\ sPhase \notin Dacl \cup {"wait_for_stop", "start_service", "wait_for_start", "verdict"}
    /\ sElapsed = Control!Since(sStart)
    /\ sPhase \in {"open", "manager", "query"} => sElapsed = 0
    /\ sPhase = "stop_pending" => sElapsed <= Timeout + (IF sAsleep THEN Longest ELSE 0)
    /\ sPhase = "dependents" => sElapsed <= Timeout
    /\ sPhase = "next_dependent" =>
         /\ sElapsed <= Timeout + Control!Since(sDepStart)
         /\ Control!Since(sDepStart) <= IF Len(sTodo) = 1 THEN 0 ELSE Timeout + Longest
    /\ sPhase = "stopping_dependent" =>
         /\ sElapsed <= Timeout + Control!Since(sDepStart)
         /\ Control!Since(sDepStart) <= Timeout + (IF sAsleep THEN Longest ELSE 0)
    /\ sPhase = "control" => sElapsed <= 2 * Timeout + Longest
    /\ sPhase = "stopping" =>
         sElapsed <= 2 * Timeout + Longest + (IF sAsleep THEN Longest ELSE 0)
    /\ sPhase = "end" => sElapsed <= 2 * Timeout + 2 * Longest

LEMMA LongestHint ==
  ASSUME Times, Patience
  PROVE  /\ Longest \in Nat /\ Longest >= 1 /\ \A g \in WaitHint : g <= Longest
         /\ Timeout \in Nat /\ Wrap \in Nat \ {0} /\ 2 * Timeout + 2 * Longest < Wrap
<1>1. \A g \in WaitHint : g \in Nat
  BY DEF Times
<1>2. \E x \in WaitHint : \A y \in WaitHint : x >= y
  BY <1>1 DEF Patience
<1>3. Longest \in WaitHint /\ \A y \in WaitHint : Longest >= y
  BY <1>2 DEF Longest, Control!Max
<1>4. QED
  BY <1>1, <1>3 DEF Patience, Times

\* The counter comes around, and what it tells of a time since does not.
LEMMA ClockGoesOn ==
  ASSUME NEW W \in Nat \ {0}, NEW t \in 0..(W - 1), NEW f \in 0..(W - 1), NEW k \in Nat,
         ((t - f) % W) + k < W
  PROVE  (((t + k) % W) - f) % W = ((t - f) % W) + k
<1> DEFINE n == (t - f) % W
<1>1. n = IF t >= f THEN t - f ELSE t - f + W
  OBVIOUS
<1>2. n + k < W
  OBVIOUS
<1> HIDE DEF n
<1>3. CASE t + k < W
  <2>1. (t + k) % W = t + k
    BY <1>3
  <2>2. (t + k - f) % W = n + k
    <3>1. CASE t >= f
      <4>1. t + k - f = n + k /\ n + k \in 0..(W - 1)
        BY <1>1, <1>2, <3>1
      <4>2. QED
        BY <4>1
    <3>2. CASE t < f
      <4>1. n + k \in 0..(W - 1) /\ t + k - f = (n + k) - W
        BY <1>1, <1>2, <3>2
      <4>2. QED
        BY <4>1
    <3>3. QED
      BY <3>1, <3>2
  <2>3. QED
    BY <2>1, <2>2 DEF n
<1>4. CASE t + k >= W
  <2>1. t >= f /\ t + k - W \in 0..(W - 1)
    BY <1>1, <1>2, <1>4
  <2>2. (t + k) % W = t + k - W
    BY <1>4, <2>1
  <2>3. n + k \in 0..(W - 1) /\ (t + k - W) - f = (n + k) - W
    BY <1>1, <1>2, <2>1
  <2>4. ((n + k) - W) % W = n + k
    BY <2>3
  <2>5. QED
    BY <2>2, <2>3, <2>4 DEF n
<1>5. QED
  BY <1>3, <1>4

LEMMA TimeSince ==
  ASSUME Times, ServiceTypes
  PROVE  /\ Control!Since(sStart) \in 0..(Wrap - 1) /\ Control!Since(sDepStart) \in 0..(Wrap - 1)
         /\ Control!Since(sTickCount) = 0 /\ sElapsed \in Nat /\ Timeout \in Nat
<1>1. sTickCount \in 0..(Wrap - 1) /\ sStart \in 0..(Wrap - 1) /\ sDepStart \in 0..(Wrap - 1)
      /\ Wrap \in Nat \ {0} /\ sElapsed \in Nat /\ Timeout \in Nat
  BY DEF ServiceTypes, Times
<1>2. sTickCount - sTickCount = 0 /\ 0 % Wrap = 0
  BY <1>1
<1>3. QED
  BY <1>1, <1>2, ModWrap DEF Control!Since

\* A sleep takes a hint at the most, which both clocks see.
LEMMA SleepTakes ==
  ASSUME Times, Patience, ServiceTypes, NEW time \in Nat, time <= Longest, Control!Sleep(time),
         sElapsed + Longest <= 2 * Timeout + 2 * Longest, sElapsed = Control!Since(sStart)
  PROVE  \E k \in 1..Longest :
           /\ sElapsed' = sElapsed + k /\ sElapsed' = Control!Since(sStart)'
           /\ Control!Since(sDepStart) + Longest < Wrap =>
                Control!Since(sDepStart)' = Control!Since(sDepStart) + k
           /\ sAsleep' = TRUE /\ UNCHANGED <<sCommand, sPhase, sTodo>>
<1> DEFINE k == Ticks(time)
<1>1. /\ sAsleep' = TRUE /\ UNCHANGED <<sCommand, sPhase, sStart, sDepStart, sTodo>>
      /\ sTickCount' = (sTickCount + k) % Wrap
      /\ sElapsed' = IF sElapsed + k <= Wrap THEN sElapsed + k ELSE Wrap
  BY Slept
<1>2. k \in 1..Longest /\ k \in Nat
  BY LongestHint DEF Ticks
<1> HIDE DEF k
<1>3. sElapsed' = sElapsed + k /\ sElapsed + k < Wrap
  BY <1>1, <1>2, LongestHint, TimeSince
<1>4. /\ sTickCount \in 0..(Wrap - 1) /\ sStart \in 0..(Wrap - 1) /\ sDepStart \in 0..(Wrap - 1)
      /\ Wrap \in Nat \ {0}
  BY DEF ServiceTypes, Times
<1>5. Control!Since(sStart)' = sElapsed + k
  <2>1. ((sTickCount - sStart) % Wrap) + k < Wrap
    BY <1>3 DEF Control!Since
  <2>2. (((sTickCount + k) % Wrap) - sStart) % Wrap = ((sTickCount - sStart) % Wrap) + k
    BY <1>2, <1>4, <2>1, ClockGoesOn
  <2>3. QED
    BY <1>1, <2>2 DEF Control!Since
<1>6. ASSUME Control!Since(sDepStart) + Longest < Wrap
      PROVE  Control!Since(sDepStart)' = Control!Since(sDepStart) + k
  <2>1. Control!Since(sDepStart) + k < Wrap
    BY <1>2, <1>6, TimeSince, LongestHint
  <2>2. ((sTickCount - sDepStart) % Wrap) + k < Wrap
    BY <2>1 DEF Control!Since
  <2>3. (((sTickCount + k) % Wrap) - sDepStart) % Wrap = ((sTickCount - sDepStart) % Wrap) + k
    BY <1>2, <1>4, <2>2, ClockGoesOn
  <2>4. QED
    BY <1>1, <2>3 DEF Control!Since
<1>7. QED
  BY <1>1, <1>2, <1>3, <1>5, <1>6

\* A tenth of a hint, within the limits, is no longer than a hint.
LEMMA HintedTime ==
  ASSUME Times, Patience, ServiceTypes
  PROVE  /\ sSeen.hint \in Nat /\ sSeen.hint <= Longest
         /\ Control!Interval(sSeen.hint) \in Nat /\ Control!Interval(sSeen.hint) <= Longest
<1>1. sSeen \in Status(sMoves)
  BY DEF ServiceTypes
<1>2. \A st \in Status(sMoves) : st.hint \in WaitHint \cup {0}
  BY DEF Status
<1>3. sSeen.hint \in Nat /\ sSeen.hint <= Longest /\ Longest >= 1 /\ Longest \in Nat
  BY <1>1, <1>2, LongestHint, Hinted
<1>4. Control!Interval(sSeen.hint) = (LET part == sSeen.hint \div 2
                                      IN  IF part < 1 THEN 1 ELSE IF part > 2 THEN 2 ELSE part)
  BY DEF Control!Interval
<1> DEFINE h == sSeen.hint
           part == h \div 2
<1>5. h \in Nat /\ h <= Longest
  BY <1>3
<1> HIDE DEF h
<1>6. part \in Int /\ (h < 2 => part < 1) /\ part <= h
  BY <1>5
<1>7. QED
  BY <1>3, <1>4, <1>5, <1>6 DEF h
\* A step that takes no time.
LEMMA StayTakes ==
  ASSUME Control!Stay, UNCHANGED <<sCommand, sStart>>
  PROVE  /\ UNCHANGED <<sElapsed, sTickCount, sCommand>>
         /\ Control!Since(sStart)' = Control!Since(sStart)
         /\ UNCHANGED sDepStart => Control!Since(sDepStart)' = Control!Since(sDepStart)
BY DEF Control!Stay, Control!Since

\* Wherever it is, it is in time.
LEMMA InTime ==
  ASSUME Times, Patience, ServiceTypes, ServiceHandles, ServiceTimes, sCommand = "stop"
  PROVE  sElapsed <= 2 * Timeout + 2 * Longest
<1>1. /\ Timeout \in Nat /\ Longest \in Nat /\ sElapsed \in Nat
      /\ Control!Since(sDepStart) \in Nat /\ Control!Since(sDepStart) \in Int
  BY TimeSince, LongestHint
<1>2. sPhase \in {"open", "manager", "query", "stop_pending", "dependents", "next_dependent",
                  "stopping_dependent", "control", "stopping", "end"}
  BY DEF ServiceTimes, ServiceHandles, Dacl, Waiting
<1>3. CASE sPhase \in {"open", "manager", "query", "dependents", "control", "end"}
  BY <1>1, <1>3 DEF ServiceTimes
<1>4. CASE sPhase \in {"stop_pending", "stopping"}
  BY <1>1, <1>4 DEF ServiceTimes
<1>5. CASE sPhase \in {"next_dependent", "stopping_dependent"}
  <2>1. sElapsed <= Timeout + Control!Since(sDepStart)
        /\ Control!Since(sDepStart) <= Timeout + Longest
    BY <1>1, <1>5 DEF ServiceTimes
  <2>2. QED
    BY <1>1, <2>1
<1>6. QED
  BY <1>2, <1>3, <1>4, <1>5

\* The command is left with what it has taken.
LEMMA ReturnTakes ==
  ASSUME Times, Patience, ServiceTypes, ServiceHandles, ServiceTimes, sCommand = "stop",
         Control!Stay, sPhase' = "end", UNCHANGED <<sCommand, sStart>>
  PROVE  ServiceTimes'
<1>1. sElapsed' = sElapsed /\ Control!Since(sStart)' = Control!Since(sStart)
  BY StayTakes
<1>2. sElapsed = Control!Since(sStart) /\ sElapsed <= 2 * Timeout + 2 * Longest
  BY InTime DEF ServiceTimes
<1>3. QED
  BY <1>1, <1>2 DEF ServiceTimes, Dacl

\* The looks at the service itself: it goes on only within the time-out.
LEMMA LookTakes ==
  ASSUME Times, Patience, ServiceTypes, ServiceHandles, ServiceTimes, sCommand = "stop",
         NEW p \in {"stop_pending", "stopping"}, Control!LookStopping(p)
  PROVE  ServiceTimes'
<1>1. Control!Stay /\ sPhase = p /\ UNCHANGED <<sCommand, sStart>>
  BY DEF Control!LookStopping, Control!Return
<1>2. CASE sPhase' = "end"
  BY <1>1, <1>2, ReturnTakes
<1>3. CASE sPhase' = p /\ sAsleep' = FALSE /\ ~(Control!Since(sStart) > Timeout)
  <2>1. sElapsed' = sElapsed /\ Control!Since(sStart)' = Control!Since(sStart)
        /\ sElapsed = Control!Since(sStart)
    BY <1>1, StayTakes DEF ServiceTimes
  <2>2. sElapsed \in Nat /\ Timeout \in Nat /\ Longest \in Nat
    BY TimeSince, LongestHint
  <2>3. sElapsed <= Timeout
    BY <1>3, <2>1, <2>2
  <2>4. sElapsed' <= Timeout /\ sElapsed' <= 2 * Timeout + Longest
    BY <2>1, <2>2, <2>3
  <2>5. QED
    BY <1>1, <1>3, <2>1, <2>2, <2>4 DEF ServiceTimes, Dacl
<1>4. QED
  BY <1>2, <1>3 DEF Control!LookStopping, Control!Return, Control!Goto

\* A sleep within a loop.
LEMMA SleepingTakes ==
  ASSUME Times, Patience, ServiceTypes, ServiceHandles, ServiceTimes, sCommand = "stop",
         sPhase \in {"stop_pending", "stopping_dependent", "stopping"}, ~sAsleep,
         NEW time \in Nat, time <= Longest, Control!Sleep(time)
  PROVE  ServiceTimes'
<1>1. /\ Timeout \in Nat /\ Longest \in Nat /\ sElapsed \in Nat /\ Wrap \in Nat
      /\ Control!Since(sDepStart) \in Nat /\ 2 * Timeout + 2 * Longest < Wrap
  BY TimeSince, LongestHint
<1>2. /\ sElapsed + Longest <= 2 * Timeout + 2 * Longest
      /\ sPhase = "stopping_dependent" => Control!Since(sDepStart) + Longest < Wrap
  <2>1. CASE sPhase = "stop_pending"
    <3>1. sElapsed <= Timeout
      BY <1>1, <2>1 DEF ServiceTimes
    <3>2. QED
      BY <1>1, <2>1, <3>1
  <2>2. CASE sPhase = "stopping_dependent"
    <3>1. sElapsed <= Timeout + Control!Since(sDepStart) /\ Control!Since(sDepStart) <= Timeout
      BY <1>1, <2>2 DEF ServiceTimes
    <3>2. QED
      BY <1>1, <2>2, <3>1
  <2>3. CASE sPhase = "stopping"
    <3>1. sElapsed <= 2 * Timeout + Longest
      BY <1>1, <2>3 DEF ServiceTimes
    <3>2. QED
      BY <1>1, <2>3, <3>1
  <2>4. QED
    BY <2>1, <2>2, <2>3
<1>3. sElapsed = Control!Since(sStart)
  BY DEF ServiceTimes
<1>4. PICK k \in 1..Longest :
        /\ sElapsed' = sElapsed + k /\ sElapsed' = Control!Since(sStart)'
        /\ Control!Since(sDepStart) + Longest < Wrap =>
             Control!Since(sDepStart)' = Control!Since(sDepStart) + k
        /\ sAsleep' = TRUE /\ UNCHANGED <<sCommand, sPhase, sTodo>>
  BY <1>2, <1>3, SleepTakes
<1>5. k \in Nat /\ k <= Longest
  BY <1>1
<1>6. CASE sPhase = "stop_pending"
  <2>1. sElapsed <= Timeout
    BY <1>1, <1>6 DEF ServiceTimes
  <2>2. sElapsed' <= Timeout + Longest
    BY <1>1, <1>4, <1>5, <2>1
  <2>3. QED
    BY <1>4, <1>6, <2>2 DEF ServiceTimes, Dacl
<1>7. CASE sPhase = "stopping_dependent"
  <2>1. sElapsed <= Timeout + Control!Since(sDepStart) /\ Control!Since(sDepStart) <= Timeout
    BY <1>1, <1>7 DEF ServiceTimes
  <2>2. Control!Since(sDepStart)' = Control!Since(sDepStart) + k
    BY <1>2, <1>4, <1>7
  <2>3. sElapsed' <= Timeout + Control!Since(sDepStart)'
        /\ Control!Since(sDepStart)' <= Timeout + Longest
    BY <1>1, <1>4, <1>5, <2>1, <2>2
  <2>4. QED
    BY <1>4, <1>7, <2>3 DEF ServiceTimes, Dacl
<1>8. CASE sPhase = "stopping"
  <2>1. sElapsed <= 2 * Timeout + Longest
    BY <1>1, <1>8 DEF ServiceTimes
  <2>2. sElapsed' <= 2 * Timeout + Longest + Longest
    BY <1>1, <1>4, <1>5, <2>1
  <2>3. QED
    BY <1>4, <1>8, <2>2 DEF ServiceTimes, Dacl
<1>9. QED
  BY <1>6, <1>7, <1>8

\* From one loop to the next.
LEMMA StopTakes ==
  ASSUME Times, Patience, ServiceTypes, ServiceHandles, ServiceTimes, sCommand = "stop",
         Control!DoStopSvc
  PROVE  ServiceTimes'
<1>1. /\ Timeout \in Nat /\ Longest \in Nat /\ sElapsed \in Nat
      /\ Control!Since(sDepStart) \in Nat /\ Control!Since(sTickCount) = 0
      /\ sElapsed = Control!Since(sStart)
  BY TimeSince, LongestHint DEF ServiceTimes
<1>2. CASE Control!StopQuery
  <2>1. /\ Control!Stay /\ UNCHANGED <<sCommand, sStart>> /\ sPhase = "query"
        /\ sPhase' = "end" \/ (sPhase' = "stop_pending" /\ sAsleep' = FALSE)
    BY <1>2 DEF Control!StopQuery, Control!Return, Control!Goto
  <2>2. sElapsed' = 0 /\ Control!Since(sStart)' = 0 /\ sCommand' = "stop"
    BY <1>1, <2>1, StayTakes DEF ServiceTimes
  <2>3. 0 <= Timeout + Longest /\ 0 <= Timeout
    BY <1>1
  <2>4. CASE sPhase' = "stop_pending" /\ sAsleep' = FALSE
    <3>1. sElapsed' <= Timeout + 0
      BY <1>1, <2>2
    <3>2. QED
      BY <2>2, <2>4, <3>1 DEF ServiceTimes, Dacl
  <2>5. QED
    BY <2>1, <2>4, ReturnTakes
<1>3. CASE Control!WaitPendingStop
  <2>1. CASE Control!WaitPending("stop_pending", "stop_pending", "dependents")
    <3>1. sPhase = "stop_pending" /\ ~sAsleep
      BY <2>1 DEF Control!WaitPending
    <3>2. CASE Control!Sleep(Control!Interval(sSeen.hint))
      BY <3>1, <3>2, HintedTime, SleepingTakes
    <3>3. CASE Control!Goto("dependents") /\ Control!Stay
               /\ UNCHANGED <<sServices, sCommand, sSeen, sStart, sDepStart, sOldCheckPoint, sTodo, sHeld, sSaid>>
      <4>1. sPhase' = "dependents" /\ sElapsed' = sElapsed /\ sCommand' = "stop"
            /\ Control!Since(sStart)' = Control!Since(sStart)
        BY <3>3, StayTakes DEF Control!Goto
      <4>2. sElapsed <= Timeout
        BY <1>1, <3>1 DEF ServiceTimes
      <4>3. QED
        BY <1>1, <4>1, <4>2 DEF ServiceTimes, Dacl
    <3>4. QED
      BY <2>1, <3>2, <3>3 DEF Control!WaitPending
  <2>2. QED
    BY <1>3, <2>1, LookTakes DEF Control!WaitPendingStop
<1>4. ASSUME Control!Stay, Control!GiveUp,
             sPhase \in {"dependents", "next_dependent", "stopping_dependent"}
      PROVE  ServiceTimes'
  <2>1. sPhase' = "control" /\ sElapsed' = sElapsed /\ sCommand' = "stop"
        /\ Control!Since(sStart)' = Control!Since(sStart)
    BY <1>4, StayTakes DEF Control!GiveUp, Control!Goto
  <2>2. sElapsed <= 2 * Timeout + Longest
    <3>1. CASE sPhase = "dependents"
      <4>1. sElapsed <= Timeout
        BY <3>1 DEF ServiceTimes
      <4>2. QED
        BY <1>1, <4>1
    <3>2. CASE sPhase \in {"next_dependent", "stopping_dependent"}
      <4>1. sElapsed <= Timeout + Control!Since(sDepStart)
            /\ Control!Since(sDepStart) <= Timeout + Longest
        BY <1>1, <3>2 DEF ServiceTimes
      <4>2. QED
        BY <1>1, <4>1
    <3>3. QED
      BY <1>4, <3>1, <3>2
  <2>3. QED
    BY <1>1, <2>1, <2>2 DEF ServiceTimes, Dacl
<1>5. CASE Control!ListDependents
  <2>1. sPhase = "dependents" /\ Control!Stay
    BY <1>5 DEF Control!ListDependents
  <2>2. CASE /\ sDepStart' = sTickCount /\ Control!Goto("next_dependent")
             /\ UNCHANGED <<sServices, sCommand, sSeen, sStart, sOldCheckPoint, sSaid>>
    <3>1. sPhase' = "next_dependent" /\ sElapsed' = sElapsed /\ sCommand' = "stop"
          /\ Control!Since(sStart)' = Control!Since(sStart)
      BY <2>1, <2>2, StayTakes DEF Control!Goto
    <3>2. Control!Since(sDepStart)' = 0
      BY <1>1, <2>1, <2>2 DEF Control!Since, Control!Stay
    <3>3. sElapsed <= Timeout
      BY <2>1 DEF ServiceTimes
    <3>4. sElapsed' <= Timeout + Control!Since(sDepStart)' /\ 0 <= 0 /\ 0 <= Timeout + Longest
      BY <1>1, <3>1, <3>2, <3>3
    <3>5. QED
      BY <1>1, <3>1, <3>2, <3>4 DEF ServiceTimes, Dacl
  <2>3. QED
    BY <1>4, <1>5, <2>1, <2>2 DEF Control!ListDependents
<1>6. CASE Control!StopNext
  <2>1. sPhase = "next_dependent" /\ Control!Stay
    BY <1>6 DEF Control!StopNext
  <2>2. CASE /\ sTodo # <<>> /\ Control!Goto("stopping_dependent")
             /\ UNCHANGED <<sCommand, sStart, sDepStart, sOldCheckPoint, sTodo, sSaid>>
    <3>1. sPhase' = "stopping_dependent" /\ sAsleep' = FALSE /\ sElapsed' = sElapsed
          /\ sCommand' = "stop" /\ Control!Since(sStart)' = Control!Since(sStart)
          /\ Control!Since(sDepStart)' = Control!Since(sDepStart)
      BY <2>1, <2>2, StayTakes DEF Control!Goto
    <3>2. Len(sTodo) = 1
      BY <2>1, <2>2, ToStopNext
    <3>3. sElapsed <= Timeout + Control!Since(sDepStart) /\ Control!Since(sDepStart) <= 0
      BY <2>1, <3>2 DEF ServiceTimes
    <3>4. Control!Since(sDepStart)' <= Timeout + 0
      BY <1>1, <3>1, <3>3
    <3>5. QED
      BY <1>1, <3>1, <3>3, <3>4 DEF ServiceTimes, Dacl
  <2>3. QED
    BY <1>4, <1>6, <2>1, <2>2 DEF Control!StopNext
<1>7. CASE Control!WaitForDependent
  <2>1. sPhase = "stopping_dependent"
    BY <1>7 DEF Control!WaitForDependent
  <2>2. sElapsed <= Timeout + Control!Since(sDepStart)
        /\ Control!Since(sDepStart) <= Timeout + Longest
    BY <1>1, <2>1 DEF ServiceTimes
  <2>3. CASE ~sAsleep /\ Control!Sleep(sSeen.hint)
    BY <2>1, <2>3, HintedTime, SleepingTakes
  <2>4. CASE Control!Stay /\ Control!DependentStopped
    <3>1. sPhase' = "next_dependent" /\ sTodo' = Tail(sTodo) /\ sElapsed' = sElapsed
          /\ sCommand' = "stop" /\ Control!Since(sStart)' = Control!Since(sStart)
          /\ Control!Since(sDepStart)' = Control!Since(sDepStart)
      BY <2>4, StayTakes DEF Control!DependentStopped, Control!Goto
    <3>2. sTodo \in Seq({"dependent"}) /\ Len(sTodo) = 1
      BY <2>1 DEF ServiceTypes
    <3>3. sTodo # <<>>
      BY <3>2, LastOne
    <3>4. Len(Tail(sTodo)) = 0
      BY <3>2, <3>3, HeadTailProperties
    <3>5. Len(sTodo') # 1
      BY <3>1, <3>4
    <3>6. sElapsed' <= Timeout + Control!Since(sDepStart)'
          /\ Control!Since(sDepStart)' <= Timeout + Longest
      BY <2>2, <3>1
    <3>7. QED
      BY <1>1, <3>1, <3>5, <3>6 DEF ServiceTimes, Dacl
  <2>5. CASE /\ Control!Stay /\ Control!Since(sDepStart) <= Timeout /\ Control!Goto(sPhase)
             /\ UNCHANGED <<sServices, sCommand, sStart, sDepStart, sOldCheckPoint, sTodo, sHeld, sSaid>>
    <3>1. sPhase' = "stopping_dependent" /\ sAsleep' = FALSE /\ sElapsed' = sElapsed
          /\ sCommand' = "stop" /\ Control!Since(sStart)' = Control!Since(sStart)
          /\ Control!Since(sDepStart)' = Control!Since(sDepStart)
      BY <2>1, <2>5, StayTakes DEF Control!Goto
    <3>2. Control!Since(sDepStart)' <= Timeout + 0
      BY <1>1, <2>5, <3>1
    <3>3. QED
      BY <1>1, <2>2, <3>1, <3>2 DEF ServiceTimes, Dacl
  <2>6. QED
    BY <1>4, <1>7, <2>1, <2>3, <2>4, <2>5 DEF Control!WaitForDependent
<1>8. CASE Control!ControlMain
  <2>1. sPhase = "control" /\ Control!Stay /\ UNCHANGED <<sCommand, sStart>>
        /\ (sPhase' = "end" \/ (sPhase' = "stopping" /\ sAsleep' = FALSE))
    BY <1>8 DEF Control!ControlMain, Control!Return, Control!Goto
  <2>2. sElapsed' = sElapsed /\ Control!Since(sStart)' = Control!Since(sStart)
    BY <2>1, StayTakes
  <2>3. CASE sPhase' = "stopping" /\ sAsleep' = FALSE
    <3>1. sElapsed' <= 2 * Timeout + Longest + 0
      BY <1>1, <2>1, <2>2 DEF ServiceTimes
    <3>2. QED
      BY <1>1, <2>1, <2>2, <2>3, <3>1 DEF ServiceTimes, Dacl
  <2>4. QED
    BY <2>1, <2>3, ReturnTakes
<1>9. CASE Control!WaitForMain
  <2>1. CASE sPhase = "stopping" /\ ~sAsleep /\ Control!Sleep(sSeen.hint)
    BY <2>1, HintedTime, SleepingTakes
  <2>2. CASE Control!Stay /\ Control!Return("stopped", Control!Handles)
    BY <2>2, ReturnTakes DEF Control!Return, Control!Goto
  <2>3. QED
    BY <1>9, <2>1, <2>2, LookTakes DEF Control!WaitForMain
<1>10. QED
  BY <1>2, <1>3, <1>5, <1>6, <1>7, <1>8, <1>9 DEF Control!DoStopSvc

LEMMA CommandStays == ASSUME Control!Next PROVE sCommand' = sCommand
<1> USE DEF Control!tool, Control!Return, Control!Goto
<1>1. Control!ServiceMoves \/ Control!OpenManager \/ Control!OpenService => sCommand' = sCommand
  BY DEF Control!ServiceMoves, Control!OpenManager, Control!OpenService
<1>2. Control!DoUpdateSvcDacl => sCommand' = sCommand
  BY DEF Control!DoUpdateSvcDacl, Control!DaclStep
<1>3. Control!DoStartSvc => sCommand' = sCommand
  BY DEF Control!DoStartSvc, Control!StartQuery, Control!WaitForStop, Control!WaitPending,
         Control!LookPending, Control!StartService, Control!WaitForStart, Control!Verdict,
         Control!Remember, Control!Sleep
<1>4. Control!DoStopSvc => sCommand' = sCommand
  BY DEF Control!DoStopSvc, Control!StopQuery, Control!WaitPendingStop, Control!WaitPending,
         Control!LookStopping, Control!ListDependents, Control!GiveUp, Control!StopNext,
         Control!WaitForDependent, Control!DependentStopped, Control!ControlMain,
         Control!WaitForMain, Control!Sleep
<1>5. QED
  BY <1>1, <1>2, <1>3, <1>4 DEF Control!Next, Control!Step

LEMMA TimesStart == ASSUME Times, Control!Init PROVE ServiceTimes
<1>1. sPhase = "open" /\ sElapsed = 0 /\ sStart = sTickCount
  BY DEF Control!Init
<1>2. Control!Since(sTickCount) = 0
  BY ServiceStart, TimeSince
<1>3. QED
  BY <1>1, <1>2 DEF ServiceTimes, Dacl

LEMMA TimesStep ==
  ASSUME Times, Patience, ServiceTypes, ServiceHandles, ServiceTimes, Control!Next
  PROVE  ServiceTimes'
<1>1. CASE sCommand # "stop"
  BY <1>1, CommandStays DEF ServiceTimes
<1>2. CASE sCommand = "stop"
  <2>1. sPhase \notin Dacl \cup {"wait_for_stop", "start_service", "wait_for_start", "verdict"}
    BY <1>2 DEF ServiceTimes
  <2>2. CASE Control!ServiceMoves
    BY <2>2 DEF Control!ServiceMoves, Control!tool, ServiceTimes, Control!Since
  <2>3. CASE Control!OpenManager \/ Control!OpenService
    <3>1. /\ Control!Stay /\ UNCHANGED <<sCommand, sStart>> /\ sPhase \in {"open", "manager"}
          /\ sPhase' \in {"end", "manager", "query"}
      BY <1>2, <2>3 DEF Control!OpenManager, Control!OpenService, Control!Return, Control!Goto
    <3>2. sElapsed' = 0 /\ Control!Since(sStart)' = 0
      BY <1>2, <3>1, StayTakes DEF ServiceTimes
    <3>3. CASE sPhase' \in {"manager", "query"}
      BY <3>2, <3>3 DEF ServiceTimes, Dacl
    <3>4. QED
      BY <1>2, <3>1, <3>3, ReturnTakes
  <2>4. ~Control!DoUpdateSvcDacl
    BY <2>1 DEF Control!DoUpdateSvcDacl, Control!DaclStep, Dacl
  <2>5. ~Control!DoStartSvc
    BY <1>2, <2>1 DEF Control!DoStartSvc, Control!StartQuery, Control!WaitForStop, Control!WaitPending,
         Control!LookPending, Control!StartService, Control!WaitForStart, Control!Verdict
  <2>6. QED
    BY <1>2, <2>2, <2>3, <2>4, <2>5, StopTakes DEF Control!Next, Control!Step
<1>3. QED
  BY <1>1, <1>2

LEMMA StopEnds ==
  ASSUME Times, Patience, ServiceTypes, ServiceHandles, ServiceTimes PROVE Control!StopIsBounded
<1>1. Cardinality({"dependent"}) = 1
  BY FS_Singleton
<1>2. Control!Cardinality({"dependent"}) = 1
  BY <1>1 DEF Cardinality, Control!Cardinality
<1>3. Longest \in Nat /\ Timeout \in Nat
  BY LongestHint
<1>4. 2 * Timeout + (1 + 1) * Longest = 2 * Timeout + 2 * Longest
  BY <1>3
<1>5. QED
  BY <1>2, <1>4, InTime DEF Control!StopIsBounded, Longest
-----------------------------------------------------------------------------
(* The observer of devices.                                                *)

Plugs == {"stick", "disk", "mouse"}
Kind(d) == IF d = "mouse" THEN "hid" ELSE "usb"
Kinds == {"usb", "hid", "volume"}
Message == [what : {"arrived", "removed"}, device : Plugs]

ObserverTypes ==
  /\ oPresent \subseteq Plugs /\ oTold \subseteq Plugs
  /\ oWindow \in {"none", "message_only"} /\ oTimer \in {"none", "set", "thread"}
  /\ oNotifications \in Seq(Kinds \cup {"null"}) /\ oSent \in Seq(Message)

\* The system notifies of what is registered, through a window that knows its
\* observer.
ObserverListens ==
  /\ oState \in {"window", "user_data"} => oNotifications = <<>>
  /\ oState = "notifications" /\ oWindow # "none" => oUserData = TRUE
  /\ Observer!Registered # {} => oWindow # "none" /\ oUserData = TRUE
  /\ \A i \in 1..Len(oSent) : Kind(oSent[i].device) \in Observer!Registered
  /\ oState # "gone" => \A d \in oTold : Kind(d) \in Observer!Registered
  /\ oFatal = FALSE

\* What is told and what is under way.
Follows(d) ==
  /\ (\A i \in 1..Len(oSent) : oSent[i].device # d) => (d \in oTold <=> d \in oPresent)
  /\ \A i \in 1..Len(oSent) :
       oSent[i].device = d /\ (\A j \in (i + 1)..Len(oSent) : oSent[j].device # d) =>
         (oSent[i].what = "arrived" <=> d \in oPresent)

ObserverFollows == \A d \in Plugs : Kind(d) \in Observer!Registered => Follows(d)

ObserverInv == ObserverTypes /\ ObserverListens /\ ObserverFollows

LEMMA RegisteredOf ==
  ASSUME NEW seq \in Seq(Kinds \cup {"null"}), NEW s
  PROVE  s \in Observer!Range(seq) <=> \E i \in 1..Len(seq) : seq[i] = s
BY LenProperties DEF Observer!Range

LEMMA ObserverStart == Observer!Init => ObserverInv
<1> SUFFICES ASSUME Observer!Init PROVE ObserverInv
  OBVIOUS
<1>1. oNotifications = <<>> /\ oSent = <<>> /\ oTold = {}
  BY DEF Observer!Init
<1>2. Observer!Registered = {}
  BY <1>1 DEF Observer!Registered, Observer!Range
<1>3. ObserverTypes
  BY <1>1 DEF Observer!Init, ObserverTypes, Plugs
<1>4. ObserverListens
  BY <1>1, <1>2 DEF Observer!Init, ObserverListens
<1>5. ObserverFollows
  BY <1>2 DEF ObserverFollows
<1>6. QED
  BY <1>3, <1>4, <1>5 DEF ObserverInv

\* A step that changes nothing of what is registered, sent and told.
LEMMA ObserverRests ==
  ASSUME ObserverInv, UNCHANGED <<oPresent, oNotifications, oSent, oTold, oFatal>>,
         oWindow' \in {"none", "message_only"}, oTimer' \in {"none", "set", "thread"},
         oState' \in {"window", "user_data"} => oNotifications = <<>>,
         oState' = "notifications" /\ oWindow' # "none" => oUserData' = TRUE,
         Observer!Registered # {} => UNCHANGED <<oWindow, oUserData>>,
         oState' # "gone", oState # "gone"
  PROVE  ObserverInv'
<1>1. Observer!Registered' = Observer!Registered
  BY DEF Observer!Registered, Observer!Range
<1>2. ObserverTypes'
  BY DEF ObserverInv, ObserverTypes
<1>3. ObserverListens'
  BY <1>1 DEF ObserverInv, ObserverListens
<1>4. ObserverFollows'
  BY <1>1 DEF ObserverInv, ObserverFollows, Follows
<1>5. QED
  BY <1>2, <1>3, <1>4 DEF ObserverInv

\* The system sends as many messages of a change as there are registrations.
LEMMA ChangeIsSent ==
  ASSUME ObserverInv, NEW d \in Plugs
  PROVE  LET times == Observer!Cardinality({i \in DOMAIN oNotifications :
                                              oNotifications[i] = Kind(d)})
         IN  times \in Nat /\ (times = 0 <=> Kind(d) \notin Observer!Registered)
<1> DEFINE at == {i \in DOMAIN oNotifications : oNotifications[i] = Kind(d)}
<1>1. DOMAIN oNotifications = 1..Len(oNotifications) /\ Len(oNotifications) \in Nat
  BY LenProperties DEF ObserverInv, ObserverTypes
<1>2. IsFiniteSet(at)
  <2>1. IsFiniteSet(1..Len(oNotifications)) /\ at \subseteq 1..Len(oNotifications)
    BY <1>1, FS_Interval
  <2>2. QED
    BY <2>1, FS_Subset
<1>3. Cardinality(at) \in Nat /\ (Cardinality(at) = 0 <=> at = {})
  BY <1>2, FS_CardinalityType, FS_EmptySet
<1>4. Observer!Cardinality(at) = Cardinality(at)
  BY DEF Observer!Cardinality, Cardinality
<1>5. at = {} <=> Kind(d) \notin Observer!Registered
  BY DEF Observer!Registered, Observer!Range, Kind
<1>6. QED
  BY <1>3, <1>4, <1>5

LEMMA DeviceChangesKeep ==
  ASSUME ObserverInv, Observer!DeviceChanges
  PROVE  ObserverInv'
<1>1. PICK d \in Plugs :
        LET what == IF d \in oPresent THEN "removed" ELSE "arrived"
            times == Observer!Cardinality({i \in DOMAIN oNotifications :
                                             oNotifications[i] = Kind(d)})
        IN  /\ oPresent' = IF d \in oPresent THEN oPresent \ {d} ELSE oPresent \cup {d}
            /\ oSent' = oSent \o [i \in 1..times |-> [what |-> what, device |-> d]]
  BY DEF Observer!DeviceChanges, Plugs, Kind
<1> DEFINE n == Observer!Cardinality({i \in DOMAIN oNotifications : oNotifications[i] = Kind(d)})
           msg == [what |-> IF d \in oPresent THEN "removed" ELSE "arrived", device |-> d]
           more == [i \in 1..n |-> msg]
<1>2. n \in Nat /\ (n = 0 <=> Kind(d) \notin Observer!Registered)
  BY ChangeIsSent
<1>3. oPresent' = (IF d \in oPresent THEN oPresent \ {d} ELSE oPresent \cup {d})
      /\ oSent' = oSent \o more
  BY <1>1
<1> HIDE DEF n
<1>4. msg \in Message /\ msg.device = d /\ (msg.what = "arrived" <=> d \in oPresent')
  BY <1>3 DEF Message
<1> HIDE DEF msg
<1>5. more \in Seq(Message) /\ Len(more) = n /\ \A i \in 1..n : more[i] = msg
  <2>1. more \in [1..n -> Message] /\ \A i \in 1..n : more[i] = msg
    BY <1>4
  <2>2. more \in Seq(Message)
    BY <1>2, <2>1, SeqDef
  <2>3. Len(more) \in Nat /\ DOMAIN more = 1..Len(more) /\ DOMAIN more = 1..n
    BY <2>1, <2>2, LenProperties
  <2>4. Len(more) = n
    <3> DEFINE k == Len(more)
    <3>1. k \in Nat /\ 1..k = 1..n
      BY <2>3
    <3> HIDE DEF k
    <3>2. k = n
      BY <1>2, <3>1
    <3>3. QED
      BY <3>2 DEF k
  <2>5. QED
    BY <2>1, <2>2, <2>4
<1> HIDE DEF more
<1>6. /\ oSent \in Seq(Message) /\ Len(oSent) \in Nat
      /\ \A i \in 1..Len(oSent) : oSent[i] \in Message
  BY LenProperties, ElementOfSeq DEF ObserverInv, ObserverTypes
<1>7. /\ oSent' \in Seq(Message) /\ Len(oSent') = Len(oSent) + n
      /\ \A i \in 1..(Len(oSent) + n) : oSent'[i] = IF i <= Len(oSent) THEN oSent[i] ELSE more[i - Len(oSent)]
  BY <1>3, <1>5, <1>6, ConcatProperties
<1> DEFINE m == Len(oSent)
           late == oSent'
<1>8. m \in Nat /\ Len(late) = m + n /\ (\A i \in 1..m : late[i] = oSent[i])
      /\ \A i \in (m + 1)..(m + n) : late[i] = msg
  <2>1. m \in Nat /\ Len(late) = m + n
        /\ \A i \in 1..(m + n) : late[i] = IF i <= m THEN oSent[i] ELSE more[i - m]
    BY <1>6, <1>7
  <2> HIDE DEF m, late
  <2>2. \A i \in 1..m : late[i] = oSent[i]
    BY <1>2, <2>1
  <2>3. ASSUME NEW i \in (m + 1)..(m + n) PROVE late[i] = msg
    <3>1. i \in 1..(m + n) /\ ~(i <= m) /\ i - m \in 1..n
      BY <1>2, <2>1
    <3>2. QED
      BY <1>5, <2>1, <3>1
  <2>4. QED
    BY <2>1, <2>2, <2>3
<1>9. UNCHANGED <<oState, oWindow, oUserData, oNotifications, oTimer, oTold, oFatal>>
  BY DEF Observer!DeviceChanges, Observer!object
<1>10. Observer!Registered' = Observer!Registered
  BY <1>9 DEF Observer!Registered, Observer!Range
<1>11. ObserverTypes'
  BY <1>3, <1>7, <1>9 DEF ObserverInv, ObserverTypes
<1>12. \A i \in 1..m : Kind(oSent[i].device) \in Observer!Registered
  BY DEF ObserverInv, ObserverListens
<1> HIDE DEF m, late
<1>13. \A i \in 1..(m + n) : i \in 1..m \/ (i \in (m + 1)..(m + n) /\ n # 0)
  BY <1>2, <1>8
<1>14. \A i \in 1..Len(late) : Kind(late[i].device) \in Observer!Registered
  <2> SUFFICES ASSUME NEW i \in 1..(m + n) PROVE Kind(late[i].device) \in Observer!Registered
    BY <1>8
  <2>1. CASE i \in 1..m
    BY <1>8, <1>12, <2>1
  <2>2. CASE i \in (m + 1)..(m + n) /\ n # 0
    BY <1>2, <1>4, <1>8, <2>2
  <2>3. QED
    BY <1>13, <2>1, <2>2
<1>15. ObserverListens'
  <2>1. \A i \in 1..Len(oSent') : Kind(oSent'[i].device) \in Observer!Registered'
    BY <1>10, <1>14 DEF late
  <2>2. QED
    BY <1>9, <1>10, <2>1 DEF ObserverInv, ObserverListens
<1>16. ASSUME NEW e \in Plugs, Kind(e) \in Observer!Registered PROVE Follows(e)'
  <2>1. /\ (\A i \in 1..m : oSent[i].device # e) => (e \in oTold <=> e \in oPresent)
        /\ \A i \in 1..m :
             oSent[i].device = e /\ (\A j \in (i + 1)..m : oSent[j].device # e) =>
               (oSent[i].what = "arrived" <=> e \in oPresent)
    BY <1>16 DEF ObserverInv, ObserverFollows, Follows, m
  <2>2. CASE e = d
    <3>1. n \in Nat \ {0}
      BY <1>2, <1>16, <2>2
    <3>2. m + n \in 1..(m + n) /\ m + n \in (m + 1)..(m + n)
      BY <1>8, <3>1
    <3>3. ASSUME NEW i \in 1..(m + n), i \notin (m + 1)..(m + n) PROVE m + n \in (i + 1)..(m + n)
      BY <1>8, <3>1, <3>3
    <3>4. late[m + n] = msg
      BY <1>8, <3>2
    <3>5. Len(late) = m + n /\ late[m + n].device = d
      BY <1>4, <1>8, <3>4
    <3>6. ASSUME NEW i \in 1..Len(late), \A j \in (i + 1)..Len(late) : late[j].device # d
          PROVE  late[i].what = "arrived" <=> d \in oPresent'
      <4>1. i \in (m + 1)..(m + n)
        BY <3>3, <3>5, <3>6
      <4>2. late[i] = msg
        BY <1>8, <4>1
      <4>3. QED
        BY <1>4, <4>2
    <3>7. QED
      BY <2>2, <3>2, <3>5, <3>6 DEF Follows, late
  <2>3. CASE e # d
    <3>1. e \in oPresent' <=> e \in oPresent
      BY <1>3, <2>3
    <3>2. ASSUME NEW i \in 1..m PROVE i \in 1..(m + n)
      BY <1>2, <1>8
    <3>3. ASSUME NEW i \in 1..m, NEW j \in (i + 1)..m PROVE j \in (i + 1)..(m + n) /\ j \in 1..m
      BY <1>2, <1>8
    <3>4. ASSUME NEW i \in 1..(m + n), late[i].device = e PROVE i \in 1..m /\ late[i] = oSent[i]
      <4>1. CASE i \in (m + 1)..(m + n)
        <5>1. late[i] = msg
          BY <1>8, <4>1
        <5>2. QED
          BY <1>4, <2>3, <3>4, <5>1
      <4>2. QED
        BY <1>8, <1>13, <4>1
    <3>5. (\A i \in 1..Len(late) : late[i].device # e) => (e \in oTold' <=> e \in oPresent')
      BY <1>8, <1>9, <2>1, <3>1, <3>2
    <3>6. ASSUME NEW i \in 1..Len(late), late[i].device = e,
                 \A j \in (i + 1)..Len(late) : late[j].device # e
          PROVE  late[i].what = "arrived" <=> e \in oPresent'
      <4>1. i \in 1..m /\ late[i] = oSent[i]
        BY <1>8, <3>4, <3>6
      <4>2. ASSUME NEW j \in (i + 1)..m PROVE oSent[j].device # e
        <5>1. j \in (i + 1)..(m + n) /\ j \in 1..m
          BY <3>3, <4>1
        <5>2. QED
          BY <1>8, <3>6, <5>1
      <4>3. oSent[i].what = "arrived" <=> e \in oPresent
        BY <2>1, <3>6, <4>1, <4>2
      <4>4. QED
        BY <3>1, <4>1, <4>3
    <3>7. QED
      BY <3>5, <3>6 DEF Follows, late
  <2>4. QED
    BY <2>2, <2>3
<1>17. ObserverFollows'
  BY <1>10, <1>16 DEF ObserverFollows
<1>18. QED
  BY <1>11, <1>15, <1>17 DEF ObserverInv

\* A registration tells of the devices that are there.
LEMMA RegisterKeeps ==
  ASSUME ObserverInv, Observer!Register
  PROVE  ObserverInv'
<1> DEFINE s == Head(oAsked)
<1>1. /\ oState = "notifications" /\ oState' = oState
      /\ UNCHANGED <<oPresent, oWindow, oUserData, oSent, oTimer, oFatal>>
  BY DEF Observer!Register
<1>2. CASE UNCHANGED <<oNotifications, oTold>>
  BY <1>1, <1>2, ObserverRests DEF ObserverInv, ObserverTypes, ObserverListens
<1> HIDE DEF s
<1>3. ASSUME NEW x \in Kinds \cup {"null"}, oNotifications' = Append(oNotifications, x)
      PROVE  /\ oNotifications' \in Seq(Kinds \cup {"null"})
             /\ Observer!Registered' = Observer!Registered \cup ({x} \ {"null"})
  <2>1. /\ oNotifications \in Seq(Kinds \cup {"null"})
        /\ oNotifications' \in Seq(Kinds \cup {"null"})
        /\ Len(oNotifications) \in Nat /\ Len(oNotifications') = Len(oNotifications) + 1
        /\ \A i \in 1..Len(oNotifications) : oNotifications'[i] = oNotifications[i]
        /\ oNotifications'[Len(oNotifications) + 1] = x
    BY <1>3, AppendProperties, LenProperties DEF ObserverInv, ObserverTypes
  <2> DEFINE k == Len(oNotifications)
             late == oNotifications'
  <2>2. k \in Nat /\ Len(late) = k + 1 /\ (\A i \in 1..k : late[i] = oNotifications[i])
        /\ late[k + 1] = x /\ late \in Seq(Kinds \cup {"null"})
    BY <2>1
  <2>3. \A y : y \in Observer!Range(late) <=> \E i \in 1..Len(late) : late[i] = y
    BY <2>2, RegisteredOf
  <2>4. \A y : y \in Observer!Range(oNotifications) <=> \E i \in 1..k : oNotifications[i] = y
    BY <2>1, RegisteredOf
  <2> HIDE DEF k, late
  <2>5. \A i \in 1..(k + 1) : i \in 1..k \/ i = k + 1
    BY <2>2
  <2>6. k + 1 \in 1..(k + 1) /\ \A i \in 1..k : i \in 1..(k + 1)
    BY <2>2
  <2>7. \A y : y \in Observer!Range(late) <=> y \in Observer!Range(oNotifications) \/ y = x
    BY <2>2, <2>3, <2>4, <2>5, <2>6
  <2>8. Observer!Range(oNotifications)' = Observer!Range(late)
    BY DEF late, Observer!Range
  <2>9. QED
    BY <2>1, <2>7, <2>8 DEF Observer!Registered
<1>4. CASE oNotifications' = Append(oNotifications, "null") /\ UNCHANGED oTold
  <2>1. oNotifications' \in Seq(Kinds \cup {"null"}) /\ Observer!Registered' = Observer!Registered
    BY <1>3, <1>4
  <2>2. ObserverTypes'
    BY <1>1, <1>4, <2>1 DEF ObserverInv, ObserverTypes
  <2>3. ObserverListens'
    BY <1>1, <1>4, <2>1 DEF ObserverInv, ObserverListens
  <2>4. ObserverFollows'
    BY <1>1, <1>4, <2>1 DEF ObserverInv, ObserverFollows, Follows
  <2>5. QED
    BY <2>2, <2>3, <2>4 DEF ObserverInv
<1>5. CASE /\ s \in Kinds /\ oWindow # "none" /\ oNotifications' = Append(oNotifications, s)
           /\ oTold' = oTold \cup (oPresent \cap Observer!Of({s} \ Observer!Registered))
  <2>1. oNotifications' \in Seq(Kinds \cup {"null"})
        /\ Observer!Registered' = Observer!Registered \cup {s}
    <3>1. "null" \notin Kinds
      BY DEF Kinds
    <3>2. QED
      BY <1>3, <1>5, <3>1
  <2>2. \A d \in Plugs :
          d \in oTold' <=> \/ d \in oTold
                           \/ d \in oPresent /\ Kind(d) = s /\ s \notin Observer!Registered
    BY <1>5 DEF Observer!Of, Plugs, Kind
  <2>3. oTold' \subseteq Plugs
    BY <1>5 DEF ObserverInv, ObserverTypes
  <2>4. ObserverTypes'
    BY <1>1, <2>1, <2>3 DEF ObserverInv, ObserverTypes
  <2>5. \A i \in 1..Len(oSent) : Kind(oSent[i].device) \in Observer!Registered
    BY DEF ObserverInv, ObserverListens
  <2>6. \A d \in oTold : d \in Plugs /\ Kind(d) \in Observer!Registered
    BY <1>1 DEF ObserverInv, ObserverListens, ObserverTypes
  <2>7. ObserverListens'
    <3>1. oUserData = TRUE /\ oFatal = FALSE
      BY <1>1, <1>5 DEF ObserverInv, ObserverListens
    <3>2. \A d \in oTold' : Kind(d) \in Observer!Registered'
      BY <2>1, <2>2, <2>3, <2>6
    <3>3. \A i \in 1..Len(oSent') : Kind(oSent'[i].device) \in Observer!Registered'
      BY <1>1, <2>1, <2>5
    <3>4. QED
      BY <1>1, <1>5, <3>1, <3>2, <3>3 DEF ObserverListens
  <2>8. ASSUME NEW d \in Plugs, Kind(d) \in Observer!Registered' PROVE Follows(d)'
    <3>1. CASE Kind(d) \in Observer!Registered
      <4>1. Follows(d) /\ (d \in oTold' <=> d \in oTold)
        BY <2>2, <3>1 DEF ObserverInv, ObserverFollows
      <4>2. QED
        BY <1>1, <4>1 DEF Follows
    <3>2. CASE Kind(d) \notin Observer!Registered
      <4>1. Kind(d) = s /\ d \notin oTold /\ \A i \in 1..Len(oSent) : oSent[i].device # d
        BY <2>1, <2>5, <2>6, <2>8, <3>2
      <4>2. d \in oTold' <=> d \in oPresent
        BY <2>2, <3>2, <4>1
      <4>3. QED
        BY <1>1, <4>1, <4>2 DEF Follows
    <3>3. QED
      BY <3>1, <3>2
  <2>9. ObserverFollows'
    BY <2>8 DEF ObserverFollows
  <2>10. QED
    BY <2>4, <2>7, <2>9 DEF ObserverInv
<1>6. QED
  <2>1. \/ UNCHANGED <<oNotifications, oTold>>
        \/ oNotifications' = Append(oNotifications, "null") /\ UNCHANGED oTold
        \/ /\ s \in Kinds /\ oWindow # "none" /\ oNotifications' = Append(oNotifications, s)
           /\ oTold' = oTold \cup (oPresent \cap Observer!Of({s} \ Observer!Registered))
    BY DEF Observer!Register, s, Kinds
  <2>2. QED
    BY <1>2, <1>4, <1>5, <2>1

\* A message that is received tells of the device, unless a later one will.
LEMMA NotifyKeeps ==
  ASSUME ObserverInv, Observer!Notify
  PROVE  ObserverInv'
<1> DEFINE m == Head(oSent)
           n == Len(oSent)
           late == oSent'
<1>1. /\ oSent \in Seq(Message) /\ oSent # <<>> /\ oSent' = Tail(oSent) /\ oState = "polling"
      /\ UNCHANGED <<oPresent, oState, oWindow, oUserData, oNotifications, oTimer>>
  BY DEF Observer!Notify, Observer!object, ObserverInv, ObserverTypes
<1>2. /\ m \in Message /\ oSent' \in Seq(Message) /\ m = oSent[1]
      /\ Len(oSent) \in Nat \ {0} /\ Len(oSent') = Len(oSent) - 1
      /\ \A i \in 1..Len(oSent') : oSent'[i] = oSent[i + 1]
  BY <1>1, HeadTailProperties, EmptySeq
<1>3. /\ n \in Nat \ {0} /\ Len(late) = n - 1 /\ m = oSent[1]
      /\ \A i \in 1..Len(late) : late[i] = oSent[i + 1]
  BY <1>2
<1> HIDE DEF late, n
<1>4. 1 \in 1..n /\ \A i \in 1..(n - 1) : i + 1 \in 1..n
  BY <1>3
<1>5. /\ Observer!Registered' = Observer!Registered
      /\ \A i \in 1..n : Kind(oSent[i].device) \in Observer!Registered
      /\ \A d \in oTold : Kind(d) \in Observer!Registered
      /\ oFatal = FALSE
  BY <1>1 DEF Observer!Registered, Observer!Range, ObserverInv, ObserverListens, n
<1>6. m.device \in Plugs /\ m.what \in {"arrived", "removed"} /\ m.what # "nodes_changed"
      /\ Kind(m.device) \in Observer!Registered
  BY <1>2, <1>3, <1>4, <1>5 DEF Message
<1>7. oUserData = TRUE
  BY <1>6 DEF ObserverInv, ObserverListens
<1>8. /\ oTold' = IF m.what = "arrived" THEN oTold \cup {m.device} ELSE oTold \ {m.device}
      /\ UNCHANGED oFatal
  BY <1>6, <1>7 DEF Observer!Notify
<1> HIDE DEF m
<1>9. ObserverTypes'
  BY <1>1, <1>2, <1>6, <1>8 DEF ObserverInv, ObserverTypes
<1>10. \A i \in 1..Len(late) : Kind(late[i].device) \in Observer!Registered
  BY <1>3, <1>4, <1>5
<1>11. ObserverListens'
  <2>1. \A i \in 1..Len(oSent') : Kind(oSent'[i].device) \in Observer!Registered'
    BY <1>5, <1>10 DEF late
  <2>2. \A d \in oTold' : Kind(d) \in Observer!Registered'
    BY <1>5, <1>6, <1>8
  <2>3. QED
    BY <1>1, <1>5, <1>8, <2>1, <2>2 DEF ObserverInv, ObserverListens
<1>12. ASSUME NEW d \in Plugs, Kind(d) \in Observer!Registered PROVE Follows(d)'
  <2>1. /\ (\A i \in 1..n : oSent[i].device # d) => (d \in oTold <=> d \in oPresent)
        /\ \A i \in 1..n :
             oSent[i].device = d /\ (\A j \in (i + 1)..n : oSent[j].device # d) =>
               (oSent[i].what = "arrived" <=> d \in oPresent)
    BY <1>12 DEF ObserverInv, ObserverFollows, Follows, n
  <2>2. ASSUME \A i \in 1..Len(late) : late[i].device # d PROVE d \in oTold' <=> d \in oPresent
    <3>1. ASSUME NEW j \in (1 + 1)..n PROVE oSent[j].device # d
      <4>1. j - 1 \in 1..Len(late) /\ (j - 1) + 1 = j
        BY <1>3
      <4>2. QED
        BY <1>3, <2>2, <4>1
    <3>2. CASE m.device = d
      <4>1. m.what = "arrived" <=> d \in oPresent
        BY <1>3, <1>4, <2>1, <3>1, <3>2
      <4>2. QED
        BY <1>8, <3>2, <4>1
    <3>3. CASE m.device # d
      <4>1. ASSUME NEW i \in 1..n PROVE oSent[i].device # d
        <5>1. i = 1 \/ i \in (1 + 1)..n
          BY <1>3
        <5>2. QED
          BY <1>3, <3>1, <3>3, <5>1
      <4>2. QED
        BY <1>8, <2>1, <3>3, <4>1
    <3>4. QED
      BY <3>2, <3>3
  <2>3. ASSUME NEW i \in 1..Len(late), late[i].device = d,
               \A j \in (i + 1)..Len(late) : late[j].device # d
        PROVE  late[i].what = "arrived" <=> d \in oPresent
    <3>1. i \in 1..(n - 1) /\ i + 1 \in 1..n /\ late[i] = oSent[i + 1]
      BY <1>3, <1>4
    <3>2. ASSUME NEW j \in ((i + 1) + 1)..n PROVE oSent[j].device # d
      <4>1. j - 1 \in (i + 1)..Len(late) /\ j - 1 \in 1..Len(late) /\ (j - 1) + 1 = j
        BY <1>3
      <4>2. QED
        BY <1>3, <2>3, <4>1
    <3>3. QED
      BY <2>1, <2>3, <3>1, <3>2
  <2>4. QED
    BY <1>1, <2>2, <2>3 DEF Follows, late
<1>13. ObserverFollows'
  BY <1>5, <1>12 DEF ObserverFollows
<1>14. QED
  BY <1>9, <1>11, <1>13 DEF ObserverInv

LEMMA ObserverStep == ASSUME ObserverInv, Observer!Next PROVE ObserverInv'
<1>1. CASE Observer!NodesChanged
  <2>1. oWindow # "top_level"
    BY DEF ObserverInv, ObserverTypes
  <2>2. /\ UNCHANGED <<oPresent, oState, oWindow, oUserData, oNotifications, oSent, oTimer, oTold, oFatal>>
    BY <1>1, <2>1 DEF Observer!NodesChanged, Observer!object
  <2>3. Observer!Registered' = Observer!Registered
    BY <2>2 DEF Observer!Registered, Observer!Range
  <2>4. ObserverTypes' /\ ObserverListens'
    BY <2>2, <2>3 DEF ObserverInv, ObserverTypes, ObserverListens
  <2>5. ObserverFollows'
    BY <2>2, <2>3 DEF ObserverInv, ObserverFollows, Follows
  <2>6. QED
    BY <2>4, <2>5 DEF ObserverInv
<1>2. oState \in {"window", "user_data"} => Observer!Registered = {} /\ oNotifications = <<>>
  BY DEF ObserverInv, ObserverListens, Observer!Registered, Observer!Range
<1>3. oTimer \in {"none", "set", "thread"} /\ oWindow \in {"none", "message_only"}
  BY DEF ObserverInv, ObserverTypes
<1>4. CASE Observer!CreateWindow
  <2>1. /\ oState = "window" /\ oWindow' \in {"none", "message_only"}
        /\ oState' \in {"user_data", "thrown", "idle"}
        /\ UNCHANGED <<oPresent, oNotifications, oSent, oTimer, oTold, oFatal>>
    BY <1>4 DEF Observer!CreateWindow, Observer!Rest
  <2>2. QED
    BY <1>2, <1>3, <2>1, ObserverRests
<1>5. CASE Observer!SetUserData
  <2>1. /\ oState = "user_data" /\ oState' = "notifications" /\ oWindow' = oWindow
        /\ (oWindow # "none" => oUserData' = TRUE)
        /\ UNCHANGED <<oPresent, oNotifications, oSent, oTimer, oTold, oFatal>>
    BY <1>5 DEF Observer!SetUserData, Observer!Rest
  <2>2. QED
    BY <1>2, <1>3, <2>1, ObserverRests
<1>6. ASSUME oState \in {"notifications", "idle", "polling"}, oState' \in {"idle", "polling"},
             oTimer' \in {"none", "set", "thread"},
             UNCHANGED <<oPresent, oWindow, oUserData, oNotifications, oSent, oTold, oFatal>>
      PROVE  ObserverInv'
  BY <1>3, <1>6, ObserverRests
<1>7. CASE Observer!Constructed
  BY <1>3, <1>6, <1>7 DEF Observer!Constructed, Observer!Rest
<1>8. CASE Observer!PollBegins
  BY <1>3, <1>6, <1>8 DEF Observer!PollBegins
<1>9. CASE Observer!PollReturns
  BY <1>3, <1>6, <1>9 DEF Observer!PollReturns
<1>10. CASE Observer!Destroy
  <2>1. /\ oState' = "gone" /\ oNotifications' = <<>> /\ oWindow' = "none" /\ oSent' = <<>>
        /\ oTimer' = "none" /\ UNCHANGED <<oPresent, oTold, oFatal>>
    BY <1>10 DEF Observer!Destroy
  <2>2. Observer!Registered' = {}
    BY <2>1 DEF Observer!Registered, Observer!Range
  <2>3. ObserverTypes'
    BY <2>1 DEF ObserverInv, ObserverTypes
  <2>4. ObserverListens'
    BY <2>1, <2>2 DEF ObserverInv, ObserverListens
  <2>5. ObserverFollows'
    BY <2>2 DEF ObserverFollows
  <2>6. QED
    BY <2>3, <2>4, <2>5 DEF ObserverInv
<1>11. QED
  BY <1>1, <1>4, <1>5, <1>7, <1>8, <1>9, <1>10, DeviceChangesKeep, RegisterKeeps, NotifyKeeps
     DEF Observer!Next

LEMMA ObserverTold ==
  ObserverInv => Observer!TypeOK /\ Observer!DevicesAreFollowed
<1> SUFFICES ASSUME ObserverInv PROVE Observer!TypeOK /\ Observer!DevicesAreFollowed
  OBVIOUS
<1>1. Observer!Registered \subseteq Kinds
  <2>1. \A y \in Observer!Range(oNotifications) : y \in Kinds \cup {"null"}
    BY RegisteredOf, ElementOfSeq DEF ObserverInv, ObserverTypes
  <2>2. QED
    BY <2>1 DEF Observer!Registered
<1>2. Observer!TypeOK
  BY <1>1 DEF Observer!TypeOK, ObserverInv, ObserverTypes, ObserverListens, Plugs, Kinds
<1>3. \A d \in Observer!Of(Observer!Registered) : d \in Plugs /\ Kind(d) \in Observer!Registered
  BY DEF Observer!Of, Plugs, Kind
<1>4. QED
  BY <1>2, <1>3 DEF Observer!DevicesAreFollowed, ObserverInv, ObserverListens, ObserverFollows, Follows
-----------------------------------------------------------------------------
(* The monitor, of which Win32Monitor_proofs speaks.                       *)

MonitorProofs == INSTANCE Win32Monitor_proofs WITH
  Path <- {"sub", "a", "b"}, Dir <- {"sub"},
  Parent <- [p \in {"sub", "a", "b"} |-> IF p = "b" THEN "sub" ELSE "top"],
  Action <- {"modified", "removed"},
  exists <- mExists, handles <- mHandles, filter <- mFilter, reading <- mReading,
  signalled <- mSignalled, kernel <- mKernel, lost <- mLost, buffer <- mBuffer, pc <- mPc,
  current <- mCurrent, at <- mAt, deaf <- mDeaf, excused <- mExcused,
  adds <- mAdds, faults <- mFaults

LEMMA MonitorStart == ASSUME MaxRecords \in Nat, Monitor!Init PROVE MonitorProofs!IInv
<1>1. MonitorProofs!Init
  BY DEF Monitor!Init, MonitorProofs!Init, Monitor!Parents, MonitorProofs!Parents
<1>2. MonitorProofs!Paths
  BY DEF MonitorProofs!Paths, MonitorProofs!Parents
<1>3. QED
  BY <1>1, <1>2, MonitorProofs!InitIInv

LEMMA SameMonitor ==
  ASSUME Monitor!Next \/ UNCHANGED mVars
  PROVE  [MonitorProofs!Next]_(MonitorProofs!vars)
<1>1. UNCHANGED mVars => UNCHANGED MonitorProofs!vars
  BY DEF mVars, MonitorProofs!vars, MonitorProofs!systemVars, MonitorProofs!entryVars,
         MonitorProofs!readVars, MonitorProofs!history
<1>2. Monitor!Next => MonitorProofs!Next
  <2> USE DEF Monitor!systemVars, MonitorProofs!systemVars, Monitor!entryVars,
              MonitorProofs!entryVars, Monitor!readVars, MonitorProofs!readVars,
              Monitor!history, MonitorProofs!history, Monitor!Fault, MonitorProofs!Fault
  <2>1. Monitor!Watched = MonitorProofs!Watched
    BY DEF Monitor!Watched, MonitorProofs!Watched, Monitor!Range, MonitorProofs!Range
  <2>2. Monitor!Change => MonitorProofs!Change
    BY <2>1 DEF Monitor!Change, MonitorProofs!Change, Monitor!Record, MonitorProofs!Record
  <2>3. \A p : Monitor!Missing(p) = MonitorProofs!Missing(p)
    BY <2>1 DEF Monitor!Missing, MonitorProofs!Missing
  <2>4. ASSUME NEW p, NEW n, Monitor!MakeEntries(p, n) PROVE MonitorProofs!MakeEntries(p, n)
    <3> DEFINE missing == Monitor!Missing(p)
    <3>1. missing = MonitorProofs!Missing(p)
      BY <2>3
    <3> HIDE DEF missing
    <3>2. /\ mHandles' = mHandles \o SubSeq(missing, 1, n)
          /\ mReading' = [d \in Monitor!Parents |->
                            IF d \in Monitor!Range(SubSeq(missing, 1, n)) THEN "pending"
                            ELSE mReading[d]]
      BY <2>4 DEF Monitor!MakeEntries, missing
    <3>3. QED
      BY <3>1, <3>2 DEF MonitorProofs!MakeEntries, Monitor!Parents, MonitorProofs!Parents,
                        Monitor!Range, MonitorProofs!Range
  <2>5. \A p : (Monitor!Add(p) => MonitorProofs!Add(p))
               /\ (Monitor!AddFails(p) => MonitorProofs!AddFails(p))
    BY <2>3, <2>4 DEF Monitor!Add, MonitorProofs!Add, Monitor!AddFails, MonitorProofs!AddFails
  <2>6. Monitor!Poll => MonitorProofs!Poll
    BY DEF Monitor!Poll, MonitorProofs!Poll, Monitor!Wait, MonitorProofs!Wait, Monitor!Skip,
           MonitorProofs!Skip, Monitor!Dispatch, MonitorProofs!Dispatch,
           Monitor!CallbackReturns, MonitorProofs!CallbackReturns, Monitor!Reread,
           MonitorProofs!Reread, Monitor!ReadDirChanges, MonitorProofs!ReadDirChanges,
           Monitor!Monitored, MonitorProofs!Monitored, Monitor!Entry, MonitorProofs!Entry
  <2>7. /\ Monitor!CallbackThrows => MonitorProofs!CallbackThrows
        /\ Monitor!RereadFails => MonitorProofs!RereadFails
        /\ Monitor!Destroy => MonitorProofs!Destroy
    BY DEF Monitor!CallbackThrows, MonitorProofs!CallbackThrows, Monitor!RereadFails,
           MonitorProofs!RereadFails, Monitor!Destroy, MonitorProofs!Destroy,
           Monitor!Parents, MonitorProofs!Parents
  <2>8. QED
    BY <2>2, <2>5, <2>6, <2>7 DEF Monitor!Next, MonitorProofs!Next
<1>3. QED
  BY <1>1, <1>2

LEMMA MonitorStep ==
  ASSUME MaxRecords \in Nat, MonitorProofs!IInv, Monitor!Next \/ UNCHANGED mVars
  PROVE  MonitorProofs!IInv'
<1>1. MonitorProofs!Paths
  BY DEF MonitorProofs!Paths, MonitorProofs!Parents
<1>2. QED
  BY <1>1, SameMonitor, MonitorProofs!NextIInv

\* The two instances have the same feeds.
LEMMA SameFeeds ==
  /\ MonitorProofs!Feed!Init => Monitor!Feed!Init
  /\ [MonitorProofs!Feed!Next]_(MonitorProofs!Feed!vars) => [Monitor!Feed!Next]_(Monitor!Feed!vars)
BY DEF MonitorProofs!Feed!Init, Monitor!Feed!Init, MonitorProofs!Feed!vars, Monitor!Feed!vars,
       MonitorProofs!Feed!Next, Monitor!Feed!Next, MonitorProofs!Feed!Change,
       Monitor!Feed!Change, MonitorProofs!Feed!LookAt, Monitor!Feed!LookAt,
       MonitorProofs!Feed!Repeat, Monitor!Feed!Repeat, MonitorProofs!Feed!Watch,
       Monitor!Feed!Watch, MonitorProofs!Feed!Stop, Monitor!Feed!Stop,
       MonitorProofs!Feed!Becomes, Monitor!Feed!Becomes, MonitorProofs!Feed!Break,
       Monitor!Feed!Break, MonitorProofs!Feed!Directory, Monitor!Feed!Directory,
       MonitorProofs!Feed!IsPrefix, Monitor!Feed!IsPrefix, MonitorProofs!Feed!IsSuffix,
       Monitor!Feed!IsSuffix, MonitorProofs!Feed!Reverse, Monitor!Feed!Reverse,
       MonitorProofs!Parents, Monitor!Parents, MonitorProofs!Watched, Monitor!Watched,
       MonitorProofs!Range, Monitor!Range, MonitorProofs!Ahead, Monitor!Ahead

LEMMA FeedStart ==
  ASSUME Monitor!Init
  PROVE  MonitorProofs!Buffers /\ Monitor!Feed!Init
<1>1. MonitorProofs!Init
  BY DEF Monitor!Init, MonitorProofs!Init, Monitor!Parents, MonitorProofs!Parents
<1>2. QED
  BY <1>1, SameFeeds, MonitorProofs!InitBuffers, MonitorProofs!InitFeeds

LEMMA FeedStep ==
  ASSUME MaxRecords \in Nat, MonitorProofs!IInv, MonitorProofs!Buffers,
         Monitor!Next \/ UNCHANGED mVars
  PROVE  MonitorProofs!Buffers' /\ [Monitor!Feed!Next]_(Monitor!Feed!vars)
<1>1. MonitorProofs!Paths
  BY DEF MonitorProofs!Paths, MonitorProofs!Parents
<1>2. QED
  BY <1>1, SameMonitor, SameFeeds, MonitorProofs!NextBuffers, MonitorProofs!NextFeeds

LEMMA MonitorHears ==
  MonitorProofs!IInv => Monitor!TypeOK /\ Monitor!NoDeafDirectory
<1>1. MonitorProofs!TypeOK => Monitor!TypeOK
  BY DEF Monitor!TypeOK, MonitorProofs!TypeOK, Monitor!Parents, MonitorProofs!Parents,
         Monitor!IsInjective, MonitorProofs!IsInjective, Monitor!Records, MonitorProofs!Records
<1>2. MonitorProofs!ReadsAndEvents => Monitor!NoDeafDirectory
  BY DEF Monitor!NoDeafDirectory, MonitorProofs!ReadsAndEvents, Monitor!Watched,
         MonitorProofs!Watched, Monitor!Range, MonitorProofs!Range
<1>3. QED
  BY <1>1, <1>2 DEF MonitorProofs!IInv
-----------------------------------------------------------------------------
(* The named mutex.  The type invariant carries the one fact needed: an     *)
(* instance has a handle exactly while it is the first one or has not       *)
(* closed its duplicate yet.  Hence the object exists whenever there is a   *)
(* first instance, and CreateMutex() cannot make it.                        *)

\* Every step keeps the values of the variables in their sets and the handles
\* where they belong.
LEMMA NextTypeOK == TypeOK /\ [Next]_vars => TypeOK'
<1> SUFFICES ASSUME TypeOK, [Next]_vars PROVE TypeOK'
  OBVIOUS
<1> USE WinConstantsAssumption DEF TypeOK, Goto
<1>1. ASSUME NEW p \in Instance, Create(p) PROVE TypeOK'
  BY <1>1 DEF Create
<1>2. ASSUME NEW p \in Instance, OpenExisting(p) PROVE TypeOK'
  BY <1>2 DEF OpenExisting
<1>3. ASSUME NEW p \in Instance, CreateFails(p) PROVE TypeOK'
  BY <1>3 DEF CreateFails
<1>4. ASSUME NEW p \in Instance, Reject(p) PROVE TypeOK'
  BY <1>4 DEF Reject
<1>5. ASSUME NEW p \in Instance, Destroy(p) PROVE TypeOK'
  BY <1>5 DEF Destroy
<1>6. ASSUME NEW p \in Instance, Exit(p) PROVE TypeOK'
  BY <1>6 DEF Exit
<1>7. ASSUME NEW p \in Instance, Crash(p) PROVE TypeOK'
  BY <1>7 DEF Crash
<1>8. CASE UNCHANGED vars
  BY <1>8 DEF vars
<1>9. QED
  BY <1>1, <1>2, <1>3, <1>4, <1>5, <1>6, <1>7, <1>8 DEF Next

\* The values of the variables, and who has a handle.
LEMMA MutexTypes == Spec => []TypeOK
<1>1. Init => TypeOK
  BY WinConstantsAssumption DEF Init, TypeOK
<1>2. QED
  BY <1>1, NextTypeOK, PTL DEF Spec

\* Every step is one of the abstract specification, or leaves it unchanged.
LEMMA StepImplements ==
  ASSUME TypeOK, [Next]_vars
  PROVE  [Promise!Next]_First
<1> USE DEF TypeOK, Goto, First
<1>1. ASSUME NEW p \in Instance, Create(p) PROVE Promise!Enter(p)
  <2>1. First = {}
    BY <1>1 DEF Create, MutexExists
  <2>2. First' = {p}
    BY <1>1, <2>1 DEF Create
  <2>3. QED
    BY <2>1, <2>2 DEF Promise!Enter
<1>2. ASSUME NEW p \in Instance,
             OpenExisting(p) \/ CreateFails(p) \/ Reject(p) \/ Exit(p)
      PROVE  First' = First
  BY <1>2 DEF OpenExisting, CreateFails, Reject, Exit
<1>3. ASSUME NEW p \in Instance, Destroy(p) \/ Crash(p)
      PROVE  First' = First \/ Promise!Leave(p)
  <2>1. First' = First \ {p}
    BY <1>3 DEF Destroy, Crash
  <2>2. QED
    BY <2>1 DEF Promise!Leave
<1>4. CASE UNCHANGED vars
  BY <1>4 DEF vars
<1>5. QED
  BY <1>1, <1>2, <1>3, <1>4 DEF Next, Promise!Next
-----------------------------------------------------------------------------
(* The program that has any one of them.                                   *)

\* What the system and the services do is counted, and they give times.
Limits == Times /\ MaxRecords \in Nat

WindowsInv ==
  /\ TypeOK /\ MonitorProofs!IInv /\ ObserverInv /\ ServiceTypes /\ ServiceHandles
  /\ EndpointsInv /\ EndpointsTold /\ CamerasInv /\ CamerasTold

LEMMA WindowsStart == ASSUME Limits, MCInit PROVE WindowsInv
<1>1. TypeOK
  BY WinConstantsAssumption DEF MCInit, Init, TypeOK
<1>2. QED
  BY <1>1, MonitorStart, ObserverStart, ServiceStart, EndpointsStart, CamerasStart,
         EndpointsToldStart, CamerasToldStart
     DEF MCInit, Only, WindowsInv, Limits

LEMMA WindowsStep == ASSUME Limits, WindowsInv, [MCNext]_allVars PROVE WindowsInv'
<1>1. [Next]_vars /\ (Monitor!Next \/ UNCHANGED mVars) /\ (Observer!Next \/ UNCHANGED oVars)
      /\ (Control!Next \/ UNCHANGED sVars) /\ (Endpoints!Next \/ UNCHANGED eVars)
      /\ (Cameras!Next \/ UNCHANGED cVars)
  BY DEF MCNext, allVars, MutexMoves, MonitorMoves, ObserverMoves, ServiceMoves, EndpointsMove,
         CamerasMove
<1>2. TypeOK'
  BY <1>1, NextTypeOK DEF WindowsInv
<1>3. MonitorProofs!IInv'
  BY <1>1, MonitorStep DEF WindowsInv, Limits
<1>4. ObserverInv'
  <2>1. UNCHANGED oVars => ObserverInv'
    BY DEF WindowsInv, oVars, ObserverInv, ObserverTypes, ObserverListens, ObserverFollows,
           Follows, Observer!Registered, Observer!Range
  <2>2. QED
    BY <1>1, <2>1, ObserverStep DEF WindowsInv
<1>5. ServiceTypes' /\ ServiceHandles'
  <2>1. UNCHANGED sVars => ServiceTypes' /\ ServiceHandles'
    BY DEF WindowsInv, sVars, ServiceTypes, ServiceHandles
  <2>2. QED
    BY <1>1, <2>1, ServiceStep DEF WindowsInv, Limits
<1>6. EndpointsInv'
  <2>1. UNCHANGED eVars => EndpointsInv'
    BY DEF WindowsInv, eVars, EndpointsInv, EndpointTypes, EndpointHandles, EndpointCounts
  <2>2. QED
    BY <1>1, <2>1, EndpointsStep DEF WindowsInv
<1>7. CamerasInv'
  <2>1. UNCHANGED cVars => CamerasInv'
    BY DEF WindowsInv, cVars, CamerasInv, CameraTypes, CameraHandles, Cameras!Now,
           LibrariesUp, Cameras!EverythingIsReleased
  <2>2. QED
    BY <1>1, <2>1, CamerasStep DEF WindowsInv
<1>8. EndpointsTold'
  <2>1. UNCHANGED eVars => EndpointsTold'
    BY DEF WindowsInv, eVars, EndpointsTold, PassedEndpoints, Readable
  <2>2. QED
    BY <1>1, <2>1, EndpointsToldStep DEF WindowsInv
<1>9. CamerasTold'
  <2>1. UNCHANGED cVars => CamerasTold'
    BY DEF WindowsInv, cVars, CamerasTold, ListRight, FormatsRight, FormatsHad, Cameras!Now
  <2>2. QED
    BY <1>1, <2>1, CamerasToldStep DEF WindowsInv
<1>10. QED
  BY <1>2, <1>3, <1>4, <1>5, <1>6, <1>7, <1>8, <1>9 DEF WindowsInv

LEMMA WindowsInvariant == ASSUME Limits PROVE MCSpec => []WindowsInv
BY WindowsStart, WindowsStep, PTL DEF MCSpec

LEMMA StopInvariant == ASSUME Limits, Patience PROVE MCSpec => [](WindowsInv /\ ServiceTimes)
<1>1. MCInit => WindowsInv /\ ServiceTimes
  BY WindowsStart, TimesStart DEF MCInit, Only, Limits
<1>2. WindowsInv /\ ServiceTimes /\ [MCNext]_allVars => (WindowsInv /\ ServiceTimes)'
  <2> SUFFICES ASSUME WindowsInv, ServiceTimes, [MCNext]_allVars PROVE WindowsInv' /\ ServiceTimes'
    OBVIOUS
  <2>1. Control!Next \/ UNCHANGED sVars
    BY DEF MCNext, allVars, MutexMoves, MonitorMoves, ObserverMoves, ServiceMoves,
           EndpointsMove, CamerasMove
  <2>2. UNCHANGED sVars => ServiceTimes'
    BY DEF sVars, ServiceTimes, Control!Since
  <2>3. Control!Next => ServiceTimes'
    BY TimesStep DEF WindowsInv, Limits
  <2>4. QED
    BY <2>1, <2>2, <2>3, WindowsStep
<1>3. QED
  BY <1>1, <1>2, PTL DEF MCSpec

\* The named mutex implements SingleInstance, for any number of instances and of
\* crashes: at most one instance at a time is told that it is the first one.
THEOREM MutexImplements == MCSpec => ImplementsSingleInstance
<1>1. MCInit => Init /\ Promise!Init
  BY DEF MCInit, Init, Promise!Init, First
<1>2. [MCNext]_allVars => [Next]_vars
  BY DEF MCNext, allVars, MutexMoves, MonitorMoves, ObserverMoves, ServiceMoves, EndpointsMove,
         CamerasMove
<1>3. TypeOK /\ [Next]_vars => [Promise!Next]_First
  BY StepImplements
<1>4. QED
  BY <1>1, <1>2, <1>3, MutexTypes, PTL
     DEF MCSpec, Spec, ImplementsSingleInstance, Promise!Spec

\* Each part keeps the types of its variables, whatever fails.
THEOREM TypesCorrect == ASSUME Limits PROVE MCSpec => []TypesOK
<1>1. WindowsInv => TypesOK
  BY MonitorHears, ObserverTold, ServiceReleased, EndpointsReleased, CamerasReleased
     DEF Limits, WindowsInv, TypesOK
<1>2. QED
  BY <1>1, WindowsInvariant, PTL

\* However the changes, the calls of add() and poll(), their failures and the
\* exceptions of callbacks interleave, a directory the monitor watches is heard of
\* by the next poll(), unless poll() has said that it cannot read it
\* (win32.cpp:228-336).
THEOREM NobodyIsDeaf == ASSUME Limits PROVE MCSpec => []NoDeafDirectory
<1>1. WindowsInv => NoDeafDirectory
  BY MonitorHears DEF WindowsInv, NoDeafDirectory
<1>2. QED
  BY <1>1, WindowsInvariant, PTL

\* The changes of each directory reach the application in their order, once, and
\* none is lost from the middle, through reads that complete at once, records that
\* wait in the system, overflows and exceptions of callbacks (win32.cpp:228-336).
THEOREM FeedImplemented == ASSUME Limits PROVE MCSpec => ImplementsChangeFeed
<1>1. MCInit => MonitorProofs!Buffers /\ Monitor!Feed!Init
  BY FeedStart DEF MCInit, Only
<1>2. WindowsInv /\ MonitorProofs!Buffers /\ [MCNext]_allVars =>
        MonitorProofs!Buffers' /\ [Monitor!Feed!Next]_(Monitor!Feed!vars)
  <2>1. [MCNext]_allVars => Monitor!Next \/ UNCHANGED mVars
    BY DEF MCNext, allVars, MutexMoves, MonitorMoves, ObserverMoves, ServiceMoves,
           EndpointsMove, CamerasMove
  <2>2. QED
    BY <2>1, FeedStep DEF WindowsInv, Limits
<1>3. QED
  BY <1>1, <1>2, WindowsInvariant, PTL
     DEF MCSpec, ImplementsChangeFeed, Monitor!ImplementsChangeFeed, Monitor!Feed!Spec

\* What the observer has told of the devices it is registered for, with the
\* messages under way, is what is plugged in, and no message finds the window
\* without its observer, for any number of changes (device_observer_win32.cpp:77-124, 240-306).
THEOREM DevicesFollowed == ASSUME Limits PROVE MCSpec => []DevicesAreFollowed
<1>1. WindowsInv => DevicesAreFollowed
  BY ObserverTold DEF WindowsInv, DevicesAreFollowed
<1>2. QED
  BY <1>1, WindowsInvariant, PTL

\* svccontrol, the list of endpoints and the list of capture devices release all
\* they have got, whichever step fails; a library whose start has failed is shut
\* down as well, once too often.
THEOREM EverythingGivenBack == ASSUME Limits PROVE MCSpec => []EverythingIsGivenBack
<1>1. WindowsInv => EverythingIsGivenBack
  BY ServiceReleased, EndpointsReleased, CamerasReleased
     DEF Limits, WindowsInv, EverythingIsGivenBack
<1>2. QED
  BY <1>1, WindowsInvariant, PTL

\* Whatever calls fail, and whether they are told by an exception, the lists are
\* whole and in the order of the system: of the endpoints those that can be read
\* (device_info_win32.cpp:289-323), of the capture devices those of which no call
\* has failed, with the formats and the current one of each
\* (capture_device_info_win.cpp:445-518).
THEOREM ListsWhole == ASSUME Limits PROVE MCSpec => []ListsAreWhole
<1>1. WindowsInv => ListsAreWhole
  BY EndpointsListed, CamerasListed DEF WindowsInv, ListsAreWhole
<1>2. QED
  BY <1>1, WindowsInvariant, PTL

\* svccontrol stop takes two time-outs and two waits at the most, wherever the tick
\* counter comes around: the time-out of thirty seconds is asked by two functions
\* (service_control.cpp:550, 591, 678), each behind a sleep.
THEOREM StopBounded == ASSUME Limits, Patience PROVE MCSpec => []StopIsBounded
<1>1. WindowsInv /\ ServiceTimes => StopIsBounded
  BY StopEnds DEF Limits, WindowsInv, StopIsBounded
<1>2. QED
  BY <1>1, StopInvariant, PTL
=============================================================================
