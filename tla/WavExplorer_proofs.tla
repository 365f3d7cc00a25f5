---------------------------- MODULE WavExplorer_proofs ----------------------------
(***************************************************************************)
(* What the run calls checks of wav_explorer and wav_spectrum_builder, for *)
(* any files, sizes of chunks and of buffers, and any number of calls.     *)
(*                                                                         *)
(* The properties speak of calls that have returned.  The invariant says   *)
(* what they come from while a call is at work: which chunks have been     *)
(* read (ChunksSoFar), which bytes were given (DataSoFar), and how many    *)
(* frames went into the spectrum (SpectrumSoFar).                          *)
(***************************************************************************)
EXTENDS WavExplorer, FiniteSetTheorems, WellFoundedInduction, TLAPS

\* Where a call is between its begin and its end.
Within == {"header", "chunks", "info", "data"}

\* The records of the model, and what a call has learnt of its file so far.
Records ==
  /\ call \in [op : {"none", "read_header", "decode", "build"}, framesChunk : Nat,
               chunkCount : Nat, step : Nat \cup {AutoStep}]
  /\ info \in [extra : Seq([size : Nat, start : Nat]), start : Nat, size : Nat]

\* A call that goes on has neither failed nor been stopped.
NothingToReport ==
  pc \in Within =>
    /\ errors = 0 /\ ~interrupted /\ ~ctxErr /\ result = "none"
    /\ call.op # "none"
    /\ call.op = "build" => call.chunkCount # 0

\* What has been checked of the file before decode() divides by it.
Checked ==
  /\ pc \in {"chunks", "info", "data"} => file.channels \in {1, 2}
  /\ pc \in {"info", "data"} =>
       /\ call.op \in {"decode", "build"}
       /\ file.blockAlign # 0 /\ file.sampleSize >= 8

\* Before the header is read nothing is known, nor given.
NothingSoFar ==
  /\ pc \in {"header", "chunks"} => info.start = 0
  /\ pc \in {"header", "chunks", "info"} => delivered = 0 /\ entries = 0 /\ frames = 0

\* The chunks that are listed are the first of the file, and the next one is read.
ChunksSoFar ==
  pc \in {"header", "chunks"} /\ Even(file) =>
    LET n == Len(info.extra)
    IN  /\ pc = "header" => n = 0
        /\ pc = "chunks" => n + 1 \in 1..DataChunk(file) /\ pos = StartOf(file, n + 1)
        /\ \A i \in 1..n : info.extra[i] =
             [size |-> file.before[i], start |-> StartOf(file, i) + ChunkHeaderSize]

\* What is given is the data from its begin to where the file is read next, and
\* the buffer is one of frames.
DataSoFar ==
  /\ pc \in {"info", "data"} => pos = info.start + delivered /\ pos <= file.length
  /\ pc = "data" =>
       /\ remain = info.size - delivered
       /\ capacity = 0 => delivered = 0
       /\ \E n \in Nat : capacity = n * FrameBytes(file)
       /\ SampleBytes(file) = 2 => delivered % 2 = 0 \/ pos = file.length

Regular ==
  /\ call.step = 1 /\ file.blockAlign = FrameBytes(file)
  /\ info.size % FrameBytes(file) = 0 /\ info.start + info.size <= file.length

\* What is in the spectrum is what was given, in as many entries as buffers.
SpectrumSoFar ==
  pc = "data" /\ call.op = "build" =>
    /\ call.step \in Nat
    /\ capacity = FramesOfChunk(call.chunkCount) * FrameBytes(file)
    /\ delivered <= entries * capacity
    /\ Regular => delivered = frames * FrameBytes(file)

IInv ==
  /\ TypeOK /\ Records /\ NothingToReport /\ Checked /\ NothingSoFar
  /\ ChunksSoFar /\ HeaderDescribesFile
  /\ DataSoFar /\ DecodedIsData
  /\ FailureIsExplained /\ CrashOnlyIfMalformed
  /\ SpectrumSoFar /\ SpectrumCoversFile

\* A set of numbers has a least one: of the intervals that end in one of them none
\* is within all others.
LEMMA LeastOf == ASSUME NEW I \in SUBSET Nat, I # {} PROVE \E x \in I : \A y \in I : x <= y
<1> DEFINE T == {1..x : x \in I}
           R == StrictSubsetOrdering(Nat)
<1>1. T \subseteq FiniteSubsetsOf(Nat) /\ T # {}
  <2>1. ASSUME NEW x \in I PROVE 1..x \in FiniteSubsetsOf(Nat)
    <3>1. IsFiniteSet(1..x)
      BY FS_Interval
    <3>2. QED
      BY <3>1 DEF FiniteSubsetsOf
  <2>2. QED
    BY <2>1
<1>2. IsWellFoundedOn(R, FiniteSubsetsOf(Nat))
  BY FS_StrictSubsetOrderingWellFounded
<1>3. \E t \in T : \A u \in T : ~(<<u, t>> \in R)
  <2> HIDE DEF T, R
  <2>1. QED
    BY <1>1, <1>2, WFMin
<1>4. PICK x \in I : \A y \in I : ~(<<1..y, 1..x>> \in R)
  BY <1>3
<1>5. ASSUME NEW y \in I, y < x PROVE FALSE
  <2>1. /\ x \in 1..x /\ x \notin 1..y /\ 1..y \subseteq 1..x
        /\ 1..y \in SUBSET Nat /\ 1..x \in SUBSET Nat
    BY <1>5
  <2>2. <<1..y, 1..x>> \in R
    BY <2>1 DEF StrictSubsetOrdering
  <2>3. QED
    BY <1>4, <2>2
<1>6. QED
  BY <1>5

\* A chunk of an even size is not padded.
LEMMA PaddedIsNat == \A n \in Nat : Padded(n) \in Nat /\ (n % 2 = 0 => Padded(n) = n)
BY DEF Padded

\* The positions of the chunks exist: of the chunks that had none, the first would
\* get one from the chunk before it.
LEMMA StartsExist ==
  ASSUME NEW f \in File
  PROVE  \E S \in [1..DataChunk(f) -> Nat] : \A k \in 1..DataChunk(f) :
           S[k] = IF k = 1 THEN HeaderSize + f.fmtExtra
                  ELSE S[k - 1] + ChunkHeaderSize + Padded(f.before[k - 1])
<1> DEFINE Begun(S, k) == IF k = 1 THEN HeaderSize + f.fmtExtra
                          ELSE S[k - 1] + ChunkHeaderSize + Padded(f.before[k - 1])
           Exists(n) == \E S \in [1..n -> Nat] : \A k \in 1..n : S[k] = Begun(S, k)
           I == {n \in 1..DataChunk(f) : ~Exists(n)}
<1>1. /\ f.fmtExtra \in Nat /\ Len(f.before) \in Nat /\ DataChunk(f) \in Nat \ {0}
      /\ \A i \in 1..Len(f.before) : f.before[i] \in Nat
  BY WavAssumption DEF DataChunk
<1>2. ASSUME I # {} PROVE FALSE
  <2>1. PICK n \in I : \A m \in I : n <= m
    <3>1. I \in SUBSET Nat
      BY <1>1
    <3> HIDE DEF I
    <3>2. QED
      BY <1>2, <3>1, LeastOf
  <2>2. CASE n = 1
    <3> DEFINE S1 == [k \in 1..1 |-> HeaderSize + f.fmtExtra]
    <3>1. S1 \in [1..1 -> Nat]
      BY <1>1 DEF HeaderSize
    <3>2. \A k \in 1..1 : S1[k] = Begun(S1, k)
      OBVIOUS
    <3>3. Exists(1)
      BY <3>1, <3>2
    <3>4. QED
      BY <2>1, <2>2, <3>3
  <2>3. CASE n # 1
    <3>1. n - 1 \in 1..DataChunk(f) /\ n \in Nat /\ n - 1 \in 1..Len(f.before)
      BY <1>1, <2>1, <2>3 DEF DataChunk
    <3>2. Exists(n - 1)
      BY <2>1, <3>1
    <3>3. PICK S \in [1..(n - 1) -> Nat] : \A k \in 1..(n - 1) : S[k] = Begun(S, k)
      BY <3>2
    <3> DEFINE p == S[n - 1] + ChunkHeaderSize + Padded(f.before[n - 1])
               S2 == [k \in 1..n |-> IF k = n THEN p ELSE S[k]]
    <3>4. p \in Nat
      <4>1. f.before[n - 1] \in Nat /\ S[n - 1] \in Nat
        BY <1>1, <3>1, <3>3
      <4>2. Padded(f.before[n - 1]) \in Nat
        BY <4>1, PaddedIsNat
      <4>3. QED
        BY <4>1, <4>2 DEF ChunkHeaderSize
    <3> HIDE DEF p
    <3>5. S2 \in [1..n -> Nat]
      BY <3>1, <3>3, <3>4
    <3>6. ASSUME NEW k \in 1..n PROVE S2[k] = Begun(S2, k)
      <4>1. CASE k = n
        BY <2>3, <3>1, <4>1 DEF p
      <4>2. CASE k # n
        <5>1. k \in 1..(n - 1) /\ (k # 1 => k - 1 \in 1..(n - 1) /\ k - 1 # n)
          BY <3>1, <4>2
        <5>2. S2[k] = S[k] /\ (k # 1 => S2[k - 1] = S[k - 1])
          BY <3>1, <4>2, <5>1
        <5> HIDE DEF S2
        <5>3. QED
          BY <3>3, <5>1, <5>2
      <4>3. QED
        BY <4>1, <4>2
    <3>7. Exists(n)
      BY <3>5, <3>6
    <3>8. QED
      BY <2>1, <3>7
  <2>4. QED
    BY <2>2, <2>3
<1>3. Exists(DataChunk(f))
  <2>1. DataChunk(f) \in 1..DataChunk(f)
    BY <1>1
  <2> HIDE DEF Exists
  <2>2. QED
    BY <1>2, <2>1
<1>4. QED
  BY <1>3

\* StartOf is the recursion it is written as: CHOOSE finds the positions that exist.
LEMMA StartOfChunk ==
  ASSUME NEW f \in File
  PROVE  \A k \in 1..DataChunk(f) :
           /\ StartOf(f, k) \in Nat
           /\ StartOf(f, k) = IF k = 1 THEN HeaderSize + f.fmtExtra
                              ELSE StartOf(f, k - 1) + ChunkHeaderSize + Padded(f.before[k - 1])
<1> DEFINE n == DataChunk(f)
           Body(S) == [k \in 1..n |-> IF k = 1 THEN HeaderSize + f.fmtExtra
                         ELSE S[k - 1] + ChunkHeaderSize + Padded(f.before[k - 1])]
           C == CHOOSE S : S = Body(S)
<1>1. \A k : StartOf(f, k) = C[k]
  BY DEF StartOf
<1>2. PICK S \in [1..n -> Nat] : \A k \in 1..n :
           S[k] = IF k = 1 THEN HeaderSize + f.fmtExtra
                  ELSE S[k - 1] + ChunkHeaderSize + Padded(f.before[k - 1])
  BY StartsExist
<1>3. S = Body(S)
  BY <1>2
<1>4. C = Body(C)
  BY <1>3
<1> HIDE DEF C
<1>5. \A k \in 1..n : C[k] = IF k = 1 THEN HeaderSize + f.fmtExtra
                              ELSE C[k - 1] + ChunkHeaderSize + Padded(f.before[k - 1])
  BY <1>4
<1>6. n \in Nat
  BY WavAssumption DEF DataChunk
<1> HIDE DEF n
<1> DEFINE J == {k \in 1..n : C[k] # S[k]}
<1>7. ASSUME J # {} PROVE FALSE
  <2>1. PICK k \in J : \A j \in J : k <= j
    <3>1. J \in SUBSET Nat
      OBVIOUS
    <3> HIDE DEF J
    <3>2. QED
      BY <1>7, <3>1, LeastOf
  <2>2. k # 1
    BY <1>2, <1>5, <2>1
  <2>3. k - 1 \in 1..n /\ k - 1 \notin J
    <3>1. k \in 1..n /\ k \in Int /\ (k - 1 \in J => k <= k - 1)
      BY <2>1
    <3>2. QED
      BY <1>6, <2>2, <3>1
  <2>4. QED
    BY <1>2, <1>5, <2>1, <2>2, <2>3
<1>8. \A k \in 1..n : C[k] = S[k]
  BY <1>7
<1>9. QED
  BY <1>1, <1>2, <1>5, <1>8 DEF n
-----------------------------------------------------------------------------
\* A chunk begins behind the header of the chunk before.
LEMMA StartsGrow ==
  ASSUME NEW f \in File, NEW i \in 1..DataChunk(f), NEW j \in 1..DataChunk(f), i < j
  PROVE  StartOf(f, i) < StartOf(f, j)
<1> DEFINE J == {k \in 1..DataChunk(f) : i < k /\ ~(StartOf(f, i) < StartOf(f, k))}
<1>1. Len(f.before) \in Nat /\ DataChunk(f) \in Nat
  BY WavAssumption DEF DataChunk
<1>2. ASSUME J # {} PROVE FALSE
  <2>1. PICK k \in J : \A m \in J : k <= m
    <3>1. J \in SUBSET Nat
      BY <1>1
    <3> HIDE DEF J
    <3>2. QED
      BY <1>2, <3>1, LeastOf
  <2>2. /\ k \in Int /\ k - 1 \in 1..DataChunk(f) /\ k # 1 /\ k - 1 \in 1..Len(f.before)
        /\ ~(k <= k - 1)
    BY <1>1, <2>1 DEF DataChunk
  <2>3. /\ StartOf(f, k) = StartOf(f, k - 1) + ChunkHeaderSize + Padded(f.before[k - 1])
        /\ StartOf(f, k - 1) \in Nat /\ StartOf(f, i) \in Nat
    BY <2>1, <2>2, StartOfChunk
  <2>4. Padded(f.before[k - 1]) \in Nat
    <3>1. f.before[k - 1] \in Nat
      BY <2>2, WavAssumption
    <3>2. QED
      BY <3>1, PaddedIsNat
  <2>5. StartOf(f, i) <= StartOf(f, k - 1)
    <3>1. CASE k - 1 = i
      BY <2>3, <3>1
    <3>2. CASE k - 1 # i
      <4>1. k - 1 \notin J /\ i < k - 1
        BY <2>1, <2>2, <3>2
      <4>2. QED
        BY <2>2, <2>3, <4>1
    <3>3. QED
      BY <3>1, <3>2
  <2>6. StartOf(f, i) < StartOf(f, k)
    BY <2>3, <2>4, <2>5 DEF ChunkHeaderSize
  <2>7. QED
    BY <2>1, <2>6
<1>3. QED
  BY <1>2

\* What can be read is the header of a chunk; where chunk i begins, of chunk i.
LEMMA HeadersTyped ==
  ASSUME NEW f \in File, NEW p, NEW h \in HeadersAt(f, p)
  PROVE  h \in ChunkInfo
<1>1. /\ Len(f.before) \in Nat /\ f.dataSize \in Nat /\ Garbage \subseteq ChunkInfo
      /\ \A i \in 1..Len(f.before) : f.before[i] \in Nat
  BY WavAssumption
<1>2. \A i \in 1..DataChunk(f) : i # DataChunk(f) => i \in 1..Len(f.before)
  BY <1>1 DEF DataChunk
<1>3. CASE h \in Garbage
  BY <1>1, <1>3
<1>4. CASE h \notin Garbage
  <2>1. PICK i \in 1..DataChunk(f) :
          h = [data |-> i = DataChunk(f),
               size |-> IF i = DataChunk(f) THEN f.dataSize ELSE f.before[i]]
    BY <1>4 DEF HeadersAt
  <2>2. (i = DataChunk(f)) \in BOOLEAN
    OBVIOUS
  <2>3. (IF i = DataChunk(f) THEN f.dataSize ELSE f.before[i]) \in Nat
    BY <1>1, <1>2
  <2>4. QED
    BY <2>1, <2>2, <2>3 DEF ChunkInfo
<1>5. QED
  BY <1>3, <1>4

LEMMA HeaderOfChunk ==
  ASSUME NEW f \in File, NEW i \in 1..DataChunk(f), NEW h \in HeadersAt(f, StartOf(f, i))
  PROVE  /\ h.data <=> i = DataChunk(f)
         /\ h.size = IF i = DataChunk(f) THEN f.dataSize ELSE f.before[i]
<1>1. \A j \in 1..DataChunk(f) : StartOf(f, j) = StartOf(f, i) => j = i
  <2>1. TAKE j \in 1..DataChunk(f)
  <2>2. i \in Int /\ j \in Int /\ StartOf(f, i) \in Nat /\ StartOf(f, j) \in Nat
    BY StartOfChunk, WavAssumption DEF DataChunk
  <2>3. i < j => StartOf(f, i) < StartOf(f, j)
    BY StartsGrow
  <2>4. j < i => StartOf(f, j) < StartOf(f, i)
    BY StartsGrow
  <2>5. QED
    BY <2>2, <2>3, <2>4
<1>2. {j \in 1..DataChunk(f) : StartOf(f, j) = StartOf(f, i)} = {i}
  BY <1>1
<1>3. h \in {[data |-> j = DataChunk(f),
               size |-> IF j = DataChunk(f) THEN f.dataSize ELSE f.before[j]] : j \in {i}}
  BY <1>2 DEF HeadersAt
<1>4. h = [data |-> i = DataChunk(f),
           size |-> IF i = DataChunk(f) THEN f.dataSize ELSE f.before[i]]
  BY <1>3
<1>5. QED
  BY <1>4
-----------------------------------------------------------------------------
\* Arithmetic: a buffer more is a multiple of the buffer, ...
LEMMA WholeBuffers ==
  ASSUME NEW d \in Nat, NEW c \in Nat \ {0}, d % c = 0
  PROVE  (d + c) % c = 0
<1> DEFINE q == (d \div c) + 1
           p == (d + c) \div c
           r == (d + c) % c
<1>1. d + c = c * q /\ d + c = c * p + r /\ q \in Nat /\ p \in Nat /\ r \in 0..(c - 1)
  OBVIOUS
<1> HIDE DEF q, p, r
<1>2. r = c * (q - p) /\ q - p \in Int
  BY <1>1
<1>3. ASSUME q - p >= 1 PROVE FALSE
  BY <1>1, <1>2, <1>3
<1>4. ASSUME q - p <= -1 PROVE FALSE
  BY <1>1, <1>2, <1>4
<1>5. r = 0
  BY <1>2, <1>3, <1>4
<1>6. QED
  BY <1>5 DEF r

\* ... products are ordered as their factors are, ...
LEMMA ProductOrder ==
  ASSUME NEW a \in Nat, NEW b \in Nat, NEW c \in Nat, a <= b
  PROVE  a * c <= b * c
OBVIOUS

LEMMA NotFewer ==
  ASSUME NEW k \in Nat, NEW e \in Nat, NEW n \in Nat \ {0}, k * n <= e * n
  PROVE  k <= e
<1>1. ASSUME e + 1 <= k PROVE FALSE
  <2>1. (e + 1) * n <= k * n
    BY <1>1, ProductOrder
  <2>2. (e + 1) * n = e * n + n /\ e * n \in Nat /\ k * n \in Nat
    OBVIOUS
  <2>3. QED
    BY <2>1, <2>2
<1>2. QED
  BY <1>1

LEMMA NotNone == ASSUME NEW k \in Nat \ {0}, NEW n \in Nat, k <= k * n PROVE n # 0
<1>1. n = 0 => k * n = 0
  OBVIOUS
<1>2. QED
  BY <1>1

\* ... and frames have 1, 2 or 4 bytes.
LEMMA WholeFrames ==
  ASSUME NEW s \in Nat, NEW B \in {1, 2, 4}, s % B = 0
  PROVE  s \div B \in Nat /\ s = (s \div B) * B
<1>1. CASE B = 1
  BY <1>1
<1>2. CASE B = 2
  BY <1>2
<1>3. CASE B = 4
  BY <1>3
<1>4. QED
  BY <1>1, <1>2, <1>3

LEMMA CancelledFrameBytes ==
  ASSUME NEW a \in Nat, NEW b \in Nat, NEW c \in Nat, NEW B \in {1, 2, 4}, a * B <= b * (c * B)
  PROVE  a <= b * c
<1> DEFINE d == b * c
<1>1. b * (c * B) = d * B /\ d \in Nat
  OBVIOUS
<1> HIDE DEF d
<1>2. a <= d
  BY <1>1
<1>3. QED
  BY <1>2 DEF d

\* Chunks of as many frames as on_wav_info computes: fewer than k do not hold all.
LEMMA ChunksSuffice ==
  ASSUME NEW F \in Nat, NEW k \in Nat \ {0}, NEW n \in Nat, k <= F,
         n = IF F % k = 0 THEN F \div k ELSE (F - (F % k)) \div (k - 1)
  PROVE  /\ n # 0
         /\ \A e \in Nat : F <= e * n => k <= e
<1>1. F = k * (F \div k) + (F % k) /\ F \div k \in Nat /\ F % k \in 0..(k - 1)
  OBVIOUS
<1>2. CASE F % k = 0
  <2>1. F = k * n
    BY <1>1, <1>2
  <2>2. n # 0
    BY <2>1, NotNone
  <2>3. ASSUME NEW e \in Nat, F <= e * n PROVE k <= e
    BY <2>1, <2>2, <2>3, NotFewer
  <2>4. QED
    BY <2>2, <2>3
<1>3. CASE F % k # 0
  <2> DEFINE m == F - (F % k)
  <2>1. k - 1 \in Nat \ {0} /\ m \in Nat
    BY <1>1, <1>3
  <2>2. (k - 1) * n <= m /\ m < (k - 1) * (n + 1)
    BY <1>3, <2>1
  <2>3. m >= k /\ m < F
    <3>1. F \div k >= 1
      BY <1>1
    <3>2. m = k * (F \div k)
      BY <1>1
    <3>3. QED
      BY <1>1, <1>3, <3>1, <3>2
  <2> HIDE DEF m
  <2>4. ASSUME n = 0 PROVE FALSE
    <3>1. (k - 1) * (n + 1) = k - 1
      BY <2>4
    <3>2. QED
      BY <2>1, <2>2, <2>3, <3>1
  <2>5. ASSUME NEW e \in Nat, F <= e * n, e <= k - 1 PROVE FALSE
    <3>1. e * n <= (k - 1) * n
      BY <2>1, <2>5, ProductOrder
    <3>2. QED
      BY <2>1, <2>2, <2>3, <2>5, <3>1
  <2>6. QED
    BY <2>1, <2>4, <2>5
<1>4. QED
  BY <1>2, <1>3
-----------------------------------------------------------------------------
\* What a file is.
LEMMA FileFacts ==
  ASSUME TypeOK
  PROVE  /\ file \in File /\ {file.supported, file.pcm} \subseteq BOOLEAN
         /\ file.channels \in Nat /\ file.sampleSize \in Nat /\ file.blockAlign \in Nat
         /\ file.fmtExtra \in Nat /\ file.dataSize \in Nat /\ file.length \in Nat
         /\ file.before \in Seq(Nat) /\ Len(file.before) \in Nat
BY WavAssumption DEF TypeOK

\* read() gives what it can.
LEMMA GotFacts ==
  ASSUME TypeOK, NEW n \in Nat
  PROVE  /\ Got(n) \in Nat /\ Got(n) <= n
         /\ pos <= file.length => Got(n) <= file.length - pos
         /\ pos + n <= file.length => Got(n) = n
         /\ Got(n) = n /\ n > 0 => pos + n <= file.length
         /\ Got(n) < n => Got(n) = 0 \/ pos + Got(n) = file.length
         /\ Got(n) = 0 => n = 0 \/ pos >= file.length
<1>1. pos \in Nat /\ file.length \in Nat
  BY FileFacts DEF TypeOK
<1>2. QED
  BY <1>1 DEF Got, Least

\* A frame has 1, 2 or 4 bytes where the channels have been checked.
LEMMA FrameFacts ==
  ASSUME TypeOK, file.channels \in {1, 2}
  PROVE  /\ SampleBytes(file) \in {1, 2} /\ FrameBytes(file) \in {1, 2, 4}
         /\ SampleBytes(file) = 2 => FrameBytes(file) \in {2, 4}
         /\ \A n \in Nat : n * file.channels * SampleBytes(file) = n * FrameBytes(file)
<1>1. SampleBytes(file) \in {1, 2}
  BY DEF SampleBytes
<1>2. QED
  BY <1>1 DEF FrameBytes

\* The builder asks for a number of frames, and for all of them as often as asked.
LEMMA FramesFacts ==
  ASSUME TypeOK, file.blockAlign # 0, NEW k \in Nat \ {0}
  PROVE  /\ FrameCount \in Nat /\ FramesOfChunk(k) \in Nat
         /\ k <= FrameCount =>
              /\ FramesOfChunk(k) # 0
              /\ \A e \in Nat : FrameCount <= e * FramesOfChunk(k) => k <= e
<1>1. FrameCount \in Nat
  <2>1. info.size \in Nat /\ file.blockAlign \in Nat \ {0}
    BY FileFacts DEF TypeOK
  <2>2. QED
    BY <2>1 DEF FrameCount
<1>2. FramesOfChunk(k) = IF FrameCount % k = 0 THEN FrameCount \div k
                         ELSE (FrameCount - (FrameCount % k)) \div (k - 1)
  BY DEF FramesOfChunk
<1> HIDE DEF FrameCount, FramesOfChunk
<1>3. FramesOfChunk(k) \in Nat
  <2>1. FrameCount % k \in 0..FrameCount /\ (FrameCount % k # 0 => k - 1 \in Nat \ {0})
    BY <1>1
  <2>2. QED
    BY <1>1, <1>2, <2>1
<1>4. QED
  BY <1>1, <1>2, <1>3, ChunksSuffice
-----------------------------------------------------------------------------
LEMMA InitCalls == Init => IInv
<1> SUFFICES ASSUME Init PROVE IInv
  OBVIOUS
<1> USE DEF Init, NoCall, Call, NoInfo
<1>1. TypeOK /\ Records
  <2>1. info.extra = <<>> /\ info.start = 0 /\ info.size = 0 /\ MaxCalls \in Nat
    BY WavAssumption
  <2>2. <<>> \in Seq([size : Nat, start : Nat])
    OBVIOUS
  <2>3. TypeOK
    <3>1. errors \in 0..1 /\ calls \in 0..MaxCalls
      BY <2>1
    <3>2. /\ call.op = "none" /\ call.framesChunk = 0 /\ call.chunkCount = 0 /\ call.step = 1
          /\ pc = "idle" /\ result = "none"
      OBVIOUS
    <3>3. {pos, capacity, remain, delivered, entries, frames} \subseteq Nat
      OBVIOUS
    <3>4. interrupted \in BOOLEAN /\ ctxErr \in BOOLEAN
      OBVIOUS
    <3>5. QED
      BY <2>1, <2>2, <3>1, <3>2, <3>3, <3>4 DEF TypeOK
  <2>4. info \in [extra : Seq([size : Nat, start : Nat]), start : Nat, size : Nat]
    BY <2>2
  <2>5. QED
    BY <2>3, <2>4 DEF Records
<1>2. NothingToReport /\ Checked /\ NothingSoFar /\ ChunksSoFar /\ DataSoFar /\ SpectrumSoFar
  BY DEF NothingToReport, Checked, NothingSoFar, ChunksSoFar, DataSoFar, SpectrumSoFar, Within
<1>3. /\ HeaderDescribesFile /\ DecodedIsData /\ FailureIsExplained /\ CrashOnlyIfMalformed
      /\ SpectrumCoversFile
  BY DEF HeaderDescribesFile, DecodedIsData, FailureIsExplained, CrashOnlyIfMalformed,
         SpectrumCoversFile, Done
<1>4. QED
  BY <1>1, <1>2, <1>3 DEF IInv

LEMMA CallsStep == ASSUME IInv, Calls PROVE IInv'
<1> DEFINE CallArgs == [op : {"read_header", "decode", "build"}, framesChunk : Nat,
                        chunkCount : Nat, step : Nat \cup {AutoStep}]
<1>1. PICK c \in CallArgs : Start(c)
  <2>1. Call("read_header", 0, 0, 1) \in CallArgs
    BY DEF Call
  <2>2. \A n \in FramesChunk : Call("decode", n, 0, 1) \in CallArgs
    BY WavAssumption DEF Call
  <2>3. \A k \in ChunkCount, s \in FrameStep : Call("build", 0, k, s) \in CallArgs
    BY WavAssumption DEF Call
  <2>4. QED
    BY <2>1, <2>2, <2>3 DEF Calls
<1>2. /\ pc = "idle" /\ calls < MaxCalls /\ calls' = calls + 1 /\ call' = c /\ info' = NoInfo
      /\ capacity' = 0 /\ remain' = 0 /\ delivered' = 0 /\ errors' = 0 /\ interrupted' = FALSE
      /\ entries' = 0 /\ frames' = 0 /\ UNCHANGED <<file, pos>>
      /\ ctxErr' = Rejected(c)
      /\ IF Rejected(c) THEN pc' = "idle" /\ result' = "false"
                        ELSE pc' = "header" /\ result' = "none"
  BY <1>1 DEF Start, Begin
<1>3. Records'
  <2>1. <<>> \in Seq([size : Nat, start : Nat])
    OBVIOUS
  <2>2. NoInfo \in [extra : Seq([size : Nat, start : Nat]), start : Nat, size : Nat]
    BY <2>1 DEF NoInfo
  <2>3. QED
    BY <1>2, <2>2 DEF Records
<1>4. TypeOK'
  <2>1. MaxCalls \in Nat /\ calls \in 0..MaxCalls /\ pos \in Nat /\ file \in File
    BY WavAssumption DEF IInv, TypeOK
  <2>2. calls' \in 0..MaxCalls
    BY <1>2, <2>1
  <2>3. ctxErr' \in BOOLEAN /\ pc' \in {"idle", "header"} /\ result' \in {"false", "none"}
    BY <1>2 DEF Rejected
  <2>4. {pos, capacity, remain, delivered, entries, frames}' \subseteq Nat
    BY <1>2, <2>1
  <2>5. errors' \in 0..1 /\ file' \in File
    BY <1>2, <2>1
  <2>6. interrupted' \in BOOLEAN
    BY <1>2
  <2>7. QED
    BY <1>3, <2>2, <2>3, <2>4, <2>5, <2>6, WavAssumption DEF TypeOK, Records
<1>5. /\ NothingToReport' /\ Checked' /\ NothingSoFar' /\ ChunksSoFar' /\ DataSoFar'
      /\ SpectrumSoFar'
  <2>1. Len(NoInfo.extra) = 0 /\ NoInfo.start = 0
    BY DEF NoInfo
  <2>2. pc' = "header" => ~ctxErr' /\ (c.op = "build" => c.chunkCount # 0) /\ result' = "none"
    BY <1>2 DEF Rejected
  <2>3. NothingToReport'
    BY <1>2, <2>2 DEF NothingToReport, Within
  <2>4. ChunksSoFar'
    BY <1>2, <2>1 DEF ChunksSoFar
  <2>5. QED
    BY <1>2, <2>1, <2>3, <2>4 DEF Checked, NothingSoFar, DataSoFar, SpectrumSoFar
<1>6. HeaderDescribesFile' /\ DecodedIsData' /\ CrashOnlyIfMalformed' /\ SpectrumCoversFile'
  BY <1>2 DEF HeaderDescribesFile, DecodedIsData, CrashOnlyIfMalformed,
              SpectrumCoversFile, Done, NoInfo
<1>7. FailureIsExplained'
  BY <1>2 DEF FailureIsExplained, Done, Rejected
<1>8. QED
  BY <1>3, <1>4, <1>5, <1>6, <1>7 DEF IInv

\* A call ends without a result.
LEMMA Stopped ==
  ASSUME IInv, pc \in Within, UNCHANGED <<inputVars, info>>,
         pos' \in Nat, capacity' \in Nat, remain' \in Nat,
         delivered' \in Nat, entries' \in Nat, frames' \in Nat,
         pc' = "idle", result' = "false",
         errors' \in 0..1, interrupted' \in BOOLEAN, ctxErr' \in BOOLEAN,
         call.op = "decode" => (errors' = 1 <=> ~interrupted'),
         call.op = "build" => ctxErr'
  PROVE  IInv'
<1>1. UNCHANGED <<file, call, calls, info>>
  BY DEF inputVars
<1>2. TypeOK' /\ Records'
  BY <1>1 DEF IInv, TypeOK, Records
<1>3. /\ NothingToReport' /\ Checked' /\ NothingSoFar' /\ ChunksSoFar' /\ DataSoFar'
      /\ SpectrumSoFar'
  BY DEF NothingToReport, Checked, NothingSoFar, ChunksSoFar, DataSoFar, SpectrumSoFar, Within
<1>4. HeaderDescribesFile'
  BY <1>1 DEF IInv, HeaderDescribesFile
<1>5. DecodedIsData' /\ CrashOnlyIfMalformed' /\ SpectrumCoversFile'
  BY DEF DecodedIsData, CrashOnlyIfMalformed, SpectrumCoversFile
<1>6. FailureIsExplained'
  BY <1>1 DEF FailureIsExplained, Done
<1>7. QED
  BY <1>2, <1>3, <1>4, <1>5, <1>6 DEF IInv

\* A call fails: on_error is called once, unless it is read_header().
LEMMA FailedStep ==
  ASSUME IInv, pc \in Within, Failed, pos' \in Nat,
         UNCHANGED <<inputVars, info, capacity, remain, delivered, interrupted, entries, frames>>
  PROVE  IInv'
<1>1. errors = 0 /\ interrupted = FALSE /\ ctxErr = FALSE
  BY DEF IInv, NothingToReport, TypeOK
<1>2. /\ pc' = "idle" /\ result' = "false"
      /\ errors' = IF call.op # "read_header" THEN 1 ELSE 0
      /\ ctxErr' = (call.op = "build")
  BY <1>1 DEF Failed, Return
<1>3. /\ capacity \in Nat /\ remain \in Nat /\ delivered \in Nat /\ entries \in Nat
      /\ frames \in Nat
  BY DEF IInv, TypeOK
<1>4. /\ errors' \in 0..1 /\ interrupted' \in BOOLEAN /\ ctxErr' \in BOOLEAN
      /\ call.op = "decode" => (errors' = 1 <=> ~interrupted')
      /\ call.op = "build" => ctxErr'
  <2>1. errors' \in 0..1 /\ (call.op = "decode" => errors' = 1)
    BY <1>2
  <2>2. ~interrupted' /\ interrupted' \in BOOLEAN /\ ctxErr' \in BOOLEAN
    BY <1>1, <1>2
  <2>3. QED
    BY <1>2, <2>1, <2>2
<1>5. /\ capacity' \in Nat /\ remain' \in Nat /\ delivered' \in Nat /\ entries' \in Nat
      /\ frames' \in Nat
  BY <1>3
<1>6. QED
  BY <1>2, <1>4, <1>5, Stopped

-----------------------------------------------------------------------------
(* read_header()                                                           *)

\* The header is read on.
LEMMA HeaderGoesOn ==
  ASSUME IInv, pc \in {"header", "chunks"}, pc' = "chunks",
         UNCHANGED <<inputVars, capacity, remain, outputVars>>,
         file.channels \in {1, 2}, pos' \in Nat,
         info' \in [extra : Seq([size : Nat, start : Nat]), start : Nat, size : Nat],
         info'.start = info.start, ChunksSoFar'
  PROVE  IInv'
<1>1. /\ UNCHANGED <<file, call, calls, capacity, remain, delivered, errors, interrupted, ctxErr,
                     entries, frames, result>>
  BY DEF inputVars, outputVars
<1>2. Records'
  BY <1>1 DEF IInv, Records
<1>3. TypeOK'
  BY <1>1 DEF IInv, TypeOK
<1>4. NothingToReport' /\ Checked' /\ NothingSoFar'
  BY <1>1 DEF IInv, NothingToReport, Checked, NothingSoFar, Within
<1>5. HeaderDescribesFile'
  <2>1. info'.start = 0
    BY DEF IInv, NothingSoFar
  <2>2. QED
    BY <2>1 DEF HeaderDescribesFile
<1>6. /\ DataSoFar' /\ DecodedIsData' /\ FailureIsExplained' /\ CrashOnlyIfMalformed'
      /\ SpectrumSoFar' /\ SpectrumCoversFile'
  BY DEF DataSoFar, DecodedIsData, FailureIsExplained, CrashOnlyIfMalformed, SpectrumSoFar,
         SpectrumCoversFile, Done
<1>7. QED
  BY <1>2, <1>3, <1>4, <1>5, <1>6 DEF IInv

LEMMA ReadHeaderStep == ASSUME IInv, ReadHeader PROVE IInv'
<1> DEFINE p == pos + Got(HeaderSize)
<1>1. /\ Got(HeaderSize) \in Nat /\ pos \in Nat /\ file.fmtExtra \in Nat /\ p \in Nat
      /\ DataChunk(file) \in Nat \ {0}
  <2>1. TypeOK /\ pos \in Nat /\ HeaderSize \in Nat
    BY DEF IInv, TypeOK, HeaderSize
  <2>2. Got(HeaderSize) \in Nat
    BY <2>1, GotFacts
  <2>3. QED
    BY <2>1, <2>2, FileFacts DEF DataChunk
<1>2. pc = "header" /\ UNCHANGED <<inputVars, info, capacity, remain, delivered, interrupted,
                                   entries, frames>>
  BY DEF ReadHeader
<1>3. CASE Failed /\ pos' = p
  BY <1>1, <1>2, <1>3, FailedStep DEF Within
<1>4. CASE /\ Got(HeaderSize) = HeaderSize /\ pos = 0 /\ file.channels \in {1, 2}
           /\ pos' = p + file.fmtExtra /\ pc' = "chunks" /\ UNCHANGED <<errors, ctxErr, result>>
  <2>1. pos' = StartOf(file, 1) /\ pos' \in Nat
    <3>1. StartOf(file, 1) = HeaderSize + file.fmtExtra
      <4>1. file \in File
        BY DEF IInv, TypeOK
      <4>2. 1 \in 1..DataChunk(file)
        BY <1>1
      <4>3. QED
        BY <4>1, <4>2, StartOfChunk
    <3>2. QED
      BY <1>1, <1>4, <3>1 DEF HeaderSize
  <2>2. ChunksSoFar'
    <3>1. file' = file /\ info' = info
      BY <1>2 DEF inputVars
    <3>2. Even(file) => Len(info.extra) = 0
      BY <1>2 DEF IInv, ChunksSoFar
    <3>3. ASSUME Even(file)
          PROVE  /\ Len(info.extra) + 1 \in 1..DataChunk(file)
                 /\ pos' = StartOf(file, Len(info.extra) + 1)
      BY <1>1, <2>1, <3>2, <3>3
    <3>4. QED
      BY <1>4, <3>1, <3>2, <3>3 DEF ChunksSoFar
  <2>3. QED
    BY <1>2, <1>4, <2>1, <2>2, HeaderGoesOn DEF outputVars, IInv, Records
<1>5. QED
  BY <1>3, <1>4 DEF ReadHeader

\* Where the chunks have been followed from their begin, the next one is read.
LEMMA NextChunk ==
  ASSUME IInv, pc = "chunks", NEW h \in HeadersAt(file, pos)
  PROVE  /\ h.size \in Nat /\ h.data \in BOOLEAN /\ pos \in Nat
         /\ info.extra \in Seq([size : Nat, start : Nat]) /\ Len(info.extra) \in Nat
         /\ Even(file) =>
              LET n == Len(info.extra)
              IN  /\ pos = StartOf(file, n + 1) /\ n + 1 \in 1..DataChunk(file)
                  /\ h.data => n = Len(file.before) /\ h.size = file.dataSize
                  /\ ~h.data => n + 2 \in 1..DataChunk(file) /\ h.size = file.before[n + 1]
                                /\ StartOf(file, n + 2) = pos + ChunkHeaderSize + h.size
<1>1. file \in File /\ pos \in Nat /\ info.extra \in Seq([size : Nat, start : Nat])
  BY DEF IInv, TypeOK
<1>2. h \in ChunkInfo
  BY <1>1, HeadersTyped
<1>3. Len(file.before) \in Nat /\ \A i \in 1..Len(file.before) : file.before[i] \in Nat
  BY <1>1, WavAssumption
<1>4. ASSUME Even(file), NEW n \in Nat, n = Len(info.extra)
      PROVE  /\ pos = StartOf(file, n + 1) /\ n + 1 \in 1..DataChunk(file)
             /\ h.data => n = Len(file.before) /\ h.size = file.dataSize
             /\ ~h.data => n + 2 \in 1..DataChunk(file) /\ h.size = file.before[n + 1]
                           /\ StartOf(file, n + 2) = pos + ChunkHeaderSize + h.size
  <2>1. pos = StartOf(file, n + 1) /\ n + 1 \in 1..DataChunk(file)
    BY <1>4 DEF IInv, ChunksSoFar
  <2>2. /\ h.data <=> n + 1 = DataChunk(file)
        /\ h.size = IF n + 1 = DataChunk(file) THEN file.dataSize ELSE file.before[n + 1]
    BY <1>1, <2>1, HeaderOfChunk
  <2>3. h.data => n = Len(file.before) /\ h.size = file.dataSize
    BY <1>3, <2>2 DEF DataChunk
  <2>4. ASSUME ~h.data
        PROVE  n + 2 \in 1..DataChunk(file) /\ h.size = file.before[n + 1]
               /\ StartOf(file, n + 2) = pos + ChunkHeaderSize + h.size
    <3>1. /\ n + 2 \in 1..DataChunk(file) /\ (n + 2) - 1 = n + 1 /\ n + 2 # 1
          /\ n + 1 \in 1..Len(file.before) /\ h.size = file.before[n + 1]
      BY <1>3, <2>1, <2>2, <2>4 DEF DataChunk
    <3>2. Padded(file.before[n + 1]) = file.before[n + 1]
      BY <1>3, <1>4, <3>1, PaddedIsNat DEF Even
    <3>3. StartOf(file, n + 2) =
            StartOf(file, n + 1) + ChunkHeaderSize + Padded(file.before[n + 1])
      BY <1>1, <3>1, StartOfChunk
    <3>4. QED
      BY <2>1, <3>1, <3>2, <3>3
  <2>5. QED
    BY <2>1, <2>3, <2>4
<1>5. Len(info.extra) \in Nat
  BY <1>1
<1>6. QED
  BY <1>1, <1>2, <1>4, <1>5 DEF ChunkInfo

LEMMA ReadChunkStep == ASSUME IInv, ReadChunk PROVE IInv'
<1>1. PICK h \in HeadersAt(file, pos) :
        /\ ~h.data
        /\ pos' = (pos + ChunkHeaderSize) + h.size
        /\ info' = [info EXCEPT !.extra =
                      Append(@, [size |-> h.size, start |-> pos + ChunkHeaderSize])]
  BY DEF ReadChunk
<1>2. pc = "chunks" /\ UNCHANGED <<inputVars, pc, capacity, remain, outputVars>>
  BY DEF ReadChunk
<1> DEFINE c == [size |-> h.size, start |-> pos + ChunkHeaderSize]
           n == Len(info.extra)
<1>3. /\ h.size \in Nat /\ pos \in Nat /\ n \in Nat /\ c \in [size : Nat, start : Nat]
      /\ info.extra \in Seq([size : Nat, start : Nat]) /\ pos' \in Nat
  BY <1>1, <1>2, NextChunk DEF ChunkHeaderSize
<1>4. info \in [extra : Seq([size : Nat, start : Nat]), start : Nat, size : Nat]
  BY DEF IInv, Records
<1>5. /\ info'.extra = Append(info.extra, c) /\ info'.start = info.start
      /\ info' \in [extra : Seq([size : Nat, start : Nat]), start : Nat, size : Nat]
  <2>1. Append(info.extra, c) \in Seq([size : Nat, start : Nat])
    BY <1>3
  <2>2. info' = [info EXCEPT !.extra = Append(info.extra, c)]
    BY <1>1
  <2> HIDE DEF c
  <2>3. QED
    BY <1>4, <2>1, <2>2
<1>6. /\ Len(info'.extra) = n + 1 /\ info'.extra[n + 1] = c
      /\ \A i \in 1..n : info'.extra[i] = info.extra[i]
  BY <1>3, <1>5
<1>7. ChunksSoFar'
  <2>1. ASSUME Even(file)
        PROVE  /\ pos' = StartOf(file, n + 2) /\ n + 2 \in 1..DataChunk(file)
               /\ \A i \in 1..(n + 1) : info'.extra[i] =
                    [size |-> file.before[i], start |-> StartOf(file, i) + ChunkHeaderSize]
    <3>1. /\ pos = StartOf(file, n + 1) /\ n + 2 \in 1..DataChunk(file)
          /\ h.size = file.before[n + 1]
          /\ StartOf(file, n + 2) = pos + ChunkHeaderSize + h.size
      BY <1>1, <1>2, <2>1, NextChunk
    <3>2. \A i \in 1..n : info.extra[i] =
            [size |-> file.before[i], start |-> StartOf(file, i) + ChunkHeaderSize]
      BY <1>2, <2>1 DEF IInv, ChunksSoFar
    <3>3. \A i \in 1..(n + 1) : i = n + 1 \/ i \in 1..n
      BY <1>3
    <3>4. QED
      BY <1>1, <1>6, <3>1, <3>2, <3>3
  <2>2. file' = file /\ pc' = "chunks"
    BY <1>2 DEF inputVars
  <2>3. (n + 1) + 1 = n + 2
    BY <1>3
  <2> HIDE DEF n, c
  <2>4. QED
    BY <1>6, <2>1, <2>2, <2>3 DEF ChunksSoFar
<1>8. file.channels \in {1, 2}
  BY <1>2 DEF IInv, Checked
<1>9. QED
  BY <1>2, <1>3, <1>5, <1>7, <1>8, HeaderGoesOn

LEMMA ReadChunkFailsStep == ASSUME IInv, ReadChunkFails PROVE IInv'
<1>1. pos \in Nat /\ Got(ChunkHeaderSize) \in Nat
  BY GotFacts DEF IInv, TypeOK, ChunkHeaderSize
<1>2. pos' \in Nat
  BY <1>1 DEF ReadChunkFails, ChunkHeaderSize
<1>3. QED
  BY <1>2, FailedStep DEF ReadChunkFails, Within

LEMMA ReadDataHeaderStep == ASSUME IInv, ReadDataHeader PROVE IInv'
<1>1. PICK h \in HeadersAt(file, pos) :
        /\ h.data
        /\ pos' = pos + ChunkHeaderSize
        /\ info' = [info EXCEPT !.start = pos', !.size = h.size]
  BY DEF ReadDataHeader
<1>2. /\ pc = "chunks" /\ Got(ChunkHeaderSize) = ChunkHeaderSize
      /\ UNCHANGED <<file, call, calls, capacity, remain, delivered, errors, interrupted,
                     ctxErr, entries, frames>>
  BY DEF ReadDataHeader, inputVars
<1>3. \/ /\ file.sampleSize \div 8 = 0 \/ file.blockAlign = 0
         /\ pc' = "crashed" /\ result' = result
      \/ /\ file.sampleSize \div 8 # 0 /\ file.blockAlign # 0
         /\ \/ call.op = "read_header" /\ pc' = "idle" /\ result' = "true"
            \/ call.op # "read_header" /\ pc' = "info" /\ result' = result
  BY DEF ReadDataHeader
<1>4. /\ h.size \in Nat /\ pos \in Nat
      /\ info.extra \in Seq([size : Nat, start : Nat]) /\ Len(info.extra) \in Nat
      /\ file.sampleSize \in Nat /\ file.blockAlign \in Nat /\ file.length \in Nat
  BY <1>2, NextChunk, FileFacts DEF IInv
<1>5. pos' \in Nat /\ pos' # 0 /\ pos' <= file.length
  BY <1>1, <1>2, <1>4, GotFacts DEF IInv, ChunkHeaderSize
<1>6. /\ info' \in [extra : Seq([size : Nat, start : Nat]), start : Nat, size : Nat]
      /\ info'.extra = info.extra /\ info'.start = pos' /\ info'.size = h.size
  BY <1>1, <1>4, <1>5 DEF IInv, Records
<1>7. Records'
  BY <1>2, <1>6 DEF IInv, Records
<1>8. TypeOK'
  <2>1. pc' \in {"idle", "crashed", "info"} /\ result' \in {"none", "true", "false"}
    BY <1>3 DEF IInv, TypeOK
  <2>2. QED
    BY <1>2, <1>5, <1>6, <2>1 DEF IInv, TypeOK
<1>9. NothingToReport' /\ Checked' /\ NothingSoFar' /\ ChunksSoFar'
  <2>1. call.op # "none"
    BY <1>2 DEF IInv, NothingToReport, Within
  <2>2. NothingToReport'
    BY <1>2, <1>3 DEF IInv, NothingToReport, Within
  <2>3. Checked'
    <3>1. /\ pc' \notin {"chunks", "data"} /\ file' = file /\ call' = call
          /\ pc' = "info" => file.sampleSize \div 8 # 0 /\ file.blockAlign # 0
                             /\ call.op # "read_header"
      BY <1>2, <1>3
    <3>2. file.channels \in {1, 2}
      BY <1>2 DEF IInv, Checked
    <3>3. call.op \in {"none", "read_header", "decode", "build"}
      BY DEF IInv, TypeOK
    <3>4. file.sampleSize \div 8 # 0 => file.sampleSize >= 8
      BY <1>4
    <3>5. QED
      BY <2>1, <3>1, <3>2, <3>3, <3>4 DEF Checked
  <2>4. QED
    BY <1>2, <1>3, <2>2, <2>3 DEF IInv, NothingSoFar, ChunksSoFar
<1>10. HeaderDescribesFile'
  <2>1. ASSUME Even(file)
        PROVE  /\ h.size = file.dataSize
               /\ pos' = StartOf(file, DataChunk(file)) + ChunkHeaderSize
               /\ info.extra = [i \in 1..Len(file.before) |->
                    [size |-> file.before[i], start |-> StartOf(file, i) + ChunkHeaderSize]]
    <3>1. /\ pos = StartOf(file, Len(info.extra) + 1) /\ Len(info.extra) = Len(file.before)
          /\ h.size = file.dataSize
      BY <1>1, <1>2, <2>1, NextChunk
    <3>2. \A i \in 1..Len(info.extra) : info.extra[i] =
            [size |-> file.before[i], start |-> StartOf(file, i) + ChunkHeaderSize]
      BY <1>2, <2>1 DEF IInv, ChunksSoFar
    <3>3. info.extra = [i \in 1..Len(info.extra) |-> info.extra[i]]
      BY <1>4
    <3>4. info.extra = [i \in 1..Len(file.before) |->
            [size |-> file.before[i], start |-> StartOf(file, i) + ChunkHeaderSize]]
      BY <3>1, <3>2, <3>3
    <3>5. QED
      BY <1>1, <3>1, <3>4 DEF DataChunk
  <2>2. QED
    BY <1>2, <1>6, <2>1 DEF HeaderDescribesFile
<1>11. DataSoFar' /\ DecodedIsData' /\ SpectrumSoFar' /\ SpectrumCoversFile'
  <2>1. delivered' = 0 /\ call' = call
    BY <1>2 DEF IInv, NothingSoFar
  <2>2. DataSoFar'
    <3>1. pos' = info'.start + delivered' /\ pos' <= file'.length
      <4>1. PICK p \in Nat : p = pos'
        BY <1>5
      <4>2. p = info'.start /\ p <= file'.length
        BY <1>2, <1>5, <1>6, <4>1
      <4>3. p = p + delivered'
        BY <2>1
      <4>4. QED
        BY <4>1, <4>2, <4>3
    <3>2. pc' # "data"
      BY <1>3
    <3>3. QED
      BY <3>1, <3>2 DEF DataSoFar
  <2>3. ~(Done("decode") \/ Done("build"))'
    BY <1>3, <2>1 DEF Done
  <2>4. pc' # "data"
    BY <1>3
  <2>5. QED
    BY <2>2, <2>3, <2>4 DEF DecodedIsData, SpectrumSoFar, SpectrumCoversFile
<1>12. FailureIsExplained'
  BY <1>2, <1>3 DEF FailureIsExplained, Done
<1>13. CrashOnlyIfMalformed'
  BY <1>2, <1>3, <1>4 DEF CrashOnlyIfMalformed
<1>14. QED
  BY <1>7, <1>8, <1>9, <1>10, <1>11, <1>12, <1>13 DEF IInv

-----------------------------------------------------------------------------
(* decode()                                                                *)

LEMMA AcceptedFacts ==
  ASSUME IInv, pc \in {"info", "data"}
  PROVE  /\ TypeOK /\ file.channels \in {1, 2} /\ file.blockAlign # 0
         /\ call.op \in {"decode", "build"}
         /\ SampleBytes(file) \in {1, 2} /\ FrameBytes(file) \in {1, 2, 4}
         /\ SampleBytes(file) = 2 => FrameBytes(file) \in {2, 4}
         /\ call.op = "build" =>
              call.chunkCount \in Nat \ {0} /\ FramesOfChunk(call.chunkCount) \in Nat
<1>1. TypeOK /\ file.channels \in {1, 2} /\ file.blockAlign # 0 /\ call.op \in {"decode", "build"}
  BY DEF IInv, Checked
<1>2. call.op = "build" => call.chunkCount \in Nat \ {0}
  BY DEF IInv, TypeOK, NothingToReport, Within
<1>3. call.op = "build" => FramesOfChunk(call.chunkCount) \in Nat
  BY <1>1, <1>2, FramesFacts
<1>4. QED
  BY <1>1, <1>2, <1>3, FrameFacts

\* The buffer is there, for a number of frames.
LEMMA AllocateStep ==
  ASSUME IInv, pc = "info", NEW n \in Nat, Allocate(n),
         UNCHANGED <<file, calls, pos, info, outputVars>>,
         call' \in [op : {"none", "read_header", "decode", "build"}, framesChunk : Nat,
                    chunkCount : Nat, step : Nat \cup {AutoStep}],
         call'.op = call.op, call'.chunkCount = call.chunkCount,
         call.op = "build" => call'.step \in Nat /\ n = FramesOfChunk(call.chunkCount)
  PROVE  IInv'
<1> DEFINE B == FrameBytes(file)
<1>1. /\ UNCHANGED <<delivered, errors, interrupted, ctxErr, entries, frames, result>>
      /\ file' = file /\ calls' = calls /\ pos' = pos /\ info' = info
  BY DEF outputVars
<1>2. /\ TypeOK /\ file.channels \in {1, 2} /\ B \in {1, 2, 4}
      /\ SampleBytes(file) \in {1, 2} /\ (SampleBytes(file) = 2 => B \in {2, 4})
  BY AcceptedFacts
<1>3. capacity' = n * B /\ remain' = info.size /\ pc' = "data" /\ n * B \in Nat
  BY <1>2, FrameFacts DEF Allocate
<1>4. FrameBytes(file)' = B /\ SampleBytes(file)' = SampleBytes(file)
  BY <1>1 DEF FrameBytes, SampleBytes
<1>5. delivered = 0 /\ entries = 0 /\ frames = 0 /\ delivered' = 0 /\ entries' = 0 /\ frames' = 0
  BY <1>1 DEF IInv, NothingSoFar
<1> HIDE DEF B
<1>6. Records'
  BY <1>1 DEF IInv, Records
<1>7. TypeOK'
  BY <1>1, <1>3, <1>5, <1>6 DEF IInv, TypeOK, Records
<1>8. NothingToReport' /\ Checked' /\ NothingSoFar' /\ ChunksSoFar'
  BY <1>1, <1>3 DEF IInv, NothingToReport, Checked, NothingSoFar, ChunksSoFar, Within
<1>9. HeaderDescribesFile'
  BY <1>1 DEF IInv, HeaderDescribesFile
<1>10. DataSoFar'
  <2>1. pos = info.start + delivered /\ pos <= file.length
    BY DEF IInv, DataSoFar
  <2>2. info.size = info.size - delivered
    BY <1>2, <1>5 DEF TypeOK
  <2>3. delivered % 2 = 0
    BY <1>5
  <2>4. QED
    BY <1>1, <1>3, <1>4, <1>5, <2>1, <2>2, <2>3 DEF DataSoFar
<1>11. DecodedIsData' /\ FailureIsExplained' /\ CrashOnlyIfMalformed' /\ SpectrumCoversFile'
  BY <1>3, <1>5 DEF DecodedIsData, FailureIsExplained, CrashOnlyIfMalformed,
                    SpectrumCoversFile, Done
<1>12. SpectrumSoFar'
  <2>1. ASSUME call.op = "build"
        PROVE  capacity' = FramesOfChunk(call.chunkCount)' * FrameBytes(file)'
    <3>1. FramesOfChunk(call.chunkCount)' = FramesOfChunk(call.chunkCount)
      BY <1>1 DEF FramesOfChunk, FrameCount
    <3>2. QED
      BY <1>3, <1>4, <2>1, <3>1 DEF B
  <2>2. 0 <= 0 * (n * B) /\ 0 = 0 * B
    BY <1>2, <1>3
  <2>3. QED
    BY <1>3, <1>4, <1>5, <2>1, <2>2 DEF SpectrumSoFar
<1>13. QED
  BY <1>6, <1>7, <1>8, <1>9, <1>10, <1>11, <1>12 DEF IInv

LEMMA OnWavInfoStep == ASSUME IInv, OnWavInfo PROVE IInv'
<1>1. /\ pc = "info" /\ call.op = "decode"
      /\ UNCHANGED <<inputVars, pos, info, delivered, entries, frames>>
  BY DEF OnWavInfo, Accepted
<1>2. CASE /\ \E n \in FramesChunk : Allocate(n)
           /\ UNCHANGED <<interrupted, errors, ctxErr, result>>
  <2>1. PICK n \in Nat : Allocate(n) /\ UNCHANGED <<interrupted, errors, ctxErr, result>>
    BY <1>2, WavAssumption
  <2>2. UNCHANGED <<file, calls, pos, info, outputVars>> /\ call' = call
    BY <1>1, <2>1 DEF inputVars, outputVars
  <2>3. QED
    BY <1>1, <2>1, <2>2, AllocateStep DEF IInv, Records
<1>3. CASE interrupted' = TRUE /\ Return("false", FALSE) /\ UNCHANGED <<capacity, remain>>
  <2>1. pc' = "idle" /\ result' = "false" /\ errors' = 0 /\ ctxErr' \in BOOLEAN
    BY <1>1, <1>3 DEF Return, IInv, NothingToReport, TypeOK, Within
  <2>2. QED
    BY <1>1, <1>3, <2>1, Stopped DEF Within, IInv, TypeOK
<1>4. QED
  BY <1>2, <1>3 DEF OnWavInfo

LEMMA OnWavInfoBuildStep == ASSUME IInv, OnWavInfoBuild PROVE IInv'
<1> DEFINE n == FramesOfChunk(call.chunkCount)
           s == IF call.step # AutoStep THEN call.step
                ELSE CASE n < 1000 -> 1 [] n < 10000 -> 10 [] n < 100000 -> 100 [] OTHER -> 500
<1>1. /\ pc = "info" /\ call.op = "build" /\ Allocate(n)
      /\ call' = [call EXCEPT !.step = s]
      /\ UNCHANGED <<file, calls, pos, info, outputVars>>
  BY DEF OnWavInfoBuild, Accepted
<1>2. n \in Nat
  BY <1>1, AcceptedFacts
<1>3. s \in Nat
  <2>1. call.step # AutoStep => call.step \in Nat
    BY DEF IInv, TypeOK
  <2> HIDE DEF n
  <2>2. QED
    BY <1>2, <2>1
<1> HIDE DEF s, n
<1>4. call \in [op : {"none", "read_header", "decode", "build"}, framesChunk : Nat,
               chunkCount : Nat, step : Nat \cup {AutoStep}]
  BY DEF IInv, Records
<1>5. /\ call' \in [op : {"none", "read_header", "decode", "build"}, framesChunk : Nat,
                   chunkCount : Nat, step : Nat \cup {AutoStep}]
      /\ call'.op = call.op /\ call'.chunkCount = call.chunkCount /\ call'.step = s
  BY <1>1, <1>3, <1>4
<1>6. QED
  BY <1>1, <1>2, <1>3, <1>5, AllocateStep DEF n

LEMMA RefuseStep == ASSUME IInv, Refuse PROVE IInv'
BY FailedStep DEF Refuse, Within, IInv, TypeOK

LEMMA ReadFailsStep == ASSUME IInv, ReadFails PROVE IInv'
BY FailedStep DEF ReadFails, Within, IInv, TypeOK

-----------------------------------------------------------------------------
(* The data.                                                               *)

\* A read gives what remains, what the buffer holds or what the file has.
LEMMA ToReadFacts ==
  ASSUME IInv, pc = "data"
  PROVE  /\ pos \in Nat /\ remain \in Nat /\ capacity \in Nat /\ delivered \in Nat
         /\ info.start \in Nat /\ info.size \in Nat /\ file.length \in Nat
         /\ pos = info.start + delivered /\ pos <= file.length
         /\ remain = info.size - delivered
         /\ ToRead \in Nat /\ ToRead <= remain /\ ToRead <= capacity
         /\ ToRead <= file.length - pos
         /\ ToRead \in {remain, capacity, file.length - pos}
         /\ remain <= file.length - pos => ToRead \in {remain, capacity}
<1>1. /\ pos \in Nat /\ remain \in Nat /\ capacity \in Nat /\ delivered \in Nat
      /\ info.start \in Nat /\ info.size \in Nat /\ file.length \in Nat
  BY FileFacts DEF IInv, TypeOK
<1>2. pos = info.start + delivered /\ pos <= file.length /\ remain = info.size - delivered
  BY DEF IInv, DataSoFar
<1>3. QED
  BY <1>1, <1>2 DEF ToRead, Got, Least

\* The file is read on.
LEMMA DataGoesOn ==
  ASSUME IInv, pc = "data", ToRead > 0, pos' = pos + ToRead, delivered' = delivered + ToRead,
         remain' = remain - ToRead, remain' # 0, entries' \in Nat, frames' \in Nat,
         UNCHANGED <<inputVars, info, capacity, interrupted, pc, result, errors, ctxErr>>,
         call.op = "build" =>
           /\ delivered' <= entries' * capacity
           /\ Regular => delivered' = frames' * FrameBytes(file)
  PROVE  IInv'
<1> DEFINE n == ToRead
           B == FrameBytes(file)
<1>1. UNCHANGED <<file, call, calls>>
  BY DEF inputVars
<1>2. /\ pos \in Nat /\ remain \in Nat /\ capacity \in Nat /\ delivered \in Nat /\ n \in Nat
      /\ info.start \in Nat /\ info.size \in Nat /\ file.length \in Nat
      /\ pos = info.start + delivered /\ pos <= file.length /\ remain = info.size - delivered
      /\ n <= remain /\ n <= capacity /\ n <= file.length - pos
      /\ n \in {remain, capacity, file.length - pos}
  BY ToReadFacts
<1>3. pos' \in Nat /\ delivered' \in Nat /\ remain' \in Nat
  BY <1>2
<1>4. n = capacity \/ pos' = file.length
  BY <1>2
<1>5. B \in {1, 2, 4} /\ (SampleBytes(file) = 2 => B \in {2, 4})
  BY AcceptedFacts
<1>6. FrameBytes(file)' = B /\ SampleBytes(file)' = SampleBytes(file)
  BY <1>1 DEF FrameBytes, SampleBytes
<1>7. pos' = file.length \/ (capacity # 0 /\ delivered % capacity = 0)
  <2>1. delivered = 0 /\ capacity # 0 => delivered % capacity = 0
    BY <1>2
  <2>2. delivered > 0 => delivered % capacity = 0 \/ pos = file.length
    BY DEF IInv, DecodedIsData
  <2>3. capacity # 0 /\ pos # file.length
    BY <1>2
  <2>4. QED
    BY <1>2, <2>1, <2>2, <2>3
<1>8. pos' = file.length \/ delivered' % capacity = 0
  <2>1. ASSUME pos' # file.length PROVE (delivered + capacity) % capacity = 0
    BY <1>2, <1>7, <2>1, WholeBuffers
  <2>2. QED
    BY <1>4, <2>1
<1>9. SampleBytes(file) = 2 => delivered' % 2 = 0 \/ pos' = file.length
  <2>1. ASSUME SampleBytes(file) = 2, pos' # file.length PROVE delivered' % 2 = 0
    <3>1. PICK m \in Nat : capacity = m * B
      BY DEF IInv, DataSoFar
    <3>2. capacity % 2 = 0
      BY <1>5, <2>1, <3>1
    <3>3. pos # file.length
      BY <1>2
    <3>4. delivered % 2 = 0
      BY <2>1, <3>3 DEF IInv, DataSoFar
    <3>5. QED
      BY <1>2, <1>4, <2>1, <3>2, <3>4
  <2>2. QED
    BY <2>1
<1>10. TypeOK' /\ Records'
  BY <1>1, <1>3 DEF IInv, TypeOK, Records
<1>11. /\ NothingToReport' /\ Checked' /\ NothingSoFar' /\ ChunksSoFar'
       /\ HeaderDescribesFile'
  BY <1>1 DEF IInv, NothingToReport, Checked, NothingSoFar, ChunksSoFar, HeaderDescribesFile,
              Within
<1>12. DataSoFar'
  <2>1. info'.start + delivered' = pos' /\ pos' <= file'.length /\ remain' = info'.size - delivered'
    BY <1>1, <1>2
  <2>2. \E m \in Nat : capacity' = m * FrameBytes(file)'
    BY <1>6 DEF IInv, DataSoFar
  <2>3. QED
    BY <1>1, <1>2, <1>6, <1>9, <2>1, <2>2 DEF DataSoFar
<1>13. DecodedIsData' /\ FailureIsExplained' /\ CrashOnlyIfMalformed' /\ SpectrumCoversFile'
  BY <1>1, <1>8 DEF DecodedIsData, FailureIsExplained, CrashOnlyIfMalformed,
                    SpectrumCoversFile, Done
<1>14. SpectrumSoFar'
  <2>1. Regular' = Regular
    BY <1>1 DEF Regular, FrameBytes, SampleBytes
  <2>2. FramesOfChunk(call.chunkCount)' = FramesOfChunk(call.chunkCount)
    BY <1>1 DEF FramesOfChunk, FrameCount
  <2>3. QED
    BY <1>1, <1>6, <2>1, <2>2 DEF IInv, SpectrumSoFar
<1>15. QED
  BY <1>10, <1>11, <1>12, <1>13, <1>14 DEF IInv

\* decode() returns true.
LEMMA Finished ==
  ASSUME IInv, pc = "data", Return("true", FALSE),
         pos' = info.start + delivered', pos' \in Nat, delivered' \in Nat, remain' \in Nat,
         entries' \in Nat, frames' \in Nat,
         delivered' = IF capacity = 0 THEN 0 ELSE Least(info.size, file.length - info.start),
         UNCHANGED <<inputVars, info, capacity, interrupted>>,
         call.op = "build" =>
           /\ delivered' <= entries' * capacity
           /\ Regular => delivered' = frames' * FrameBytes(file)
  PROVE  IInv'
<1> DEFINE B == FrameBytes(file)
           k == call.chunkCount
           n == FramesOfChunk(k)
<1>1. UNCHANGED <<file, call, calls>>
  BY DEF inputVars
<1>2. errors = 0 /\ interrupted = FALSE /\ ctxErr = FALSE
  BY DEF IInv, NothingToReport, TypeOK, Within
<1>3. pc' = "idle" /\ result' = "true" /\ errors' = 0 /\ ctxErr' = FALSE
  BY <1>2 DEF Return
<1>4. TypeOK' /\ Records'
  <2>1. ctxErr' \in BOOLEAN /\ interrupted' \in BOOLEAN
    BY <1>2, <1>3
  <2>2. {pos, capacity, remain, delivered, entries, frames}' \subseteq Nat
    BY DEF IInv, TypeOK
  <2>3. QED
    BY <1>1, <1>3, <2>1, <2>2 DEF IInv, TypeOK, Records
<1>5. /\ NothingToReport' /\ Checked' /\ NothingSoFar' /\ ChunksSoFar' /\ DataSoFar'
      /\ SpectrumSoFar'
  BY <1>3 DEF NothingToReport, Checked, NothingSoFar, ChunksSoFar, DataSoFar, SpectrumSoFar,
              Within
<1>6. HeaderDescribesFile'
  BY <1>1 DEF IInv, HeaderDescribesFile
<1>7. DecodedIsData'
  BY <1>1, <1>3 DEF DecodedIsData, Done
<1>8. FailureIsExplained' /\ CrashOnlyIfMalformed'
  BY <1>1, <1>2, <1>3 DEF FailureIsExplained, CrashOnlyIfMalformed, Done
<1>9. SpectrumCoversFile'
  <2>1. ASSUME call.op = "build", Regular
        PROVE  /\ capacity > 0 => frames' = FrameCount
               /\ FrameCount >= k => entries' >= k
    <3>1. /\ TypeOK /\ file.blockAlign # 0 /\ B \in {1, 2, 4} /\ k \in Nat \ {0} /\ n \in Nat
      BY <2>1, AcceptedFacts
    <3>2. /\ capacity \in Nat /\ info.size \in Nat /\ info.start \in Nat /\ file.length \in Nat
          /\ capacity = n * B
      BY <2>1, ToReadFacts DEF IInv, SpectrumSoFar
    <3>3. FrameCount \in Nat /\ info.size = FrameCount * B
      <4>1. FrameCount = info.size \div B /\ info.size % B = 0
        BY <2>1 DEF Regular, FrameCount
      <4> HIDE DEF B
      <4>2. QED
        BY <3>1, <3>2, <4>1, WholeFrames
    <3> HIDE DEF B, n, k
    <3>4. capacity > 0 => delivered' = info.size
      BY <2>1, <3>2 DEF Regular, Least
    <3>5. capacity > 0 => frames' = FrameCount
      BY <2>1, <3>1, <3>3, <3>4 DEF B
    <3>6. ASSUME FrameCount >= k PROVE entries' >= k
      <4>1. n # 0
        BY <3>1, <3>3, <3>6, FramesFacts DEF n
      <4>2. capacity > 0
        BY <3>1, <3>2, <4>1
      <4>3. FrameCount * B <= entries' * (n * B)
        BY <2>1, <3>2, <3>3, <3>4, <4>2
      <4>4. FrameCount <= entries' * n
        BY <3>1, <3>3, <4>3, CancelledFrameBytes
      <4>5. QED
        BY <3>1, <3>3, <3>6, <4>4, FramesFacts DEF n
    <3>7. QED
      BY <3>5, <3>6
  <2>2. Regular' = Regular /\ FrameCount' = FrameCount /\ FrameBytes(file)' = B
    BY <1>1 DEF Regular, FrameCount, FrameBytes, SampleBytes
  <2>3. QED
    BY <1>1, <2>1, <2>2 DEF SpectrumCoversFile, Done, Regular
<1>10. QED
  BY <1>4, <1>5, <1>6, <1>7, <1>8, <1>9 DEF IInv


\* When nothing remains, all the data was given that the file has.
LEMMA LastRead ==
  ASSUME IInv, pc = "data", ToRead > 0, remain - ToRead = 0
  PROVE  /\ pos + ToRead = info.start + (delivered + ToRead)
         /\ capacity # 0
         /\ delivered + ToRead = Least(info.size, file.length - info.start)
BY ToReadFacts DEF Least

LEMMA OnRawDataStep == ASSUME IInv, OnRawData PROVE IInv'
<1>1. /\ pc = "data" /\ call.op = "decode" /\ ToRead > 0
      /\ pos' = pos + ToRead /\ delivered' = delivered + ToRead
      /\ UNCHANGED <<inputVars, info, capacity, entries, frames>>
  BY DEF OnRawData
<1>2. /\ pos' \in Nat /\ delivered' \in Nat /\ remain - ToRead \in Nat
      /\ capacity \in Nat /\ remain \in Nat /\ entries \in Nat /\ frames \in Nat
  <2>1. entries \in Nat /\ frames \in Nat
    BY DEF IInv, TypeOK
  <2>2. QED
    BY <1>1, <2>1, ToReadFacts
<1>3. CASE /\ remain' = remain - ToRead /\ UNCHANGED interrupted
           /\ remain' # 0 /\ UNCHANGED <<pc, result, errors, ctxErr>>
  BY <1>1, <1>2, <1>3, DataGoesOn
<1>4. CASE /\ remain' = remain - ToRead /\ UNCHANGED interrupted
           /\ remain' = 0 /\ Return("true", FALSE)
  BY <1>1, <1>2, <1>4, LastRead, Finished
<1>5. CASE interrupted' = TRUE /\ Return("false", FALSE) /\ UNCHANGED remain
  <2>1. pc' = "idle" /\ result' = "false" /\ errors' = 0 /\ ctxErr' \in BOOLEAN
    BY <1>1, <1>5 DEF Return, IInv, NothingToReport, TypeOK, Within
  <2>2. QED
    BY <1>1, <1>2, <1>5, <2>1, Stopped DEF Within
<1>6. QED
  BY <1>3, <1>4, <1>5 DEF OnRawData

\* The frames that are looked at in n bytes.
LEMMA FramesInFacts ==
  ASSUME IInv, pc = "data", call.op = "build", call.step # 0, NEW n \in Nat
  PROVE  /\ FramesIn(n) \in Nat
         /\ call.step = 1 /\ n % FrameBytes(file) = 0 => n = FramesIn(n) * FrameBytes(file)
<1> DEFINE B == FrameBytes(file)
           d == call.step * B
<1>1. B \in {1, 2, 4} /\ call.step \in Nat \ {0}
  BY AcceptedFacts DEF IInv, SpectrumSoFar
<1>2. FramesIn(n) = (n + d - 1) \div d
  BY DEF FramesIn
<1> HIDE DEF B
<1>3. d \in Nat \ {0} /\ (call.step = 1 => d = B)
  BY <1>1
<1> HIDE DEF d
<1>4. n + d - 1 \in Nat
  BY <1>3
<1>5. FramesIn(n) \in Nat
  BY <1>2, <1>3, <1>4
<1>6. ASSUME d = B, n % B = 0 PROVE n = FramesIn(n) * B
  <2>1. PICK m \in Nat : n = m * B
    BY <1>1, <1>6, WholeFrames
  <2>2. (m * B + B - 1) \div B = m
    BY <1>1
  <2>3. QED
    BY <1>2, <1>6, <2>1, <2>2
<1>7. QED
  BY <1>3, <1>5, <1>6 DEF B

LEMMA OnRawDataBuildStep == ASSUME IInv, OnRawDataBuild PROVE IInv'
<1> DEFINE n == ToRead
           B == FrameBytes(file)
           samples == n \div SampleBytes(file)
<1>1. /\ pc = "data" /\ call.op = "build" /\ n > 0
      /\ pos' = pos + n /\ delivered' = delivered + n
      /\ UNCHANGED <<inputVars, info, capacity>>
  BY DEF OnRawDataBuild
<1>2. /\ pos' \in Nat /\ delivered' \in Nat /\ remain - n \in Nat /\ n \in Nat
      /\ capacity \in Nat /\ remain \in Nat
  BY <1>1, ToReadFacts
<1>3. entries \in Nat /\ frames \in Nat
  BY DEF IInv, TypeOK
<1>4. SampleBytes(file) \in {1, 2} /\ B \in {1, 2, 4} /\ (SampleBytes(file) = 2 => B \in {2, 4})
  BY <1>1, AcceptedFacts
<1>5. CASE /\ samples = 0 /\ pc' = "crashed"
           /\ UNCHANGED <<remain, result, errors, ctxErr, interrupted, entries, frames>>
  <2>1. UNCHANGED <<file, call, calls>>
    BY <1>1 DEF inputVars
  <2>2. TypeOK' /\ Records'
    BY <1>1, <1>2, <1>5, <2>1 DEF IInv, TypeOK, Records
  <2>3. /\ NothingToReport' /\ Checked' /\ NothingSoFar' /\ ChunksSoFar' /\ DataSoFar'
        /\ SpectrumSoFar' /\ DecodedIsData' /\ FailureIsExplained' /\ SpectrumCoversFile'
    BY <1>5 DEF NothingToReport, Checked, NothingSoFar, ChunksSoFar, DataSoFar, SpectrumSoFar,
                DecodedIsData, FailureIsExplained, SpectrumCoversFile, Done, Within
  <2>4. HeaderDescribesFile'
    BY <1>1, <2>1 DEF IInv, HeaderDescribesFile
  <2>5. SampleBytes(file) = 2 /\ n = 1
    BY <1>1, <1>2, <1>4, <1>5
  <2>6. Least(info.size, file.length - info.start) % 2 = 1
    <3>1. PICK m \in Nat : capacity = m * B
      BY <1>1 DEF IInv, DataSoFar
    <3>2. capacity # 1
      BY <1>4, <2>5, <3>1
    <3>3. n = remain \/ n = file.length - pos
      BY <1>1, <2>5, <3>2, ToReadFacts
    <3>4. pos # file.length
      BY <1>1, ToReadFacts
    <3>5. delivered % 2 = 0
      BY <1>1, <2>5, <3>4 DEF IInv, DataSoFar
    <3>6. Least(info.size, file.length - info.start) = delivered + 1
      BY <1>1, <2>5, <3>3, ToReadFacts DEF Least
    <3>7. QED
      BY <1>1, <3>5, <3>6, ToReadFacts
  <2>7. CrashOnlyIfMalformed'
    BY <1>1, <2>1, <2>5, <2>6 DEF CrashOnlyIfMalformed, SampleBytes
  <2>8. QED
    BY <2>2, <2>3, <2>4, <2>7 DEF IInv
<1>6. CASE /\ pc' = "idle" /\ result' = "false" /\ ctxErr' = TRUE /\ interrupted' = TRUE
           /\ UNCHANGED <<remain, errors, entries, frames>>
  <2>1. errors' \in 0..1
    BY <1>6 DEF IInv, TypeOK
  <2>2. QED
    BY <1>1, <1>2, <1>3, <1>6, <2>1, Stopped DEF Within
<1>10. CASE /\ pc' = "endless"
            /\ UNCHANGED <<remain, result, errors, ctxErr, interrupted, entries, frames>>
  <2>1. UNCHANGED <<file, call, calls>>
    BY <1>1 DEF inputVars
  <2>2. TypeOK' /\ Records'
    BY <1>1, <1>2, <1>10, <2>1 DEF IInv, TypeOK, Records
  <2>3. /\ NothingToReport' /\ Checked' /\ NothingSoFar' /\ ChunksSoFar' /\ DataSoFar'
        /\ SpectrumSoFar' /\ DecodedIsData' /\ FailureIsExplained' /\ SpectrumCoversFile'
        /\ CrashOnlyIfMalformed'
    BY <1>10 DEF NothingToReport, Checked, NothingSoFar, ChunksSoFar, DataSoFar, SpectrumSoFar,
                 DecodedIsData, FailureIsExplained, SpectrumCoversFile, CrashOnlyIfMalformed,
                 Done, Within
  <2>4. HeaderDescribesFile'
    BY <1>1, <2>1 DEF IInv, HeaderDescribesFile
  <2>5. QED
    BY <2>2, <2>3, <2>4 DEF IInv
<1>7. ASSUME call.step # 0
      PROVE  /\ entries + 1 \in Nat /\ frames + FramesIn(n) \in Nat
             /\ delivered + n <= (entries + 1) * capacity
             /\ Regular => delivered + n = (frames + FramesIn(n)) * B
  <2>1. delivered <= entries * capacity /\ entries * capacity \in Nat
    BY <1>1, <1>2, <1>3 DEF IInv, SpectrumSoFar
  <2>2. (entries + 1) * capacity = entries * capacity + capacity
    BY <1>2, <1>3
  <2>3. FramesIn(n) \in Nat
    BY <1>1, <1>2, <1>7, FramesInFacts
  <2>4. delivered + n <= (entries + 1) * capacity
    BY <1>1, <2>1, <2>2, ToReadFacts
  <2>5. ASSUME Regular PROVE delivered + n = (frames + FramesIn(n)) * B
    <3>1. delivered = frames * B
      BY <1>1, <2>5 DEF IInv, SpectrumSoFar
    <3>2. info.size % B = 0 /\ info.start + info.size <= file.length /\ call.step = 1
      BY <2>5 DEF Regular
    <3>3. n \in {remain, capacity} /\ remain = info.size - delivered /\ info.size \in Nat
      BY <1>1, <3>2, ToReadFacts
    <3>4. PICK m \in Nat : capacity = m * B
      BY <1>1 DEF IInv, DataSoFar
    <3> HIDE DEF n, B
    <3>5. n % B = 0
      BY <1>2, <1>3, <1>4, <3>1, <3>2, <3>3, <3>4
    <3>6. n = FramesIn(n) * B
      BY <1>1, <1>2, <1>7, <3>2, <3>5, FramesInFacts DEF B
    <3>7. QED
      BY <1>3, <1>4, <2>3, <3>1, <3>6
  <2>6. QED
    BY <1>3, <2>3, <2>4, <2>5
<1>8. ASSUME /\ call.step # 0
             /\ entries' = entries + 1 /\ frames' = frames + FramesIn(n)
             /\ remain' = remain - n /\ UNCHANGED interrupted
             /\ IF remain' = 0 THEN Return("true", FALSE)
                ELSE UNCHANGED <<pc, result, errors, ctxErr>>
      PROVE  IInv'
  <2>1. /\ entries' \in Nat /\ frames' \in Nat /\ remain' \in Nat
        /\ delivered' <= entries' * capacity
        /\ Regular => delivered' = frames' * B
    BY <1>1, <1>2, <1>7, <1>8
  <2>2. CASE remain' = 0
    BY <1>1, <1>2, <1>8, <2>1, <2>2, LastRead, Finished
  <2>3. CASE remain' # 0
    BY <1>1, <1>8, <2>1, <2>3, DataGoesOn
  <2>4. QED
    BY <2>2, <2>3
<1>9. QED
  BY <1>5, <1>6, <1>10, <1>8 DEF OnRawDataBuild

LEMMA EndOfDataStep == ASSUME IInv, EndOfData PROVE IInv'
<1>1. /\ pc = "data" /\ ToRead = 0 /\ Return("true", FALSE)
      /\ UNCHANGED <<inputVars, pos, info, capacity, remain, delivered, interrupted, entries,
                     frames>>
  BY DEF EndOfData
<1>2. /\ pos \in Nat /\ delivered \in Nat /\ remain \in Nat /\ entries \in Nat /\ frames \in Nat
      /\ pos = info.start + delivered
  <2>1. entries \in Nat /\ frames \in Nat
    BY DEF IInv, TypeOK
  <2>2. QED
    BY <1>1, <2>1, ToReadFacts
<1>3. delivered = IF capacity = 0 THEN 0 ELSE Least(info.size, file.length - info.start)
  <2>1. CASE capacity = 0
    <3>1. delivered = 0
      BY <1>1, <2>1 DEF IInv, DataSoFar
    <3>2. QED
      BY <2>1, <3>1
  <2>2. CASE capacity # 0
    <3>1. remain = 0 \/ pos = file.length
      BY <1>1, <2>2, ToReadFacts
    <3>2. QED
      BY <1>1, <2>2, <3>1, ToReadFacts DEF Least
  <2>3. QED
    BY <2>1, <2>2
<1>4. call.op = "build" =>
        delivered <= entries * capacity /\ (Regular => delivered = frames * FrameBytes(file))
  BY <1>1 DEF IInv, SpectrumSoFar
<1>5. QED
  BY <1>1, <1>2, <1>3, <1>4, Finished


LEMMA NextStep == IInv /\ [Next]_vars => IInv'
<1> SUFFICES ASSUME IInv, [Next]_vars PROVE IInv'
  OBVIOUS
<1>1. CASE Step
  BY <1>1, ReadHeaderStep, ReadChunkStep, ReadChunkFailsStep, ReadDataHeaderStep, RefuseStep,
     OnWavInfoStep, OnWavInfoBuildStep, OnRawDataStep, OnRawDataBuildStep, EndOfDataStep
     DEF Step
<1>2. CASE UNCHANGED vars
  <2>1. UNCHANGED <<file, call, calls, pos, pc, info, capacity, remain, delivered, errors,
                    interrupted, ctxErr, entries, frames, result>>
    BY <1>2 DEF vars, inputVars, outputVars
  <2>2. TypeOK' /\ Records' /\ NothingToReport' /\ Checked' /\ NothingSoFar'
    BY <2>1 DEF IInv, TypeOK, Records, NothingToReport, Checked, NothingSoFar
  <2>3. ChunksSoFar' /\ HeaderDescribesFile' /\ DataSoFar' /\ DecodedIsData'
    BY <2>1 DEF IInv, ChunksSoFar, HeaderDescribesFile, DataSoFar, DecodedIsData, Done,
                FrameBytes, SampleBytes
  <2>4. FailureIsExplained' /\ CrashOnlyIfMalformed'
    BY <2>1 DEF IInv, FailureIsExplained, CrashOnlyIfMalformed, Done
  <2>5. SpectrumSoFar' /\ SpectrumCoversFile'
    BY <2>1 DEF IInv, SpectrumSoFar, SpectrumCoversFile, Done, Regular, FramesOfChunk,
                FrameCount, FrameBytes, SampleBytes
  <2>6. QED
    BY <2>2, <2>3, <2>4, <2>5 DEF IInv
<1>3. QED
  BY <1>1, <1>2, CallsStep, ReadFailsStep DEF Next

LEMMA AlwaysInv == Spec => []IInv
BY InitCalls, NextStep, PTL DEF Spec
-----------------------------------------------------------------------------
\* Every variable keeps its type: no size or position gets negative, and on_error
\* is called once at most (wav_explorer.cpp:90-332).
THEOREM TypeCorrect == Spec => []TypeOK
<1>1. IInv => TypeOK
  BY DEF IInv
<1>2. QED
  BY <1>1, AlwaysInv, PTL

\* What wav_info says of a file without odd chunks is so, and what decode() gives is
\* the data chunk, or what the file has of it, in whole buffers up to the end of the
\* file (wav_explorer.cpp:90-265, 267-332).
THEOREM GivenIsInFile == Spec => []DataIsOfFile
<1>1. IInv => DataIsOfFile
  BY DEF IInv, DataIsOfFile
<1>2. QED
  BY <1>1, AlwaysInv, PTL

\* A call that returns false has called on_error or was stopped by its callback, a
\* builder has an error exactly when it returns nothing, and a division by zero is
\* the fault of the file (wav_explorer.cpp:267-404, 432-619).
THEOREM EndsExplained == Spec => []EveryEndIsExplained
<1>1. IInv => EveryEndIsExplained
  BY DEF IInv, EveryEndIsExplained
<1>2. QED
  BY <1>1, AlwaysInv, PTL

\* With a step of 1 every frame of regular data goes into one entry, for any number
\* of chunks, channels and bytes of a sample, and there are as many entries as were
\* asked for (wav_explorer.cpp:334-404, 432-619).
THEOREM SpectrumWhole == Spec => []SpectrumCoversFile
<1>1. IInv => SpectrumCoversFile
  BY DEF IInv
<1>2. QED
  BY <1>1, AlwaysInv, PTL

\* A call reads on inside of the file, or it ends; only the step from the header to
\* the data reads nothing, and from the data no step leads back.
ReadsOn ==
  \/ pc' \in {"idle", "crashed"}
  \/ pos < pos' /\ pos' <= file.length
  \/ pc = "info" /\ pc' = "data" /\ UNCHANGED pos

\* Only a builder with a step of 0 comes to a loop that does not end.
StepReadsOn ==
  /\ file' = file
  /\ pc = "idle" \/ ReadsOn
  /\ pc = "data" => pc' # "info"
  /\ pc' = "endless" => pc = "data" /\ call.op = "build" /\ call.step = 0

LEMMA InCallReadsOn == ASSUME IInv, Step PROVE StepReadsOn
<1>1. pos \in Nat /\ file.length \in Nat /\ file.fmtExtra \in Nat
  BY FileFacts DEF IInv, TypeOK
<1>2. CASE ReadHeader
  <2>1. CASE pc' = "chunks"
    <3>1. /\ Got(HeaderSize) = HeaderSize
          /\ file.fmtExtra = 0 \/ CanSkip(pos + HeaderSize, file.fmtExtra)
          /\ pos' = pos + HeaderSize + file.fmtExtra /\ pc = "header"
      BY <1>2, <2>1 DEF ReadHeader, Failed, Return
    <3>2. pos + HeaderSize <= file.length
      BY <3>1, GotFacts DEF IInv, HeaderSize
    <3>3. QED
      BY <1>1, <1>2, <2>1, <3>1, <3>2
         DEF ReadHeader, CanSkip, HeaderSize, StepReadsOn, ReadsOn, inputVars
  <2>2. CASE pc' = "idle"
    BY <1>2, <2>2 DEF ReadHeader, StepReadsOn, ReadsOn, inputVars
  <2>3. QED
    BY <1>2, <2>1, <2>2 DEF ReadHeader, Failed, Return
<1>3. CASE ReadChunk
  <2>1. PICK h \in HeadersAt(file, pos) :
          /\ CanSkip(pos + ChunkHeaderSize, h.size)
          /\ pos' = pos + ChunkHeaderSize + h.size
    BY <1>3 DEF ReadChunk
  <2>2. h.size \in Nat
    BY HeadersTyped, <1>1 DEF IInv, ChunkInfo, TypeOK
  <2>3. QED
    BY <1>1, <1>3, <2>1, <2>2
       DEF ReadChunk, CanSkip, ChunkHeaderSize, StepReadsOn, ReadsOn, inputVars
<1>4. CASE ReadDataHeader
  <2>1. Got(ChunkHeaderSize) = ChunkHeaderSize /\ pos' = pos + ChunkHeaderSize
    BY <1>4 DEF ReadDataHeader
  <2>2. pos + ChunkHeaderSize <= file.length
    BY <2>1, GotFacts DEF IInv, ChunkHeaderSize
  <2>3. QED
    BY <1>1, <1>4, <2>1, <2>2
       DEF ReadDataHeader, ChunkHeaderSize, StepReadsOn, ReadsOn, inputVars
<1>5. CASE OnWavInfo \/ OnWavInfoBuild
  BY <1>5 DEF OnWavInfo, OnWavInfoBuild, Accepted, Allocate, Return, StepReadsOn, ReadsOn,
              inputVars
<1>6. CASE OnRawData \/ OnRawDataBuild
  <2>1. pc = "data" /\ ToRead > 0 /\ pos' = pos + ToRead /\ file' = file
    BY <1>6 DEF OnRawData, OnRawDataBuild, inputVars
  <2>2. pos < pos' /\ pos' <= file.length
    BY <2>1, ToReadFacts
  <2>3. /\ pc' \in {"data", "idle", "crashed", "endless"}
        /\ pc' = "endless" => call.op = "build" /\ call.step = 0
    BY <1>6, <2>1 DEF OnRawData, OnRawDataBuild, Return
  <2>4. QED
    BY <2>1, <2>2, <2>3 DEF StepReadsOn, ReadsOn
<1>7. CASE ReadChunkFails \/ Refuse \/ EndOfData
  BY <1>7 DEF ReadChunkFails, Refuse, EndOfData, Failed, Return, StepReadsOn, ReadsOn, inputVars
<1>8. QED
  BY <1>2, <1>3, <1>4, <1>5, <1>6, <1>7 DEF Step

\* Each step of a call reads more of the file, never beyond its end, or is the last
\* one, or the one from the header to the data, so that a call has at most two steps
\* more than the file has bytes, whatever the sizes of chunks and buffers and
\* whatever is found where no chunk begins (wav_explorer.cpp:90-332); and the loop
\* within a step ends (:449, :493, :546, :587) unless frame_step is 0.  It is the
\* part of EveryCallReturns that needs no fairness.
THEOREM CallsReadOn == Spec => [][StepReadsOn]_vars
<1>1. ASSUME IInv, Next PROVE StepReadsOn
  <2>1. CASE Calls
    BY <2>1 DEF Calls, Start, Begin, StepReadsOn
  <2>2. CASE Step
    BY <1>1, <2>2, InCallReadsOn
  <2>3. CASE ReadFails
    BY <2>3 DEF ReadFails, Failed, Return, StepReadsOn, ReadsOn, inputVars
  <2>4. QED
    BY <1>1, <2>1, <2>2, <2>3 DEF Next
<1>2. IInv /\ [Next]_vars => [StepReadsOn]_vars
  BY <1>1
<1>3. QED
  BY <1>2, AlwaysInv, PTL DEF Spec

=============================================================================
