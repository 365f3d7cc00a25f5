----------------------------- MODULE WavExplorer -----------------------------
(***************************************************************************)
(* ionik::audio::wav_explorer and wav_spectrum_builder: read_header(),     *)
(* decode() with its callbacks, and the spectrum built by callbacks of     *)
(* decode(), call after call on one explorer.                              *)
(*                                                                         *)
(* A file is the record of what its bytes say: a 36 byte header, fmtExtra  *)
(* more bytes of the "fmt " chunk, the sizes of the chunks before the data *)
(* (each padded to an even size, as RIFF has it), the size the "data"      *)
(* chunk claims, and the length the file really has.  What is found where  *)
(* no chunk begins can be anything.  Sums of sample values are left out;   *)
(* what is kept of the spectrum is how many frames went into it.           *)
(***************************************************************************)
EXTENDS Integers, Sequences

CONSTANTS
  File,         \* the files there may be
  FramesChunk,  \* values of frames_chunk_size
  ChunkCount,   \* values of chunk_count
  FrameStep,    \* values of frame_step, and AutoStep
  AutoStep,     \* size_t max: choose the step
  Garbage,      \* chunk headers found where none begins
  MaxCalls      \* bound: calls of the explorer

HeaderSize == 36
ChunkHeaderSize == 8

ChunkInfo == [data : BOOLEAN, size : Nat]

ASSUME WavAssumption ==
  /\ \A f \in File :
       /\ {f.supported, f.pcm} \subseteq BOOLEAN
       /\ {f.channels, f.sampleSize, f.blockAlign} \subseteq Nat
       /\ {f.fmtExtra, f.dataSize, f.length} \subseteq Nat
       /\ f.before \in Seq(Nat)
  /\ FramesChunk \subseteq Nat
  /\ ChunkCount \subseteq Nat
  /\ FrameStep \subseteq Nat \cup {AutoStep}
  /\ Garbage \subseteq ChunkInfo
  /\ MaxCalls \in Nat

VARIABLES
  file,         \* the file
  pos,          \* where it is read next
  pc,           \* where the call is
  call,         \* the call and its arguments
  info,         \* wav_info, as far as it is known
  capacity,     \* raw_buffer.size()
  remain,       \* remain_size
  delivered,    \* bytes given to on_raw_data
  errors,       \* calls of on_error
  interrupted,  \* a callback returned false
  ctxErr,       \* ctx.err of the builder is set
  entries,      \* spectrum.data.size()
  frames,       \* frames that went into the spectrum
  result,       \* what the call returned
  calls

inputVars == <<file, call, calls>>
outputVars == <<delivered, errors, interrupted, ctxErr, entries, frames, result>>
vars == <<inputVars, pos, pc, info, capacity, remain, outputVars>>

NoInfo == [extra |-> <<>>, start |-> 0, size |-> 0]
Call(op, n, k, s) == [op |-> op, framesChunk |-> n, chunkCount |-> k, step |-> s]
NoCall == Call("none", 0, 0, 1)

Init ==
  /\ file \in File
  /\ pos = 0
  /\ pc = "idle"
  /\ call = NoCall
  /\ info = NoInfo
  /\ capacity = 0 /\ remain = 0
  /\ delivered = 0 /\ errors = 0 /\ interrupted = FALSE
  /\ ctxErr = FALSE /\ entries = 0 /\ frames = 0
  /\ result = "none"
  /\ calls = 0
-----------------------------------------------------------------------------
Least(a, b) == IF a < b THEN a ELSE b

Padded(n) == n + (n % 2)

DataChunk(f) == Len(f.before) + 1

\* Where the header of chunk i begins; the "data" chunk comes last.
StartOf(f, i) ==
  LET S[k \in 1..DataChunk(f)] ==
        IF k = 1 THEN HeaderSize + f.fmtExtra
        ELSE S[k - 1] + ChunkHeaderSize + Padded(f.before[k - 1])
  IN  S[i]

\* The chunk headers that can be read at position p.
HeadersAt(f, p) ==
  LET found == {i \in 1..DataChunk(f) : StartOf(f, i) = p}
  IN  IF found = {} THEN Garbage
      ELSE {[data |-> i = DataChunk(f),
             size |-> IF i = DataChunk(f) THEN f.dataSize ELSE f.before[i]] : i \in found}

\* read() of n bytes gets this many.
Got(n) == Least(n, IF pos < file.length THEN file.length - pos ELSE 0)

\* skip(): set_pos() refuses a position that is not inside of the file.
CanSkip(p, n) == p + n < file.length

\* Bytes of one sample, and of a frame of one sample for each channel.
SampleBytes(f) == IF f.sampleSize <= 8 THEN 1 ELSE 2
FrameBytes(f) == f.channels * SampleBytes(f)

FrameCount == info.size \div file.blockAlign
-----------------------------------------------------------------------------
(* The calls.                                                              *)

\* A call of read_header(), decode() or of the builder.  Who called the builder
\* before sets callbacks of his own before a decode(); nothing rewinds the file.
Begin(c) ==
  /\ pc = "idle"
  /\ calls < MaxCalls
  /\ calls' = calls + 1
  /\ call' = c
  /\ info' = NoInfo
  /\ capacity' = 0 /\ remain' = 0
  /\ delivered' = 0 /\ errors' = 0 /\ interrupted' = FALSE
  /\ entries' = 0 /\ frames' = 0
  /\ UNCHANGED <<file, pos>>

\* The builder refuses to make no chunk at all, and nothing else: not a
\* frame_step of 0.
Rejected(c) == c.op = "build" /\ c.chunkCount = 0

Start(c) ==
  /\ Begin(c)
  /\ ctxErr' = Rejected(c)
  /\ IF Rejected(c) THEN pc' = "idle" /\ result' = "false"
                    ELSE pc' = "header" /\ result' = "none"

Calls ==
  \/ Start(Call("read_header", 0, 0, 1))
  \/ \E n \in FramesChunk : Start(Call("decode", n, 0, 1))
  \/ \E k \in ChunkCount, s \in FrameStep : Start(Call("build", 0, k, s))

\* The call returns; decode() calls on_error for an error, and the on_error of
\* the builder keeps it in ctx.err.
Return(value, error) ==
  /\ pc' = "idle"
  /\ result' = value
  /\ errors' = IF error /\ call.op # "read_header" THEN errors + 1 ELSE errors
  /\ ctxErr' = (ctxErr \/ (error /\ call.op = "build"))

Failed == Return("false", TRUE)
-----------------------------------------------------------------------------
(* read_header()                                                           *)

\* The 36 bytes and what is checked of them, and the rest of "fmt " skipped.
\* Only at position 0 do they begin with RIFF or RIFX.
ReadHeader ==
  /\ pc = "header"
  /\ LET p == pos + Got(HeaderSize)
         good == /\ Got(HeaderSize) = HeaderSize /\ pos = 0
                 /\ file.supported /\ file.channels \in {1, 2}
     IN  \/ /\ good /\ (file.fmtExtra = 0 \/ CanSkip(p, file.fmtExtra))
            /\ pos' = p + file.fmtExtra
            /\ pc' = "chunks"
            /\ UNCHANGED <<errors, ctxErr, result>>
         \/ /\ ~(good /\ (file.fmtExtra = 0 \/ CanSkip(p, file.fmtExtra)))
            /\ pos' = p
            /\ Failed
  /\ UNCHANGED <<inputVars, info, capacity, remain, delivered, interrupted, entries, frames>>

\* Mutant: the offset is asked for after the chunk is skipped.
ReadChunkOffsetLate ==
  /\ pc = "chunks"
  /\ Got(ChunkHeaderSize) = ChunkHeaderSize
  /\ \E h \in HeadersAt(file, pos) :
       LET p == pos + ChunkHeaderSize
       IN  /\ ~h.data /\ CanSkip(p, h.size)
           /\ pos' = p + h.size
           /\ info' = [info EXCEPT !.extra = Append(@, [size |-> h.size, start |-> p + h.size])]
  /\ UNCHANGED <<inputVars, pc, capacity, remain, outputVars>>

\* A chunk before the data: its size and offset are noted and it is skipped,
\* without the byte an odd size is padded with.
ReadChunk ==
  /\ pc = "chunks"
  /\ Got(ChunkHeaderSize) = ChunkHeaderSize
  /\ \E h \in HeadersAt(file, pos) :
       LET p == pos + ChunkHeaderSize
       IN  /\ ~h.data /\ CanSkip(p, h.size)
           /\ pos' = p + h.size
           /\ info' = [info EXCEPT !.extra = Append(@, [size |-> h.size, start |-> p])]
  /\ UNCHANGED <<inputVars, pc, capacity, remain, outputVars>>

\* The file ends, or the chunk reaches up to the end of the file or beyond.
ReadChunkFails ==
  /\ pc = "chunks"
  /\ \/ /\ Got(ChunkHeaderSize) < ChunkHeaderSize
        /\ pos' = pos + Got(ChunkHeaderSize)
     \/ /\ Got(ChunkHeaderSize) = ChunkHeaderSize
        /\ pos' = pos + ChunkHeaderSize
        /\ \E h \in HeadersAt(file, pos) : ~h.data /\ ~CanSkip(pos', h.size)
  /\ Failed
  /\ UNCHANGED <<inputVars, info, capacity, remain, delivered, interrupted, entries, frames>>

\* The "data" chunk ends the header, and the counts are computed: divisions by
\* sample_size / 8 and by block_align.
ReadDataHeader ==
  /\ pc = "chunks"
  /\ Got(ChunkHeaderSize) = ChunkHeaderSize
  /\ \E h \in HeadersAt(file, pos) :
       /\ h.data
       /\ pos' = pos + ChunkHeaderSize
       /\ info' = [info EXCEPT !.start = pos', !.size = h.size]
  /\ IF file.sampleSize \div 8 = 0 \/ file.blockAlign = 0
     THEN pc' = "crashed" /\ UNCHANGED result
     ELSE IF call.op = "read_header"
     THEN pc' = "idle" /\ result' = "true"
     ELSE pc' = "info" /\ UNCHANGED result
  /\ UNCHANGED <<inputVars, capacity, remain, delivered, errors, interrupted, ctxErr, entries, frames>>
-----------------------------------------------------------------------------
(* decode(), after read_header().                                          *)

\* Mutant: decode() returns false for a format it cannot decode, and no more.
RefuseSilently ==
  /\ pc = "info"
  /\ ~file.pcm \/ file.sampleSize > 16
  /\ Return("false", FALSE)
  /\ UNCHANGED <<inputVars, pos, info, capacity, remain, delivered, interrupted, entries, frames>>

\* Not PCM, or more than 16 bits.
Refuse ==
  /\ pc = "info"
  /\ ~file.pcm \/ file.sampleSize > 16
  /\ Failed
  /\ UNCHANGED <<inputVars, pos, info, capacity, remain, delivered, interrupted, entries, frames>>

\* Mutant: the frames are spread evenly, rounding up.
FramesOfChunkUp(n) == (FrameCount + n - 1) \div n

\* *frames_chunk_size as on_wav_info of the builder computes it.
FramesOfChunk(n) ==
  LET tail == FrameCount % n
  IN  IF tail = 0 THEN FrameCount \div n ELSE (FrameCount - tail) \div (n - 1)

\* The buffer for n frames; for an 8 bit sample one byte, else two.
Allocate(n) ==
  /\ capacity' = n * file.channels * SampleBytes(file)
  /\ remain' = info.size
  /\ pc' = "data"

Accepted == pc = "info" /\ file.pcm /\ file.sampleSize <= 16

\* on_wav_info of an application: it may change the number of frames, or stop.
OnWavInfo ==
  /\ Accepted /\ call.op = "decode"
  /\ \/ /\ \E n \in FramesChunk : Allocate(n)
        /\ UNCHANGED <<interrupted, errors, ctxErr, result>>
     \/ /\ interrupted' = TRUE
        /\ Return("false", FALSE)
        /\ UNCHANGED <<capacity, remain>>
  /\ UNCHANGED <<inputVars, pos, info, delivered, entries, frames>>

\* on_wav_info of the builder, with the step chosen when it is to be: all sizes
\* and numbers of channels that come this far have their build_from function.
OnWavInfoBuild ==
  /\ Accepted /\ call.op = "build"
  /\ LET n == FramesOfChunk(call.chunkCount)
     IN  /\ Allocate(n)
         /\ call' = [call EXCEPT !.step =
              IF @ # AutoStep THEN @
              ELSE CASE n < 1000 -> 1 [] n < 10000 -> 10
                     [] n < 100000 -> 100 [] OTHER -> 500]
  /\ UNCHANGED <<file, calls, pos, info, outputVars>>

\* Mutant: whole buffers are read, up to the end of the file.
ToReadWhole == Got(capacity)

\* What the next read() of decode() gets.
ToRead == Got(Least(remain, capacity))

\* A chunk is read, and the application given it: it goes on or stops.
OnRawData ==
  /\ pc = "data" /\ call.op = "decode"
  /\ ToRead > 0
  /\ pos' = pos + ToRead
  /\ delivered' = delivered + ToRead
  /\ \/ /\ remain' = remain - ToRead
        /\ IF remain' = 0 THEN Return("true", FALSE)
           ELSE UNCHANGED <<pc, result, errors, ctxErr>>
        /\ UNCHANGED interrupted
     \/ /\ interrupted' = TRUE
        /\ Return("false", FALSE)
        /\ UNCHANGED remain
  /\ UNCHANGED <<inputVars, info, capacity, entries, frames>>

\* Mutant: an iterator of one sample is used for frames of every kind.
FramesInMono(n) == (n + call.step * SampleBytes(file) - 1) \div (call.step * SampleBytes(file))

\* The frames the loop of build_from_*() looks at in n bytes.
FramesIn(n) == (n + call.step * FrameBytes(file) - 1) \div (call.step * FrameBytes(file))

\* The same, and the build_from function is given it: "size % samples_count"
\* must be 0, and samples_count not.  "pos += ctx.frame_step" gets nowhere with a
\* step of 0, which nobody refuses: the loop never ends.
OnRawDataBuild ==
  LET n == ToRead
      samples == n \div SampleBytes(file)
  IN  /\ pc = "data" /\ call.op = "build"
      /\ n > 0
      /\ pos' = pos + n
      /\ delivered' = delivered + n
      /\ IF samples = 0
         THEN /\ pc' = "crashed"
              /\ UNCHANGED <<remain, result, errors, ctxErr, interrupted, entries, frames>>
         ELSE IF n % samples # 0
         THEN /\ pc' = "idle" /\ result' = "false"
              /\ ctxErr' = TRUE /\ interrupted' = TRUE
              /\ UNCHANGED <<remain, errors, entries, frames>>
         ELSE IF call.step = 0
         THEN /\ pc' = "endless"
              /\ UNCHANGED <<remain, result, errors, ctxErr, interrupted, entries, frames>>
         ELSE /\ entries' = entries + 1
              /\ frames' = frames + FramesIn(n)
              /\ remain' = remain - n
              /\ IF remain' = 0 THEN Return("true", FALSE)
                 ELSE UNCHANGED <<pc, result, errors, ctxErr>>
              /\ UNCHANGED interrupted
      /\ UNCHANGED <<inputVars, info, capacity>>

\* Mutant: the loop only ends when nothing remains.
EndOfDataNever ==
  /\ pc = "data"
  /\ ToRead = 0
  /\ IF remain = 0 THEN Return("true", FALSE) ELSE UNCHANGED <<pc, result, errors, ctxErr>>
  /\ UNCHANGED <<inputVars, pos, info, capacity, remain, delivered, interrupted, entries, frames>>

\* Nothing could be read: the data, the buffer or the file is empty.
EndOfData ==
  /\ pc = "data"
  /\ ToRead = 0
  /\ Return("true", FALSE)
  /\ UNCHANGED <<inputVars, pos, info, capacity, remain, delivered, interrupted, entries, frames>>

\* read() fails: the call returns false, decode() after on_error.
ReadFails ==
  /\ pc \in {"header", "chunks", "data"}
  /\ Failed
  /\ UNCHANGED <<inputVars, pos, info, capacity, remain, delivered, interrupted, entries, frames>>

Step ==
  \/ ReadHeader \/ ReadChunk \/ ReadChunkFails \/ ReadDataHeader
  \/ Refuse \/ OnWavInfo \/ OnWavInfoBuild
  \/ OnRawData \/ OnRawDataBuild \/ EndOfData

Next == Calls \/ Step \/ ReadFails

Spec == Init /\ [][Next]_vars

\* A call that has begun goes on: it never waits for anybody.
FairSpec == Spec /\ WF_vars(Step)
-----------------------------------------------------------------------------
\* The values of the variables: sizes and positions never get negative, which
\* in the code would wrap around.
TypeOK ==
  /\ file \in File
  /\ {pos, capacity, remain, delivered, entries, frames} \subseteq Nat
  /\ pc \in {"idle", "header", "chunks", "info", "data", "crashed", "endless"}
  /\ call.op \in {"none", "read_header", "decode", "build"}
  /\ call.framesChunk \in Nat /\ call.chunkCount \in Nat
  /\ call.step \in Nat \cup {AutoStep}
  /\ info.start \in Nat /\ info.size \in Nat
  /\ info.extra \in Seq([size : Nat, start : Nat])
  /\ errors \in 0..1
  /\ interrupted \in BOOLEAN /\ ctxErr \in BOOLEAN
  /\ result \in {"none", "true", "false"}
  /\ calls \in 0..MaxCalls

\* No chunk before the data has an odd size, whose padding nothing skips.
Even(f) == \A i \in 1..Len(f.before) : f.before[i] % 2 = 0

\* wav_info lists the chunks before the data, each with its size and where its
\* content begins, and the data chunk, in files without odd sizes.
HeaderDescribesFile ==
  info.start # 0 /\ Even(file) =>
    /\ info.size = file.dataSize
    /\ info.start = StartOf(file, DataChunk(file)) + ChunkHeaderSize
    /\ info.extra = [i \in 1..Len(file.before) |->
         [size |-> file.before[i], start |-> StartOf(file, i) + ChunkHeaderSize]]

Done(op) == pc = "idle" /\ call.op = op

\* A decode() that returns true, for an application or for the builder, has
\* given its callback the bytes of the data chunk, all the file has of them and
\* nothing else, unless the buffer had no size; and the buffers it gave before
\* the last were full ones, that is whole frames.
DecodedIsData ==
  /\ (Done("decode") \/ Done("build")) /\ result = "true" =>
       /\ delivered = IF capacity = 0 THEN 0 ELSE Least(info.size, file.length - info.start)
       /\ pos = info.start + delivered
  /\ pc = "data" /\ delivered > 0 => delivered % capacity = 0 \/ pos = file.length

\* What the explorer says of a file, and gives out of it, is in the file.
DataIsOfFile == HeaderDescribesFile /\ DecodedIsData

\* A decode() that returns false has either called on_error, once, or was
\* stopped by a callback; the builder that returns nothing has an error to
\* throw, and one that returns a spectrum has none.
FailureIsExplained ==
  /\ Done("decode") /\ result = "true" => errors = 0 /\ ~interrupted
  /\ Done("decode") /\ result = "false" => (errors = 1 <=> ~interrupted)
  /\ Done("build") => (ctxErr <=> result = "false")

\* Only a malformed file makes a division by zero: less than 8 bits a sample, a
\* block_align of 0 (wav_explorer.cpp:259-260), or 16 bit data with half a
\* sample at the end (:532-534).
CrashOnlyIfMalformed ==
  pc = "crashed" =>
    \/ file.sampleSize < 8 \/ file.blockAlign = 0
    \/ SampleBytes(file) = 2 /\ Least(info.size, file.length - info.start) % 2 = 1

\* However a call ends, it can be told why.
EveryEndIsExplained == FailureIsExplained /\ CrashOnlyIfMalformed

\* When every frame is looked at, each frame of the data goes into exactly one
\* entry of the spectrum; and there are at least as many entries as chunks were
\* asked for, when there are that many frames.
SpectrumCoversFile ==
  /\ Done("build") /\ result = "true" /\ call.step = 1
  /\ file.blockAlign = FrameBytes(file)
  /\ info.size % FrameBytes(file) = 0 /\ info.start + info.size <= file.length
  => /\ capacity > 0 => frames = FrameCount
     /\ FrameCount >= call.chunkCount => entries >= call.chunkCount

\* Every call returns, whatever the sizes of chunks and buffers are, but a builder
\* that was given a frame_step of 0 and has data to look at: its loop (:449, :493,
\* :546, :587) does not end.
EveryCallReturns ==
  pc # "idle" ~>
    \/ pc \in {"idle", "crashed"}
    \/ pc = "endless" /\ call.op = "build" /\ call.step = 0
=============================================================================
