--------------------------- MODULE MCWavExplorer ---------------------------
(***************************************************************************)
(* WavExplorer for TLC: small files of every kind the code tells apart,    *)
(* whole ones, cut ones and ones with another chunk behind the data.       *)
(***************************************************************************)
EXTENDS WavExplorer, TLC

\* The parameters of regular files, and of others.
Good ==
  [supported : {TRUE}, pcm : {TRUE}, channels : {1, 2}, sampleSize : {8, 16},
   aligned : {TRUE}, fmtExtra : {0}, before : {<<>>, <<0, 4>>},
   dataSize : {0, 1, 3, 4, 6, 8, 12, 20}, cut : {-9, 0, 1, 8}]

Bad ==
  [supported : BOOLEAN, pcm : BOOLEAN, channels : {2, 3}, sampleSize : {4, 12, 24},
   aligned : {TRUE}, fmtExtra : {2}, before : {<<3, 2>>}, dataSize : {2}, cut : {0, 1, 10}]
  \cup
  [supported : {TRUE}, pcm : {TRUE}, channels : {1}, sampleSize : {8},
   aligned : {FALSE}, fmtExtra : {0, 2}, before : {<<>>}, dataSize : {4}, cut : {0, 14}]

\* The file with these parameters: cut bytes are missing at its end.
FileOf(f) ==
  LET g == [supported |-> f.supported, pcm |-> f.pcm, channels |-> f.channels,
            sampleSize |-> f.sampleSize, fmtExtra |-> f.fmtExtra,
            before |-> f.before, dataSize |-> f.dataSize,
            blockAlign |-> IF f.aligned THEN FrameBytes(f) ELSE 0]
      whole == StartOf(g, DataChunk(g)) + ChunkHeaderSize + g.dataSize
  IN  g @@ [length |-> whole - f.cut]

Files == {FileOf(f) : f \in Good \cup Bad}

GarbageHeaders == [data : BOOLEAN, size : {0, 5}]
=============================================================================
