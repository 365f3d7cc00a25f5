----------------------------- MODULE MCProcText -----------------------------
(***************************************************************************)
(* ProcText for TLC: texts of two or three lines of each format, in which  *)
(* each line has at most one lexeme too few, too many or exchanged.  That  *)
(* includes lines that run into each other and a missing end.              *)
(***************************************************************************)
EXTENDS SequencesExt

CONSTANTS Format, Text

VARIABLES format, text, pos, records, processors, inCore, outcome

Reader == INSTANCE ProcText WITH cores <- processors

ASSUME TextAssumption ==
  /\ Format \subseteq {"stat", "status", "meminfo", "cpuinfo", "os-release"}
  /\ \A f \in Format : Text[f] \subseteq Seq(Reader!Lexeme)

WellFormed(f) ==
  CASE f = "stat" ->
         {<<"key", "ws", "num", "ws", "num", "nl">>, <<"kB", "ws", "num", "nl">>}
    [] f = "status" ->
         {<<"key", "sep", "ws", "num", "ws", "kB", "nl">>,
          <<"kB", "sep", "ws", "other", "ws", "num", "nl">>}
    [] f = "meminfo" ->
         {<<"key", "sep", "ws", "num", "ws", "kB", "nl">>, <<"kB", "num", "sep", "num", "nl">>}
    [] f = "cpuinfo" ->
         {<<"key", "ws", "sep", "ws", "num", "nl">>, <<"kB", "sep", "nl">>,
          <<"kB", "ws", "sep", "ws", "num", "other", "nl", "nl">>}
    [] f = "os-release" ->
         {<<"key", "sep", "quote", "num", "ws", "kB", "quote", "nl">>,
          <<"kB", "sep", "kB", "nl">>}

\* The lines with at most one edit.
Edited(S) ==
  S \cup UNION {{RemoveAt(s, i) : i \in DOMAIN s} : s \in S}
    \cup UNION {{ReplaceAt(s, i, x) : i \in DOMAIN s, x \in {"num", "nl", "other"}} : s \in S}
    \cup UNION {{InsertAt(s, i, x) : i \in 1..(Len(s) + 1), x \in {"ws", "nl", "quote"}} : s \in S}

Texts == [f \in Format |->
  {a \o b : a \in Edited(WellFormed(f)), b \in Edited(WellFormed(f))}]

ReaderSpec == Reader!FairSpec

\* The values of the variables; see ProcText.
ReaderTypeOK == Reader!TypeOK

\* What is read of a text is the text, and all of it if no error is reported; see
\* ProcText.
TextIsUnderstood == Reader!TextIsUnderstood

\* Every query returns; see ProcText.
LoopEnds == Reader!LoopEnds
=============================================================================
