------------------------------- MODULE ProcText -------------------------------
(***************************************************************************)
(* The readers of /proc/stat, /proc/self/status, /proc/meminfo and         *)
(* /proc/cpuinfo and of /etc/os-release: one text, parsed record by record *)
(* with the functions of parser.cpp.                                       *)
(*                                                                         *)
(* A text is a sequence of lexemes: runs of characters which the parser    *)
(* treats alike.  "key" is a word the query looks for, "kB" is another     *)
(* word (a unit, or a key nobody asks for), "num" a run of digits, "sep"   *)
(* the ':' or '=' of the format, "quote" a double quote and "other" any    *)
(* character outside of the grammars, such as '-'.  A string_view is the   *)
(* interval <<from, to>> of positions it covers, without the second one.   *)
(***************************************************************************)
EXTENDS Integers, Sequences, FiniteSets

CONSTANTS
  Format,    \* formats of the texts
  Text       \* Text[f]: the texts of a format, sequences of lexemes

Lexeme == {"key", "kB", "num", "ws", "nl", "sep", "quote", "other"}

VARIABLES
  format,    \* which of the readers runs
  text,      \* the content it has read
  pos,       \* where the next record is parsed
  records,   \* the records parsed so far
  cores,     \* _cpu_info.size(), for "cpuinfo"
  inCore,    \* pcore # nullptr, for "cpuinfo"
  outcome    \* how the loop ended

vars == <<format, text, pos, records, cores, inCore, outcome>>

Init ==
  /\ format \in Format
  /\ text \in Text[format]
  /\ pos = 1
  /\ records = <<>>
  /\ cores = 0
  /\ inCore = FALSE
  /\ outcome = "running"
-----------------------------------------------------------------------------
\* The functions of parser.cpp: from a position to the one behind what was
\* recognized, or Fail.  A failure is handed on, as by && in the code.
Fail == 0
End == Len(text) + 1
Inside(i) == i \in 1..Len(text)
At(i, C) == Inside(i) /\ text[i] \in C

Skip(i, C) ==
  CHOOSE j \in i..End : ~At(j, C) /\ \A k \in i..(j - 1) : At(k, C)

Alpha == {"key", "kB"}
Alnum == Alpha \cup {"num"}

Position == 0..End

Ws0n[i \in Position] == IF Inside(i) THEN Skip(i, {"ws"}) ELSE Fail
Separator[i \in Position] == IF At(i, {"sep"}) THEN i + 1 ELSE Fail
Nl1n[i \in Position] == IF At(i, {"nl"}) THEN Skip(i, {"nl"}) ELSE Fail
NlOrEnd[i \in Position] ==
  IF i = End THEN End ELSE IF At(i, {"nl"}) THEN i + 1 ELSE Fail
Token[i \in Position] ==
  IF Inside(i) /\ Skip(i, Alnum) # End THEN Skip(i, Alnum) ELSE Fail
Word[i \in Position] == IF At(i, Alpha) THEN Skip(i, Alnum) ELSE Fail
Digits[i \in Position] == IF At(i, {"num"}) THEN Skip(i, {"num"}) ELSE Fail
Units[i \in Position] == IF Word[i] = Fail THEN i ELSE Word[i]
UntilNl[i \in Position] ==
  IF Inside(i) THEN Skip(i, Lexeme \ {"nl"}) ELSE Fail
-----------------------------------------------------------------------------
\* The positions a string_view covers.
Span(v) == v[1]..(v[2] - 1)

\* A parsed record; next is where the loop goes on, or Fail.
Record(key, values, next) == [key |-> key, values |-> values, next |-> next]

\* The values of a line of /proc/stat from position i on, each behind white
\* space.  Token[from] fails at the end of the text.
StatValues[i \in Position] ==
  LET from == Skip(i, {"ws"})
      to == Token[from]
  IN  IF At(i, {"ws"}) /\ to # Fail
      THEN <<<<from, to>>>> \o StatValues[to]
      ELSE <<>>

\* White space behind the last value has been skipped when no value follows.
ParseStat(p) ==
  LET k == Word[p]
      v == StatValues[k]
      e == Skip(v[Len(v)][2], {"ws"})
  IN  IF k = Fail \/ v = <<>>
      THEN Record(<<p, p>>, <<>>, Fail)
      ELSE Record(<<p, k>>, v, IF Nl1n[e] = Fail THEN e ELSE Nl1n[e])

\* key: digits units, as in /proc/meminfo and in part of /proc/self/status.
ParseAmount(p) ==
  LET k == Word[p]
      v == Ws0n[Separator[k]]
      d == Digits[v]
      u == Ws0n[d]
      e == Units[u]
  IN  Record(<<p, k>>, <<<<v, d>>, <<u, e>>>>, Nl1n[Ws0n[e]])

\* key: anything
ParseUnparsed(p) ==
  LET k == Word[p]
      v == Ws0n[Separator[k]]
      e == UntilNl[v]
  IN  Record(<<p, k>>, <<<<v, e>>>>, Nl1n[e])

IsKey(p, k) == k = p + 1 /\ text[p] = "key"

\* KEYS_WITH_UNITS is what the query looks for, and others.
ParseStatus(p) ==
  IF IsKey(p, Word[p]) THEN ParseAmount(p) ELSE ParseUnparsed(p)

\* An empty line of /proc/cpuinfo is a record without key; white space may
\* stand before the colon.
ParseCpuInfo(p) ==
  LET k == Word[p]
      v == Ws0n[Separator[Ws0n[k]]]
      e == UntilNl[v]
  IN  IF text[p] = "nl"
      THEN Record(<<p, p>>, <<>>, Nl1n[p])
      ELSE Record(<<p, k>>, <<<<v, e>>>>, Nl1n[e])

\* The value of os-release without its quotes.  Of a value that is nothing but
\* one quote, back() and remove_suffix() find the quote again: "to" gets smaller
\* than "from", a size that has wrapped.
Unquoted(v, e) ==
  LET from == IF v < e /\ text[v] = "quote" THEN v + 1 ELSE v
      to == IF v < e /\ text[e - 1] = "quote" THEN e - 1 ELSE e
  IN  <<from, to>>

ParseOsRelease(p) ==
  LET k == Word[p]
      v == Ws0n[Separator[k]]
      e == UntilNl[v]
  IN  Record(<<p, k>>, <<Unquoted(v, e)>>, NlOrEnd[e])

\* parse_record() of the format, from the first position behind white space.
Parse(p) ==
  CASE format = "stat" -> ParseStat(p)
    [] format = "status" -> ParseStatus(p)
    [] format = "meminfo" -> ParseAmount(p)
    [] format = "cpuinfo" -> ParseCpuInfo(p)
    [] format = "os-release" -> ParseOsRelease(p)
-----------------------------------------------------------------------------
Start == Skip(pos, {"ws"})
AtEnd == Start = End
Parsed == Parse(Start)

\* to_int64_counter(): no unit, or kilobytes.
UnitsKnown(rec) ==
  LET u == rec.values[2]
  IN  u[1] = u[2] \/ (u[2] = u[1] + 1 /\ text[u[1]] = "kB")

\* What the loop does with a record makes an exception of it.
Throws(rec) ==
  LET wanted == IsKey(rec.key[1], rec.key[2])
  IN  CASE format \in {"status", "meminfo"} -> wanted /\ ~UnitsKnown(rec)
        [] format = "cpuinfo" -> rec.values # <<>> /\ ~wanted /\ ~inCore
        [] format = "os-release" -> wanted /\ rec.values[1][2] < rec.values[1][1]
        [] format = "stat" -> FALSE

\* How the loop goes on after a record; stop is what the callback returned.
After(rec, stop) ==
  CASE Throws(rec) -> IF format = "cpuinfo" THEN "error" ELSE "thrown"
    [] ~Throws(rec) /\ stop -> "stopped"
    [] OTHER -> "running"

\* The records the callback of the query is called with.
GivenToCallback(rec) ==
  format \in {"stat", "status", "meminfo"} /\ IsKey(rec.key[1], rec.key[2])

IsCore(rec) == format = "cpuinfo" /\ IsKey(rec.key[1], rec.key[2])

\* Mutant: pos is left where it was.
ParseRecordAgain ==
  /\ outcome = "running" /\ ~AtEnd
  /\ Parsed.next # Fail
  /\ UNCHANGED vars

\* Mutant: an empty line does not end the description of a core.
ParseRecordInCore ==
  /\ outcome = "running" /\ ~AtEnd
  /\ Parsed.next # Fail
  /\ pos' = Parsed.next
  /\ records' = Append(records, Parsed)
  /\ cores' = IF IsCore(Parsed) THEN cores + 1 ELSE cores
  /\ inCore' = TRUE
  /\ outcome' = After(Parsed, FALSE)
  /\ UNCHANGED <<format, text>>

\* One turn of the loop with a record.
ParseRecord ==
  /\ outcome = "running" /\ ~AtEnd
  /\ Parsed.next # Fail
  /\ pos' = Parsed.next
  /\ records' = Append(records, Parsed)
  /\ cores' = IF IsCore(Parsed) THEN cores + 1 ELSE cores
  /\ inCore' = (IsCore(Parsed) \/ (inCore /\ Parsed.values # <<>>))
  /\ \E stop \in {FALSE, GivenToCallback(Parsed)} : outcome' = After(Parsed, stop)
  /\ UNCHANGED <<format, text>>

\* Mutant: a record that cannot be parsed ends the loop like the end of text.
ParseFailsSilently ==
  /\ outcome = "running" /\ ~AtEnd
  /\ Parsed.next = Fail
  /\ outcome' = "done"
  /\ UNCHANGED <<format, text, pos, records, cores, inCore>>

\* parse_record() reports an error.  The queries of status and meminfo give it
\* no place to report to, so that it throws; the loop over cpuinfo looks at
\* its err only after a record was parsed, that is, never.
ParseFails ==
  /\ outcome = "running" /\ ~AtEnd
  /\ Parsed.next = Fail
  /\ outcome' = CASE format \in {"status", "meminfo"} -> "thrown"
                  [] format \in {"stat", "os-release"} -> "error"
                  [] format = "cpuinfo" -> "done"
  /\ UNCHANGED <<format, text, pos, records, cores, inCore>>

EndOfText ==
  /\ outcome = "running" /\ AtEnd
  /\ outcome' = "done"
  /\ UNCHANGED <<format, text, pos, records, cores, inCore>>

Next == ParseRecord \/ ParseFails \/ EndOfText

Spec == Init /\ [][Next]_vars

\* The loop waits for nothing.
FairSpec == Spec /\ WF_vars(Next)
-----------------------------------------------------------------------------
\* What the text says, by its lines; only lines with something in them count.
LineStarts == {i \in 1..Len(text) : i = 1 \/ text[i - 1] = "nl"}

Lines ==
  {l \in {<<i, UntilNl[i]>> : i \in LineStarts} : \E i \in Span(l) : text[i] # "ws"}

\* The lexemes that carry meaning, among those in S.
Solid(S) == {i \in S : text[i] \notin {"ws", "nl", "sep", "quote"}}

\* What a record consists of: its key and its values.
Content(rec) ==
  Solid(Span(rec.key) \cup UNION {Span(rec.values[n]) : n \in DOMAIN rec.values})

\* The records without those of empty lines.
Filled == {n \in DOMAIN records : records[n].values # <<>>}

\* A record is of the line in which its key begins.
IsOf(rec, line) == rec.key[1] \in Span(line)

Outcome == {"running", "stopped", "done", "error", "thrown"}

\* The values of the variables.  A core of /proc/cpuinfo is described by the
\* lines between its "processor" and the next empty line, so pcore points to a
\* core exactly when no record since the last "processor" was empty.
TypeOK ==
  /\ format \in Format
  /\ pos \in 1..End
  /\ outcome \in Outcome
  /\ cores = Cardinality({n \in DOMAIN records : IsCore(records[n])})
  /\ inCore <=> \E n \in DOMAIN records :
                  /\ IsCore(records[n])
                  /\ \A m \in n..Len(records) : records[m].values # <<>>

\* The nth record is the nth line, whole: its key and values are all the line
\* says and nothing of another line, the records before it are of lines before
\* it, and no such line is passed over.  Only /proc/stat may give out a record
\* of a part of a line, and then it is the last one.
RecordsAreLines ==
  \A n \in Filled : \E line \in Lines :
    /\ IsOf(records[n], line)
    /\ Content(records[n]) \subseteq Solid(Span(line))
    /\ \/ Content(records[n]) = Solid(Span(line))
       \/ format = "stat" /\ n = Len(records) /\ outcome # "done"
    /\ \A m \in Filled : m < n => records[m].key[1] < line[1]
    /\ \A l \in Lines : l[1] < line[1] => \E m \in Filled : m < n /\ IsOf(records[m], l)

\* A loop that reports no error has seen every line: there is no way for a
\* damaged text to end it early and unnoticed (/proc/cpuinfo excepted, whose
\* loop drops the error, times_provider.cpp:123).
DoneMeansAll ==
  outcome = "done" /\ format # "cpuinfo" =>
    \A l \in Lines : \E n \in Filled : IsOf(records[n], l)

\* What is read of a text is the text, and all of it if no error is reported.
TextIsUnderstood == RecordsAreLines /\ DoneMeansAll

\* Each turn of the loop brings it nearer to the end of the text, whatever the
\* text is, so that every query returns.
LoopEnds == <>(outcome # "running")
=============================================================================
