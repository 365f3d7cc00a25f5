---------------------------- MODULE Win32Monitor ----------------------------
(***************************************************************************)
(* ionik::filesystem_monitor on Windows: add(), poll() and the destructor  *)
(* over ReadDirectoryChangesW, with one overlapped read, one event and one *)
(* buffer for each directory, and the system's own buffer behind it, which *)
(* takes what changes while no read is pending.                            *)
(***************************************************************************)
EXTENDS Integers, Sequences, FiniteSets, SequencesExt

CONSTANTS
  Path,         \* everything that can be added
  Dir,          \* the directories among it
  Parent,       \* Parent[p]: the directory p is in; the root is not in Path
  Action,       \* the FILE_ACTION_.. values the file system reports
  MaxRecords,   \* the system's buffer of a directory, in records
  MaxWait,      \* MAXIMUM_WAIT_OBJECTS
  MaxAdd,       \* bound: calls of add() that succeed
  MaxFault      \* bound: failing calls of the system, and callbacks that throw

VARIABLES
  exists,       \* the paths that exist
  handles,      \* waiting_handles, each by its directory, which is its entry
                \* of watch_dirs
  filter,       \* child_filenames of a directory
  reading,      \* the overlapped read: "none", "pending", "done", or done with
                \* 0 bytes: "overflowed"
  signalled,    \* waiting_handle
  kernel,       \* the records that wait in the system's buffer
  lost,         \* the system's buffer has overflowed
  buffer,       \* the buffer of an entry, which a read of 0 bytes leaves alone
  pc, current,
  at,           \* offset, counted in records
  deaf,         \* history: directories poll() has said it cannot read
  excused,      \* history: directories with an overflow or a failed callback
  adds, faults

systemVars == <<exists, kernel, lost>>
entryVars == <<handles, filter>>
readVars == <<reading, signalled, buffer>>
history == <<deaf, excused>>
vars == <<systemVars, entryVars, readVars, pc, current, at, history, adds, faults>>

Parents == {Parent[p] : p \in Path} \cup Dir
Watched == Range(handles)

Init ==
  /\ exists \in {e \in SUBSET Path : Dir \subseteq e}
  /\ handles = <<>>
  /\ filter = [d \in Parents |-> {}]
  /\ reading = [d \in Parents |-> "none"]
  /\ signalled = [d \in Parents |-> FALSE]
  /\ kernel = [d \in Parents |-> <<>>]
  /\ lost = [d \in Parents |-> FALSE]
  /\ buffer = [d \in Parents |-> <<>>]
  /\ pc = "idle" /\ current = "none" /\ at = 1
  /\ deaf = {} /\ excused = {}
  /\ adds = 0 /\ faults = 0

Fault == faults < MaxFault /\ faults' = faults + 1
-----------------------------------------------------------------------------
(* The file system, and what it records of a directory that is open.       *)

\* A record completes a pending read, or it is kept, or there is no room for
\* it: then all that is kept is dropped.
Record(d, r) ==
  CASE reading[d] = "pending" ->
         /\ reading' = [reading EXCEPT ![d] = "done"]
         /\ signalled' = [signalled EXCEPT ![d] = TRUE]
         /\ buffer' = [buffer EXCEPT ![d] = <<r>>]
         /\ UNCHANGED <<kernel, lost, excused>>
    [] reading[d] # "pending" /\ ~lost[d] /\ Len(kernel[d]) < MaxRecords ->
         /\ kernel' = [kernel EXCEPT ![d] = Append(@, r)]
         /\ UNCHANGED <<reading, signalled, buffer, lost, excused>>
    [] OTHER ->
         /\ lost' = [lost EXCEPT ![d] = TRUE]
         /\ kernel' = [kernel EXCEPT ![d] = <<>>]
         /\ excused' = excused \cup {d}
         /\ UNCHANGED <<reading, signalled, buffer>>

\* A name appears, disappears or has its content changed; a rename is the two
\* of its records.
Change ==
  /\ \E p \in Path \ Dir, a \in Action :
       /\ (p \in exists) = (a \in {"removed", "modified", "renamed_old"})
       /\ exists' = IF a \in {"removed", "renamed_old"} THEN exists \ {p} ELSE exists \cup {p}
       /\ IF Parent[p] \in Watched
          THEN Record(Parent[p], [name |-> p, action |-> a])
          ELSE UNCHANGED <<readVars, kernel, lost, excused>>
  /\ UNCHANGED <<entryVars, pc, current, at, deaf, adds, faults>>

\* Mutant: the event is reset when the read may already have set it again.
ResetAfterRead(d) ==
  /\ reading' = [reading EXCEPT ![d] = IF lost[d] THEN "overflowed"
                                       ELSE IF kernel[d] = <<>> THEN "pending" ELSE "done"]
  /\ signalled' = [signalled EXCEPT ![d] = FALSE]
  /\ buffer' = [buffer EXCEPT ![d] = IF lost[d] THEN @ ELSE kernel[d]]
  /\ kernel' = [kernel EXCEPT ![d] = <<>>]
  /\ lost' = [lost EXCEPT ![d] = FALSE]

\* ResetEvent() and read_dir_changes(): the read completes at once if there is
\* something to report, an overflow without touching the buffer.  What is in the
\* buffer while a read is pending counts for nothing: it is the system's.
ReadDirChanges(d) ==
  /\ reading' = [reading EXCEPT ![d] = IF lost[d] THEN "overflowed"
                                       ELSE IF kernel[d] = <<>> THEN "pending" ELSE "done"]
  /\ signalled' = [signalled EXCEPT ![d] = lost[d] \/ kernel[d] # <<>>]
  /\ buffer' = [buffer EXCEPT ![d] = IF lost[d] THEN @ ELSE kernel[d]]
  /\ kernel' = [kernel EXCEPT ![d] = <<>>]
  /\ lost' = [lost EXCEPT ![d] = FALSE]
-----------------------------------------------------------------------------
(* add(), which a callback may call as well.                               *)

\* The directories add(p) wants entries for and finds none of: itself, if it is
\* one, and the one it is in, in which its name is looked for, and which for a
\* root is the same.
Missing(p) ==
  (IF p \in Dir \ Watched THEN <<p>> ELSE <<>>)
    \o (IF Parent[p] \in Watched \cup {p} THEN <<>> ELSE <<Parent[p]>>)

\* The first n of these entries are made.
MakeEntries(p, n) ==
  LET new == SubSeq(Missing(p), 1, n)
  IN  /\ handles' = handles \o new
      /\ reading' = [d \in Parents |-> IF d \in Range(new) THEN "pending" ELSE reading[d]]

Add(p) ==
  /\ pc \in {"idle", "callback"}
  /\ adds < MaxAdd /\ adds' = adds + 1
  /\ p \in exists
  /\ MakeEntries(p, Len(Missing(p)))
  /\ filter' = [filter EXCEPT ![Parent[p]] = @ \cup {p}]
  /\ UNCHANGED <<systemVars, signalled, buffer, pc, current, at, history, faults>>

\* CreateFile, CreateEvent or the first read fails: what has been made before
\* stays, and the filter of the parent is not set.
AddFails(p) ==
  /\ pc \in {"idle", "callback"}
  /\ p \in exists
  /\ Fault
  /\ \E n \in 0..(Len(Missing(p)) - 1) : MakeEntries(p, n)
  /\ UNCHANGED <<systemVars, filter, signalled, buffer, pc, current, at, history, adds>>
-----------------------------------------------------------------------------
(* poll().                                                                 *)

\* Mutant: the handles are looked at from the last one.
WaitForLast ==
  /\ pc = "idle"
  /\ Len(handles) <= MaxWait
  /\ \E i \in 1..Len(handles) :
       /\ signalled[handles[i]]
       /\ \A j \in (i + 1)..Len(handles) : ~signalled[handles[j]]
       /\ current' = handles[i]
  /\ pc' = "dispatch" /\ at' = 1
  /\ UNCHANGED <<systemVars, entryVars, readVars, history, adds, faults>>

\* WaitForMultipleObjects() reports the signalled handle with the lowest index.
\* With more handles than the system waits for it fails, and poll() is of no use
\* any more (-1; nothing changes).
Wait ==
  /\ pc = "idle"
  /\ Len(handles) <= MaxWait
  /\ \E i \in 1..Len(handles) :
       /\ signalled[handles[i]]
       /\ \A j \in 1..(i - 1) : ~signalled[handles[j]]
       /\ current' = handles[i]
  /\ pc' = "dispatch" /\ at' = 1
  /\ UNCHANGED <<systemVars, entryVars, readVars, history, adds, faults>>

\* FILE_NOTIFY_INFORMATION at the offset.
Entry == buffer[current][at]

\* No name is looked for, so that all of the directory is watched, or this is
\* one of them.
Monitored(r) == filter[current] = {} \/ r.name \in filter[current]

\* Mutant: poll() looks at the first record of the buffer only.
SkipAfterFirst ==
  /\ pc = "dispatch" /\ at <= Len(buffer[current])
  /\ ~Monitored(Entry)
  /\ at' = Len(buffer[current]) + 1
  /\ UNCHANGED <<systemVars, entryVars, readVars, pc, current, history, adds, faults>>

\* A record of another name is skipped.
Skip ==
  /\ pc = "dispatch" /\ at <= Len(buffer[current])
  /\ ~Monitored(Entry)
  /\ at' = at + 1
  /\ UNCHANGED <<systemVars, entryVars, readVars, pc, current, history, adds, faults>>

\* The callback of its action is called, with the same record whether or not the
\* read has put it there.
Dispatch ==
  /\ pc = "dispatch" /\ at <= Len(buffer[current])
  /\ Monitored(Entry)
  /\ pc' = "callback"
  /\ UNCHANGED <<systemVars, entryVars, readVars, current, at, history, adds, faults>>

CallbackReturns ==
  /\ pc = "callback"
  /\ pc' = "dispatch" /\ at' = at + 1
  /\ UNCHANGED <<systemVars, entryVars, readVars, current, history, adds, faults>>

\* An exception leaves poll(): the event stays set, the read stays done, and the
\* next poll() starts again with the first record.
CallbackThrows ==
  /\ pc = "callback"
  /\ Fault
  /\ excused' = excused \cup {current}
  /\ pc' = "idle" /\ current' = "none" /\ at' = 1
  /\ UNCHANGED <<systemVars, entryVars, readVars, deaf, adds>>

\* All records have been looked at, and the next read is started.
Reread ==
  /\ pc = "dispatch" /\ at > Len(buffer[current])
  /\ ReadDirChanges(current)
  /\ pc' = "idle" /\ current' = "none" /\ at' = 1
  /\ UNCHANGED <<exists, entryVars, history, adds, faults>>

\* The read cannot be started: poll() returns -1 and the directory is watched
\* by nothing from now on.
RereadFails ==
  /\ pc = "dispatch" /\ at > Len(buffer[current])
  /\ Fault
  /\ signalled' = [signalled EXCEPT ![current] = FALSE]
  /\ reading' = [reading EXCEPT ![current] = "none"]
  /\ deaf' = deaf \cup {current}
  /\ pc' = "idle" /\ current' = "none" /\ at' = 1
  /\ UNCHANGED <<systemVars, entryVars, buffer, excused, adds>>

\* The destructor closes the handles of all entries.
Destroy ==
  /\ pc = "idle"
  /\ handles' = <<>>
  /\ reading' = [d \in Parents |-> "none"]
  /\ signalled' = [d \in Parents |-> FALSE]
  /\ pc' = "gone"
  /\ UNCHANGED <<systemVars, filter, buffer, current, at, history, adds, faults>>

Poll == Wait \/ Skip \/ Dispatch \/ CallbackReturns \/ Reread

Next ==
  \/ Change
  \/ \E p \in Path : Add(p) \/ AddFails(p)
  \/ Poll \/ CallbackThrows \/ RereadFails
  \/ Destroy

Spec == Init /\ [][Next]_vars

\* The application polls in a loop (demo/filesystem_monitor); nothing is assumed
\* of the file system.
FairSpec == Spec /\ WF_vars(Poll)
-----------------------------------------------------------------------------
Records == [name : Path, action : Action]

\* The values of the variables; every handle has one entry.
TypeOK ==
  /\ Dir \subseteq exists /\ exists \subseteq Path
  /\ handles \in Seq(Parents) /\ IsInjective(handles)
  /\ filter \in [Parents -> SUBSET Path]
  /\ reading \in [Parents -> {"none", "pending", "done", "overflowed"}]
  /\ {signalled, lost} \subseteq [Parents -> BOOLEAN]
  /\ {kernel, buffer} \subseteq [Parents -> Seq(Records)]
  /\ pc \in {"idle", "dispatch", "callback", "gone"}
  /\ current \in Parents \cup {"none"} /\ (current = "none" <=> pc \in {"idle", "gone"})
  /\ at \in Nat /\ deaf \cup excused \subseteq Parents

\* The records behind what poll() is at: of the buffer, if the read has filled
\* it, and of the system.
Ahead(d) ==
  LET from == IF current # d THEN 1 ELSE IF pc = "callback" THEN at + 1 ELSE at
  IN  (IF reading[d] = "done" THEN SubSeq(buffer[d], from, Len(buffer[d])) ELSE <<>>) \o kernel[d]

Feed == INSTANCE ChangeFeed WITH
  watched <- Watched, broken <- excused,
  feed <- [d \in Parents |-> IF d \in Watched THEN Ahead(d) ELSE <<>>]

\* No change is skipped, reported twice or out of order: what poll() is going to
\* look at grows at its end by each change and shrinks by its head, through reads
\* that complete at once, records that wait in the system and names that are not
\* wanted.  Only an overflow takes away its end, and only a callback that has
\* thrown makes poll() begin again.
ImplementsChangeFeed == Feed!Spec

\* Between two polls every directory has a read that will set its event, or an
\* event that the next poll() will see, unless poll() has failed for it.
NoDeafDirectory ==
  pc = "idle" => \A d \in Watched \ deaf : signalled[d] <=> reading[d] # "pending"

Before(d) == {handles[i] : i \in {j \in 1..Len(handles) :
                                    \A k \in 1..j : handles[k] # d}}

\* A directory with changes is served, unless directories with lower indices
\* keep the monitor busy for ever, or it has too many to wait for.
ServedInTurn ==
  \A d \in Parents :
    \/ []<>(current = d \/ ~signalled[d])
    \/ []<>(current \in Before(d))
    \/ <>[](Len(handles) > MaxWait)
=============================================================================
