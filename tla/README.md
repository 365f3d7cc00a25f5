# TLA+ models of ionik-lib

ionik-lib is a C++ library of small wrappers around the operating system: a
single-instance guard, observers of the file system and of devices, files,
audio, video and metrics. This directory holds TLA+ modules translated from its
source, TLC configurations that check them on small instances, and proofs that
TLAPS checks for every instance. `PROJECT.json` lists which definition stands
for which lines (`map`), the runs, the mutants that show each property can fail,
the findings, the hazards and the theorems.

To check one run: `tlc -config MCAlreadyRunning_live.cfg MCAlreadyRunning`.
To check one module of proofs: `tlapm AlreadyRunning_proofs.tla`.

## 1. Inventory

Paths are relative to the repository; `src/` is its library code.

| component | state | operations | what is hard | what makes it correct |
|---|---|---|---|---|
| `already_running` (Linux), `src/already_running.cpp` | `_fd`, `_filename`; the lock file and its `flock` in the system | constructor (`open`, `flock`), destructor (`flock(LOCK_UN)`, `close`, `remove`), `operator()` | several processes between any two system calls; killed processes; a file left behind; descriptor 0 | at most one first instance; it keeps its lock; no lock outlives its owner; a first instance always comes back |
| `already_running` (Windows) | `_mutex`; the named kernel object | constructor (`CreateMutex`), destructor (`CloseHandle`) | a handle of a rejected constructor keeps the object alive | as above |
| `filesystem_monitor` (inotify) | inotify and epoll descriptors, the watch map; kernel watches, queue and edge | `add()`, `poll()`, callbacks | edge-triggered epoll; renames and deletes between the calls of `add()`; overflow; exceptions and `add()` from callbacks; signals | no event is left unnoticed; each event finds its watch; the path told is that of the object |
| `filesystem_monitor` (Windows) | a directory handle, event, overlapped read, buffer and name filter for each directory | `add()`, `poll()`, callbacks, destructor | reads that complete at once; overflow of the system's buffer; handles served by index; exceptions from callbacks; filters that grow | nothing is skipped; no directory goes deaf; each is served in turn |
| `device_observer` (libudev) | udev context, monitor, epoll descriptor; the netlink socket | constructors, destructor, `poll()`, callbacks | an edge for several events; overflow; construction that fails half way | callbacks follow the devices; what was acquired is released |
| `device_observer` (Windows) | a hidden window, its user data, notification handles, a timer | constructors, `poll()` with the window procedure, destructor | messages before the window knows its observer, or without a header; construction that fails half way | callbacks follow the devices |
| `file`, `local_file_provider` | `_h`, `_size`; descriptors and files in the system | open for reading, writing, with truncation; read, write, position, close, move; `rewrite()`, `read_all()` | several system calls by path; threads sharing descriptor numbers; errors in the middle | one owner for each descriptor; whole contents |
| `wav_explorer`, `wav_spectrum_builder` | the file and its position; `wav_info`; the remaining size | `read_header()`, `decode()` with callbacks, `operator()` of the builder | ends of files, buffers and chunks; a second call; callbacks that stop | the header is that of the file; exactly the data is given out; every call returns |
| audio devices (PulseAudio) | main loop, context, notifier, one operation | `default_input_device()`, `default_output_device()`, `fetch_devices()` | a server that answers later, or never; devices that vanish in between | a result is what the server answered; operations are released |
| audio devices (Windows), video capture devices (Windows) | the objects and libraries a call holds | enumeration | each of a dozen calls may fail, with or without an exception | what was got is given back; the list is whole |
| video capture devices (Video4Linux2) | a descriptor and three indices during a call | scan of `/dev`, enumeration | devices plugged in and out in between; links to nodes; calls that fail for a device that is there | a device is listed once, and whole unless it was moved or a call for it failed |
| audio devices (Qt5, stub), video capture devices (Android, stub) | none | enumeration | - | not modelled |
| metrics: texts of `/proc` and os-release, `src/metrics/` | the text and a position in it | `parse_record()` in a loop | texts that are cut, damaged or empty | a record is a line; an end without an error is the end of the text |
| metrics: `system_counters` (Linux) | the last readings of four providers | constructor, `query()` again and again | counters that wrap or stand still, processors that come and go, one provider of four failing | usages are percentages of consecutive intervals |
| metrics: `network_counters` (Linux) | the last sample of an interface, its time, maxima | `set_interface()`, `query()` | two files read one after the other, failing constructors, calls in one millisecond | speeds add up to the traffic |
| metrics: Windows providers, `getrusage`, random | none, or handles | one call of the system each | - | not modelled |
| demo `win32_service`: `svccontrol` | what it remembers of a service; ticks; handles | `start`, `stop`, `dacl` | a service and its dependents move between `Sleep()` and query; a tick counter that wraps | every command ends, a stop within bounds; handles are closed |
| other demos | - | main loops over the above | - | the environment of the modules |

The components of the library do not call each other, except that the
explorer of wav files and the readers of `/proc` go through `file`, and that
`error` values and callbacks go to the application. Their interactions are with
the kernel, with other processes and with servers, so each module models its
component together with that environment.

## 2. Modules

| module | models | composes |
|---|---|---|
| `SingleInstance` | the promise of `already_running`, without a mechanism | |
| `AlreadyRunning` | the lock file, one action for each system call of the constructor and destructor, with crashes | implements `SingleInstance` if no destructor runs |
| `AlreadyRunningWin` | the named mutex | implements `SingleInstance` |
| `InotifyMonitor` | the file system, inotify with its queue, epoll with its edge, `add()`, `poll()` and the loop of the demo | |
| `UdevObserver` | devices, udevd's events, the socket, epoll, and the observer's life | |
| `LocalFile` | threads, file objects, descriptors, files and their one path | |
| `WavExplorer` | files by what their bytes say, header, decoding and spectrum | uses what `file` does of `read` and `skip` |
| `PulseSession` | the server, the connection, libpulse's dispatching, and `process_operation()` | |
| `ProcText` | the parser of `/proc` and os-release and the loops over their records | |
| `SystemCounters` | `system_counters` with `times`, `proc_stat`, `sysinfo` and `self_status` providers | takes from `ProcText` how a text can end |
| `NetworkCounters` | `network_counters` with `sys_class_net_provider` | |
| `ChangeFeed` | the promise of a monitor of the file system, without reads and buffers | |
| `Win32Monitor` | directories, the system's buffer of each, overlapped reads, `add()`, `poll()`, the destructor | implements `ChangeFeed` |
| `Win32Observer` | devices, the messages about them, the window and its timer, and the observer's life | |
| `ServiceControl` | a service and its dependents, the tick counter, and one run of `svccontrol` | |
| `EndpointList` | the COM objects of `fetch_devices()` and of the default devices on Windows | |
| `CaptureSources` | the Media Foundation objects of `fetch_capture_devices()` | |
| `VideoNodes` | `/dev` and the Video4Linux2 enumerations of `fetch_capture_devices()` | |
| `InotifyLifecycle` | constructor and destructor of the inotify monitor, and the table of descriptors | |
| `MCMetrics` | a program with either kind of counters | `SystemCounters`, an INSTANCE of `NetworkCounters` |
| `MCDevices` | a program on Linux with one of four parts | `UdevObserver`, INSTANCEs of `PulseSession`, `VideoNodes`, `InotifyLifecycle` |
| `MCWindows` | a program on Windows with one of six parts | `AlreadyRunningWin`, INSTANCEs of the other five |
| `AlreadyRunning_proofs`, `InotifyMonitor_proofs`, `LocalFile_proofs`, `WavExplorer_proofs`, `Win32Monitor_proofs` | theorems of one component | the component |
| `MCMetrics_proofs` | theorems of both counters and of the readers of texts | `MCMetrics`, `MCProcText` |
| `MCDevices_proofs` | theorems of the parts on Linux | `MCDevices` |
| `MCWindows_proofs` | theorems of the parts on Windows | `MCWindows`, an INSTANCE of `Win32Monitor_proofs` |

The `MC*` modules give TLC its model values, functions and symmetry. Three of them
put several components next to each other, of which one moves in a behaviour
(`subject`). These components share nothing, neither in the library nor in the
system, so that their interleavings would add nothing but states.

### AlreadyRunning

`pc[p]` is the location of process `p` in the constructor or destructor; `fd` and
`file` are `_fd` and what the kernel has behind it; `entry` is the file the path
leads to, `locker` the owner of each file's lock. `Open`, `Lock`, `LockRefused`,
`Reject` are the constructor (lines 26-43), `Unlock`, `Close`, `Remove` and
`DestroyNothing` the destructor (68-76): `DestroyNothing` is the case `_fd > 0`
does not hold, which includes descriptor 0. A crash closes the descriptor, and
with it gives up the lock. `LowFd` are processes started with descriptor 0
closed, `Graceful` those that ever run their destructor (a program stopped by a
signal does not).

### InotifyMonitor

`queue` holds events with a size in units of the read buffer, so that how many
of them fit into one `read()` is part of the model; equal neighbours are merged
and a full queue ends in `IN_Q_OVERFLOW`, as inotify does it. `ready` is the edge
of the edge-triggered epoll: set by each new event, consumed by `EpollWait`.
`add()` is two steps, since the path can change between `exists()`/`canonical()`
and `inotify_add_watch()`. `poll()` is `EpollWait`, `Read`, `Drained`, `Dispatch`,
`CallbackReturns`, and its ways out by error; a callback may call `add()`.
`abandoned` records that an error or exception has left the read loop.
`InotifyLifecycle` has the constructor and the destructor, one action for each call
of the system that may fail: `fd` and `ed` begin with any number, as nothing
initializes them.

### UdevObserver

`held` is what the representation has acquired, call by call of `init()`;
`queue` the netlink socket; `view` what the callbacks have told the application,
`status` what the devices are. `poll()` is `EpollWait` and `Receive`: one event
for one edge.

### LocalFile

Each system call that goes by path is a step (`OpenFile`, `Truncate`,
`SizeExists`, `FileSize`, `AssignEmpty`), because another process can remove the
path in between; the operations on an open object are single steps. `tmp[t]` is
the descriptor an open function has and has not given to an object yet. An
exception (`Throw`) in that time loses it: `leaked` records that.

### WavExplorer

A file is a record of what its header says and of its real length. `pos` is
where it is read; it is never rewound. The loop of `read_header()` is `ReadChunk`
and `ReadDataHeader`, that of `decode()` `OnRawData` or `OnRawDataBuild`, and
`EndOfData`. What is found where no chunk begins may be anything (`Garbage`),
because odd chunks leave the explorer one byte early: the code does not skip the
padding byte. Sample values are not in the model, how many frames go into the
spectrum is. The builder refuses a `chunk_count` of 0 (:335), but not a `frame_step` of
0, with which the loops over the frames (:449, :493, :546, :587) never get on: that
is the location "endless", which `EveryCallReturns` excepts for this call only.

### PulseSession

`inbox` holds the messages that have reached the client, which
`pa_mainloop_iterate()` dispatches one or several at a time; `notifier` is what
the state callback has stored. `process_operation()` is `WaitForReady`,
`Disconnected`, `StartOperation`, `NoOperation`, `StillRunning`, `OperationDone`;
`stage` tells the two operations of a default device apart. An error reply is
dispatched with `eol < 0` and no info, which the callback reads: state "crashed".

### ProcText

A text is a sequence of lexemes (runs of characters the parser treats alike), so
that each `advance_` function is a function from a position to a position, or to
`Fail`; `Parse...` are the `parse_record()` of the five formats, with the
functions in the order of the code. `ParseRecord`, `ParseFails` and `EndOfText`
are a turn of the loop of the reader. `records` are what was parsed, `outcome` how
the loop ended: "done", "stopped" by the callback, "error", or "thrown" (the
loops over `/proc/meminfo` and `/proc/self/status` pass no place for an error).
`Lines` are the lines a text has, `IsOf` is that a record is what one of them says.
`MCProcText` has the reader as an instance, `Reader`, and the texts: the well-formed
ones of each format and those with one lexeme changed.

### SystemCounters and NetworkCounters

Both follow one object from call to call, `pc` being the provider or the line it
is at. A reading is any value in the bounds, so that counters grow, stand still,
wrap and are reset. In `SystemCounters`, `recent` is the vector of the constructor
of `proc_stat_provider`, which queries only write to: a processor it has no
element for makes a query fail that gets to its line. `seen` is a history
variable. A caller that gives no place for errors gets an exception (`Throw`),
and may call again. In `NetworkCounters` the clock goes on between the two reads;
`counted` and `measured` are history variables, the sum of what speeds were given
out of. Usages and speeds are pairs of numbers, which are compared by their
products.

### Win32Monitor

`handles` are `waiting_handles` in their order, each named by its directory;
`reading` is the overlapped read of an entry, `signalled` its event, `buffer` what
the read has filled and `kernel` what the system keeps while no read is pending.
`add()` is one step, `Add`, since nothing looks at the entries in between, and
`AddFails` keeps those made before the failure, as the code does. `poll()` is
`Wait` (lowest signalled index), `Skip`, `Dispatch`, `CallbackReturns`, `Reread`
(reset, then read), and `CallbackThrows`, `RereadFails`. An overflow completes a
read with 0 bytes; poll() does not look at `bytes_transferred`, so the records of
the read before are dispatched again. The feed of a directory in `ChangeFeed` is
mapped to `Ahead`: what is left of the buffer, if a read has filled it, and what
the system keeps. A feed breaks (`excused`) by an overflow or by a callback that
throws. `InotifyMonitor` does not implement `ChangeFeed`: finding 2 is that it drops
changes from the middle without either.

### Win32Observer

`CreateWindow`, `SetUserData`, `Register` and `Constructed` are `init()`: the
system may send from the first registration on, but what is sent is received by
`GetMessage()` in `poll()` only (`Notify`). `PollBegins` and `PollReturns` set and
kill the timer; the latter without the window, so that the timer stays.

### ServiceControl

`services` moves on its own (`ServiceMoves`), also between `Sleep()` and the query
behind it, which is what `asleep` separates. `seen` is the status the program
goes by. `WaitPending` and `LookPending` are the loop that `start` has twice;
`LookStopping` and `WaitForDependent` are those of `stop`. Ticks pass in `Sleep`
only, by at least one: a sleep of 0 with a service that never moves would
otherwise hide that the rest of the loop takes time.

### EndpointList, CaptureSources, VideoNodes

The first two follow the objects a call holds, with a failure allowed at each
call of the system: those of an endpoint are fixed at the start (`fails`), so that
`ListIsWhole` can say which endpoints can be read; those of a capture device are
collected in `failed`. A list is whole when its entries are in the order of all
devices (`IsPartOf`) and are exactly the good ones. `place` is whether the caller gave a place for the error,
without which `pfs::throw_or()` leaves all functions at once. `starts` of
`CaptureSources` are the libraries (COM, Media Foundation) whose start succeeds:
nobody looks at that, so `startedUp`, the starts less the shutdowns, ends at -1 for
the others. In `VideoNodes` devices are plugged in and out between any two calls of
the system; a descriptor open to one is `dead` from then on. `open()` and every ioctl
may also fail for a device that is there. `disturbed` has the devices that were moved
or of which a call has failed; what is promised of the others does not depend on
these. `std::sort()` may return any order of equal
elements (two sizes of one area): what comes of it is any permutation that is
ordered (`Shuffled`, `SizesOrdered`, `RatesOrdered`).

## 3. Runs

| run | what it shows | bounds, and why they do |
|---|---|---|
| `lock` | `FirstHoldsLock`, `NoStaleLock`, `RefusedOnlyByFirst`, and with fairness `FirstAgainAndAgain` | 3 processes: two that interfere and one to be told; 3 files, since a file is held by a process or is the path's; 2 crashes; one process with descriptor 0 |
| `race` | finding: the destructor can leave two first instances | 3 processes, no crash is needed |
| `inotify_poll` | `NoLostWakeup`, `WatchMapIsCurrent`, `EventsAreRead` | 2 paths and 2 objects (rename, replace, delete), 2 watches, a queue of 2 so that it overflows with 3 events, one fault, one interruption |
| `inotify_batch` | finding: only the first event of a `read()` is dispatched | one object that is opened and closed, `closed` installed, no faults |
| `devices` | `NothingIsSkipped` of the udev observer (what was told and what is unread is the state of the devices); `AnswersAreTrue` of PulseAudio; `EverythingIsReleased` (operations of PulseAudio, descriptors of the inotify monitor); `ListedAsFound` of Video4Linux2; `CallReturns` of both lists | udev: 2 devices, 6 events, a socket of 3, so that it overflows; PulseAudio: 3 calls, 2 devices changing twice, 3 faults; cameras: two that capture, of which one has two sizes of one area, and a metadata node, a link to one of them, 2 moves, so that a device can go and come back, and no bound on calls that fail; monitor: 5 descriptors, each free or somebody else's, which others open and close twice |
| `udev_burst` | finding: of two events between two polls the second is not reported | 3 events |
| `file_shared` | `HandlesAreOwned`, `ContentIsWhole` | 2 threads and 2 descriptors, so that numbers are reused at once; 2 objects to move between; one removal of the path; one short write; a read buffer of 2 bytes for files of up to 3 |
| `wav_calls` | `DataIsOfFile`, `EveryEndIsExplained`, `SpectrumCoversFile`, `EveryCallReturns` | 2 calls on each of some 150 files: data sizes around multiples of the buffer, cut and extended files, each kind of malformed header; frame steps of 0, 2 and "auto" |
| `proc_texts` | `TextIsUnderstood`, `LoopEnds` | all texts of two lines of each format, each with one edit: a lexeme removed, exchanged or inserted; so lines may also run together or lack their end. Records depend on nothing before them but `inCore`, so two lines are enough |
| `counters` | `UsageIsOfInterval`, `ErrorHasCause`, `TrafficIsCounted` | readings of a core in which each of the times that are added up is 0 or 1, so that a sum can hide one that got smaller; the line "cpu" and 2 cores, so that the vector can have a gap; a core comes or goes twice; one failure; a clock of 3 milliseconds and byte counts up to 2. No bound on the number of calls |
| `windows` | the named mutex: `ImplementsSingleInstance`; the directory monitor: `ImplementsChangeFeed`, `NoDeafDirectory`, `ServedInTurn`; the device observer: `DevicesAreFollowed`; the lists: `ListsAreWhole`, `EverythingIsGivenBack`; `svccontrol`: `StopIsBounded`, `CommandReturns`, `EverythingIsGivenBack` | see below |
| `service_timeout` | finding: `svccontrol start` reports a time-out for a service that has stopped | the service and its timing of `windows` |

The bounds of `windows`. Mutex: 3 instances, 2 crashes, 1 failing creation. Monitor:
a directory in another, with a file in each, so that a file and both directories
can be added, in 2 calls; a system's buffer of 2 records, which a third
overflows; 2 handles to wait for and 1 fault, and no bound on changes. Observer: 3 devices of
2 subsystems, asked for with a name that is unknown and one that is there twice;
4 changes. Service: one dependent, a counter of 16 ticks that starts at 0 or 12,
so that it wraps while a command waits; a time-out of 3 ticks, hints of 0 and 3,
sleeps of 1 or 2; 3 moves of their own. Endpoints: 3, with all combinations of
where each fails. Cameras: 2, each with no types, with a current type
that is supported, or with one that is not.

Each passing run also checks `TypeOK` of its module or modules (`TypesOK`), which relates variables
where the code relies on it (`_fd = -1` exactly when nothing is open; a finished
observer holds nothing; between two calls no PulseAudio session is held).

Bounds are on what the environment does (crashes, faults, events, calls); no
action of the library is bounded other than by them. One exception is `Write` in
`LocalFile`, restricted to position 0 to keep files finite.

`CHECK_DEADLOCK FALSE` stands where the system really stops: an application that
has left its loop, an observer that is gone, a process that has crashed, or the
bounded number of calls. In `devices` and `windows` it also stands for the lists
that have returned, a monitor or observer that is gone, and a command that has
ended.

Some properties are conjunctions of named parts of one module, which are what the
proofs of section 5 are about: `WatchMapIsCurrent` (`EveryWatchIsMapped`,
`WatchedPathIsCurrent`), `ContentIsWhole` (`RewriteIsWhole`, `ReadAllIsWhole`),
`DataIsOfFile` (`HeaderDescribesFile`, `DecodedIsData`), `EveryEndIsExplained`
(`FailureIsExplained`, `CrashOnlyIfMalformed`), `TextIsUnderstood`
(`RecordsAreLines`, `DoneMeansAll`), `UsageIsOfInterval` (`UsageIsPercent`,
`ReferenceIsLastReading`), `TrafficIsCounted` (`SpeedsAddUp`, `MaxIsOfInterface`),
`AnswersAreTrue` (`TrueMeansAnswered`, `ReplyFitsRequest`), `EverythingIsReleased`
(`OperationsReleased`, `DescriptorsAreOwned`).

### Fairness

- `AlreadyRunning`: constructor, destructor and exit of a running process go on
  (none blocks: the lock is asked for with `LOCK_NB`), and it is started again.
  Crashes and failures are not fair.
- `InotifyMonitor`: `SF(Poll)`, because the demo calls `poll()` in a loop however
  often it adds in between; `WF` for an `add()` that has begun. Nothing is assumed
  of the file system, of signals or of faults.
- `UdevObserver`: `WF(Poll)`, the endless loop of the demo.
- `WavExplorer`: `WF(Step)`; a call only waits for the disk.
- `ProcText`: `WF(Next)`; the loop waits for nothing. `SystemCounters` and
  `NetworkCounters` have safety properties only.
- `PulseSession`: `WF(Session)` as the calls run in one thread without waiting
  for anything but the server, and `WF(Server)`: a server whose connection is not
  broken answers. Without it `pa_mainloop_iterate()` blocks for ever, since the
  library gives it no timeout.
- `VideoNodes`: `WF(Work)`; an ioctl answers or fails, also for a device that is gone.
  Nothing is assumed about which.
- `Win32Monitor`: `WF(Poll)`, the endless loop of the demo. Nothing is assumed of
  the file system, which may keep the directories with lower indices busy for
  ever: `ServedInTurn` excepts those behind them, and a monitor with more handles
  than the system can wait for.
- `ServiceControl`: `WF(Step)`, as the program runs. Nothing is assumed of the
  services but that they make no progress for ever (`MaxMoves`): a service that
  keeps on reporting progress is waited for as long, as the code says.
- `EndpointList`, `CaptureSources`, `Win32Observer`, `InotifyLifecycle`: safety only.

## 4. Findings

1. `race`: the destructor unlocks (already_running.cpp:72-73) before it removes
   the path (:75). A process that locks the file in between loses its path, the
   next one makes a new file, and both are first instances.
2. `inotify_batch`: `poll()` reads a buffer of events and looks at the first only
   (inotify.cpp:132-133): an `IN_CLOSE_NOWRITE` that is read together with the
   `IN_OPEN` before it is dropped, and `closed` is not called.
3. `udev_burst`: `poll()` receives one device for an edge of an edge-triggered
   descriptor (device_observer_libudev.cpp:162-163), so that a backlog is only
   worked off as later events arrive, one for one.
4. `service_timeout`: `svccontrol start` is to "Wait for the service to stop before
   attempting to start it" (service_control.cpp:155), but behind `Sleep()` the loop
   compares the elapsed time with the wait hint it has just read (:196) before it
   looks at the state: a service that has stopped meanwhile has a wait hint of
   0, is reported as a time-out and is not started.

The models have further behaviour that no document speaks against, and that a
reader should know: `poll()` of the inotify monitor returns -1 for EINTR, which
ends the demo's loop, although a comment says that EINTR is ignored
(inotify.cpp:113-119; `EpollInterrupted`); when `inotify_init1()` fails its destructor
closes a descriptor of any number (:31, :72), and when a later call fails
with an exception nobody closes what was made before; a rejected `CreateMutex` constructor keeps the name alive
until it closes its handle, so that an instance starting then is rejected in
vain; a file resized by `open_write_only()` has a known size of 0, so that
`set_pos()` refuses all its positions (file.hpp:211, :160); `rewrite()` takes a
short write for a whole one (:230); odd chunks before the data of a wav file are
skipped without their padding (wav_explorer.cpp:223); a wav file cut in its data
decodes with success; a spectrum with a `frame_step` of 0 is never finished (:335, :449);
a connection to PulseAudio that is lost is no error for
`process_operation()`, and an operation pending or just completed then is not
released; the instance with descriptor 0 holds its lock until the process ends.

Of the monitor on Windows: when the system's buffer of a directory overflows,
`poll()` does not see the 0 bytes transferred and dispatches the records of the
read before again (win32.cpp:262); an exception of a callback has them dispatched
again as well. A file that is added behind its directory narrows what is told
of it to that file (:178, :275), as the filter of a directory is empty for all
names. `poll()` returns the index of the handle, which for the first is the
value of a time-out; with more than 64 handles it fails for ever. The
destructor frees buffers with reads still pending.

Of the observer on Windows: a window class that cannot be registered leaves an
observer that is told nothing, without an error (`CreateWindow`); the timer of a
window is not killed by `KillTimer()` without it (`PollReturns`), so that later
calls of `poll()` may end early; a subsystem asked for twice is told twice.

Of the lists: an endpoint is released twice, by the helper and by the guard
(`Read`), and `CoUninitialize()` is called once too often when the enumerator cannot
be created (`Enumerator`); therefore `NothingIsKept` says "at most". The current
media type is never released (`lostTypes`), and without a place for errors neither
are the activation objects and the source of the device that fails.
`CoUninitialize()` and `MFShutdown()` are called also where the start of the library has
failed (capture_device_info_win.cpp:485-486, :491-492): once too often, and
`EverythingIsReleased` says that it is so then, and only then. Of a
Video4Linux2 camera that goes away during its enumeration, or of which an ioctl
fails, a beginning is listed, and one that cannot be opened is not listed; neither
is told as an error.

Of `svccontrol`: `stop` and the wait for the dependents each have a time-out,
which is asked after a sleep as long as the service's hint, so that the thirty
seconds are no bound (`StopIsBounded` has it); that a dependent could not be
stopped is not asked (`GiveUp`). `service.cpp` is inside `#if __FIXME__`.

Without a property, for the reason that nothing later depends on it: the
callbacks which the spectrum builder sets capture its local context and stay set
behind its call (wav_explorer.cpp:345).

Of the metrics: the loop over `/proc/cpuinfo` drops the error of a line it cannot
parse (times_provider.cpp:123), and a key with a space, such as "cpu family", is
such a line, so that one core is counted where there are more and the usage of a
process may exceed 100 % (therefore `UsageIsPercent` does not bound it); with no
core understood at all, the first query terminates the process (:212, `Terminate`).
`model_name` and `cache_size` (:148-169) are keys that never occur, and :161 takes
the success of the conversion for its failure. A processor that comes up with a higher
index than any at construction makes queries fail whenever the line "cpu" is
skipped (proc_stat_provider.cpp:172; the exception in `ErrorHasCause`). Without
swap `swap_usage_total` is 0/0 (system_counters.cpp:159; amounts of memory are not
in the model). A comment or an empty line ends the reading of os-release with an
error, and a value that is a single double quote is shortened twice
(linuxinfo_provider.cpp:136-143; outcome "thrown"). A network query in the
millisecond of the answer before returns an empty group without an error
(`SampleTooEarly`); a constructor that failed leaves an object whose first speed is
over the time since the epoch of the clock (`ConstructFails`; therefore
`SpeedsAddUp` excepts it); `network_counters::query(counters)` without an interface
reads through a null pointer (`QueryThroughNull`).

## 5. Proofs

Everything is checked by tlapm down to the leaves. No theorem depends on more than
the named assumptions on constants of the modelled modules, which TLC evaluates on
its runs, and the hypotheses named here, which the constants of the runs satisfy.
What a theorem states with the name of a property is that property for all values
of the constants; the runs check it on the small instances of section 3.

An invariant is called "added" where it is needed to make the properties of the
component inductive, or to follow from what is.

`AlreadyRunning_proofs`, for any instances and files and any numbers of crashes:

- `TypeCorrect`, `FirstKeepsLock`, `LocksAreAlive`: `TypeOK`, `FirstHoldsLock` and
  `NoStaleLock`. Neither of the last two is inductive: that closing one descriptor
  does not take away somebody else's lock needs to know in which location a process
  has which file open (`OpenWhere`), and that only first instances, and destroyed
  ones with descriptor 0, hold locks (`LockedBy`). `IInv` is their conjunction.
- `RefusedByHolder`: the action property `RefusedOnlyByFirst`, from the same invariant:
  who is refused finds a lock, and `LockedBy` says of whom.
- `KilledImplements`: with `Graceful = {}` every step is a step of
  `SingleInstance` or a stutter, hence `ImplementsSingleInstance`. The added
  invariant is that there is only one file: whoever has a file open has the one
  the path leads to, since nothing removes it (`OneFile`). Two first instances
  would then hold one lock.
- `KilledExclusive`: `MutualExclusion` under the same assumption. The run `race`
  shows that the assumption is needed. Both are only proved, and not among the runs.

`InotifyMonitor_proofs`, for any objects, paths, masks and callbacks, any limit of
the queue, any size of the buffer, any number of events, faults and signals:

- `TypeCorrect`: that the queue exceeds its limit by one event at most is not
  inductive; added is that the event too many is the overflow event (`QueueIsKept`),
  which is not queued a second time.
- `EdgesAreNotLost`: `NoLostWakeup`. It is inductive with the types: each event sets
  the edge, and the edge is consumed in a location that goes on to read until
  `EAGAIN`; the locations that leave early set `abandoned`.
- `MapIsCurrent`: both halves of `WatchMapIsCurrent`. Added is `WatchesAreIssued`:
  a descriptor of a watch or of a queued event was handed out by an earlier `add()`,
  and no object has two, so that adding an object again spoils no other entry.
- `EntriesAreNotReused`, an action property no run checks: an entry of the watch map
  is never erased, nor given to another object, and a descriptor whose watch has ended is
  not used again, so that an event that has waited is told with a path of its object.

`LocalFile_proofs`, for any threads, objects, data, sizes of chunks, removals of the
path and short writes:

- `TypeCorrect`.
- `HandlesOwned`: `HandlesAreOwned` counts owners. Inductive is instead `Handles`:
  whoever has a descriptor has an open one, no two have the same, and none is open
  that is neither held nor lost. That it is the right one which an open function
  hands over needs `CallsFit`, what a location says of the call in hand.
- `WholeContent`: `ContentIsWhole`. Added are `WholeSoFar`, what the file has been
  given and the buffer has got while the loop is still going on, and `ReadersRead`:
  a thread that does not write never gets a descriptor it could write to.

`WavExplorer_proofs`, for any files, sizes of chunks and of buffers, numbers of
chunks, steps and calls:

- `TypeCorrect`, `GivenIsInFile`, `EndsExplained`, `SpectrumWhole`: `TypeOK`,
  `DataIsOfFile`, `EveryEndIsExplained`, `SpectrumCoversFile`, which speak of calls that
  have returned, are inductive together with what is so while a call is at work.
  `ChunksSoFar`: what `wav_info` lists are the first chunks of the file, and the file is
  read where the next one begins. `DataSoFar`: the position is the begin of the
  data plus what was given, the rest is the size minus it, the buffer is one of whole
  frames. `SpectrumSoFar`: as many buffers as entries, and of regular data as many
  frames as were given. `Checked`: what of the header has been looked at before it
  is divided by. `NothingToReport`: a call that goes on has neither failed nor been stopped.
- `StartOf` is a recursive function over the chunks. That there is such a function
  (`StartsExist`) is proved without the induction theorems of the library: of the
  chunks for which there is none a first one would have one from the chunk before
  it (`LeastOf`: a set of naturals has a least element). `StartsGrow`: chunks begin
  behind each other, so that a position is the begin of one chunk at most.
- That there are as many entries as chunks were asked for (`ChunksSuffice`) is
  arithmetic of the frames of a chunk: with a tail it needs that there is more than one
  chunk, which a tail implies.
- `CallsReadOn`, an action property: each step of a call ends it, reads more of the file,
  never beyond its end, or is the one from the header to the data, and the loop within a step ends unless
  `frame_step` is 0. A call has
  at most two steps more than the file has bytes, also where garbage is taken
  for chunks. It is the part of `EveryCallReturns` that needs no fairness.

`MCMetrics_proofs`, for any set of readings (also of times that fall), any number of
cores that come and go, any number of failures, calls and interfaces, with `MaxBytes`
a natural and `MaxNow` a positive one:

- `UsageOfInterval`, `ErrorsHaveCause`, `TypesCorrect`: added are that the vector of recent data has no gaps
  (`Types`), has an element for each line that was looked at (`SeenHasElement`), and
  grows in the constructor with the lines (`GrowsWithLines`); and that the next line
  is one of the text (`LineIsOnline`). `ErrorHasCause` follows from a stronger form
  that speaks of the locations between two calls as well (`ErrorIsUnknownCore`).
- `TrafficCounted`: a step of the program is one of the network counters, or leaves
  all of theirs as it is. `SpeedsAddUp` is inductive together with `Numbers`: what is
  added and subtracted are integers, which a failing constructor with its -1 keeps
  true. For `MaxIsOfInterface` there is `Speeds`, that each speed given out is of a
  time that is not 0, so that the products by which speeds are compared order them.

and for any texts of lexemes (`TextAssumption`), of any number of lines and fields:

- `ReaderTypesCorrect`, `TextUnderstood`: `ReaderTypeOK` and `TextIsUnderstood`. Each
  `advance_` function has a lemma on what the text is between the position it is given
  and the one it leads to (`SkipFacts` to `UntilNlFacts`), and the five parsers one on
  all of a line (`ParseFacts`): a record that is parsed covers the text from where it
  begins to the end of its line, or the parser has stopped inside of a line of
  `/proc/stat` (`Stuck`), where the next turn fails. `StatValues` recurs over the fields;
  that it has a value everywhere (`ChainExists`), and what that is, is proved by a least
  counterexample (`LeastOf`), as for `StartOf`. The inductive invariant is
  `ReaderInv`: at the begin of a turn the reader is `AtLine`, where a line begins and
  every line before has its record, or it is `Stuck` and will not be "done".
- `EveryTurnLeadsOn`: a turn of the loop ends it or goes on behind where it was, never
  beyond the end of the text. It is the part of `LoopEnds` that needs no fairness.

`MCDevices_proofs`, with `MaxDescriptor` a natural, for any devices, numbers of
events, calls and faults, and any room in the socket:

- `TypesCorrect`, of all four parts.
- `NothingSkipped`: `NothingIsSkipped`, inductive with the types, where all callbacks
  are set (`EveryCallback`). Without one of them nobody is told what it is for, and a
  device is not as the application knows it: the hypothesis is needed.
- `AnswersTrue`: `AnswersAreTrue` of PulseAudio. Added are `Connection` (nothing comes
  behind the loss of a connection, and a session begins without one) and
  `Answers`: there is one request at a time, which is being written, is with the
  server, or is answered, and it is that of the operation waited for.
- `Released`: `EverythingIsReleased`. Of PulseAudio with `References`: the references that are kept, with that
  of the operation under way, are paid for by faults. Of the inotify monitor with
  `LifeInv`: a number that is the monitor's stays so until it is closed, so nobody
  else can have got it meanwhile; this ends where `inotify_init1()` has failed.
- `ListTrue`: `ListedAsFound`, for the nodes, links and drivers of `VideoAssumption` (a
  link is no node and leads to one). Added are `Scanned` (what stays is found
  once), `Descriptor` (it is dead only if its device has been moved), `OneEntryEach` (the
  entries are those of the files passed, the last is that of the device asked)
  and `EntrySoFar`: the entry in work has the first formats the driver tells, the last
  of these its first sizes, and the last of these its first rates, as long as
  the device is `Trusted`: neither moved nor failed. Of others the names of the formats
  are right (`WithinTold`: no index gets more than one behind what the driver tells). An ordered permutation has the same elements
  (`ShuffledFacts`).
- `ListLeadsOn`: every step of the list goes on in the scan, or to a later place (`Place`:
  device, question, format, size, rate, in this order), and no index gets more than one
  behind what the driver tells, also where a descriptor has died or an ioctl has
  failed in the middle; only devices may come and go without that. It is the part of `CallReturns`
  for Video4Linux2 that needs no fairness.

`Win32Monitor_proofs`, with `Paths` (what is watched are directories among the paths,
"none" is not one of them, and the buffer has a size), for any changes, calls,
limits of handles and faults:

- `TypeCorrect`, `NobodyIsDeaf`: `NoDeafDirectory`. Added is `ReadsAndEvents`: a
  directory without an entry has no read, one with an entry has a read that is
  pending, or is done with its event set, in every location of `poll()`; `poll()`
  is at work on an entry. That `add()` gives no directory two entries is the lemma
  `NewEntries`.
- `FeedImplemented`: `ImplementsChangeFeed`, step by step. Added is `Buffers`: the system
  keeps nothing of a directory while a read is pending, behind an overflow, or before
  it is watched, and `poll()` is at work on a read that is done. Then a change goes to
  the end of `Ahead`, a record that is looked at is its head, a read that completes
  at once moves what the system has kept into the buffer, an overflow leaves a prefix,
  and an exception goes back to something of which what was left is a suffix. The
  lemmas on sequences (`TailOfRest`, `PrefixOf`, `SuffixOf`) are for that.
- `NobodyOvertakes`, an action property: an event stays set until `poll()` is at its
  directory, the directories before that one stay the same whatever is added, and
  `poll()` serves none but them before it. It is the part of `ServedInTurn` that needs
  no fairness.

`MCWindows_proofs`, with `Limits`: time-outs, hints and the number of moves are
naturals, the counter comes around after a positive number of ticks. The devices,
endpoints and cameras are those of `MCWindows`; what happens to them is not
bounded, nor are instances, changes, calls and faults:

- `MutexImplements`: `ImplementsSingleInstance`. A first instance has a handle, so the
  object exists and nobody else can create it. Added is the relation of handles to
  locations.
- `NobodyIsDeaf`, `FeedImplemented`: the theorems of `Win32Monitor_proofs`, instantiated.
- `DevicesFollowed`: `DevicesAreFollowed`, for any number of messages under way. Added
  is `ObserverListens`: what is sent is of a registered kind, and from the first
  registration on there is a window that knows its observer.
- `EverythingGivenBack`: for each location what is held there, one invariant for each part
  (`ServiceHandles`, `EndpointHandles`, `CameraHandles`), and how often a reference is
  counted (`EndpointCounts`: the second `Release()` of the endpoint and the second
  `CoUninitialize()` make it an upper bound). The two libraries of the capture devices are
  shut down once each, whether their start has succeeded (`LibrariesUp`) or not.
- `ListsWhole`: `ListsAreWhole`. Added is, for each location, that the list has of the
  devices passed so far the good ones (`ListOf`, `EndpointsTold`, `CamerasTold`), and of a
  capture device that its formats are those of the media types read so far
  (`FormatsOf`, with `TypeAdded` for one more type), or none, and then a call has
  failed. That `SelectInSeq()` finds the current format needs that a set of numbers
  has a least one (`LeastOf`); it follows from the well-founded order of finite sets.
- `StopBounded`: `StopIsBounded`, with `Patience`: the longest hint is at
  least a tick, and two time-outs with two hints are less than the counter takes to
  come around (49.7 days; a program that waited for so long could not tell).
  `ServiceTimes` says for each location how long the command has taken at most. A sleep ends by
  the hint read before it, and the time-out is asked behind it: each of the two loops
  may exceed its time-out by one hint; the lemma `ClockGoesOn` is that the
  difference of two readings of the counter is right also where it wraps between.
- `TypesCorrect`, of all six parts.

Only model-checked:

- All liveness properties (`FirstAgainAndAgain`, `EventsAreRead`, `EveryCallReturns`,
  `CallReturns`, `LoopEnds`, `ServedInTurn`, `CommandReturns`): they rest on fairness and
  `ENABLED`, which are outside of what the prover does.
  Of four of them the part without fairness is proved: `CallsReadOn`
  (`EveryCallReturns`), `ListLeadsOn` (`CallReturns`, Video4Linux2),
  `EveryTurnLeadsOn` (`LoopEnds`) and `NobodyOvertakes` (`ServedInTurn`); they say that
  there is no going round in a circle, and TLC that the steps are taken.

## 6. Not modelled, and why

- Enumerations that copy what one call of the system returns: audio devices with
  Qt, `working_device_subsystems()`, interfaces of the network,
  `collect_device_classes()` (which nothing calls), and the video devices on
  Android, a straight line of NDK queries.
- Of `win32_service`: `service.cpp`, whose service is not compiled, and
  `service_config.cpp`, one call of the system for each command.
- Single calls of the system copied into structures: `getrusage`, the Windows
  providers of metrics, random counters; of `linuxinfo_provider` what asks cpuid
  and `uname`. The lists of network interfaces.
- The Android device observer, an empty stub, and vendored headers.
- In modelled components: the MSVC branches of `local_file_provider`, and its `read()`, `write()` and
  `lseek()` failing, which change nothing; samples, sums and byte order in
  `wav_explorer`; all wording of errors. The monitor on Windows is not shown a watched
  directory that is removed, nor a `GetOverlappedResult()` that fails (win32.cpp:262), and
  the run `windows` has no more handles than the system waits for; PulseAudio always
  has a name for the default device; no service is paused.

## 7. Plan

1. done: all modules of section 2 with their runs.
2. done: the theorems of section 5.
3. done: a theorem for every invariant and every action property of the runs. What is
   left is liveness, which the prover does not do.
