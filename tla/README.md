# nasmon in TLA+

This directory holds TLA+ models of nasmon, the TLC configurations that check
them on small instances, and proofs that TLAPS checks for every value of the
constants. `PROJECT.json` lists components, runs, mutants, the map from
definitions to source lines, findings, hazards and theorems.

    tlc -config StateFile.cfg MCStateFile      # model-check one run
    tlapm StateFile_proof.tla                  # check one module's proofs

## The system

`nasmond` runs the collectors of a NAS, keeps their results in one snapshot and
publishes it as a file; any number of `nasmon` clients read the file and draw
it. `nasmon --standalone` runs the collectors itself; `nasmon doctor` checks a
host.

| Component | State | Operations | What makes it correct |
|---|---|---|---|
| State file, `internal/statefile` | the directory: `nasmond.lock`, the state file, temporary files | `AcquireWriterLock`, `WriteAtomic`, `ReadState` | one writer; a reader sees whole snapshots, in order; nothing is left behind |
| Daemon, `cmd/nasmond` | `dirty`, the ticker | start-up writes, `publishUpdates`, shutdown | no update is lost; a failed publication is tried again; a signal ends it; its file goes before its lock |
| App, `internal/app/app.go` | collectors, `Updates` (capacity 1) | `New`, `Bootstrap`, `Start`, `ping`, `periodic`, `recordCollector` | every run of a collector is followed by a ping; status is honest |
| Store, `internal/model` | a snapshot under an RWMutex | `Update`, `Snapshot` | updates and copies are atomic |
| Network collector | interface, traffic baseline | `CollectTraffic`, `CollectIP`, two goroutines | rates are of one interface; the address is the shown interface's |
| Disk layout, identity, I/O | devices, identity cache, I/O baseline, activity | `CollectUsage`, `CollectDiskIdentities`, `CollectIOAndActivity` | rates and ages belong to the present devices |
| Disk power, temperature, SMART | `DiskHealth` entries, sudo back-off | three goroutines with slow commands | last known values survive; sleeping disks are not woken; no device is lost |
| Docker collector | container list | `CollectDocker`, a pool of four inspections | running and failed jobs stay visible |
| CPU, memory, sensors, GPU, systemd | CPU baseline | one `Collect…` each | percentages are percentages |
| External commands | a process and its children | output with an eight-second timeout | a collector is never stuck |
| Client, `cmd/nasmon` | last snapshot and its age, scroll offset, sort mode | initial wait, read on tick, redraw, keys | a dead daemon shows as stale, a living one does not |
| Doctor | none | checks of files, commands and ages | agrees with the client |
| Configuration | none | file, environment, defaults | the same for daemon and client; durations are positive |
| TUI | none but terminal modes and an input channel | layout, page size, sort by click, input events | the frame fits; the offset stays in the list; no key is lost |
| Installer, unit file | — | `Restart=on-failure`, `RuntimeDirectory=nasmon` | the state directory and the lock fit together |

Interactions: collector goroutines write the store under its mutex and ping the
`Updates` channel, giving up if it is full; `publishUpdates` turns pings into
publications at the pace of `STATE_INTERVAL`; `WriteAtomic` renames a
temporary file over the state path; clients open that path when they tick. The
`NetworkCollector` and `DiskCollector` objects are shared by several goroutines
and have mutexes that are released around every read of `/proc`, `/sys` and
every command. systemd restarts a failed daemon and owns `/run/nasmon`.

Hard behaviour: kills between any two system calls; a directory, and the lock
in it, that systemd replaces; coalesced and dropped pings; failing
publications; slow collectors that apply what they learned to a snapshot that
has moved on; unsigned counters and a wall clock that can go back. The list,
with its lines, is under `hazards` in `PROJECT.json`.

## Modules

| Module | Models | Checked by | Proved in |
|---|---|---|---|
| `StateFile` | lock, `WriteAtomic`, `ReadState`, the life of `nasmond` processes, systemd's restart and removal of the directory | `StateFile`, `TwoWriters`, `Recovery` | `StateFile_proof` |
| `AtomicState` | the abstract register the state file implements | as a property of `StateFile` | `StateFile_proof` |
| `Publisher` | collector goroutines, store version, `Updates`, `publishUpdates` | `Publisher` | `Publisher_proof` |
| `Network` | `NetworkCollector`, both goroutines | `Network` | `Network_proof` |
| `DiskHealth` | the device list and the four goroutines that write `Snapshot.DiskHealth` | `DiskHealth`, `DiskHealthQuiet`, `DiskHealthMMC` | `DiskHealth_proof` |
| `Docker` | `CollectDocker` and its pool of inspections | `Docker` | `Docker_proof` |
| `DiskActivity` | the sample of `/proc/diskstats`: throughput over a changing list, the quiet window | `Collectors` | `Collectors_proof` |
| `DiskPower` | `hdparm` and `smartctl` with their fallbacks, timeouts and the pause of sudo | `Collectors` | `Collectors_proof` |
| `CPUUsage` | `CPUCollector.Collect` on unsigned counters | `Collectors` | `Collectors_proof` |
| `Client` | a client's wait, reads and freshness; the daemon as its timers and its file; `doctor`'s judgement of age | `Client` | `Client_proof` |
| `Viewport` | layouts, rows, page, offset, sort order, clicks, resizes and redraws | `Client` | `Viewport_proof` |
| `TerminalInput` | bytes, the decoding goroutine, its channel, the loop | `Client` | `Client_proof` |
| `Status` | `recordCollector`, the way of a status through the file to a client, and the issue it shows | `Client` | `Client_proof` |
| `Config` | environment, file, defaults and argument for daemon and client; systemd's reading of the file | `Client`, `ConfigReadings` | `Client_proof` |

`MCStateFile` and `MCDocker` hold symmetry, a view and a relation for TLC.
`MCCollectors` and `MCClient` instantiate the modules of one run: parts that
share no variable. A variable `part` is chosen at the start and never changes;
the part it names takes all steps, and the others rest in an initial state.
Nothing is lost by that: a property of one part does not mention another, a
behaviour of it is one of that part's own specification, and the parts at rest
satisfy their invariants. The product of independent parts, whose
interleavings show nothing, is not built. The other modules are run as they are. An operator whose comment
begins with "Faulty variant" is a bug planted beside the definition it varies:
replacing the definition by it must break a property, and does.

### StateFile

The directory is a generation `gen` (which directory the path names, and so
which inode `nasmond.lock` is), the public entry, and the temporary entries;
entries point at inodes whose content is a stamp, 0 while incomplete. `pc[d]` is
`main`'s position, `wr[d]` that of the `WriteAtomic` it has called:

| Action | Code |
|---|---|
| `Start`, `Flock` | `AcquireWriterLock` up to the open; the `flock`, or exit 1 |
| `CreateTemp`, `Encode`, `Rename`, `Unlink` and the `…Fails` | `WriteAtomic`; `Unlink` is the deferred removal, whose own error is ignored (`UnlinkFails`), then `Return` is what `main` does with the result |
| `Flush`, `Stop` | `publishUpdates` publishes; returns after a signal, with or without a last flush |
| `RemoveState`, `RemoveStateFails`, `CloseLock` | the deferred calls, last one first; the error of `os.Remove` is ignored |
| `Crash` | SIGKILL or a panic: no deferred call runs, the kernel drops the lock |
| `Reap` | systemd notices the exit: restart of a failed unit, removal of its `RuntimeDirectory` |
| `Open`, `Decode` | `ReadState`: open, then decode what is open; on an error the caller keeps what it had |

Every stamp is a new one, so it stands for `written_at` on a clock that only
goes forward. A file that is shared or half written would show as a stamp
that changes, or as 0.

What cannot be told apart is merged: `ensureDir` with the call that follows it
(a directory that is missing or empty differs only in errors, and every call
may fail), `Chmod`, `Encode` and `Close` (they write to one private inode).

Properties: `AtMostOneWriter`, `NeverPartial`, `PublishedStands` (what the
writer published stands until it removes it, or tries to, and it does so before
it unlocks), `NoTempLeftBehind` (only kills and removals that failed leave a
temporary file), `ImplementsRegister`
(refinement of `AtomicState`; a read takes effect at the open, and no reader goes
back, which is also proved by itself as `MonotonicReads`), `FailedUnitRecovers`
(liveness).

### Publisher

A snapshot is its version. A collector's run is up to two `Update`s and a
`Ping`; the loop takes pings, copies the store (`FlushTick`, or `Done` for the
last flush) and succeeds or fails. `NoLostUpdate` says where an update that is
not published yet is; `EveryUpdatePublished` and `LoopStops` are its liveness,
and `ShutdownFlushed` speaks of the last flush. `cmd/nasmond/main_test.go:38`
expects more of that flush than `select` gives: when the signal and a ping are
both ready, either may be taken, and a ping left in the channel is not flushed.
So the property has the condition that no ping is left.

### Network

Each collector's run is a sequence of critical sections with unprotected
reads between them, exactly as in the code: `Resolve`, `ReadCounters`,
`Baseline`, `StoreTraffic`, `Check`, `Address`, `PutAddress`, and
`Invalidate`, `Clear` on errors. Counters are reduced to the interface they are
of and addresses likewise. The two collectors' tickers (2 s and 60 s) coincide, so
runs overlap as a rule, and when they do the code can mix two interfaces:
`CollectTraffic` may undo `CollectIP`'s reset of the baseline (`network.go:182`),
and a late `CollectIP` may restore the address of the interface that was left
(`network.go:145`). `OfOneInterface` says that nothing else does, in any
overlap: a rate of two interfaces' counters (`RateOfOneInterface`) comes of a
baseline that was taken by a run which the other collector crossed with a
switch, and an address beside another interface's name (`AddressOfInterface`)
was stored by such a run. `crossed` and `doubt` are history: which run was
crossed, and what on the screen and in the collector comes from one. Without the
exceptions both parts are violated, so they are the code's; a switch that keeps
the baseline violates the property although every overlap is allowed.
`EventuallyRight` says that nothing of the kind stays.

### DiskHealth

`healthDevices` is the collector's list (`smartDevices` is the part of it
that is not `mmcblk*`); `health` maps a device to its entry, the zero value
where it has none, as `current[dev]` reads; `run[p]` is the run of goroutine
`p`: its copy of the list, the devices still to be asked, its `updates`.

| Action | Code |
|---|---|
| `ReadMounts`, `StoreLists`, `Identify` | `CollectUsage` up to and at its critical section; `CollectDiskIdentities` |
| `Start`, `TakePrevious` | the list a goroutine asks for; the snapshot `CollectSMART` begins with |
| `AskPower`, `AskTemperature`, `AskSMART` | one device's command and what is kept of its output |
| `LeaveAlone`, `CommandFails` | `shouldPollDisk` says no; the command fails: no update |
| `MergeDiskHealth` | `mergeDiskHealth` with the merge function of the collector |
| `Mount`, `SpinDownOrUp`, `Age` | the machine |

A reading is the age of the disk when it was read, so that newer and older can
be told apart. A report may be usable and yet lack any of its readings, that of
a `smartctl` killed half-way included (`command.go:29`): the temperature and
the verdict are then `NoValue`, "N/A" in the code, which overwrites the last
known one (`smart.go:288`, `:387`, `:426`), and counters keep the values
`CollectSMART` began with. (An NVMe disk's worn-out warning, which may override
the verdict, is a part of the verdict here.) `ReadingsNeverGoBack`: no reading on
display is replaced by an older one, and no counter by none. `LastKnownStays`: what
was read of a disk that stays mounted stays, whichever commands fail, until a
usable report of that disk itself lacks it. README.md promises that the last
known readings remain of a sleeping disk; of a poor report it says nothing, so
the exception (`Untold`) is no finding. `LastKnownStays` is about disks that are not in `Pluggable`: a run that began before
a disk was added ends with its old list and drops the entry, which the next run
of a collector makes anew without the readings (`smart.go:204`).
`EventuallyListed` and `EventuallyRead` say what the entries come to be when
the machine is quiet: what a poor report took away comes back with the next
good one.

### Docker

A run is `List`, then a worker per container (`Acquire`, `Inspect` or
`InspectFails`, `Memory`), then `Store`; the engine changes between any two of
them. `succeeded` is a history variable. `HiddenSucceeded` excepts containers
that may be started again: the state comes from the list and the exit code from
a later inspection, which is 0 for a container that runs, so a job that failed
and was started again in between is hidden (`docker.go:152`) until the next
run. `EventuallyRight` shows that nothing of the kind stays.

### Client

Times are small integers and stamps are ages relative to the wall clock, which
`Jump` sets; timers do not jump. The daemon is its two timers (`mainDue`,
`flushDue`), `dirty`, and the file; a ping is taken at once (`Publisher` has
it in full), and a file that is there is whole (`StateFile`), but a try to open or
decode it may fail all the same (`Unreadable`). `Draw` is
`applyStateFreshness` in each of the places that draw. `LivingNotStale` and
`IndicatorTrue` (a dead daemon comes to be shown as stale, a living one as
fresh) are what the indicator promises; `GivesUpWithoutFile` is what the wait of
three seconds promises: a client gives up with a file there only between two
tries, or after one that failed.

The promise that a living daemon is not shown as stale needs that four of the
*client's* intervals, the longer of its main and state interval, cover what
the *daemon* takes from an update to a publication. That holds for a client with
the daemon's configuration, and for the run's; a daemon with
`MAIN_INTERVAL=10`, `STATE_INTERVAL=1` and a client started as `nasmon 1` do not
have it, and the living daemon is shown as stale between its updates.
The assumption `Timely` of the proof says which intervals do.

`doctor` compares the file's age with four *main* intervals
(`doctor.go:193`) although the file is written once per state interval, for
which the client allows (`cmd/nasmon/main.go:228`). The part of
`LivingNotStale` that is about doctor therefore has a condition on the
intervals. Without it the property fails: with `DaemonMain = 1`,
`StateInterval = 5` a healthy daemon's file is called stale.

### Viewport

A snapshot is its list of containers (name, name with case, memory) and the
numbers of its other rows; a frame is what it was drawn from, with the first
container and the count it shows. Its lines follow in two ways, as in the code:
`DockerPageSize`, `RegularFixedRows`, `LandscapeFull` are what the layouts
reserve, `SystemLines`, `RegularLines`, `LandscapeLines`, `HeaderLine` count what
the renderers print, section by section. That the two agree is a property.

| Action | Code |
|---|---|
| `Press`, `Click` | `HandleInput`: the offset or order asked for, then `Settle` clamps, and the loop draws if anything changed |
| `NewSnapshot` | a tick's read, or an update in standalone mode; `draw` |
| `Resize`, `Winch` | the terminal changes and signals; the loop takes the signal and draws |
| `Warn` | a collector's status grows old or recovers: one row more or less |

`OffsetOfFrame`: the offset and the order that keys and clicks change are those
on the screen, and the page keys move by is the page drawn. `FrameFits`: a frame
that can fit does, and hides no container it has a line for. `PageOfSortedList`:
the page is cut out of the sorted list. `ClickSorts`: every line of a frame
ends in a newline, so a frame that fills the screen is shown one line higher
than it is numbered; a click on the header is still near enough.
`ResizeShown`: liveness. A consequence of that newline that no property forbids:
when the frame fills the terminal, its title line, and `DAEMON STALE` in it,
has scrolled off the screen.

### TerminalInput

`Type` appends a gesture's bytes to what the terminal holds; `ReadByte` decodes
one (`Decode`), `EmitInput` waits for room in the channel, `Receive` is the loop's
select. `EventsInOrder` says that what the loop has received, what the channel
holds and what is being sent are exactly the events of the gestures so far, in
order, each once, without gaps; `AllHandled` that the loop comes to receive all of
them, also those from before the terminal hung up. `Swallowed` is the exception
of both: after a lone Escape the decoder takes the next byte for a part of a
sequence, so the next key is lost (`terminal_linux.go:115`).

### Status

The times in a `CollectorStatus` are judged by the wall clock, so they are ages
that grow with time and shift when the clock is set (`SetClock`). They are
judged by a client, in a copy: `RecordCollector` puts them into the store,
`PublishStatus` (a tick of `publishUpdates`) from there into the file, and
`ReadStatus` (a tick of the client) from there onto the screen. All three have
their own time (`RunMax`, `PublishMax`, `ReadMax`, failed writes and reads
included), and the clock goes on in all copies. `Issue` is `collectorIssue`, of the
copy on display. `IssueOfLastRun` relates what is shown to how the last run
ended of which the copy tells, and says when that is the last run at all. A
clock that was set back hides a failure for a while, because the failed attempt
is then not later than the success before it, and one that was set forward makes
a good collector look stale. The property names both exceptions, and
`IssueComesTrue` says that neither stays.

That a collector that works is shown without an issue has a third condition,
`Prompt`: the interval, the run, the publication and the read together take no
longer than four intervals. The default intervals are so. With `GPU_INTERVAL=1`
and `STATE_INTERVAL=5` they are not: the copy a client has is up to five seconds
and a tick older than the store, so a healthy GPU helper is shown as `STALE` in
every publication period. The client allows for the state interval in the age of
the file (`cmd/nasmon/main.go:228`), but not in that of a collector
(`collector_status.go:21`). No doc promises otherwise.

### Config

A text is absent, empty, garbage or an integer. Durations are signed numbers of
`Bits` bits. `Edit` changes the file at any time, `DaemonLoads` and `ClientStarts`
are `LoadConfig`; the daemon has the file twice, as systemd reads it (`systemdFile`,
which `SystemdStarts` puts into its environment) and as `parseEnvFile` does
(`envFile`), and prefers the former. The two grammars differ: systemd
takes backslashes away, concatenates quoted parts and joins a line that ends in
a backslash with the next, `parseEnvFile` strips one pair of outer quotes.
`Readings` are the pairs that a line can come to: the same text, a number for
systemd that is garbage for the code (`7\0`), nothing for systemd where the code
finds a value (the line was joined with the one before).

`SameConfiguration`: daemon and client agree, if both were started since the
last edit, on everything that the client does not override and that systemd
reads as the code does or not at all. Without the last condition they need not:
that is `OneConfiguration`, which `ConfigReadings` refutes. Without the
condition on edits they need not either: if the file is edited between systemd's
read and the daemon's, the daemon's configuration is a mixture of both versions.
`PanicsOutOfRange`: `NewTicker` panics on a duration that is not positive, which
only a number that wraps round can cause (`config.go:104` multiplies without a
bound; arguments are bounded). A `STATE_INTERVAL` that wraps does not panic:
`publishUpdates` takes a second instead (`cmd/nasmond/main.go:16`).

### DiskActivity, DiskPower, CPUUsage

`DiskActivity`: one sample per main interval feeds the throughput, whose
baseline is the sum over a list of disks that may have changed (`RateTrue`: a
change falsifies one sample only), and the quiet window (`PolledWhileActive`: no
active disk is taken for a quiet one, and a quiet one is left alone). A disk that
is pulled out (`Pull`) and plugged in again (`Plug`) counts from zero. If its new
counters happen to be the ones of its old activity entry, its first I/O goes
unnoticed, and if they are below the baseline the rate shown is too low, or zero
(`diskstats_combined.go:70` clamps it): `restarted` remembers such disks, and both
properties have them as exceptions.

`DiskPower`: a run asks one disk after the other; `NextCommand` is the chain of
fallbacks, `NextPause` the ten minutes without sudo after it was refused. A
command may be killed at its timeout and leave a child that holds the pipe
(`Kill`, `OrphanEnds`): the collector then waits for the child, however long it
lives: no property speaks against that, since it is what the code does
(`command.go:28`). `TimesKept` therefore bounds the time but for such children;
`ReportsReturn`, which assumes that they end, is what the fallbacks and the pause come to.

`CPUUsage`: `Unsigned`, `Signed` and `Share` are Go's conversions at a width of
`Width` bits. `CPUExact`: a percentage is right to a percent, and an iowait that
went back falsifies one sample only.

## Runs, bounds, fairness

| Run | Properties | Shows | Bounds |
|---|---|---|---|
| `StateFile` | `AtMostOneWriter`, `NeverPartial`, `PublishedStands`, `NoTempLeftBehind`, `ImplementsRegister` | safety and the refinement, in a directory that stays | 2 daemons (1 a unit), 1 reader, 4 inodes, optional writes up to stamp 4, 1 kill or failing removal, 1 other failing call |
| `TwoWriters` | not `AtMostOneWriter` | finding: two writers with the shipped unit | no kill |
| `Recovery` | `FailedUnitRecovers` | a failed unit is replaced | 1 kill or failing removal, 1 other failing call, no reader |
| `Publisher` | `NoLostUpdate`, `ShutdownFlushed`, `EveryUpdatePublished`, `LoopStops` | no update is lost, each is published, the loop ends with its last flush | 2 collectors (1 immediate), versions up to 3 at a run's start, 2 failures |
| `Network` | `OfOneInterface`, `EventuallyRight` | only runs that were crossed by a switch mix; right in the end | 2 interfaces, one preferred, 2 changes, overlapping runs |
| `DiskHealth` | `ReadingsNeverGoBack`, `LastKnownStays` | readings do not go back or vanish | 2 disks, one of which comes and goes, one of which sleeps; 1 change during the runs, from any initial mounts and power states; 1 poll that fails, is left out or brings a poor report |
| `DiskHealthQuiet` | `EventuallyListed`, `EventuallyRead` | every device is listed, power states and readings become right | an eMMC device that stays, a disk that comes, goes and sleeps; 1 change, 1 command that fails or brings a poor report, no quiet window |
| `DiskHealthMMC` | not `IdentityStays` | finding: eMMC entries are removed | 2 devices, a machine that does not change |
| `Docker` | `BoundedWork`, `HiddenSucceeded`, `EventuallyRight` | bounded work, what is hidden, what comes to be shown | 3 containers: a labelled job, a service and its setup job, which may be restarted; 2 places, any initial states, 2 changes, 1 failing request |
| `Collectors` | `CollectorTypes`, `PolledWhileActive`, `RateTrue` | activity | 2 disks on a list that changes, one of which is pulled out and plugged in again; 2 sectors, 1 failed sample, a window of 2 periods |
| | `TimesKept`, `ReportsReturn` | commands | 2 disks, one behind a bridge; timeout 1, pause 4; 2 changes of rights or sleep, 1 error |
| | `CPUExact` | CPU | counters of 12 bits, up to 9 ticks and 3 between samples, 1 failed sample |
| `Client` | `LivingNotStale`, `GivesUpWithoutFile`, `IndicatorTrue` | the freshness indicator, the initial wait, doctor | intervals 2 (main), 4 (state), 1 (client); timers up to 1 late; 2 ends of the daemon, 1 failing write, read or try, 2 jumps of 2 |
| | `OffsetOfFrame`, `FrameFits`, `PageOfSortedList`, `ClickSorts`, `ResizeShown` | the screen | lists of 0, 3 (names that differ in case, ties in memory) and 10; 7 sizes, which give each layout rows for all, for some and for none; 1 warning |
| | `EventsInOrder`, `AllHandled` | keys | 3 gestures of 10 kinds, a channel of 1 |
| | `IssueOfLastRun`, `IssueComesTrue` | a collector's status | interval 2, runs of up to 2, publication and read up to 1 each; the clock set once by 2 |
| | `SameConfiguration`, `PanicsOutOfRange` | the configuration | 3 numbers (0, one in range, one that wraps), durations of 8 bits, 1 edit |
| `ConfigReadings` | not `OneConfiguration` | finding: systemd reads the file in its own way | the same, 2 edits |

Two daemons suffice for each hazard of the lock (a holder and a contender that
restarts); four inodes leave one free while one is public, one is open and one
is being written. Stamp 4 lets a daemon start (2 writes), flush, and be
followed by another that starts while the first one's file is still open.
`MaxStamp` bounds only what nobody has to do (a flush, a start by hand), so
that a restart is never blocked by a bound. `MCStateFile!View` leaves out of a
state's identity the content of inodes nothing refers to and what dead
processes knew; no action or property reads either. In `DiskHealth` one change
meets every combination of four collectors, each at any point of its run: what
goes wrong takes one stale list or one stale entry. Three containers and two
places make workers queue. The intervals of `Client` differ, so that ticks
drift past each other, and the state interval is the one that decides. An
escape before a sequence takes two gestures, an event in each of channel,
reader and terminal three. One edit tells a file before, between and after two
reads. One interval of `Status` is as long as a run, and four of them cover run,
publication and read with one to spare, so that `Prompt` holds and is used. A pause of 4 outlasts two runs of `hdparm` over both disks. 12 bits
hold a hundred times the ticks, as 64 bits do, and differences still wrap.

The type invariants of `Collectors` are its `CollectorTypes`. Those of all
modules are proved, and the others not run.

Fairness. `StateFile`: a process that can run runs, a system call returns, and
systemd restarts a failed unit; nothing makes anybody flush, stop, start by
hand, crash or read. Kills and errors are finitely many. `Publisher`: runs
that began end, publications return, and a case of a `select` that is ready
again and again is picked (Go picks among the ready ones at random), so its
cases are strongly fair. `Network`, `DiskHealth`: tickers keep firing while
the daemon runs, and commands end (they have a timeout). `Docker`: the same for
requests, and a goroutine that waits for the semaphore is not passed over
forever (a Go channel serves its senders in order). `Client`: time passes, and
timers that have fired are served; nothing makes a daemon start or end.
`Viewport`, `TerminalInput`: the loop returns to its select, which does not
pass a ready case over forever, and a read of bytes that are there returns;
nobody has to type or to resize. `Status`: time passes, tickers fire and runs
end; nothing makes commands succeed; not every write of the file and not every read of
it fails. `DiskPower`: the same, and a child that
holds a killed command's pipe ends some day; without that its collector would be
stuck, as in the code.
Deadlock is not checked where a system may stop (`StateFile`, `Publisher`);
in `Client` a terminal that is gone may rest.

## Proofs

Each module's types are proved first (`TypeCorrect`, `Types`, `ViewTypes`);
the rest follows from invariants that are inductive with them.

- `StateFile_proof`, from `ConstAssumption`. `CallInv` (`WriteAtomic` runs only
  where `main` calls it); `LockInv` (a daemon past the lock is the recorded
  holder of its lock file), which gives `LockCorrect`: `ExclusiveInDir` without
  any assumption about the directory. Under `Stable` (the directory is no unit's
  `RuntimeDirectory`) every daemon has the same directory (`SameDir`), hence
  `OneWriter`. `FileInv` adds to `NeverPartial` that what is about to be renamed
  is complete, and gives `CompleteFiles`. `TempInv` counts: only a kill or a
  removal that fails makes a temporary file nobody owns, and one at most
  (`OneOrphan`); it gives `TempsAreOwned`.
  `StandInv` extends `PublishedStands` to the moment between the first rename
  and the return, and gives `OwnSnapshotStands`. `OrderInv` orders the stamps
  seen, open, public and about to be published; with the others it is
  `RegisterInv`, from which `ReadsAreMonotonic` and
  `StateFileImplementsRegister` follow step by step.
- `Publisher_proof`: `NoLostUpdate` is inductive as it stands, given types.
  `FlushInv` follows what was pinged before the signal from the channel through
  `dirty` and the copy to the file, and gives `LastFlush`.
- `Network_proof`: types need `LocalInv` (what a run's locals hold at each
  point). `CurrentInv` says that a run that was not crossed is on the collector's
  interface; `RateInv` that the baseline is the collector's interface's unless a
  crossed run took it, and that a run that is crossed before its baseline finds
  none; `AddressInv` that an address is the collector's interface's, or in doubt,
  or about to be replaced or cleared by a run under way (`Pending`). Together they
  give `OnlyCrossedRunsMix`, for every number of interfaces and every overlap.
- `DiskHealth_proof`: `TypeOK` includes that a device without an entry has the
  zero value, which every replacement of the entries needs. `ReadInv` relates
  what a run holds to what is shown: no entry and no reading in hand is newer
  than the disk, and what a temperature run has been told, or a SMART run has in
  hand, is not older than the entry it will be merged into. That needs that a
  collector writes only its own fields. It gives `ReadingsMonotonic` for every
  set of devices, however runs overlap. `ListInv` says that a device that stays
  mounted is on every list in use that it belongs on; with `ReadInv`, by which a reading that a run has in hand is a newer
  one or a missing one, it gives `ReadingsStay`.
- `Docker_proof`: `BoundedWork` is inductive given types (the cardinality of
  `Busy` is the one argument about finite sets); `SucceededInv` says that what
  was listed as exited is exited or gone, and what was found to have status 0
  has succeeded, except for what may be restarted; it gives
  `HiddenHaveSucceeded`.
- `Viewport_proof`, from `ViewAssumption`: for lists, terminals and warnings of
  any size. `ScreenInv` adds to `OffsetOfFrame` that the last frame's size is a
  configured one; every action that draws does so through `Show`, so one lemma
  (`DrawRestores`) serves them all. `DrawnFits` is the arithmetic: a frame with
  the page of the keys has no more lines than the screen, and as many if
  anything is hidden; it has one case per layout and full or short header. It
  gives `FramesFit`, and with the scroll of at most one line `ClicksSort`.
  `PagesAreOfSortedList`: a sort is known by where it puts each container,
  `Place`, the number of those that come before it. The order is strict and
  total, because ties go by ids, which are distinct (`ViewAssumption`); so places
  are distinct and in the list's range, an injection of a finite set into itself
  is a surjection, and each place has its one container. No induction over the
  list is needed.
- `Client_proof` has the other four parts of a client, each from the assumption
  of its module, and the whole.
  - Age: `TriesInv` (a file that is there has been there since the last try at
    most) gives `GivesUpOnlyWithoutFile`. `LivingIsNotStale` follows a snapshot
    from its collection to the screen: `DaemonInv` (a daemon that has not stopped
    has a file and runs its timers), `FileInv` (the file's age and the time to the
    next publication are bounded by what failures so far have cost) and `SeenInv`
    (the same for what is shown and the next read). It holds for the intervals of
    `Timely`, which compares that bound with four intervals of the client;
    `SameIntervalsAreTimely` derives it for a client of the daemon's own
    configuration, with timers up to a third of an interval late. The run's
    intervals satisfy it too, with a failure.
  - Keys: `InputInv` says that the reader has decoded the bytes of the first
    gestures, and of the next up to a position, and that what is in flight are the
    events due of those. It rests on a lemma per gesture of what its bytes
    decode to, from the start and after an Escape (`GesturesDecode`), on how runs
    of Escapes alternate (`SwallowedNext`), and on counting: the n-th event due
    is well defined (`CountsDiffer`) and stays so as more is typed
    (`HeardStays`). It gives `EventsAreInOrder` for a channel of any size and any
    number of gestures.
  - Status: `StatusInv` bounds a success's age in the store by the time to the next
    tick and of the run after it, in the file by the time the update has waited, on
    the screen by the time the file has waited for the client; and it orders the
    last failure after the success in each copy; each as long as the clock was not
    set the wrong way. It gives `IssueIsOfLastRun`, in which the last bound is
    compared with four intervals (`Prompt`).
  - Configuration: `ConfigInv` says what each process that was started since the
    last edit has; `SameLookup` that what systemd has put into the environment as the code
    reads it, and what a shell leaves alone, reads as the file alone. It gives
    `ConfigurationsAgree`, and with `DurationRead` (what is not positive has
    wrapped) `PanicsOnlyOutOfRange`, for all texts and any width of durations.
  - `PartsOfClient`: the composed `ClientSpec` implements the specification of
    each part, so that each theorem about a part holds of the run's system.
    `ClientTyped` are its types.
- `Collectors_proof`, in the same way for `CollectorsSpec` (`PartsOfCollectors`,
  `CollectorsTyped`).
  - Activity: `ActInv`. `SampleInv` relates the last samples to the counters of
    now: the baseline and what has moved since make up the counters, an activity
    entry with today's counter is not older than the disk's last I/O. With
    lemmas about sums over sets of disks that is `RatesAreTrue`. `QuietInv`
    says that a listed disk that has long been quiet has been noticed by a
    sample or waits for one that is due in time, and gives `PolledUntilQuiet`.
  - Commands: `TookInv` (the time a disk has taken is that of the commands up to
    the present stage) and `PauseInv` (the pause left and the time since the
    refusal make up the back-off) give `TimesAreKept`.
  - CPU: `CPUInv` says that baseline and ticks since make up the counters, unless
    iowait went back, and that they are small enough for each product to be
    exact; `UsageIsExact` is then arithmetic of remainders, for every width.

Four theorems state what no run has as a property. `LockCorrect` is the exclusion
per lock file, whatever happens to the directory. `DisksStayShown` and
`IdentityStaysWithoutMMC` (`DiskHealth_proof`) bound the second finding below:
a disk smartctl is asked about keeps its entry and its brand while it is
mounted, however runs overlap, and on a machine of such disks that stay
`IdentityStays` holds. `PublishedGoesForward` (`Publisher_proof`) says that
publications follow the store forward and end with the last flush; together with
`ReadsAreMonotonic`, by which readers see publications in order, what a client
sees of the collectors' results does not go back.

Assumptions on constants are those of the code: sets of daemons and disks are
finite, intervals, timeouts and the quiet window are positive (`envDuration`
takes the default for others, and `PanicsOutOfRange` is about those that wrap), containers have
distinct ids, CPU counters are below a hundredth of their type's range. Values
that stand for "none" are none of the values they are told from. That `Half`,
a power of two, is a positive number is among the assumptions of `Config` and
`CPUUsage`, since the prover knows no powers; TLC evaluates them all.
`Stable` is needed for what is proved from it: without it `TwoWriters` has two
writers.

Only model-checked: liveness and what depends on `ENABLED`, which are out of the
prover's reach: `FailedUnitRecovers`, `EventuallyRight` of `Network` and of
`Docker`, `EveryUpdatePublished`, `LoopStops`, `EventuallyListed`,
`EventuallyRead`, `ReportsReturn`, `IndicatorTrue`, `ResizeShown`, `AllHandled`,
`IssueComesTrue`; and the three findings, which are violations. Every other
property of a run is a theorem.

## Findings

1. `TwoWriters`: with the shipped unit, a `nasmond` that fails to get the lock
   makes systemd remove `/run/nasmon` with the lock file; its restart locks a
   new inode beside the daemon that still runs.
2. `DiskHealthMMC`: the temperature and SMART collectors merge with a list
   without `mmcblk*`, and a merge drops every entry that is not on its list. An
   eMMC device, whose identity README.md:102 promises to show, disappears with
   each of their runs until another collector's.

3. `ConfigReadings`: systemd reads `/etc/nasmon/nasmon.env` by another grammar than
   the code and puts what it reads into the daemon's environment, which the code
   prefers to the file. For a line with a backslash, concatenated quotes or a
   continuation, daemon and client have different values, against
   `config.go:189`, "This keeps nasmond and nasmon on the same state path,
   intervals and host settings".

Four hazards in `PROJECT.json` have no property, because the code does what they
fear and nothing in the repository promises otherwise: a dead daemon looks fresh
while the clock has been set back (`cmd/nasmon/main.go:208`; that it ends is
`IndicatorTrue`), `doctor`'s main interval (`doctor.go:179`), a child that holds a
command's pipe (`command.go:20`), and an edit of the configuration during a start
(`config.go:85`).

## Not modelled

Memory, load, temperature, fan, GPU and systemd collectors parse one file or
one command's output each, keep no state, and store what they find with one
`Update`: there is no order of steps to get wrong. Of text, only what decides
something is modelled (a number of rows, whether a duration is a number, what
a command's output is taken for): no wording, width, colour or truncation, no
lines of `/proc`, `smartctl` or `hdparm` beyond that decision. Standalone mode is the client's loop over the collectors of the daemon,
both of which are modelled, and is not composed again. `doctor`'s checks other
than of the file's age print facts about the host. The installer is a shell
script that runs once.
