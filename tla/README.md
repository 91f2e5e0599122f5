# A verification project for w_scan_cpp

w_scan_cpp scans satellites, cables and antennas for TV channels. The program
is built from VDR's core, used as a library, and two of VDR's plug-ins:
*wirbelscan*, which does the scanning, and *satip*, which turns SAT>IP servers
in the network into devices. This directory holds TLA+ modules that model the
program's concurrent core, TLC configurations that check small instances, and
proofs for TLAPS.

Paths below are relative to `src/w-scan-cpp-20260515+dfsg/`; `satip/` stands for
`vdr/PLUGINS/src/vdr-plugin-satip/` and `wirbelscan/` for
`vdr/PLUGINS/src/wirbelscan-dev-2026.05.15/`.

Contents

1. [The system](#1-the-system)
2. [The modules](#2-the-modules)
3. [The runs](#3-the-runs)
4. [The proofs](#4-the-proofs)
5. [What the checks found](#5-what-the-checks-found)
6. [Limits](#6-limits)
7. [Plan](#7-plan)

## 1. The system

### How a scan runs

```
 main() --StartScan/Scanning/Import--> wirbelscan services
                                           |
                              cScanner (thread): list of initial transponders
                                           |  one at a time
                              cStateMachine (thread): this transponder and
                                           |          all its NIT announces
              +------------+---------------+-------------+
          cPatScanner  cPmtScanner x n  cNitScanner  cSdtScanner   (threads)
              |            |                |             |
              +--- OpenFilter / ReadFilter / CloseFilter -+
                                  |
      cSatipDevice -- cSatipSectionFilterHandler (thread) -- VDR's own filters
           |                      ^
           | SetChannelDevice,    | TS packets
           | SetPid               | (ring buffers)
           v                      |
      cSatipTuner (thread) ---> RTSP server ---> RTP packets -> cSatipPoller (thread)
```

### Components

| Component | State | Operations | What makes it correct | Module |
|---|---|---|---|---|
| SAT>IP tuner, `satip/tuner.c` | state machine, two queues of requests, stream and session, three sets of PIDs | `SetSource`, `Close`, `SetPid`, `SetPowerSaveMode`, loop of the thread, reports from the poller | no request lost, no session and no frontend left behind, the PIDs of the server follow those asked for | `SatipTuner` |
| Scan control, `main.cpp`, `wirbelscan/scanner.cpp`, `wirbelscan/statemachine.cpp` | pointers to scanner and state machine, their states, lists of new and scanned transponders | start, poll, import, stop; tune, read tables, take up announcements | each transponder once, its tables filed under it, results complete when exported, the end reached | `Scan` |
| PMT scanners and section filters, `wirbelscan/scanfilter.cpp`, `satip/sectionfilter.c` | flags of each thread, slots of filters, PIDs of the tuner | `Start`, `OpenFilter`, `CloseFilter`, delivery | each gets its slot and PID and gives both back; the phase ends | `PmtScan` |
| What the scanners take from the tables, `wirbelscan/scanfilter.cpp`, `wirbelscan/statemachine.cpp` | sections seen, services, names, announced transponders | `PatSync::Sync`, the loops of the four scanners, `eAddChannels` | every service that is broadcast is found and has its own name | `TableScan` |
| Ring buffer, `vdr/ringbuffer.c` | head, tail, gotten, cells | `Put`, `Read`, `Get`, `Del`, `Clear` | a FIFO queue without a lock between one writer and one reader | `RingBuffer`, `Fifo` |
| VDR threads and locks, `vdr/thread.c` | owners and counters of a lock, state of a list, states of keys | `Lock`, `Unlock`, `Remove`, `SetExplicitModify`, `SetSyncStateKey`; `Start`, `Cancel` | readers see each change, no lock stays behind | `StateLock`; threads in `Receivers`, `SatipDiscover` |
| Receivers of a device, `vdr/device.c` | slots, PID handles, the thread of the device | `AttachReceiver`, `Detach`, `DetachAllReceivers`, `AddPid`, `DelPid`, `Action` | a PID is delivered as long as somebody wants it; nobody is called after it was detached | `Receivers` |
| Local DVB-S tuners, `vdr/dvbdevice.c`, `vdr/device.c` | ring of bonded tuners, master, state of each tuner, what it sends up the cable | `Bond`, `UnBond`, `SetChannel`, `GetDevice`, power saving, the tuner's thread | tuners that share a cable are on the same band; a lock is that of the channel set | `DvbTuner` |
| SAT>IP discovery, `satip/discover.c`, `satip/msearch.c`, list in `satip/server.c` | list of servers, when each was last heard of, URLs to fetch | probe, fetch, add, clean up, `Deactivate` | a server is kept while it answers and dropped when it is gone; the stop returns | `SatipDiscover` |
| SAT>IP device, `satip/device.c` | tuner, TS buffer, current channel | channel change, filters, DVR reads | one zap at a time; filters and receivers share PIDs | in part in `SatipTuner`, `PmtScan` |
| SAT>IP frontends, `satip/server.c` | per frontend a device and a transponder | `Assign`, `Attach`, `Detach`, `Matches` | no frontend is given to two devices or never returned | counted in `SatipTuner` |
| SAT>IP poller and sockets | epoll set | register, dispatch | an object is not called after it is unregistered | |
| RTSP, RTP, RTCP | handle of a connection, sequence number | SETUP, PLAY, OPTIONS, TEARDOWN, receive | answers are read for what they mean | answers in `SatipTuner` |
| VDR section handler, `vdr/sections.c`, `vdr/pat.c`, ... | filters and handles | `Add`, `Del`, `Process` | runs beside the scan on the same device | `Others` of `PmtScan` |
| Tables of countries and satellites, command line, output formats, DiSEqC text, channels, the recorder VDR | constants, options, lists | look-ups, formatting | | |

`PROJECT.json` lists all of them with their files, whether they are modelled and
why not.

### How they interact

The scan's threads reach the device by method calls only (`SwitchChannel`,
`OpenFilter`, `CloseFilter`, `AttachReceiver`), and the device its tuner in the
same way. The tuner's thread takes its own mutex method by method. The poller's
thread calls the tuner (lock and signal reports) and discovery (answers). Results
go back through flags the scan polls (`HasLock()`, `Active()`, `Finished()`), and lists with a
mutex each. VDR's own lists (channels, timers) are under a `cStateLock`. `Scan`
takes what `PmtScan` and `TableScan` show of a transponder for a free choice, and
so do these with what `SatipTuner` shows of the tuner. So every module's
environment is wider than the module next to it.

### What is hard

* **Threads.** A scan with one device runs about ten threads beside the pool of
  PMT scanners. Several flags and pointers are shared without a lock
  (`Scanner`, `cScanner::StateMachine`, `shouldstop`, `stop`, `isActive`,
  `jobDone`, `cRwLock::writeLockThreadId`).
* **State read, used later.** The tuner's loop takes its mutex per method, so
  a zap, a new PID or a report falls between any two methods; `TEARDOWN` is sent to
  a remembered server; a local tuner's thread reads the frontend before it
  takes its mutex; `SetChannelTuned()` may wake a caller for an earlier channel.
* **Locks given up on the way.** `Detach()` leaves its mutex before it stops the
  receiver; `OpenFilter()` takes two one after the other; `Deactivate()` waits for a
  thread while it holds the mutex that thread needs.
* **Failing servers.** Any RTSP request may fail or be refused; sessions expire;
  answers of the network come late, twice or not at all.
* **Lists that grow while they are worked off.** NITs announce transponders
  already known under slightly different frequencies.
* **Tables read from the middle.** Sections come in a cycle; a scanner begins
  anywhere in it.
* **Stopping.** A stop may come in any state of either thread.
* **Limits.** Slots of filters and receivers, PID handles, pool size, margins of
  the ring buffer.

The main hazards are listed line by line in `PROJECT.json`, each with the properties
that cover it or the reason why none does.

## 2. The modules

| Module | Models | Uses |
|---|---|---|
| `SatipTuner` | one `cSatipTuner`, its device's calls, the poller, RTSP servers | |
| `Scan` | `main()`, `cScanner`, `cStateMachine`, table scanners, a caller of `DoStop()` | |
| `PmtScan` | state `eScanPmt`, its scanners, section filters, the tuner's PIDs, VDR's filters | |
| `TableScan` | which sections the scanners take, and what becomes of services, names and transponders | |
| `Fifo` | what a ring buffer promises (abstract) | |
| `RingBuffer` | `cRingBufferLinear` between two threads | `Fifo` (refinement) |
| `StateLock` | `cRwLock`, `cStateLock`, `cStateKey` | |
| `Receivers` | receivers, PID handles and thread of a `cDevice`, `cThread::Start` and `Cancel` | |
| `SatipDiscover` | thread, answers, list of servers, `Deactivate()` | |
| `DvbTuner` | bonded DVB-S tuners, choice of a device, power saving | |
| `SatipProofs` | theorems about `SatipTuner` and `SatipDiscover`, one part each | `TLAPS` |
| other `...Proofs` | theorems about the module before the suffix | `TLAPS` |
| `MC...` | constants of the instances for TLC | |

In each module the variables have the names of the code's members, without the
`M` the satip plug-in ends its members with; the comment behind each names the
member. Operators that begin with a comment *Mutant* are plausible mistakes; no
specification uses them. They show that each property can be broken by a change
of the code.

### SatipTuner

Every method of `cSatipTuner` holds `mutexM` and is one step. `Action()` does not,
so `pc` names the places between two methods of one iteration. There the
device, the poller or power saving may call.

* `UpdateCurrentState`, `Idle`, `ReleaseDisconnect`, `ReleaseDone`, `SetTearDown`,
  `Connect`, `Connected`, `ForcePids`, `ConnectFailed`, `TunedStatus`, `TunedLock`,
  `TunedTimeout`, `LockedPids`, `LockedKeepAlive`, `LockedWatch` and `LockedRetune` are
  the steps of `Action()`.
* `SetSource`, `ZapReturn`, `Close`, `SetPowerSaveMode` and `SetPid` are the calls of the
  device. `ProcessApplicationData` is the poller's, `Destroy` the destructor.
* `SessionExpires` is a server that forgets a session.

Servers are external: `session` says what each streams. An answer is `"ok"`,
`"fail"` or `"forbidden"`. The code takes 403 for success (`satip/rtsp.c:538`), so
the third is a case of its own. `attached` holds the calls of `Attach()` that no
`Detach()` has undone; which frontend is meant is the matter of `satip/server.c`.
Timers are free choices.

### Scan

One action per state of `cStateMachine`, per place of `cScanner::Action()` and of
`main()`. An iteration of the state machine is one step: of all it reads others
write only `stop`, and this is tested at the top of the loop. Lock and no lock,
the end of a table scanner and the contents of a NIT (any subset of the
transponders) are free choices. `Scanner = nullptr` is the last statement of
`cScanner::Action()`, not the end of its thread: `ScanLeave` clears the pointer, and
`ScanReturn` ends the thread some time later; nobody waits for that.
`known_transponder()` is translated with its
list `NewTransponders` first and `ScannedTransponders` after it; its notions of
equality are the relations `Same`, `Alike` (nearly the same frequency: not
transitive) and `Twin` (T and T2 on one frequency).

### PmtScan

`PoolSkip`, `PoolStart` and `PoolEnd` are the passes of the state machine over
its scanners, one scanner a step because each step reads flags other threads
write. A scanner goes through `Begin`, `OpenSlot`, `OpenPid`, `ReadNothing`,
`ReadSection` or `ReadTimeout`, `ClosePid`, `CloseSlot`, `SetJobDone`, `End`.
`OpenFilter()` and `CloseFilter()` are not atomic in the code and not in the model:
the handler's list and the tuner's list have a mutex each. `Others` are VDR's own
filters (`cPatFilter` and its like), which open and close when they want.
`Deliver` puts a section into the sockets of all filters of a PID.

### RingBuffer and Fifo

`Put()` and `Read()` take a copy of `tail`, store bytes and then set `head`; `Get()`
takes a copy of `head`, moves the rest at the end of the buffer below the margin
and sets `tail`. Each of these is a step, so the other thread's steps come
between. Bytes are numbered in the order they are stored. `Fifo` is what the
header promises; `RingBuffer` refines it with the contents from `tail` to `head` as
its queue. That `Get()` returns at least `Margin` bytes in one block
(`MarginPromise`) is what the loop of the section handler relies on: it would spin
without deleting anything if a block were shorter than a TS packet
(`satip/sectionfilter.c:282`).

### TableScan

`Scan` and `PmtScan` leave open what tables contain. `TableScan` has it: each
transponder has a PAT, an NIT and an SDT in sections (constants), which are
broadcast in a cycle. A scanner begins at any section (`Start`), loses some
(`Lose`), and its count of waits may run out at any time (`Timeout`).

* `PatSection` is `PatSync::Sync()` and the loop of `cPatScanner`: the first section
  must come first, each is taken once, and the scanner ends with the first section
  that has a service or with the last one.
* `PmtSection` takes the first PMT on the PID, whatever its service id.
* `NitSection` ends with the last section or the first one seen again, `SdtSection`
  with the first one seen again.
* `AddChannels` is `eAddChannels`: new channels, names for every channel that has
  none, the transponders announced. What was found on one transponder stays in
  `SdtData` when the next one is scanned, as in the code.

### StateLock

The fields of `cRwLock` (`writeLockThreadId`, `locked`) are read and written outside
the rwlock, so `Lock()` and `Unlock()` are split at each access: `LockCall`,
`AcquireWrite`, `RefuseWrite`, `AcquireNestedRead`, `AcquireRead`, `TimeOut`, `LockedWrite`,
`LockedRead`; `Remove`, `UnlockNested`, `UnlockClear`, `Release`. The rwlock of the C
library is external. `Modify`, `SetExplicitModify` and `SetSyncStateKey` are what a
writer may do. `dirty` and `unseen` record which keys have not seen the newest
list. They are not in the code; the property `NoMissedChange` compares them with the counters.

### Receivers

`AttachReceiver()` holds `mutexReceiver` from `AttachCall` to `AttachStart`, with a step
for each PID and for each PID given back when there is no handle left (`AttachUndo`).
`Detach()` holds it in `DetachClear` only; it deactivates the receiver, deletes its
PIDs and cancels the thread afterwards. The device's thread passes a packet slot by slot
(`DevReceive`) and may itself detach a receiver the CAM cannot decrypt
(`DevScrambled`). `running` and `active` of `cThread` are two variables because a thread
that was cancelled is active until it has ended: `Start()` waits for that.

### SatipDiscover

Time passes in ticks while all threads sleep or wait (`Tick`), and in one jump
to the next probe when nothing can happen before it. `ProbeEnd`, `Cleanup`, `Loop`,
`Take`, `Fetch`, `Wake` and `Die` are the thread; `SetUrl` is the poller's thread that
hands over an answer; `Deactivate`, `Cancel` and `Cancelled` are the stop, which holds
`mutexM` throughout. Servers answer each of the two queries of a probe once, late or
not at all. A fetch succeeds, fails, or brings an answer with a bad status. The
latter leaves its bytes in the buffers, and the next description then makes an
entry without model and name: an entry of its own (`whole = FALSE`).

### DvbTuner

`next` links the bonded tuners to rings (`Ring`: what the links reach), `master` the tuner that may drive the LNB.
`Receive` and `EitScan` choose a device, detach the receivers in its way and do what
`cDvbTuner::SetChannel()` does before it takes its own mutex: make a master, switch it
first, set the others to idle. `SwitchOwn` is the rest. The threads of the tuners take two
steps, `Read` without the mutex and `Work` with it. `lnb` is what a frontend sends
up the cable, `Band[c]` what a transponder needs there. One thread switches
channels, as VDR's main loop does, which also runs the EPG scan.

## 3. The runs

| Run | Instance | Question |
|---|---|---|
| `tuner_zap` | 2 servers that may fail, 2 transponders | do zaps, releases and power saving keep track of sessions and frontends? |
| `tuner_live` | 1 server that does not fail, with TEARDOWN before PLAY and forced lock; 2 transponders, 1 PID | is every PID, release and zap served in the end? |
| `scan_core` | 4 frequencies, a list of 3, stop at any time | is a scan correct from start to end, and does it end? |
| `pmt_pool` | 3 services, 1 other filter, 3 slots, own PIDs | do the scanners get and return slots and PIDs, and does the phase end? |
| `tables_names` | 3 transponders, 3 services, 2 sections lost | is every service found, with its own name? |
| `ring_fifo` | 7 cells, margin 3, 16 bytes | is the buffer a FIFO queue? |
| `lock_list` | 2 threads, 3 keys | do readers see each change, is every lock given back? |
| `receivers_pids` | 3 receivers, 2 slots, 2 handles | are PIDs counted right while receivers come and go? |
| `discover_list` | 1 server, the code's waits in seconds, a third of its interval | is a server kept while it answers and dropped when gone? does the stop return? |
| `dvb_bonded` | 2 tuners, 2 bands, 2 priorities | does a shared cable always carry the band of all that use it? |
| `receivers_start` | as `receivers_pids` | *violated*: has `AttachReceiver()` a thread when it returns true? |
| `tables_nit` | as `tables_names`, nothing lost | *violated*: has a NIT scanner that ends seen all parts? |

### Properties

Tuner:

* `NoLostZap`: a tuner that counts as tuned is connected to the newest source, or
  the request for it is still queued.
* `TeardownAtIssuer`: a TEARDOWN goes to the server that issued the stream id.
* `IdleMeansReleased`, `AttachedIsCurrent`: a tuner at rest has neither stream nor
  frontend; otherwise at most one, the one it will detach.
* `PidSetsConsistent`: what is to be added is wanted, what is to be deleted is not.
* `AddsNotLost`: a wanted PID the server does not forward is scheduled to be added.
* `ReleaseHonoured`, `ZapServed`: external requests are carried out although
  internal ones overtake them.

Scan:

* `NeverScannedTwice`: nothing equal to a transponder scanned is tuned to again.
  Twins are the exception the code makes: both are scanned if both were announced
  before the first had a lock.
* `TablesOfTuned`: no table is read while the device is tuned to another
  transponder than the one the result is filed under.
* `ExportComplete`: `Import()` takes no lock and yet gets all results.
* `NothingUntested`: a scan nobody stopped has tried every transponder announced.
* `NothingAtWork`: from the import on the state machine is gone and the scanner's thread
  has nothing left to do but to return, stopped or not; when a scan nobody stopped
  leaves its loop, all table scanners have ended. (After a stop these may run on,
  and the scanner's thread may not have returned when the plug-ins are unloaded: see
  section 5.)
* `ScanTerminates`: a scan that `main()` knows of ends and lets the program end.

PMT phase:

* `PoolSound`: the types; no scanner is refused a slot (`NoneRefused`: 32 slots
  suffice although the loop lets 17 scanners run, where the comment says 16); when
  all have ended no slot and no PID is left (`NothingLeft`).
* `OpenIsForwarded`: the PID of an open filter is in the tuner's list.
* `TablesAfterPmts`: NIT and SDT come after every PMT scanner has run and ended.
* `PhaseEnds`.

Tables:

* `ChannelsSound`: the types; no channel bears the name of another service
  (`OwnNames`), though names of all transponders are kept and filled in late.
* `SdtComplete`: an undisturbed SDT scanner has all sections, wherever it began.
* `ServicesFound`: every audio or video service of an undisturbed transponder
  becomes a channel, with its name.

Ring buffer: `Refinement` (it implements `Fifo`), `LentIntact` (what `Get()` handed
out stays until `Del()`), `MarginPromise`, `NeverStuck` (reader and writer never
wait for each other).

Lock of a list:

* `LockSound`: the types; the owner noted is the thread that has the write lock
  (`OwnerIsHolder`); each lock taken is a key in use or a call under way, in whatever
  order keys are removed (`LocksBalanced`); a writer is alone (`WriterIsAlone`).
* `NoMissedChange`: a key whose owner has not seen the newest list differs from
  the lock's state, so its next `Lock()` is granted.
* `ReaderServed`: a reader that waits without a timeout gets an answer.

Receivers:

* `PidsSound`: the types; each PID is counted once for each receiver that has it, at
  every point of attaching, giving up and detaching (`PidsCounted`); an attached
  receiver gets its PIDs (`PidsServed`). Left out are PIDs shared with a receiver the
  CAM may drop, for the device's thread may detach that one while its owner does.
* `ReceiveWhenActivated`: `Receive()` is called between `Activate(true)` and
  `Activate(false)` only.
* `ThreadEnds`: with nobody attached the device's thread ends.

Discovery:

* `ListSound`: the types; a server that is gone is removed (`GoneIsRemoved`): it is
  stale at the fourth probe, and as each clean-up removes one entry only, one at the
  place `i` of `n` entries has at most `n - i` rounds more.
* `KeptTwoRounds`: one round without an answer costs no server its place. If a stop
  has kept the clean-up waiting, it may: then what was fetched in the round before stays.
* `DeactivateReturns`: the stop returns, though it waits for a thread that may
  need the mutex it holds.

Local tuners:

* `CableSound`: the types; bonded tuners form one ring with at most one master
  (`RingsClosed`); a tuner at work finds its band on the cable (`CableServes`).
* `NotDisturbed`: switching leaves a tuner with a receiver on its band, unless its
  receiver has the lower priority and is detached.
* `LockIsFresh`: a lock is that of the channel set now.

`CableServes` and `NotDisturbed` hold except while the EPG scan pauses (section 5).

### Bounds

* `MaxRequests = 1`: a call of the device finds at most one request in each queue
  and may add another; the thread's own requests are not bounded. So both queues
  reach two entries and more, and requests overtake each other. Longer queues
  are covered by the proofs, where `MaxRequests` is any number.
* Two servers and two transponders allow every order of "same" and "other".
  `tuner_zap` has no PIDs: none of its properties reads them. `tuner_live` has one
  server, because the sets of PIDs do not know the server and liveness with failing
  servers is not to be had; its quirks take the longest way through the code. The
  answer 403 is in no run (section 5); the theorems about frontends assume that it
  never comes.
* `Transponders` of a scan are frequencies 1 to 4. Neighbours are alike, 1 and 4
  are twins, and the initial list `<<1, 3, 1>>` has a repetition, so
  all three places of the code that look for known transponders matter.
* `MaxReads = 1` in `PmtScan` stands for 500 rounds: one round in which nothing
  comes, and the timeout. `Limit = 1` stands for 16 and, as there, lets one more run;
  `Slots = 3` stands for 32: one slot for each of the two active scanners and one for the
  other filter. A smaller `Slots` would break `NoneRefused`; the theorem has the
  exact condition.
* `TableScan`: three transponders of which the first announces the other two, in two
  sections; one service id on both that have services; a PAT whose first section is
  empty, an SDT of three sections and one in reverse order; a transponder with
  nothing; NIT PID named in the PAT and not. Two losses let a scanner lose a section
  and, when it comes by again, another one.
* `Size = 7`, `Margin = 3`, sixteen bytes: head and tail wrap around several
  times and the tail lies below, at and above the margin.
* `MaxState = 1`: no write lock is asked for from state 1 on. One thread has two
  keys and can nest them, one key is constructed with `IgnoreFirst`; all that
  matters of a state is whether it is equal to a key's, and -1, 0 and 1 give every
  case. The proofs are for any number of changes.
* `Receivers`: two share a PID, the third may be dropped by the CAM. With three
  receivers and PIDs for two slots and two handles, both run out.
* `SatipDiscover`: one URL, which makes two entries (the second from spoiled
  buffers), so removing one entry per round matters. The waits are those of the code
  in seconds, rounded up; answers come until two seconds (`MX: 2`,
  `satip/msearch.c:20`) after the second query. `SleepTime` is two ticks for half a
  second: of one tick, no probe would ever be late, where in the code each may be by
  nearly the half second. `ProbeInterval = 20` instead of 60, and `CleanupTimeout = 44`
  instead of 124: nothing happens in the seconds left out (the state space is the same with
  60 and 124), and what decides is that the time-out exceeds two intervals by four
  seconds. The stop may come at any place of any round.
* `DvbTuner`: two tuners and one transponder in each of two bands, priorities 1 and 2,
  with DiSEqC. Tuners are symmetric (the run has safety properties only).

Deadlock is checked in `lock_list`, `receivers_pids`, `receivers_start` and
`dvb_bonded`. The other configurations have `CHECK_DEADLOCK FALSE`, because the
system rightly stops: a destroyed tuner, an unloaded plug-in, all PMTs read, all
transponders scanned, a writer that has stored its last byte, a stopped discovery.

### Fairness

* `SatipTuner`: weak fairness of the thread, whose loop waits with a timeout.
  Nothing is assumed of device, poller and servers; that requests succeed in
  `tuner_live` is a constant of that run (`Answers = {"ok"}`).
* `Scan`: weak fairness of `main()` (it polls), of both scan threads, of each
  table scanner (their loops count their waits) and of a caller inside
  `SetShouldstop()`. Nobody has to stop.
* `PmtScan`: weak fairness of the state machine and each scanner. No section has
  to arrive and no other filter has to move.
* `StateLock`: weak fairness of a thread inside `Lock()` and `Unlock()`; strong
  fairness of a waiting reader, because glibc hands the rwlock to the readers that
  wait when a writer releases it; and of `Remove`, because a key is removed at the
  end of its block.
* `Receivers`: strong fairness of the device's thread: it polls, and the callers
  of attach and detach come so rarely that it gets the mutex at some time. Weak
  fairness of a call once begun.
* `SatipDiscover`: weak fairness of the thread, of time, and of the steps of
  `Cancel(3)`, which waits with a timeout.
* `RingBuffer`, `DvbTuner`, `TableScan`: none; their properties are safety.

## 4. The proofs

All theorems hold for every value of the constants under the assumptions of the
module that declares them; TLC evaluates these in each run.

**SatipTuner** (`ConstantsAssumption`)

* `TypeCorrect`, `PidSetsStayConsistent`, `TeardownReachesIssuer`: the properties are
  inductive, with the types.
* `ZapsAreKept` (`NoLostZap`). The property is not inductive: a queued `tsTuned` may
  make a tuner count as tuned later. `Requests` says what each place of the
  thread implies for `currentState` and that the device queues only sources and
  releases. `ZapKept` says that the newest source is connected, or
  queued, or no state that counts as tuned is on its way (`NoTunedAhead`).
* `FrontendsAreGivenBack` (`AttachedIsCurrent`), for servers that never answer 403:
  strengthened by *no stream, nothing attached*, except between a failed PLAY and
  the Disconnect that follows (`FrontendInv`). With 403 the property is false: SETUP
  counts as success without a stream id, and the next one attaches again.
* `IdleTunerHoldsNothing` (`IdleMeansReleased`), under the same assumption: while the
  tuner holds anything, its own requests do not end in `tsIdle` (`RestInv`).
* `PidsAreNotLost` (`AddsNotLost`), for one server that does not fail: while a stream
  is there the server has a session for it (`StreamAlive`), and each wanted PID is
  forwarded or scheduled, or the stream is about to be set up anew (`AddsInv`).
  With a PLAY that fails the property is false (section 5).

**Scan** (`ScanAssumption`: relations reflexive and symmetric, none transitive)

* `TypeCorrect`, with `Control`: where the threads are with respect to each other.
* `ImportIsComplete` (`ExportComplete`), from `Control`.
* `TablesAreOfTuned` (`TablesOfTuned`) and `WorkEndsBeforeImport`
  (`NothingAtWork`), with `Phases`: which tables can be read in
  which state, and that only a stopped machine leaves any behind. That the threads
  have ended by then is false (`UnloadAfterThreads`, section 5).
* `ScannedOnce` (`NeverScannedTwice`), with `Apart`: the announced transponders
  are pairwise different, and those yet to be scanned differ from those scanned.
* `AllAnnouncedTried` (`NothingUntested`), with `Exhausted`.

**PmtScan** (`PoolAssumption`)

* `PmtsComeFirst` (`TablesAfterPmts`), with `LoopInv`: what the pass of the state
  machine has skipped, started or found ended so far.
* `PoolIsSound` (`PoolSound`) for `Slots >= Limit + 1 + Cardinality(Others)`: no more than
  `Limit + 1` scanners are active (`ActiveInv`), a slot belongs to one client and a
  client has one slot at most (`SlotInv`). The code has 32 slots and a limit of 16,
  which leaves room for fifteen filters of VDR's own.
* `OpenFiltersAreFed` (`OpenIsForwarded`), if no two filters share a PID.

**TableScan** (`TableAssumption`)

* `TypesHold`, with `AtWork`: which scanners run in which phase.
* `NamesAreOwn` (`ChannelsSound`), for TIDs that are distinct, whatever is lost.
* `SdtIsComplete` (`SdtComplete`): `SdtInv` says that an undisturbed scanner has all
  sections from the first it took up to the next that is broadcast.
* `EveryServiceFound` (`ServicesFound`), for distinct TIDs, distinct PMT PIDs on each
  transponder, and PATs whose services are in the last section: with `PatInv`, `PmtInv`.

**RingBuffer** (`SizeAssumption`: `Size > 1`, `2 * Margin <= Size`, as the constructor tests)

* `TypeCorrect`, `LentStaysIntact`, `MarginIsHandedOut`, `ThreadsDoNotBlock`,
  `ImplementsFifo`. The invariant `IInv` has six parts: the types; how head, tail
  and the counters go together (`Counts`); what the writer is about to store fits
  (`StoreFits`); the bytes handed out are stored (`LentStored`); each byte from tail
  to head has its number (`Stored`); and so has what is stored ahead of the head
  (`Pending`). `ImplementsFifo` proves that each step of the ring buffer is a step
  or a stutter of `Fifo`.
* `ThreadsDoNotBlock` needs `2 * Margin < Size`. The constructor also accepts a margin
  of exactly half the size, for which writer and reader can wait for each other
  for ever. The program has no such buffer.

**StateLock** (`ConstantsAssumption`)

* `ChangesAreSeen` (`NoMissedChange`): keys never are ahead of the lock
  (`KeysBehind`), so a counter that moves on differs from all of them but the
  synchronised one.
* `LocksAreSound` (`LockSound`): `LockInv` adds that readers exclude a writer
  (`Exclusion`), when the owner is noted (`Noted`), that nested read locks are
  counted only inside a write lock (`CountedInside`), and what the arguments of a
  call and the kind of a key say about the lock (`Asked`, `WriteKeys`).

**Receivers** (`ConstantsAssumption`)

* `OnlyActiveReceive` (`ReceiveWhenActivated`). The invariant says which thread is
  where with respect to `mutexReceiver` (`PlacesOwn`) and that a receiver in a slot
  is activated, save for one being cleared (`SlotsActive`).
* `PidsAreCounted` (`PidsSound`), for one caller at a time (`OneUser`) and receivers
  whose PIDs are distinct (`OwnPids`). `CountInv` adds where each thread is and what its
  receiver is then (`PlacesKnown`), that the count of a PID is the number of receivers
  that claim it, with the set of them finite (`Counted`), and that one the CAM may
  drop has the PIDs only it has (`Fed`). Each step changes the set of claimants of a
  PID by one receiver or not at all, and the lemmas on cardinalities follow that.
  In a scan, scanner and state machine attach and detach one after the other; two
  callers may both detach a receiver, and the property is false (section 5).
  `cReceiver::AddPid()` does not add a PID twice (`vdr/receiver.c:46`).

**DvbTuner** (`ConstantsAssumption`)

* `LocksAreFresh` (`LockIsFresh`), for any number of tuners bonded in any way: an
  old lock is remembered only while the tuner is idle or yet to be set (`OldUnset`).
* `CablesAreSound` (`CableSound`), for any number of tuners, transponders and bands.
  `Ring(t)` is the least set with `t` in it that the links do not leave, so what
  holds along a ring needs no induction: a set with the tuner in it that is closed
  under the links contains the ring. From that come the lemmas on what `Bond()` and
  `UnBond()` make of a ring (`LinkIn...`, `LinkOut...`). The invariant `SharedCable` has
  the rings (closed, one master), and while the EPG scan does not pause: a ring with a
  tuner that was switched has a master (`SwitchOver`); the master sends what it sent
  last, and the band of its channel once it is set (`Powered`); those at work have
  its band (`SameBand`); and a tuner between `SwitchOthers` and `SwitchOwn` finds the others
  idle or in the band it is about to have (`TaskOk`). The last is what makes the
  invariant inductive: `SetChannel()` gives up its mutexes between the two.
* `ReceiversAreNotDisturbed` (`NotDisturbed`), from the same invariant.

**SatipDiscover** (`TimesAssumption`)

* `GoneServersAreRemoved` (`ListSound`), for every finite set of URLs and
  `CleanupTimeout < 3 * ProbeInterval` (124 s and 60 s, `satip/discover.h`). `Aged` ties the
  two clocks of an entry: after `k` probes without a fetch it has not been seen for `k - 1`
  intervals and the time since the last probe, so past the third it is stale.
  `Placed` is the property for every place of the thread: from a probe to its
  clean-up the age is one higher. Each clean-up takes the first stale entry, which moves
  all behind it one place forward. The list holds an entry once, which bounds the places.
* `SilentRoundIsSurvived` (`KeptTwoRounds`), under `RoundsFit`: all answers of a round (two
  for each server) can be fetched before the next probe is due, sleep and `Cancel()` are
  no longer than a round, and two rounds with their sleeps fit the time-out. The
  code's times satisfy it for up to 18 servers when answers come within three seconds
  (1.5 s a fetch); with more, a round may stretch beyond the interval, and a server
  that missed one answer may be dropped. `RoundInv` says that the thread has time for
  what it has to do: `Waiting` counts the answers it holds, and these and its
  present fetch (`Work`) fit what is left (`Backlog`), so that probes are no further
  apart than `Round` (`OnTime`); an entry fetched after the last probe but one was seen
  less than two rounds ago (`Young`). `Deactivate()`, at whatever moment, holds up a
  clean-up for no more than `CancelTime` (`Stopping`, `AtCleanup`). That is not
  longer than a round, so nothing fetched in the round before can be stale by then. What was
  fetched in the round before that can: two late rounds, `Probe()` and `Cancel(3)` take
  up to 124.998 s with the code's times, and the time-out is 124 s. The server that then
  leaves the list had missed one answer; the discovery ends anyway.

`SatipTuner` and `SatipDiscover` share `SatipProofs`, which extends both; they have no
variable in common, and no proof of one uses the other.

Only checked by TLC: liveness (`ReleaseHonoured`, `ZapServed`, `ScanTerminates`,
`PhaseEnds`, `ReaderServed`, `ThreadEnds`, `DeactivateReturns`), which is beyond the
provers used here, as is `ENABLED`.

## 5. What the checks found

Two runs are violated by the code; the lines they contradict are quoted in
`PROJECT.json`.

1. **A receiver without a thread** (`receivers_start`, `vdr/thread.c:308`). A receiver
   attached just after the last one was detached: `Start()` waits up to three seconds for the
   old thread to end while its caller holds `mutexReceiver`, for which the old
   thread waits. `Start()` gives up, nobody looks at its result, and
   `AttachReceiver()` returns true (`vdr/device.c:1764`).
2. **Parts of an NIT are missed** (`tables_nit`, `wirbelscan/scanfilter.cpp:1485`). The scanner ends with
   the last section, also when it began in the middle of the cycle.

Further definitions state what the code's comments say and are violated too. They
are at the end of their modules and not in a run; to see a counterexample, put the
definition into a copy of the configuration named.

| Definition | Configuration | What happens |
|---|---|---|
| `WokenMeansTuned` | `SatipTuner_zap.cfg`, INVARIANT | The tuner signals `SetChannelTuned()` in every iteration of `tsTuned`, also for the channel being left (`satip/device.c:451`). |
| `NoDeviceExits` | `Scan_core.cfg`, PROPERTY | The early returns of the scanner leave `Scanner` set, so `main()` polls for ever after "No device available - exiting!" (`wirbelscan/scanner.cpp:311`). |
| `UnloadAfterThreads` | `Scan_core.cfg`, INVARIANT | The scanner's thread clears `Scanner` inside `Action()` and has yet to return; nobody joins it, since the object is never deleted (`wirbelscan/scanner.cpp:1013`). `main()` polls the pointer, imports, calls `Stop()`, which does nothing once `Scanner` is cleared (`wirbelscan/menusetup.cpp:553`), and unloads the libraries (`main.cpp:176`). `Stop()` is to "Stop any background activities the plugin shall perform." (`wirbelscan/wirbelscan.cpp:71`; `vdr/PLUGINS.html:349` asks the same). A stopped scan may leave table scanners running as well. |
| `StopReachesMachine` | `Scan_core.cfg`, INVARIANT | Between `ActionAllowed()` and the assignment of `StateMachine` lie a channel change and the wait for a lock (`wirbelscan/scanner.cpp:986`). |
| `LeavesClean` | `Scan_core.cfg`, INVARIANT | A stopped state machine leaves its receiver attached and table scanners running, one with references to locals of the function that has returned (`wirbelscan/statemachine.cpp:133`). |
| `HoldsAtMost` | `RingBuffer_fifo.cfg`, INVARIANT | After bytes were moved below the margin the writer may use that room too (`vdr/ringbuffer.c:312`). |
| `OpenIsForwarded` | `PmtScan_pool.cfg` with `PidOf <- SharedPids` | `SetPid()` asks whether a filter still uses the PID, `CloseFilter()` of the same class does not (`satip/device.c:495`). |

Seen while modelling, without a property:

* The pool lets 17 PMT scanners run where a comment says 16
  (`wirbelscan/statemachine.cpp:283`).
* The scanner deletes the state machine (`wirbelscan/scanner.cpp:989`) perhaps
  between another thread's test of the pointer and its call of `DoStop()`.
* A PAT of several sections is cut off after the first one with a service
  (`wirbelscan/scanfilter.cpp:278`); if the PAT names no network PID the NIT is looked
  for on PID 0.
* An answer 403 counts as success and leaks a frontend (`satip/rtsp.c:538`).
* A PLAY that fails in `UpdatePids(true)` loses the PIDs until the next retune
  (`satip/tuner.c:141`).
* Discovery: `Cleanup()` removes one server per round (`satip/server.c:484`). The
  buffers of a fetch are reset after a good answer only (`satip/discover.c:213`).
* Power saving (`vdr/device.c:821`): while the EPG scan pauses, an unused bonded master is
  powered down although another tuner needs its LNB. Hence the condition `~pausing`
  of two properties.
* Local tuners: bonding changed while tuners are tuned leaves no master; a master
  whose `FE_SET_PROPERTY` fails keeps its band as its own; without DiSEqC a tuner
  that is not the master keeps 13 V, where `HISTORY` (line 7883) says off.
* Two threads may detach the same receiver, the device's and its owner's
  (`vdr/device.c:1890`); its PIDs are then deleted twice.
* Frontends with several devices: `SetChannelMtx` is released in the wait for a
  channel (`satip/device.c:452`), so two devices may be assigned the same frontend;
  `Attach()` takes over a frontend on the same transponder (`satip/server.c:66`); a
  retune within a server leaves the old transponder in `currentServerM`, so that
  `Detach()` does not find the frontend (`satip/tuner.c:238`).

## 6. Limits

* The models take `cMutex`, `std::mutex` and atomics as they are documented.
  Plain integers shared between threads (`head`, `tail`) are taken as
  sequentially consistent, which holds on x86 if the compiler keeps the
  order of the stores; the waits of the ring buffer have timeouts and are left out.
* `Scanner` and `StateMachine` are plain pointers: reads and writes are atomic in
  the model.
* One scan per process and one device, as `main()` runs it. With one device
  `Assign()` always finds the device's own frontend.
* `SatipTuner` takes the set of servers as constant; `SatipDiscover` has the list, with no tuner.
* `SetPowerSaveMode()` is reached in VDR from its EPG scan. w_scan_cpp does not
  run one; the tuners have the call because the classes have.
* `TableScan`: a lost section of an SDT is not waited for. Version changes, the
  original network id (its comparison is commented out), the filter by kind of
  service, channel numbers and cell links are left out.
* `DvbTuner`: one frontend per tuner, no positioner, no SCR; one thread switches.
  `EitScan` does not have the case of `ProvidesTransponderExclusively()`.
* `Receivers`: the device is a `cSatipDevice`, whose `OpenDvr()` and `SetPid()` succeed.

### Not modelled

The repository has about 95,000 lines of code. More than half are the video
recorder VDR, linked as a library: recordings, players, the on-screen display,
menus, CAMs, SVDRP, remote controls, fonts. A scan hardly calls any of this. Of the
rest much is parsing and formatting without state: descriptors, channel
lists in six formats, tables of satellites and countries, options, text of RTSP
and RTP messages, an XML parser. The models cover the code in which threads,
failures and orders meet, a small part of the lines. Modelling the rest would
restate code line by line without a property that could fail.

## 7. Plan

Left, in this order:

1. `SatipFrontends`: frontends of several servers and two or more devices, with
   `Assign`, `Attach`, `Detach`, `Matches`, and the zap with its global lock that is
   released in the wait. An abstract specification *each frontend belongs to at most
   one device* is what it should implement, and as section 5 says, does not.
2. `SatipDevice`: composes `SatipTuner`'s calls with receivers, filters and the
   TS buffer that power saving clears from a third thread.
3. `SectionFilter`: assembly of sections, the queue of each filter and the order
   of delivery against `Close`; the epoll set of the poller.
4. `cCondWait` of `vdr/thread.c`: no lost wake-up.

The runs are few on purpose: where two questions can be asked of one instance they
share a run.
