# Verification of the Hi3519DV500 SDK

TLA+ models of the parts of the Hi3519DV500 SDK (`src/a55_linux`) that carry the
program's own logic, their model checking with TLC, and proofs of their main
properties with TLAPS. Most of the SDK is register programming, numerical code,
samples and objects delivered without source. What remains, and is modelled here:

* the media memory zone (MMZ) manager, which every media module relies on;
* the frame pipeline of the image signal processor (ISP): how the interrupt, the
  firmware in user space and the video input (VI) pass configuration and
  statistics buffers to each other;
* the list of processes an ISP pipe is shared with;
* the watchdog driver with its feeding threads;
* the ring buffer of the motion sensor manager.

Paths below are relative to `src/a55_linux/source`, or to `src/a55_linux` where
they start with `vendor`.

## 1. Inventory

### Media memory: block manager and user device (`common/mem/mmz/linux`)

* **State.** A list of zones, each with a list of blocks (`ot_mmb_t`) sorted by
  address. A block has two counters, `phy_ref` (references) and `map_ref`
  (kernel mappings), and the flags `MAP2KERN`, `MAP2KERN_CACHED`, `RELEASED`.
  All of it is protected by one semaphore, `g_mmz_lock`. Every open file of
  `/dev/mmz_userdev` has a list of nodes (`struct mmb_node`), one for each block
  allocated through it, with the counts `map_ref` and `mmb_ref` of the user
  mappings; `pmu->sem` serialises the ioctls of one file.
* **Operations.** Kernel modules call `ot_mmb_alloc`, `ot_mmb_free`,
  `ot_mmb_map2kern[_cached]`, `ot_mmb_unmap`, `ot_mmb_get/put`. Processes call
  ioctls (alloc, free, remap cached or not, unmap, share, unshare, share_all,
  unshare_all, get_sys_mem_by_*, dirty area), `mmap` and `close`.
* **Interaction.** One ioctl takes and drops `g_mmz_lock` several times; calls of
  other files and of kernel modules run in between. A block found by handle or
  address may belong to any other file.
* **Hard.** The free of a block is deferred while it is referenced or mapped, and
  whichever of put and unmap comes last must perform it once. A node goes away in
  two critical sections (put, then free). An unmap drops its counts before the
  steps that may fail. Files are closed with mappings outstanding.
* **Correct when** the counters equal the references really held; the descriptor
  is freed exactly when nobody relies on the block; the cache attribute of a range
  does not change under a mapping; a close always finishes with an empty list.

### The "ot" allocator (`ot_allocator.c`)

* **State.** The sorted block list of each zone. **Operations.** Find the smallest
  gap a request fits into, insert, remove. **Hard.** Unsigned differences,
  rounding to the grain and to the alignment, three exits of one loop.
* **Correct when** blocks are disjoint and inside their zone, the gap is the best
  one, and a request fails only when no gap is large enough.

### The sharing list (`mmz_userdev.c`, `media_mem.h`)

* **State.** `pid[5]`, `pid_num` and `check_pid` of each block. **Operations.**
  share, unshare, share_all, unshare_all, and the clean-up of a closing file.
* **Hard.** The ioctls hold the semaphore of *their* file only, the clean-up holds
  `g_mmz_lock`: neither excludes the other, nor ioctls through other files.
* **Correct when** the list is the allocating process followed by exactly the
  processes it shares with, each once.

### The ISP frame pipeline (`mpp/cbb/isp/kernel/mkp/src`, `mpp/cbb/isp/user/firmware`)

* **State.** Per pipe, under the spin lock `g_isp_lock`: the configuration (BE)
  buffers on a free and a busy list, each with `hold_cnt`; `use_node`, the one
  being filled; `use_cnt` and `exit_state`. The statistics buffers on a free, a
  busy and a user list; the FE statistics of the last frames; `act_stat`.
* **Operations.** The frame interrupt takes a free buffer into `use_node`, keeps
  the FE statistics of the frame, sums statistics up and wakes the firmware. The
  firmware takes statistics, computes, puts them back and publishes `use_node`
  (`isp_drv_be_buf_ctl`). VI gets the newest published configuration for each
  frame, may hold it once more, ends the frame (which delivers BE statistics) and
  puts the buffer back. A mode switch takes all buffers back; exit waits for VI
  up to a timeout; then the pipe may be initialised again.
* **Interaction.** Three contexts (interrupt, process, VI's own interrupt and
  work) meet in the lists; the firmware's steps are separate ioctls.
* **Hard.** Tests outside the lock; buffers taken back while VI works with them;
  BE statistics that come frames later than the FE statistics of the same frame;
  frames dropped; a buffer filled again and again while the firmware reads an
  older one; an exit that gives up waiting.
* **Correct when** every buffer is in one place, nobody's buffer changes under
  him, VI always gets the newest configuration, and statistics are paired and used
  in the order of frames.

### ISP memory sharing (`isp_mem_share.c`)

* **State.** `share_pid[]` with the main process first and with holes,
  `share_all_en`; all under `share_sem`. **Operations.** owner, share, unshare,
  share_all, unshare_all, verify, exit. **Hard.** One loop searches for a hole and
  for the process.
* **Correct when** a process that was unshared is refused.

### The watchdog (`interdrv/wtdg/ot_wtdg.c`, `interdrv/init/linux/wtdg_init.c`)

* **State.** `g_driver_open`, `g_cur_margin`, `g_options`, `g_ot_dog_state`, none of
  them under a lock; `g_status` and `g_feed_count` of the fiq mode; the registers of
  the hardware. **Operations.** open, close, keep-alive, set timeout, enable,
  disable; the feeding thread (one for each processor in fiq mode), the
  high-resolution timer; unloading.
* **Hard.** A refused open and a close each change `g_driver_open` and take the
  change back; a close re-arms the margin after it gave the device up; the daemon
  sleeps by the default margin whatever the hardware runs with.
* **Correct when** one process at a time holds the device; the board is not reset
  while the daemon lives; it is reset when a processor hangs; unloading ends.

### The motion sensor ring (`vendor/extdrv/motionsensor/motionsensor_mng/src/motionsensor_buf.c`)

* **State.** A ring with five columns (X, Y, Z, temperature, PTS), a write pointer
  for each, and for each user a read pointer for each; `g_forward`, which tells a
  full ring from an empty one. **Operations.** write, add_user, delete_user,
  get_data for a window of time, release_data.
* **Hard.** The writer pushes a reader that is exactly `WR_GAP` slots ahead of it; a
  reader goes back for an older window; a release may come late; add_user reads the
  write pointers without the lock.
* **Correct when** a read returns exactly the samples of its window still there, with all
  columns from one slot, and the writer keeps its distance from the readers. Neither is
  so for a reader that itself goes near the writer (finding 6).

### Other parts

| part | state and operations | hard behaviour | status |
|---|---|---|---|
| ISP sync task, `isp_st.c` | three task lists per pipe; register, unregister, run from the interrupt | search before the semaphore, walk without it | planned |
| SMMZ agent, `common/smmz_agent/kernel` | allocator of the secure zone, handles (idr) with ownership and reference counts | two locks, error exits, look-up before removal | planned |
| OSAL media registry, `osal/src/linux/kernel/media/ot_media.c` | minors, list of media devices | tests outside the mutex, partial registration | planned |
| UVC frame cache, `mpp/sample/uvc_app/frame_cache.c` | two queues of buffers | partial creation, tear-down | planned, a sample |
| security subsystem, gfbg, audio adapter | adapters around hardware channels and delivered objects | | not planned |
| MIPI, ADC, pin multiplexing, codecs, sensors, boot code, samples, tools | register set-up, tables, examples | | not modelled |

`PROJECT.json` lists every component with its files and the hazards with their lines.

## 2. Modules

| module | models | state and actions against the code |
|---|---|---|
| `Mmb` | one block descriptor | pure operators: what each critical section of `g_mmz_lock` does to the record (`Get`, `Put`, `Free`, `Map2Kern`, `Unmap`, `RealAlloc`) |
| `MmzUserdev` | the device, its files and the kernel callers | `mmb`, `node`, `opened`; `op[f]` is the place where the call of file `f` stands; `kown`, `kmaps` are what the kernel modules hold. One action per critical section |
| `MmbPromise` | what the manager promises | abstract: no counters, only who holds a block; the last holder to leave frees it. `MmzUserdev` instantiates it with its refinement mapping (`Promise`) |
| `MmzAlloc` | `allocator_mmb_alloc` and `find_fixed_region` | `blocks` is `mmb_list`, `cur`, `start`, `fixed`, `choice` are the local variables; one step per loop iteration |
| `MmzAllocAligned` | `MmzAlloc` with the assumption `ZonesAligned` | |
| `MmzShare` | the process list of one block | one action per group of accesses between which another thread may come in |
| `IspList` | what a walk of a driver's list leaves on it | `Kept(s, T)`: the entries in `T`, in order |
| `IspBeBuf` | the configuration buffers of an ISP pipe | the lists of `be_buf_queue`, `use_node`, `hold_cnt`, `use_cnt`, `exit_state`; `vi` is what VI holds. One operator per section under `g_isp_lock` |
| `IspStat` | its statistics buffers | `st_free`, `st_busy`, `st_user`, `act_stat`, `fe_busy`; a buffer's contents are the time stamps (`pts`) of the frames its parts come from |
| `IspPipe` | the pipeline: composes the two | `irq` and `pc` are where the interrupt and the firmware thread stand between two sections; `life` is initialisation and exit |
| `IspShare` | the processes an ISP pipe is shared with | `share_pid`, `share_all_en`; one action per operation under `share_sem` |
| `Watchdog` | driver, threads, timer, hardware counter | the variables of the driver; `call[f]` is the place in a call of process `f`; `dogs` are the threads; `hw` the registers |
| `MotionBuf` | the ring buffer for one kind of data | `write_x`, `write_p` and `user_ctx` are the pointers as slot numbers; `call[u]` the place in a call of user `u` |
| `MCMmzUserdev`, `MCMmzAlloc`, `MCMmzAllocRagged`, `MCMmzShare`, `MCMmzShareRace`, `MCIspPipe`, `MCWatchdog`, `MCMotionBuf` | the instances TLC explores | |
| `MmzUserdev_proofs`, `MmzUserdevSteps_proofs`, `MmzAlloc_proofs`, `MmzAllocFit_proofs`, `MmzShare_proofs`, `Watchdog_proofs`, `MotionBuf_proofs`, `IspPipe_proofs` | theorems and proofs | section 5 |

Mapping from `op[f].at` to the code: `alloced` is line 69-95 of `ioctl_mmb_alloc`;
`mmapping` is inside the `mmap` handler that `vm_mmap` enters (its look-up took a
reference); `remapped` between `vm_mmap` and the count; `unmapping` between the
put and `vm_munmap`; `freeing` between `ot_mmb_put` and `ot_mmb_free` in
`mmz_usrdev_mmb_free`; `held` in every call that has looked a block up;
`releasing` and `dropping` in the loop of `mmz_userdev_release`.

Abstractions. A descriptor and its address range are one model value; a block may be
allocated again as soon as its descriptor is freed. The user addresses, the protections and
the names are left out; `mapped` says whether a user address is recorded. A look-up from
kernel context is the one of a file. The order of a file's list does not matter to any
property, so release takes the nodes in any order. The node of a fresh allocation starts
unmapped, as the library passes it. In `MmzAlloc` the whole request is one critical section;
its steps are separate only so that loop invariants can be stated, and no other action is
enabled between them. Sums of addresses do not wrap (assumption `AllocConstants`),
differences do, as in the code. In `MmzShare` the process list is wider than
`OT_MMB_MAX_PID_NUM` on both sides so that a stray store would be seen.

`IspPipe` is an offline pipe that is not stitched, with the statistics taken for
every frame (`stat_intvl` 1). It works in both wake-up modes: in `FE_START` the
interrupt of a frame takes a buffer, keeps the FE statistics and sums up
(`FrameStart`, `FrameTake`, `FrameFe`, `SumUp`), in `BE_END` the interrupt of a frame
only keeps FE statistics (`FrameStartPlus`) and the end of a frame in VI does the
rest (`TriggerPrepare`, `SumUp`). The mode is set while the pipe is down (`SetCtrlParam`) and
reset at exit (`ResetCtx`); the other control parameters, among them the number of
buffers, are constants. The AF windows are a part of a buffer's contents of their own
(`af`): the end of a frame (`AfStatRead`), and for split frames of each part
(`AfIntoAct`), writes them into the active buffer, also when the firmware has taken it. A
frame's AF statistics count as valid; the copy from the other buffer
(`isp_drv_statistics.c:1999`) is for the case that they are not, which in an offline pipe
is that of split frames only, where the call returns before it. Left out: run_once and
YUV mode, low delay, failures of the initialisation. VI is not part of the repository and
is modelled by how it calls the exported functions: it processes frames in order,
may drop frames, and puts references in the order it took them. The calls of an
initialisation are one action (`Start`), since the interrupt and VI are kept out
until `isp_init` is set; an interrupt in flight returns before a restart. Exit may free the
statistics buffers while the firmware thread still runs, since no one waits longer than
40 ms for it (`mpi_isp_entry.c:868`); only a section of the thread under the pipe's mutex
excludes it (`ExitStatistics`). A restart gets the same addresses from MMZ, which is
the case in which buffers of the time before could be confused with new ones.

In `Watchdog` a tick is half a second. Time passes only while no call is running, so
calls take no time. The hardware is modelled by how the driver uses it: it counts
down, raises the interrupt at the first zero and resets at the second; whether
clearing the interrupt also reloads the counter is left open. A process that hangs,
or a processor, never runs again (`Hang`). The interval of the fiq timer is the margin as it
was given times a constant, in 32 bits, as in the code (`IntervalOf`): for the default margin
of 60 s it wraps, to 1.7 s instead of 6 s. An interval is rounded up to the end of its tick.
With `nodeamon` unloading does not stop the timer (`ExitBegin`). The registers are
written as a whole,
under `g_ot_dog_lock`; the driver's variables are accessed one at a time where two
processes may interleave (`Release` then `ReleaseRearm`, `Heartbeat` then `Program`).

In `MotionBuf` X stands for the four columns of equal width, whose pointers move first, and
PTS moves last. `After(p, k)` is the slot that a walk reaches in `k` steps; a torn pointer
outside the ring is brought back into it by the first step. What lies behind the ring, which
a walk may touch with a torn pointer, is any value (`garbage`). Each user id has one thread,
so that the test of its context and the deletion under the mutex (`DeleteUser`) are one step.
Three variables are history, which no action reads: `raced`, the users whose `add_user` met a
writer, or another user's read; `mark`, the newest sample a user was shown (or found when it
joined); `near`, the users whose own last move, by a read or a release, ended less than
`WR_GAP` slots ahead of the writer, or at the writer with samples not shown.

## 3. Runs

Every bound is a constant of the cfg. `TypeOK` is the type invariant of its module.
Runs that expect a violation are explained in section 4.

| run | instance | what it shows |
|---|---|---|
| `userdev_contention` | 2 files (one `O_SYNC`), 2 blocks, at most 2 mappings in all (by files and the kernel), fair | `RefsMatchUsers`: the counters are the references held. `LiveIffHeld`: no use after free, no leak. `KernelAttributeFixed`, `UserAttributeFixed`: cache attributes do not change under a mapping. `ImplementsPromise`: refinement of `MmbPromise`. `ReleaseTerminates`: a close ends with no node left |
| `userdev_unmap` | 1 file, 1 block | violation of `NoInvalidRefer` (finding 1) |
| `alloc_fit` | 2 zones of 6 and 2 grains, 3 sizes, 2 alignments | `BlocksDisjoint`, `NeverBad`, `BestFit`, `FailOnlyIfFull` |
| `alloc_ragged` | 1 zone that ends between two multiples of the alignment | violation of `NeverBad` (finding 2) |
| `share_list` | 1 process with 2 files, 5 children that inherit the first | `ListExact`, `OwnerStaysListed`, up to the limit of 5 and past it |
| `share_race` | 2 processes with a file each | violation of `OwnerStaysListed` (finding 3) |
| `watchdog` | 2 processes (1 in fiq mode and with the refused margin), 2 processors; loaded with a daemon, with a refused margin, with `nodeamon`, in fiq mode with an interval that fits and with one that wraps, and in fiq mode with `nodeamon`; default margin 2 s, at most 3; 4 feeds of the timer | `OneHolder`: one process holds the device. `FedByDaemon`: no reset while the daemon lives. `WatchdogBites`: a hung thread or process leads to the reset. `UnloadEnds`: unloading ends |
| `watchdog_unload` | the same | violation of `StopsLiveThread` (finding 4) |
| `motion_ring` | 4 slots, gap 2, 2 users, 2 windows, 6 samples | `ColumnsInStep`: columns of one slot are read together. `WindowExact`: a read returns exactly its window in order, or nothing when it starts at the writer and the ring is taken for empty. `GapKept`: the overflow test misses no reader that the writer approaches |
| `motion_gap` | 1 user, no race | violation of `NoOverlap` (finding 6) |
| `isp_unshare` | 3 processes, list of 5 | violation of `UnshareRevokes` (finding 5) |
| `isp_frame` | 3 configuration buffers, 2 references of VI, 2 statistics and 2 FE buffers, 3 frames, 1 mode switch, 1 restart, both wake-up modes, whole and split frames | `BuffersAccounted`: no buffer is lost. `HeldConfigStays`: what VI holds is not reused. `NewestHanded`: VI gets the newest configuration. `BufferForNextFrame`: a frame finds a free buffer. `StatPaired`: FE and BE statistics of one frame. `HeldStatStable`: what the firmware has taken keeps its frame, BE and FE parts; its AF windows only get newer. `SeenInOrder`: nor are older ones used later |

Why the bounds are enough to meet the hazards: all hazards of the block manager
concern one block and at most three parties: the owner of the node, a call that
has looked the block up, and one that joins between two sections of the other two,
which is the kernel here (more files are covered by the theorems only). Two mappings
(`FewMappings`) distinguish the last one from another one and a mapping by a file from one
by the kernel. Two blocks give lists with more than one node to close.
Two zones of six and two grains give gaps of every size the three requests can
leave, blocks at both ends, an empty and a full zone. `share_list` fills the list.
`watchdog`: with 3 s as the longest margin and 2 s as the default one the
counter may be smaller, equal and larger than the daemon expects, and every timeout
argument (refused, legal, too large) occurs. The timer's interval wraps as it does in the
code: the margin of 2 s fits, that of 3 s wraps to an interval of one tick. What is shown is in
ticks and feeds of the instance; how long ten feeds last on the board depends on the margin
and on the wrap, and no bound in seconds is claimed.
`FedByDaemon` depends on the margins: twice the margin a process sets
must cover the sleep of the daemon, half the *default* margin; the instance has
only such margins (`TimeoutsCover`), and a process that sets less than a quarter of the default
margin does get its board reset. In fiq mode one process is enough, because the
races of two processes do not depend on the mode. `motion_ring`: four slots and
six samples go around the ring once and a half, so pointers, windows and the gap
all wrap; two users suffice for one to disturb the flag of the other.
`isp_frame`: three buffers are one more than the smallest number the driver
accepts, enough for one being filled, one handed out and one free; two frames in
flight and three in all let statistics come late, frames be dropped and the FE list
overflow. Its constraint `ShortAfterLoss` follows only two frames after a restart, a
recall or a loss; `SwitchWhole` switches modes with whole frames only, since a switch handles
configuration buffers and a split frame statistics.

Some properties exclude what the code itself gives up.
`BuffersAccounted` does not hold after the interrupt, which tests `use_node` outside
the lock (`isp.c:4468`), has overwritten a buffer that a mode switch put there
(`leaked`); `HeldConfigStays` and the two that follow do not after a mode switch has
taken back a buffer VI holds (`recalled`; the driver clears VI's input queue then).
`NewestHanded` is not claimed while the switch is under way, and `StatPaired` not for a
frame of VI that outlives an exit and restart after such a recall. In `motion_ring`,
`ColumnsInStep`, `WindowExact` and `GapKept` leave out a user whose `add_user` met a writer,
until its first read from inside the ring repairs its pointers, or whose read met
another `add_user`, which sets the flag `g_forward` for all. `GapKept` also leaves out a user
whose own last move took it nearer to the writer than the gap (`near`), and `WindowExact`
lets the read of such a user be empty: this is finding 6, whose run states what
the code's own words ask for, without the exception. `HeldStatStable` speaks of a buffer on the
firmware's user list; when the firmware finds no busy buffer it reads the active one without
taking it, and of that only the order (`SeenInOrder`) is claimed, not that it stays the same.

TLC checks small instances only; the theorems of section 5 have no bounds.

Fairness. `userdev_contention` assumes weak fairness of the steps of a call that has
started (`InCall(f)`): a thread inside a call runs on; it waits only for
`g_mmz_lock`, which every section releases before it returns, and the semaphore's
queue is first in, first out. The two watchdog runs assume weak fairness of the
timer, of time, of every feeding thread and of the unloading: the kernel runs a
thread whose sleep is over and a timer that expired, unless its processor hangs,
which is the action `Hang` (a thread that hangs is never enabled again, so fairness asks
nothing of it). Nothing is assumed of when calls start, and nothing of the processes
that use the watchdog.

Deadlock is checked except where a behaviour really ends: in `watchdog` and
`watchdog_unload` with the reset of the board or the unloaded module, and in
`isp_frame` with the last frame and the last restart.

## 4. Findings

1. `mmz_userdev.c:290`. `ioctl_mmb_user_unmap` drops its counts before the cache
   flush and `vm_munmap`, both of which can fail. The node is then mapped with
   both counts 0; each later unmap is refused as "invalid refer" and a delayed
   free waits until the file is closed.
2. `ot_allocator.c:18`. The gap length is an unsigned difference. When rounding to
   the alignment carries the start past the end of the gap, the length wraps and
   the region chosen may be the address of a live block; the request then fails
   with "media-mem allocator bad", although there may be room. Worse, when the start lies
   inside a live block, the comparison of addresses misses it and the new block overlaps the
   other one (`BlocksDisjoint` fails on the same instance). With zones whose
   ends are multiples of every alignment asked for it cannot happen (proved).
3. `mmz_userdev.c:520`. The position of a pid is looked up and used without a lock
   that other files take. Two processes that withdraw the same pid at once shift
   the list twice, and the allocating process disappears from its own list.
4. `ot_wtdg.c:483`. Unloading tells the feeding threads to end and then calls
   `kthread_stop` for each. A thread that wakes in between ends first, which the
   wrapper of that function forbids (`osal_task.c:110`): "the thread function cannot be
   finished, otherwise it will oops". In fiq mode each wait for one thread gives the
   others up to half the default margin to end.
5. `isp_mem_share.c:105`. Sharing stops at the first hole of the list and does not see
   a process listed behind it ("already share to process" is not found out). The
   process is entered twice; one unshare leaves the second entry, and the process
   still passes `isp_drv_mem_verify_pid`.
6. `motionsensor_buf.c:393`. `WR_GAP` is the "min motionsensor gap between reader pointer and
   write pointer, to prevent new data overlap with reading/processing data"
   (`motionsensor_buf.h:25`), but a write pushes only a reader that stands on the one slot
   `WR_GAP` ahead. A read of old samples, or a release that comes late, takes a reader
   nearer than that; it is never pushed, and the writer reaches it and stores over what it
   holds or would read next. A reader that a late release takes to the oldest sample of a
   full ring stands where the writer is. With `g_forward` set that means "empty" (line
   634): the next read of these samples answers "no data!" (line 604) although the ring
   holds them and never showed them.

## 5. Proofs

Every safety invariant and every action property of the passing runs is proved, and so
is the refinement. The theorems hold for every value of the constants that satisfies the
assumptions named in the modules: `UserdevConstants`; `AllocConstants` and
`ZonesAligned`; `ShareConstants`; `WatchdogConstants`; `MotionConstants`;
`BeBufConstants`, `StatConstants` and `PipeConstants`. Two definitions are hypotheses of
single theorems instead, since not every use of the code satisfies them: `OneUser` (the
share calls for a block all come through one file) and `TimeoutsCover` (no process
programs a margin too short for the daemon). The instances `MCMmzShare` and `MCWatchdog`
assume them as well, so that TLC checks that states satisfy them; `share_race` shows what
happens without the first.

| module | theorem | property |
|---|---|---|
| `MmzUserdev_proofs` | `TypeCorrect`, `RefsMatch`, `FreedExactlyWhenUnused` | `TypeOK`, `RefsMatchUsers`, `LiveIffHeld` |
| `MmzUserdevSteps_proofs` | `KernelAttributeStays`, `UserAttributeStays`, `Implements` | `KernelAttributeFixed`, `UserAttributeFixed`, `ImplementsPromise` |
| `MmzAlloc_proofs` | `TypeCorrect`, `Disjoint`, `AllocatorNeverBad` | `TypeOK`, `BlocksDisjoint`, `NeverBad` |
| `MmzAllocFit_proofs` | `SmallestGap`, `FailsOnlyWhenFull` | `BestFit`, `FailOnlyIfFull` |
| `MmzShare_proofs` | `TypeCorrect`, `Exact`, `OwnerListed` | `TypeOK`, `ListExact`, `OwnerStaysListed` |
| `Watchdog_proofs` | `TypeCorrect`, `SingleHolder`, `DaemonFeeds` | `TypeOK`, `OneHolder`, `FedByDaemon` |
| `MotionBuf_proofs` | `TypeCorrect`, `InStepAlways`, `GapIsKept`, `ReadsExactly` | `TypeOK`, `ColumnsInStep`, `GapKept`, `WindowExact` |
| `IspPipe_proofs` | `TypeCorrect`, `AllBuffersAccounted`, `ConfigHeld`, `AlwaysNewest`, `BufferAlwaysFound`, `ReadStatStable`, `NeverOlder`, `EveryStatPaired` | `TypeOK`, `BuffersAccounted`, `HeldConfigStays`, `NewestHanded`, `BufferForNextFrame`, `HeldStatStable`, `SeenInOrder`, `StatPaired` |

None of the properties is inductive. What follows is, for each module, the inductive
invariant and why it is needed.

`MmzUserdev_proofs`. That a put frees at the right moment depends on who else will free
the block. `IInv` is `TypeOK`, `PlaceOK` (a call inside a block's section has that block
on its list) and, for each block:

* `RefsOK`: `phy_ref` is one for the node, one per counted mapping and one per
  look-up in progress; `map_ref` is the number of kernel mappings, and the flag
  `MAP2KERN` says whether there are any;
* `OwnerOK`: a block is live and not released exactly when one party will still
  free it: its node, its kernel owner, or a call between allocation and listing or
  between unlisting and freeing; these exclude each other;
* `LifeOK`: a freed descriptor has no reference and is not marked released; a
  released one has a reference or a kernel mapping left.

The two directions of `LiveIffHeld` are `LiveIsHeld` and `HeldIsLive`. The steps
are grouped by what they disturb: `CountedStep` covers those that change one
block and one file, `QuietStep` those that change no block, `KernelOnly` those of
the kernel modules; each action is one lemma that shows it is of its group.
The arithmetic of references needs only that the set of files is finite:
entering or leaving a look-up changes its cardinality by one.

`MmzUserdevSteps_proofs` looks at one step. A step of a file concerns one block, changes
its descriptor by one section of `g_mmz_lock` (`MmbGoesOn`) and its node by one of a few
changes (`NodeGoesOn`); `FileStep` says so, and each action is shown to be one. The
attributes need one more invariant, `AttrInv`: a node that counts a mapping has its
address on record, and between the put and the `munmap` of an unmap it counts none.
For the refinement each `FileStep` and each kernel step maps to taking, joining or leaving
a block in `MmbPromise`, or to a stutter: `IInv` says that the put which frees is the one
of the last holder.

`MmzAlloc_proofs`. The invariant `IInv` is `TypeOK`,
`BlocksDisjoint` and the loop invariants: the best gap so far (`ScanOK`), what
`find_fixed_region` returns (`FoundOK`) and what the outer loop has chosen
(`ChoiceOK`) all have room for the block asked for, that is, it would lie in the
zone there and meet no other block; when the loop is left for the final test,
every block ends below `start` (`TailOK`). `ZonesAligned` is used once, in
`Align2NotBeyond`: a start rounded up to the alignment does not pass the end of its
zone. Without it the statement is false (run `alloc_ragged`).

`MmzAllocFit_proofs` adds what the loops know of the gaps they have rejected (`FitInv`):
the best gap is the smallest among those that end at or below the block under
inspection (`ScanBest`), when the loop is left, the gap behind the last block is the smallest
or the zone has no room (`TailBest`), and the zones before the chosen one have no room
(`ChoiceBest`). What makes
the search complete is that every gap the request fits into starts at the aligned end of a
block or of the zone, `mmz_align2` being monotone.

`MmzShare_proofs`. `IInv` describes the array between the accesses of a call: a list of
`pid_num` entries (`ListOK`), or one with an entry appended and not stored yet, or one with a
hole that travels to its end (`HoleOK`), whichever call is under way (`CallOK`); under
`OneUser` no other call is.

`Watchdog_proofs`. What lets a second process in is the count, not the holders. The invariant
`IInv` adds `CountOK`: `g_driver_open` plus the number of processes that it counts
(holders, and refused openers that have not taken their decrement back) is at most
one. It may be less: a release that meets a refused opener takes its increment back,
and the device then stays closed. An open that finds 1 therefore finds nobody
counted. `PlaceOK` says where a holder can stand and where a call may return to. `RunType`
adds the ranges of margins and registers. For `FedByDaemon` the invariant is `FeedInv`: every
margin that is or will be programmed covers a sleep of the daemon (`MarginsOK`), only an
enabled card counts (`SwitchOK`), threads and timer run until the module is unloaded
(`RunsOK`), and once the interrupt is raised the time to the reset is longer than the time to
the next feed (`InTime`); in fiq mode that is the expiry of the timer or, when its
feeds are used up, the reports of the missing processors and an expiry.

`MotionBuf_proofs`. `IInv` says which sample each slot holds (`RingOK`), that the pointer of
PTS is one slot behind while a write is under way (`CursorOK`), that the pointers of a user
who did not race are equal and in the ring, and the torn ones of one who did less than a
ring apart (`PointersOK`), and that what was shown can be released even in a later life of
the user's id (`DataOK`). From it, `ScanStops` bounds the walk forward: it ends within one
turn; `Smallest`, that a nonempty set of natural numbers has a smallest element (by
well-founded induction), is what gives `Min` over its steps a value. `ReadsExactly` then
shows that the walk passes the samples from the read pointer to the writer in their order
(`HeadRun`, `TailRun`), so that what lies in the window is one run or two. Under `IInv`,
`GapKept` is inductive (`GapNext`): a write takes one slot from every distance and pushes the readers at
`WR_GAP`, so a reader gets nearer only by its own move, which `near` records. `GapIsKept` does
not say that the writer never overtakes a reader, which is false (finding 6).

`IspPipe_proofs`. `IInv` has a part for each concern:

* `Queue`: a configuration buffer is in one place at most and, if none was lost, in one
  exactly (`Placed`, `Accounted`); counters never exceed references, and a buffer off the
  busy list is not held (`Counts`); without a recall, counters equal references, VI
  refers to busy buffers in the order of that list, and all busy buffers but the last are
  held (`Trusted`). The order is needed because VI takes the last busy buffer and gives
  back its oldest reference; that all but the last are held is what bounds the busy
  list in `BufferAlwaysFound`;
* `LastIsNewest`, and `LifeOK`, which ties the lists to initialisation and exit;
* `StatPlaced`: each statistics buffer is on exactly one list, and the user list is the
  buffer being read;
* `ViInTime`, `Younger`, `StatInTime`: VI's frames are in order behind the one that ended
  last, the busy statistics are in order and not younger than the active ones, and none is
  older than what the firmware has used;
* `BeReady`: between the end of a frame and its summary the BE statistics are those of the
  frame, in hardware or in the first free buffer;
* `AfInTime`: no buffer has AF windows of a frame younger than the last that ended, so that
  the write into the active buffer only brings newer ones;
* `FeWaits`: the FE list holds the last frames without a gap, among them those still awaited
  from the last `NumFe` frames.

Each operation of the two component modules has its lemma; a step of the pipe is first
reduced to the operation it runs (`QueueSteps`, `StatSteps`, `ViSteps`). What a walk of a list
leaves is `Kept` and not the standard `SelectSeq`: the latter takes an operator and is defined
by recursion, which the provers cannot reason about, whereas `Kept` is explicit, and `KeptIs`,
`KeptOnce` and `KeptSuffix` say all that is needed of it.

One proof corrected its model: `MotionBuf` had `After` bring a torn pointer back into the ring
before the first step, where the code still reads outside it, and the walk then had no
bound that could be proved. The inductive invariant of `IspPipe` was checked by TLC on the instance of
`isp_frame` before it was proved.

Only model-checked: `ReleaseTerminates`, `WatchdogBites` and `UnloadEnds`, since liveness
under fairness is out of the prover's reach. The properties of the violation
runs (`NoInvalidRefer`, `StopsLiveThread`, `UnshareRevokes`, `NoOverlap`, and `NeverBad` and
`OwnerStaysListed` without their hypotheses) do not hold.

## 6. Not modelled

In MMZ: zone registration and `/proc`; cache flushing; the CMA allocator, whose
placement is the kernel's; the mapping of a foreign block by `mmap`, for which the
code keeps no reference; the concurrent use of one file's list by `mmap` and an
ioctl; threads with different ids in one process. In the ISP driver: stitched and
online pipes, snapshots, synchronisation of the sensor registers, `/proc`, and the
image algorithms, which are numerical. In the motion sensor manager: two threads
that delete one id, the chip and its SPI bus. The other components of section 1 are
listed with their reasons in `PROJECT.json`.

## 7. Plan

1. *Done*: `Mmb`, `MmzUserdev`, `MmbPromise`, `MmzAlloc`, `MmzShare`, `IspShare`,
   `IspBeBuf`, `IspStat`, `IspPipe`, `Watchdog`, `MotionBuf`; theorems for every safety and
   action property of their passing runs, and for the refinement of `MmbPromise`.
2. *Next theorems*: an abstract specification of the ISP pipe (VI sees a sequence of
   configurations, the firmware a sequence of statistics) and its refinement; what
   remains true of the share list when several files share, for `ListExact` without `OneUser`;
   what `IspShare` keeps although `UnshareRevokes` fails.
3. *Next modules*: two files that share at the limit of the list, `SmmzAgent`
   (allocator and handle ownership), `IspSyncTask`, `OsalMedia`, `FrameCache`.
