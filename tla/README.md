# Verification of the NJHX platform

This directory holds TLA+ models of the NJHX platform software (an AM335x board,
Linux 3.2): its kernel modules, the `cms-svr` server, its libraries, tools and
shell scripts. TLC checks the models on small instances; TLAPS proves the most
important properties for every value of the constants. Paths below are relative
to the repository's `src/` tree.

An operator whose name ends in `Fault` stands directly before the definition it
belongs to and is a deliberately wrong form of it (a dropped guard, an
off-by-one, a missing reset). The models do not use these operators; replacing the
definition by its `Fault` form must break the property that `PROJECT.json` names
with it. They document which mistake each property protects against.

## 1. Inventory

| component | state | operations | interacts with |
|---|---|---|---|
| pulse driver, `modules/pulse/pulse.c` | pins, `gpo.val`, `keepalive_cnt`, `opened`, interrupt disable depth, tasklet | edge interrupt, tasklet, hrtimer, open/close/ioctl, insmod/rmmod | `cms-svr` through `/dev/pulse` |
| watchdog client, `app/cms_server/wtd_func.c` | `tpWTD_INFO`: timeout, feeding period, `cnt`, thread flag | init, thread, set timeout, stop, release | `/dev/watchdog`; compiled out of `main` today |
| messages between processes, `libs/msg/ipc_msg.c` | listening socket, connection, message buffer; the path in `/dev/shm` | init, send, listen (accept, read, callback), release | every process: `cms-svr`, `cmdline`, `app_test` |
| messages between threads, `libs/msg/itc_msg.c` | pipe, semaphore | init, send, recv, release | threads of one process |
| address service, `app/cms_server/bc_func.c`, `udp_func.c` | device table, addresses, sockets, thread flag, remembered slot | init, receive thread, release | the networks; runs inside `cms-svr` |
| `cms-svr` itself, `app/cms_server/cms_svr.c`, `gpio_key_wtd.c`, `pulse.c`, `led_run.c` | what each instance has open; key thread | main, key thread, LED and peripheral watchdog threads | all of the above, the recovery script |
| disk recovery, `install_dir/shell/recover-disk.sh` and its three callers | UBI numbers, contents, mounts | umount, detach, format, attach, make volume, mount | started by the recover key or by hand |
| `gpmc_net`, `ch438`, `hx_key` drivers | GPMC chip selects, platform devices | insmod, rmmod | loaded by `plat_start`; bring up eth2, eth3, eight UARTs and the key |
| `bc_ipaddr` tool, `app/bc_ipaddr/udp_func.c` | socket, `ret`, device table | client and server role, receive thread | each other over broadcasts |
| boot scripts `plat_start`, `net_para_set.sh`, `gpio_export.sh`, `cms-flag-file-check.sh` | `/opt/param` files, interface addresses, exported pins | one pass at boot | everything above; the files outlive power cuts, the recover key empties them |
| `cmdline` and `app_test` | sixteen cells of sixteen characters | save, send; parse | `ipc_msg` |
| shared pins: `app/cms_server/led_run.c`, `gpio_key_wtd.c:14-46`, `app/gpio/gpio.c` | direction and level of each pin in `/sys/class/gpio` | two toggling threads; the tool's set-up and poll loop | each other through sysfs; `gpio_export.sh` sets the pins up |
| tools (`sci-tool`, `mem-tool`, `i2c-tool`), `libs/cmdline`, `libs/common` | none between calls | one-shot I/O | - |

### What is hard here

* **Unlocked sharing.** The pulse driver's four contexts share one record without
  a lock; `wtd_set_tout` and the feeding thread share another.
* **Results not looked at.** Start-up code goes on after failures (`cms_svr.c:69`
  and `:100`, `pulse.c:243-252`, `gpmc_net.c:249-255`, `ch438_dev.c:323` and
  `:389`, `bc_func.c:53`, `gpio_key_wtd.c:89`, `recover-disk.sh:30-31`); the
  question is what that costs later.
* **Crashes and restarts.** A killed receiver leaves its path in `/dev/shm`; a
  killed server leaves a script that holds copies of its descriptors; power may
  fail between any two commands of the recovery script, and while a boot copies
  the network parameters, of which some files then come back empty.
* **Overlap of instances.** A second receiver or server of the same name is
  prevented by nothing but the device it needs. No program owns a pin: the `gpio`
  tool turns any of them into an input.
* **Lost, late and reordered input.** Edges during the tasklet, key events
  during a script, datagrams on four sockets, broadcasts that are lost.
* **Waiting.** Senders sleep in `connect`, in `sem_wait` and in a full pipe;
  `pthread_join` waits for threads in `select`.

What makes each part correct, in one line: the driver repeats every edge and
takes over only after real silence; the watchdog never fires while its thread
runs; a message that was reported sent is delivered or lost only with its
receiver; the pipe is a FIFO; the address service answers where it was asked and
truthfully, as far as it could learn the address; one server and one recovery at
a time, where the driver admits one; a mounted disk is never
formatted and recovery can always be repeated; drivers give back what they took;
an interface keeps its address from boot to boot; a command line arrives whole;
the board's watchdog is fed and its LED runs as long as the server does.

## 2. Modules

| module | models | TLC module | proofs |
|---|---|---|---|
| `Pulse` | the pulse driver | `MCPulse` | `PulseProofs` |
| `Watchdog` | `wtd_func.c` | `MCWatchdog` | `WatchdogProofs` |
| `Mailbox` (abstract), `IpcMsg` | `ipc_msg.c` | `MCIpcMsg` | `IpcMsgProofs` |
| `BoundedFifo` (abstract), `ItcMsg` | `itc_msg.c` | `MCItcMsg` | `ItcMsgProofs` |
| `Responder` (abstract), `Broadcast` | `bc_func.c`, `udp_func.c` | `MCBroadcast` | `BroadcastProofs` |
| `CmsServer` | `cms-svr` processes and the recover key | `MCCmsServer` | `CmsServerProofs` |
| `RecoverDisk` | `recover-disk.sh` and callers | `MCRecoverDisk` | `RecoverDiskProofs` |
| `ModLoad` | insmod and rmmod of `gpmc_net`, `ch438`, `hx_key` | `MCModLoad` | `PulseProofs` |
| `Discovery` | `bc_ipaddr` | `MCDiscovery` | - |
| `NetParam` | `net_para_set.sh` and `cms-flag-file-check.sh` over many boots, with the recovery of the parameter disk | `MCNetParam` | `NetParamProofs` |
| `CmdLine` | `cmdline.c` and the reading side in `app_test.c` | `MCCmdLine` | `IpcMsgProofs` |
| `Pins` | `gpio_export.sh`, `led_run.c`, the peripheral watchdog thread, the `gpio` tool | `MCPins` | `CmsServerProofs` |

Three proof modules are each about two components of one part of the system: the
kernel modules (Pulse and ModLoad), the sender and its transport (CmdLine and
IpcMsg), the server and the pins it drives (CmsServer and Pins). So that one
module can extend both, the smaller of the two has names with a prefix
(`LoadNext`, `CmdSpec`, `PinsInit`); nothing in the proofs connects their states.

`PROJECT.json` maps every definition to the lines it stands for. Every module's
header says what is external to it (kernel, network, UBI tools) and what is left
out.

### Pulse

One action per interrupt, per tasklet step (`TaskletEnter`, `Sample`, `Drive`,
`Record`, `Rewrite`, `Rearm`), per system call and per step of
`pulse_mod_init`/`pulse_mod_release`. The board has one processor: hard
interrupts preempt the tasklet between any two steps, the tasklet preempts
process context. Two constants select the kernel: `Preemptible` (may a system
call be interrupted by another process) and `DeferSoftirq` (may a tasklet be left
to ksoftirqd). History variables record what the properties exempt: edges while
the line is masked (`missed`), a timer toggle (`toggled`), the one race that
separates `gpo.val` from the pin (`raced`), a second STOP (`overStop`).

insmod looks at no result. Any of `alloc_chrdev_region`, `cdev_add`,
`class_create` and `device_create` may be refused (`NodeCreate`); `pulseDev` says
what that leaves: a node, a device no file leads to, or an error pointer. With the
last the driver runs, but `rmmod` follows the pointer in `device_unregister`
(`UnregisterDies`). For a class that could not be created both outcomes are in the
model: `device_create` returns an error for it, or dies of it.

### Watchdog

Time is counted in the thread's one-second periods. `Tick` is the external
device and clock: it ages the device and resets the machine when its timeout
passes without a keepalive. `MaxLag` bounds the seconds lost to scheduling
between two keepalives. `wtd_set_tout` is four actions (feed, set device, set
timeout, set period) that interleave with the thread and with other callers.

### IpcMsg

A path, receiver instances that bind it (unlink, bind, listen, accept, read,
callback), and senders (socket, connect, write, close), with crashes of both
sides anywhere. The kernel's part is external: the queue of backlog + 1,
sleeping in `connect`, SIGPIPE. A failed `connect` leaks its descriptor
(`ipc_msg.c:84-89`); `FdLimit` of them exhaust the sender. A receiver that dies
while a child made by `system()` runs (`gpio_key_wtd.c:79`) is *orphaned*: the
child has its listening socket, senders go on connecting and writing, and nobody
reads until the child ends (`CrashWithChild`, `ChildEnds`). To the mailbox such
an instance is down, and what is written to it is a `PostToDead`.

### ItcMsg

A message is smaller than `PIPE_BUF`, so a write is whole. `SemInterrupted` is
a `sem_wait` that a signal ends early and whose result is not looked at.

### Broadcast

Start (`Malloc`, reading the device list line by line, looking addresses up,
binding) with failures at each step, the receive thread (`TestFlag`, `Select`,
`Recv`, `Write`) and release. `malloc` does not clear the record, so `dev_num`,
the handles and the `ip_addr` words may start dirty (`Garbage`). A lookup that
fails returns without a write to the word, so that the reply carries what was
there (`Leftover`): `Junk`, or the empty word if the memory was clean. `Junk` is one
word that is no address; the string ends in the record at the latest where `hdl` or
`fd` has a zero byte. A device list that cannot be opened is an empty one to what
follows. Assumed of the kernel: it lists a device once. `bc_func_release` has no
caller in `main` today; it is modelled as the function its header offers.

### CmsServer

`main` of several instances, step by step, with the shared things they compete
for: the message path, `/dev/pulse`, the ports, the interrupt's disable depth.
A recovery script is a child made by `system()` and keeps its parent's
descriptors until it ends, also after the parent's death (`HoldsFiles`).

The open of `/dev/pulse` is two steps, as in the driver (`pulse.c:169-171`):
`PulseTest` looks at the flag `busy`, `PulseSet` sets it. With `Preemptible = FALSE`
(a kernel that does not preempt a system call, on one processor) nothing of another
instance runs between them (`MayRun`). With `TRUE` a second instance may pass the
test as well; `raced` remembers it until the device is free again and is the one
exception of `OneServer`, `OneRecovery` and `PortsFree`. The last copy of a
descriptor that goes clears the flag (`Release`), also when a second opener is left.

The theorem `SingleRecovery` discharges the exemption in RecoverDisk's
`MountedIntact` (`collided`) for runs started by the key, unless two opens raced:
`AloneIntact` of RecoverDiskProofs promises more when one run at a time works on a
disk, and that is what `SingleRecovery` says of the key. Runs started by hand can
still collide. The input device's buffer is not bounded in the model: a reader that
stays behind by more than it holds loses events, and the kernel tells it so.

### RecoverDisk

One action per command. Only `ubiattach` is looked at by the script, so after a
failed `umount` or `ubidetach` it goes on. `ubiattach` gives the lowest free
number while `ubimkvol` and `mount` use the one written in the caller script.
`PowerCycle` may happen between any two commands and inside `ubiformat`.

### ModLoad

Init and exit of a module are sequences of calls (`InitCalls`, `ExitCalls`);
each call may be refused. `gs_init` of `ch438` also maps the chip select it was
granted and writes through the address unseen, so that a refused mapping kills the
kernel inside insmod (`MappingRefused`). The GPMC and platform bus are external; an
oops ends what is modelled. `NoLeak` names the one chip select that stays
taken: that of a `ch438` whose insmod failed. It is given back by the next rmmod,
although the load in between was refused it.

### Discovery

Both roles of `bc_ipaddr` run the same receive thread and reply by broadcast.
`ret` is the result of the last write and the length of the next one, so one
failed write silences a client for good; `Answered` states liveness up to that.
The tool uses ports 10999 and 11000, `cms-svr` listens on 10888: the two never
meet, so Discovery and Broadcast are not composed.

### NetParam

Many boots of one board. A file is absent, empty, written by a program, or holds
a default address; `mem` is what programs see and `disk` what outlives a power
cut, which keeps, loses or empties every file not yet synced. `SetNetParam` is
one call of `set_net_param`, with `test -f`, the copy of the shipped file and
`ifconfig`, which refuses an empty address because the arguments move up. If
the parameter disk cannot be mounted the same names lead into the directory
below, hence the two `Layers`. A `cp` that fails because the disk is full is not
modelled: the shipped files and the flag are a few dozen bytes. The recover key's umount, format and mount are
RecoverDisk's, seen from the files.

### CmdLine

A word is only its length as far as it matters (empty, short, exactly a cell,
too long) and a cell is the word it was filled from and whether a NUL ends it.
`Copied` is `strcpy`, with the NUL of a full word in the next cell; `Line` is
what `%s` prints from a cell on. How the message travels is IpcMsg.

### Pins

Every pin has a direction and a level, and is exported or not; a driver may hold
some (`refused`), which the export then fails on. The script's pins, the two threads
of `cms-svr` (the watchdog thread's write and its `sync` are two steps) and the
tool's calls interleave, and the server and the tool may die at any moment.

## 3. Runs

All runs finish without error. State counts are distinct states.

| run | properties | what it shows | states |
|---|---|---|---|
| Pulse | DiesOnlyInWindows, OutputMirrorsInput, RecordTellsPin, NoEarlyFallback, StartEnables, FreeRunsWhenSilent, RecordHeals | the worst kernel (preemption, deferred tasklets): no edge lost, one race only and it heals, a fallback that is neither early nor missing, whatever insmod was refused, death only in named windows | 826738 |
| Watchdog | NoSpuriousReset, PeriodMatchesDevice | two callers, refused ioctls, delays | 1368890 |
| IpcMsg | OnlyOverlapHides, ImplementsMailbox, SendsReturn, WrittenIsHandedOver | two senders, two instances, crashes, a child that keeps the socket; every send ends | 170788 |
| ItcMsg | SendsReturn, ImplementsFifo | a FIFO, also when a wait is interrupted; no deadlock (deadlock is checked) | 126080 |
| Broadcast | CorruptOnlyIf, NoSocketLeft, RepliesTruthful, ImplementsResponder, ReleaseReturns, LowerSlotFirst | device lists of every kind, dirty memory, failures at each step, lookups included; release under traffic; service by priority | 789470 |
| RecoverDisk | MountedIntact, RerunRepairs | two scripts, two disks, users, power loss (deadlock is checked) | 186269 |
| CmsServer | OneServer, OneRecovery, IrqOnWhileServing, EachPressOnce, EventsRead | servers started and killed at any moment on a kernel that preempts: one serves unless two opens raced; no key event is left unread | 401094 |
| ModLoad | NoFreedMemory, DiesOnlyUntold, NoLeak | three modules, any order, any refusal, a refused mapping included (deadlock is checked) | 16975 |
| Discovery | Answered | two clients, two servers, one on a host with too many interfaces; a lossy network is not an excuse for silence, a failed write is | 6822 |
| NetParam | UnreachableOnlyAfterCut, RecoverHeals, StableAddress, SealedSurvivesCut | boots, power cuts, saved files and recoveries in any order (deadlock is checked) | 684655 |
| CmdLine | LinesAsTyped | every command line of up to six words | 14722 |
| Pins | FedUnlessTaken, BothToggle, EdgesReported | script, server and tool on shared pins (deadlock is checked) | 233664 |

Type invariants are in no run's list: those of Pulse, Watchdog, ItcMsg, Broadcast
and RecoverDisk are proved, and those of the other modules with a proof are part
of the inductive invariant there.

### Bounds, and why they are enough

* Pulse: `TimerOutCnt = 2` instead of 10. The handler only compares with it, so
  2 has a period below, at and beyond the limit. `MaxDepth = 2` reaches the
  second STOP. Two processes are enough for every pairwise property; the safety
  properties are proved for any number. Preemption and deferred tasklets only
  add behaviours, so the run covers the kernels without them.
* Watchdog: timeouts 10 to 14 and requests one below, at and one above each limit;
  `MaxLag = 3` is the largest with `2 * (MaxLag + 1) < MinTout`, the condition
  under which the property is proved for every limit.
* IpcMsg: a sender with two messages shows order, a second one with one message
  a full queue, two instances a restart and an overlap, `FdLimit = 1` reaches
  exhaustion; `Backlog` is 1 as in the source.
* ItcMsg: capacity 2, one thread that both sends and receives, two values to
  tell one sender's messages apart, and one interrupted wait: two threads write
  at once and the semaphore reaches 2. The refinement is proved for any number.
* Broadcast: two slots instead of four; four lists: one that cannot be opened, and
  up to three Ethernet devices (one too many) with `lo` and `usb0` around them; one
  datagram per socket from two requesters; one address that comes or goes once
  makes a change visible.
* CmsServer: two instances are one that dies while its script runs and a
  successor that starts meanwhile or later, or two that start at once; an instance
  that has died stays dead, and each further start is an instance of its own. Two
  presses are one that waits behind another. A kernel that preempts adds behaviours
  only; that the exception never arises on one that does not is part of the proofs.
  The safety properties are proved for any number.
* RecoverDisk and ModLoad are the real sizes: two disks, three modules and three
  chip selects. Two runs are enough for a collision; any number is proved.
* Discovery: one datagram per socket, which is the smallest buffer and drops the
  most; both roles twice.
* NetParam: two interfaces instead of four, one whose driver `plat_start` loads
  and one that is always there, since `set_net_param` treats each alone but for
  `NET_IDX`; programs save the address of one and the mask of the other. The
  number of boots, cuts and recoveries is not bounded.
* CmdLine: four cells instead of sixteen, and command lines one longer than the
  check allows.
* Pins: the two pins the server toggles, an input and the tool's lamp; the tool
  may be started on the watchdog's pin and on the input, any number of times.

`CHECK_DEADLOCK FALSE` is stated where the system really stops: after rmmod or
an oops (Pulse), after release (Watchdog, Broadcast), when all instances have
died or all sends are done (IpcMsg, CmsServer, Discovery), when the one command
line has been sent and listed (CmdLine).

### Fairness, and why the code justifies it

* Pulse: weak fairness of the timer tick (a periodic hrtimer) and of the tasklet
  (softirqs run). Nothing is assumed of edges or processes.
* Watchdog: none; its properties are safety properties.
* IpcMsg: a process inside a call goes on, and a child ends, as the script does.
  No fairness of starting or sending.
* ItcMsg: weak fairness only. A thread inside a call takes its steps when it can;
  the semaphore and the pipe hand nothing over, and a thread that comes later may
  take them before one that was woken. So `SendsReturn` does not say that each
  sender gets through, but that one that does not is overtaken by others that do. A
  thread that only receives keeps receiving, as its loop is unconditional. Nothing
  is assumed of a thread that does both: with only such threads, everyone may wait
  for room while nobody reads.
* Broadcast: the thread runs; `SF` of `Recv` since a pending socket error is
  reported once.
* CmsServer: the key thread runs, the script's tools and `pulse_open` return.
* Pins: the server's two threads run, `sync` returns, and a started tool goes on.
  Nothing is assumed of edges, starts and deaths; `BothToggle` speaks of the
  behaviours in which the server in the end stays up and the pin stays usable.
* NetParam, CmdLine, RecoverDisk, ModLoad: none; their properties are safety
  properties.
* Discovery: threads run, and a copy of a broadcast to a given socket is not lost
  for ever (`SF`); nothing is assumed of writes.

## 4. Proofs

All proofs are checked by TLAPS to the last leaf, from the named assumptions on
the constants in each module only.

* **PulseProofs** (assumption `PulseAssumption`): `TypeCorrect`, `MirrorsInput`,
  `RecordTells`, `Exclusive`, `DiesInWindows`, `NotEarly`, `Starts`. Each property
  has an invariant of its own on top of the type invariant, because none is
  inductive alone: that no edge is lost (`MirrorInv`) needs, for each tasklet
  step, what the step has already copied and that a newer edge has rescheduled
  the tasklet; the record (`RecordInv`) needs where the pin and `gpo.val` may
  differ between two steps; `DieInv` needs that nothing is due
  before the driver exists and, unless tasklets are deferred, nothing while the
  line is masked during insmod, up to `hrtimer_init` where no file leads to the
  device (`Unreached`). Then, for ModLoad, `NoneFreed`, `EndsUntold`,
  `NoneLeaked` from `LoadInv`: no property is inductive, but what a device is to
  its bus and its chip select is told by the calls its module still has to make
  (`CallsInv`), so the invariant says when a device is on the bus (`BusInv`) and
  when a chip select is taken (`CsInv`) in those terms, and the lemmas
  (`InitTakes`, `ExitTakes`, `CallTaken`) what one call takes from them. ModLoad
  has no constants, so here the run covers the same states; the proof adds why.
* **WatchdogProofs** (`WatchdogAssumption`): `TypeCorrect`, `NoReset`,
  `PeriodMatches`. The invariant is TypeOK with `Shape` (which thread state
  belongs to which life), `Follows` (period and timeout agree with the device
  outside a call and in a known way inside), `Deadline` (the device's age is at
  most `cnt` plus the delay so far) and `NeverLate`. The arithmetic is that half
  a timeout plus one second plus the delay is less than the timeout.
* **ItcMsgProofs** (`ItcAssumption`): `Mutex` from `LockInv` (the semaphore is 1
  exactly when nobody holds it, until a wait is interrupted). `Permits` is what
  remains of it afterwards, and the type invariant: those between `sem_wait` and
  `sem_post` and the value of the semaphore are together at most one more than the
  interrupted waits (`PermitInv`). `Refinement`: every step is a step of
  `BoundedFifo` or a stutter, for any number of threads and interrupted waits.
* **IpcMsgProofs** (`IpcAssumption`): `Hiding` from `ShareInv`: of two instances
  that live at once both have overlapped, and one that has not, and is bound or
  listens, owns the path. `MailboxRefinement` needs to know that a message is
  nowhere before it is connected and in one instance alone before it is written
  (`FreshInv`), what an instance holds by its step (`HeldInv`), that its queue,
  behind the connection it serves, has each sender's numbers in order
  (`OrderInv`), and that every sender has a last written number (`LastInv`). Then
  a write is `Post` or `PostToDead`, the callback is `HandOver`, a death is `Die`,
  and every other step is a stutter. `Delivered` is what the users of the library
  get from that: the mailbox's own promises (`HandedOnce`, `InSendOrder`,
  `OnlyPosted`) follow from the mailbox's steps alone (`MailInv`: a message is in
  one place, and what is on its way to a receiver is younger than what that one
  has got), and so hold of the sockets by the refinement. For CmdLine
  (`CmdAssumption`), `Copies` and `Typed` from `CmdInv`: the cells up to the last
  word saved hold their words, those behind them are blank (`CellInv`), and saving
  stops at the first word that does not fit (`SavedInv`). That there is a first
  such word, and a first cell with a NUL, needs no induction: a nonempty set of
  naturals has a least member (`Least`, from the well-foundedness of `<`).
* **BroadcastProofs** (`BroadcastAssumption`): `TypeCorrect`, `Overflow`,
  `SocketsClosed`, `Truthful`, `ResponderRefinement`, from one invariant `BcInv`.
  The slots in use are an injection into the lines already read (`TableInv`), so
  that with zeroed memory more slots than there are means more listed interfaces;
  a socket belongs to a slot `net_dev_release` comes to (`SockInv`); the thread
  lives only when the table is complete (`ThreadInv`), so what a slot holds is
  the true address, or what its lookup left there, from the first on (`TrueSlots`).
* **CmsServerProofs** (`CmsAssumption`): `Single`, `SingleRecovery`, `FreePorts`,
  `IrqOn`, from one invariant `Safe`. Its core is `OneAdmitted`: while no two opens
  have raced, at most one instance is behind the driver's test or has `/dev/pulse`
  open, in itself or in its script, and then the flag is set. `NoRace` adds that
  without preemption no two opens race. OneServer alone is not inductive, because a
  killed server's script has the device and is no server; `HasInv` ties what an
  instance has to the step it has reached.
  `PressOnce` adds the presses still in an instance's queue to those it has acted
  on (`PressInv`); the lemmas on `Downs` say what a new event and the reading of
  one do to their number. For Pins (`PinsAssumption`), `Outputs` and `Fed` from
  `PinInv`, for any script, pins and targets of the tool: an output the script has
  dealt with can be driven unless it was refused or the tool took it (`SetUp`,
  `ToolTook`), and the server runs only after the whole script (`ServerReady`).
* **RecoverDiskProofs** (no assumption; `Runs` is any set): `Types`, where two
  disks get the same UBI number only if `ubiattach` did not take a free one;
  `Intact` from `SafeInv`: a mounted disk is attached, an attached one is not
  formatted, and what a run alone on its disk formats stays detached meanwhile;
  `Repairs` from `CleanInv`: an undisturbed run is the only one, so each step of
  any script is its own, its number is the next `ubiattach` gives
  (`NumberWaits`), and `Progress` says how far it has come. `AloneIntact` assumes
  of the environment that at most one run works on the disk, and concludes that a
  mounted disk always has its volume.
* **NetParamProofs** (`NetAssumption`): `Reachable`, `Heals`, `Stable`, `Sealed`
  from one invariant `NetInv`. An address known from a layer is what its file
  there says (`KnownInv`), which makes `Stable` hold across boots; no file of a
  layer is empty that no cut has emptied (`EmptyInv`); in a sealed layer every
  address file is in memory and on the disk, and both agree until somebody saves
  (`SealInv`); after a recovery the disk holds only defaults (`HealInv`).
  `AfterCut` says what a power cut may do to a file.

The two changes of the models that the proofs asked for are faithful ones: the
device list of Broadcast is read line by line, and IpcMsg accepts and dequeues in
one action (`TakeConn`).

Only model-checked: all liveness and the properties that need ENABLED, which are
outside the prover's reach (`LowerSlotFirst`, `Answered`, `BothToggle`,
`EdgesReported`, `SendsReturn`, `WrittenIsHandedOver`, `EventsRead`,
`ReleaseReturns`, `FreeRunsWhenSilent`, `RecordHeals`). Every other property of
a run is a theorem. The other way round, `ExclusiveOpen`, `MutualExclusion`,
`PortsFree`, `OutputsUsable`, `CopiesFit`, the mailbox's promises and the type
invariants are proved for every instance and are in no run.

## 5. Not modelled, and why

* `sci-tool`: one thread that sets a port up, writes one text and prints what
  comes back within two seconds; nothing interleaves with it and it keeps no state.
  (When the set-up fails `serial_open` returns the descriptor it has closed, and
  the write that follows fails.)
* Hardware addresses and the value of the mask (`net_para_set.sh:29-33, 48-53`),
  the symbolic links of `gpio_export.sh` and `plat_start`: they touch no state a
  property is about.
* `libs/cmdline`: a table lookup whose only caller is commented out
  (`app_test.c:109`). `libs/common`: option parsing, daemonising, logging.
* `mem-tool`, `i2c-tool`: one-shot register access. `app/cmd` does not build.
* Register values and bus timing of `ch438` and `gpmc_net`: constants.
* Memory contents after a buffer is overrun: Broadcast and Discovery stop at the
  corruption.

## 6. Plan

1. Done: the core (Pulse, Watchdog, both message libraries, the address service,
   `cms-svr`, disk recovery, driver loading, `bc_ipaddr`), its runs and the first
   proofs.
2. Done: the rest of the system that keeps state: NetParam, CmdLine, Pins, and
   the listening socket that a script inherits (IpcMsg).
3. Done: proofs for IpcMsg, Broadcast, RecoverDisk and NetParam, the rest of
   CmsServer and ItcMsg's permits. Every safety property of these, and of Pulse
   and Watchdog, is a theorem.
4. Done: proofs for ModLoad, CmdLine and Pins, the mailbox's promises carried over
   to the sockets, and RecoverDisk under what CmsServer guarantees. Every safety
   property of every run is a theorem; what is left to TLC is liveness.
