# TLA+ specifications of the MemryX MX3 kernel drivers

These modules model the two Linux drivers under `1_kdrv_src/` that carry
neural-network data to and from cascades of MX3 chips: `memx_cascade_pcie`
(`1_kdrv_src/pcie`) and `memx_cascade_usb` (`1_kdrv_src/usb`). TLC checks them
on small instances, and TLAPS proves the safety properties of every part of them
for every instance. `PROJECT.json` has the index: components, runs, mutants,
the source lines each definition stands for, hazards, findings and theorems.

Paths below are relative to `1_kdrv_src/` unless they begin with another top
directory. `pciemain` is short for `pcie/memx_cascade_pciemain.c`, `usbmain`
for `usb/memx_cascade_usbmain.c`.

## 1. The system and its parts

A user process opens `/dev/memx<n>`, writes input feature maps, reads output
feature maps and configures the device with ioctls. A second node,
`/dev/memx<n>_feature`, and the procfs, sysfs and hwmon files give temperature,
clocks, firmware versions and diagnostics. Behind a node are up to sixteen
chips with a firmware each; chip 0 is on the bus and passes on what is for the
others. Both drivers are concurrent: any number of threads may be in them, and
interrupts or URB callbacks finish what threads wait for.

| Component | State it keeps | Operations | Talks to | What is hard | What makes it correct |
|---|---|---|---|---|---|
| **PCIe file operations** `pciemain` | `mutex`, `reference_count`, `rx_msix_fifo`, `rx_ctrl`, `tx_ctrl[]`, `fw_ctrl.is_abort` | open, release, read, write, ioctl (abort, set_abort_read, dummy read, ...) | interrupts through flags and wait queues; firmware commands | readers hold no lock; one doorbell answer looks like another; aborts cross waits; signals cut waits | a write ends on its own answer; aborts reach those they are for and outlive no session; notifications are drained one at a time; the open count is right |
| **Firmware command channel** `pcie/memx_fw_cmd.c`, `pcie/memx_fw_init.c` | command buffer in device SRAM, `fw_ctrl.indicator`, `g_memx_fw_cmd_mutex` | send a command; send and read its result; wait for an ack | file operations, probe, resume, remove; ack interrupt | an ack names no command; the result is read after the lock is free; probe takes no device mutex | acks and results belong to the command waited for; the firmware sees whole commands; nobody waits for ever |
| **PCIe admin mailbox** `pcie/memx_feature.c` | one slot per chip in DMA memory, `adminlock` | get and set feature, self test, download to several chips, I2C, GPIO | the feature node, procfs and sysfs; firmware polls the slot | the slot is shared with a processor that may be slow; a timeout resets it under the firmware | an answer is the answer to one's own command; no command runs twice; the lock is passed on with the chips at rest |
| **MSI-X set up and tear down** `pcie/memx_msix_irq.c` | vectors, `init_done`, the message word in SRAM | allocate with fallbacks, register handlers, handshake with the firmware, dispatch | probe, remove, suspend, resume | a resume that failed half way comes back to vectors and handlers that are still there | a handler finds what it uses; what is registered is released |
| **PCIe device life cycle** `pciemain`, `pcie/memx_pcie_dev_list_ctrl.c` | the device list, nodes, BARs, DMA pages, power state | module init and exit, probe, remove, suspend, resume, list insertion and removal | everything else | devices come and go side by side; a probe may fail at any step; numbers, names and addresses are used again | the list is in order; nodes and files are those of their device; nothing is left but what the code is known to leave |
| **Firmware download over PCIe** `pcie/memx_fw_init.c` | handshake word and image in SRAM | announce the size, wait until a booting device takes it (clearing its local interrupts), copy the image; wait for the boot | probe, resume | its failure is half noticed by resume | probe and resume go on to a consistent state |
| **Flow and register windows** `pcie/memx_xflow.c` | control and base words of the windows, the SRAM mailbox | read and write a register of any chip in four BAR layouts | all of the driver | an access is up to ten accesses of the bus, without a lock; a mailbox command may outlive its caller | a call alone in its window reads and writes the register it names; windows are at rest when nobody uses them |
| **Firmware log** `{pcie,usb}/memx_fw_log.c` | circular buffer per chip, written by the firmware | connect, disconnect, dump, memory dump | probe, resume, remove, debug commands | the writer moves while it is read | each entry of the log is printed once, in order |
| **procfs, sysfs and hwmon nodes** `{pcie,usb}/memx_fs*.c` | directory trees, the map from directories to devices, a command slot per chip, an image and its outcome in SRAM, `gpio_r`, `ThermalThrottlingDisable` | create, remove, show, store | mailbox, control path, firmware of every chip | files of one device are used by any number of processes without a lock; stale entries of the map | trees are their device's; commands reach the firmware whole; what a file shows is so |
| **Throughput counters** `pciemain`, `usbmain` | two sizes, two times, 32 bits each | add, reset on overflow, read | read, write; the feature node | overflow; no lock | size and time are of the same period |
| **USB control path** `usbmain`, `usb/memx_feature.c`, `usb/memx_cascade_debugfs.c` | `cfglock`, `txurb`, `fw_txurb`, `fw_rxurb`, their buffers, `fw_comp`, `tx_comp`, `fwrx_comp` | ioctls, `memx_write`, admin commands, debug commands | URB callbacks; firmware | shared URBs and completions; three ways to treat a late transfer, among them none | a wait is ended by its own transfer; a buffer under way is not overwritten; an answer is one's own; the lock is passed on clean |
| **USB read path** `usbmain` | `readlock`, `cfglock`, `rxurb`, its buffer, `rx_comp`, `state`, `reference_count` | open, release, read, dummy read, abort | URB callback | an abort shares only an unlocked state with readers; a dummy read takes both locks | a reader copies its own packet; no packet twice; aborts free readers and are not lost |
| **USB device life cycle** `usbmain` | `device_mutex`, the feature class, URBs and buffers | probe, ZSBL download, disconnect | USB core | unwinding; disconnect beside open files | each resource and lock is released once |
| **Python module** `pymodule/` | none of its own | wrappers of the user library, number format conversion (`convert.h`) | `libmemx` | rounding and packing of 8, 16 and 32 bit formats | a conversion there and back loses what the format says, and no more |
| **User library** `2_udrv_lib/` | | a header and binaries | the nodes | | no source to model |
| **Tests, scripts** `4_testsuit/`, `r*.sh`, `environment_prepare_*.sh`, `pcie/memx_pcie_test.c`, `usb/usb_bulk_test.c` | | build, load, flash, run models, report | the nodes, the user library | | sequential, without state of their own |

How they meet: the file operations share `memx_dev->mutex` with every firmware
command a user sends, so while a command waits for its ack nobody opens, writes
or aborts. The mailbox has a lock of its own and is reached from the feature
node and from the file systems alike. The debug files write to memory that
firmware polls, under no lock at all, and connect the log through the register
windows. On USB everything but `read` takes
`cfglock`, `read` takes `readlock`, and a dummy read takes both. Interrupts and
callbacks take no lock that is held across a wait.

## 2. Modules

| Module | Models | Lines |
|---|---|---|
| `MxPcieIo` | PCIe file operations and the two data interrupts | the state of one device and of the threads in it |
| `MxPcieIoProofs` | theorems about `MxPcieIo` | |
| `MxFwCmd` | firmware command channel, with everything that calls it | one or more devices |
| `MxFwCmdProofs` | theorems about `MxFwCmd` | |
| `MxAdmin` | PCIe admin mailbox | one device, any number of chips |
| `MxAdminProofs` | theorems about `MxAdmin` | |
| `MxPcieLife` | life of the PCIe devices: module, probe, list, nodes, trees, interrupts, firmware start, suspend, resume, remove | any number of devices |
| `MxPcieLifeProofs` | theorems about `MxPcieLife` | |
| `MxRegisters` | abstract: registers read and written at one moment, by calls that may clash or be given up | one device |
| `MxXflow` | the register accessors, one bus access at a time; implements `MxRegisters` | one device, four BAR layouts |
| `MxDebugFs` | the PCIe debug files, the firmware's slots, log and flash; extends `MxXflow` | one device, any number of processes |
| `MxXflowProofs` | theorems about `MxXflow`, alone and in `MxDebugFs` | |
| `MxDebugFsProofs` | theorems about `MxDebugFs` | |
| `MxUsbCtl` | USB control path | one device |
| `MxUsbCtlProofs` | theorems about `MxUsbCtl` | |
| `MxUsbRead` | USB read path | one device |
| `MxUsbReadProofs` | theorems about `MxUsbRead` | |
| `MCPcieIo`, `MCFwCmd`, `MCAdmin`, `MCPcieLife`, `MCDebugFs`, `MCUsbCtl`, `MCUsbRead` | sets of threads, chips, devices and calls the `.cfg` files choose from | |

In most of them `pc[t]` is where thread `t` stands (`at[d]`, where the kernel's
callback for device `d` stands, in `MxPcieLife`; the accesses still to make,
`todo[u]` and `work[u]`, in `MxXflow` and `MxDebugFs`), and a step of a thread is
what it does between two points at which another thread, the device, or a timer
can change what it sees: a lock, a wait, or a read of shared memory without a
lock. Variables called *history* in their comments are no program state: they
remember what happened, so that a property can speak of it.

### MxPcieIo

* `mutex`, `refcount`, `fifo`, `rxAbort`, `readAbort`, `txAbort[c]`, `fwAbort`
  and `indicator[c]` are `memx_dev->mutex`, `reference_count`, `rx_msix_fifo`,
  `rx_ctrl.is_abort`, `rx_ctrl.is_read_abort`, `tx_ctrl[c].is_abort`,
  `fw_ctrl.is_abort` and `tx_ctrl[c].indicator`.
* `live[c]` and `stale[c]` are what the device still owes: the answer to the
  write in progress and the answers to writes that gave up. The interrupt
  cannot tell them apart and neither does the handler (`IngressLive` and
  `IngressStale` do the same); `own[c]` remembers which it was.
* Actions: `Open`, `ReleaseFile`; `ReadFirstTry`, `ReadWaitEnd`, `ReadCheck`,
  `ReadAbort`, `ReadPop`, `ReadCopy`; `WriteEnter`, `WriteRing`,
  `WriteWaitEnd`, `WriteAborted`, `WriteInterrupted`, `WriteCheck`,
  `WriteFinish`; `AbortBegin`, `AbortFlush`, `AbortTx`; `SetAbortRead`;
  `DummyEnter` to `DummyTake`; `FwCmdBegin`, `FwCmdEnd`; `EgressIsr`,
  `IngressStale`, `IngressLive`. `Call` and `LockSignal` are a thread going for
  the mutex and a signal reaching it there.
* The value of `wq_status` after a wait is part of `pc`. The condition of a wait
  and the test of its result are steps of their own, because the interrupt or
  another reader may come between.
* `Unrung` are the chips whose doorbell is not rung, or rings for nobody:
  `memx_pcie_trigger_device_irq` (`pciemain:1155`) does nothing when
  `memx_xflow_basic_check` refuses the chip (4 and up in the layout of 16 MB),
  and tells nobody, while the write lets every number below 16 through
  (`pciemain:525`). A write to one waits and retries with the mutex held, until
  a signal or an abort that was pending before ends it.
* Data: an entry of the fifo is a chip, the buffers themselves are left out.

### MxFwCmd

* `devMutex[d]`, `cmdMutex`, `buffer[d]`, `indicator[d]`, `isAbort[d]` and
  `fails[t]` are `memx_dev->mutex`, `g_memx_fw_cmd_mutex`, the buffer at
  `mmap_fw_cmd_buffer_base`, `fw_ctrl.indicator`, `fw_ctrl.is_abort` and
  `fail_count`. `bell`, `running` and `msi` are the device's side: interrupt 4,
  the command the firmware works on and the acks under way.
* A call is a sequence of requests (`cmd`, `query`, `vendor`, `ackOnly`);
  `IoctlCalls` lists those of users and `DriverCalls` those of probe and resume,
  which hold no device mutex.
* A buffer's content is the number of the command it belongs to, and whether it
  is the request or the result.

### MxAdmin

* `slot[c]` has the status word, the command and the answer of a chip's slot;
  `working[c]` is the command its firmware has begun. `Copy` and `Arm` are the
  two halves of `memx_admin_trigger`, `Fetch` and `GiveUp` the outcomes of
  `memx_admin_fetch_result`, `Advance` the loops over the chips of a download
  and of a self test.
* `Slots` has chip numbers that are nobody's: downloads and the GPIO files do
  not check theirs.
* The answer of a firmware is the number of the command it answers. A firmware
  that finds its status word overwritten still writes its answer: it has no way
  to know.

### MxPcieLife

* `list`, `minor`, `node`, `dirs`, `kobj`, `entry`, `vectors`, `handlers` and
  `initDone` are `g_memx_pcie_device_list`, `minor_index`, the nodes in `/dev`,
  the directories in `/proc` or `/sys`, their kobjects, `g_kobj_memx_dev_map`,
  the interrupt vectors, the registered handlers and `int_info.init_done`.
  `held[d]` is what the driver has got for a device and not given back.
* `Acquire` takes the seven steps of probe that concern its device alone, up to
  the first that fails (`Step` has what each gets and where it jumps);
  everything another device can see is a step of its own: `Insert`, `CharNode`,
  `FeatureNode`, `FsScan`, `FsDir`, `FsFiles` on the way in, `DropTree`,
  `LeaveList`, `DropFeatureNode`, `DropCharNode` on the way out, in remove's
  order or in that of probe's labels (`errFs` to `errDevm`).
* `dmaSize` is `dma_cohernet_buffer_size`, one variable of the module for all
  devices, and `pages[d]` how many pages `d` was given. When they do not begin
  on a boundary of 2 MB, `GetPages` gives them back, asks for twice as many, and
  leaves the size doubled, which is what remove and probe's labels of every
  device then free with; a second base off the boundary is moved up, and the
  moved one is freed. `uneven` remembers that either has happened to pages that
  were got otherwise.
* `hwmon` is among what the kernel releases itself: its files are there from
  `FsFiles` until `Return`, longer than the BARs they read and, after a failed
  probe, than the object they find the device by.
* `InitIrqs`, `LoadFirmware` and `ConnectLog` are shared by probe and resume.
  `FwFails` is where they part: probe unwinds, resume goes on. A resume that
  failed is bound and asleep, and may be tried again with what it left.
* `Return` is the kernel releasing what is managed by the device and freeing
  `memx_dev`; the map keeps an entry that points to it.
* Numbers go from 0 to `MaxName`, and there are no more devices than numbers from
  1 on, so that `Insert` finds one (`EnoughMinors`). The code does not check the
  number either: it reserves 16 (`MAX_CHIP_NUM`), the map of the sysfs files has
  room for eight, and more devices than that are not supported. A node or
  directory name is taken from all of them (`Untaken`).

### MxRegisters, MxXflow

* `ctl[c]` and `base[c]` are the control and base words of chip `c`'s window,
  `reg` the registers behind, `box` the mailbox in SRAM. `Program(k)` is the
  sequence of bus accesses of `memx_xflow_read` or `memx_xflow_write`, which
  depends on the layout (`mode`); `Own(c)` says whether the driver reaches a
  window directly or through that of chip 0.
* `Target` follows control and base words to the register an access of the
  buffer hits, as the hardware does: a window that another call has moved leads
  elsewhere, or `Nowhere`.
* `TimeOut` is the end of a wait for the mailbox; `Execute` the firmware, which
  may come after it. `Unplug` is the loss of the device: reads bring all ones.
* `MxRegisters` says what a caller may rely on: a call that clashed with no other
  takes effect at one moment between being made and being answered; a call given
  up on may act later, once, or never. `RegistersRefined` is the refinement.

### MxDebugFs

* A process in a file is a `job` with the steps it has left in `work`. The
  programs (`Send`, `SetThermal`, `DumpLog`, `UpdateFlash`, `ShowPin`) are those
  of the handlers: one step per word that another process or the firmware can
  change.
* `slot[c]` are the words of a chip's remote command, `log[c]` the log with its
  two pointers, `sram` the image, its outcome and the order to write it,
  `gpio` is `gpio_r` and `disabled` is `ThermalThrottlingDisable`.
* `memx_fs_cmd_handler` refuses no chip number (`pcie/memx_fs.c:50`, `&&` where
  `||` is meant), and the words of the numbers nobody has lie on those of others:
  a command word on the second parameter of a chip (`StrayWrite`), a second
  parameter on the write pointer of a chip's log (`PointerWrite`). `rmtcmd` sends
  any command word, so also the thermal one, without the flag (`remote`).
* `gpioctrl` ignores the status of its admin command: `failed` remembers the
  readers whose command timed out, failed, or took a late answer.
* `FwTake` and `FwFlash` are the firmware. A chip takes commands and logs while
  its log is connected, by a register that `MxXflow` reaches; connecting and
  disconnecting empty it (`RegisterCalls`, with the steps of `MxXflow`).

### MxUsbCtl

* A call is one or more sections under `cfglock`, and a section the sequence of
  its bulk transfers (`SetValue`, `FlashDownload`, `Admin`, ...); an I2C command
  and most files have several. A transfer says which URB and completion it uses, what the code
  does when it is late (nothing, kill, or kill and reinit), how many of the
  following transfers are left out when it fails, and whether an answer is owed
  or its length is checked: that is where the calls differ.
* `flying[u]` is the transfer an URB is under way for, `buffer[u]` whose data its
  buffer has, `done[c]` the count of a completion, `owed` the answers the device
  has still to send. `slot` is the admin command chip 0 keeps, which an I2C
  call reads in a section of its own.
* `Submit`, `WaitDone`, `WaitLate`, `Accept`, `GiveUp`, `Unlock` are the steps of
  a caller; `OutDone` and `InDone` the URB callbacks, and `UrbError` what they
  do when an URB ends in an error: the same, since they ignore `urb->status`, but
  the command has not gone out, or the answer is what the buffer had before.

### MxUsbRead

* `cfglock`, `readlock`, `refcount`, `aborted`, `flying`, `length`, `packet` and
  `done` are the two mutexes, `reference_count`, `state`, the URB's submission,
  its `actual_length`, the content of `rbuffer` and the count of `rx_comp`.
* `RdSleep` and `RdWake` separate the test of the wait condition from the sleep:
  setting `state` wakes nobody. `AbortSet` and `AbortUnlink` are two steps, the
  reader may leave between them. `Packet`, `NoPacket` and `Unlinked` are the
  device and the host controller: bytes (all of a packet, or some before an
  error), none (an empty packet, or an error at once), and an URB taken back.
  `blank` remembers the second.

## 3. Runs

| Run | Instance | Distinct states | Shows |
|---|---|---|---|
| `pcie_reads` | 2 readers, 1 controller, 2 chips, fifo of 2 | 439 k | an abort flag stays in its session and is withdrawn only by those it was for; `read` fails with an empty fifo only if a rival emptied it |
| `pcie_writes` | a reader and a controller, both write, a chip with and one without a doorbell | 135 k | a write ends on its own answer unless one gave up; if the device answers the doorbells it gets, a write and an abort return unless a write that rang none holds the mutex for ever; an abort frees the reader in any case |
| `pcie_life` | 2 devices, 3 probes, no, proc and sys files, pages on and off the boundary, failures anywhere | 2.31 M | minors are in order and unique; nodes and files are those of their device, and `/proc/memxN` or `/sys/memxN` that of `/dev/memxN`, in all but the windows the properties name; what is left behind is what the code is known to leave; what handlers, files and chips reach is there, but for the files of hwmon while a device goes, and for the pages once their size was doubled |
| `fwcmd_calls` | 2 users and a probe or resume, 1 device that boots | 569 k | acks are one's own until a wait gives up; so are results, although they are read after the semaphore is free; the firmware sees whole commands; what of this probe and resume, which hold no mutex, can upset |
| `fwcmd_live` | 2 users, 2 devices, one semaphore | 270 k | each call returns though a firmware is silent |
| `fwcmd_late_ack` | 2 users, no signals or aborts | violation | see below |
| `admin_calls` | 2 callers, 2 calls of any kind, 2 chips and a number nobody has | 58 k | answers are one's own and commands run once until a command is given up; each call returns though a chip is silent |
| `admin_download` | one download to two quick chips | violation | see below |
| `debug_files` | 2 processes, 2 to 4 jobs of a cast, 2 chips and numbers nobody has, 4 layouts | 493 k | windows are at rest when nobody uses them; commands reach the firmware whole and are not lost, unless begun on top of another or hit by one to a number nobody has; log entries are printed once, in order; PASS means one's own image is in the flash; the thermal file agrees with the chips no `rmtcmd` told otherwise; a printed level is the printed pin's, unless its command failed; the accessors implement `MxRegisters` |
| `usb_ctl_calls` | 2 callers, any 2 calls of one of 5 casts, URBs that end in errors in 2 of them | 488 k | a wait ends by its own transfer and no buffer under way is overwritten, until a late transfer is left behind; answers are one's own until a transfer fails, but for the slot an I2C call reads; each call returns though the device is silent |
| `usb_ctl_stale` | a debug command and a register read | violation | see below |
| `usb_read_calls` | 2 threads, all calls, 2 submissions | 32 k | `readlock` is passed on clean, no packet twice, an empty read means an abort during it or that its own transfer brought nothing, an abort is taken by a reader or lives until the first open of a new session; an abort ends the wait of the reader it finds, and returns unless a dummy read is queued behind a reader |

A *cast* (`Casts`) is a set of calls or jobs that are run together; a behaviour
draws from one. Calls that share no state are in different casts, which loses
nothing: the debug files' log, slots, flash and pins are apart.

Every property has a mutant: a plausible fault in a mapped definition, with which
TLC finds the property violated. `pcie_life` and `debug_files` stop when their
bounds on probes and jobs are used up, and only there deadlock is not checked.
Where another behaviour ends because a bound is used up, an action of the model
says so (`Rest` in `MxAdmin`, `Quiesce` in `MxUsbCtl`): it is enabled only when
no thread is in a call, so a thread that is stuck still counts as a deadlock.
Safety and liveness are checked in one run where the instance allows.

Several properties hold *until* something is given up (`abandoned`, `left`,
`spoilt`, `badCopy`), or for those that something has not happened to (`crossed`,
`muddled`, `remote`, `failed`, `uneven`). That is the shape of this code: acks and answers carry
no name, so once a wait has ended early they cannot be told apart. The runs pin
down how far the guarantees go: the history variable is set only in the step in
which a caller gives up with something outstanding, or in which the code does
what it does not guard against, and the mutants show that no other path breaks
them.

### What the code does not keep

* **A late ack ends the wait of the next command** (`fwcmd_late_ack`).
  `memx_wait_for_firmware_msix_ack` (`pcie/memx_fw_cmd.c:37`) returns on any set
  indicator. The comments at lines 17 and 97 speak of the command waited for.
  After five timeouts the late ack of one command completes the next, whose
  caller reads a buffer the firmware has not yet written.
* **A download returns while chips still work** (`admin_download`). The
  comment at `pcie/memx_feature.c:205` requires "all command done"; the loop
  breaks at the first error (line 211), and `adminlock` is released with
  commands of the download still in other slots.
* **A debug command leaves its answer to the next caller** (`usb_ctl_stale`).
  After a late transfer `usb/memx_cascade_debugfs.c` returns with the URB
  submitted and the answer owed; the next caller of `fw_rxurb` reads it. The
  message at line 135, "Can't wait memxcmd 0x%X response", says that what is
  waited for is the response to the command it names.

Hazards met while modelling that no property claims anything about, because
nothing in the repository says what is promised, are in `PROJECT.json` with a
note.

## 4. Bounds, and why they are enough

| Bound | Value | Why |
|---|---|---|
| threads | 2 or 3 | a lock has a holder and a waiter; a race for a notification has two readers and an abort |
| chips | 1 or 2, and one that does not exist | an operation names one chip; the second shows that it leaves the others alone, and the proofs hold for any number |
| `FifoCap` | 1, 2 (16 in the code) | the full and the empty fifo and one between; the proofs hold for every capacity |
| `MaxStale` | 1 | one late answer is enough to confuse the next write |
| `Unrung` | none, or one of two chips | a write that waits for nobody beside writes that are answered |
| `MaxLeaks` | 0, 1 | one lost release makes the count wrong for good |
| `FailAckCount` | 2 (5 in the code) | a first retry and a last one |
| `MaxCalls` | 1 to 3 in all | a call that gives up and the one it confuses, or two beside each other |
| `MaxTransfers` | 2 | the transfer of a reader, and of the next that finds what it left |
| devices, `MaxProbes`, `MaxLoads` | 2, 3, 1 | one device beside another, and one that comes again to what it or the other has left; a load that is given up leaves its ranges in any case |
| `MaxName`, `Kobjects` | 3, 2 addresses | a name for each device and two that stay behind; an address that is used again, and one that is not |
| `Unaligned` | with procfs only | pages that do not begin on the boundary; what files there are makes no difference to the size, and the proofs have all three |
| `MaxChip`, `Reach` | 1, 1 (15, 4 in the code) | chip 0 and one behind it; a chip with and one without a window of its own |
| a command to a number nobody has | one word on a real chip's | its other words are no one's; each changes one word of one chip |
| `Erring` | the casts of I2C calls and of short calls | errors are alike for every transfer: one that asks, one that reads, one that does neither, and calls of one and of several sections; the proofs have every call |
| `MaxJobs` | 2 to 4, by cast | two at once and a third that finds what they left |
| `LogSize` | 3, of which the pointers start at the last cell | a log that is empty, one short of full, full, and wraps |
| pieces of a USB download or write | 1, 2 | a last piece, and one that is not the last |

`reference_count` is a `u32` in the PCIe driver and an integer here;
`CountIsHandles`, which is proved, shows that it never goes below zero.

## 5. Fairness

* A thread inside a driver keeps going (weak fairness of its steps): every wait
  the properties rely on has a timeout or a condition tested again after it, and
  the kernel schedules a runnable thread.
* Locks are given in turn (strong fairness of taking one): Linux semaphores and
  mutexes queue their waiters.
* Users owe nothing, and neither does a signal.
* The device owes nothing, except in `pcie_writes`. There the device answers every
  doorbell it gets: without it `memx_fops_write` retries for ever by design, so
  that is an assumption on the hardware, stated as one (`DeviceFairness`). It does
  not help a write whose doorbell was not rung: such a write may keep the mutex,
  and all who wait for it, for good. `WriteReturns` and `AbortReturns` therefore
  suppose that again and again none is in progress (`Unanswerable`), and claim
  nothing otherwise; that the code lets it happen is in the list of hazards.
* In `MxUsbRead` the host controller completes an URB that was unlinked, which
  is what `usb_unlink_urb` promises. A dummy read waits for `readlock` with
  `cfglock` held, so behind a reader whose device is silent neither it nor an
  abort returns (`usbmain:1081`): `AbortReturns` says that nothing else keeps
  an abort.
* `MxPcieLife`, `MxXflow` and `MxDebugFs` state no fairness: their waits are
  bounded loops of one thread, whose end is a step of the model (`TimeOut`,
  `FlashTimeOut`), and their properties are safety and refinement.

## 6. Proofs

All theorems are of the form `Spec => []P`, `Spec => [][A]_vars` or, for the
refinement of `MxRegisters`, `XSpec => RegistersRefined`, for every
value of the constants that satisfies the modules' named assumptions
(`IoAssumption`, `FwCmdAssumption`, `AdminAssumption`, `PcieLifeAssumption`,
`XflowAssumption`, `NoCallAssumption`, `DebugFsAssumption`, `CtlAssumption`,
`ReadAssumption`): any number of threads, devices, chips, calls and transfers.
Where a theorem's property is not in a run (the run's row would say what the
theorem says for every instance already), it was checked by TLC before it was
proved: `TypeOK` of the three modules proved first, `CountIsHandles`,
`DrainOneByOne`, `AnswerIsSomeones`, `QuietWhenFree`, `CopyIsOwn`, and
`NoResidue` of writes and of the USB control path.

`MxPcieIoProofs`:

* `TypeCorrect`, `MutexCorrect` (the mutex has the owner whose call is between
  its down and up, proved but left out of the runs) and `CountCorrect` are inductive alone or on top
  of the type; `CountCorrect` counts `Handles` with the theorems on finite sets.
* `FlagsCorrect` needs `FlagsInv`: a thread between the two halves of an abort
  is itself evidence that the session has seen an abort. It rests on
  `CountIsHandles`: the opener that resets the flags is alone
  (`FirstOpenIsAlone`).
* `EmptyPopCorrect` needs `WokenInv`: what woke a reader (an entry, an abort)
  is there until somebody takes it, and whoever takes it is a rival.
* `OwnAnswerCorrect` and `ResidueCorrect` need `WriteInv`: the device owes an
  answer, or has just given one, only to a chip some thread aims at, and a chip
  nobody gave up on has no stale answer. Since the mutex is held while a chip
  is aimed at, no two writes aim at one chip.
* `AbortKeptCorrect` and `DrainCorrect` are action properties, proved action by
  action from the type and the count.

`MxAdminProofs`:

* `TypeCorrect` carries `Places` (the position in a call's list is in its
  domain while a chip is addressed).
* `SomeonesCorrect` needs `LockInv` (one caller between lock and unlock, call
  numbers are unique) and `SourceInv`: whatever stands in an answer was run.
* `OwnAnswerCorrect`, `RunsOnceCorrect` and `QuietCorrect` need `MailInv`. While
  nothing was given up: every chip not addressed by the caller in the lock is
  quiet (idle or complete, no work), every busy slot holds the command of that
  caller at the place it says, and what a chip works on is what its slot holds.
  The properties are not inductive without it, since an answer is right because
  of what was armed many steps before.

`MxUsbReadProofs`:

* `TypeCorrect` needs `CountInv` (`reference_count` is the number of threads
  with an open file), or a release might take the count below zero;
  `AbortTakenCorrect` uses it too, since only the open that finds the count at
  zero resets the state.
* `LockInv`: exactly the holder of `readlock` is between lock and unlock.
* `DeliveredCorrect` needs `CopiedInv`: after a submission the buffer holds data
  only if a packet newer than the last one copied has come. It holds for bad
  user buffers too.
* `ResidueCorrect` and `CopyCorrect` need `UrbInv`: while a thread waits, the
  URB is under way for its own submission with nothing counted, or is idle with
  one completion counted; a reader that was woken has its completion, or an
  abort that nobody else can withdraw: a second reader needs `readlock`, and
  `memx_open` a count of zero, which the reader's own file keeps from it. All of
  it as long as no `copy_to_user` failed: after that a completion stays counted
  and the next read may copy while its URB is under way.
* `EmptyCorrect` needs `OvertakenInv` as well: an abort between setting the
  state and unlinking has overtaken every read, and a read that no abort has
  overtaken does not find its URB unlinked, and finds a length of zero only if
  its own transfer ended so. `blank` is cleared with the length when a transfer
  is submitted, so what an earlier one brought is no excuse.

`MxFwCmdProofs`:

* `TypeCorrect` needs `TodoInv`: a thread at a request has it before it, and
  probe and resume make no vendor call.
* `LockInv`: who is in the channel has the semaphore, a user in a call the mutex
  of its device. `NumberInv`: the commands of a device have numbers of their own.
* `WayInv` follows a command from the buffer to the firmware, the ack under way
  and the indicator (`OnWay`): it is in exactly one of these places while its
  sender waits, and none of them has anything while no one does (`Quiet`). The
  properties speak of the moment the ack is taken only, and are not inductive
  without it. It holds as long as no wait on the device gave up.
* `OwnAckCorrect` and `FirmwareCorrect` follow from `WayInv`; `OwnResultCorrect`
  needs `ResultInv` too: between the end of the wait and the copy only probe or
  resume can send, since a user would need the device mutex.

`MxUsbCtlProofs`:

* `TypeCorrect` needs `HasTransfer` and `SlotAsker` (only `txurb` asks for what
  is in the slot), and that what is left of a call after a failure is part of a
  call.
* `DoneCorrect`, `SentCorrect` and `ResidueCorrect` need `CleanInv`: as long as
  no late transfer was left behind, the URBs are idle and nothing is counted
  when the lock is free (`Rest`), and while its holder waits, its transfer is
  under way with nothing counted, or over with one completion counted.
* `AnswerCorrect` has a hypothesis, `CallsAreOrderly`: a section reads once for
  each time that it asks and after it has asked (`Paired`, `Due`), and a section
  that looks into chip 0's slot comes after one with an admin command, none in
  or after it. Without it the property is false, whatever the lock does: a call that
  reads without asking takes another's answer. `CallsOfTheDriver` shows that each
  call the driver makes is orderly, for any number of pieces, chips and looks for
  an outcome, so the hypothesis is one the code fulfils.
* The property speaks of the moment an answer is copied, and what makes it right
  is what was asked several transfers, or a section, before. `AnswerInv` carries
  that: unless something failed, the device has an answer ready exactly when the
  lock's holder is due to read one, and it is his (`OwedInv`, by the three
  stages `BeforeSubmit`, `OnTheWire` and `Finished` of a transfer); the slot has
  his command once his admin commands are out, or that of a later call
  (`ThreadOK`); and no two calls have one number (`OwnNumbers`).

`MxXflowProofs`:

* `WindowsCorrect` and `WindowsBesideFiles` need `WinInv`: a window used directly
  that does not show the MPU has some call under way whose last access closes
  it (`Restored`). This holds since every program is an opening and a closing of
  one window (`TodoOK`, `ProgramOK`), since only programs without such accesses
  are given up half way, and since whatever words stand in the windows, nothing
  but chip 0's window in the layout of four BARs leads to a control word, and
  then to that of another chip (`Bases`, `TargetOK`).
* `RegistersCorrect` and `RegistersBesideFiles` are the refinement: in all four
  layouts the accessors implement `MxRegisters`. They need `RefInv`, which adds
  to `WinInv`:
  - what is left of a call's program is its last steps (`Planned`, where `StepAt`
    counts the steps of a program from its end and `ProgramRest` shows that
    `Program` starts with all of them);
  - a call that met no other shares its window with none (`Apart`), and when the
    device is gone every call counts as one that met another (`GoneSpoils`);
  - such a call has set up its window, or the words of the mailbox, as far as its
    steps to go say (`Prepared`: `OwnReady`, `DistantReady`, `MailReady`);
  - a command in the mailbox is that of a call which waits for it or of one given
    up on (`CommandOwned`), and in the second case everybody else is still at the
    first wait (`LeftBehind`), so the late command finds its own words.

  `ActedIs` and `GotIs` then say where the mapping (`Acted`, `Got`) stands by the
  steps to go: a call has acted when its one access is behind it, or when the
  firmware has taken its command. Each action maps to one step of `MxRegisters`
  or to a stutter (`MapWrite` to `MapStutter`, joined in `MapStep`).
  `NoCallAssumption` is needed here: no call, and not the mark of a command given
  up on whose words are gone, is `NoCall`. The steps of the files keep all of the
  accessors' state (`BesideFiles`), so the refinement holds beside them too.

`MxPcieLifeProofs`:

* `OrderCorrect` needs `ListInv`: the devices on the list are those between
  `Insert` and `LeaveList`, on every path of probe and remove. `Insert` then
  keeps the order since the walk stops where a number is free (`StopAtGap`, from
  the least of a set of numbers), and `Return`, which clears a number, is only
  reached off the list.
* `TypeCorrect` needs it too: the numbers of the list leave none free below
  `StopAtGap` (`BeforeGap`, `LeastFree`), and there are more numbers than other
  devices (`EnoughMinors`, a pigeonhole argument on finite sets).
* `LiveCorrect` needs `HeldInv`: at each place of each path a device surely has
  what the table `Surely` lists, at most what `Perhaps` lists, and interrupts,
  log and tree fit (`IrqOK`, `LogOK`, `TreeOK`). A handler, a chip or a file can
  then reach only what is there. That the pages a device has are as many as will
  be freed is the one part that speaks of two devices, since `dmaSize` is shared
  (`PagesInv`); all else is about one, so a step of another keeps it
  (`OthersAlike`).
* `LeftCorrect` needs `HeldInv` and that a node goes by the number its maker
  still has, in a stage with nodes (`MadeBy`), and that without the driver every
  device is unbound (`ClassOK`): then nothing but `leaked` can be left.
* `NodesCorrect` needs `NodeInv`: a device whose probe nothing has overlapped
  with is alone in its stage (`Alone`), nobody who has left the list goes by its
  number (`NumberFree`), and the nodes of its number are its own (`OwnNodes`).
* `FilesCorrect` needs `FileInv`: a directory has one owner and its kobject an
  address of its own (`TreeInv`, `KobjInv`), and the map has the entry of each
  device whose files are there, ahead of any other with the same address unless
  another probe overlapped (`EntryInv`, which rests on `Taken`: numbers below that
  of a new device belong to others on the list). As long as none have overlapped
  and no directory was left, the directory has the number of the node (`CalmInv`).

`MxDebugFsProofs`:

* A job is a program, so the invariants speak of what is left of one: each step
  is followed by what the handlers let follow (`Follow`, `Chained`), and its
  words are written before the command they belong to (`WorkOK`). `TypeCorrect`
  carries this (`JobInv`) and the windows of `MxXflow`.
* `CommandCorrect` needs `SlotInv`: two commands under way for one chip have
  met (`Met`), what is in a slot is under way (`CommandPends`) and not still to be
  written (`NotSentYet`), and before a command its words are in the slot or still
  to come, unless it met another or a stray word fell on one (`WordsReady`).
* `ThermalCorrect` needs `ThermalInv`: as long as no commands met there is at
  most one writer, and a chip does, or has the command to do (`Effective`), what
  the writer wants unless its command is still to come; the chips that took
  their last command from an `rmtcmd` are left out, and come back with the next
  write of the file.
* `LogCorrect` needs `LogInv`: how far apart the pointers of a log are, modulo
  its size, is how many entries a dump has yet to print (`DistIf`, `DistRest`,
  `DistMore`), also between its reading a pointer and moving it on.
* `PassCorrect` needs `FlashInv`: unless updates met, an order stands only while
  its update polls, with its own image in SRAM and the outcome cleared before.
* `PinCorrect` needs `PinInv`: what a reader has seen is what the chip's pin was
  set to, unless a pin was chosen meanwhile or its command failed.

All inductive invariants were checked by TLC on the instances of the runs before
they were proved.

Only model-checked: all liveness (outside the prover's reach, like `ENABLED`).
Every invariant and action property of the passing runs, and the refinement,
is stated by a theorem. What a function computes on sequences of any
length cannot be proved here either: the induction theorems take an operator
the installed provers cannot instantiate. No module declares a `RECURSIVE`
operator.

## 7. What the models leave out

* Memory: order of plain accesses within a step, the content of buffers, DMA.
  Sections under a spin lock are single steps.
* `MxPcieIo`: which firmware command an ioctl runs (see `MxFwCmd`), and
  `copy_to_user` failures before anything has changed.
* `MxFwCmd`: commands whose arguments are refused before they reach the
  channel.
* `MxAdmin`: the throughput counters that some features return.
* `MxUsbCtl`: sizes and flow ids that an ioctl only stores; a failed
  `copy_from_user` is a refused transfer; answers of all kinds are alike, only
  whose they are counts.
  An URB that ends in an error is modelled in two casts only when TLC runs
  (`Erring`). `AnswerIsOwnUnlessSpoilt` says nothing after one: callers that do
  not check the length (`usb/memx_feature.c:78`, `usbmain:492`, `usbmain:870`)
  take what is left in `fw_rbuffer` for their answer.
* `MxUsbRead`: how many bytes of a packet came; an URB that ended in an error
  with some bytes counts as a packet, as it does for the driver.
* `MxPcieLife`: open files (a file that outlives its device is not held back by
  anything: there is no protocol to check); what a read of hwmon meets between
  the end of the BARs and its own, which `ReachableIsLive` excepts and the list
  of hazards names; what the firmware does while it is
  loaded; the handlers themselves, which are in `MxPcieIo` and `MxFwCmd`.
* `MxXflow`: SRAM accesses, which are single; the words an access shifts or
  masks. `MxRegisters` promises nothing to calls that clash: the code has no
  lock, and its callers none in common.
* `MxDebugFs`: values of a log's write pointer beyond the log (`PointerWrite`);
  words that fall on no chip's; the parsing of text (a command that is
  refused changes nothing), the files that only print what is stored, the memory
  dump.
* USB files: their transfers are in `MxUsbCtl`, their trees are made as over
  PCIe and not modelled again.

Not modelled at all (`not_modelled` in `PROJECT.json`):

* The USB device life cycle. Kernel and `device_mutex` run probe and disconnect
  one at a time; what is hard is what they do to open files and late URBs, where
  the code has no protocol whose correctness could be stated. The two places
  are in the list of hazards.
* Throughput counters: four integers for one diagnostic value. The slip in their
  reset (`pciemain:52`) is a hazard without a property.
* The Python module, user library, test programs, tests and scripts: sequential,
  without the library's source, or pure input and output. The formats of
  `pymodule/convert.h` are floating point, which TLC has not.

## 8. Order of work

The modules were written in the order of what matters most to a user: file
operations, firmware commands, mailbox, USB control and read paths, then
register windows and debug files, and the life cycle. What is left, with what
each would need:

1. `MxUsbLife`: probe and disconnect over USB with the shared feature class, and
   the ZSBL download with its late URB. Worth it once disconnect waits for open
   files.
2. An abstract mailbox (a command is asked, run, answered) that `MxAdmin`,
   `MxFwCmd` and `MxUsbCtl` implement while nothing is given up, as `MxXflow`
   implements `MxRegisters`.
