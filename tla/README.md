# TLA+ models of the XDMA driver and the DMA camera

Models of the Linux driver for the Xilinx XDMA core (`src/driver_src/driver`)
and of the camera application that uses it (`src/software`), model-checked with
TLC and proved about with TLAPS.

## 1. The system

| Part | State it keeps | Operations | Talks to |
|---|---|---|---|
| SG DMA engine (`xdma-core.c`) | `engine->transfer_list`, `running`, `desc_dequeued`, `status`, `lock`; registers; the write-back word | `transfer_queue`, `engine_start`, `engine_service`, `engine_service_resume`, `xdma_engine_stop` | the hardware (registers, interrupts), the reading and writing threads (lists, wait queues) |
| Synchronous `read`/`write` | one `xdma_transfer` at a time, the chunks left | `char_sgdma_read_write`, `transfer_data`, `transfer_monitor`, `engine_service_poll` | the engine, under `engine->lock` or without it |
| Interrupts and work items | channel interrupt masks, `interrupt_enable_mask_value`, scheduled work | `xdma_isr`, `xdma_channel_irq`, `engine_service_work` | the engine |
| Asynchronous I/O | the iocb of a request, `last_in_request` | `sg_aio_read_write`, `engine_transfer_completion` | the engine |
| C2H ring buffer (AXI stream) | `rx_head`, `rx_tail`, `rx_overrun`, `eop_found`, credits, result words | `cyclic_transfer_setup`, `engine_service_cyclic*`, `char_sgdma_read_cyclic`, `cyclic_transfer_teardown` | the engine, the reader |
| User interrupts | `events_irq` per interrupt | `user_irq_service`, `char_events_read`, `char_events_poll` | the interrupt handlers |
| Descriptors | `xdma_desc` lists, scatter-gather tables | `transfer_create`, `transfer_build`, `xdma_desc_*`, `sgm_*` | `engine_start`, the hardware |
| Performance measurement | `engine->xdma_perf` | `ioctl_do_perf_start/stop/get` | the engine, its service |
| Probe and removal | everything `probe` allocates | `probe`, `remove`, `probe_engines`, `create_interfaces`, `irq_setup` | PCI core, all of the above |
| Register, bypass and user BAR devices | none | one access per call | the hardware |
| SD_ACCEL extensions | (compiled out) | bitstream download, clock scaling | the hardware |
| Camera application | frame buffers, handshake registers | `v4l2_dma_camera.cpp` | the FPGA over the user BAR, the V4L2 loopback |

What is hard in it:

* **Concurrency.** `engine->lock` serialises `transfer_queue` and
  `engine_service`, but a thread tests and frees its own transfer without it,
  stores `engine->status` without it when a signal arrives, and the hardware
  and the interrupt handlers run at any time.
* **Order.** The status register is read and cleared, then `BUSY` is tested,
  then the count of completed descriptors is read, each in its own access,
  while the hardware runs. In a service a transfer's state is stored, then it
  is taken off the list, then its thread is woken.
* **Failure.** Hardware errors, signals, a ten-second poll timeout, and a probe
  that can fail at every step.
* **Boundaries.** `desc_count -= desc_dequeued` in `u32`, `>` for all transfers
  but the last and `<` for the last, ring indices that meet when the ring is
  full and when it is empty.

What makes each part correct:

* engine: each queued transfer is executed once, in order, and reported only
  after it ran; an idle engine has an empty queue; a running one will be
  served; no transfer fails without a hardware error; no `BUG_ON` fires; a
  masked interrupt is unmasked again;
* `read`/`write`: success means the data moved; a transfer is destroyed only
  when the engine is done with it; every request returns;
* AIO: an iocb is completed after its chunks were moved, and is completed at all; C2H ring: packets come
  out whole, in order, once, or an overrun is reported; events: an interrupt is
  seen by a reader; descriptors: the list covers the buffer exactly, in
  order, and no hop crosses a 4 KiB page when it is counted adjacent;
  performance: a measurement that was stopped gives the engine back to the
  transfers behind it; probe: what was taken is released once, in the reverse order; camera:
  the frame of a turn is the one captured for that turn, whole.

## 2. The modules

| Module | Models |
|---|---|
| `XdmaEngine` | the engine, its interrupt and work item, the reading and writing threads, and the hardware; the properties of all of them |
| `XdmaFifo` | what the engine promises: a FIFO server |
| `XdmaEngineFifo` | the refinement mapping from `XdmaEngine` to `XdmaFifo` |
| `MCXdmaEngine` | the instance TLC checks |
| `XdmaEngineProofs` | theorems about `XdmaEngine`: its types and its interrupt; in interrupt mode success and the `BUG_ON` |
| `XdmaEngineOrder` | theorems about `XdmaEngine`: idle and running engines, no spurious failure, no DMA after free, no transfer destroyed in use but for one window, and that it implements `XdmaFifo` |
| `XdmaRing` | the C2H receive ring while the channel is open: hardware, service, readers, credits |
| `XdmaPackets` | what the ring promises: a channel of packets |
| `XdmaRingPackets` | the refinement mapping from `XdmaRing` to `XdmaPackets` |
| `MCXdmaRing` | the instance TLC checks |
| `XdmaRingProofs` | theorems about `XdmaRing`: all its safety properties, and that it implements `XdmaPackets` |
| `XdmaCyclic` | opening and closing the C2H channel |
| `MCXdmaCyclic` | the instance TLC checks |
| `XdmaCyclicProofs` | theorems about `XdmaCyclic`: all its safety properties |
| `XdmaDevice` | the devices of a driver: `probe`, its failures and their unwinding, interrupts, `remove`; instantiates `XdmaEvents` |
| `XdmaEvents` | a user interrupt, and the processes that read and poll it |
| `MCXdmaDevice` | the instance TLC checks |
| `XdmaDeviceProofs` | theorems about `XdmaDevice` and its events: all their safety properties |
| `XdmaDesc` | from a request to descriptors, and what the hardware does with them |
| `MCXdmaDesc` | the instance TLC checks |
| `XdmaDescProofs` | theorems about `XdmaDesc`: all its properties |
| `XdmaCalls` | the calls that do not wait for their transfers: asynchronous I/O and the performance ioctls, on one engine |
| `MCXdmaCalls` | the instance TLC checks |
| `XdmaCallsProofs` | theorems about `XdmaCalls`: queue and hardware agree, iocbs are completed when their data was moved |
| `V4l2DmaCamera` | the camera application and the FPGA it drives |
| `V4l2DmaCameraProofs` | the theorem about `V4l2DmaCamera`: frames are fresh |

### XdmaEngine

Variables carry the names of the C fields. A transfer is `<<thread, n>>`, the
n-th a thread creates; its address list is abstracted to `desc_num`. `state`
adds `"unallocated"` and `"freed"` for its memory, so that a use after
`transfer_destroy` can be seen. Of `engine->status` the model keeps the two
facts the code tests: `BUSY`, and any of the four error bits.

The service is cut where another actor can see or change something:

| Action | Code |
|---|---|
| `WorkBegin`, `WorkEnd` | `engine_service_work`: lock; unmask and unlock |
| `PollBegin`, `PollEnd` | the same in `engine_service_poll` |
| `ServiceStatus` | `engine_service` up to `engine_status_read(engine, 1)` |
| `ServiceShutdown` | the test of `BUSY`, `engine_service_shutdown`, the read of `completed_desc_count` and the subtraction of `desc_dequeued` |
| `ServiceList` | one turn of the loop of `engine_service_transfer_list`, up to the wake-up |
| `ServiceFinal` | the verdict on the last transfer, and `engine_err_handle` |
| `ServiceDequeue`, `ServiceWake` | `list_del` and `desc_dequeued`; `engine_transfer_completion` |
| `ServiceResume` | clearing the write-back word, `engine_service_resume` |
| `Oops` | the other outcome of touching freed memory |

`transfer_queue` is one action, because everything in it is under the lock and
only `engine->lock` holders look at what it changes; the thread's own steps are
`EnterWait`, `Interrupted`, `PollHit`, `PollTimeout`, and after the wait
`TakeResult`, `LeaveInFlight`, or `ReadStatus` and `StoreStatus`, the two halves
of `engine_status_read(engine, 0)`.

The hardware is external: `HwDesc` executes a descriptor and stops at the last
one, `HwError` halts with an error. It raises its interrupt while an event is
latched; reading the status register clears it. An engine whose `RUN` is cleared
while it executes a descriptor (`xdma_engine_stop`) finishes that one, at any later
time (`hw_left`, `HwFinish`): it stays `BUSY` until then, and if the descriptor was
the last of its list it is reported as ever, in poll mode in the write-back word. A
run that was started meanwhile begins after it. `hw_late` remembers that what is in
the word was written by such a stopped run.

`CloseWindow` is not code. It is a switch: when TRUE, no thread looks at its
transfer between the store of the transfer's state and the last use of the
transfer by the service. The run `engine_window` shows what happens without it
(section 5); runs about other questions close it to look past it, and say so.

### XdmaRing

The n-th page the hardware fills is block `n`. A result (`result[slot]`) and a
page (`buffer[slot]`) hold the block that is in them; which blocks end a packet
and which have a bad result are the sets `eops` and `bads`. A result is
`status` and `length` together, 0 when cleared.

| Action | Code |
|---|---|
| `WorkBegin`, `ServiceStatus` | `engine_service_work`, `engine_status_read(engine, 1)` |
| `RingProcess`, `RingProcessed` | one turn of the loop of `engine_ring_process`; its end, and in poll mode the next turn of `engine_service_cyclic_polled` |
| `RingWake`, `RingStop` | the rest of `engine_service_cyclic_interrupt` |
| `PollBegin`, `PollWriteback`, `PollEnd` | `engine_service_poll`, `engine_service_cyclic_polled` |
| `Monitor`, `Recheck` | the wait and the loop condition of `transfer_monitor_cyclic` |
| `CompleteBegin`, `TakeResult`, `CompleteEnd` | `complete_cyclic` up to the unlock |
| `CopyOut`, `Release` | the copy; clearing `rx_overrun` and writing the credits, without the lock |
| `ReadStart`, `MoreToRead` | `char_sgdma_read_cyclic` around them |

The hardware's part is `HwBlock`, which fills the next page (with a credit, when
credits are on), and `HwError`. `got`, `copies` and `ret` record what the readers
were given.

### XdmaCyclic

`cyclic_transfer_setup` holds `engine->lock` from its first line on, so each of
its outcomes is one action (`OpenSetup`, `OpenBusy`, `OpenNoBuffer`,
`OpenNoTransfer`, `OpenNoResult`), followed by `OpenQueue` for `transfer_queue`.
`cyclic_transfer_teardown` is cut where it does not hold the lock: `CloseLook`
and `CloseStop` (`engine_cyclic_stop`), `CloseSync`, the wait (`CloseWait`,
`CloseInterrupted`, or `ClosePoll` and `ClosePolled`) and `CloseFree`. A transfer
is its number in order of creation, `live` are those not freed, and `hw_xfer` is
the one the hardware was started with, so that a use of freed memory can be seen.
`"oops"` and `"bug"` stand for a crash in the process or in the work item.

`XdmaRing` begins where `OpenQueue` ends and does not close; the two share the
engine's fields `running` and the lock, and nothing `XdmaCyclic` waits for depends
on the ring's contents, except that in poll mode a reader may hold the lock while
it waits for an end of packet, which is part of `XdmaRing`.

### XdmaDevice and XdmaEvents

`lro[d]` holds, for each device, what `struct xdma_dev` knows and what the driver
really holds of the kernel: memory, regions, mappings, vectors, character devices,
a slot of `dev_present`. The two differ when something failed, and what is held
outlives `lro`. Each step of `probe` is an action that succeeds or, when the setup
lets it, fails and jumps to its label; the labels are actions too (`RmvCdev`,
`DestroyInterfaces`, `RemoveEngines`, `IrqTeardown`, `UnmapBars`, `RelRegion`,
`DisableMsi`, `FreeAlloc`), because handlers run between them. `remove` goes
through the same sequence with interrupts off (`removing`).

| Action | Code |
|---|---|
| `Probe` ... `CreateFile` | `probe`: one action for each call that may fail |
| `ProbeEngines` | `probe_engines` with `engine_create`: all engines, a failing H2C engine (unwound), or a failing C2H engine (the scan ends) |
| `CreateInterfaces`, `CreateNothing`, `CreateSome` | `create_interfaces` with `create_sg_char`: all character devices, none, or some and taken down again |
| `Isr`, `UserVector`, `ChannelVector` | `xdma_isr`, `xdma_user_irq`, `xdma_channel_irq` |
| `EngineWork`, `OrphanWork` | a work item; one whose engine was freed |
| `XdmaInit` | `pci_register_driver`, then clearing `dev_present` |
| `user_irq_service`, `ReadStart` ... `ReadTake`, `Poll` (`XdmaEvents`) | the same, `char_events_read`, `char_events_poll` |

Engines and character devices are numbered in the order in which they are made.
A use of freed memory (`oops`) ends the behaviour. What an engine does with its
work item is `XdmaEngine`; the mask of `xdma_channel_irq` is there, too.

### XdmaDesc

| Action | Code |
|---|---|
| `Call` | `check_transfer_align` and the refusals of `char_sgdma_read_write` |
| `Transfer`, `RingSetup` | a turn of the loop of `transfer_data`, and `cyclic_transfer_setup`: `transfer_create` up to the call of `transfer_build` (`StartBuild`) |
| `Entry` | an iteration of the loop of `transfer_build`: a scatterlist entry but the last is added to the contiguous block, which may become a descriptor (`Block`, `NewDesc`, `NextCard`) |
| `LastEntry` | the end of `transfer_build` and of `transfer_create` (links, `xdma_desc_adjacent`, for the ring the cyclic list), and `engine_start` |
| `HwDesc` | the hardware executes a descriptor and fetches as many as `adj` says |
| `TransferDone`, `Return` | the end of the loop of `transfer_data`, and its return |

`build` holds the variables of `transfer_build`: the descriptors that are done (`list`), the
entry it is at (`addr`), and the block in the making. The scatterlist is not kept. An entry of
`sgm_get_user_pages` ends with its page (`PageEnd`); behind an IOMMU `pci_map_sg` may join
entries in any way, so there an iteration picks where the entry ends
(`JoinedEnds`), as long as the bus addresses up to there follow one another. `moved` is what
the hardware moved, unit by unit. Pages that cannot be mapped are a `BUG_ON`
(`res = "BUG"`).

### XdmaCalls

The engine here is that of `XdmaEngine` in interrupt mode, seen from callers that
queue a transfer and go on. So that several kinds of them fit beside each other, it
is coarser: an asynchronous transfer is executed in one step, the masking of the
interrupt is part of the state of the work item (`work`), and a transfer is
`<<call, n>>`, or `<<Ioctl, n>>` for the n-th measurement. What is finer is the
control register: `idle_log` and
`idle_irq` are `IE_IDLE_STOPPED` in it and in the interrupt mask, `hw.run` is `RUN`.

| Action | Code |
|---|---|
| `AioRefused`, `AioChunk`, `AioNextSegment`, `AioReturn` | `sg_aio_read_write`: `check_transfer_align` of a segment, a turn of the loop over its chunks with `transfer_queue`, the next segment, `-EIOCBQUEUED` |
| `PerfStart`, `PerfSubmit` | `ioctl_do_perf_start`, `xdma_performance_submit` |
| `PerfStop`, `StopEngine`, `StopFlag`, `StopFree` | `ioctl_do_perf_stop`: `engine_cyclic_stop` picks the head of the queue, stops the engine, marks the last descriptor; the statistics and `kfree` |
| `WorkBegin`, `ServicePerf`, `ServiceStore`, `ServiceFinal` | `engine_service` up to the shutdown, the two halves of `engine_service_perf`, the last transfer with its completion and the restart |
| `HwDone`, `HwIdle`, `HwError` | the hardware comes to the end of a transfer (or to a descriptor that stops a measurement), comes to rest because `RUN` was cleared, halts on an error |

The ioctls are cut at each access another actor could come between, since
`engine_cyclic_stop` is called without the lock. `completions` are the sizes
`AIO_COMPLETE` was called with, `moved` the transfers that were executed.
`GoodTimeToStart` and `GoodTimeToStop` are not the driver's: they are what
`tests/performance.c` does, which sleeps while a measurement runs before it stops
it. They bind only in setups with `patient`. Of the hardware it is assumed that it
reports each end of a run once, and a stop by `RUN` only while `IE_IDLE_STOPPED` is
set.

### V4l2DmaCamera

One action per access to the FPGA: `MapBar`, `WriteSetting` (registers 0x10, 0x20
and 0x30), `StartCapture` (1 to register 0), `PollDone`, `ClearDone` (register 4),
`BeginRead`, `ReadRow`, `ReadReturns`, `ReadFails` (`get_dma_data`), `Send`
(`get_frame`, `send_frame`) and `NextTurn`. `Ended` is `sig_handler`, at any point;
`Start` is a new process. What the FPGA does (`CaptureRow`, `CaptureDone`) is
external: a start begins a capture, which fills the frame memory and then sets
register 4; a start during a capture may begin anew or be ignored. The contents of a
row are the capture it is from.

## 3. Bounds

`MaxXfers` (transfers a thread creates), `MaxDesc` (descriptors of a transfer)
and `HwErrors` (errors reported) bound the counters. Two threads with two or
three transfers each give every overlap the code distinguishes: a transfer
queued on an idle engine, on a running one, on one that has stopped but is not
served yet, during a service before and after the restart, and one queued
behind another of the same or of a different length. Two descriptors are enough
for "half-way through", three in poll mode for a count that is neither the old
nor the new one. `U32` is 64 instead of 2^32: every count in the model is below
it, and an underflow gives a number larger than every count, as in the driver.

`setup` of `XdmaRing` and `XdmaCyclic` is chosen in `Init` and never changes: the
module parameters `poll_mode` and `enable_credit_mp` (writable through sysfs, and
assumed not to be written after the module was loaded), which threads use the
device, and which faults the surroundings may commit. One run so covers several
setups, and a property that needs one of them says so in its own antecedent
(`Alone`, `NoFault`, `KeepsUp`, `NotCutShort`). The sets of setups are in the MC
modules.

The ring has 3 pages instead of 256 and 2 initial credits
instead of 128: what counts is that the credits are fewer than the pages, that the
ring wraps (`MaxBlocks`, 6, exceeds `Pages`), and that packets of one block, of
several, and of a whole ring occur. `ahead` is how far the source may run ahead of
what was copied: `Pages - 1` for a source that is paced, no limit with credits.
Two readers share the open file in the setups `Shared`, with 4 blocks, and are
interchangeable (`ReaderSymmetry`). `MaxOpens` (3) lets the channel be closed and
opened again twice; `MaxErrors` (2 in `XdmaCyclic`) lets it halt in two of them.

`device` has four families of setups. `Failing`: one device with two H2C engines and
one C2H engine, every step able to fail, all three kinds of interrupts and both
modes, probed twice so that a leak meets the next probe. `Layered`: the four
layouts of the BARs. `Two`: two devices, for which there are just two slots,
present before or after the module. `Eventful`: one device with no, one or two
readers. The steps of a probe do not depend on the number of channels, so
`Channels = 2` covers a first, a middle and a last engine.

`desc` has pages of 4 units, descriptors of at most 11 units (3 pages less one, as
the driver's 2^18 - 1 is 64 pages less one), transfers of 4 pages, alignment 2, at
most 2 extra adjacent descriptors and 4 descriptors in a page of bus addresses, so
that the list's end, `MAX_EXTRA_ADJ` and the page each are the smallest of the three
somewhere. Lengths go to 36: two transfers and a rest, from each offset in the
page. `Laps = 2` lets the ring start again.

`calls` has three families of setups: two requests at once, the first of several
chunks, of two segments, with an empty or with a misaligned second segment, and one
error; one request beside up to two measurements, with an error or with ioctls that
fail; and measurements that are stopped at any time beside two requests. Requests of
three transfers have a first, a middle and a last one; a second measurement meets
what the first left.

`camera` takes five captures with frames of two rows, so that a frame can be torn
and each fault has turns before and after it, three ends of the process and a read
that fails.

Runs use `CHECK_DEADLOCK FALSE`: a system whose threads have created their last
transfer has stopped, and so has one that has hit a `BUG_ON` or an oops, a device
probed as often as it may be, and a request that has returned.

## 4. Fairness

`FairSpec` asks for weak fairness of the hardware (`HwDesc`, `HwFinish`), of the delivery of
an unmasked interrupt (`Isr`: the request is level-triggered by the latched
status), of the work queue (`WorkBegin`, the steps of `engine_service`,
`WorkEnd`: a kworker runs what was scheduled and does not sleep under a
spinlock) and of each runnable thread (`ThreadStep`). It asks nothing of
`StartRequest`, `CreateFails`, `Interrupted`, `PollTimeout`, `HwError` and `Oops`.

`XdmaRing` asks the same for the interrupt, the work item and each reader, and
nothing of `HwBlock`: the source need not send, and a read need return only when
a packet has come. `XdmaCyclic` asks it for a process in `close()`, and for
`HwStops`: an engine whose `RUN` is clear goes idle. `XdmaDevice` asks it for each
runnable reader of the events device; probing, removal and interrupts may stop at any
point. `XdmaDesc` has no liveness property and no fairness.

`XdmaCalls` asks it for a call that has begun (`AioStep`, `IoctlStep`), the hardware
(an engine with a transfer that ends, or with `RUN` clear, comes to rest), the
interrupt and the work item; nobody has to start or stop a measurement, and errors
need not come. `V4l2DmaCamera` asks it for the running process and for a capture in
progress, nothing of `Start`, `NextTurn`, `Ended` and `ReadFails`.

## 5. Runs

| Run | Shows |
|---|---|
| `engine_irq` | interrupt mode, two threads with three transfers each, the window open, with fairness: `IdleMeansEmpty`, `RunningIsServed`, `SuccessMeansMoved`, `NoDmaAfterFree`, `NoSpuriousFailure`, `NoBug`, `EveryRequestReturns`, and `ImplementsFifo` (the transfers run in the order queued, each once, and, unless a thread touched freed memory, all of them) |
| `engine_faults` | MSI-X, signals, a hardware error: `TypeOK`, `InterruptsComeBack` |
| `engine_poll` | poll mode, two threads and timeouts: `IdleMeansEmpty`, `FreshWriteback` (while a thread polls for a transfer that is executed, the write-back word has in it no count of a run that ended by itself) |
| `ring_credit` | credits, one reader, fairness: `ImplementsPackets` (whole packets, in order, and every read returns once its packet has come) |
| `ring_modes` | all setups (credits; a paced source without credits; poll mode; two readers; signals, an error, a bad result): `PacketsWhole`, `NoSilentLoss` (no block is passed over or taken twice), `KeptUntilCopied` (no page is filled again before it is copied, and the indices never meet on a full ring), `NoWarn` |
| `cyclic` | open and close in both modes, one process with signals and errors, two processes with failing allocations, with fairness: `CloseReturns`, `FreedOnlyWhenStopped`, `ClosedMeansClean`, `ServiceSafe`, `LockReturnedAlone`, `StopSeesTransfer` |
| `device` | probing with every failure, interrupts, events, removal: `TypeOK`, `HandlersSafe` (no handler without its registers, its `lro` and its engine), `NothingLeft` (what was taken is given back), `UnwindsOnce`, `UpMeansServed` (what a successful probe holds), `InstancesDifferLater`, `SoleReaderSeesEvents`, `EventWakes` |
| `desc` | requests and the ring: `MovesTheRequest` (each unit once, in order, in its place), `DescriptorsFit`, `FetchesInside` |
| `calls` | asynchronous requests and measurements on one engine, with fairness: `HwRunsTheHead` (a busy engine executes the head of its queue, whatever the users do), `CompletedWhenMoved` (an iocb whose bytes are in one segment is completed at most once, with the request's size, after all of it was moved) and `EveryIocbCompletes` (each segment of an accepted request completes its iocb), `MeasurementEnds` |
| `camera` | the camera's loop, its process ended and started again, with fairness: `FramesFresh` (the frame of a turn was captured for it, with its settings, and is whole), `FramesKeepComing` |

Two runs end in a violation of what a comment of the code says; each is a finding
in `PROJECT.json`:

* `engine_window`: without any error, a thread that looks between the store of
  `TRANSFER_STATE_COMPLETED` and `list_del` destroys a queued transfer
  (`TakenOffTheEngine`);
* `cyclic_signal`: a signal in `close()` frees the ring of a running engine
  (`RingUnderDma`).

The conditions in the other properties mark where the code stops doing what it
says. Each can be seen by dropping the condition:

* a signalled thread stores an old `BUSY` over the status the service has just
  read, and the engine stays `running` with nothing to serve it
  (`RunningIsServed` in the setting of `engine_irq` with `Signals = TRUE`);
* without credits `eop_found` is never reset, and reads after the first packet
  return parts of packets (`EveryReadIsAPacket`, which is `PacketsWhole` without
  its condition on the mode);
* after a hardware error the failed transfer is still queued, and restarted, when
  its thread destroys it (`TakenOffTheEngine` in the setting of `engine_window`
  with `CloseWindow = TRUE` and `HwErrors = 1`);
* two threads poll one write-back word; with equal counts one of them reports
  success for a transfer that is in flight (`SuccessMeansMoved` in the setting of
  `engine_poll`);
* `engine_service` clears the write-back word "before starting engine again"
  (`xdma-core.c:1479`), but a poll that has timed out, or has read the count of
  another thread's transfer, makes it stop an engine in the middle of a transfer;
  the descriptor under way is finished, and its count may land in the word after
  it was cleared and the next run was started (`FreshWriteback` without
  `hw_late`);
* an overrun is never reported (`NoSilentLoss` without `KeepsUp`), and a packet as
  long as the ring drives the reader past the results there are, into its own
  `WARN_ON` (`NoWarn` without `KeepsUp`): both with no credits and an unlimited
  `ahead`;
* after a bad result `-EIO` is added to the length and the read goes on (`errs` in
  `ret`; the conditions `NoFault`);
* of two readers of one file, one gives back credits that let the hardware fill
  the page the other has yet to copy (`KeptUntilCopied` without `Alone`);
* a refused open keeps `engine->lock` (`LockReturned` in the setups `Several`);
* after an error `close()` may use a transfer that is no longer queued
  (`StopSeesTransfer` without `setup.errors = 0`);
* a failed `transfer_create` in `open()` is not noticed, and crashes
  (`OpenNoTransfer`);
* `create_interfaces` and `probe_engines` undo their work when they fail, and
  `probe` undoes it again: engines and character devices are freed twice
  (`UnwindsOnce` without `"engine"` and `"interface"`); a `request_irq` that failed is
  followed by `free_irq` (`UnwindsOnce` without its second exception);
* a device whose character devices could not be made keeps its slot of
  `dev_present`, and one whose attribute file could not leaves its interrupts on
  (the last two lines of `NothingLeft`);
* `remove` frees the engines before the handler of an MSI or legacy interrupt, which
  follows the pointers to them, and cancels no work item (`HandlersSafe` is stated for
  the engines of MSI-X vectors; `NoOrphanWork`);
* `xdma_init` clears `dev_present` after it has registered the driver and so
  probed the devices that were there; the next device takes a number that is in use
  (`InstancesDiffer`, without "later");
* of two readers of one events device the second may return with no event
  (`SoleReaderSeesEvents` without its condition);
* in the fixed address mode (`non_incr_addr`) `transfer_build` keeps the card's address
  but `transfer_data` advances `*pos`, so the second transfer of a long request goes
  elsewhere; and an IOMMU that joins pages gives a descriptor more than its maximum
  length, and the ring fewer descriptors than pages (`MovesTheRequest` and
  `DescriptorsFit` without their conditions);
* `PERF_STOP` waits for nothing, though a comment (`xdma-core.c:1349`) speaks of a
  stop that waits for the run to finish: issued before its measurement is at the head of the
  queue, or repeated after a failed one, it stops another user's transfer. An
  asynchronous one is then completed with its full size although it was not moved
  (`CompletedWhenMoved` without `patient`), or the stop is not logged, because
  `xdma_perf` is already clear, and the engine hangs (`EveryIocbCompletes` and
  `MeasurementEnds` without `patient`);
* `engine_service_perf` may store into the `xdma_perf` that `PERF_STOP` has just
  freed (`"oops"`, excepted in both of these);
* the comments on `last_in_request` and `size_of_request` speak of the request
  ("last transfer for the given request?", `xdma-core.c:3169`, "using request
  size", `:3171`; "last within request", "request size", `xdma-core.h:430`), but
  the code sets them for the last transfer of each segment: an iocb of two
  segments is completed twice, with the size of each, and one whose second segment
  is misaligned returns `-EINVAL` and is completed all the same
  (`CompletedWhenMoved` without `InOnePart`). `EveryIocbCompletes` counts such
  completions, one per segment; an empty request returns `-EIOCBQUEUED` and is
  never completed, and has none to wait for;
* only the last transfer of a segment is destroyed; the others, and every
  measurement's, are leaked (`state` stays `"COMPLETED"`);
* a `PERF_START` with an unknown version leaves `xdma_perf` allocated, and later
  starts are refused until a `PERF_STOP`;
* a camera process that is ended between its start of a capture and its clearing of
  the done flag leaves a flag to its successor, whose turns from then on read the
  frame of the turn before, or one that is being overwritten (`FramesFresh` without
  `~dirty`).

## 6. Proofs

The theorems hold for every value of the constants that satisfies the
assumption of their module, and, where the table says so, for the settings named
there; the conditions inside a property (such as `KeepsUp` or `Alone`) are
those of section 5. `EngineAssumption`: the worker, "nobody" and the
threads are different, the bounds are positive, `U32` exceeds `MaxDesc`; so they
hold for any number of threads, transfers, descriptors and errors.
`CallsAssumption`: the ioctl's thread is no request, "none" is no transfer, setups are of the
right shape; any requests of any segments, any measurements. `CameraAssumption`: frames have rows, the bounds
are numbers. `CyclicAssumption`: the worker, "nobody" and the processes are
different, at least one transfer can be created; any processes, openings, errors
and setups. `RingAssumption`: the worker, "nobody" and the readers are different, there
are finitely many readers, and fewer credits than pages, as in the code (128 for
256 pages); any number of pages, blocks and bad results, any setups.
`DeviceAssumption`: finitely many readers, one of the devices is the one they watch, there
are channels and slots; any devices, probes and setups. `DescAssumption`: the sizes are
positive, a page fits a descriptor, `MAX_EXTRA_ADJ` is below the descriptors of a page, a
transfer is whole pages and a page whole alignments, as the driver's constants are; each
request lies in its pages, and the ring is whole pages, at least one, from the start of
the first. Any requests, page frames and limits.

| Theorem | States | Module | Needs |
|---|---|---|---|
| `TypeCorrect` | `[]TypeOK` | `XdmaEngineProofs` | |
| `InterruptsAlwaysComeBack` | `[]InterruptsComeBack` | `XdmaEngineProofs` | `~PollMode` |
| `SuccessAlwaysMeansMoved` | `[]SuccessMeansMoved` | `XdmaEngineProofs` | `~PollMode` |
| `NeverBug` | `[]NoBug` | `XdmaEngineProofs` | `~PollMode` |
| `NothingLeftIdle` | `[]IdleMeansEmpty` | `XdmaEngineOrder` | |
| `WritebackAlwaysFresh` | `[]FreshWriteback` | `XdmaEngineOrder` | |
| `RunningAlwaysServed` | `[]RunningIsServed` | `XdmaEngineOrder` | `~PollMode`, `~Signals` |
| `NeverFailsSpuriously` | `[]NoSpuriousFailure` | `XdmaEngineOrder` | `~PollMode` |
| `NeverDmaAfterFree` | `[]NoDmaAfterFree` | `XdmaEngineOrder` | `~PollMode`, `HwErrors = 0` |
| `NeverOops` | `[](svc # "oops")` | `XdmaEngineOrder` | `~PollMode`, `HwErrors = 0`, `CloseWindow` |
| `OthersAreTakenOff` | `[][DestroysWhatIsFree]_vars` | `XdmaEngineOrder` | the same |
| `TakenOffButForTheWindow` | `[]TakenOffTheEngine` | `XdmaEngineOrder` | the same, `~Signals` |
| `EngineIsFifo` | `Fifo!InOrder` | `XdmaEngineOrder` | `~PollMode`, `HwErrors = 0` |
| `Typed` | `[]TypeOK` | `XdmaRingProofs` | |
| `NeverWarns` | `[]NoWarn` | `XdmaRingProofs` | |
| `NothingLostSilently` | `[]NoSilentLoss` | `XdmaRingProofs` | |
| `CreditsKeepPages` | `[]KeptUntilCopied` | `XdmaRingProofs` | |
| `PacketsStayWhole` | `[]PacketsWhole` | `XdmaRingProofs` | |
| `ReadsFollowPackets` | `Packets!InOrder` | `XdmaRingProofs` | setups in `OneStream` |
| `DeviceTyped` | `[]TypeOK` | `XdmaDeviceProofs` | |
| `HandlersAreSafe` | `[]HandlersSafe` | `XdmaDeviceProofs` | |
| `LeavesNothing` | `[]NothingLeft` | `XdmaDeviceProofs` | |
| `UnwindsOnlyOnce` | `[]UnwindsOnce` | `XdmaDeviceProofs` | |
| `UpIsServed` | `[]UpMeansServed` | `XdmaDeviceProofs` | |
| `InstancesAreDistinct` | `[]InstancesDifferLater` | `XdmaDeviceProofs` | |
| `SoleReaderServed` | `[]SoleReaderSeesEvents` | `XdmaDeviceProofs` | |
| `RequestIsMoved` | `[]MovesTheRequest` | `XdmaDescProofs` | |
| `DescriptorsAlwaysFit` | `[]DescriptorsFit` | `XdmaDescProofs` | |
| `FetchesStayInside` | `[]FetchesInside` | `XdmaDescProofs` | |
| `QueueHeadRuns` | `[]HwRunsTheHead` | `XdmaCallsProofs` | |
| `CompletedAfterMoved` | `[]CompletedWhenMoved` | `XdmaCallsProofs` | |
| `FramesAlwaysFresh` | `[]FramesFresh` | `V4l2DmaCameraProofs` | |
| `RingOutlivesDma` | `[]FreedOnlyWhenStopped` | `XdmaCyclicProofs` | |
| `CloseLeavesNothing` | `[]ClosedMeansClean` | `XdmaCyclicProofs` | |
| `ServiceAlwaysSafe` | `[]ServiceSafe` | `XdmaCyclicProofs` | |
| `LockAlwaysReturned` | `[]LockReturnedAlone` | `XdmaCyclicProofs` | |
| `StopAlwaysSeesTransfer` | `[]StopSeesTransfer` | `XdmaCyclicProofs` | |

`TypeOK` is not inductive: `Head(transfer_list)` is a transfer only when the list
is not empty where the service reads it, and `desc_num` bounds the hardware's
count only while the hardware runs a transfer that was made. `TypeInv` adds that:
`ListInv` (what is queued was created), `HwInv`, `SvcInv` (the queue is not empty
at `final` and `dequeue`) and `LockInv` (the service is idle exactly when the lock
is free).

`IrqInv` adds to `InterruptsComeBack` that under MSI-X the value saved by the
handler is "enabled" until the work item has written it back, which is why saving
the mask after masking it (the mutant) would lose the interrupt.

For `SuccessAlwaysMeansMoved` and `NeverBug` the argument is: the service compares a count with the length
of the first transfer in the queue, so the count must be of *that* transfer, in
*this* run. `Safe` says why it is. `PhaseInv`: the hardware, its interrupt, the
work item and the service take turns, so nothing runs while it is being counted.
`RunInv`: the run going on or being served is that of the head of the queue, with
nothing of it dequeued; hence the loop of `engine_service_transfer_list` never
takes a transfer (lemma `NothingToSkip`) and never reaches its `BUG_ON`.
`QueueInv`: nothing that was reported is in the queue, so a restart never
executes it again. `DoneInv`: what is `COMPLETED` or reported was executed to its
end. Each part was first checked as an invariant by TLC. Poll mode is excluded for a reason: there
`SuccessMeansMoved` is false (section 5).

`XdmaEngineOrder` goes on from there. `IdleInv`, which holds in every mode: an engine
not marked `running` has an empty queue and a clear write-back word, or a service
is on its way to restart it (`Closing`), and an engine that executes something has a
clear word. The word, and not just the queue, is in it because a
restarted engine must not be counted by what its last run left. "Clear" allows for the
count of a run that was stopped before it ended (`hw_late`), which may come at any
time in poll mode; the interrupt-driven service stops no engine that is executing
(`hw_left = NoLeft` in `PhaseInv`). `ServedInv`: an engine marked
`running` is busy or has something to report, or is just being shut down on the status
that was read. It needs `~Signals`: only a thread whose wait was cut short reads
the status without the engine's lock, and its late store is what makes the property
false (section 5).

"No failure without an error" is four invariants, because the status that a failure is
read from passes through four hands. `AllocInv`: a transfer is
unallocated exactly until its thread creates it, so that a new one is never one the engine has.
`StatusInv`: no status tells of an error, and what is being served ran to the end of
its list. `SubmittedInv`: what is queued is `SUBMITTED`, but for the first while
it is being completed. `MovedInv`: of a transfer that waits for its run nothing was moved. All are
conditional on `hw_errors = 0` (`NoErrorInv`), so that they stay invariants when errors come, and
`NoSpuriousFailure` is proved with errors allowed. `NeverDmaAfterFree` needs
`HwErrors = 0` because after an error it is false: the failed transfer, still queued, is
freed and restarted.

The finding of `engine_window` is a thread that looks at its transfer between the store of its state
and its removal from the list. Three theorems say that this is its only cause: they take the
system in which no thread looks then (`CloseWindow`). `UntouchedInv`: what the service is
completing is still `COMPLETED`, not freed, and it never met freed memory. Hence (`StillSubmitted`) what
is queued is `SUBMITTED`, unless it is being completed, and a thread that takes its result
has a transfer nobody uses (`OthersAreTakenOff`). `TakenOffTheEngine` says it of the state
before, and so needs `~Signals`: a thread whose wait a signal has cut short may stand there while
its transfer is being completed.

`EngineIsFifo` maps the state to the queue without a transfer already reported (`Unreported`)
and to the phase of each transfer (`Phases`). One lemma for each step of
`XdmaFifo` (`SubmitStep`, `ExecuteStep`, `ReportStep`) takes the actions that can be it; all others
leave both alone (`FifoStep`), mostly by lemma `SamePhases`: a step that changes neither `state` nor
`moved`, for the transfers that are there, changes no phase. The liveness part, `Fifo!Served`, stays with TLC.

`XdmaRingProofs` is about a ring that is full at most once. `Base` holds in every mode,
overruns included: the types, who holds the lock (`LockInv`), that a page keeps its block for one
lap (`BufferInv`), and that a page whose result is there, or was taken, was filled
(`FilledInv`). The model has no counter of the blocks taken, only `rx_head` and
`rx_tail`, which are taken modulo the ring's size; so `Ring` says there *are* numbers
`h` and `t` of which these are the remainders, with the results of the blocks
`h + 1 .. produced` in place and no others (`Window`), and for each reader the block its
copying starts after (`base`; `Taken`, `Copied`). A step is proved by naming the numbers that hold after
it. That the numbers fit the ring follows with credits from `Credits`: with the
hardware, in the ring, and held by readers are together at most `InitCredits`. What readers hold is a
sum over them, which would need induction; it is written as the cardinality of the set of
pairs of a reader and one of its credits (`Held`), and the theorems on
finite sets do the rest. The lemmas on `%` (`ModInj`, `ModAdd`, `SlotApart`: blocks less than a lap apart
have different slots) are stated once.

`PacketsStayWhole` and `ReadsFollowPackets` add the block `g` after which the current packet
begins (`Stream`): a read has copied the run of blocks from `g`, none before the last of which ends a
packet, and it sees the end (`Packet`); in poll mode the service returns to it only
when the end is in the ring (`Poll`). `Undisturbed` has the conditions of `PacketsWhole`, each of
which is needed (section 5). The refinement is narrower, credits in interrupt mode: a read
of poll mode returns empty on an error of the service, which `XdmaPackets` has no step for.

`XdmaDeviceProofs` proves one inductive invariant of a device, `DeviceInv`. `HeldInv`: what is held
at each point of `probe()`, its unwinding and `remove()`. `PointerInv`: the pointers by which
the driver frees lead to what it holds; `create_interfaces` and `probe_engines` break
that when they fail, and these are the exceptions of `UnwindsOnce`. `HandlerInv` relates
`irq_user_count` and `irq_line`, by which `irq_teardown` decides, to the handlers that are
there; `SlotInv` the slot of `dev_present` to the number; `MadeInv` says what a
probe that goes on has made. An action changes the record of one device, so each is
shown on the record alone (`Sound`), field by field with `Keeps`, and `Goes` says what the action does
to what devices share. `EveryStep` and `DeviceStep` then lift that to all devices. Every exit to an
unwinding label is an alternative of its own. For `InstancesAreDistinct`, `NumberInv`: once the
module is loaded a device that owns a number has its bit of `dev_present` set, and alone. For
`SoleReaderServed`, `EventsInv`: processes are in a call only while the device is up, and
what a sole reader has seen of `events_irq` stays until it takes it.

`XdmaDescProofs` is about lists of any length, and needs no induction over them, because
`transfer_build` and the hardware take them entry by entry: what would be the hypothesis is
the invariant of their loops. What the descriptors are is said with a second list, `off`:
descriptor i begins `off[i]` units after the transfer does. `Tiles`: the pieces
follow one another, each lies in the buffer at consecutive bus addresses, and each is
short and aligned enough. `BuildAt`: `transfer_build` has tiled the buffer up to its block, which is
contiguous, and it is at the begin of a page or of the transfer; then either entry may be added to
the block, or the block is the next piece (`PieceTiles`). `BuildAt` is where the
descriptor limit comes from, too: a block that goes on is at most `MaxDescBytes - PageSize`,
and an entry without an IOMMU at most a page. `WaitAt`: the finished list tiles the
whole transfer; `HwAt`: what was moved is `off[hw.at]` and, in the ring, some number of whole laps, so
that the next descriptor moves the units that come next (`UnitMoved`), and what was fetched
ends in the page it began in (`AdjacentInside`, `FirstInside`). `LoopInv`: `transfer_data` goes on after
whole transfers, which keeps the cuts aligned. The arithmetic of `%` and `\div` by a
constant that is not a number (`OneQuotient`, `NextMultiple`, `ModAdd`, `BusAligned` and others) is in
lemmas of its own; the provers know nothing of it.

`QueueHeadRuns` needs no lock in `PERF_STOP`, which is what makes it worth proving:
the stop only writes registers. `HeadInv`: a busy engine is `running`, executes the
head of the queue, and has nothing to report or to be served. `RunInv`: an engine
that is `running` has a transfer, and one that is not has nothing to report, so that
no service comes for it. `ServiceInv`: a service that is due finds the engine
`running`, and one that has shut it down still finds a transfer, because its lock
keeps `transfer_queue` out (`Unlocked`) and only a service takes a transfer off the
queue. `QueueType` is what the queue and the phases range over. None of the three is
inductive without the others.

`CompletedAfterMoved` relates what `sg_aio_read_write` has sent, what waits in the queue and
what the service has told the iocb, each at its own pace. `RequestInv`: the transfers sent fill
the segments one after the other, and `last_in_request`, with its size, is on those that end one (`End`)
and on no others. `CallInv`: for some `k`, the transfers of the request that wait are
those after the k-th, in their order (`Waiting`), and the first `k` were executed and have
completed the segments that end among them (`Finished`). When the service takes a head that belongs to the
request, it is the next one (`HeadIsNext`), and it was executed: `StopInv` says that, as
long as a measurement is stopped only while it runs, `RUN` is cleared only under a measurement, so that an
asynchronous transfer ends by being executed or with an error, and then it stays on the queue.
The invariant holds for requests of any number of segments and says of them what the
code does, one completion for each in their order (lemma `CompletedInParts`); for a
request in one part (`InOnePart`) that is one completion with its whole size.
Sizes are summed as the cardinality of a set of pairs (`Bytes`), and the segments that have bytes are ranked
by how many are before them (`Nth`), so that no induction over a request's segments is
needed.

`FramesAlwaysFresh`: before the first cut handshake (`~dirty`), `HandshakeInv` ties
the phase of the process to the FPGA: it owes an answer exactly while the process
waits for one, and after `ClearDone` there is no capture and the frame memory holds
the current one. `ReadInv` says the same of the rows `read()` has copied, whatever it
leaves out, `SentInv` of the frame sent, `SettingsInv` that the settings are complete when a capture is
started.

The five theorems about `XdmaCyclic` rest on one inductive invariant, `Inv`.
`OwnerInv`: at most one process is between its `open()` and the end of its
`close()`, though the lock is released in between, because only it can clear
`rx_buffer`. `MemInv`: what is allocated is what `rx_transfer_cyclic` says.
`QueueInv`: `running` is true exactly while the queue has a transfer, and a
transfer left by an earlier owner stays at the head. `RunInv`, unless a signal
cuts a wait short: what is queued is the owner's, and he is neither before the
queueing nor at the freeing. `LockInv` says who holds the lock. `StopInv`:
without errors an engine that has the owner's transfer at the head is busy until
the owner clears `RUN`, so that no service takes the transfer before; and one
with an earlier transfer at the head never takes it, since that would be the
`BUG_ON`. This is why `StopSeesTransfer` holds after a signal, too, where
`FreedOnlyWhenStopped` does not. The type invariant of `XdmaCyclic` is part of
`Inv`, and so is proved instead of being a property of a run.

Left to TLC:

* what needs fairness: `EveryRequestReturns`, `CloseReturns`, `EveryIocbCompletes`,
  `MeasurementEnds`, `FramesKeepComing`, `EventWakes`, and the liveness parts of `ImplementsFifo` and
  `ImplementsPackets`, of which the safety parts are proved;
* the engine in poll mode beyond its types, `IdleMeansEmpty` and `FreshWriteback`:
  `SuccessMeansMoved`, on which the rest would build, is false there (section 5);
* `TakenOffTheEngine` and `RingUnderDma` as they stand, which the code does not keep.

## 7. Not modelled

See `PROJECT.json` for the reason per component. In the engine: the register
writes of `engine_start` (which transfer runs is what remains of them),
addresses and byte counts, `engine_service_perf`, `chain_transfers` (compiled
out) and the `ENGINE_SHUTDOWN_REQUEST` branches (no code sets the flag), and a
transfer of more than `WB_COUNT_MASK` descriptors in poll mode. In the ring: the
bytes of a page and `user_buffer_index` (two readers of one file also share that
offset), a failing `copy_to_user`, and the MSI-X mask, which is `XdmaEngine`'s.
A read interrupted between two blocks of a packet loses the blocks it has
consumed; no comment says what it should do, so `PacketsWhole` is stated for setups
without signals. In `XdmaCyclic`: readers (a file is not closed under a `read()`), and
what a second open does to the ring's indices before it is refused.

In `XdmaDevice`: removal while files are open (surprise removal, unbinding), a
nonzero module parameter `major`, the major numbers (no code gives a dynamic one
back), character devices whose nodes could not be made (`device_create` returns an
error pointer where `create_dev` looks for NULL), engine counts that only number
engines, and PCI settings that cannot fail. In `XdmaDesc`: pinning and unpinning of
pages, allocations that fail, and 64-bit addresses.

In `XdmaCalls`: poll mode, in which nothing services a transfer nobody waits for;
several threads issuing ioctls; `PERF_GET`, and what a measurement counts. Synchronous requests on the same
engine would behave as the asynchronous ones of one chunk. In `V4l2DmaCamera`: pixels,
and so the geometry within a row: the copy's guard multiplies the row by the frame's
height instead of its width and is never true of the sizes given, and `send_frame`
writes `real_width * real_width * 2` bytes. The frame that is sent has more rows
(`FRAME_HEIGHT`, 1558) than the FPGA's (`XDMA_FRAME_HEIGHT`, 1554); the rows past the
end of the buffer that was read are `Beyond`.

The test programs are straight-line command-line tools around one system call each;
the order in which `performance.c` issues its ioctls is in `XdmaCalls`. The SD_ACCEL
files (`xdma-bit.c`, `xdma-ioctl.c`) are compiled out.

## 8. Plan

Done: every module of section 2, and theorems on every safety invariant that a passing run
checks, on the safety of both refinements, and on the cause of the finding of
`engine_window`. What remains, in this order:

1. `XdmaDevice` with files that are open during a removal.
2. `XdmaChain`: the engine with `CHAIN_MULTIPLE_TRANSFERS`, and the SD_ACCEL AXI
   gate, both compiled out today.
