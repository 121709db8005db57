# XDMA driver: specifications, model checking and proofs

The repository holds a Windows driver for the Xilinx DMA subsystem for PCI
Express (XDMA), an unfinished port of it to an Altera core (ADMA), an AVStream
capture driver for an Altera card (avsadma) and sample applications. This
directory holds TLA+ modules for the parts of the three drivers where
processors, the card and the applications meet, the TLC configurations that
check them, and proofs that TLAPS checks.

## 1. The system

An application opens a device node (`h2c_0`, `c2h_1`, `event_3`, `user`, ...)
and reads or writes it. The driver (`sys/`) turns that into work for an engine
of the card through `libxdma/`.

| Component | Code | State it keeps | Operations | What is hard | What makes it correct |
|---|---|---|---|---|---|
| Streaming ring | `dma_engine.c` 560-860, 907-940; `file_io.c` 137-165, 184-193, 639-662 | list of descriptors and results, `head`, `tail`, event, credits | setup, teardown, completion work, poll, copy to a read | card, DPC and reader share it; the reader works on copies without the lock | a bounded FIFO; credits conserved; no completion unannounced |
| Transfers | `dma_engine.c` 111-205, 407-537, 880-905; `file_io.c` 351-391, 539-677 | request queue, DMA transaction, descriptor buffer, poll writeback | read, write, program DMA, completion work, cancel | completion against cancellation; split transactions; failing calls | success only when all was moved; each request completed once, and in the end |
| Interrupts | `interrupt.c` 309-525 | enable registers, pending masks | service routines, DPCs, D0 entry and exit | mask shared between lock and no lock; DPCs overlap | a masked source is unmasked again; engines are served |
| User events | `file_io.c` 691-758, `interrupt.c` 476-525 | a kernel event per source | pulse, read with timeout | a pulse has no memory | a held event is seen; reads end |
| Descriptor blocks | `dma_engine.c` 231-280 | adjacent counts | compute the counts | three limits, each with its minus one | no fetch leaves its page, request or list |
| Device start and stop | `device.c`, `driver.c` 210-320, `dma_engine.c` 282-355, 498-525 | BARs, engines, queues | open, close, probe | partial failure; what an earlier start left behind | what may be opened is complete; what was mapped is unmapped |
| Interrupt resources | `interrupt.c` 50-307, 529-558 | vector registers, interrupt objects | single, multi-message, MSI-X setup | vectors, bits and handles are numbered in different ways | every source reaches its handler |
| Files and controls | `file_io.c` 94-193, 301-537 | per-file context | open, dispatch, device controls, cleanup | files outlive the start they were opened in | a request uses what is there |
| Port: transfers | `ADMA_Driver/file_io.c` 304-428, 576-714; `adma_engine.c` 125-205, 449-584 | two queues, one dispatcher, one translation entry | read, write, program, cancel | both directions write the same registers at a time; a cancel stops nothing; completion is compiled out | a descriptor is of one element; data goes where its request is; a cancelled request ends |
| Port: device | `ADMA_Driver/driver.c`, `adevice.c`, `ainterrupt.c`, `adma_engine.c` 323-397, 586-685; `ADMA_Driver/file_io.c` 46-302, 430-574 | BARs, engines, interrupt objects, queues, files | open, close, service routines, controls | fixed BAR numbers; handles kept over starts; registers never set | everything that has started is of this start; no routine without its engine |
| Capture device and pins | `avsadma/device.cpp`, `avsadma/capture.cpp` | registers, common buffer, resource count, sink; pin state, format | PnP start and stop, acquire, run, pause, stop, service routine, process, formats | service routine against state changes; failures not looked at; sizes in 32 bits | one pin has the hardware; what stops is released; formats fit |

How they interact: the default queue hands engine requests on to one sequential
queue per engine; its callbacks program the engine. The card raises the
engine's interrupt (or, in poll mode, writes a count to memory). The service
routine masks the source and queues a DPC, the DPC runs the work function of
the engine (`EngineProcessTransfer` or `EngineProcessRing`) or of the user
event (`HandleUserEvent`), then unmasks. Nothing but the ring's spin lock and
the interrupt lock orders these; most of the shared state has no lock.

The port (`libadma/`, `ADMA_Driver/`) has the same structure with most of the
work functions compiled out: what is left programs the card. In avsadma the
filter's pin claims the one set of hardware resources, starts the card, and is
asked to process by the service routine whenever a frame is in the common
buffer.

The hazards of this structure are listed, each at its line and with the
properties that watch it, under "hazards" in PROJECT.json.

## 2. Modules

| Module | Models | Used by |
|---|---|---|
| `BlockFifo` | what the streaming ring promises: a bounded FIFO of blocks | `XdmaRing` (refinement) |
| `DmaQueue` | what the queues of an engine promise the applications: requests served one by one, each element moved once and in order | `XdmaTransfer`, `AdmaTransfer` (refinement) |
| `SourceInterrupt` | what the code of one source counts on of an interrupt of its own | `XdmaIrq` delivers it; `XdmaRing`, `XdmaTransfer`, `XdmaUserEvent` use it (refinements) |
| `XdmaRing` | the ring: card, interrupt, completion work, reader, open and close | `MCRing`, `XdmaRingProofs` |
| `XdmaTransfer` | one memory-mapped or host-to-card engine and its queue | `MCTransfer`, `XdmaTransferProofs` |
| `XdmaIrq` | interrupt delivery for all sources, shared or vectored | `MCIrq`, `XdmaIrqProofs` |
| `XdmaUserEvent` | user events from card to application | `MCUserEvent`, `XdmaIrqProofs` |
| `XdmaDescriptors` | the adjacent counts and the engine's block fetches | `MCDescriptors`, `XdmaDescriptorsProofs` |
| `XdmaDevice` | start, stop and removal of the device, its interrupts and engines, its files | `MCDevice`, `XdmaDeviceProofs` |
| `AdmaTransfer` | both engines of the port, their queues and the dispatcher they share | `MCAdmaTransfer`, `AdmaTransferProofs` |
| `AdmaDevice` | start and stop of the port's device, its interrupt objects and routines, its files | `MCAdmaDevice`, `AdmaDeviceProofs` |
| `AvsFormat` | the formats the capture pin offers and takes, in words of limited width | `AvsCapture` |
| `AvsCapture` | the capture device, its pins and its service routine | `MCAvsCapture`, `AvsCaptureProofs` |

`MC*.tla` give the constants values. `<module>Proofs` holds the theorems about
`<module>` for every value of its constants; those about `XdmaUserEvent` are in
`XdmaIrqProofs`, whose registers and DPCs it shares.

Three modules are specifications of what, not of how. `BlockFifo` and `DmaQueue`
are what an application is promised. `SourceInterrupt` is what two parts of the
driver agree on: `XdmaRing`, `XdmaTransfer` and `XdmaUserEvent` each model their
interrupt with a flag for each of requested, enabled and queued, and take for
granted that a DPC runs once at a time and enables what it was queued for. That
`XdmaIrq`, with all sources, processors and power transitions, gives each vector
of its own just that, and that each user stays within it, are refinements of the
same module. All three have a flag `broken` for what the code has no defence
against: from there on `BlockFifo` and `DmaQueue` allow anything, `SourceInterrupt`
while it lasts.

How state and actions correspond to the code: variables carry the names of the
fields and locals they stand for (`head`, `tail`, `txn` for `dmaTransaction`,
`en` for the interrupt enable registers, `proc`/`cb`/`rd`/`dpc` for where a
routine is). A routine that others can interleave with is one action per access
to shared state, named for what it does (`ProcessRingScan`, `Snapshot`,
`CheckHead`, `ClearEvent`, ...); one that holds a lock, or touches private state
only, is one action. "map" in PROJECT.json gives the lines of every definition.
Definitions introduced by a "Mutant:" comment are plausible mistakes; no
specification uses them, they show that a property can fail.

### XdmaRing

The card fills blocks while it has credits, and cannot be asked to wait. The
completion work marks results processed and publishes `tail`; the reader takes
a snapshot of `head` and `tail`, copies block by block, clears lengths and the
event, publishes `head` and returns the credits. In poll mode the reader runs
the completion work itself. Data is the number of the block, so that loss,
duplication and reordering show.

An application may open and close the node at any step of anything else (at most
two handles at a time, a bound). A close stops the engine and waits for nothing:
the reader and the completion work run on, and the descriptor the engine was at
may still be written (`late`, `HwFillLate`). An open looks at nothing either:
`LeftBehind` says what of the last use it would go on with. The history variable
`disturbed` records what the driver has no defence against: a result written after
the clearing (`dma_engine.c:774-776`); a second handle, or an open that finds
something left behind (`sys/file_io.c:152-163`); an interrupt while its DPC runs,
which such an open makes possible. Until then the ring is a FIFO, through closes
at any step and opens over a DPC that is queued or has not moved on. Afterwards
only types, the mask of the channel (`ChannelArmed`) and the end of each read
are claimed.

Assumptions. A late result is written at once, not torn between its stores, and
of two DPCs at a time, which only a disturbed ring can have, the second starts
when the first has ended.

### XdmaTransfer

One engine, its sequential queue and the DMA transaction. Applications submit
and cancel; any framework call that can fail may fail; the engine may stop on
an error at any time. A transaction is cut by the framework into parts
(`Layouts`). After a part the framework may find itself unable to go on: it ends
the transaction with an error status, which the code overwrites
(`DmaCompletedFails`, `cut`), and the request ends with success. `bytes` is what it
then reports. A second move of an element is recorded (`repeated`), so that it
cannot pass for a step that does nothing. The framework's verifier is part of the model: completing a request
twice or while it is cancelable, or advancing a transaction that is not under
way, stops the system (`bugcheck`), and the model with it (hence
`CHECK_DEADLOCK FALSE`, which also allows for requests used up and for polls
that never end).

The history variable `disturbed` records four events the driver has no defence
against: a cancellation while a completion is reported or being processed (or
the engine is polled); completing a request whose cancellation is claimed; a
last descriptor that completes after the stop; and an open that changes the
channel's mask. Properties say what holds while none of them happened. They
are real, and the hazard list has them; what follows a disturbance is anything
up to a bugcheck.

### XdmaIrq

`src` is what the card requests, `en` the enable registers, `pending` the two
masks in the shared interrupt's context. Service routines and the last step of
the DPC hold the interrupt lock and are atomic; the rest of a DPC is one step
per source it looks at and two around the work function. `cpus` is a subset of
`Processors`: on one processor a requested interrupt preempts the DPC, on two a
DPC that was queued again runs twice at a time. `ImplementsVectors` leaves the shared
interrupt out, where that happens. D0 exit disables first and
disconnects; the framework lets queued DPCs run out before the next entry.
Requests of an engine begin and end (`reqs`): the work of one that has none
returns before the status register is cleared (`dma_engine.c:126-130`), its source
stays asserted, and the interrupt comes again as soon as it is unmasked.
`Streams` are the engines whose work always clears it.

### XdmaUserEvent

`KePulseEvent` wakes whoever waits and leaves the event clear, so the event has
no variable. `held` chooses between the two kinds of user logic: one asserts an
event until the application has seen it, the other only until its interrupt was
taken. A wait times out only when no interrupt for it is requested, queued or
running: three seconds are longer than that.

### XdmaDescriptors

Addresses are counted in descriptors, for the buffer is aligned to them (a
common buffer starts on a page boundary). A last descriptor's next address is
zero in the code and here. The recursion over the list is a recursive function.

### XdmaDevice

One device object from its first start to its removal. Each step of
`EvtDevicePrepareHardware` that can fail is an action, so a start may end
anywhere. Pointers and handles carry the number of the start that made them:
using one whose start is over is a `fault` and stops the model (with
`CHECK_DEADLOCK FALSE`, which a removed device needs too). A read, write or
control that uses what is there changes nothing of the driver here, so only the
faulting ones are actions, an offset past the end of a BAR among them (nothing
checks it); what requests do to engines is in the modules above.
`Served` follows an interrupt from the engine's bit (the card numbers the
engines it has) over the vector register to the object and its engine.

Assumptions. The framework presents opens and requests to a started device only,
and cleanups at any time; it deletes the interrupt objects after the release; a
device that failed to start is removed. While the device is stopped the card
may be given other engines but keeps its BARs.

### AdmaTransfer

A program of the card is modelled register by register, for the callbacks of the
two queues run in parallel (the profile is duplex) and both engines have the
same descriptor registers. A register holds the element it was written for, so a
descriptor made of two elements shows. The length of a list and the windows of
its elements come from `Loads`; an element that crosses from one window into the
next has a part in each (`Parts`). The data of a move goes through the
translation table as it is then (`Reached`). Which entry an address selects
depends on the direction (`EntryOf`): from the device the upper bits are masked
away (`adma_engine.c:545`), so that only how far into the element a part lies
counts; to the device the address is written as it is (539), and its own upper
bits, the constant `Entry`, select. Only entry 0 is ever set. `EngineStop` and
`EngineProcessTransfer` are in the model as what is left of them: nothing.

Histories record what the code has no defence against: both callbacks writing
registers at a time (`overlapped`), the entry written again while descriptors of
an earlier request are under way (`retabled`). The framework's rules are part of
the model, as in `XdmaTransfer`.

Assumptions. The framework cuts a transaction to what fits, so one program is
one list. A callback of one queue excludes `EvtCancelDma` of the same queue
(its synchronization scope), not those of the other queue.

### AdmaDevice

`XdmaDevice` for the port, and with its interrupt routines. BARs have fixed
numbers, one that is not mapped keeps its place, a large one is mapped by its
first 64 KB, and there are six at most, as a device has (the driver has as many
places and does not check); both engines are created without a probe. In the order of the code:
engines, interrupt objects, binding. With message interrupts nothing sets the
global enable but an application, through the control file (`EnableByFile`).
DPCs may be queued when the device is stopped and run afterwards; the framework
has them run before the interrupt objects go. Of a request the model has what it
uses and whether its offset leaves the BAR, not its data.

Assumptions. As for `XdmaDevice`. The card interrupts only while the global
enable is set; user interrupts are not masked by it.

### AvsFormat and AvsCapture

`AvsFormat` is arithmetic: a format is the fields the checks look at, and words
have `WordSize` values, so a product that does not fit wraps around.
`Accepted` is what a pin is created with or set to: formats of the
applications' own or from an intersection, that pass the check.

`AvsCapture` is built from `PnpStart` in its five steps, whose results are
partly not looked at, the pins with their states, and the service routine in two
steps, the read of the status and the use of the sink: a pin may stop the
hardware in between on another processor. Claiming and releasing the resources
are two steps each (the exchange, the sink). Undefined behaviour is a choice:
the copy of a frame to the address of a local pointer may stop the system or
not, and so may reading a header that was freed. The stop of the device does not
disconnect its interrupt: a message on its way comes to a stopped device.

Assumptions. AVStream serialises the calls of one pin, takes it through its
states one by one, processes it only while it runs, and stops the device when all
pins are closed. A shared line
may call the service routine at any time after it was connected.

## 3. Runs

| Run | Instance | States | Shows |
|---|---|---|---|
| `ring` | 3 blocks of 2 units, reads of 1 and 3, 4 blocks filled, 2 tries | 1333k | the ring implements `BlockFifo` (`ImplementsFifo`); `CreditBalance`, `NoOverrun`, `NoSilentCompletion`; every read ends, also in a disturbed ring |
| `transfer` | 2 requests, one part of 2 elements or two of 1 | 789k | the engine with its queue implements `DmaQueue` (`ImplementsQueue`); `NoBugcheck`, `StoppedIsReported`, `OrphansExplained`; every request ends |
| `irq` | an engine with requests, one with a stream, 1 user event, 1 or 2 processors, shared or vectored | 518k | `MaskedIsOwed`; each vector implements `SourceInterrupt` (`ImplementsVectors`); an engine is served unless its work finds no request |
| `user_event` | 2 events, 2 readers | 31k | a held event is seen, reads end |
| `device` | 2 starts, 2 channels a direction, 3 designs with gaps, line, MSI or MSI-X, 1 file | 92k | `InterruptsServed`, `StoppedIsUnmapped`, `EnabledIsComplete`; every fault is one of those named in `FaultsExplained` |
| `descriptors` | page of 16, requests of 4, 8, 16, up to 48 descriptors, all offsets | 17k | each fetch keeps to its three limits (`FetchWithinLimits`) |
| `adma_transfer` | 2 requests on the same or on two engines, a list of 2 elements in one window, or in two with one that crosses, against a list of 1; 2 entries | 95k | both queues implement `DmaQueue` (`ImplementsQueues`); `DescriptorsWhole`, `WindowsExplained`, `EndsExplained`; a request that is asked to end ends |
| `adma_device` | 2 starts, 6 layouts of BARs, line, MSI or MSI-X, 1 user interrupt, 2 files | 46k | `StartedIsBound`; every fault is one of those named in `FaultsExplained` |
| `avs_capture` | 2 pins, 2 starts, 2 layouts of BARs, message, line and shared interrupts, 8 formats, words of 8 bits | 2688k | `OneStream`, `FormatsCovered`, `StoppedIsReleased`, `FaultsExplained` |

More properties hold on the instances of these runs, and are theorems, but no
run spends its time on them: `SuccessIsComplete` and `NoTransferAfterEnd`, which
`ImplementsQueue` says and more; `WorkIsExclusive`, which `ImplementsVectors` says
of a vector; `ImplementsInterrupt` of `XdmaTransfer` and `XdmaRing` and
`ImplementsVectors` of `XdmaUserEvent`, whose other side is checked in `irq`.

Bounds and why they are enough. Three blocks are the least that tell a full
ring from an empty one and leave a block between; four fills wrap around and
begin again. A disturbed ring is followed for fewer fills (`DisturbedBriefly`), one
of the card's or a late one, and two where the reader polls, for polling is what
has no timeout: most of what is claimed ends there, and that reads end does not
depend on how often they found something before. No step of the reader leads out
of this bound. Two handles are the least that overlap. Reads of 1 cut a block, reads of 3 take more than one. Two
requests let a late event of the first meet the second; two parts are a split;
two elements are the least with a first and a last one. Two engines and an
event are the least in which a DPC works for one source while the mask changes
for another of the same and of the other kind, and in which one is served with and one
without a request. A page of 16 with requests that
divide it is the code's page of 128 with requests of 4 to 128, scaled; all
offsets and three pages meet every combination of limits. Two starts are the
least in which something can be left behind; two vectors to a register
(`RegWidth`, 4 in the code) tell the first field from another; the designs have
an engine missing before, between and after others.
Two requests are the least with which two callbacks program, or a program meets
descriptors of the request before; of the lists one is in one window, one spans
two and has an element that crosses; with two entries and an address that selects
the other each of the ways to miss the window occurs. Two pins are the least that contend; the formats have a picture that
overflows, one too large for its size, and one of each kind the driver can
and cannot synthesize; three BARs have two of a kind.
Every bound is a constant: `MaxBlocks`, `MaxTries` (the code's is 100000),
`NumRequests`, `MaxDescs`, `MaxStarts`; an engine has two handles at most in
`XdmaRing`; `opened` lets an open find an engine masked once.

Fairness and why the code justifies it. Requested and unmasked interrupts are
delivered, queued DPCs run and started routines go on: hardware and the
kernel's scheduler do that. The reader's wait carries its own timeout. Strong
fairness is assumed twice: DPCs are taken in turn from the processor's queue,
so one that is queued again and again is taken (`XdmaIrq`), and the application
of `exe/user_event` reads in a loop (`XdmaUserEvent`). The card owes nothing
in `XdmaRing`; in `XdmaTransfer` an engine that was started ends or fails. In
`AdmaTransfer` callbacks that are due are called and go on, and the card works
off what it was given; nobody has to make or cancel a request. In `AvsCapture`
the card goes on capturing, interrupts that have come are served and pins that
were asked to process do.
`RequestEnds` is stated for interrupt mode, because polling has no limit
(`dma_engine.c:886`).

### Where the code and what it says of itself part

Three runs expect a violation; the findings quote the lines.

| Run | What happens |
|---|---|
| `ring_packet` | the reader sees an empty head, a packet completes and sets the event, the reader clears it: the packet waits with the event clear until the next one |
| `adma_completes` | the port never completes a request the card has served, though the comment says `EvtIoReadDma` does |
| `avs_frames` | the service routine writes the interrupt bit back as zero where a one clears it: the bit stays set, and with message interrupts the first frame is the last one announced |

Six more are stated in the modules, each by a property that TLC refutes when a
configuration with the constants of the passing run names it as an invariant:

| Property | What happens |
|---|---|
| `OverflowIsSignalled` in `XdmaRing` | a ring whose credits run out inside a packet never sets the event, though the comment at `dma_engine.c:664` says so |
| `CutIsNoSuccess` in `XdmaTransfer` | a split request the framework cannot go on with ends with success and part of its data: `dma_engine.c:140` takes the status, 148 and 152 overwrite it |
| `PollErrorCompletes` in `XdmaTransfer` | a writeback error ends the poll with the request neither completed nor released, though the comment at `sys/file_io.c:578` says so |
| `SplitKeepsDescriptors` in `XdmaTransfer` | the completion work wipes the descriptors of the part it has just started (`dma_engine.c:176`) |
| `DisabledMeansAll` in `XdmaIrq` | a DPC still running at D0 exit unmasks after "disabled ALL interrupts" (`interrupt.c:329`, 408) |
| `SharedVector` in `XdmaDevice` | with a line interrupt on pin B, C or D only the first source of each vector register is routed to it, the others to pin A (`interrupt.c:175-177`) |

What a disturbed ring loses shows when `~disturbed` is left out of `NoOverrun`: TLC
refutes it by a trace of five states. A file is opened, closed and opened again, and the descriptor
the engine was at when it was stopped is written in between: the result lies where
the engine has credit, and the completion work takes it for a new one. What the
driver would have to do is to wait for the engine to be idle before it clears
the results.

Two more are visible in the models without a run of their own: a read of an idle
stream ends after three seconds (or after the tries) without data
(`WaitTimeout`, `PollFinish`), where `src/README.md:196` says it blocks; and a
pulse between two reads of an event file is lost if the user logic then
withdraws the event (`EvtUserInterruptDpc` in `XdmaUserEvent`).

`FaultsExplained` names what a device can run into, without calling it wrong. In
`XdmaDevice`: a file that stays open across a stop keeps the pointer of its BAR; the cleanup of
a streaming file stops an engine whose registers may be unmapped by then; a start
that gets fewer interrupts than the one before binds its engines to deleted
objects; a device control on a file other than an engine's follows a null queue;
a failing `WdfInterruptCreate` or parameters key is used all the same; the
application's own offset leads past the end of a BAR (`sys/file_io.c:233`, 275).
In `AdmaDevice`: the same for files, offsets, handles, interrupts and controls; registers beyond the
64 KB that are mapped; a BAR that is missing or could not be mapped; and the
performance and address mode requests, whose register pointer is never set. In
`AvsCapture`: registers used when no BAR was mapped, by a service routine on a
shared line before or after the device runs, or by a message that comes after the
stop; the sink when the hardware was
stopped since the status was read; a pin without a header, or with a freed one,
after a format could not be copied; and the copy of a frame over the local
pointer to it.

## 4. Proofs

Every safety property and every refinement of the runs is a theorem of the
specification, for every value of the constants that the named assumption of the
module admits. Each `Proofs` module has the same plan: an inductive invariant
whose conjuncts are named for what they say, a lemma that the initial states
satisfy it, one step lemma per action or group of like actions, and theorems
that read the properties off it. TLC checked each invariant with the constants
of the module's run before it was proved.

| Module | Theorems | Invariant | Why the properties alone are not inductive |
|---|---|---|---|
| `XdmaRingProofs` | `TypeCorrect`, `CreditsBalance`, `NeverOverrun`, `NeverSilent`, `RingImplementsFifo`, `RingImplementsInterrupt` | `RingInv` | see below |
| `XdmaTransferProofs` | `TypeCorrect`, `SuccessComplete`, `NeverCompletedTwice`, `NothingAfterEnd`, `StopReported`, `OrphansHaveReason`, `TransferImplementsQueue`, `TransferImplementsInterrupt` | `TransferInv`, `QueueInv` | see below |
| `XdmaIrqProofs` | `TypeCorrect`, `MaskedAreOwed`, `WorkExclusive`, `IrqImplementsVectors`; `EventTypeCorrect`, `EventsOwed`, `EventsImplementVectors` for `XdmaUserEvent` | `IrqInv`, `EventInv` | that work is exclusive needs that a source with a vector of its own is enabled, queued or served, and only one of these (`ServedOnce`) |
| `XdmaDescriptorsProofs` | `TypeCorrect`, `FetchesWithinLimits` | `FetchInv` | the engine fetches what the counts written before say: these have to fit at every index (`CountsFit`) |
| `XdmaDeviceProofs` | `TypeCorrect`, `StoppedUnmaps`, `EnabledComplete`, `InterruptsReachHandlers`, `FaultsHaveCauses` | `DeviceInv` | which BARs are mapped, which vectors set and which engines probed at each step of a start, so that a failure there is undone |
| `AdmaTransferProofs` | `TypeCorrect`, `WholeUnlessOverlapped`, `WindowsKnown`, `EndsHaveReasons`, `PortImplementsQueues` | `AdmaInv`, `QueuesInv` | which element each register holds at each step of the programming, and which requests the card may have descriptors of |
| `AdmaDeviceProofs` | `TypeCorrect`, `StartedBound`, `FaultsHaveCauses` | `DeviceInv` | handles and engines carry the start that made them, through a start that may end anywhere |
| `AvsCaptureProofs` | `TypeCorrect`, `OneStreamOnly`, `FormatsAlwaysCovered`, `FaultsHaveCauses`, `StoppedReleases` | `CaptureInv` | claim and release take two steps each, and the service routine goes on with what it read before a stop (`SinkKept`, `CardMapped`) |

Assumptions on the constants, beside counts being natural numbers:

- the ring: two blocks at least, each of one unit at least. Nothing is assumed of
  the applications; what holds only until the ring is disturbed (section 2) says
  so itself;
- `XdmaTransfer`: a part fits into the descriptor buffer and is not empty (the
  buffer is made for the length the framework is told to cut to,
  `dma_engine.c:65`, `device.c:237`);
- `XdmaIrq`: the order in which the shared DPC looks at the sources names each
  once, as its two loops do; finitely many processors;
- `XdmaDescriptors`: a read request holds two descriptors at least (the smallest
  PCI Express has is 128 bytes, four of them);
- `XdmaDevice`: one to three BARs (the core has three at most, the driver has as many
  places and does not check), the kinds of interrupt there are;
- `AdmaDevice`: six BARs at most;
- `AdmaTransfer`: lists are not empty;
- `AvsFormat`: the sizes in a data range are `LONG`s, so they fit into a word.

### The ring

That a slot the card may write is free follows from the order of five positions
around the ring, counted from the published head: the reader's, its copy of the
tail, the tail, the scan's, the card's (`PositionsOrdered`), and from results being
marked exactly between the card and whoever handles them next (`ResultsMarked`).
`CreditBalance` turns the credits into the distance of the first position from the
last, so a card with credit is at most one short of the head. Teardown breaks the
order at once, so the invariant says instead that a closed ring is empty
(`ClosedRingEmpty`): a DPC or a reader that runs on finds nothing, and what it still
publishes is position zero, or else the next open finds it (`LeftBehind`) and the
ring is disturbed. `ChannelArmed` (a masked channel has its DPC queued or running)
and `RequestRaised` (what a finished scan left behind has requested again) give
`NoSilentCompletion`; in poll mode `PollerAlone` keeps the DPC out. Types,
`ChannelArmed` and `PollerAlone` hold of a disturbed ring too. The lemmas on `EngineRingAdvance` and `Dist` carry the arithmetic of the
wrap-around.

`RingImplementsFifo` proves the refinement, up to what disturbs it: a block the card fills is a `Produce`,
a block copied away a `Consume`, a teardown a `Drop`, and every other step
leaves the sequence `Waiting` as it is. `WaitingBySlot` says which slot each
member of that sequence is in; the invariant gives that the slot the card
writes is the one after the last and the reader's the first.

### Transfers

Everything proved of an undisturbed transfer rests on `Calm`, which says of each
place of the callback and of the completion work whose the transaction is, what
the engine and the poll writeback can have, which descriptors are written, and
which parts have been moved. Its conjuncts depend on each other: that the status read is
that of the current part needs the interrupt to be masked until the DPC ends,
which needs the transaction to be the callback's until the engine is started.
Nothing of it is claimed after a disturbance; `TypeOK`, `Places`, `OneOwned` and
`ClaimedOnce` hold all the same.

`TransferImplementsQueue` reads a transfer as a step of `DmaQueue`: a call of
the callback is a `Serve`, an element the engine has moved a `Move`, a success
an `EndWell`, any other completion an `End`, a failing framework call after a part
a `Cut`, and a request that ends before the callback has it a `TurnAway`.
What `Calm` does not say is the order of the movements. `MovesOrderly` does: of a
request that was not executed nothing is moved, of one that was nothing beyond the
engine's place in the part under way, and the element in flight is the next of its
request. A cancelled transfer leaves its element in flight, so the last also holds
of a request that has ended.

### The queues of the port

`PortImplementsQueues` is the same theorem for two queues with one dispatcher. The
card works through what it was given in turn, so `CardOrderly` speaks of a line,
what was moved and then what the card holds: along it each element of a request
comes once and behind those before it in its list, and of a request that is being
programmed it has only elements before the one the program is at. It holds until
both callbacks write the registers at a time (`overlapped`), which is the one
thing that can put a foreign element into the line.

### Interrupts from delivery to use

`IrqImplementsVectors` follows from `ServedOnce`: with a vector of its own a source
is, in D0, enabled, queued or served, and one of these only; no step for
another source changes any of the three for it.
The users are proved to keep to the same module: `EventsImplementVectors` from
the like invariant of `XdmaUserEvent` (`EventOwed`), `TransferImplementsInterrupt`
from the part of `Calm` on the mask, `RingImplementsInterrupt` from `ChannelArmed`
and that only a polling reader polls (`ReaderPolls`). The last needs no undisturbed
ring: only from an open that enables the channel under its DPC until that has run
is nothing said. Together they justify the
flags in the modules of the engines for a channel with its own vector. They do not
cover the shared interrupt, on which a DPC may run for a source another DPC serves
(section 2, `XdmaIrq`), nor an open that unmasks a channel at work, which the
modules record (`opened`, `disturbed`).

### Block fetch

`NextAdjMax` is a recursive function. That it counts down modulo the size of a
request (`NextAdjMaxCountsDown`) is proved without an induction theorem: the closed
form satisfies the equation, so the function does; and where the two first differed,
a least natural (`LeastNatural`, from the well-foundedness of `<`), the
equation would contradict it. With the range of the count the invariant says that
the count at every index fits (`CountsFit`), and a fetch adds one of them.

### What the proofs changed

- `AdmaTransfer` kept one claimed request; with two requests of one queue a later
  claim overwrote an earlier one that was still due. It is a set now, and
  `EndsExplained` holds without an exception for overlapping callbacks.
- `AdmaDevice` had three places for BARs; the code has six
  (`ADMA_MAX_NUM_BARS`). Its `FaultsExplained` says which files it means.
- The proofs about `XdmaRing` once assumed that an application opens the node again
  only after the DPC of its last use has run. What they really need is that an open
  finds every position at zero, which is `LeftBehind`; a DPC that is queued, or
  running and not past the first slot, does no harm.
- The pointers in `AvsCapture` go as far as its list of BARs; they had a bound of
  their own. `FormatAssumption` states the range of widths and heights.

### Only model-checked

- Liveness: `ReadCompletes`, `RequestEnds`, `EngineIsServed`, `HeldEventIsSeen`,
  `ReadEnds`, `AskedEnds`. Fairness and `ENABLED` are out of this prover's reach.
- The expected violations, which are about an instance by nature.

## 5. Not modelled

- Data itself, alignment checks, logging, and the values
  of the performance counters and of the address mode (single register accesses;
  that a request for them uses what is there is in the device modules).
- avsadma for the Arria 10 (`Process`, `CompleteMappings`, the hardware
  simulation with its scatter/gather queue and its two DPCs). `hwsim.h:27`
  chooses the Cyclone IV, where none of it is called; with the other choice the
  service routines do not compile (`device.cpp:547-558` uses registers only the
  Cyclone IV has), and nothing queues the DPCs, for the lines that did are
  commented out (`device.cpp:561`, 617-623). There is no program to be faithful to.
- Image synthesis in avsadma: pictures nobody copies to a frame on that board.
- The port's streaming ring and polling (`adma_engine.c:693-1083`): the ring's
  entry points are compiled out or have no caller, poll mode is never set
  (`adevice.c:94`).
- The Linux sources kept in `libadma` (no project file builds them), and the
  sample applications other than `exe/user_event`.
- The reference clock of a pin, timestamps and frame counts.
- `WdfMemoryCopyFromBuffer` inside the ring copy cannot fail, for the loop keeps
  to the lengths it checks. `EvtCancelReadUserEvent` is never registered.

## 6. Plan

1. done: `XdmaRing` with `BlockFifo` and its proofs, `XdmaTransfer`, `XdmaIrq`,
   `XdmaUserEvent`, `XdmaDescriptors`.
2. done: `XdmaDevice`: start and stop with partial failure, interrupt resources
   and vector routing, files and device controls.
3. done: `AdmaTransfer` and `AdmaDevice`, where the port differs.
4. done: `AvsFormat` and `AvsCapture`, the capture driver as it is built.
5. done: proofs of the safety properties of all modules, and of the refinement of
   `BlockFifo`.
6. done: `DmaQueue` and `SourceInterrupt`, and the proofs that the transfers, the
   port, the interrupts and their users implement them.
7. Next: the shared interrupt in the modules of the engines, where a second DPC may
   run the work of a source another DPC serves: a weaker `SourceInterrupt`, and what
   of the engines' properties holds with it.
8. Later: composition of `XdmaDevice` with the engines: a surprise removal under
   running transfers.
