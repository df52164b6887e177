# EDK2 for Exynos 7570/7885 in TLA+

`EXYNOS7885Pkg` is a UEFI platform package: the drivers and libraries that
bring a phone with an Exynos 7570 or 7885 from its stock bootloader to a UEFI
shell or boot manager. This project models the parts of it whose correctness
depends on order: what preempts what, what is polled when, what a device or a
user does between two steps.

Firmware of this kind runs one thread. What interleaves are *task priority
levels* (TPLs): code at `TPL_APPLICATION` is preempted by event notifications
at `TPL_CALLBACK`, these by notifications at `TPL_NOTIFY`; a driver protects
itself by raising the level. Everything in the models that looks like
concurrency is that, or the hardware.

1. [Inventory](#1-inventory)
2. [Plan](#2-plan)
3. [The models](#3-the-models)
4. [The runs](#4-the-runs)
5. [Fairness](#5-fairness)
6. [The proofs](#6-the-proofs)
7. [What the code does that its comments do not say](#7-what-the-code-does-that-its-comments-do-not-say)
8. [What is left out](#8-what-is-left-out)

Paths below are relative to `src/EXYNOS7885Pkg`. "Built" means that
`EXYNOS7885Pkg.dsc` or an include of it names the module; some drivers of the
tree are not built.

## 1. Inventory

### DwMmcHcDxe: SD and eMMC host controller (`Drivers/DwMmcHcDxe`, built)

*State.* Per controller (`DW_MMC_HC_PRIVATE_DATA`): one slot with its media
flag and card type, a list of asynchronous transfer requests (`DW_MMC_HC_TRB`)
and two periodic timers. In the controller: interrupt status (`RINTSTS`,
`IDSTS`), the descriptor list address (`DBADDR`), the FIFO.

*Operations.* Driver binding Start and Stop; `SD_MMC_PASS_THRU`: PassThru
(blocking and with an event), ResetDevice, GetNextSlot, BuildDevicePath;
`ProcessAsyncTaskList` at `TPL_NOTIFY`; `DwMmcHcEnumerateDevice` at
`TPL_CALLBACK`, which detects, resets and identifies cards with blocking
PassThru calls of its own; and the pure parts: clock divisor, DMA descriptor
table, FIFO word counts, bus mode selection.

*Interaction.* Clients hand it packets and events; a client's event may run a
notification that submits the next packet. `PlatformDwMmc` (a protocol no
module of the tree installs) says what the slot is. The card comes and goes.

*Hard.* The timer, the enumeration handler, a blocking call and Stop all touch
the queue; the TPL is dropped between a test and the action it guards; status
registers and `DBADDR` belong to the controller, not to a request; a command
waits for the card's data line without a limit, and between the clear of
`RINTSTS` and the command what is still on the bus may end.

*Correct when.* Every accepted request has its event signalled once and its
TRB freed once; requests are served in order; a request completes on its own
transfer; a blocking command has the controller to itself; a request does not
wait for ever; a stopped device can be started again.

### KeypadDxe: keypad as a text input device (`Drivers/KeypadDxe`, not built)

*State.* Two rings of keys, one for the readers and one for notifications; a
list of registered notification functions; four events; lock and shift flags.

*Operations.* Start, Stop; Reset, ReadKeyStroke(Ex), SetState,
RegisterKeyNotify, UnregisterKeyNotify; the 20 ms timer, which polls the
device; the notifications of WaitForKey(Ex), which also poll;
`KeyNotifyProcessHandler`, which calls the registered functions.

*Hard.* Every poll may push into both rings from inside another operation; the
handler walks the list with the level lowered, and the functions it calls may
read, reset, register and unregister; full rings; partial keys; Start and Stop
failing half-way.

*Correct when.* Readers see a queue that loses only its oldest keys; a key
queued for notification has a wake-up on its way; the node the walk stands on is
freed by nothing but what the function it calls does to that very entry;
notifications come in order; nothing refers to freed private data.

### KeypadDeviceImplLib and GenericKeypadDevice: pins to keys (not built)

*State.* Three `KEY_CONTEXT`s (state, time, repeat and long press flags) and
two bitmaps of the keys held down.

*Operations.* `KeypadDeviceImplGetKeys` samples the pins and advances each
context by the time since the last poll; Reset.

*Hard.* One time counter serves three thresholds; the buttons are sampled one
after another, so a combination is judged on what was seen of the others in
this poll or in the one before; polls may come late.

*Correct when.* A press of power is one key, which one depending on its
length; a press of a volume button is not lost; repeats keep their pace; a
button let go comes to rest.

### ConSplitterDxe: many consoles as one (`Drivers/ConSplitterDxe`, built)

*State.* Arrays of the physical text inputs, pointers and outputs behind the
virtual devices, each grown by a unit when it is full; the table that maps
virtual text modes to each device's; the common graphics modes; the queue and
the toggle state of the virtual keyboard; registered key notifications with one
handle per physical device.

*Operations.* Start and Stop per device class; add and delete a device, with
growth of the arrays and intersection or addition of modes; every text input,
pointer and output call, fanned out to the devices; key notification
registration, replayed on devices added later.

*Hard.* Devices are added and removed under registered notifications and
current modes; one of several devices fails in the middle of a fan-out; a
notification of a lock key changes all keyboards between two steps of SetState;
the same numbers index several tables of different lengths.

*Correct when.* Each virtual mode is supported by every active device at the
index the map says; the current mode survives additions and removals or is
reset on all; every registration exists on every device; no key and no movement
is reported twice or lost; an event that wakes a client means there is input.

### GraphicsConsoleDxe: text on a frame buffer (built)

*State.* Mode table, current mode, cursor position and visibility, attribute,
the line buffer. *Operations.* Start, Stop, Reset, OutputString with control
characters and scrolling, SetMode, SetCursorPosition, SetAttribute,
ClearScreen, EnableCursor. *Hard.* The cursor is drawn by inverting a cell, so
every way out must leave it drawn once; the graphics output has other clients.
*Correct when.* The cursor stays in the mode's rectangle, is drawn exactly while
visible and at its position, and each control character does what the protocol
says.

### FrameBufferSerialPortLib, InMemorySerialPortLib: debug output (built, and overridden)

*State.* A cursor and colours for each image that links the library, on one
frame buffer; a ring of characters in memory. *Operations.* Initialise, write,
put a character, wrap. *Hard.* One path of `FbConPutCharWithFactor` jumps over
the variable it restores the interrupt state from
(`FrameBufferSerialPortLib.c:146`, `176`, `182`), so a write may go on with
interrupts enabled and be interrupted by another. *Correct when.* Nothing is
written outside the buffer and no write leaves its state to the next.

### FrameBufferBltLib and SimpleFbDxe: graphics output (built)

*State.* Pixel layout, line buffer, mode. *Operations.* Configure, fill, copy
from, to and within the screen. *Hard.* Three ways to fill and two directions to
copy, chosen by width, alignment and addresses. *Correct when.* An accepted
rectangle gets what its source shows, and no other byte changes.

### PlatformBootManagerLib (built)

Registers consoles and boot options, connects devices, handles hotkeys; state
in variables. Straight-line policy with filters on handles.

### ButtonsDxe and ExynosButtonsLib (not built)

*State.* The buttons held at the last poll and those of the press going on; two
rings of keys, one for readers and one that a timer fills for notifications; the
list of notifications. *Operations.* Poll and conversion of a combination of
buttons, ReadKeyStroke(Ex), WaitForKey, Reset, registration. *Hard.* Whoever
asks polls, so the timer and the reader see the same press; Reset and the
registrations raise no level, so the timer may poll in the middle of them; a
combination is one key however its buttons come. *Correct when.* A press session
gives one key and a key found is read unless the ring ran over.

### PrePi, MemoryInitPeiLib, PlatformPeiLib, EXYNOS7885PkgLib (built)

Straight-line start-up: stack, memory map into HOBs and page tables, hand-over
to DXE. *Correct when.* The memory regions neither overlap nor leave gaps.

### DwcSdhciDxe with DwcSdhciPlatformLibNull or RkSdmmcPlatformLibNull (built)

An override protocol for the generic SDHCI driver: register initialisation,
capability patching, a polling loop for the delay line.

### Access and data

GpioDxe, RngDxe (and its test application), EXYNOS7885PkgDxe and ExynosLib
read and write registers and keep no state. LogoDxe, SmbiosPlatformDxe and
AcpiTables publish data once. BootShim is a jump in front of the image.

## 2. Plan

The order is by how much of a component's correctness lies in interleaving or
in long histories, and among equals by whether the driver is built.

| step | modules | what they add | state |
|---|---|---|---|
| 1 | `DwMmcHc`, `AsyncFifo`, `MCDwMmcHc`, `DwMmcHc_proofs` | request life cycle, TPL interleavings, hot plug, DMA and FIFO completion; the queue as an abstract FIFO | done |
| 2 | `KeyRing`, `KeyFifo`, `Keypad`, `MCKeypad`, `Keypad_proofs` | rings, notifications, polling, driver binding; the readers' ring as an abstract queue | done |
| 3 | `KeypadDevice`, `KeypadDevice_proofs` | gestures of three buttons over time | done |
| 4 | `ConSplitterIn`, `ConSplitterIn_proofs`, `ConSplitterKeys`, `ConSplitterPointer`, `ConSplitterOut`, `ConSplitterGop` | notifications replayed on new devices, toggle state, partial failures; key queue; pointers; mode map and intersection; virtual graphics output | done |
| 5 | `CardIdentification`, `CardIdentification_proofs`, `MmcTransfer`, `CardTransfers`, `MCFixedSlots` | command sequences of eMMC and SD with their retry loops against a card; transfers word by word and byte by byte, descriptor table and clock divisor | done |
| 6 | `GraphicsConsole`, `Terminal`, `GraphicsConsole_proofs`, `FrameBufferSerial`, `FrameBufferBlt`, `MCConsoleOut` | cursor, wrap and scroll against an abstract terminal; debug output under interrupts; rectangles byte by byte | done |
| 7 | `ButtonsDxe`, `InputDevices`, `InputDevices_proofs`, `MCConsoleIn` | the second driver with key rings; keys, pointers and buttons for any devices | done |
| 8 | `OutputDevices`, `OutputDevices_proofs` | the virtual text and graphics outputs for any devices, the debug output and the block transfers for every screen | done |
| 9 | a proof about `CardTransfers`, in `DwMmcHc_proofs` | bytes of every length, table and clock | done |

*Composition.* `Keypad` takes its ring operations from `KeyRing`. `InputDevices`
instantiates `ConSplitterKeys`, `ConSplitterPointer` and `ButtonsDxe` for
whatever devices there are, so that what is said of them there is what the run
checks and the theorems state; `OutputDevices` does the same with
`ConSplitterOut`, `ConSplitterGop`, `FrameBufferBlt` and `FrameBufferSerial`,
and `CardTransfers` with `MmcTransfer`. `MCFixedSlots` extends `DwMmcHc` and
`CardTransfers` and instantiates the former once more, `MCConsoleIn` extends
`ConSplitterIn` and `InputDevices` and instantiates the former once more,
`MCConsoleOut` extends `GraphicsConsole` and `OutputDevices` and instantiates
`ConSplitterOut` twice over the same variables, with fewer colours and with
fewer devices that fail; the parts of one such module share no state, so one of
them moves in a behaviour, and one run checks them all. `CardIdentification` and
`MmcTransfer` each look into a step of `DwMmcHc` (`Identify`, which stands for a
whole routine, and what lies between `ClearInterrupts` and `CheckReady`).

*Abstract specifications.* `AsyncFifo` (accepted requests are signalled once,
from the front or all together), `KeyFifo` (a bounded queue that drops its
oldest), `Terminal` (a page of characters with a cursor).

*Theorems.* The safety properties of the controller's queue, its TRBs and
events, of completion with a soldered slot, of identification; of both key
rings, the wake-up and the walk; of the keypad's reports and their pace; of the
virtual keyboard's lists, notifications and keys, of the pointers and the
buttons; of the virtual text and graphics outputs; of the console's cursor and
modes, of the debug output and the block transfers; of the bytes a card
transfers; and the three refinements. That is every safety property the runs
check.

*Runs.* One run per distinct question and environment, small enough to finish
in minutes. Runs that show a disagreement with a comment are kept only while
nothing else needs their place.

## 3. The models

### `DwMmcHc` with `AsyncFifo`

| state | code |
|---|---|
| `drv` | handle database: protocol opened by the driver, installed; timers set |
| `slot` | `Private->Slot[0]`: `Enable`, `MediaPresent`, `CardType` |
| `queue`, `trb` | `Private->Queue` and the `DW_MMC_HC_TRB` of each packet: `UseFifo`, data, `Timeout`, `Started` |
| `event`, `stat` | what the caller sees: event signalled, `TransactionStatus` or the return value |
| `call`, `enum`, `tick` | where the application thread, the enumeration handler and the timer handler are |
| `card` | the card in the slot |
| `bus`, `rint`, `idsts`, `dma`, `busy` | the data phase in progress, the packet whose completion bits `RINTSTS` and `IDSTS` hold, the descriptor table `DBADDR` points to, and `DATA_BUSY` of `STATUS` |
| `overlap` | history: a data phase was still on the bus when `RINTSTS` was last cleared |

A thread at a lower level takes a step only while those above it are idle
(`CanRun`). One action is what runs without the level being lowered or another
thread looking: PassThru is cut at its entry, the creation of the TRB, the
insertion, the wait for an empty queue, the wait for the data line with the clear
of `RINTSTS` (`ClearInterrupts`), the command (`DwMmcExecTrb`) and each turn of
the wait for the result. The timer handler at `TPL_NOTIFY` is cut where it polls
the hardware: before and after the clear, as the wait in front of it
(`DwMmcHci.c:1310`, `1160`) goes on until the card lets go of its data line and
what is on the bus may end between the clear and the command; and before
`DwMmcCheckTrbResult`, which for DMA does not return before the controller
answers.

Abstractions: one slot, which is what the driver uses; the content of commands,
responses and registers, except who the completion bits belong to; a command
sent while another's data phase is on the bus replaces it; a card may hold its
data line after any command and after any data; SEND_TUNING_BLOCK, which no
routine sends, is not among the commands; an identification routine is any
number of blocking commands followed by success or failure, with the point where
it writes `CardType`; descriptor memory has no address but its packet's name.

### `KeyRing`, `Keypad` with `KeyFifo`

| state | code |
|---|---|
| `phase`, `events`, `orphans` | Start and Stop: the events in the private data, and those left open when it was freed |
| `ring`, `nring` | `EfiKeyQueue`, `EfiKeyQueueForNotify`, with buffer, head and tail |
| `exposed` | `IsSupportPartialKey` |
| `list` | `NotifyList`, an entry's address being what `AllocateZeroPool` returned |
| `signalled`, `handler` | `KeyNotifyProcessEvent`, and `KeyNotifyProcessHandler`'s position: the key it popped, its `Link` |
| `holder` | the poll going on at `TPL_NOTIFY`: who entered it for what, the key the device is pushing and the copies still due |
| `reading` | clients inside `KeypadReadKeyStroke`'s loop |
| `strokes` | history: number of the last stroke, which tells strokes of one key apart |

`"app"` is a caller at `TPL_APPLICATION`; `"fn"` is the notification function
the handler is calling, which may itself call every protocol function. A
critical section that only touches driver state is one action; a poll is
several, because the device pushes a varying number of keys from inside it.
`QueueForNotify` is one turn of the loop over the registrations that finds a
match: the turns that find none change nothing. `"fn"` may unregister the entry
it is called for, and may stop the driver: the handler's `Link` is then freed
memory. What GetNextNode finds there is any node of the list, its end, or an
address that is no node (`FreedNext`), with which the handler is lost for good
(`DeadLoop`).

Abstractions: a key is its code, shift state and toggle state; the lock and
shift flags only matter where they hide EXPOSED in SetState; the conversion of
a control letter, done on the copy popped for the caller, is left out;
`KeypadErr` is left out because nothing calls `KeypadError`. Two numbers tell
apart what the code cannot: strokes are numbered, and `orphans` keeps the
events of the private data freed last, which is what shows the disagreement of
section 7.

### `KeypadDevice`

`ctx` holds the `KEY_CONTEXT` of each button, `bits` both bitmaps, `turn` and
`delta` the position and argument of `KeypadDeviceImplGetKeys`. `said`, `since`
and `muted` are history: the first and last key reported in the press going on,
the time since its begin or last report, and whether power was seen held when
it became long. There is one operator per branch of `LibKeyUpdateKeyStatus`.
A time above the largest threshold is the same as the largest: `Later` caps it.
The bitmap of characters is indexed by the scan code in the code, so power sets
bit 0 of it; the model has the same index.

### `CardIdentification`

| state | code |
|---|---|
| `cap`, `slot`, `host` | `Capability[0]`, `Slot[0]`, and what the controller was set to: width and double data rate of `CTYPE` and `UHSREG`, the clock |
| `pc`, `tries`, `result` | the function that sends the next command, the `Timeout` of `EmmcIdentification`, what the last enumeration came to |
| `version1`, `rca`, `switch`, `extCsd` | locals of the two routines |
| `card` | external: the card with its state of the SD or eMMC standard and what it was told |
| `noisy` | history: something was lost in this enumeration |

An action is one function that sends a command, with its caller's branch on the
status. What a card answers is the standards', as far as the driver looks at
it. The card may go before any command, and a command or its answer be lost.
Tuning is an empty function in the code, and S18A and CMD11 are never sent:
there is nothing of them to model.

### `MmcTransfer`, `CardTransfers`

`phase` is where `DwSdExecTrb`, `TransferFifo` and `DwMmcCheckTrbResult` are;
`intsts` and `full` are the copies of the registers the loop last read, `rint`
the registers. The controller is external: it fills or empties the FIFO,
raises RXDR, TXDR, DTO, ACD and errors, or does nothing, between any two steps
of the driver. `data` is the caller's buffer with what is around it, by offset,
so that a word that lands outside is seen. `table` is the descriptor list,
which the DMA walks as the hardware does. Buffers and lengths are in bytes, and
byte `k` of a transfer is the number `k`; the FIFO has words of four bytes, and a
word is the number of its first. `Mirror` says where in the buffer a byte belongs,
which for a request with `UseBE` is mirrored. `busy` is the card's data line.
`CardTransfers` has an instance of it for any lengths and any controller, and what
is said of it; there `busy` is `held`.

### `ConSplitterIn`, `ConSplitterKeys`, `ConSplitterPointer`

`ConSplitterIn` has the keyboards: `consoles` and `exList` are `TextInList` and
`TextInExList`, `conCap`, `exCap` and `queueCap` the lengths they and `KeyQueue`
were allocated for, `notify` the `NotifyList` with its handles, `phys` the
`PhysicalKeyToggleState`, `regs` and `toggle` the devices' own state. A keyboard's
driver returns, for a registration, the handle of one it has that covers it
(`Covers`: the same function, and a pattern that matches the new one). `setting`
is a SetState in progress, cut at every device, because a lock key's
notification (`due`) runs in between; the other fan-outs share nothing with it
and are one action. `ConSplitterKeys` has the reading: `queue` is `KeyQueue`,
`pending` what each keyboard has buffered, `signal` and `waiting` the event and
a client that waits for it. `ConSplitterPointer` has one axis of both pointers;
`owed` is history, the movement that no GetState has returned yet.
`InputDevices` has an instance of the last two and of `ButtonsDxe`, and what is
said of each: `KeysKept`, `PointerInput`, `ButtonKeys`.

### `ConSplitterOut`, `ConSplitterGop`

`con` holds the private data of `mConOut` and `mStdErr`: the list of devices,
`TextOutQueryData`, `TextOutModeMap`, mode number, colour and cursor; `mode` and
`colour` are the devices'. A mode is its size; the first is 80 x 25 on every
device, the second 80 x 50 or none (`OutAssumption`, `ConSplitter.c:2409`).
`ConSplitterGop` has the virtual graphics output: `buffer` and `max` are the
list of modes, `frame` the device whose frame buffer is shown. `stale`,
`lagging`, `behind`, `forced` and `shrunk` are history variables: each names a
way in which the code lets a device differ (a failed call, an overwritten entry,
a removal), and the properties except just those.

### `GraphicsConsole` with `Terminal`

`screen` is the graphics output's pixels: what a pixel shows, and with which
colours it is inverted an odd number of times. A glyph is a character on all
pixels of its cell. The other variables are the driver's; `line` is the line
buffer, which SetMode frees and allocates anew. Refinement: `Terminal`'s page is
what the cells show, its cursor the driver's; from the moment a graphics client
sets a mode the page is gone (`disturbed`).

### `FrameBufferBlt`, `FrameBufferSerial`, `ButtonsDxe`

`FrameBufferBlt` has `memory`, the bytes from the frame buffer on, `bitmap`, the
caller's, and `configure`; an operation is one step, as it runs at `TPL_NOTIFY`.
`FrameBufferSerial` has the interrupt flag, the cursor and colour of each image,
and for the application and a notification the write each is in, cut at every
point after which interrupts may be on. `ButtonsDxe` has the buttons held and
seen, both rings and the timer. Polls run with the level raised and are one action
each. Reset and the registrations raise nothing (`ButtonsDxe.c:472-488`,
`702-841`): `place` says how far one has come, there is an action for each
assignment that the timer's poll can tell from the one before, and that poll may
come between any two. `torn` is history: it came in the middle of the latest Reset.

## 4. The runs

Deadlock is checked except where the last column says so.

| run | asks | bounds and why they are enough | notes |
|---|---|---|---|
| `mmc_hotplug` | type; events signalled once; queue and TRBs sound; blocking commands alone; refinement of `AsyncFifo` | two packets, one with data: two is what it takes to have a queue with a head and a second, or a queued request beside a blocking one; both card types; removal, ResetDevice, Stop that may fail; timeouts 0 (for ever) and 1 | notifications do not submit |
| `mmc_removal` | the queue keeps its structure when notifications submit; no request waits on a slot seen empty | removable SD slot, two packets resubmitted at `TPL_NOTIFY` | |
| `mmc_fixed` | every queued request is answered for and every blocking call returns, if the card leaves its data line free again and again; completion is taken from the own transfer and DMA runs on the own table; every byte arrives once, in order, and none further than the length is rounded up to; the clock is the fastest allowed | SD card that stays, three packets, two of them with data, timeouts 1 and 2; soldered eMMC, one packet with data beside two without; single transfers of 4 and 10 bytes, that is of one word and of two and a half, over a FIFO of 2 words; DMA of 1 to 6 and of 10 bytes in blocks of 2 and buffers of 4, so that lengths are below, at and above each limit and no multiples of a word, a block or a buffer; clocks 1 to 30 from a base of 25 | three parts; no deadlock check |
| `mmc_identify` | the card is driven as it was told; a run without losses succeeds; enumeration ends | four kinds of slot (width, DDR, 1.8 V only), nine kinds of card (version 1, one bit only, each timing, one that never becomes ready); three tries instead of a hundred; lost commands and answers | |
| `kbd_keypad` | type; no lost wake-up; who frees the node the walk stands on; order; readers' queue; notifications taken | rings of three slots (two keys) and three strokes: every overflow, and head and tail wrap; two registrations, of which one names a shift state and one does not; partial keys; one function that calls everything, also Stop and the unregistration of its own entry; failing Start and Stop | |
| `kbd_device` | type; power once; volume heard; repeat pace; release | thresholds 2, 3 and 6 and polls 1 or 4 apart: below, between and above each threshold, with times that do not divide them | |
| `console_in` | arrays suffice and agree; notifications and partial keys reach every keyboard; no key or movement lost or twice; button presses are one key each | two keyboards with Ex of which one fails, or one with and one without; growth by one, so that every addition grows; three keys over three keyboards; two mice, two panels, INT32 up to 3; two buttons that combine (power and volume up), a ring of two, one poll of the timer within a Reset, which is over long before the next period | six parts |
| `console_out` | mode map and current mode true of all devices; graphics modes, picture and frame buffer shared; cursor; refinement of `Terminal`; transfers exact; glyphs inside the screen | three outputs with four, three and three modes, one with a mode number it does not support, one under both consoles, two that may fail; the same without faults in two colours; three graphics outputs; screens of 2 x 1 to 3 x 2 cells, where every character wraps or scrolls; four pixel layouts with padding, three bytes and an unsupported one on 2 x 3 pixels, all rectangles including empty and too large ones; two columns of glyphs, two threads | seven parts; no deadlock check: the transfers stop after one call |
| `mmc_v_dma`, `mmc_v_late`, `split_v_mode`, `fb_v_copy` | see [section 7](#7-what-the-code-does-that-its-comments-do-not-say) | those of `mmc_hotplug` with an eMMC, `mmc_fixed` and `console_out` | no deadlock check |

With a slot that is not removable Stop leaves the protocol open, so Start can
never succeed again and the system really stops: only those runs of the
controller switch the deadlock check off.

Symmetry is not used: the packets, keyboards and outputs differ in what they
can do, and liveness is checked.

`TypeOK` is more than types where a number could go wrong: a TRB's timeout is a
natural number although the code decrements an unsigned one, head and tail of
the rings stay below the ring size. The types of the console's parts are a
conjunct of `KeysKept`, `PointerInput`, `ButtonKeys` and `MapTellsModes`, those
of `CardTransfers` of `DataExact`; those of `ConSplitterIn` are proved.

What the passing properties say about the code:

* **Requests.** `SignalledOnce`, `QueueWellFormed` and `TrbOwned` together say
  that the five places that empty the queue (completion, timeout, removal,
  ResetDevice, Stop) agree with each other under every preemption. They hold
  when no notification submits; section 7 says what is lost otherwise.
* **The blocking path** tests the queue and leaves `TPL_NOTIFY` before it
  executes. `SyncExclusive` holds nevertheless, because neither the timer nor
  the enumeration handler puts requests in the queue; it is the clients'
  notifications that may not.
* **Completion.** With a card that stays in, the bits read belong to the TRB
  that is waited for (`CompletionIsOwn`), unless a transfer that timed out was
  still on the bus when `RINTSTS` was cleared for it: see section 7. When the
  card is swapped under a request the identification's commands set and clear
  the same bits, and the property does not hold: see section 7.
* **Endings.** `CardAnswers` and `CallsReturn` hold of transfers through the FIFO
  with a controller that reports nothing: the timeout does it, in the queue as in
  `TransferFifo`. They are claimed of a card that leaves its data line free again
  and again (`[]<>~busy`), because the wait for that in front of every command has
  no count: a card that holds the line keeps the machine at `TPL_NOTIFY` for ever,
  in the model as in the code. For DMA there is no timeout either. `NoMediaDrains`
  needs no such promise: without media the timer sends no command.
* **Data.** `DataExact` compares the buffer, and what is around it, with what
  the card sent or was to be sent, for reads, writes and reads with swapped
  bytes, whatever the controller does between two steps. Every byte of the
  length asked for is where it belongs; behind the buffer nothing is written
  further than the code rounds the length up: to a word by the FIFO
  (`DwMmcHci.c:889`), to a block by the DMA. That those bytes are written at all
  is in section 7. It is about requests that are told they succeeded and about
  which no error was raised; an error too late to be seen is `mmc_v_late`.
* **Identification.** `DrivenAsTold` holds under every loss: a width, rate or
  clock the card was not told is never left behind by a routine that reports
  success. It excepts what section 7 lists: cards of version 1, and double data
  rate with an SD card or on one bit.
* **Keys.** `ReadersSpec` covers the interleaving of the timer with
  ReadKeyStroke's loop, WaitForKey's skipping of partial keys and Reset inside
  a notification function. `NotifyWakeup` and `Notified` cover signalling an
  event whose handler is already running.
* **Gestures.** `PowerOnce` and `VolumeHeard` hold for every sequence of
  samples, including a combo judged on the state of power one poll old.
* **Virtual keyboard.** `NotifyEverywhere` is the invariant of four operations
  that undo each other's halves: a device that joins is given the whole list or
  is refused, a registration is on all devices or on none. `KeysKept` says that
  what ReadKeyStrokeEx saves while it asks the other keyboards is returned
  later, in each keyboard's order, and fits the queue allocated for it.
* **Virtual screen.** `MapTellsModes` and `ModeIsSet` relate five tables that
  each addition and removal rewrites. They hold but for devices that failed or
  that the other console set; what a removal does to the current mode is
  `split_v_mode`.
* **Text.** `CursorShown`, in `ConsoleKept` beside what the modes are, says that
  the inverted cells are exactly the cursor while it is visible, after every
  exit of every function; `IsTerminal` that wrapping, scrolling, wide characters
  and control characters do to the page what `Terminal` says.
* **Pixels.** `BltExact` compares every byte of memory with the meaning of the
  call, for all four operations.
* **Debug output.** `SerialKept` holds although interrupts may come on in the
  middle of a write.

Each property of a passing run has a mutant: a definition of the module that
changes one operation the way a mistake in the code would, with which the
property fails.

## 5. Fairness

*DwMmcHc.* Weak fairness of the timer handler, of the enumeration handler and
of each call in progress: the timers are periodic and a call that is not
preempted goes on. Nothing is assumed of the card or the controller by the
specification. What is promised of requests with finite timeouts is stated with
its one condition, that the card leaves its data line free again and again;
everything else ends by the driver's own timeouts. A card that never lets go of
the line, and a DMA transfer that never completes, stop everything in the model as
in the code.

*Keypad.* Weak fairness of a critical section's next step and of the handler's;
strong fairness of dispatching a signalled event (events of one TPL are
dispatched in turn, and the timer's notification can postpone but not starve it)
and of what a notification function does to return: finish its reads, and
return. Functions that register new functions for ever keep the handler walking,
and one that had its own entry freed may leave it lost; `Notified` excepts both
by name.

*MmcTransfer* (in `mmc_fixed`). Weak fairness of the driver's loop, and nothing
of the controller: every loop has a count of its own but the wait for the data
line, and `TransferEnds` is stated on the condition that the card frees it again
and again.

*CardIdentification.* Weak fairness of the two routines, which nothing that
matters preempts, and of a card's getting ready, which is the card's promise; a
card that never does is one of the cards, and `EnumerationEnds` says what then.

The console's runs check safety and the refinement of `Terminal`, and assume no
fairness.

*KeypadDevice.* Weak fairness of the sampling loop and strong fairness of the
poll: the 20 ms timer goes on, and a Reset does not keep it away. Time passes
between polls.

## 6. The proofs

TLAPS checks the following for every value of the constants.

*DwMmcHc* (`DwMmcHc_proofs`). `TypeCorrect` by itself. `Safety`: `SafetyInv`,
the conjunction of `SignalledOnce`, `QueueWellFormed`, `TrbOwned` and
`SyncExclusive` with three facts none of them is inductive without:
`PacketsApart` (a packet inside a PassThru call is not queued, and the
application and the identification use different ones), `CallsConsistent`
(only asynchronous calls insert, only blocking ones wait) and `StopQuiet`
(while Stop is under way the timers are closed, no handler runs, and the queue
is empty when it comes to the uninstall). From
it `EventsOnce`, `QueueSound`, `TrbLifetime`, `SyncAlone` and `ImplementsFifo`.
All but `TypeCorrect` assume `~Resubmit`: with notifications that submit,
`StopQuiet`, `SyncExclusive` and `SignalledOnce` are false in the code.

With a slot whose card stays in (`~Removable`, `~Resubmit`) `SolderedSlot` adds
`OwnInv`, and from it `CompletionsOwn` and `DmaForCommand`: nothing is detected
(`NoDetection`); a TRB that is gone is not started, and one the DMA serves is
waited for at once (`TrbsTell`); the table that stands ready is that of the DMA
request not yet executed (`DmaTells`); the data phase on the bus is the command's
that was given, and so are the bits in `RINTSTS` and `IDSTS`, or there was an
`overlap`; between the clear and the command both are empty but for that
(`BusTells`). The condition is needed for FIFO transfers only: by DMA nothing is
left on the bus, as a DMA transfer does not time out. `OneDmaUser`,
at most one packet that moves data by DMA, is what the code needs for the third
and does not see to: `mmc_v_dma` shows the table of a second request replacing
the first's. Where all cards are SD it holds of itself, as data then goes
through the FIFO.

`CardTransfers` has an invariant of its own, `TransferInv`, from which
`DataIsExact` follows: `DataExact`, for all lengths, FIFOs, descriptor sizes and
clocks, in bytes. Bytes are numbers, so where they are can be said without
history; `Mirror`, that it undoes itself, is what a buffer filled from its end
needs (`MirrorIs`). In a read over the FIFO the buffer has the bytes up to the
number received (`Filled`), the FIFO the words that follow, and the two together
are what the card has sent (`ReadSoFar`); in a write the card has the first, the
FIFO those that follow, together what the driver has pushed (`WrittenSoFar`).
What is received never exceeds the length rounded up to words, nor a table the
length rounded up to blocks, and these bound what is written (`Clean`). It needs that a
command begins with an empty FIFO and no data phase (`~dirty`), which the code
does not see to. `FifoData` ties this to where the driver is: what `TransferFifo`
hands to the result check was received to the last word, and that ACD was
raised means that the card has taken what the FIFO held. For the DMA,
`TableRight` says that the descriptors lie end to end, each but the last of full
size, and that what was moved ends where the next of them begins; `Walked` that
it is in its place. The rest are types and the bounds of the counters. The
divisor is proved apart (`DivisorIs`): the loop stops, as the setting falls to
zero, at the first that is not too fast, and a quotient with its rest compares
with a clock as the product does (`QuotientAbove`). Assumed
(`TransferAssumption`): lengths and clocks are not zero, and there is a longest
request, as `DataLen` is a UINT32; the loops count more than one turn; the FIFO
is deeper than its watermark; a descriptor holds whole blocks.

*CardIdentification* (`CardIdentification_proofs`). `IInv` says, for every
command of the two routines, what it finds: the card's state of the standard and
the address both sides use, what it was told of width, rate and timing and what
the controller was set to (`EmmcStage`, `SdStage`), the clock (`Clocked`), the
attempts left (`Counted`), that only an SD card keeps an error to itself
(`KindInv`), and, while nothing was lost, that an eMMC never reaches the SD
routine and an SD card is not taken for one of version 1 (`Clean`).
`HostMatchesCard`, the part of `DrivenAsTold` about a card that is identified,
is what the last commands of both routines leave. What a lost command leaves of
a card and its answer is one operator (`Exchange`), so each command is a lemma
that cites the stage before and shows the stage after. From it
`CardDrivenAsTold` and `IdentifiesTheIdentifiable`, for every set of cards and
slots.

*Keypad* (`Keypad_proofs`). First the ring: what `Contents` is after a push with
room, a push into a full ring, a pop and a clear. Head and tail are modular, the
content a sequence: this is the only place where `Keypad`'s ring arithmetic is
argued. `Inductive`: type, `NotifyWakeup` and `Shape`, which says that the
handler stands at the end of the list unless it walks, calls or is lost, and on
an entry while it walks, and that only a driver that is ready has registrations,
so that a Start that fails finds nothing due. From it `TypeCorrect`,
`NoLostWakeup`, and with the ring lemmas `ImplementsKeyFifo`. `WalkerSafe` goes
through the steps that take entries away: an unregistration takes one, which is
the handler's only if the function called names it; of the steps that give the
list up, those of Start find it empty, and Stop has the handler at rest unless
the function called it. Elsewhere the list only grows, and the handler moves
from node to node of it. `NotifyOrdered` has an invariant of its own,
`OrderInv`: the stroke being pushed is the newest, and the queue is in order
behind the one in the handler's hands. No assumption beyond those on the
constants.

*KeypadDevice* (`KeypadDevice_proofs`). `PressInv` ties what was reported to
the context's state: nothing before the end of a press or its long press,
`Repeat` set by a volume button's own report. `LibKeyUpdateKeyStatus` keeps it,
branch by branch; `TypeCorrect`, `PowerReportedOnce` and `VolumeNotLost`
follow. `PaceInv` relates the code's one counter to the history: until its long
press, and while it repeats, a context's `Time` is not ahead of the time since
its press began or was last reported, and the time one poll adds to all three is
one that passed (`delta \in Deltas`). From it `RepeatsKeepPace`.

*ConSplitterIn* (`ConSplitterIn_proofs`). `ListsInv` is the type, finiteness of
`consoles` and `ListsSound`: the arrays grow in turn and each growth may fail, so
the invariant is that each is as long as its count says although the next may
not be (`ConsoleInTypes`, `ConsoleInLists`). `ExposedInv` adds that
`PhysicalKeyToggleState` always has EXPOSED set, whoever wrote it last
(`ConsoleInExposed`). `ServedInv` adds that an entry's handles are handles of its
own registration, that no two entries are for one registration, and that every
Ex keyboard holds each: taking one back then takes no other, although a handle
list does not move up when a keyboard leaves (`ConsoleInNotified`). That needs
`PatternsApart`: no client's pattern covers another's. Without it the property
is false in the code; see section 7.

*InputDevices* (`InputDevices_proofs`). Each of the three instances has an
invariant of its own.
* `KeysInv`: the lists hold a device once and `KeyQueue` grows with
  `TextInExList` (`KeyLists`); a key belongs to its device and was pressed
  (`KeysPressed`); and, device by device, what was delivered, what is in the
  queue and what the keyboard still has rise in that order (`KeysOrdered`, with
  `InLine` for one device). What ReadKeyStrokeEx saves is a subsequence of
  `TextInExList`, at most one key a device, hence no longer than the list and
  than the queue. From it `KeysArrive`.
* `PointInv`: positions are on their panels and a mouse that is in no list is at
  rest (`PointPlaces`); the movement owed is the total along `PointerList`
  (`PointOwed`), which Stop, Reset and GetState split into what goes and what
  stays; with `WakeMeansInput` and `TouchOnScreen`. The total is a sum along a
  list, so the lemmas are about a list with one entry changed or removed. From it
  `PointersTell`.
* `BtnInv`: unless the timer polled in the middle of the latest Reset, the buttons
  pressed are those held at the last poll and `numOfKeysPressed` is their number, at
  rest and within a registration, and within a Reset it is as far as that has come
  (`BtnCount`); a session that gave its key is marked; and, with no exception,
  `NoKeyLost`. The rings' modular positions are
  described without remainders (`Between`, `SlotAt`), and what a poll leaves is
  one lemma, which every operation cites. From it `ButtonsGiveKeys`.

*GraphicsConsole* (`GraphicsConsole_proofs`). Every function works on a canvas:
the screen and the cursor while it runs. Each operator on one is described by
what it does to each field. `IInv` is the type, `CursorShown`, and `Consistent`:
the modes were made for one resolution, the current one has columns and rows, the
cursor is on its page. The proof of `CursorAlwaysShown` follows the code's
bracket: erasing leaves a canvas with no inverted pixel (`Bare`), everything
in between keeps it so, and drawing gives one inverted exactly at the cursor
(`Marked`); the proof does not depend on what is drawn. `ConsoleModes` needs that
the driver's own modes are pairwise different by construction of the list.
`ConsoleIsTerminal` maps a canvas to a `Terminal` text (`Abs`): a cell shows what
its first pixel shows. Line feed with its scroll, a wrap, a wide character that
does not fit and each control character commute with `Abs`; a step with the
console in view is a `Terminal` step or a stutter, one that takes it out of view
is `Vanish` and one that brings it up is `Appear`. Assumed
(`ConsoleAssumption`): no text mode is one column wide, which is weaker than the
80 columns the code asserts (`GraphicsConsole.c:267`), resolutions far from
2^64, the attributes that SetAttribute accepts, and a video resolution that the
platform file sets in both its numbers or in none (`EXYNOS7885Pkg.dsc:160-161`).

*OutputDevices* (`OutputDevices_proofs`), its instances.
* `TextInv`, from which `TextModesTold` and `TextModeHeld` follow: `MapTellsModes`
  and `ModeIsSet`, for all devices, sizes and allocation units. Its parts are
  `Tables` of each console (the list holds a device once; what a client can
  query is told in each column of the map in the numbers of that column's
  device; the first column, whose numbers are also the index into
  `TextOutQueryData`, has 0 and 1 in the first two rows and only there; map and
  data are as long as each other, the map as wide as there is room for devices)
  and, of a console that has lost no device, `InMode`. Each
  function of the code is one lemma that takes sound tables to sound tables. The
  hardest is the intersection with a device that joins: the loop moves rows up
  and the current mode with them, and what it has left after n rows is described
  by the rows kept (`Stay`), by induction over its turns. An addition is correct
  only because each step re-establishes for the last column what the ones before
  have, and the exception `lagging` is exactly the devices whose mode may be
  another: those that failed and those both consoles set. Assumed:
  `OutAssumption`, what the specification requires of modes 0 and 1.
* `GopInv`, from which `GraphicsOutputShared` follows: a device is in the list
  once and in a mode it has, and the protocol is installed when the list is not
  empty; `ModesAreCommon` and `PictureShared`; and two facts in the place of
  those a client sees. `Shared` says what `ResolutionShared` says also when the
  mode number is the one that stands for none; `Lent` ties the virtual modes and
  the frame buffer to the device that lent them, as long as it is the only one
  and none has left. The intersection with the modes of a device that joins is a
  loop over the buffer; what it leaves is proved by induction over its turns
  (`Matched`). Assumed (`GopAssumption`): a device has a mode.
* `BltInv`, from which `TransfersExact` follows. It is small: the library is not
  configured, or for a screen whose three colours are in three bytes of a pixel
  and whose lines are in memory (`Ready`), and memory and the caller's bitmap are
  as large as they were. `BltExact` says what the next call would do, so the work
  is in what the operations compute. Each is rows of bytes put into memory one
  after the other (`CopyRows`); if the rows do not overlap, each of them is there
  in the end and no other byte has changed (`Written`), by induction over the
  rows. A byte of a row is one of a pixel of the rectangle (`ByteOfRow`) and the
  reverse (`RowOfPixel`), from which follows what is painted if a row has its
  pixels' colours (`RowsPaint`); that it has is a lemma for each of the ways a row
  is made: filled wide or from the line buffer (`FilledRowIs`), given as it is or
  converted, read as it is or converted. The fill of whole lines at once is cut
  into lines again: it repeats a pixel of 4 bytes, or one of equal bytes, so every
  line starts with a whole pixel. A copy within the screen that goes down its rows
  never reads a row it has written, as none of its rows goes to a higher address,
  and a row that overlaps itself is copied at once. Assumed (`BltAssumption`):
  memory goes on for a line behind the screen, because a copy from the last line
  begins to read there (`FrameBufferBltLib.c:614`); a line has two pixels at
  least, as the fill of whole lines sets fewer than eight bytes to the pixel's
  lowest byte (289), which is the wrong colour if a line is a single pixel of
  four; the rows of a bitmap do not overlap (a `Delta` of at least the
  rectangle's width) and the bitmap holds the rectangle.
* `SerialInv`, from which `DebugOutputKept` follows: what `SerialKept` says, for
  every screen, font, scale, number of images and content of the uninitialised
  variable. `CursorInv` bounds a cursor by what the two threads are doing: one
  line more for each of them that is ending one, so that the notification that
  interrupts the end of a line still finds a line free; and behind the last
  column only where nothing can interrupt. `ColourInv` says who holds the
  yellow of an emergency write, and that no notification initializes an image
  the application is writing to. Assumed of the screen: a column wide, more
  than two lines of glyphs high, and a whole number of scaled lines
  (`SerialAssumption`); without the last the cursor could step over the
  bottom.

Where the code loops over an array the models have a recursive function over `0
.. n` instead of an operator of the libraries, because the provers have a
definition of the one and not of the other. What such a function computes is
proved by induction over its bounded domain: `Upwards` (`CountUp` in
`OutputDevices_proofs`) takes the set of indices of which a fact holds, and
shows that a set with 0 that is closed under going one up has them all.

Only model-checked:

* everything under fairness, as TLAPS proves neither liveness nor ENABLED:
  `NoMediaDrains`, `Notified`, `Released`, `EnumerationEnds`, `CardAnswers`,
  `CallsReturn`;
* `NotifyEverywhere` has no proof without `PatternsApart`, and `CompletionIsOwn`
  and `DmaIsForCommand` none where cards come and go: they are not true there.

## 7. What the code does that its comments do not say

Shown by runs that must fail:

* `mmc_v_dma`: `BuildDmaDescTable` programs `DBADDR` when a request is created
  (`DwMmcHci.c:809`): with two requests queued the first runs on the table of
  the second.
* `mmc_v_late`: `DwMmcCheckTrbResult` looks at no error bit
  (`DwMmcHci.c:1545`), because each transfer "is validated in TransferFifo()"
  (`1572`); `TransferFifo` reads the bits before it moves the words, so errors
  reported after the last ones are not noticed.
* `split_v_mode`: removing the device that made the current text mode possible
  leaves `mConOut` with mode -1 (`ConSplitter.c:3432`), and
  ConSplitterTextOutSetCursorPosition (`5049`) then reads in front of its map.
  `ModeIsSet` excepts a console that has lost a device (`stale`);
  `MapTellsModes` holds for it too.
* `fb_v_copy`: a copy within the screen to a higher address starts one row too
  low (`FrameBufferBltLib.c:614`): the first row is not copied and a row behind
  the rectangle is written.

Seen while modelling, without a run. SD and eMMC controller:

* `DwMmcHcDxe.c:859`: Stop closes `gEfiPciIoProtocolGuid`; Start opened
  `gEdkiiNonDiscoverableDeviceProtocolGuid`. The handle stays open and the
  driver can not be started on it again.
* `DwMmcHci.c:1310`, `1160`: the wait for `DATA_BUSY` in front of every command has
  no limit, at `TPL_NOTIFY` in the timer handler: a card that keeps its data line
  low stops the machine. No timeout of a request counts there.
* `DwMmcHci.c:1315`, `1396` (`1165`, `1219`): "Interrupt status is cleared before a
  new command is issued" (`1575`), but a transfer that timed out is not taken off
  the bus, and one that ends between the clear and the command leaves its ACD and DTO
  to the next request, which is then completed on them. `CompletionIsOwn` excepts
  it by name (`overlap`).
* `DwMmcHci.c:1581`: `DwMmcCheckTrbResult` polls `IDSTS` without bound, at
  `TPL_NOTIFY`; a DMA transfer that never completes stops the machine.
* `DwMmcHcDxe.c:842`: Stop drains the queue without raising the TPL; a
  notification that submits its next request from there loses it. `855`: a Stop
  whose uninstall is refused leaves the timers closed, and nothing restarts
  them; `Keypad.c:380-391` does the same.
* `DwMmcHcDxe.c:973`: a notification that submits between the wait for an empty
  queue and the blocking command breaks `SyncExclusive`; setting
  `Resubmit = TRUE` in `MCDwMmcHc_hotplug.cfg` shows it.
* `DwMmcHcDxe.c:646-658`: Start returns `EFI_SUCCESS` with nothing installed
  when the slot is empty or the clock is zero. `343`: a card no routine
  identifies leaves `MediaPresent` TRUE and the card type of the last one.
* `DwMmcHci.c:1548`: after a swap of cards a queued request can be completed on
  bits the identification of the new card left.
* `DwMmcHci.c:715`, `1051-1062`: descriptor tables are allocated for each
  request and their pages never freed. `1040`: a failing `DwMmcCreateTrb` loses
  the TRB.
* `DwMmcHci.c:889`: `TransferFifo` compares the FIFO's count with the whole
  length, not with what is left, so words that a reset of the FIFO left behind
  (its timeout is only logged, `1384`) overrun the buffer; `MmcTransfer` excepts
  such transfers (`dirty`). The length itself is rounded up to words there, so that
  the last word of a buffer whose length is no multiple of four is stored whole, up
  to three bytes behind it. `761`: a DMA of more than a block that is not whole
  blocks goes past the buffer, to the end of the block. `DataExact` bounds both
  (`Extent`).
* `DwMmcHci.c:463`: `DwMmcHcWaitReset` writes the whole of `CTRL`, which clears
  the interrupt enable. `1430-1446`: the DMA branch of `DwSdExecTrb` is never
  taken. `314-338`: with a base clock above about 204 MHz the divisor for
  400 kHz does not fit its field.
* `DwMmcHci.c:1226-1228`: `DwEmmcExecTrb` sets its timeout inside the loop that
  counts it down, so the loop has no bound.

Card identification:

* A card of version 1 skips CMD6, and the mode is then chosen from a response
  that was never read (`SdDevice.c:880-901`). A host with DDR50 drives an SD card
  or a one-bit eMMC at double data rate without having told it.
* The loops that wait for a switch to end compare `DevStatus & 0xf` with the
  programming state, which is in other bits; and `EmmcSwitchToHS200` does
  nothing.
* An SD card in a slot whose type is still eMMC is not identified; a high
  capacity card whose answer to CMD8 is lost never becomes ready, and the
  ACMD41 loop (`SdDevice.c:1014`) has no count: `EnumerationEnds` excepts
  `Stalled`.

Virtual consoles:

* `ConSplitter.c:2441-2443`: row 2 of the map is kept whatever a device tells, as
  modes 0 and 1 are "reserved for 80x25 and 80x50". A device with
  `MaxMode` 1 that joins others leaves -1 in that row; SetMode(1) then gives it
  the mode number -1. `OutAssumption` leaves such a device out.
* `ConSplitter.c:1205-1222`: Start on a keyboard without the Ex protocol adds it
  and returns an error. A Start that fails after it has added the device leaves
  it in the list and the protocol open; Stop then answers not found for ever
  (`1589-1592`). Stop does not unregister notifications from the device that
  leaves, and `NotifyHandleList` is not shifted when one before it goes.
* A keyboard's driver answers a registration with the handle of one that covers
  it (`KeypadTextIn.c:518-523`), and Stop leaves registrations behind. If one
  function is registered for a and for shift+a, removing one can then take the
  other off a keyboard that was stopped and started in between;
  `NotifyEverywhere` holds of patterns that do not cover one another.
* SetState and a lock key's notification race for the physical state (`3964`).
  A Reset that fails on one keyboard leaves those reset before it not reporting
  partial keys. Keys saved in `KeyQueue` do not wake a client that waits,
  although the comment on the event says a key is available.
* `4254`: `RelativeMovement * 0x10000` wraps in INT32; `4265`: one mouse's error
  hides the movement already taken from the others. `4470`: `ActiveButtons` is
  the last panel's; `4475-4484`: an absolute position is not moved by its
  minimum, and a panel with equal, non-zero limits divides by zero.
* `2989`, `3031`: graphics outputs without a common mode leave entry 0 of the
  modes uninitialised or overwritten with 800 x 600. Modes are never widened
  again when a device leaves, and after that QueryMode and SetMode number them
  differently (`ConSplitterGraphics.c:14-16`). `3166-3183`: a map that cannot
  grow after its buffer did keeps the old stride. `3213`: adding a text-only
  device is reported as `EFI_DEVICE_ERROR`.

Graphics console:

* `GraphicsConsole.c:293-299`: mode 0 is 50 x 120 where the comment says 80 x 25.
  It is never compared with the screen, and its vertical offset wraps on every
  device of the package. The screen of `Devices/j2corelte.dsc`, 540 pixels wide,
  has 67 columns, and the assertion at `267` wants 80.
* `1359-1366`: SetMode to the current mode restores nothing after another
  client changed the resolution. `1374`: the line buffer is freed before the new
  one is allocated, and stays pointed to when that fails; a failing graphics
  SetMode (`1401-1407`) leaves the cursor erased.

Boot screen:

* `FrameBufferBltLib.c:515`: a blue-green-red transfer ignores `SourceX`. `525`:
  the line buffer is stored to four bytes at a time, one past its end with
  three-byte pixels. Sums of coordinates are not checked for wrapping.
* SimpleFbDxe installs its protocol when the line buffer cannot be allocated:
  every transfer is then refused. QueryMode and SetMode look at no mode number.
* `FrameBufferSerialPortLib.c:146`: interrupts may be enabled in the middle of a
  write, or left disabled after it. A character at the end of the last line is
  drawn twice, before and after the screen is cleared (`177`).

Buttons and keys:

* `Keypad.c:314-322`, `398-407`: Start's exit and Stop close one event of three
  or four, because the tests are else-if, and free what the others refer to;
  after a failed Start the timer itself is among them. `164-175`: a key that
  matches two registrations is queued twice for notification and each function
  is called twice.
* `Keypad.c:324`: when the allocation in Start fails, the exit takes the address
  of a member of a null pointer. `326-330` frees either the name table or the
  private data.
* `KeypadTextIn.c:666`: a notification function that unregisters its own entry, or
  stops the driver, makes the handler read a freed node: it goes on somewhere in
  the list, or is lost. `WalkerAlive` says that nothing else does that, and
  `Notified` excepts a handler that is lost.
* `KeypadTextIn.c:452-460`: SetState's tests are else-if, so one bit of a toggle
  state hides the others; with a lock bit set partial keys are off. `341`:
  WaitForKeyEx drops partial keys although ReadKeyStrokeEx is there to return
  them.
* `KeypadDeviceImplLib.c:140`: a short press ends at the first sample that is
  up, with no debounce; `240`: Reset counts a button still held as a new press.
* `ButtonsDxe.c:472-488`: Reset raises no level. The timer's poll that comes after
  `numOfKeysPressed` was zeroed and before the matrices and `keysPressed` are
  cleared counts a button that is then forgotten, or counts one down that was not
  counted, below zero: the count is off until the next Reset, a session that does
  not return to zero never ends, and no further key comes. `OneKeyPerSession`
  excepts what follows such a Reset (`torn`).
* `ButtonsDxe.c:830`: the last UnregisterKeyNotify closes the timer's event, and
  a later registration can not start it. `350-371`: a key is handed to the
  notification functions by the timer and by a reader's own poll.
  `ExynosButtonsLib.c:193`: the power key puts the character of a carriage
  return into the scan code, where it means F3; ReadGpioStatus always reads the
  volume keys as released.

## 8. What is left out

Not modelled:

* *PlatformBootManagerLib*: one straight pass over handles and variables at
  boot. What it decides is which options to register, by the content of device
  paths; there is no state it keeps between steps and no step that can be
  reordered.
* *PrePi, MemoryInitPeiLib, PlatformPeiLib, EXYNOS7885PkgLib*: run once, before
  there are events. The memory map is a constant table of the platform file: its
  regions are data, to be checked by reading it.
* *DwcSdhciDxe*: an override protocol whose caller, the generic SDHCI driver, is
  not in the tree. What it may be called with, and in which order, would have to
  be invented.
* *GpioDxe, RngDxe, EXYNOS7885PkgDxe, ExynosLib*: register access without state.
  *LogoDxe, SmbiosPlatformDxe, AcpiTables*: data. *BootShim*: a jump.

Left out of the components that are modelled, beside what section 3 says:
UGA (the platform builds the splitter without it), tuning (empty in the code),
allocation failures on the output side of the splitter, the InMemory serial
port (the platform file overrides it), colour masks that are not whole bytes.

Not going to be: register and protocol encodings as such, glyphs, component
names, and what the package takes from EDK2 (the event and handle services, the
SDHCI driver), which appears as what the code relies on: events of a level are
dispatched when nothing at or above it runs, and a call that allocates, creates
or installs may fail where the code tests for it.
