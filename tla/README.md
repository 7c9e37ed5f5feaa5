# A formal model of the OpenDevice drivers

OpenDevice is a collection of Linux drivers, driver-core experiments and Arduino
tools. Many files show one kernel interface; a few are real drivers whose
correctness depends on the order in which threads, handlers and failures meet.
They are specified here in TLA+, model-checked with TLC, and in part proved with
TLAPS.

Paths below are relative to the repository's `src/`. `PROJECT.json` maps each
definition to the lines it models.

## 1. The system

| Part | Source | Modules |
|---|---|---|
| Dummy serial driver, one port | `char/tty/tty.c` | `DummySerial`, `ByteChannel`, `DummySerial_proofs` |
| MCP251x CAN driver: threads | `bus/can/mcp251x.c` | `Mcp251x`, `CanDriver_proofs` |
| MCP251x CAN driver: registers | the same file | `CanFrame`, `CanDriver`, `CanDriver_proofs` |
| Driver core: binding and deferred probing | `driver.c`, `bus.c` of `bus/common/device/device_register` | `DeferredProbe`, `DeferredProbe_proofs` |
| Driver core: registration of devices | `device.c`, `bus.c`, `class.c`, `core.c` of the same directory | `DeviceAdd`, `DeviceAdd_proofs` |
| ARISC hardware message box | `soc/sunxi/arisc/hardmsgbox` | `HwMsgBox`, `HwMsgBox_proofs` |
| CP210x USB serial converter | `bus/uart/cp210x` | `Cp210x`, `Cp210x_proofs` |
| SMI/MDIO tools for Marvell switches | `bus/smi/arduino`, `bus/mdio/arduino`, `soc/arduino/tools/aup_tools` | `RegisterBus`, `SmiFrame`, `Smi`, `SmiMenu`, `Smi_proofs` |
| Probe, remove, init and exit of 52 demos | `bus`, `char`, `common`, `fs`, `subsystem` | `DriverLife`, `DemoDrivers`, `DriverLife_proofs` |

**Dummy serial driver.** The UART sits in a microcontroller that only a
*serial manager* in user space can reach. The tty layer calls `dummy_start_tx`
and `dummy_set_termios`; the manager calls `dummy_open`, `dummy_poll`,
`dummy_read`, `dummy_ioctl`, `dummy_fasync` and `dummy_release` on a character
device. State per port: `tx_fifo`/`tx_len`, the completions `write_ok` and
`manager_activie`, the wait queue, `async_queue` and `manager_reset` under
`async_sem`, and the baud rate. Hard: both tty paths sleep until the manager
acts; `tx_len` has no lock; a manager may die and be restarted between any two
steps. Correct means: bytes arrive once and in order, the tty is not told that
they were sent before they were, no rate change is missed, nobody sleeps for
ever.

**MCP251x.** One transmit buffer, one worker (`tx_work`, `restart_work`), one
threaded interrupt handler, open/stop under rtnl, a manual restart in a timer,
suspend and resume. State: `tx_skb`/`tx_len`, the echo slot, the netif queue
and carrier, `force_quit`, `after_suspend`, `restart_tx`, `can.state`,
`mcp_lock`, the workqueue and the chip's mode, flags and buffer. Hard:
`hard_start_xmit`, `do_set_mode`, half of `stop` and the power management run
without `mcp_lock`; `stop` waits for threads that wait for the lock; bus-off
cleans a frame the chip may still send. Correct means: no `sk_buff` is lost or
freed twice, the echoed frame is the one sent, the queue never stays asleep,
`stop` ends and leaves nothing behind, and a frame or a bit timing means to the
chip what it meant to the driver.

**Binding and deferred probing.** A driver whose dependencies are missing asks
for its device to be probed again. State: `dev->driver`, the driver's klist,
the pending and active lists, a trigger counter and the work on `demo_deferwq`.
The copy has lost the mutexes of the Linux original, so the adding threads, the
worker and the initcall interleave anywhere. Correct means: no retry is lost
although a trigger may fire while a probe is failing, a device is listed once,
bound exactly when its probe succeeded, and in the end bound.

**Registration of devices.** `demo_device_add` makes up to fifteen sysfs
entries, links and list nodes in five functions, takes references to the parent
and the bus, and shares a class directory between siblings; each step may fail
and jumps to one of a dozen labels. Correct means: all or nothing, no reference
lost, and the class directory lives as long as its devices.

**Message box.** At boot 21 requests go to the ARISC coprocessor in frames from
a small shared pool. Results are read out of the frame, three requests are not
waited for, and errors are ignored. Correct means: only failures cost frames,
success means that the request was served, settings that are switched off for a
while come back on, and the boot is not held up.

**CP210x.** The settings of a line live in the termios of the tty and in
registers of the device, which are read and written by control requests. Open
reads the device into the termios and corrects what it does not support;
`set_termios` writes what differs from the old termios, one request per part.
Every request can fail, the failures are logged and nothing more, and the device
may be unplugged. Correct means: after failures the tty and the device still
agree on everything that no failed request was about, and opening a port again
does not change a line.

**SMI tools.** Arduino programs give commands to a Marvell switch over MDC and
MDIO by setting pins. The registers of the SERDES ports are behind a command
and a data register of the switch, whose busy bit the tool polls a limited
number of times. Five programs share the two layers and differ in how they wait.
Correct means: the tool and the switch never drive MDIO together, a frame is one
access of the right register, commands reach the SERDES ports in order and with
their own data, and what is shown is what was read.

**Probe and remove.** Nearly every demo has a probe or init function that takes
memory, regions, mappings and registrations in order, and labels that give back
what was taken when a call is refused. Correct means: a driver that is not bound
holds nothing, and nothing is given back while something still works through it.

How they interact. The drivers meet in the kernel and nowhere else: in regions
and names of which the system has one (`DriverLife`), in the driver core, and in
the chips. `Mcp251x` and `CanFrame` describe one driver at two levels: in the
first a frame is a token with an owner, in the second the contents of registers;
`CanDriver` puts them together. `DeferredProbe` and `DeviceAdd` describe two sides
of one function, `demo_device_add`: `DeviceAdd` has every entry and every
failure but takes the call to `demo_bus_probe_device` for a step that changes
nothing it keeps, and `DeferredProbe` starts where the device has been added and
opens that call up. `Smi` is `SmiFrame` with the programs above it, and
`DemoDrivers` gives `DriverLife` its drivers.

## 2. Modules

Each module has the state of the code as variables, named as in the source
where that is possible, `Init`, one action per step that other threads can see,
`Next`, `Spec`, and the properties at the end. Definitions that begin with the
comment *Mutant* are deliberate mistakes: each is the code of the definition
after it with one plausible bug, and shows that a property notices. They are in
no specification.

### DummySerial

| Code | Model |
|---|---|
| `uart_write` (serial core) | `UartWrite` |
| `dummy_start_tx`: copy loop, `wake_up`, `init_completion` / return | `StartTx` / `TxWake` |
| `dummy_set_termios` | `SetTermios`, `TermiosDown`, `TermiosUp`, `TermiosInitCompletion`, `TermiosWake`, `TermiosKill` |
| `dummy_open`, `dummy_ioctl` | `Open`, `GetBaud` |
| `dummy_poll` | `PollWait`, `PollTest`, `PollWake` |
| `dummy_read` | `ReadLen`, `ReadCopy`, `ReadLoad`, `ReadStore`, `ReadTest`, `ReadComplete` |
| `dummy_fasync` | `FasyncOn`/`FasyncOff`, `FasyncDown`, `FasyncReset`, `FasyncComplete` |
| `dummy_release` | `Close`, the fasync steps, `ReleaseDown`, `ReleaseUp` |

Byte *n* is the *n*-th byte ever written, so order, loss and duplication are
visible. `tx_len -= read_len` is a load and a store. `Preempt` says whether the
kernel may switch threads between any two accesses or only where a thread
sleeps. `delivered` is a history of what user space has received.

`ByteChannel` is the promise: a number `sent` that grows, a sequence that is
always `1..n`, and the fairness that what was sent is delivered.
`DummySerial` implements it with `sent <- xtail` (`icount.tx`).

### Mcp251x

Frames are model values and `fate` says who owns each `sk_buff`.

| Code | Model |
|---|---|
| `mcp251x_hard_start_xmit` | `HardStartXmit` |
| `mcp251x_tx_work_handler` | `WorkerLock`, `TxWorkTest`, `TxWorkClean`, `TxWorkSend`, `WorkerUnlock` |
| `mcp251x_restart_work_handler` | `RestartReset`, `RestartMode`, `RestartAttached`, `RestartDone`, `RestartTx` |
| `mcp251x_can_ist` | `IstStart` ... `IstUnlock`, one action per SPI access or field that others read |
| `mcp251x_open`, `mcp251x_open_clean` | `OpenStart` ... `OpenClean` |
| `mcp251x_stop` | `StopFlush`, `StopIrq`, `StopDrain`, `StopChip` |
| `mcp251x_do_set_mode` | `Restart` |
| `mcp251x_can_suspend`, `mcp251x_can_resume` | `Freeze`, `SuspendQuit`, `Suspend`, `Resume`, `Thaw` |
| the chip and the bus | `ChipReceives`, `ChipTransmits`, `ChipError` |

### CanFrame

Registers are bytes and a frame is an identifier, flags, a length and data.

| Code | Model |
|---|---|
| `mcp251x_hw_tx`, `mcp251x_hw_tx_frame` | `hw_tx`, `hw_tx_frame` |
| `mcp251x_hw_rx_frame`, `mcp251x_hw_rx` | `hw_rx_frame`, `hw_rx` |
| `mcp251x_do_set_bittiming`, `mcp251x_write_bits` | `do_set_bittiming`, `write_bits` |
| the chips at both ends | `OnTheBus`, `ReceiveBuffer`, `TimingOf` |

`FramesSurvive` says that what one driver sends another one reads, with either
chip; `Left` is what the registers hold before.

### CanDriver

`Mcp251x` and `CanFrame` in one: a frame the chip has sent is any frame of
`CanFrame`, in registers left as they were by any other (`SentFrameArrives`),
and the chip takes part on the bus only with the bit timing it was given
(`OnTime`).

### DeferredProbe

`pc[t]` is where thread `t` is: the adding thread of a device, the worker, or
the initcall. `Attach`, `NextDriver`, `Probe`, `ProbeFailed`, `DeferredAdd`,
`Compare`, `Bound`, `DeferredDel`, `Trigger`, `Splice`, `QueueWork` are the steps
of `demo_really_probe` and the functions it calls; `DeviceDel`, `DeviceUnlist`,
`DeviceUnlink` those of `demo_device_del`. `stale` replaces the trigger counter:
the set of threads whose copy of it is out of date. `demo_driver_sysfs_add`
returns 0 whatever its links return, so the branches that test it are dead and
left out. `demo_driver_deferred_probe_del` is `list_del_init` of the one node a
device has, so `Unlist` removes one place of the list, not every occurrence.

### DeviceAdd

`entries[d]` is everything that exists for a device, `refs`, `glue` and
`busrefs` the references. Each creation is an action with a success and a
failure branch, and each label of the error path is a control state with the
label's name. `Unregister`, `DelClass`, `DelAttrs`, `DelBus`, `DelParent`,
`DelKobj` and `PutParent` are `demo_device_del`.

`demo_device_add_class_symlinks` falls through into its own error path, so a
device never keeps `demo_subsystem` and `demo_device`; the model does the same
(`OutDevice`, `OutSubsys`). `demo_device_unregister` has its last `put_device`
commented out, so `dev->p` stays; the model says so too.

### HwMsgBox

One definition per sender holds what that sender puts into its frame.
`Requests` is the order of `demo_arisc_hwmessagebox_init`. `Allocate`,
`NoMemory`, `Send`, `Answered`, `TimedOut`, `Fail` and `Free` are the body that
all senders share, and `Serve` is the ARISC. The box carries references: the
ARISC reads the frame when it serves it, so a frame that is freed too early and
used again is served with its new contents.

### Cp210x

| Code | Model |
|---|---|
| `cp210x_open` | `EnableUart`, then the steps of `get_termios`, `InitSpeed`, `GenericOpen` |
| `cp210x_get_termios_port` | `GetBaudrate`, `GetLineCtl`, `Correct`, `GetFlow` |
| `cp210x_quantise_baudrate` | `quantise_baudrate`, the table of rates `Quantum` |
| `cp210x_set_termios`, `cp210x_change_speed` | `SetTermios`, `UpdateSpeed`, `UpdateLine`, `UpdateFlow`, `ChangeSpeed` |
| `cp210x_close` | `Close` |
| `cp210x_startup`, unplugging | `Startup`, `Unplug` |

A request that fails may leave its buffer zeroed or as it was on the stack:
`Unread`. `doubt` is the set of settings that a failed request was about, or that an old
CMSPAR in the termios of a port plugged in again may hide (`Startup`), and
`programmed` says that the driver has set the line up since the device was
plugged in. The file has three copies (3.4, 3.5 and cp2105), and the module is
3.5.

### RegisterBus, SmiFrame, Smi, SmiMenu

`RegisterBus` is the promise: an access is asked for, takes effect at one
moment, and ends. `SmiFrame` is `read_smi` and `write_smi` with the MDC pulse as
the step; the PHYs sample the pin and answer a read after the turnaround. `Smi`
adds the programs: `Routine` is what `SERDES_read`, `SERDES_write` and `C_mode`
do in each tool, with the loops (`poll`, `clear`) and their counter as they are
in the code; `Execute` is the switch. `SmiMenu` turns what a user types into the
operations that follow, with the integer widths of the tool. `Orderly` says of a
program what the proofs need of it: no SERDES read follows a SERDES write before
the tool is back in its menu, and no write names the command or the data register.

### DriverLife, DemoDrivers

`DriverLife` is the life of any driver: `Bind`, `Succeed`, `Skip`, `Fail`,
`Probed`, `Unbind`, `Release`, `Released`. A driver is a table: what each step
of the probe takes, what the label it jumps to gives back and in which order,
how the probe goes on, what remove gives back, and what each resource is worked
through (`Touch`). `DemoDrivers` has the 52 tables, read off the code label by
label. Resources that the core gives back by itself (`devm_`) are not listed.

### MC modules

`MCDummySerial`, `MCMcp251x`, `MCCan`, `MCDeferredProbe`, `MCDeviceAdd`,
`MCHwMsgBox`, `MCCp210x`, `MCSmi` and `MCDriverLife` hold the small sets and
functions that the `.cfg` files give to the constants.

## 3. What TLC checks

| Run | Instance | Shows |
|---|---|---|
| `serial_preempt` | one manager, fifo 2, xmit ring 4, 4 bytes, 2 rates, preemption | types, order and completeness of delivery, the flags under `async_sem`, no rate change missed |
| `serial_up` | one manager that toggles SIGIO, 3 bytes, no preemption, fair | `dummy_start_tx` and `dummy_set_termios` return (`CallsReturn`); the port refines `ByteChannel` |
| `can_live` | one frame, levels ok/off, failing opens, fair | carrier, `tx_bytes`, lock; the queue wakes, stop ends, restart completes |
| `can_suspend` | two frames, suspends, failing opens; identifiers of one bit, lengths 0, 1, 7, 8, all bit timings | frames accounted for, queue and echo, nothing left after stop; frames and timings keep their meaning in the registers |
| `probe_live` | a chain of three devices, one of them matched first by a rejecting driver, one of them deleted again at any moment, fair | no retry lost, one probe at a time, lists sound, binding consistent, everything binds unless something is deleted |
| `probe_pair` | two drivers for one device | **violated**: a bound device ends up on a deferred list |
| `device_add` | a bridge, two children of one class, a grandchild, every failure | all or nothing, references, class directory |
| `hmb_boot` | 21 requests, pool of 2, one timeout, every failure | frames, NMI, served requests, the boot ends |
| `hmb_tdm` | the same without timeouts | **violated**: adding a period overwrites the TDM parameters |
| `cp210x` | two speeds, two sizes, three parities, a device set up by the driver or not, one failing request, replug | tty and device agree on what no failed request was about; reopening changes nothing |
| `smi` | nine sessions with five tools, frames of 65 pulses, a switch that may stay busy | one driver of MDIO; each frame is one access; SERDES operations in order, with their data, read right; the tool gets through |
| `driver_life` | 52 drivers, each alone and each two that want one region or name, every call refused at any time | tidy drivers give everything back; sound drivers give nothing back that is still worked through |

### Bounds

*Serial*: with a fifo of 2 and a ring of 4 a write can exceed the fifo, a fifo
is refilled after a partial burst, and the ring has room for new bytes while the
writer sleeps; 4 bytes are two fills. `Wrap = 16` is far above the fifo, as 2^32
is, and the proof holds for any value above it.

*CAN*: the driver has one buffer, so a second frame is what the stack may offer
while the first is anywhere; all of the bus levels between ok and off take the
same paths. Identifiers with a single bit, none and all show where each bit
goes; the theorem is about all of them. `Timings` has all bit timings that the
CAN core calculates within the limits of the chip.

*Probe*: three devices in a chain give a retry of a retry, and a trigger during
another's failing probe; the deleted one is in the middle, so that it has
somebody to wait for and somebody who waits for it.

*DeviceAdd*: two siblings race for one class directory, and the grandchild has
the parent's class and so takes the other branch of `demo_get_device_parent`.

*Message box*: a pool of two can be drained and lets a freed frame be reused at
once.

*CP210x*: one failure (`MaxFailures`) is what the properties distinguish; a
second would only add to `doubt`. The speed 4803 is the last that is quantised
to 4800, and the device that was not set up by the driver needs all three parts
of its line corrected.

*SMI*: frames have their real size. `Polls = 2` stands for 100, `Wrapped = 3`
for 65535, and one loop may give up (`MaxGiveUps`), at any of them. The sessions
have each entry of each menu, accepted and refused, the four init programs, and
numbers that do not fit in the tool's integers.

*DriverLife*: drivers meet only in exclusive resources, so pairs that share one
and single drivers are all the interesting loads: a third driver could only take
what a second one takes.

### Limits of properties

Some properties are stated with a limit because the code breaks them beyond it:
`RateChangeSignalled` for one manager (a second one that closes clears
`async_queue` for both); `NmiRestored` and `SuccessMeansServed` up to the first
timeout, the latter only for requests before `set_cpufreq`; `CarrierRecoverable`
without suspends and for a user who restarts only when all is quiet
(`PromptRestart = FALSE`); `QueueWakes` for a manual restart
(`RestartMs = FALSE`); `TxCountsFrame` without suspends, after which an interrupt
for a frame that was cleaned counts `tx_len - 1`; `StopLeavesNothing` without a
power switch or without suspends or without failing opens: only the three
together leave something behind; `SettingsAgree` but for the parity after a
device is plugged in again under a termios with CMSPAR, which `get_termios` does
not clear; `NoRetryLost`, `BoundMatchesDriver` and `OneProbe` for devices of
which only the last matching driver may ask to be deferred (`LastMayDefer`), all
three being violated on the instance of `probe_pair`; `SerdesInOrder` and
`SerdesReadRight` up to the first loop that gives up, since the tools go on as if
it had not, and in the proofs for `Orderly` programs, as those of all sessions of
`MCSmi` are (TLC evaluates `SessionsAreOrderly`): a user who types the address of
the command register can start the switch by hand; `OnTime` for calculated timings, since user-given segments above 8
quanta fit `mcp251x_bittiming_const` but overflow their fields of CNF2.

`NothingLost` and `HandlesLive` are stated for `Tidy` and `Sound`, the sets of
drivers that can keep them. The others are in the model and run as rivals; each
was left out because TLC shows that it breaks the property (but for `tty` and
`NothingLost`: there a remove that works on a port already freed is beyond what
the table can say):

| Left out of | Driver | Because |
|---|---|---|
| both | `gpio` | no labels; `kmalloc` is not looked at |
| both | `mdio_usage`, `mdio_misc` | a refused clock releases the wrong region; without a PHY the private data is freed and the probe succeeds; remove forgets half |
| both | `ethernet` | `err_io` gives nothing back, a late failure skips the bus, `free_mdio` frees the interrupts of a bus that is registered |
| both | `tty`, `tty_module` | probe reports success whatever the port returned, the labels forget the class and each other's fifo, `dummy_array` keeps a freed port |
| both | `proc_file`, `proc_subdir` | `remove_proc_entry` is given the entry itself |
| both | `clk` | an error pointer is compared with NULL and released; an early return leaks |
| Tidy | `bus_driver` | the device stays when the driver is refused |
| Tidy | `resource` | asks for the second of one IO resource and so ends, without a label |
| Tidy | `smbus` | the block write returns 0 when it succeeds and is compared with the length |
| Tidy | `aup`, `mdio_base`, `soc_mdio`, `can_up` | remove (or stop) gives nothing back |
| Tidy | the init rows of platform and I2C drivers | the device or client stays when the driver is refused |
| Tidy | `a_device` | the device and its name are never freed |
| Sound | `mcp` | `mcp251x_can_remove` frees `priv` and then the buffers that it finds through it |
| Sound | `misc` | a result is ignored, and what was refused is removed |

### Disagreements between the code and its comments

- `probe_pair`: `driver.c:121` promises that a bound device is on no deferred
  list. Without the mutexes, the worker and the adding thread can probe one
  device with two drivers; the failing one lists it again and clears
  `dev->driver` under the binding.
- `hmb_tdm`: `demo_arisc_HWB_audio_add_period` sends the message type of the
  sender above it (line 336), so the ARISC takes a buffer address for the sample
  rate.

Seen while modelling and not kept as runs: after a failed request for mark
parity `cp210x_get_termios` leaves CMSPAR in the termios for a device with odd
parity, against the comment at `cp210x_3.5.c:463`; `aup_tools.ino` takes 32 for
an address (sent as 0), cuts values to 8 bits and never returns from
`SMI_22C_Read`; `platform_reource.c:118` names a macro `TASE_BASE` that does not
exist (`TEST_BASE` is assumed); the other hazards in `PROJECT.json` whose note
begins with "It does happen".

### Fairness

- *Serial*: the header of `tty.c` says that the driver depends on a serial
  manager, so liveness assumes one that keeps opening, asking for SIGIO, polling
  and reading, however often it dies; strong fairness, since another thread may
  be running whenever it could. One core (the Hi3520D of line 3), and no
  preemption for liveness: with it `dummy_set_termios` can lose its wake-up
  between `up` and `init_completion` and sleep for ever (a listed hazard).
- *CAN*: threads run; a waiter gets a mutex in the end, because mutexes queue
  their waiters (strong fairness on the locking steps); a frame that the chip
  keeps sending while the bus is on is acknowledged in the end. `can_ist` loops
  with the lock held while frames keep arriving, so liveness is conditional on
  `BusPauses`. Nobody has to open, stop, restart or suspend.
- *Probe*: every thread runs; nobody has to delete.
- *Message box*: the boot thread runs and the ARISC serves its box.
- *SMI*: the Arduino runs. The switch may stay busy for ever with an operation,
  but not while a user is choosing from the menu, and not once the bound on
  give-ups is used up (`Settle`).

`Cp210x` and `DriverLife` have safety properties only: every wait in that code
is a call that returns.

## 4. What is proved

All for every value of the constants that satisfies the named assumptions of the
module.

| Theorem | Statement | Argument |
|---|---|---|
| `TypeCorrect` | types, and `xtail` never passes `xhead` | `RingInv` is needed: `Moved` is positive only because a kick means that xmit is not empty |
| `SemaphoreProtects` | `manager_reset` with a free semaphore means that nobody is registered | `SemInv`: the holder is exactly the thread between its down and up |
| `NoRateChangeIsMissed` | one manager: each rate change is known or signalled | `SignalInv`: a manager that is not told yet is registered, closing, or will see `manager_reset` |
| `BytesAreDelivered` | one manager, reads of at least the fifo's size: order, completeness, no overrun, no early `complete` | `DeliveryInv`: while a manager reads, the writer sleeps and `tx_len` does not change |
| `WriterNeverReturnsEarly` | the same, of `dummy_start_tx`: it returns to an empty fifo | part of `DeliveryInv`, `WriterInv` |
| `PortIsByteChannel` | the same: the port implements `ByteChannel` but for its fairness | `StartTx` is `Transmit`, `ReadCopy` is `Deliver`, every other step a stutter; `DeliveryInv` says that what a read copies are the next bytes |
| `FramesNeverLost` | every `sk_buff` is where `tx_skb` or the echo slot say | `FrameInv` adds that a stopped or opening interface has no frame, which is why `open` may overwrite both |
| `LockIsHeld` | `mcp_lock` is held by exactly the thread in its critical section | inductive with the control states |
| `NothingIsLeft` | unless `Stray`: a stopped interface has no frame, work, handler or awake chip | `StopInv`: for each step of open, stop, suspend and of the threads they wait for, what can still be under way |
| `AwakeMeansIdle` | unless `PromptRestart`: an awake queue means that the driver can take a frame | `ChipInv`: one frame is in the transmit buffer, or sent and not yet seen (`OneInChip`); the echo slot holds that frame (`EchoInChip`); the driver takes no other before its interrupt is dealt with (`ChipFirst`), and the transmitter is not restarted without a reset of the chip (`ResetFirst`) |
| `EchoIsTheFrameSent` | unless `PromptRestart`: `can_ist` echoes the frame the chip sent | `ChipInv` |
| `EveryEchoCounts`, `CarrierComesBack` | unless `PromptRestart` or `Suspends`: `tx_len` is set when a transmission is seen; a carrier that is off belongs to a device in bus-off | `BusOffInv`: from a bus-off to the reset `force_quit` keeps `can_ist` out, and a restart that has begun is on its way |
| `EveryFrameSurvives` | any frame with an 11 or 29 bit identifier is received as it was sent, with either chip | arithmetic of the fields, one lemma per register: `Identifier`, `SidlRead`, `DlcRead`; then transmit buffer, bus, receive buffer (`OnWire`, `Received`, `Read`) |
| `EveryTimingFits` | CNF1 to CNF3 hold any calculated timing | each segment is less than its field |
| `EverySentFrameArrives`, `ChipIsOnTime` | the two, of the frames and the timing in `CanDriver` | from the two |
| `EachIsListedOnce` | a device is on one deferred list at most, and once | with the types: the list operations, each as `RemoveAt`, `Append`, `Tail` or a concatenation (`RemoveAtIs`, `AppendIs`, `TailIs`, `SplicedIs`) |
| `NoTwoProbes` | `LastMayDefer`: no device is probed by two threads at once | `NextInv`: which of its device's drivers a thread is at, so a probe that has put its device on a list goes to no other driver; `HolderInv`: a device is on a list or one thread has it, never both |
| `BindingsAgree`, `BoundIsOffTheLists` | `LastMayDefer`: `dev->driver`, the driver's list and a successful probe agree, and a bound device is on no list | `BindInv`: what the thread that has a device has written of the three so far; without one they agree |
| `RetriesAreNotLost` | `LastMayDefer`: when all is quiet no deferred device has its needs met | `RetryInv`: a pending device whose needs are met has a trigger to come, be it from the thread that met them, from its own probe that finds the counter changed, or from the initcall; what is active has a worker to come |
| `RegistrationIsAllOrNothing` | a registration succeeds with everything or leaves nothing | `EntryInv`: for each kind of entry, the set of control states in which a device that wants it has it |
| `NothingIsPutTwice`, `GlueDirIsReleased`, `EveryReferenceIsReturned` | no count goes below zero; a class directory lives as long as its devices; what is taken is given back | `Count`: each count is the number of those that hold a reference, by control state, as the cardinality of a set of devices (`Members`: how one step changes it); a device's own step changes its own term only (`CountsMove`) |
| `OnlyFailuresDrainThePool` | a sender is refused a frame only when every frame was lost in a failure | `PoolInv` counts pool, sender and failures |
| `NmiIsRestored`, `SuccessIsServed` | until a send has timed out: a success before `set_cpufreq` means that this request was served once, and that of `enable_NMI` that the NMI is on | `OnTimeInv`: before `set_cpufreq` sender and box alternate, so the box holds the sender's frame, its answer or nothing; afterwards it holds no request from before `set_cpufreq`, so none that turns the NMI off |
| `TypesOfThePort`, `TtyShowsTheDevice` | an open tty shows each setting that is neither in doubt nor being set | `LineInv`, `SpeedInv`, `FlowInv`: how far `open` and `set_termios` have come, setting by setting |
| `ReopenLeavesTheLine` | opening a device that was set up without failures only enables it | `SetUpInv`, and that `quantise_baudrate` maps its results to themselves, row by row of its table |
| `FrameTypes` | types of pin, decoder and registers at each pulse | inductive |
| `NeverTwoDrivers` | tool and PHY never drive MDIO together | what the decoder has seen is what the tool has sent: both count the same pulses, so the PHY answers exactly between the turnaround and the last bit |
| `FrameIsAccess` | `SmiFrame` implements `RegisterBus` | the same invariant, and that the addresses and data collected so far are those of the frame; one step maps to `Begin`, `Read`/`Write`, `End` or stutters. The frame takes effect at one pulse |
| `ToolsNeverTwoDrivers`, `ToolsAccessRegisters` | the same of `Smi`, whatever the programs: it implements `SmiFrame`, and so `RegisterBus` | `ToolInv`: the steps left are a part of the routine of the operation that is first, so each access is one of `Frames`; `Execute` is a change that PHYs make themselves |
| `AskedInOrder`, `FetchedRight` | `OrderlyMenu`, until a loop gives up: what the switch does was asked last, with its data, and all before is done; `SERDES_read` returns what the register holds | `SerdesInv`: the frame that runs is that of the step (`CallInv`); each operation asked for is done, in the switch, or on the wire (`CountInv`); a poll that has read the busy bit clear means idle (`PollInv`), so the switch is idle when its registers are written (`IdleInv`), and the data register keeps the word of the write that is next (`LastInv`) or the answer of the read (`FetchInv`) |
| `SwitchDoesWhatIsAsked` | the same: SERDES registers change only as asked, in that order, each write with its own word | the same, and `CommandFields`: the fields of a command word are device and register, digit by digit (`Fields`, `LastDigits`) |
| `ToolTypes` | `OrderlyMenu`: types; no more is done than asked; the polls left stay in range when the counter wraps | `CountInv`, `BoundInv` |
| `ProgramsAreOrderly` | the seven programs that the tools have ready are `Orderly` | they write SERDES registers and lower registers only (`Plain`), and joining programs keeps that |
| `BalancedLosesNothing` | a driver whose table is `Balanced` loses nothing, whatever the others do | `TidyInv`: what is held is within what the steps so far have taken, and what is still to be released covers it |
| `OrderedStaysLive` | a driver whose table is `Ordered` never lets go of what it works through | `SoundInv`: what is held is closed under `Through`, and the rest of the releases unwinds it (`Unwinds`) |
| `SpiLosesNothing`, `SpiStaysLive` | the SPI driver is `Balanced` and `Ordered`, so it loses nothing and never lets go of what it works through, in any system | its table, step by step, and what is left after each release (`LeftNext`) |

Some have a hypothesis that the code needs, each with a run or a section above
that shows why. Those of the serial driver but for the first two assume
`Files = {m}`, `NoRateChangeIsMissed` that the manager gives SIGIO up only by
closing, the others that it reads whole fifos. `Stray` is a board with suspends,
a power switch and opens that fail, all together; `PromptRestart` a user who
restarts the interface by hand without waiting for the works. `LastMayDefer`
says of the board that only the last driver that matches a device may ask to be
deferred, as where one driver matches: `probe_pair` shows what two do.
`OrderlyMenu` is about what is typed, since the programs of the code are orderly;
the theorems about `Smi` also use that its widths are those of the code
(`SmiAssumption`), which those about frames do not. The counts of `DeviceAdd`
need finitely many devices.

The last three rest on conditions on the table. `Balanced`: the labels of a step
release at least what the steps before it take, and remove what all of them
take. `Ordered`: calls take one thing at a time, after what it is worked
through, and labels and remove unwind. Both can be computed for a given table:
evaluated with TLC, `TidyDrivers` are exactly the drivers that are `Balanced`,
and those of `SoundDrivers` are `Ordered` but for `aup`, `bus_driver`,
`kobject_base` and `can_up`, which go on after a refused call; for SPI both are
proved.

Each inductive invariant is a definition, of the proof module or of the module
it is about, and was checked with TLC before it was proved.

Only model-checked:

- liveness (`CallsReturn`, `QueueWakes`, `StopReturns`, `RestartCompletes`,
  `EveryDeviceBinds`, `BootCompletes`, `Completes`) and the fairness of
  `ByteChannel`, since ENABLED is out of the prover's reach;
- that the sessions of `SmiMenu` are `Orderly`: its programs are sequences built
  with folds, and what a fold computes needs induction over data.

Beyond the hypotheses of a theorem nothing is claimed: section 3 says what breaks
the property there, and two managers on one port are left to section 5.

## 5. What is left

### Not modelled

- *copies*: `subsystem/net/can` and `subsystem/net/mdio` are byte for byte files
  of `bus`; `cp210x_3.4.c` and `cp2105_3.10.c` have the functions of
  `cp210x_3.5.c`; the rest of `bus/common/{bus,class,device}` are the stages from
  which `device_register` grew, so what `DeviceAdd` says covers them in part;
- *dead*: `devres.c`, because nothing adds a resource to a device's list;
- *does not compile*: `bus/smi/gpio/SMI_gpio.c` (three names are not declared);
- *empty or one call*: `sketch_aug31a.ino`, `tools/aup_tools.ino`, the Arduino
  I2C sketch, show and store handlers, the demos that call one kernel service
  and print;
- *data*: the receive path of the dummy serial driver, which copies bytes into
  the tty; register values of the MDIO drivers; modem lines and break of the
  CP210x, which have registers of their own; string matching of the demo buses.

### Known and covered by no property

The code has these, and no comment or test promises otherwise:

- `tty.c`: a read shorter than `tx_len` leaves the rest in place, so the next one
  returns the first bytes again; bytes beyond the fifo wait in xmit until the
  next write; a manager that reads before the first write completes a completion
  that was never initialised;
- `mcp251x.c`: resume with the interface down queues work on a null workqueue if
  the board has a power switch; `do_set_mode` overwrites `after_suspend`;
  `mcp251x_open_clean` frees the interrupt with `mcp_lock` held; an open that
  fails late leaks the workqueue; `parse_sys_config` never frees its interrupt;
- `driver.c`, `device.c`: the lists are changed without a mutex, and a torn
  pointer is below the grain of the model; a device that is deleted while the
  worker has it is probed afterwards and binds; two first devices of a class
  that race for its directory may leave one in the top directory; class symlinks
  are removed again by the path that made them;
- `MDIO_MISC.c`: `ioc_phy_id` and `ioc_reg_id` belong to everybody who has the
  device open, and `mdio->read` is called without `mdio_lock`; the character
  device is there before the bus it works through;
- `can_device_parse_can_frame.c`: `tx_len` is never cleared nor the queue woken,
  so it sends one frame;
- `fs`: the exit functions of the directories are never registered, and
  `Debugfs_subdir` returns a variable that was never set.

### Worth doing next

1. Two managers on one port in `serial_preempt`, with a statement of what each
   may rely on.
2. Proofs: that what `SmiMenu` makes of any typed entry is `Orderly`, unless it
   names the command or the data register.
3. `Balanced` and `Ordered` for the platform tables, as for SPI.
