---------------------------- MODULE DummySerial ----------------------------
(***************************************************************************)
(* One port of the dummy serial driver, char/tty/tty.c.  The UART itself   *)
(* sits in another processor; a "serial manager" in user space moves the   *)
(* bytes.  Three kinds of threads share a struct dummy_uart_port:          *)
(*   - the serial core's transmit path, which calls dummy_start_tx;        *)
(*   - the serial core's termios path, which calls dummy_set_termios;      *)
(*   - one manager per open file of the character device, which polls,     *)
(*     reads, asks for SIGIO (fasync), fetches the baud rate and closes.   *)
(*                                                                         *)
(* The target is one core.  dummy_start_tx runs under the port's spin lock *)
(* with interrupts off until it sleeps, so its copy loop, its wake_up and  *)
(* its init_completion are one action.  The other handlers are cut at      *)
(* every access to shared state; Preempt says whether the kernel may       *)
(* switch threads there (CONFIG_PREEMPT) or only where a thread sleeps.    *)
(*                                                                         *)
(* Byte n is the n-th byte written to the tty: xmit holds bytes            *)
(* xtail+1 .. xhead and port->icount.tx equals xtail.                      *)
(***************************************************************************)
EXTENDS Integers, Sequences

CONSTANTS
  Files,         \* open files of the manager device
  Bauds,         \* baud rates a termios call can ask for
  TxFifoSize,    \* dummy_port_data.tx_fifo_size
  XmitSize,      \* UART_XMIT_SIZE
  ReadSizes,     \* sizes a manager passes to read(2)
  Preempt,       \* the kernel may switch threads inside kernel code
  Toggles,       \* a manager may clear O_ASYNC without closing
  Wrap,          \* 2^w for the unsigned long tx_len
  MaxBytes       \* bound on the bytes written to the tty

NoOne == "free"
Termios == "termios"

ASSUME DummySerialAssumption ==
  /\ TxFifoSize \in Nat \ {0}
  /\ XmitSize \in Nat \ {0, 1}
  /\ ReadSizes \subseteq Nat \ {0}
  /\ Bauds \subseteq Nat
  /\ Preempt \in BOOLEAN
  /\ Toggles \in BOOLEAN
  /\ MaxBytes \in Nat
  /\ Wrap \in Nat
  /\ Wrap > TxFifoSize
  /\ NoOne \notin Files /\ Termios \notin Files

VARIABLES
  xhead, xtail,       \* bytes put into, and taken out of, port->state->xmit
  kick,               \* a tty write has still to call uart_start
  tx_fifo, tx_len,    \* dummy->tx_fifo, dummy->tx_len
  write_ok,           \* dummy->write_ok: "uninit", "clear" or "done"
  poll_wq,            \* files asleep on, or queued by poll_wait on, poll_wq
  txpc,               \* transmit path: "idle" or "wait" (in wait_for_completion)
  baud,               \* dummy->baud
  tiopc,              \* control state of the termios path
  async_sem,          \* holder of dummy->async_sem, or NoOne
  async_queue,        \* files on dummy->async_queue ({} is NULL)
  manager_reset,      \* dummy->manager_reset
  manager_activie,    \* dummy->manager_activie.done > 0
  mpc,                \* control state of each file's manager
  mode,               \* why a file is in dummy_fasync: "on", "off", "close"
  rlen, rem,          \* dummy_read: read_len, and the loaded tx_len
  async,              \* files with FASYNC in f_flags
  sigio,              \* managers with SIGIO pending
  known,              \* baud rate each manager last fetched
  delivered           \* history: the bytes copied to user space, in order

txvars  == <<xhead, xtail, kick, tx_fifo, tx_len, write_ok, poll_wq, txpc>>
tiovars == <<baud, tiopc, async_sem, async_queue, manager_reset, manager_activie>>
rdvars  == <<rlen, rem, delivered>>
sigvars == <<mode, async, sigio, known>>
vars    == <<txvars, tiovars, mpc, rdvars, sigvars>>

Smaller(a, b) == IF a < b THEN a ELSE b

(* Where a thread runs user code or sleeps, so others run even if ~Preempt *)
TermiosYields == tiopc \in {"idle", "wait"}
ManagerYields(f) == mpc[f] \in {"closed", "idle", "asleep", "ready", "rd_copy"}

TxCanRun == Preempt \/ (TermiosYields /\ \A f \in Files : ManagerYields(f))
TermiosCanRun == Preempt \/ \A f \in Files : ManagerYields(f)
ManagerCanRun(f) == Preempt \/ (TermiosYields /\ \A g \in Files \ {f} : ManagerYields(g))

Init ==
  /\ xhead = 0 /\ xtail = 0 /\ kick = FALSE
  /\ tx_fifo = [i \in 0..(TxFifoSize - 1) |-> 0] /\ tx_len = 0
  /\ write_ok = "uninit" /\ poll_wq = {} /\ txpc = "idle"
  /\ baud = 0 /\ tiopc = "idle"
  /\ async_sem = NoOne /\ async_queue = {}
  /\ manager_reset = FALSE /\ manager_activie = FALSE
  /\ mpc = [f \in Files |-> "closed"] /\ mode = [f \in Files |-> "on"]
  /\ rlen = [f \in Files |-> 0] /\ rem = [f \in Files |-> 0]
  /\ async = {} /\ sigio = {} /\ known = [f \in Files |-> 0]
  /\ delivered = <<>>

-----------------------------------------------------------------------------
(* The transmit path                                                       *)

(* uart_write: n bytes enter xmit, then the core calls uart_start *)
UartWrite(n) ==
  /\ txpc = "idle" /\ ~kick
  /\ TxCanRun
  /\ xhead + n <= MaxBytes
  /\ xhead + n - xtail < XmitSize
  /\ xhead' = xhead + n
  /\ kick' = TRUE
  /\ UNCHANGED <<xtail, tx_fifo, tx_len, write_ok, poll_wq, txpc, tiovars, mpc,
                 rdvars, sigvars>>

(* mutant: uart_circ_empty is ignored *)
MovedIgnoresEmpty == IF tx_len < TxFifoSize THEN TxFifoSize - tx_len ELSE 1

(* Bytes one dummy_start_tx moves: a do-while, so never less than one *)
Moved == IF tx_len < TxFifoSize THEN Smaller(xhead - xtail, TxFifoSize - tx_len) ELSE 1

(* dummy_start_tx up to wait_for_completion *)
StartTx ==
  /\ txpc = "idle" /\ kick
  /\ TxCanRun
  /\ tx_fifo' = [i \in 0..(TxFifoSize - 1) |->
                   IF i >= tx_len /\ i < tx_len + Moved
                   THEN xtail + 1 + (i - tx_len) ELSE tx_fifo[i]]
  /\ tx_len' = (tx_len + Moved) % Wrap
  /\ xtail' = xtail + Moved
  /\ kick' = FALSE
  /\ poll_wq' = {}
  /\ write_ok' = "clear"
  /\ txpc' = "wait"
  /\ UNCHANGED <<xhead, tiovars, mpc, rdvars, sigvars>>

(* mutant: dummy_start_tx does not wait *)
TxWakeEarly ==
  /\ txpc = "wait" /\ TxCanRun
  /\ txpc' = "idle"
  /\ UNCHANGED <<xhead, xtail, kick, tx_fifo, tx_len, write_ok, poll_wq, tiovars, mpc,
                 rdvars, sigvars>>

(* wait_for_completion(&write_ok) returns *)
TxWake ==
  /\ txpc = "wait" /\ write_ok = "done"
  /\ TxCanRun
  /\ write_ok' = "clear"
  /\ txpc' = "idle"
  /\ UNCHANGED <<xhead, xtail, kick, tx_fifo, tx_len, poll_wq, tiovars, mpc, rdvars,
                 sigvars>>

-----------------------------------------------------------------------------
(* The termios path: dummy_set_termios                                     *)

(* the new rate is stored before anything else *)
SetTermios(b) ==
  /\ tiopc = "idle"
  /\ TermiosCanRun
  /\ baud' = b
  /\ tiopc' = "down"
  /\ UNCHANGED <<txvars, async_sem, async_queue, manager_reset, manager_activie, mpc,
                 rdvars, sigvars>>

(* down(&async_sem) and the test of async_queue *)
TermiosDown ==
  /\ tiopc = "down" /\ async_sem = NoOne
  /\ TermiosCanRun
  /\ async_sem' = Termios
  /\ tiopc' = IF async_queue = {} THEN "up_wait" ELSE "up_kill"
  /\ UNCHANGED <<txvars, baud, async_queue, manager_reset, manager_activie, mpc, rdvars,
                 sigvars>>

TermiosUp ==
  /\ tiopc \in {"up_wait", "up_kill"}
  /\ TermiosCanRun
  /\ async_sem' = NoOne
  /\ tiopc' = IF tiopc = "up_wait" THEN "init" ELSE "kill"
  /\ UNCHANGED <<txvars, baud, async_queue, manager_reset, manager_activie, mpc, rdvars,
                 sigvars>>

(* init_completion(&manager_activie) forgets what was completed before it *)
TermiosInitCompletion ==
  /\ tiopc = "init"
  /\ TermiosCanRun
  /\ manager_activie' = FALSE
  /\ tiopc' = "wait"
  /\ UNCHANGED <<txvars, baud, async_sem, async_queue, manager_reset, mpc, rdvars, sigvars>>

TermiosWake ==
  /\ tiopc = "wait" /\ manager_activie
  /\ TermiosCanRun
  /\ manager_activie' = FALSE
  /\ tiopc' = "kill"
  /\ UNCHANGED <<txvars, baud, async_sem, async_queue, manager_reset, mpc, rdvars, sigvars>>

(* kill_fasync without the semaphore: every queued manager gets SIGIO *)
TermiosKill ==
  /\ tiopc = "kill"
  /\ TermiosCanRun
  /\ sigio' = sigio \cup async_queue
  /\ tiopc' = "idle"
  /\ UNCHANGED <<txvars, baud, async_sem, async_queue, manager_reset, manager_activie, mpc,
                 rdvars, mode, async, known>>

TermiosStep ==
  TermiosDown \/ TermiosUp \/ TermiosInitCompletion \/ TermiosWake \/ TermiosKill

-----------------------------------------------------------------------------
(* The manager of file f                                                   *)

At(f, pc) == mpc[f] = pc /\ ManagerCanRun(f)
Goto(f, pc) == mpc' = [mpc EXCEPT ![f] = pc]

(* dummy_open; a restarted manager knows nothing about the baud rate *)
Open(f) ==
  /\ At(f, "closed")
  /\ Goto(f, "idle")
  /\ known' = [known EXCEPT ![f] = 0]
  /\ UNCHANGED <<txvars, tiovars, rdvars, mode, async, sigio>>

(* fcntl(F_SETFL) with or without O_ASYNC, and close, all enter dummy_fasync *)
EnterFasync(f, m) ==
  /\ Goto(f, "fas_down")
  /\ mode' = [mode EXCEPT ![f] = m]
  /\ UNCHANGED <<txvars, tiovars, rdvars, async, sigio, known>>

FasyncOn(f) == At(f, "idle") /\ f \notin async /\ EnterFasync(f, "on")
FasyncOff(f) == Toggles /\ At(f, "idle") /\ f \in async /\ EnterFasync(f, "off")

(* close, or the manager is killed, wherever it runs user code or polls *)
Close(f) ==
  /\ \E pc \in {"idle", "ready", "asleep"} : At(f, pc)
  /\ poll_wq' = poll_wq \ {f}
  /\ Goto(f, "fas_down")
  /\ mode' = [mode EXCEPT ![f] = "close"]
  /\ UNCHANGED <<xhead, xtail, kick, tx_fifo, tx_len, write_ok, txpc, tiovars, rdvars,
                 async, sigio, known>>

(* dummy_fasync: down(&async_sem) and fasync_helper *)
FasyncDown(f) ==
  /\ At(f, "fas_down") /\ async_sem = NoOne
  /\ async_sem' = f
  /\ async_queue' = IF mode[f] = "on" THEN async_queue \cup {f} ELSE async_queue \ {f}
  /\ async' = IF mode[f] = "on" THEN async \cup {f} ELSE async \ {f}
  /\ Goto(f, "fas_reset")
  /\ UNCHANGED <<txvars, baud, tiopc, manager_reset, manager_activie, rdvars, mode, sigio,
                 known>>

(* mutant: manager_reset is never cleared *)
FasyncResetKept(f) ==
  /\ At(f, "fas_reset")
  /\ sigio' = IF manager_reset THEN sigio \cup async_queue ELSE sigio
  /\ async_sem' = NoOne
  /\ Goto(f, "fas_complete")
  /\ UNCHANGED <<txvars, baud, tiopc, async_queue, manager_reset, manager_activie, rdvars,
                 mode, async, known>>

(* a restarted manager is told at once that the settings may have changed *)
FasyncReset(f) ==
  /\ At(f, "fas_reset")
  /\ manager_reset' = FALSE
  /\ sigio' = IF manager_reset THEN sigio \cup async_queue ELSE sigio
  /\ async_sem' = NoOne
  /\ Goto(f, "fas_complete")
  /\ UNCHANGED <<txvars, baud, tiopc, async_queue, manager_activie, rdvars, mode, async,
                 known>>

(* mutant: dummy_fasync does not complete manager_activie *)
FasyncCompleteMissing(f) ==
  /\ At(f, "fas_complete")
  /\ Goto(f, IF mode[f] = "close" THEN "rel_down" ELSE "idle")
  /\ UNCHANGED <<txvars, tiovars, rdvars, sigvars>>

(* complete(&manager_activie), on every path through dummy_fasync *)
FasyncComplete(f) ==
  /\ At(f, "fas_complete")
  /\ manager_activie' = TRUE
  /\ Goto(f, IF mode[f] = "close" THEN "rel_down" ELSE "idle")
  /\ UNCHANGED <<txvars, baud, tiopc, async_sem, async_queue, manager_reset, rdvars, sigvars>>

(* mutants: dummy_release forgets manager_reset; it does not take the semaphore *)
ReleaseDownNoReset(f) ==
  /\ At(f, "rel_down") /\ async_sem = NoOne
  /\ async_sem' = f
  /\ async_queue' = {}
  /\ Goto(f, "rel_up")
  /\ UNCHANGED <<txvars, baud, tiopc, manager_reset, manager_activie, rdvars, sigvars>>


(* dummy_release after dummy_fasync: the whole queue is dropped *)
ReleaseDown(f) ==
  /\ At(f, "rel_down") /\ async_sem = NoOne
  /\ async_sem' = f
  /\ async_queue' = {}
  /\ manager_reset' = TRUE
  /\ Goto(f, "rel_up")
  /\ UNCHANGED <<txvars, baud, tiopc, manager_activie, rdvars, sigvars>>

(* mutant: a manager that dies releases the writer *)
ReleaseUpWakesWriter(f) ==
  /\ At(f, "rel_up")
  /\ async_sem' = NoOne
  /\ write_ok' = "done"
  /\ sigio' = sigio \ {f}
  /\ Goto(f, "closed")
  /\ UNCHANGED <<xhead, xtail, kick, tx_fifo, tx_len, poll_wq, txpc, baud, tiopc, async_queue,
                 manager_reset, manager_activie, rdvars, mode, async, known>>

ReleaseUp(f) ==
  /\ At(f, "rel_up")
  /\ async_sem' = NoOne
  /\ sigio' = sigio \ {f}
  /\ Goto(f, "closed")
  /\ UNCHANGED <<txvars, baud, tiopc, async_queue, manager_reset, manager_activie, rdvars,
                 mode, async, known>>

(* the SIGIO handler fetches dummy->baud, ioctl 0xde; a poll is interrupted *)
GetBaud(f) ==
  /\ \E pc \in {"idle", "asleep"} : At(f, pc)
  /\ f \in sigio
  /\ sigio' = sigio \ {f}
  /\ known' = [known EXCEPT ![f] = baud]
  /\ poll_wq' = poll_wq \ {f}
  /\ Goto(f, "idle")
  /\ UNCHANGED <<xhead, xtail, kick, tx_fifo, tx_len, write_ok, txpc, tiovars, rdvars, mode,
                 async>>

(* dummy_poll: poll_wait queues the file, then tx_len is tested.  A manager *)
(* asks for SIGIO before it goes to sleep in poll.                          *)
PollWait(f) ==
  /\ At(f, "idle") /\ f \in async
  /\ poll_wq' = poll_wq \cup {f}
  /\ Goto(f, "poll_test")
  /\ UNCHANGED <<xhead, xtail, kick, tx_fifo, tx_len, write_ok, txpc, tiovars, rdvars,
                 sigvars>>

PollTest(f) ==
  /\ At(f, "poll_test")
  /\ poll_wq' = IF tx_len > 0 THEN poll_wq \ {f} ELSE poll_wq
  /\ Goto(f, IF tx_len > 0 THEN "ready" ELSE "asleep")
  /\ UNCHANGED <<xhead, xtail, kick, tx_fifo, tx_len, write_ok, txpc, tiovars, rdvars,
                 sigvars>>

(* wake_up took the file off poll_wq: poll calls dummy_poll again *)
PollWake(f) ==
  /\ At(f, "asleep") /\ f \notin poll_wq
  /\ Goto(f, "poll_test")
  /\ UNCHANGED <<txvars, tiovars, rdvars, sigvars>>

(* dummy_read after POLLIN: the length, taken from a first look at tx_len *)
ReadLen(f, size) ==
  /\ At(f, "ready")
  /\ rlen' = [rlen EXCEPT ![f] = Smaller(size, tx_len)]
  /\ Goto(f, "rd_copy")
  /\ UNCHANGED <<txvars, tiovars, rem, delivered, sigvars>>

(* copy_to_user, always from the start of tx_fifo; it may sleep.  Whatever *)
(* lies behind the fifo is read as 0, which is no byte of the stream.      *)
ReadCopy(f) ==
  /\ At(f, "rd_copy")
  /\ delivered' = delivered \o
       [i \in 1..rlen[f] |-> IF i <= TxFifoSize THEN tx_fifo[i - 1] ELSE 0]
  /\ Goto(f, "rd_load")
  /\ UNCHANGED <<txvars, tiovars, rlen, rem, sigvars>>

(* dummy->tx_len -= read_len is a load and a store *)
ReadLoad(f) ==
  /\ At(f, "rd_load")
  /\ rem' = [rem EXCEPT ![f] = tx_len]
  /\ Goto(f, "rd_store")
  /\ UNCHANGED <<txvars, tiovars, rlen, delivered, sigvars>>

ReadStore(f) ==
  /\ At(f, "rd_store")
  /\ tx_len' = (rem[f] - rlen[f]) % Wrap
  /\ Goto(f, "rd_test")
  /\ UNCHANGED <<xhead, xtail, kick, tx_fifo, write_ok, poll_wq, txpc, tiovars, rdvars,
                 sigvars>>

ReadTest(f) ==
  /\ At(f, "rd_test")
  /\ Goto(f, IF tx_len = 0 THEN "rd_complete" ELSE "idle")
  /\ UNCHANGED <<txvars, tiovars, rdvars, sigvars>>

(* complete(&write_ok); before the first dummy_start_tx nothing set it up *)
ReadComplete(f) ==
  /\ At(f, "rd_complete")
  /\ write_ok' = IF write_ok = "uninit" THEN "oops" ELSE "done"
  /\ Goto(f, "idle")
  /\ UNCHANGED <<xhead, xtail, kick, tx_fifo, tx_len, poll_wq, txpc, tiovars, rdvars,
                 sigvars>>

(* steps a manager takes once it is in the kernel *)
KernelStep(f) ==
  \/ FasyncDown(f) \/ FasyncReset(f) \/ FasyncComplete(f)
  \/ ReleaseDown(f) \/ ReleaseUp(f)
  \/ PollTest(f) \/ PollWake(f)
  \/ ReadCopy(f) \/ ReadLoad(f) \/ ReadStore(f) \/ ReadTest(f) \/ ReadComplete(f)

(* system calls a manager chooses to make *)
SystemCall(f) ==
  \/ Open(f) \/ FasyncOn(f) \/ FasyncOff(f) \/ Close(f) \/ GetBaud(f) \/ PollWait(f)
  \/ \E size \in ReadSizes : ReadLen(f, size)

Next ==
  \/ \E n \in 1..MaxBytes : UartWrite(n)
  \/ StartTx
  \/ TxWake
  \/ \E b \in Bauds : SetTermios(b)
  \/ TermiosStep
  \/ \E f \in Files : KernelStep(f)
  \/ \E f \in Files : SystemCall(f)

Spec == Init /\ [][Next]_vars

(* Runnable kernel threads run.  A manager that is started opens the device, *)
(* asks for SIGIO and keeps polling and reading, even if it is killed and    *)
(* restarted again and again: "This driver depends on a serial manager".     *)
Fairness ==
  /\ SF_vars(StartTx) /\ SF_vars(TxWake) /\ SF_vars(TermiosStep)
  /\ \A f \in Files :
       /\ SF_vars(KernelStep(f)) /\ SF_vars(Open(f))
       /\ SF_vars(FasyncOn(f)) /\ SF_vars(PollWait(f))
       /\ SF_vars(\E size \in ReadSizes : ReadLen(f, size))

FairSpec == Spec /\ Fairness

-----------------------------------------------------------------------------
(* Properties                                                              *)

TxTypeOK ==
  /\ xhead \in 0..MaxBytes /\ xtail \in 0..MaxBytes /\ kick \in BOOLEAN
  /\ tx_fifo \in [0..(TxFifoSize - 1) -> Nat] /\ tx_len \in 0..(Wrap - 1)
  /\ write_ok \in {"uninit", "clear", "done", "oops"}
  /\ poll_wq \subseteq Files /\ txpc \in {"idle", "wait"}

TermiosTypeOK ==
  /\ baud \in Bauds \cup {0}
  /\ tiopc \in {"idle", "down", "up_wait", "up_kill", "init", "wait", "kill"}
  /\ async_sem \in Files \cup {NoOne, Termios} /\ async_queue \subseteq Files
  /\ manager_reset \in BOOLEAN /\ manager_activie \in BOOLEAN

ManagerStates ==
  {"closed", "idle", "fas_down", "fas_reset", "fas_complete", "rel_down", "rel_up",
   "poll_test", "asleep", "ready", "rd_copy", "rd_load", "rd_store", "rd_test",
   "rd_complete"}

ManagerTypeOK ==
  /\ mpc \in [Files -> ManagerStates]
  /\ mode \in [Files -> {"on", "off", "close"}]
  /\ rlen \in [Files -> 0..(Wrap - 1)] /\ rem \in [Files -> 0..(Wrap - 1)]
  /\ async \subseteq Files /\ sigio \subseteq Files
  /\ known \in [Files -> Bauds \cup {0}]
  /\ delivered \in Seq(Nat)

TypeOK == TxTypeOK /\ TermiosTypeOK /\ ManagerTypeOK

(* dummy_start_tx never stores past tx_fifo: the do-while is entered only    *)
(* with room for a byte, however reads and writes of tx_len interleave.      *)
NoOverrun == tx_len <= TxFifoSize /\ (txpc = "idle" => tx_len < TxFifoSize)

(* dummy_start_tx returns only when the manager has copied every byte it put *)
(* into the fifo, so the fifo it next fills from its start is free.          *)
WriterReturnsDrained == txpc = "idle" => tx_len = 0 /\ Len(delivered) = xtail

(* dummy_tx_empty reports TIOCSER_TEMT (tcdrain returns) only when the bytes *)
(* counted in icount.tx have all reached user space.                         *)
TxEmptyIsTrue == tx_len = 0 => Len(delivered) = xtail

(* The manager receives the bytes written to the tty, each once, in order.   *)
DeliveredInOrder == \A i \in 1..Len(delivered) : delivered[i] = i

(* complete(&write_ok) is never called on a completion nobody initialised.   *)
NoOops == write_ok # "oops"

(* manager_reset says that the last manager went away and nobody registered  *)
(* since: with the semaphore free it implies an empty queue.                 *)
ResetMeansNobody == manager_reset /\ async_sem = NoOne => async_queue = {}

Registered(f) == f \in async /\ mpc[f] \notin {"fas_down", "fas_reset", "fas_complete",
                                               "rel_down", "rel_up", "closed"}

(* No rate change is missed: once dummy_set_termios has returned, a          *)
(* registered manager knows the rate or has SIGIO pending, whichever of the  *)
(* two was there first and however often the manager was restarted.          *)
RateChangeSignalled ==
  tiopc = "idle" => \A f \in Files : Registered(f) /\ known[f] # baud => f \in sigio

(* The strengthening that makes the delivery properties inductive.  A manager *)
(* that is reading owns the fifo: until it has stored the new tx_len the      *)
(* transmit path sleeps.                                                      *)
Reading == {"ready", "rd_copy", "rd_load", "rd_store", "rd_test", "rd_complete"}
Copied == \E f \in Files : mpc[f] \in {"rd_load", "rd_store"}

RingInv == xtail <= xhead /\ (kick => xtail < xhead)

FifoInv ==
  IF Copied
  THEN Len(delivered) = xtail
  ELSE /\ Len(delivered) + tx_len = xtail
       /\ \A i \in 0..(tx_len - 1) : tx_fifo[i] = Len(delivered) + 1 + i

WriterInv ==
  /\ txpc = "idle" => tx_len = 0 /\ write_ok # "done" /\ \A f \in Files : mpc[f] \notin Reading
  /\ txpc = "wait" => write_ok \in {"clear", "done"}
  /\ write_ok = "done" => tx_len = 0 /\ \A f \in Files : mpc[f] \notin Reading
  /\ write_ok # "oops"

ReaderInv ==
  \A f \in Files :
    /\ mpc[f] \in {"ready", "rd_copy", "rd_load", "rd_store"} => tx_len > 0
    /\ mpc[f] \in {"rd_copy", "rd_load", "rd_store"} => rlen[f] = tx_len
    /\ mpc[f] = "rd_store" => rem[f] = tx_len
    /\ mpc[f] \in {"rd_test", "rd_complete"} => tx_len = 0

DeliveryInv ==
  /\ RingInv /\ FifoInv /\ WriterInv /\ ReaderInv
  /\ tx_len <= TxFifoSize /\ DeliveredInOrder

(* The semaphore is held exactly by the thread between its down and its up,  *)
(* and only a thread that is about to clear it sees manager_reset set while  *)
(* somebody is registered.                                                   *)
SemInv ==
  /\ \A f \in Files : mpc[f] \in {"fas_reset", "rel_up"} <=> async_sem = f
  /\ tiopc \in {"up_wait", "up_kill"} <=> async_sem = Termios
  /\ manager_reset => \/ async_queue = {}
                      \/ \E f \in Files : mpc[f] = "fas_reset"

(* Manager f has been told of the rate, or will be when it next registers *)
Closing(f) ==
  mode[f] = "close" /\ mpc[f] \in {"fas_down", "fas_reset", "fas_complete", "rel_down", "rel_up"}
Covered(f) == f \in async \/ manager_reset \/ Closing(f)

(* Why no rate change is missed when there is one manager that gives up its   *)
(* registration only by closing.                                              *)
SignalInv ==
  /\ async_queue = async
  /\ \A f \in Files :
       /\ mpc[f] = "closed" => f \notin async
       /\ mpc[f] \in {"rel_down", "rel_up"} => mode[f] = "close" /\ f \notin async
       /\ mode[f] # "off"
       /\ mpc[f] = "fas_down" /\ mode[f] = "on" => f \notin async
       /\ mpc[f] \in {"fas_reset", "fas_complete"} => (f \in async <=> mode[f] = "on")
       /\ mpc[f] = "rel_up" => manager_reset
       /\ tiopc \in {"up_kill", "kill"} => Covered(f)
       /\ tiopc = "wait" /\ manager_activie => Covered(f)
       /\ f \in sigio => Covered(f)
       /\ ~Covered(f) => known[f] = 0 /\ (tiopc = "idle" => baud = 0)
       /\ tiopc = "idle" /\ f \in async =>
            \/ known[f] = baud \/ f \in sigio
            \/ mpc[f] = "fas_reset" /\ manager_reset
            \/ Closing(f)

(* The port is a reliable byte channel from icount.tx to user space. *)
Channel == INSTANCE ByteChannel WITH sent <- xtail
IsByteChannel == Channel!FairSpec

(* Every dummy_start_tx returns to the serial core, and every               *)
(* dummy_set_termios to its caller once a manager registers.                 *)
CallsReturn == /\ (txpc = "wait") ~> (txpc = "idle")
               /\ (tiopc = "down") ~> (tiopc = "idle")
=============================================================================
