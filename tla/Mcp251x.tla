------------------------------ MODULE Mcp251x ------------------------------
(***************************************************************************)
(* The MCP2515 CAN driver, bus/can/mcp251x.c, between probe and remove.    *)
(* Five threads meet here: the network stack calling hard_start_xmit, one  *)
(* worker running tx_work and restart_work in order, the interrupt thread  *)
(* (can_ist), the rtnl side (open, stop, manual restart) and power         *)
(* management (suspend, resume).  mcp_lock serialises chip access, but     *)
(* hard_start_xmit, do_set_mode, stop's first half, suspend and resume     *)
(* run without it.                                                         *)
(*                                                                         *)
(* Frames are model values.  fate[f] says where the sk_buff of f is: with  *)
(* the stack (never sent, echoed back or freed), in priv->tx_skb ("held")  *)
(* or in the echo slot ("echo").  mcp251x_clean is one step, and so is     *)
(* the manual restart, which runs in a timer.                              *)
(***************************************************************************)
EXTENDS Naturals, Sequences

CONSTANTS
  Frames,          \* frames the stack may send, again and again
  None,            \* no frame
  RestartMs,       \* can.restart_ms # 0: the chip recovers from bus-off alone
  PromptRestart,   \* the user may restart at once, not only when all is quiet
  Suspends,        \* the system may be suspended
  PowerEnable,     \* the board has a power_enable hook
  OpenFails,       \* the chip may fail to answer while it is opened
  Levels           \* the error levels the bus goes through

ASSUME Mcp251xAssumption ==
  /\ None \notin Frames
  /\ {RestartMs, PromptRestart, Suspends, PowerEnable, OpenFails} \subseteq BOOLEAN
  /\ Levels \subseteq {"ok", "warning", "passive", "off"} /\ "ok" \in Levels

Flags == {"RX", "TX", "ERR"}   \* CANINTF

VARIABLES
  up,               \* the interface: "down", "opening", "up", "stopping"
  npc,              \* control state of open and stop
  queue, carrier, present,   \* netif queue awake, carrier on, device attached
  tx_skb, tx_len,   \* priv->tx_skb, priv->tx_len # 0
  echo, fate,       \* can.echo_skb[0]; where each frame's sk_buff is
  wq, pending,      \* priv->wq exists; works queued on it, in order
  wpc,              \* control state of the worker
  lock,             \* holder of mcp_lock: "free", "worker", "ist", "net"
  ipc, intf, eflag, \* control state and locals of can_ist
  irq,              \* "freed", "on", "off"
  force_quit, after_suspend, restart_tx, can_state,
  chip,             \* the MCP2515
  pm,               \* "running", "frozen", "quit", "suspended", "resumed"
  oops              \* a NULL pointer was dereferenced

netvars  == <<up, npc, queue, carrier, present>>
txvars   == <<tx_skb, tx_len, echo, fate>>
wqvars   == <<wq, pending>>
istvars  == <<ipc, intf, eflag>>
privvars == <<force_quit, after_suspend, restart_tx, can_state>>
vars == <<netvars, txvars, wqvars, wpc, lock, istvars, irq, privvars, chip, pm, oops>>

Init ==
  /\ up = "down" /\ npc = "idle" /\ queue = FALSE /\ carrier = TRUE /\ present = TRUE
  /\ tx_skb = None /\ tx_len = FALSE /\ echo = None
  /\ fate = [f \in Frames |-> "stack"]
  /\ wq = FALSE /\ pending = <<>> /\ wpc = "idle" /\ lock = "free"
  /\ ipc = "idle" /\ intf = {} /\ eflag = "ok" /\ irq = "freed"
  /\ force_quit = FALSE /\ after_suspend = {} /\ restart_tx = FALSE
  /\ can_state = "stopped"
  /\ chip = [mode |-> "sleep", intf |-> {}, eflg |-> "ok", inte |-> FALSE,
             tx |-> None, sent |-> None]
  /\ pm = "running" /\ oops = FALSE

-----------------------------------------------------------------------------
(* Helpers                                                                 *)

(* queue_work: nothing happens to a work that is already pending *)
QueueWork(w) ==
  /\ pending' = IF wq /\ \A i \in 1..Len(pending) : pending[i] # w
                THEN Append(pending, w) ELSE pending
  /\ oops' = (oops \/ ~wq)

(* mcp251x_clean *)
Clean ==
  /\ fate' = [f \in Frames |-> IF f = tx_skb \/ (tx_len /\ f = echo)
                               THEN "stack" ELSE fate[f]]
  /\ echo' = IF tx_len THEN None ELSE echo
  /\ tx_skb' = None
  /\ tx_len' = FALSE

(* Mutant: the reset leaves CANINTF alone *)
ResetKeepsFlags(c) == [c EXCEPT !.mode = "conf", !.eflg = "ok",
                          !.tx = None, !.inte = FALSE]

(* mcp251x_hw_reset: registers at their defaults, interrupts disabled *)
ResetChip(c) == [c EXCEPT !.mode = "conf", !.intf = {}, !.eflg = "ok",
                          !.tx = None, !.inte = FALSE]
(* mcp251x_set_normal_mode *)
NormalChip(c) == [c EXCEPT !.mode = "normal", !.inte = TRUE]
(* mcp251x_hw_sleep *)
SleepChip(c) == [c EXCEPT !.mode = "sleep"]

-----------------------------------------------------------------------------
(* The chip and the bus                                                    *)

ChipVars == UNCHANGED <<netvars, txvars, wqvars, wpc, lock, istvars, irq, privvars, pm, oops>>

ChipReceives ==
  /\ chip.mode = "normal"
  /\ chip' = [chip EXCEPT !.intf = @ \cup {"RX"}]
  /\ ChipVars

ChipTransmits ==
  /\ chip.mode = "normal" /\ chip.tx # None /\ chip.eflg # "off"
  /\ chip' = [chip EXCEPT !.tx = None, !.sent = chip.tx, !.intf = @ \cup {"TX"}]
  /\ ChipVars

(* EFLG changes, also back to ok, and raises ERRIF *)
ChipError(level) ==
  /\ chip.mode = "normal" /\ level # chip.eflg
  /\ chip' = [chip EXCEPT !.eflg = level, !.intf = @ \cup {"ERR"}]
  /\ ChipVars

-----------------------------------------------------------------------------
(* Mutant: the queue is not stopped *)
XmitKeepsQueue(f) ==
  /\ up = "up" /\ queue /\ carrier
  /\ fate[f] = "stack"
  /\ tx_skb = None /\ ~tx_len
  /\ queue' = queue
  /\ tx_skb' = f
  /\ fate' = [fate EXCEPT ![f] = "held"]
  /\ QueueWork("tx")
  /\ UNCHANGED <<up, npc, carrier, present, tx_len, echo, wq, wpc, lock, istvars, irq,
                 privvars, chip, pm>>

(* mcp251x_hard_start_xmit; a busy driver keeps nothing of the frame, and
   the stack still sends from softirqs when user space is frozen *)
HardStartXmit(f) ==
  /\ up = "up" /\ queue /\ carrier
  /\ fate[f] = "stack"
  /\ tx_skb = None /\ ~tx_len
  /\ queue' = FALSE
  /\ tx_skb' = f
  /\ fate' = [fate EXCEPT ![f] = "held"]
  /\ QueueWork("tx")
  /\ UNCHANGED <<up, npc, carrier, present, tx_len, echo, wq, wpc, lock, istvars, irq,
                 privvars, chip, pm>>

-----------------------------------------------------------------------------
(* The worker: works run one at a time, in the order they were queued      *)

WorkerAt(pc) == wpc = pc /\ pm = "running"

StartWork ==
  /\ WorkerAt("idle") /\ pending # <<>>
  /\ wpc' = IF Head(pending) = "tx" THEN "tx_lock" ELSE "rs_lock"
  /\ pending' = Tail(pending)
  /\ UNCHANGED <<netvars, txvars, wq, lock, istvars, irq, privvars, chip, pm, oops>>

WorkerLock ==
  /\ (WorkerAt("tx_lock") \/ WorkerAt("rs_lock")) /\ lock = "free"
  /\ lock' = "worker"
  /\ wpc' = IF wpc = "tx_lock" THEN "tx_test" ELSE "rs_reset"
  /\ UNCHANGED <<netvars, txvars, wqvars, istvars, irq, privvars, chip, pm, oops>>

(* Mutant: the early return keeps mcp_lock *)
TxWorkReturnsLocked ==
  /\ WorkerAt("tx_test")
  /\ wpc' = IF tx_skb = None THEN "idle"
            ELSE IF can_state = "off" THEN "tx_clean" ELSE "tx_send"
  /\ UNCHANGED <<netvars, txvars, wqvars, lock, istvars, irq, privvars, chip, pm, oops>>

(* tx_work_handler looks at tx_skb and at the bus state ... *)
TxWorkTest ==
  /\ WorkerAt("tx_test")
  /\ wpc' = IF tx_skb = None THEN "unlock"
            ELSE IF can_state = "off" THEN "tx_clean" ELSE "tx_send"
  /\ UNCHANGED <<netvars, txvars, wqvars, lock, istvars, irq, privvars, chip, pm, oops>>

(* ... drops the frame in bus-off ... *)
TxWorkClean ==
  /\ WorkerAt("tx_clean")
  /\ Clean
  /\ wpc' = "unlock"
  /\ UNCHANGED <<netvars, wqvars, lock, istvars, irq, privvars, chip, pm, oops>>

(* Mutant: tx_skb is not cleared *)
TxWorkKeepsFrame ==
  /\ WorkerAt("tx_send")
  /\ wpc' = "unlock"
  /\ IF tx_skb = None
     THEN oops' = TRUE /\ UNCHANGED <<txvars, chip>>
     ELSE /\ chip' = [chip EXCEPT !.tx = tx_skb]
          /\ tx_len' = TRUE
          /\ echo' = IF echo = None THEN tx_skb ELSE echo
          /\ fate' = [fate EXCEPT ![tx_skb] = IF echo = None THEN "echo" ELSE "stack"]
          /\ tx_skb' = tx_skb
          /\ UNCHANGED oops
  /\ UNCHANGED <<netvars, wqvars, lock, istvars, irq, privvars, pm>>

(* ... or loads it into the chip and moves it to the echo slot *)
TxWorkSend ==
  /\ WorkerAt("tx_send")
  /\ wpc' = "unlock"
  /\ IF tx_skb = None
     THEN oops' = TRUE /\ UNCHANGED <<txvars, chip>>
     ELSE /\ chip' = [chip EXCEPT !.tx = tx_skb]
          /\ tx_len' = TRUE
          /\ echo' = IF echo = None THEN tx_skb ELSE echo
          /\ fate' = [fate EXCEPT ![tx_skb] = IF echo = None THEN "echo" ELSE "stack"]
          /\ tx_skb' = None
          /\ UNCHANGED oops
  /\ UNCHANGED <<netvars, wqvars, lock, istvars, irq, privvars, pm>>

(* restart_work_handler after a suspend or a manual restart: reset, setup *)
RestartReset ==
  /\ WorkerAt("rs_reset")
  /\ IF after_suspend = {}
     THEN wpc' = "rs_tx" /\ UNCHANGED chip
     ELSE wpc' = "rs_mode" /\ chip' = ResetChip(chip)
  /\ UNCHANGED <<netvars, txvars, wqvars, lock, istvars, irq, privvars, pm, oops>>

(* netif_device_attach wakes the queue before mcp251x_clean has run *)
RestartMode ==
  /\ WorkerAt("rs_mode")
  /\ \/ /\ "restart" \in after_suspend
        /\ chip' = NormalChip(chip) /\ can_state' = "active"
        /\ wpc' = "rs_done"
        /\ UNCHANGED <<queue, present>>
     \/ /\ "restart" \notin after_suspend /\ "up" \in after_suspend
        /\ present' = TRUE /\ queue' = (queue \/ ~present)
        /\ wpc' = "rs_attached"
        /\ UNCHANGED <<chip, can_state>>
     \/ /\ after_suspend \cap {"restart", "up"} = {}
        /\ chip' = SleepChip(chip)
        /\ wpc' = "rs_done"
        /\ UNCHANGED <<queue, present, can_state>>
  /\ UNCHANGED <<up, npc, carrier, txvars, wqvars, lock, istvars, irq, force_quit,
                 after_suspend, restart_tx, pm, oops>>

RestartAttached ==
  /\ WorkerAt("rs_attached")
  /\ Clean
  /\ chip' = NormalChip(chip) /\ can_state' = "active"
  /\ queue' = TRUE
  /\ wpc' = "rs_done"
  /\ UNCHANGED <<up, npc, carrier, present, wqvars, lock, istvars, irq, force_quit,
                 after_suspend, restart_tx, pm, oops>>

RestartDone ==
  /\ WorkerAt("rs_done")
  /\ after_suspend' = {} /\ force_quit' = FALSE
  /\ wpc' = "rs_tx"
  /\ UNCHANGED <<netvars, txvars, wqvars, lock, istvars, irq, restart_tx, can_state, chip, pm,
                 oops>>

(* Mutant: the queue is not woken *)
RestartTxNoWake ==
  /\ WorkerAt("rs_tx")
  /\ wpc' = "unlock"
  /\ IF restart_tx
     THEN /\ restart_tx' = FALSE
          /\ chip' = [chip EXCEPT !.tx = None]
          /\ Clean
          /\ queue' = queue
     ELSE UNCHANGED <<restart_tx, chip, txvars, queue>>
  /\ UNCHANGED <<up, npc, carrier, present, wqvars, lock, istvars, irq, force_quit,
                 after_suspend, can_state, pm, oops>>

(* the transmitter starts afresh *)
RestartTx ==
  /\ WorkerAt("rs_tx")
  /\ wpc' = "unlock"
  /\ IF restart_tx
     THEN /\ restart_tx' = FALSE
          /\ chip' = [chip EXCEPT !.tx = None]
          /\ Clean
          /\ queue' = TRUE
     ELSE UNCHANGED <<restart_tx, chip, txvars, queue>>
  /\ UNCHANGED <<up, npc, carrier, present, wqvars, lock, istvars, irq, force_quit,
                 after_suspend, can_state, pm, oops>>

WorkerUnlock ==
  /\ WorkerAt("unlock")
  /\ lock' = "free" /\ wpc' = "idle"
  /\ UNCHANGED <<netvars, txvars, wqvars, istvars, irq, privvars, chip, pm, oops>>

Worker ==
  \/ StartWork \/ WorkerLock \/ TxWorkTest \/ TxWorkClean \/ TxWorkSend
  \/ RestartReset \/ RestartMode \/ RestartAttached \/ RestartDone \/ RestartTx
  \/ WorkerUnlock

-----------------------------------------------------------------------------
(* mcp251x_can_ist, the threaded handler of a low-level interrupt          *)

IstAt(pc) == ipc = pc

IstSame == UNCHANGED <<up, npc, present, wqvars, wpc, irq, after_suspend, restart_tx, pm, oops>>

IstStart ==
  /\ IstAt("idle") /\ irq = "on" /\ chip.inte /\ chip.intf # {}
  /\ ipc' = "lock"
  /\ UNCHANGED <<queue, carrier, txvars, lock, intf, eflag, force_quit, can_state, chip>>
  /\ IstSame

IstLock ==
  /\ IstAt("lock") /\ lock = "free"
  /\ lock' = "ist" /\ ipc' = "loop"
  /\ UNCHANGED <<queue, carrier, txvars, intf, eflag, force_quit, can_state, chip>>
  /\ IstSame

(* one turn of the loop; reading a frame clears its flag in the MCP2515 *)
IstReceive ==
  /\ IstAt("loop")
  /\ IF force_quit
     THEN ipc' = "unlock" /\ UNCHANGED chip
     ELSE ipc' = "read" /\ chip' = [chip EXCEPT !.intf = @ \ {"RX"}]
  /\ UNCHANGED <<queue, carrier, txvars, lock, intf, eflag, force_quit, can_state>>
  /\ IstSame

(* the last mcp251x_read_2regs: the copies the rest of the turn works on *)
IstRead ==
  /\ IstAt("read")
  /\ intf' = chip.intf /\ eflag' = chip.eflg
  /\ ipc' = "clear"
  /\ UNCHANGED <<queue, carrier, txvars, lock, force_quit, can_state, chip>>
  /\ IstSame

(* Mutant: the TX flag is not cleared *)
IstClearErrOnly ==
  /\ IstAt("clear")
  /\ chip' = [chip EXCEPT !.intf = @ \ (intf \cap {"ERR"})]
  /\ ipc' = "update"
  /\ UNCHANGED <<queue, carrier, txvars, lock, intf, eflag, force_quit, can_state>>
  /\ IstSame

IstClear ==
  /\ IstAt("clear")
  /\ chip' = [chip EXCEPT !.intf = @ \ (intf \cap {"ERR", "TX"})]
  /\ ipc' = "update"
  /\ UNCHANGED <<queue, carrier, txvars, lock, intf, eflag, force_quit, can_state>>
  /\ IstSame

(* where a turn goes after the bus state has been dealt with *)
AfterState == IF intf = {} THEN "unlock" ELSE IF "TX" \in intf THEN "tx" ELSE "loop"

IstUpdate ==
  /\ IstAt("update")
  /\ can_state' = IF eflag = "ok" THEN "active" ELSE eflag
  /\ ipc' = "test"
  /\ UNCHANGED <<queue, carrier, txvars, lock, intf, eflag, force_quit, chip>>
  /\ IstSame

IstTest ==
  /\ IstAt("test")
  /\ ipc' = IF can_state = "off" /\ ~RestartMs THEN "busoff" ELSE AfterState
  /\ UNCHANGED <<queue, carrier, txvars, lock, intf, eflag, force_quit, can_state, chip>>
  /\ IstSame

(* Mutant: force_quit is not set *)
IstBusOffStays ==
  /\ IstAt("busoff")
  /\ force_quit' = force_quit
  /\ carrier' = FALSE
  /\ ipc' = "sleep"
  /\ UNCHANGED <<queue, txvars, lock, intf, eflag, can_state, chip>>
  /\ IstSame

IstBusOff ==
  /\ IstAt("busoff")
  /\ force_quit' = TRUE
  /\ carrier' = FALSE
  /\ ipc' = "sleep"
  /\ UNCHANGED <<queue, txvars, lock, intf, eflag, can_state, chip>>
  /\ IstSame

(* Mutant: returns with mcp_lock held *)
IstSleepReturns ==
  /\ IstAt("sleep")
  /\ chip' = SleepChip(chip)
  /\ ipc' = "idle"
  /\ UNCHANGED <<queue, carrier, txvars, lock, intf, eflag, force_quit, can_state>>
  /\ IstSame

IstSleep ==
  /\ IstAt("sleep")
  /\ chip' = SleepChip(chip)
  /\ ipc' = "unlock"
  /\ UNCHANGED <<queue, carrier, txvars, lock, intf, eflag, force_quit, can_state>>
  /\ IstSame

(* the frame has been sent: its echo goes back and the queue wakes *)
IstTx ==
  /\ IstAt("tx")
  /\ IF tx_len
     THEN /\ fate' = [f \in Frames |-> IF f = echo THEN "stack" ELSE fate[f]]
          /\ echo' = None /\ tx_len' = FALSE
     ELSE UNCHANGED <<fate, echo, tx_len>>
  /\ queue' = TRUE
  /\ ipc' = "loop"
  /\ UNCHANGED <<carrier, tx_skb, lock, intf, eflag, force_quit, can_state, chip>>
  /\ IstSame

IstUnlock ==
  /\ IstAt("unlock")
  /\ lock' = "free" /\ ipc' = "idle"
  /\ intf' = {} /\ eflag' = "ok"
  /\ UNCHANGED <<queue, carrier, txvars, force_quit, can_state, chip>>
  /\ IstSame

Ist ==
  \/ IstStart \/ IstLock \/ IstReceive \/ IstRead \/ IstClear \/ IstUpdate
  \/ IstTest \/ IstBusOff \/ IstSleep \/ IstTx \/ IstUnlock

-----------------------------------------------------------------------------
(* rtnl: open, stop and the manual restart, one at a time                  *)

UserAt(pc) == npc = pc /\ pm = "running"

NetSame == UNCHANGED <<present, pending, wpc, istvars, after_suspend, restart_tx, pm, oops>>

(* open_candev turns the carrier on if it was left off *)
OpenStart ==
  /\ UserAt("idle") /\ up = "down"
  /\ up' = "opening" /\ npc' = "o_lock" /\ carrier' = TRUE
  /\ UNCHANGED <<queue, txvars, wq, lock, irq, force_quit, can_state, chip>>
  /\ NetSame

OpenLock ==
  /\ UserAt("o_lock") /\ lock = "free"
  /\ lock' = "net" /\ npc' = "o_irq"
  /\ force_quit' = FALSE /\ tx_skb' = None /\ tx_len' = FALSE
  /\ UNCHANGED <<up, queue, carrier, echo, fate, wq, irq, can_state, chip>>
  /\ NetSame

OpenIrq ==
  /\ UserAt("o_irq")
  /\ irq' = "on" /\ wq' = TRUE /\ npc' = "o_reset"
  /\ UNCHANGED <<up, queue, carrier, txvars, lock, force_quit, can_state, chip>>
  /\ NetSame

OpenIrqFails ==
  /\ OpenFails /\ UserAt("o_irq")
  /\ up' = "down" /\ lock' = "free" /\ npc' = "idle"
  /\ UNCHANGED <<queue, carrier, txvars, wq, irq, force_quit, can_state, chip>>
  /\ NetSame

OpenReset ==
  /\ UserAt("o_reset")
  /\ chip' = ResetChip(chip)
  /\ npc' \in {"o_normal"} \cup (IF OpenFails THEN {"o_fail"} ELSE {})
  /\ UNCHANGED <<up, queue, carrier, txvars, wq, lock, irq, force_quit, can_state>>
  /\ NetSame

OpenNormal ==
  /\ UserAt("o_normal")
  /\ chip' = NormalChip(chip) /\ can_state' = "active"
  /\ queue' = TRUE /\ up' = "up" /\ lock' = "free" /\ npc' = "idle"
  /\ UNCHANGED <<carrier, txvars, wq, irq, force_quit>>
  /\ NetSame

(* interrupts are enabled but the chip does not leave configuration mode *)
OpenNormalFails ==
  /\ OpenFails /\ UserAt("o_normal")
  /\ chip' = [chip EXCEPT !.inte = TRUE] /\ npc' = "o_fail"
  /\ UNCHANGED <<up, queue, carrier, txvars, wq, lock, irq, force_quit, can_state>>
  /\ NetSame

(* mcp251x_open_clean: free_irq waits for can_ist, the workqueue stays *)
OpenClean ==
  /\ UserAt("o_fail") /\ ipc = "idle"
  /\ irq' = "freed" /\ chip' = SleepChip(chip)
  /\ up' = "down" /\ lock' = "free" /\ npc' = "idle"
  /\ UNCHANGED <<queue, carrier, txvars, wq, force_quit, can_state>>
  /\ NetSame

(* close_candev frees the echo without mcp_lock, then free_irq ... *)
StopFlush ==
  /\ UserAt("idle") /\ up = "up"
  /\ up' = "stopping" /\ npc' = "s_irq"
  /\ fate' = [f \in Frames |-> IF f = echo THEN "stack" ELSE fate[f]]
  /\ echo' = None /\ force_quit' = TRUE
  /\ UNCHANGED <<queue, carrier, tx_skb, tx_len, wq, lock, irq, can_state, chip>>
  /\ NetSame

StopIrq ==
  /\ UserAt("s_irq")
  /\ irq' = "freed" /\ npc' = "s_drain"
  /\ UNCHANGED <<up, queue, carrier, txvars, wq, lock, force_quit, can_state, chip>>
  /\ NetSame

(* Mutant: the workqueue goes away with works on it *)
StopNoDrain ==
  /\ UserAt("s_drain") /\ ipc = "idle" /\ wpc = "idle"
  /\ wq' = FALSE /\ npc' = "s_lock"
  /\ UNCHANGED <<up, queue, carrier, txvars, lock, irq, force_quit, can_state, chip>>
  /\ NetSame

(* ... returns when can_ist has, and destroy_workqueue when the worker has *)
StopDrain ==
  /\ UserAt("s_drain") /\ ipc = "idle" /\ wpc = "idle" /\ pending = <<>>
  /\ wq' = FALSE /\ npc' = "s_lock"
  /\ UNCHANGED <<up, queue, carrier, txvars, lock, irq, force_quit, can_state, chip>>
  /\ NetSame

StopChip ==
  /\ UserAt("s_lock") /\ lock = "free"
  /\ chip' = SleepChip([chip EXCEPT !.inte = FALSE, !.intf = {}, !.tx = None])
  /\ Clean
  /\ can_state' = "stopped"
  /\ up' = "down" /\ npc' = "idle"
  /\ UNCHANGED <<queue, carrier, wq, lock, irq, force_quit>>
  /\ NetSame

(* "ip link set can0 type can restart": the CAN core flushes the echo and
   turns the carrier on before mcp251x_do_set_mode(CAN_MODE_START) *)
RestartQuiet == ~carrier /\ wpc = "idle" /\ \A i \in 1..Len(pending) : pending[i] # "restart"

(* Mutant: restart_work is not queued *)
RestartNotQueued ==
  /\ UserAt("idle") /\ up = "up" /\ can_state = "off" /\ ~RestartMs
  /\ PromptRestart \/ RestartQuiet
  /\ carrier' = TRUE
  /\ fate' = [f \in Frames |-> IF f \in {echo, tx_skb} THEN "stack" ELSE fate[f]]
  /\ echo' = None /\ tx_skb' = None /\ tx_len' = FALSE
  /\ can_state' = "active" /\ restart_tx' = TRUE /\ after_suspend' = {"restart"}
  /\ UNCHANGED <<pending, oops>>
  /\ UNCHANGED <<up, npc, queue, present, wq, wpc, lock, istvars, irq, force_quit, chip, pm>>

Restart ==
  /\ UserAt("idle") /\ up = "up" /\ can_state = "off" /\ ~RestartMs
  /\ PromptRestart \/ RestartQuiet
  /\ carrier' = TRUE
  /\ fate' = [f \in Frames |-> IF f \in {echo, tx_skb} THEN "stack" ELSE fate[f]]
  /\ echo' = None /\ tx_skb' = None /\ tx_len' = FALSE
  /\ can_state' = "active" /\ restart_tx' = TRUE /\ after_suspend' = {"restart"}
  /\ QueueWork("restart")
  /\ UNCHANGED <<up, npc, queue, present, wq, wpc, lock, istvars, irq, force_quit, chip, pm>>

User ==
  \/ OpenStart \/ OpenLock \/ OpenIrq \/ OpenIrqFails \/ OpenReset \/ OpenNormal
  \/ OpenNormalFails \/ OpenClean
  \/ StopFlush \/ StopIrq \/ StopDrain \/ StopChip
  \/ Restart

-----------------------------------------------------------------------------
(* Power management.  Processes and the freezable workqueue are frozen     *)
(* first; the interrupt thread and the stack's softirqs are not.           *)

PmSame == UNCHANGED <<up, npc, carrier, txvars, wq, wpc, lock, istvars, restart_tx, can_state>>

Freeze ==
  /\ Suspends /\ UserAt("idle") /\ wpc = "idle"
  /\ pm' = "frozen"
  /\ UNCHANGED <<queue, present, pending, irq, force_quit, after_suspend, chip, oops>>
  /\ PmSame

(* mcp251x_can_suspend: disable_irq waits for can_ist to leave its loop *)
SuspendQuit ==
  /\ pm = "frozen"
  /\ force_quit' = TRUE
  /\ irq' = IF irq = "on" THEN "off" ELSE irq
  /\ pm' = "quit"
  /\ UNCHANGED <<queue, present, pending, after_suspend, chip, oops>>
  /\ PmSame

Suspend ==
  /\ pm = "quit" /\ ipc = "idle"
  /\ IF up = "up"
     THEN present' = FALSE /\ queue' = FALSE /\ chip' = SleepChip(chip)
     ELSE UNCHANGED <<present, queue, chip>>
  /\ after_suspend' = {IF up = "up" THEN "up" ELSE "down"}
                      \cup (IF PowerEnable THEN {"power"} ELSE {})
  /\ pm' = "suspended"
  /\ UNCHANGED <<pending, irq, force_quit, oops>>
  /\ PmSame

(* mcp251x_can_resume *)
Resume ==
  /\ pm = "suspended"
  /\ \/ /\ after_suspend \cap {"power", "up"} # {}
        /\ QueueWork("restart")
        /\ UNCHANGED after_suspend
     \/ /\ after_suspend \cap {"power", "up"} = {}
        /\ after_suspend' = {}
        /\ UNCHANGED <<pending, oops>>
  /\ force_quit' = FALSE
  /\ irq' = IF irq = "off" THEN "on" ELSE irq
  /\ pm' = "resumed"
  /\ UNCHANGED <<queue, present, chip>>
  /\ PmSame

Thaw ==
  /\ pm = "resumed"
  /\ pm' = "running"
  /\ UNCHANGED <<queue, present, pending, irq, force_quit, after_suspend, chip, oops>>
  /\ PmSame

PowerManagement == Freeze \/ SuspendQuit \/ Suspend \/ Resume \/ Thaw

-----------------------------------------------------------------------------
Chip == ChipReceives \/ ChipTransmits \/ \E level \in Levels : ChipError(level)

(* a NULL dereference stops the kernel *)
Next ==
  /\ ~oops
  /\ \/ Chip \/ Worker \/ Ist \/ User \/ PowerManagement
     \/ \E f \in Frames : HardStartXmit(f)

Spec == Init /\ [][Next]_vars

(* A thread that can run does; a thread waiting for mcp_lock gets it in the
   end (mutexes queue their waiters); a frame the chip keeps sending while
   the bus is on is acknowledged in the end.  Nobody has to open, stop,
   restart or suspend. *)
UserFinishes ==
  \/ OpenLock \/ OpenIrq \/ OpenIrqFails \/ OpenReset \/ OpenNormal \/ OpenNormalFails
  \/ OpenClean \/ StopIrq \/ StopDrain \/ StopChip

Fairness ==
  /\ WF_vars(~oops /\ Worker) /\ SF_vars(~oops /\ WorkerLock)
  /\ WF_vars(~oops /\ Ist) /\ SF_vars(~oops /\ IstLock)
  /\ WF_vars(~oops /\ UserFinishes)
  /\ SF_vars(~oops /\ OpenLock) /\ SF_vars(~oops /\ StopChip)
  /\ SF_vars(~oops /\ ChipTransmits)

FairSpec == Spec /\ Fairness

-----------------------------------------------------------------------------
(* Properties                                                              *)

WorkerStates == {"idle", "tx_lock", "tx_test", "tx_clean", "tx_send", "rs_lock", "rs_reset",
                 "rs_mode", "rs_attached", "rs_done", "rs_tx", "unlock"}
IstStates == {"idle", "lock", "loop", "read", "clear", "update", "test", "busoff", "sleep",
              "tx", "unlock"}
UserStates == {"idle", "o_lock", "o_irq", "o_reset", "o_normal", "o_fail", "s_irq",
               "s_drain", "s_lock"}

Works == {"tx", "restart"}

ChipTypes ==
  [mode : {"sleep", "conf", "normal"}, intf : SUBSET Flags, eflg : Levels,
   inte : BOOLEAN, tx : Frames \cup {None}, sent : Frames \cup {None}]

(* The type invariant of the driver's state *)
TypeOK ==
  /\ up \in {"down", "opening", "up", "stopping"} /\ npc \in UserStates
  /\ {queue, carrier, present, tx_len, wq, force_quit, restart_tx, oops} \subseteq BOOLEAN
  /\ {tx_skb, echo} \subseteq Frames \cup {None}
  /\ fate \in [Frames -> {"stack", "held", "echo"}]
  /\ pending \in Seq(Works) /\ Len(pending) <= 2
  /\ wpc \in WorkerStates /\ ipc \in IstStates
  /\ lock \in {"free", "worker", "ist", "net"}
  /\ intf \subseteq Flags /\ eflag \in Levels
  /\ irq \in {"freed", "on", "off"}
  /\ after_suspend \subseteq {"up", "down", "power", "restart"}
  /\ can_state \in {"stopped", "active", "warning", "passive", "off"}
  /\ chip \in ChipTypes
  /\ pm \in {"running", "frozen", "quit", "suspended", "resumed"}

(* No sk_buff is lost or freed twice: a frame the driver has taken over and
   not given back is the one in priv->tx_skb or the one in the echo slot,
   whichever of the worker, can_ist, stop and the restart timer moved it. *)
FramesAccounted ==
  \A f \in Frames :
    /\ fate[f] = "held" <=> f = tx_skb
    /\ fate[f] = "echo" <=> f = echo

(* The driver has one frame at a time, and one in the echo slot is always
   announced by tx_len, the only thing mcp251x_clean looks at. *)
OneFrame ==
  /\ tx_skb # None => ~tx_len
  /\ echo # None => tx_len

(* The inductive form of the two: a stopped interface has no frame, which is
   why mcp251x_open may overwrite tx_skb and tx_len. *)
FrameInv ==
  /\ tx_skb \in Frames \cup {None} /\ echo \in Frames \cup {None} /\ tx_len \in BOOLEAN
  /\ fate \in [Frames -> {"stack", "held", "echo"}]
  /\ FramesAccounted
  /\ OneFrame
  /\ up \in {"down", "opening"} => tx_skb = None /\ echo = None /\ ~tx_len
  /\ npc \in {"o_lock", "o_irq", "o_reset", "o_normal", "o_fail"} => up = "opening"

(* The queue of a running interface is awake only while the driver can take
   a frame; only netif_device_attach wakes it too early after a suspend. *)
QueueAwakeMeansIdle ==
  queue /\ up = "up" /\ wpc # "rs_attached" => tx_skb = None /\ ~tx_len

(* When can_ist reports a transmission, the frame it echoes back is the one
   the chip sent last. *)
EchoIsSent == ipc = "tx" => echo \in {chip.sent, None}

(* ... and tx_len is still set, so that tx_len - 1 is not added to tx_bytes
   as -1. *)
TxCountsFrame == ipc = "tx" => tx_len

(* While the interface is up, a carrier turned off by can_bus_off can be
   turned on again: the CAN core restarts only from CAN_STATE_BUS_OFF. *)
CarrierRecoverable == up = "up" /\ ~carrier => can_state = "off"

(* A stopped interface keeps no frame, no work, no interrupt handler, and
   leaves the chip asleep. *)
StopLeavesNothing ==
  up = "down" => /\ tx_skb = None /\ echo = None /\ ~tx_len
                 /\ pending = <<>> /\ wpc = "idle" /\ ipc = "idle" /\ irq = "freed"
                 /\ chip.mode = "sleep"

(* mcp_lock has one holder, the thread that is inside its critical section. *)
LockHeld ==
  /\ lock = "worker" <=> wpc \notin {"idle", "tx_lock", "rs_lock"}
  /\ lock = "ist" <=> ipc \notin {"idle", "lock"}
  /\ lock = "net" <=> npc \in {"o_irq", "o_reset", "o_normal", "o_fail"}

-----------------------------------------------------------------------------
(* What makes the five inductive                                           *)

(* Who may be active when the interface is, or is about to be, closed.     *)
(* Only the resume of a board with a power_enable hook may queue a work    *)
(* then, on the workqueue that a failed open leaves behind.                *)
Opening == {"o_lock", "o_irq", "o_reset", "o_normal", "o_fail"}
Stopping == {"s_irq", "s_drain", "s_lock"}
Stray == Suspends /\ PowerEnable /\ OpenFails

StopInv ==
  /\ up \in {"down", "opening", "up", "stopping"} /\ npc \in UserStates
  /\ npc \in Opening <=> up = "opening"
  /\ npc \in Stopping <=> up = "stopping"
  /\ pm # "running" => Suspends /\ npc = "idle" /\ wpc = "idle"
  /\ up = "down" \/ npc \in {"o_lock", "o_irq", "s_drain", "s_lock"} => irq = "freed"
  /\ up = "down" \/ npc \in {"o_lock", "o_irq", "s_lock"} => ipc = "idle"
  /\ (up \in {"down", "opening"} /\ ~Stray) \/ npc = "s_lock"
       => pending = <<>> /\ wpc = "idle"
  /\ (up = "down" \/ npc \in {"o_lock", "o_irq"}) /\ ~Stray => chip.mode = "sleep"
  /\ (up = "down" /\ ~OpenFails) \/ npc = "s_lock" => ~wq
  /\ up = "up" \/ npc \in {"o_reset", "o_normal"} => wq
  /\ npc = "o_fail" => OpenFails
  /\ pm = "suspended" =>
       after_suspend = {IF up = "up" THEN "up" ELSE "down"}
                       \cup (IF PowerEnable THEN {"power"} ELSE {})

(* A frame is in the chip, or its TX interrupt has still to be dealt with. *)
Turn == {"clear", "update", "test", "busoff", "sleep", "tx"}
TxSeen == ipc \in Turn /\ "TX" \in intf
TxRaised == "TX" \in chip.intf
InChip == chip.tx # None \/ TxRaised \/ TxSeen

InBacklog(w) == \E i \in 1..Len(pending) : pending[i] = w

(* The chip has at most one frame, ...                                     *)
OneInChip ==
  /\ chip.tx # None => ~TxRaised /\ ~TxSeen
  /\ ipc \in Turn \ {"clear"} => ~(TxRaised /\ TxSeen)
  /\ ipc = "tx" => "TX" \in intf

(* ... the one in the echo slot, ...                                       *)
EchoInChip ==
  /\ chip.tx # None => echo \in {chip.tx, None}
  /\ TxRaised \/ TxSeen => echo \in {chip.sent, None}

(* ... and the driver does not take another before its interrupt is dealt  *)
(* with.                                                                   *)
ChipFirst ==
  /\ up = "up" /\ queue => ~InChip
  /\ tx_skb # None => ~InChip
  /\ up = "down" \/ npc \in {"o_lock", "o_irq", "o_normal", "o_fail"} => ~InChip
  /\ wpc \in {"rs_mode", "rs_attached", "rs_done"} \/ (wpc = "rs_tx" /\ restart_tx)
       => ~InChip

(* The restart of the transmitter is always preceded by a reset of the     *)
(* chip, also when a suspend has changed what is to be restarted.          *)
ResetFirst ==
  /\ restart_tx =>
       \/ InBacklog("restart")
       \/ wpc \in {"rs_lock", "rs_reset", "rs_mode", "rs_attached", "rs_done", "rs_tx"}
  /\ restart_tx /\ wpc # "rs_tx" => after_suspend # {}

(* What tx_work has tested stays so.                                       *)
TestHolds == wpc \in {"tx_clean", "tx_send"} => tx_skb # None

ChipInv == OneInChip /\ EchoInChip /\ ChipFirst /\ ResetFirst /\ TestHolds
             /\ QueueAwakeMeansIdle

(* Without suspends, force_quit keeps can_ist out from a bus-off until the *)
(* chip has been reset, and the carrier stays off until a manual restart.  *)
Quiet == force_quit /\ ipc \in {"idle", "lock", "loop", "sleep", "unlock"}

QuietUntilReset ==
  /\ InChip => tx_len \/ Quiet
  /\ after_suspend # {} => Quiet
  /\ up = "up" /\ ~carrier => Quiet

CarrierInv ==
  /\ up = "up" /\ ~carrier => after_suspend = {} /\ can_state = "off"
  /\ up = "opening" => carrier
  /\ ipc = "busoff" => can_state = "off"

ResetUnderWay ==
  /\ after_suspend # {} =>
       \/ InBacklog("restart")
       \/ wpc \in {"rs_lock", "rs_reset", "rs_mode", "rs_attached", "rs_done"}
  /\ wpc \in {"rs_mode", "rs_attached", "rs_done"} => after_suspend # {}

BusOffInv == QuietUntilReset /\ CarrierInv /\ ResetUnderWay

(* can_ist loops, with mcp_lock held, for as long as frames keep arriving:
   the liveness properties are about buses that leave it a pause. *)
BusPauses == []<>(ipc = "idle")

(* Transmission never stalls for good: while the interface is up, the queue
   is awake again and again unless the bus is off and waits for a restart. *)
QueueWakes == BusPauses => []<>(up = "up" => queue \/ ~carrier)

(* A stop comes to its end: it waits for can_ist and for the worker, both
   of which may be waiting for mcp_lock. *)
StopReturns == BusPauses => (up = "stopping" ~> up = "down")

(* A manual restart is carried out: the worker finds it and clears it. *)
RestartCompletes == BusPauses => (restart_tx ~> ~restart_tx)
=============================================================================
