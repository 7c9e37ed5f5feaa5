-------------------------- MODULE CanDriver_proofs --------------------------
(***************************************************************************)
(* What the MCP251x driver guarantees for any set of frames and any board: *)
(* no sk_buff is lost, mcp_lock does what it is for, and a stop leaves     *)
(* nothing behind; if a restart waits until all is quiet, the queue wakes  *)
(* only for a driver that is idle and the frame echoed is the frame sent;  *)
(* and if the system is not suspended either, every echo is counted and a  *)
(* carrier turned off can be turned on again.                              *)
(*                                                                         *)
(* A frame that one driver sends is the frame that another one hands to    *)
(* its stack, for every identifier, length and content of the registers,   *)
(* and a bit timing within the limits fits the registers.                  *)
(*                                                                         *)
(* First the threads (Mcp251x): one lemma per part of the inductive        *)
(* invariants, with one step per action, and the theorems.  Then the       *)
(* registers (CanFrame), and what they make of a frame that the threads    *)
(* have sent (CanDriver).                                                  *)
(***************************************************************************)
EXTENDS CanDriver, SequenceTheorems, TLAPS

-----------------------------------------------------------------------------
(* The frames and mcp_lock                                                 *)

framevars == <<up, npc, tx_skb, tx_len, echo, fate>>

(* mcp251x_clean frees or echoes every frame the driver has. *)
LEMMA CleanKeepsFrames ==
  ASSUME FrameInv, Clean, UNCHANGED <<up, npc>>
  PROVE  FrameInv' /\ tx_skb' = None /\ echo' = None /\ ~tx_len'
BY Mcp251xAssumption DEF FrameInv, Clean, FramesAccounted, OneFrame

(* FrameInv depends on framevars only. *)
LEMMA SameFrames == ASSUME FrameInv, UNCHANGED framevars PROVE FrameInv'
BY DEF FrameInv, framevars, FramesAccounted, OneFrame

(* No step leaks a frame or frees one twice. *)
LEMMA FrameStep == FrameInv /\ [Next]_vars => FrameInv'
<1> SUFFICES ASSUME FrameInv, [Next]_vars PROVE FrameInv'
  OBVIOUS
<1> DEFINE same == UNCHANGED framevars
<1>a. ASSUME same PROVE FrameInv'
  BY <1>a, SameFrames
<1>1. CASE ChipReceives
  BY <1>1, <1>a DEF ChipReceives, framevars, ChipVars, netvars, txvars
<1>2. CASE ChipTransmits
  BY <1>2, <1>a DEF ChipTransmits, framevars, ChipVars, netvars, txvars
<1>3. CASE \E level \in Levels : ChipError(level)
  BY <1>3, <1>a DEF ChipError, framevars, ChipVars, netvars, txvars
<1>4. CASE StartWork
  BY <1>4, <1>a DEF StartWork, framevars, netvars, txvars
<1>5. CASE WorkerLock
  BY <1>5, <1>a DEF WorkerLock, framevars, netvars, txvars
<1>6. CASE TxWorkTest
  BY <1>6, <1>a DEF TxWorkTest, framevars, netvars, txvars
<1>7. CASE RestartReset
  BY <1>7, <1>a DEF RestartReset, framevars, netvars, txvars
<1>8. CASE RestartMode
  BY <1>8, <1>a DEF RestartMode, framevars, netvars, txvars
<1>9. CASE RestartDone
  BY <1>9, <1>a DEF RestartDone, framevars, netvars, txvars
<1>10. CASE WorkerUnlock
  BY <1>10, <1>a DEF WorkerUnlock, framevars, netvars, txvars
<1>11. CASE IstStart
  BY <1>11, <1>a DEF IstStart, framevars, IstSame, txvars
<1>12. CASE IstLock
  BY <1>12, <1>a DEF IstLock, framevars, IstSame, txvars
<1>13. CASE IstReceive
  BY <1>13, <1>a DEF IstReceive, framevars, IstSame, txvars
<1>14. CASE IstRead
  BY <1>14, <1>a DEF IstRead, framevars, IstSame, txvars
<1>15. CASE IstClear
  BY <1>15, <1>a DEF IstClear, framevars, IstSame, txvars
<1>16. CASE IstUpdate
  BY <1>16, <1>a DEF IstUpdate, framevars, IstSame, txvars
<1>17. CASE IstTest
  BY <1>17, <1>a DEF IstTest, framevars, IstSame, txvars
<1>18. CASE IstBusOff
  BY <1>18, <1>a DEF IstBusOff, framevars, IstSame, txvars
<1>19. CASE IstSleep
  BY <1>19, <1>a DEF IstSleep, framevars, IstSame, txvars
<1>20. CASE IstUnlock
  BY <1>20, <1>a DEF IstUnlock, framevars, IstSame, txvars
<1>21. CASE OpenIrq
  BY <1>21 DEF OpenIrq, UserAt, FrameInv, FramesAccounted, OneFrame, txvars
<1>22. CASE StopIrq
  BY <1>22 DEF StopIrq, UserAt, FrameInv, FramesAccounted, OneFrame, txvars
<1>23. CASE StopDrain
  BY <1>23 DEF StopDrain, UserAt, FrameInv, FramesAccounted, OneFrame, txvars
<1>24. CASE Freeze
  BY <1>24, <1>a DEF Freeze, framevars, PmSame, txvars
<1>25. CASE SuspendQuit
  BY <1>25, <1>a DEF SuspendQuit, framevars, PmSame, txvars
<1>26. CASE Suspend
  BY <1>26, <1>a DEF Suspend, framevars, PmSame, txvars
<1>27. CASE Resume
  BY <1>27, <1>a DEF Resume, framevars, PmSame, txvars
<1>28. CASE Thaw
  BY <1>28, <1>a DEF Thaw, framevars, PmSame, txvars
<1>29. CASE TxWorkClean
  BY <1>29, CleanKeepsFrames DEF TxWorkClean, netvars
<1>30. CASE RestartAttached
  BY <1>30, CleanKeepsFrames DEF RestartAttached
<1>31. CASE StopChip
  <2>1. tx_skb' = None /\ echo' = None /\ tx_len' = FALSE /\ fate' = [f \in Frames |-> "stack"]
    BY <1>31, Mcp251xAssumption DEF StopChip, Clean, FrameInv, FramesAccounted, OneFrame
  <2> QED
    BY <1>31, <2>1, Mcp251xAssumption DEF StopChip, FrameInv, FramesAccounted, OneFrame
<1>32. CASE RestartTx
  <2>1. CASE restart_tx
    BY <1>32, <2>1, CleanKeepsFrames DEF RestartTx
  <2>2. CASE ~restart_tx
    BY <1>32, <2>2, <1>a DEF RestartTx, framevars, txvars
  <2> QED
    BY <2>1, <2>2
<1>33. CASE TxWorkSend
  BY <1>33, Mcp251xAssumption DEF TxWorkSend, FrameInv, FramesAccounted, OneFrame, netvars, txvars
<1>34. CASE IstTx
  BY <1>34, Mcp251xAssumption DEF IstTx, FrameInv, FramesAccounted, OneFrame, IstSame
<1>35. CASE OpenLock
  BY <1>35, Mcp251xAssumption DEF OpenLock, UserAt, FrameInv, FramesAccounted, OneFrame, NetSame
<1>36. CASE StopFlush
  BY <1>36, Mcp251xAssumption DEF StopFlush, FrameInv, FramesAccounted, OneFrame, NetSame
<1>37. CASE Restart
  BY <1>37, Mcp251xAssumption DEF Restart, FrameInv, FramesAccounted, OneFrame
<1>38. CASE OpenStart
  BY <1>38 DEF OpenStart, UserAt, FrameInv, FramesAccounted, OneFrame, txvars
<1>39. CASE OpenReset
  BY <1>39 DEF OpenReset, UserAt, FrameInv, FramesAccounted, OneFrame, txvars
<1>40. CASE OpenIrqFails
  BY <1>40 DEF OpenIrqFails, UserAt, FrameInv, FramesAccounted, OneFrame, txvars
<1>41. CASE OpenNormal
  BY <1>41 DEF OpenNormal, UserAt, FrameInv, FramesAccounted, OneFrame, txvars
<1>42. CASE OpenNormalFails
  BY <1>42 DEF OpenNormalFails, UserAt, FrameInv, FramesAccounted, OneFrame, txvars
<1>43. CASE OpenClean
  BY <1>43 DEF OpenClean, UserAt, FrameInv, FramesAccounted, OneFrame, txvars
<1>44. CASE \E f \in Frames : HardStartXmit(f)
  BY <1>44, Mcp251xAssumption DEF HardStartXmit, FrameInv, FramesAccounted, OneFrame
<1>45. CASE UNCHANGED vars
  BY <1>45, <1>a DEF vars, netvars, txvars, framevars
<1> QED
  BY <1>1, <1>2, <1>3, <1>4, <1>5, <1>6, <1>7, <1>8, <1>9, <1>10, <1>11, <1>12, <1>13,
     <1>14, <1>15, <1>16, <1>17, <1>18, <1>19, <1>20, <1>21, <1>22, <1>23, <1>24, <1>25,
     <1>26, <1>27, <1>28, <1>29, <1>30, <1>31, <1>32, <1>33, <1>34, <1>35, <1>36, <1>37,
     <1>38, <1>39, <1>40, <1>41, <1>42, <1>43, <1>44, <1>45 DEF Next, Chip, Worker, Ist,
     User,
     PowerManagement

(* Only the thread inside the critical section holds or gives up mcp_lock. *)
LEMMA LockStep == LockHeld /\ [Next]_vars => LockHeld'
<1> SUFFICES ASSUME LockHeld, [Next]_vars PROVE LockHeld'
  OBVIOUS
<1> USE DEF LockHeld
<1>1. CASE StartWork
  BY <1>1 DEF StartWork, WorkerAt, netvars, istvars
<1>2. CASE WorkerLock
  BY <1>2 DEF WorkerLock, WorkerAt, netvars, istvars
<1>3. CASE TxWorkTest
  BY <1>3 DEF TxWorkTest, WorkerAt, netvars, istvars
<1>4. CASE TxWorkClean
  BY <1>4 DEF TxWorkClean, WorkerAt, netvars, istvars
<1>5. CASE TxWorkSend
  BY <1>5 DEF TxWorkSend, WorkerAt, netvars, istvars
<1>6. CASE RestartReset
  BY <1>6 DEF RestartReset, WorkerAt, netvars, istvars
<1>7. CASE RestartMode
  BY <1>7 DEF RestartMode, WorkerAt, netvars, istvars
<1>8. CASE RestartAttached
  BY <1>8 DEF RestartAttached, WorkerAt, netvars, istvars
<1>9. CASE RestartDone
  BY <1>9 DEF RestartDone, WorkerAt, netvars, istvars
<1>10. CASE RestartTx
  BY <1>10 DEF RestartTx, WorkerAt, netvars, istvars
<1>11. CASE WorkerUnlock
  BY <1>11 DEF WorkerUnlock, WorkerAt, netvars, istvars
<1>12. CASE IstStart
  BY <1>12 DEF IstStart, IstAt, IstSame
<1>13. CASE IstLock
  BY <1>13 DEF IstLock, IstAt, IstSame
<1>14. CASE IstReceive
  BY <1>14 DEF IstReceive, IstAt, IstSame
<1>15. CASE IstRead
  BY <1>15 DEF IstRead, IstAt, IstSame
<1>16. CASE IstClear
  BY <1>16 DEF IstClear, IstAt, IstSame
<1>17. CASE IstUpdate
  BY <1>17 DEF IstUpdate, IstAt, IstSame
<1>18. CASE IstTest
  BY <1>18 DEF IstTest, IstAt, IstSame, AfterState
<1>19. CASE IstBusOff
  BY <1>19 DEF IstBusOff, IstAt, IstSame
<1>20. CASE IstSleep
  BY <1>20 DEF IstSleep, IstAt, IstSame
<1>21. CASE IstTx
  BY <1>21 DEF IstTx, IstAt, IstSame
<1>22. CASE IstUnlock
  BY <1>22 DEF IstUnlock, IstAt, IstSame
<1>23. CASE OpenStart
  BY <1>23 DEF OpenStart, UserAt, NetSame, istvars
<1>24. CASE OpenLock
  BY <1>24 DEF OpenLock, UserAt, NetSame, istvars
<1>25. CASE OpenIrq
  BY <1>25 DEF OpenIrq, UserAt, NetSame, istvars
<1>26. CASE OpenIrqFails
  BY <1>26 DEF OpenIrqFails, UserAt, NetSame, istvars
<1>27. CASE OpenReset
  BY <1>27 DEF OpenReset, UserAt, NetSame, istvars
<1>28. CASE OpenNormal
  BY <1>28 DEF OpenNormal, UserAt, NetSame, istvars
<1>29. CASE OpenNormalFails
  BY <1>29 DEF OpenNormalFails, UserAt, NetSame, istvars
<1>30. CASE OpenClean
  BY <1>30 DEF OpenClean, UserAt, NetSame, istvars
<1>31. CASE StopFlush
  BY <1>31 DEF StopFlush, UserAt, NetSame, istvars
<1>32. CASE StopIrq
  BY <1>32 DEF StopIrq, UserAt, NetSame, istvars
<1>33. CASE StopDrain
  BY <1>33 DEF StopDrain, UserAt, NetSame, istvars
<1>34. CASE StopChip
  BY <1>34 DEF StopChip, UserAt, NetSame, istvars
<1>35. CASE Restart
  BY <1>35 DEF Restart, UserAt, istvars
<1>36. CASE Freeze
  BY <1>36 DEF Freeze, PmSame, istvars
<1>37. CASE SuspendQuit
  BY <1>37 DEF SuspendQuit, PmSame, istvars
<1>38. CASE Suspend
  BY <1>38 DEF Suspend, PmSame, istvars
<1>39. CASE Resume
  BY <1>39 DEF Resume, PmSame, istvars
<1>40. CASE Thaw
  BY <1>40 DEF Thaw, PmSame, istvars
<1>41. CASE ChipReceives
  BY <1>41 DEF ChipReceives, ChipVars, netvars, istvars
<1>42. CASE ChipTransmits
  BY <1>42 DEF ChipTransmits, ChipVars, netvars, istvars
<1>43. CASE \E level \in Levels : ChipError(level)
  BY <1>43 DEF ChipError, ChipVars, netvars, istvars
<1>44. CASE \E f \in Frames : HardStartXmit(f)
  BY <1>44 DEF HardStartXmit, istvars
<1>45. CASE UNCHANGED vars
  BY <1>45 DEF vars, netvars, istvars
<1> QED
  BY <1>1, <1>2, <1>3, <1>4, <1>5, <1>6, <1>7, <1>8, <1>9, <1>10, <1>11, <1>12, <1>13,
     <1>14, <1>15, <1>16, <1>17, <1>18, <1>19, <1>20, <1>21, <1>22, <1>23, <1>24, <1>25,
     <1>26, <1>27, <1>28, <1>29, <1>30, <1>31, <1>32, <1>33, <1>34, <1>35, <1>36, <1>37,
     <1>38, <1>39, <1>40, <1>41, <1>42, <1>43, <1>44, <1>45 DEF Next, Chip, Worker, Ist,
     User,
     PowerManagement

-----------------------------------------------------------------------------
(* The chip and the queue of works                                         *)

ChipOK == chip \in ChipTypes /\ pending \in Seq(Works)

(* The fields after mcp251x_hw_reset. *)
LEMMA ResetFields ==
  ASSUME NEW c \in ChipTypes
  PROVE  /\ ResetChip(c) \in ChipTypes
         /\ ResetChip(c).mode = "conf" /\ ResetChip(c).intf = {}
         /\ ResetChip(c).tx = None /\ ResetChip(c).sent = c.sent
BY Mcp251xAssumption DEF ChipTypes, ResetChip

(* The fields after mcp251x_set_normal_mode. *)
LEMMA NormalFields ==
  ASSUME NEW c \in ChipTypes
  PROVE  /\ NormalChip(c) \in ChipTypes
         /\ NormalChip(c).mode = "normal" /\ NormalChip(c).intf = c.intf
         /\ NormalChip(c).tx = c.tx /\ NormalChip(c).sent = c.sent
BY DEF ChipTypes, NormalChip

(* The fields after mcp251x_hw_sleep. *)
LEMMA SleepFields ==
  ASSUME NEW c \in ChipTypes
  PROVE  /\ SleepChip(c) \in ChipTypes
         /\ SleepChip(c).mode = "sleep" /\ SleepChip(c).intf = c.intf
         /\ SleepChip(c).tx = c.tx /\ SleepChip(c).sent = c.sent
BY DEF ChipTypes, SleepChip

(* The fields after flags of CANINTF are written back. *)
LEMMA ClearFields ==
  ASSUME NEW c \in ChipTypes, NEW flags
  PROVE  /\ [c EXCEPT !.intf = @ \ flags] \in ChipTypes
         /\ [c EXCEPT !.intf = @ \ flags].mode = c.mode
         /\ [c EXCEPT !.intf = @ \ flags].intf = c.intf \ flags
         /\ [c EXCEPT !.intf = @ \ flags].tx = c.tx
         /\ [c EXCEPT !.intf = @ \ flags].sent = c.sent
BY DEF ChipTypes

(* The fields after the transmit buffer is loaded. *)
LEMMA LoadFields ==
  ASSUME NEW c \in ChipTypes, NEW f \in Frames \cup {None}
  PROVE  /\ [c EXCEPT !.tx = f] \in ChipTypes
         /\ [c EXCEPT !.tx = f].mode = c.mode
         /\ [c EXCEPT !.tx = f].intf = c.intf
         /\ [c EXCEPT !.tx = f].tx = f
         /\ [c EXCEPT !.tx = f].sent = c.sent
BY DEF ChipTypes

(* The fields after mcp251x_stop has cleared the interrupts and TXREQ. *)
LEMMA StopFields ==
  ASSUME NEW c \in ChipTypes
  PROVE  LET d == [c EXCEPT !.inte = FALSE, !.intf = {}, !.tx = None]
         IN d \in ChipTypes /\ d.intf = {} /\ d.tx = None /\ d.sent = c.sent
BY DEF ChipTypes

(* The fields after a frame of the bus is received. *)
LEMMA ReceiveFields ==
  ASSUME NEW c \in ChipTypes
  PROVE  LET d == [c EXCEPT !.intf = @ \cup {"RX"}]
         IN /\ d \in ChipTypes /\ d.mode = c.mode
            /\ d.intf = c.intf \cup {"RX"} /\ d.tx = c.tx /\ d.sent = c.sent
BY DEF ChipTypes, Flags

(* The fields after the loaded frame is sent. *)
LEMMA TransmitFields ==
  ASSUME NEW c \in ChipTypes
  PROVE  LET d == [c EXCEPT !.tx = None, !.sent = c.tx, !.intf = @ \cup {"TX"}]
         IN /\ d \in ChipTypes /\ d.mode = c.mode
            /\ d.intf = c.intf \cup {"TX"} /\ d.tx = None /\ d.sent = c.tx
BY DEF ChipTypes, Flags

(* The fields after the error counters reach a level. *)
LEMMA ErrorFields ==
  ASSUME NEW c \in ChipTypes, NEW level \in Levels
  PROVE  LET d == [c EXCEPT !.eflg = level, !.intf = @ \cup {"ERR"}]
         IN /\ d \in ChipTypes /\ d.mode = c.mode
            /\ d.intf = c.intf \cup {"ERR"} /\ d.tx = c.tx /\ d.sent = c.sent
BY DEF ChipTypes, Flags

(* The fields after the interrupts are enabled. *)
LEMMA EnableFields ==
  ASSUME NEW c \in ChipTypes
  PROVE  LET d == [c EXCEPT !.inte = TRUE]
         IN /\ d \in ChipTypes /\ d.mode = c.mode /\ d.intf = c.intf
            /\ d.tx = c.tx /\ d.sent = c.sent
BY DEF ChipTypes

(* queue_work queues on a workqueue that is there, and drops nothing. *)
LEMMA QueueTypes ==
  ASSUME pending \in Seq(Works), NEW w \in Works, QueueWork(w)
  PROVE  /\ pending' \in Seq(Works)
         /\ wq => InBacklog(w)'
         /\ ~wq => pending' = pending
         /\ InBacklog("restart") => InBacklog("restart")'
<1>1. CASE ~wq \/ InBacklog(w)
  BY <1>1 DEF QueueWork, InBacklog
<1>2. CASE wq /\ ~InBacklog(w)
  <2>1. pending' = Append(pending, w)
    BY <1>2 DEF QueueWork, InBacklog
  <2>2. /\ pending' \in Seq(Works) /\ Len(pending') = Len(pending) + 1
        /\ pending'[Len(pending')] = w
        /\ \A i \in 1..Len(pending) : pending'[i] = pending[i]
    BY <2>1, AppendProperties
  <2>3. InBacklog(w)'
    BY <2>2 DEF InBacklog
  <2>4. InBacklog("restart") => InBacklog("restart")'
    BY <2>2 DEF InBacklog
  <2>5. QED
    BY <1>2, <2>2, <2>3, <2>4
<1>3. QED
  BY <1>1, <1>2

(* The work that is taken off the queue, and those that stay. *)
LEMMA TailTypes ==
  ASSUME pending \in Seq(Works), pending # <<>>
  PROVE  /\ Head(pending) \in Works /\ Tail(pending) \in Seq(Works)
         /\ pending' = Tail(pending) /\ InBacklog("restart") /\ Head(pending) = "tx"
              => InBacklog("restart")'
<1>1. /\ Head(pending) \in Works /\ Tail(pending) \in Seq(Works)
      /\ Head(pending) = pending[1] /\ Len(Tail(pending)) = Len(pending) - 1
      /\ \A i \in 1..(Len(pending) - 1) : Tail(pending)[i] = pending[i + 1]
  BY HeadTailProperties
<1>2. ASSUME NEW i \in 1..Len(pending), pending[i] = "restart", Head(pending) = "tx",
             pending' = Tail(pending)
      PROVE  InBacklog("restart")'
  <2>1. i # 1
    BY <1>1, <1>2
  <2>2. i - 1 \in 1..Len(pending') /\ pending'[i - 1] = "restart"
    BY <1>1, <1>2, <2>1
  <2>3. QED
    BY <2>2 DEF InBacklog
<1>3. QED
  BY <1>1, <1>2 DEF InBacklog

(* The registers and the queue keep their types. *)
LEMMA ChipOKStep == ChipOK /\ FrameInv /\ [Next]_vars => ChipOK'
<1> SUFFICES ASSUME ChipOK, FrameInv, [Next]_vars PROVE ChipOK'
  OBVIOUS
<1>a. /\ chip \in ChipTypes /\ pending \in Seq(Works)
      /\ tx_skb \in Frames \cup {None} /\ None \in Frames \cup {None}
  BY DEF ChipOK, FrameInv
<1>b. SUFFICES chip' \in ChipTypes /\ pending' \in Seq(Works)
  BY DEF ChipOK
<1> USE <1>a
<1>1. CASE StartWork
    BY <1>1, TailTypes
       DEF StartWork, WorkerAt, netvars, txvars, wqvars, istvars, privvars
<1>2. CASE WorkerLock
    BY <1>2
       DEF WorkerLock, WorkerAt, netvars, txvars, wqvars, istvars, privvars
<1>3. CASE TxWorkTest
    BY <1>3
       DEF TxWorkTest, WorkerAt, netvars, txvars, wqvars, istvars, privvars
<1>4. CASE TxWorkClean
    BY <1>4
       DEF TxWorkClean, WorkerAt, netvars, txvars, wqvars, istvars, privvars
<1>5. CASE TxWorkSend
    BY <1>5, LoadFields
       DEF TxWorkSend, WorkerAt, netvars, txvars, wqvars, istvars, privvars
<1>6. CASE RestartReset
    BY <1>6, ResetFields
       DEF RestartReset, WorkerAt, netvars, txvars, wqvars, istvars, privvars
<1>7. CASE RestartMode
    BY <1>7, NormalFields, SleepFields
       DEF RestartMode, WorkerAt, netvars, txvars, wqvars, istvars, privvars
<1>8. CASE RestartAttached
    BY <1>8, NormalFields
       DEF RestartAttached, WorkerAt, netvars, txvars, wqvars, istvars,
           privvars
<1>9. CASE RestartDone
    BY <1>9
       DEF RestartDone, WorkerAt, netvars, txvars, wqvars, istvars, privvars
<1>10. CASE RestartTx
    BY <1>10, LoadFields
       DEF RestartTx, WorkerAt, netvars, txvars, wqvars, istvars, privvars
<1>11. CASE WorkerUnlock
    BY <1>11
       DEF WorkerUnlock, WorkerAt, netvars, txvars, wqvars, istvars, privvars
<1>12. CASE IstStart
    BY <1>12 DEF IstStart, IstAt, IstSame, netvars, txvars, wqvars, istvars,
           privvars
<1>13. CASE IstLock
    BY <1>13 DEF IstLock, IstAt, IstSame, netvars, txvars, wqvars, istvars,
           privvars
<1>14. CASE IstReceive
  <2>1. [chip EXCEPT !.intf = @ \ {"RX"}] \in ChipTypes
    BY ClearFields
  <2>2. QED
    BY <1>14, <2>1 DEF IstReceive, IstSame, wqvars
<1>15. CASE IstRead
    BY <1>15 DEF IstRead, IstAt, IstSame, netvars, txvars, wqvars, istvars,
           privvars
<1>16. CASE IstClear
    BY <1>16, ClearFields
       DEF IstClear, IstAt, IstSame, netvars, txvars, wqvars, istvars,
           privvars
<1>17. CASE IstUpdate
    BY <1>17 DEF IstUpdate, IstAt, IstSame, netvars, txvars, wqvars, istvars,
           privvars
<1>18. CASE IstTest
    BY <1>18 DEF IstTest, IstAt, IstSame, netvars, txvars, wqvars, istvars,
           privvars
<1>19. CASE IstBusOff
    BY <1>19 DEF IstBusOff, IstAt, IstSame, netvars, txvars, wqvars, istvars,
           privvars
<1>20. CASE IstSleep
    BY <1>20, SleepFields
       DEF IstSleep, IstAt, IstSame, netvars, txvars, wqvars, istvars,
           privvars
<1>21. CASE IstTx
    BY <1>21
       DEF IstTx, IstAt, IstSame, netvars, txvars, wqvars, istvars, privvars
<1>22. CASE IstUnlock
    BY <1>22 DEF IstUnlock, IstAt, IstSame, netvars, txvars, wqvars, istvars,
           privvars
<1>23. CASE OpenStart
    BY <1>23 DEF OpenStart, UserAt, NetSame, netvars, txvars, wqvars, istvars,
           privvars
<1>24. CASE OpenLock
    BY <1>24 DEF OpenLock, UserAt, NetSame, netvars, txvars, wqvars, istvars,
           privvars
<1>25. CASE OpenIrq
    BY <1>25 DEF OpenIrq, UserAt, NetSame, netvars, txvars, wqvars, istvars,
           privvars
<1>26. CASE OpenIrqFails
    BY <1>26
       DEF OpenIrqFails, UserAt, NetSame, netvars, txvars, wqvars, istvars,
           privvars
<1>27. CASE OpenReset
    BY <1>27, ResetFields
       DEF OpenReset, UserAt, NetSame, netvars, txvars, wqvars, istvars,
           privvars
<1>28. CASE OpenNormal
    BY <1>28, NormalFields
       DEF OpenNormal, UserAt, NetSame, netvars, txvars, wqvars, istvars,
           privvars
<1>29. CASE OpenNormalFails
    BY <1>29, EnableFields
       DEF OpenNormalFails, UserAt, NetSame, netvars, txvars, wqvars,
           istvars, privvars
<1>30. CASE OpenClean
    BY <1>30, SleepFields
       DEF OpenClean, UserAt, NetSame, netvars, txvars, wqvars, istvars,
           privvars
<1>31. CASE StopFlush
    BY <1>31 DEF StopFlush, UserAt, NetSame, netvars, txvars, wqvars, istvars,
           privvars
<1>32. CASE StopIrq
    BY <1>32 DEF StopIrq, UserAt, NetSame, netvars, txvars, wqvars, istvars,
           privvars
<1>33. CASE StopDrain
    BY <1>33 DEF StopDrain, UserAt, NetSame, netvars, txvars, wqvars, istvars,
           privvars
<1>34. CASE StopChip
    BY <1>34, StopFields, SleepFields
       DEF StopChip, UserAt, NetSame, netvars, txvars, wqvars, istvars,
           privvars
<1>35. CASE Restart
    BY <1>35, QueueTypes
       DEF Restart, UserAt, netvars, txvars, wqvars, istvars, privvars, Works
<1>36. CASE Freeze
    BY <1>36
       DEF Freeze, PmSame, UserAt, netvars, txvars, wqvars, istvars, privvars
<1>37. CASE SuspendQuit
    BY <1>37 DEF SuspendQuit, PmSame, netvars, txvars, wqvars, istvars, privvars
<1>38. CASE Suspend
    BY <1>38, SleepFields
       DEF Suspend, PmSame, netvars, txvars, wqvars, istvars, privvars
<1>39. CASE Resume
    BY <1>39, QueueTypes
       DEF Resume, PmSame, netvars, txvars, wqvars, istvars, privvars, Works
<1>40. CASE Thaw
    BY <1>40 DEF Thaw, PmSame, netvars, txvars, wqvars, istvars, privvars
<1>41. CASE ChipReceives
    BY <1>41, ReceiveFields
       DEF ChipReceives, ChipVars, netvars, txvars, wqvars, istvars, privvars
<1>42. CASE ChipTransmits
    BY <1>42, TransmitFields
       DEF ChipTransmits, ChipVars, netvars, txvars, wqvars, istvars,
           privvars
<1>43. CASE \E level \in Levels : ChipError(level)
  <2>1. PICK level \in Levels :
          chip' = [chip EXCEPT !.eflg = level, !.intf = @ \cup {"ERR"}]
    BY <1>43 DEF ChipError
  <2>2. chip' \in ChipTypes
    BY <2>1, ErrorFields
  <2>3. QED
    BY <1>43, <2>2 DEF ChipError, ChipVars, wqvars
<1>44. CASE \E f \in Frames : HardStartXmit(f)
    BY <1>44, QueueTypes
       DEF HardStartXmit, netvars, txvars, wqvars, istvars, privvars, Works
<1>45. CASE UNCHANGED vars
    BY <1>45 DEF vars, netvars, txvars, wqvars, istvars, privvars
<1> QED
  BY <1>1, <1>2, <1>3, <1>4, <1>5, <1>6, <1>7, <1>8, <1>9, <1>10, <1>11,
     <1>12, <1>13, <1>14, <1>15, <1>16, <1>17, <1>18, <1>19, <1>20, <1>21,
     <1>22, <1>23, <1>24, <1>25, <1>26, <1>27, <1>28, <1>29, <1>30, <1>31,
     <1>32, <1>33, <1>34, <1>35, <1>36, <1>37, <1>38, <1>39, <1>40, <1>41,
     <1>42, <1>43, <1>44, <1>45
     DEF Next, Chip, Worker, Ist, User, PowerManagement

(* A stopped interface stays without works, handler and awake chip. *)
LEMMA StopStep == StopInv /\ ChipOK /\ FrameInv /\ [Next]_vars => StopInv'
<1> SUFFICES ASSUME StopInv, ChipOK, FrameInv, [Next]_vars PROVE StopInv'
  OBVIOUS
<1>a. chip \in ChipTypes /\ tx_skb \in Frames \cup {None} /\ None \in Frames \cup {None}
  BY DEF ChipOK, FrameInv
<1> USE DEF StopInv, Opening, Stopping, UserStates, Stray
<1>1. CASE StartWork
  BY <1>1 DEF StartWork, WorkerAt, netvars, txvars, wqvars, istvars, privvars
<1>2. CASE WorkerLock
  BY <1>2 DEF WorkerLock, WorkerAt, netvars, txvars, wqvars, istvars, privvars
<1>3. CASE TxWorkTest
  BY <1>3 DEF TxWorkTest, WorkerAt, netvars, txvars, wqvars, istvars, privvars
<1>4. CASE TxWorkClean
  BY <1>4 DEF TxWorkClean, WorkerAt, netvars, txvars, wqvars, istvars, privvars
<1>5. CASE TxWorkSend
  BY <1>5, <1>a, LoadFields
     DEF TxWorkSend, WorkerAt, netvars, txvars, wqvars, istvars, privvars
<1>6. CASE RestartReset
  BY <1>6, <1>a, ResetFields
     DEF RestartReset, WorkerAt, netvars, txvars, wqvars, istvars, privvars
<1>7. CASE RestartMode
  BY <1>7, <1>a, NormalFields, SleepFields
     DEF RestartMode, WorkerAt, netvars, txvars, wqvars, istvars, privvars
<1>8. CASE RestartAttached
  BY <1>8, <1>a, NormalFields
     DEF RestartAttached, WorkerAt, netvars, txvars, wqvars, istvars,
         privvars
<1>9. CASE RestartDone
  BY <1>9 DEF RestartDone, WorkerAt, netvars, txvars, wqvars, istvars, privvars
<1>10. CASE RestartTx
  BY <1>10, <1>a, LoadFields
     DEF RestartTx, WorkerAt, netvars, txvars, wqvars, istvars, privvars
<1>11. CASE WorkerUnlock
  BY <1>11
     DEF WorkerUnlock, WorkerAt, netvars, txvars, wqvars, istvars, privvars
<1>12. CASE IstStart
  BY <1>12
     DEF IstStart, IstAt, IstSame, netvars, txvars, wqvars, istvars, privvars
<1>13. CASE IstLock
  BY <1>13
     DEF IstLock, IstAt, IstSame, netvars, txvars, wqvars, istvars, privvars
<1>14. CASE IstReceive
  BY <1>14, <1>a, ClearFields
     DEF IstReceive, IstAt, IstSame, netvars, txvars, wqvars, istvars,
         privvars
<1>15. CASE IstRead
  BY <1>15
     DEF IstRead, IstAt, IstSame, netvars, txvars, wqvars, istvars, privvars
<1>16. CASE IstClear
  BY <1>16, <1>a, ClearFields
     DEF IstClear, IstAt, IstSame, netvars, txvars, wqvars, istvars, privvars
<1>17. CASE IstUpdate
  BY <1>17 DEF IstUpdate, IstAt, IstSame, netvars, txvars, wqvars, istvars,
         privvars
<1>18. CASE IstTest
  BY <1>18
     DEF IstTest, IstAt, IstSame, netvars, txvars, wqvars, istvars, privvars
<1>19. CASE IstBusOff
  BY <1>19 DEF IstBusOff, IstAt, IstSame, netvars, txvars, wqvars, istvars,
         privvars
<1>20. CASE IstSleep
  BY <1>20, <1>a, SleepFields
     DEF IstSleep, IstAt, IstSame, netvars, txvars, wqvars, istvars, privvars
<1>21. CASE IstTx
  BY <1>21 DEF IstTx, IstAt, IstSame, netvars, txvars, wqvars, istvars, privvars
<1>22. CASE IstUnlock
  BY <1>22 DEF IstUnlock, IstAt, IstSame, netvars, txvars, wqvars, istvars,
         privvars
<1>23. CASE OpenStart
  BY <1>23 DEF OpenStart, UserAt, NetSame, netvars, txvars, wqvars, istvars,
         privvars
<1>24. CASE OpenLock
  BY <1>24 DEF OpenLock, UserAt, NetSame, netvars, txvars, wqvars, istvars,
         privvars
<1>25. CASE OpenIrq
  BY <1>25
     DEF OpenIrq, UserAt, NetSame, netvars, txvars, wqvars, istvars, privvars
<1>26. CASE OpenIrqFails
  BY <1>26 DEF OpenIrqFails, UserAt, NetSame, netvars, txvars, wqvars, istvars,
         privvars
<1>27. CASE OpenReset
  BY <1>27, <1>a, ResetFields
     DEF OpenReset, UserAt, NetSame, netvars, txvars, wqvars, istvars,
         privvars
<1>28. CASE OpenNormal
  BY <1>28, <1>a, NormalFields
     DEF OpenNormal, UserAt, NetSame, netvars, txvars, wqvars, istvars,
         privvars
<1>29. CASE OpenNormalFails
  BY <1>29, <1>a, EnableFields
     DEF OpenNormalFails, UserAt, NetSame, netvars, txvars, wqvars, istvars,
         privvars
<1>30. CASE OpenClean
  BY <1>30, <1>a, SleepFields
     DEF OpenClean, UserAt, NetSame, netvars, txvars, wqvars, istvars,
         privvars
<1>31. CASE StopFlush
  BY <1>31 DEF StopFlush, UserAt, NetSame, netvars, txvars, wqvars, istvars,
         privvars
<1>32. CASE StopIrq
  BY <1>32
     DEF StopIrq, UserAt, NetSame, netvars, txvars, wqvars, istvars, privvars
<1>33. CASE StopDrain
  BY <1>33 DEF StopDrain, UserAt, NetSame, netvars, txvars, wqvars, istvars,
         privvars
<1>34. CASE StopChip
  BY <1>34, <1>a, StopFields, SleepFields
     DEF StopChip, UserAt, NetSame, netvars, txvars, wqvars, istvars,
         privvars
<1>35. CASE Restart
  BY <1>35 DEF Restart, UserAt, netvars, txvars, wqvars, istvars, privvars,
         QueueWork
<1>36. CASE Freeze
  BY <1>36
     DEF Freeze, PmSame, UserAt, netvars, txvars, wqvars, istvars, privvars
<1>37. CASE SuspendQuit
  BY <1>37 DEF SuspendQuit, PmSame, netvars, txvars, wqvars, istvars, privvars
<1>38. CASE Suspend
  BY <1>38, <1>a, SleepFields
     DEF Suspend, PmSame, netvars, txvars, wqvars, istvars, privvars
<1>39. CASE Resume
  BY <1>39 DEF Resume, PmSame, netvars, txvars, wqvars, istvars, privvars,
         QueueWork
<1>40. CASE Thaw
  BY <1>40 DEF Thaw, PmSame, netvars, txvars, wqvars, istvars, privvars
<1>41. CASE ChipReceives
  BY <1>41, <1>a, ReceiveFields
     DEF ChipReceives, ChipVars, netvars, txvars, wqvars, istvars, privvars
<1>42. CASE ChipTransmits
  BY <1>42, <1>a, TransmitFields
     DEF ChipTransmits, ChipVars, netvars, txvars, wqvars, istvars, privvars
<1>43. CASE \E level \in Levels : ChipError(level)
  <2>1. PICK level \in Levels :
          /\ chip.mode = "normal"
          /\ chip' = [chip EXCEPT !.eflg = level, !.intf = @ \cup {"ERR"}]
    BY <1>43 DEF ChipError
  <2>2. chip'.mode = chip.mode
    BY <1>a, <2>1, ErrorFields
  <2>3. QED
    BY <1>43, <2>1, <2>2 DEF ChipError, ChipVars, netvars, wqvars, istvars,
       privvars
<1>44. CASE \E f \in Frames : HardStartXmit(f)
  BY <1>44
     DEF HardStartXmit, netvars, txvars, wqvars, istvars, privvars, QueueWork
<1>45. CASE UNCHANGED vars
  BY <1>45 DEF vars, netvars, txvars, wqvars, istvars, privvars
<1> QED
  BY <1>1, <1>2, <1>3, <1>4, <1>5, <1>6, <1>7, <1>8, <1>9, <1>10, <1>11,
     <1>12, <1>13, <1>14, <1>15, <1>16, <1>17, <1>18, <1>19, <1>20, <1>21,
     <1>22, <1>23, <1>24, <1>25, <1>26, <1>27, <1>28, <1>29, <1>30, <1>31,
     <1>32, <1>33, <1>34, <1>35, <1>36, <1>37, <1>38, <1>39, <1>40, <1>41,
     <1>42, <1>43, <1>44, <1>45
     DEF Next, Chip, Worker, Ist, User, PowerManagement

(* The parts of the types and of FrameInv that the chip's invariant needs *)
LEMMA ChipFacts ==
  ASSUME ChipOK, FrameInv
  PROVE  /\ chip \in ChipTypes /\ pending \in Seq(Works)
         /\ tx_skb \in Frames \cup {None} /\ echo \in Frames \cup {None}
         /\ None \notin Frames /\ None \in Frames \cup {None}
         /\ tx_skb # None => ~tx_len
         /\ echo # None => tx_len
         /\ up \in {"down", "opening"} => tx_skb = None /\ echo = None /\ ~tx_len
BY Mcp251xAssumption DEF ChipOK, FrameInv, OneFrame

chipvars == <<chip, ipc, intf>>

(* Nobody but tx_work puts a frame into the chip, and what it finds there it
   has sent: OneInChip is kept. *)
LEMMA FlagsStep ==
  ASSUME OneInChip, ChipFirst, ChipOK, FrameInv, [Next]_vars
  PROVE  /\ OneInChip'
         /\ InChip' => InChip \/ (TxWorkSend /\ tx_skb # None)
<1>a. /\ chip \in ChipTypes /\ tx_skb \in Frames \cup {None} /\ None \in Frames \cup {None}
  BY ChipFacts
<1>b. ASSUME UNCHANGED chipvars PROVE OneInChip' /\ (InChip' => InChip)
  BY <1>b DEF chipvars, OneInChip, InChip, TxSeen, TxRaised, Turn
<1> DEFINE fewer(c) == c.tx \in {None, chip.tx} /\ c.intf \cap {"TX"} \subseteq chip.intf
<1>c. ASSUME fewer(chip'), UNCHANGED <<ipc, intf>>
      PROVE  OneInChip' /\ (InChip' => InChip)
  BY <1>c DEF OneInChip, InChip, TxSeen, TxRaised, Turn
<1>1. CASE StartWork
  BY <1>1, <1>b
     DEF StartWork, WorkerAt, netvars, txvars, wqvars, istvars, privvars,
         chipvars
<1>2. CASE WorkerLock
  BY <1>2, <1>b
     DEF WorkerLock, WorkerAt, netvars, txvars, wqvars, istvars, privvars,
         chipvars
<1>3. CASE TxWorkTest
  BY <1>3, <1>b
     DEF TxWorkTest, WorkerAt, netvars, txvars, wqvars, istvars, privvars,
         chipvars
<1>4. CASE TxWorkClean
  BY <1>4, <1>b
     DEF TxWorkClean, WorkerAt, netvars, txvars, wqvars, istvars, privvars,
         chipvars
<1>5. CASE TxWorkSend
  <2>1. CASE tx_skb = None
    BY <1>5, <2>1, <1>b DEF TxWorkSend, istvars, chipvars
  <2>2. CASE tx_skb # None
    <3>1. ~InChip
      BY <2>2 DEF ChipFirst
    <3>2. chip' = [chip EXCEPT !.tx = tx_skb] /\ UNCHANGED <<ipc, intf>>
      BY <1>5, <2>2 DEF TxWorkSend, istvars
    <3>3. chip'.intf = chip.intf
      BY <1>a, <3>2, LoadFields
    <3>4. OneInChip'
      BY <3>1, <3>2, <3>3 DEF OneInChip, InChip, TxSeen, TxRaised
    <3>5. QED
      BY <1>5, <2>2, <3>4
  <2>3. QED
    BY <2>1, <2>2
<1>6. CASE RestartReset
  BY <1>6, <1>a, <1>c, ResetFields
     DEF RestartReset, WorkerAt, netvars, txvars, wqvars, istvars, privvars
<1>7. CASE RestartMode
  BY <1>7, <1>a, <1>c, NormalFields, SleepFields
     DEF RestartMode, WorkerAt, netvars, txvars, wqvars, istvars, privvars
<1>8. CASE RestartAttached
  BY <1>8, <1>a, <1>c, NormalFields
     DEF RestartAttached, WorkerAt, netvars, txvars, wqvars, istvars,
         privvars
<1>9. CASE RestartDone
  BY <1>9, <1>b
     DEF RestartDone, WorkerAt, netvars, txvars, wqvars, istvars, privvars,
         chipvars
<1>10. CASE RestartTx
  <2>1. CASE restart_tx
    <3>1. chip' = [chip EXCEPT !.tx = None] /\ UNCHANGED <<ipc, intf>>
      BY <1>10, <2>1 DEF RestartTx, istvars
    <3>2. fewer(chip')
      BY <1>a, <3>1, LoadFields
    <3>3. QED
      BY <1>c, <3>1, <3>2
  <2>2. CASE ~restart_tx
    BY <1>10, <2>2, <1>b DEF RestartTx, istvars, chipvars
  <2>3. QED
    BY <2>1, <2>2
<1>11. CASE WorkerUnlock
  BY <1>11, <1>b
     DEF WorkerUnlock, WorkerAt, netvars, txvars, wqvars, istvars, privvars,
         chipvars
<1>12. CASE IstStart
  BY <1>12, <1>a DEF IstStart, IstAt, IstSame, netvars, txvars, wqvars, istvars,
         privvars, OneInChip, InChip, TxSeen, TxRaised, Turn
<1>13. CASE IstLock
  BY <1>13, <1>a
     DEF IstLock, IstAt, IstSame, netvars, txvars, wqvars, istvars, privvars,
         OneInChip, InChip, TxSeen, TxRaised, Turn
<1>14. CASE IstReceive
  <2>1. ipc' \in {"unlock", "read"} /\ ipc = "loop" /\ intf' = intf
    BY <1>14 DEF IstReceive, IstAt
  <2>2. chip' = chip \/ chip' = [chip EXCEPT !.intf = @ \ {"RX"}]
    BY <1>14 DEF IstReceive
  <2>3. CASE chip' = [chip EXCEPT !.intf = @ \ {"RX"}]
    <3>1. chip'.tx = chip.tx /\ chip'.intf = chip.intf \ {"RX"}
      BY <1>a, <2>3, ClearFields
    <3>2. QED
      BY <2>1, <3>1 DEF OneInChip, InChip, TxSeen, TxRaised, Turn
  <2>4. CASE chip' = chip
    BY <2>1, <2>4 DEF OneInChip, InChip, TxSeen, TxRaised, Turn
  <2>5. QED
    BY <2>2, <2>3, <2>4
<1>15. CASE IstRead
  BY <1>15, <1>a
     DEF IstRead, IstAt, IstSame, netvars, txvars, wqvars, istvars, privvars,
         OneInChip, InChip, TxSeen, TxRaised, Turn
<1>16. CASE IstClear
  BY <1>16, <1>a, ClearFields
     DEF IstClear, IstAt, IstSame, netvars, txvars, wqvars, istvars,
         privvars, OneInChip, InChip, TxSeen, TxRaised, Turn
<1>17. CASE IstUpdate
  BY <1>17, <1>a
     DEF IstUpdate, IstAt, IstSame, netvars, txvars, wqvars, istvars,
         privvars, OneInChip, InChip, TxSeen, TxRaised, Turn
<1>18. CASE IstTest
  BY <1>18, <1>a
     DEF IstTest, IstAt, IstSame, netvars, txvars, wqvars, istvars, privvars,
         AfterState, OneInChip, InChip, TxSeen, TxRaised, Turn
<1>19. CASE IstBusOff
  BY <1>19, <1>a
     DEF IstBusOff, IstAt, IstSame, netvars, txvars, wqvars, istvars,
         privvars, OneInChip, InChip, TxSeen, TxRaised, Turn
<1>20. CASE IstSleep
  BY <1>20, <1>a, SleepFields
     DEF IstSleep, IstAt, IstSame, netvars, txvars, wqvars, istvars,
         privvars, OneInChip, InChip, TxSeen, TxRaised, Turn
<1>21. CASE IstTx
  BY <1>21, <1>a
     DEF IstTx, IstAt, IstSame, netvars, txvars, wqvars, istvars, privvars,
         OneInChip, InChip, TxSeen, TxRaised, Turn
<1>22. CASE IstUnlock
  BY <1>22, <1>a
     DEF IstUnlock, IstAt, IstSame, netvars, txvars, wqvars, istvars,
         privvars, OneInChip, InChip, TxSeen, TxRaised, Turn
<1>23. CASE OpenStart
  BY <1>23, <1>b
     DEF OpenStart, UserAt, NetSame, netvars, txvars, wqvars, istvars,
         privvars, chipvars
<1>24. CASE OpenLock
  BY <1>24, <1>b
     DEF OpenLock, UserAt, NetSame, netvars, txvars, wqvars, istvars,
         privvars, chipvars
<1>25. CASE OpenIrq
  BY <1>25, <1>b DEF OpenIrq, UserAt, NetSame, netvars, txvars, wqvars, istvars,
         privvars, chipvars
<1>26. CASE OpenIrqFails
  BY <1>26, <1>b
     DEF OpenIrqFails, UserAt, NetSame, netvars, txvars, wqvars, istvars,
         privvars, chipvars
<1>27. CASE OpenReset
  BY <1>27, <1>a, <1>c, ResetFields
     DEF OpenReset, UserAt, NetSame, netvars, txvars, wqvars, istvars,
         privvars
<1>28. CASE OpenNormal
  BY <1>28, <1>a, <1>c, NormalFields
     DEF OpenNormal, UserAt, NetSame, netvars, txvars, wqvars, istvars,
         privvars
<1>29. CASE OpenNormalFails
  BY <1>29, <1>a, <1>c, EnableFields
     DEF OpenNormalFails, UserAt, NetSame, netvars, txvars, wqvars, istvars,
         privvars
<1>30. CASE OpenClean
  BY <1>30, <1>a, <1>c, SleepFields
     DEF OpenClean, UserAt, NetSame, netvars, txvars, wqvars, istvars,
         privvars
<1>31. CASE StopFlush
  BY <1>31, <1>b
     DEF StopFlush, UserAt, NetSame, netvars, txvars, wqvars, istvars,
         privvars, chipvars
<1>32. CASE StopIrq
  BY <1>32, <1>b DEF StopIrq, UserAt, NetSame, netvars, txvars, wqvars, istvars,
         privvars, chipvars
<1>33. CASE StopDrain
  BY <1>33, <1>b
     DEF StopDrain, UserAt, NetSame, netvars, txvars, wqvars, istvars,
         privvars, chipvars
<1>34. CASE StopChip
  BY <1>34, <1>a, <1>c, StopFields, SleepFields
     DEF StopChip, UserAt, NetSame, netvars, txvars, wqvars, istvars,
         privvars
<1>35. CASE Restart
  BY <1>35, <1>b
     DEF Restart, UserAt, netvars, txvars, wqvars, istvars, privvars,
         chipvars
<1>36. CASE Freeze
  BY <1>36, <1>b
     DEF Freeze, PmSame, UserAt, netvars, txvars, wqvars, istvars, privvars,
         chipvars
<1>37. CASE SuspendQuit
  BY <1>37, <1>b
     DEF SuspendQuit, PmSame, netvars, txvars, wqvars, istvars, privvars,
         chipvars
<1>38. CASE Suspend
  BY <1>38, <1>a, <1>c, SleepFields
     DEF Suspend, PmSame, netvars, txvars, wqvars, istvars, privvars
<1>39. CASE Resume
  BY <1>39, <1>b
     DEF Resume, PmSame, netvars, txvars, wqvars, istvars, privvars, chipvars
<1>40. CASE Thaw
  BY <1>40, <1>b
     DEF Thaw, PmSame, netvars, txvars, wqvars, istvars, privvars, chipvars
<1>41. CASE ChipReceives
  BY <1>41, <1>a, <1>c, ReceiveFields
     DEF ChipReceives, ChipVars, netvars, txvars, wqvars, istvars, privvars
<1>42. CASE ChipTransmits
  BY <1>42, <1>a, TransmitFields
     DEF ChipTransmits, ChipVars, netvars, txvars, wqvars, istvars, privvars,
         OneInChip, InChip, TxSeen, TxRaised, Turn
<1>43. CASE \E level \in Levels : ChipError(level)
  <2>1. PICK level \in Levels :
          chip' = [chip EXCEPT !.eflg = level, !.intf = @ \cup {"ERR"}]
    BY <1>43 DEF ChipError
  <2>2. chip'.tx = chip.tx /\ chip'.intf = chip.intf \cup {"ERR"}
    BY <1>a, <2>1, ErrorFields
  <2>3. UNCHANGED <<ipc, intf>>
    BY <1>43 DEF ChipError, ChipVars, istvars
  <2>4. QED
    BY <1>c, <2>2, <2>3
<1>44. CASE \E f \in Frames : HardStartXmit(f)
  BY <1>44, <1>b
     DEF HardStartXmit, netvars, txvars, wqvars, istvars, privvars, chipvars
<1>45. CASE UNCHANGED vars
  BY <1>45, <1>b DEF vars, netvars, txvars, wqvars, istvars, privvars, chipvars
<1> QED
  BY <1>1, <1>2, <1>3, <1>4, <1>5, <1>6, <1>7, <1>8, <1>9, <1>10, <1>11,
     <1>12, <1>13, <1>14, <1>15, <1>16, <1>17, <1>18, <1>19, <1>20, <1>21,
     <1>22, <1>23, <1>24, <1>25, <1>26, <1>27, <1>28, <1>29, <1>30, <1>31,
     <1>32, <1>33, <1>34, <1>35, <1>36, <1>37, <1>38, <1>39, <1>40, <1>41,
     <1>42, <1>43, <1>44, <1>45
     DEF Next, Chip, Worker, Ist, User, PowerManagement

-----------------------------------------------------------------------------
(* The echo slot                                                           *)

(* The frame in the chip, or the last it sent, is the one in the echo slot. *)
LEMMA EchoStep ==
  ASSUME OneInChip, EchoInChip, ChipFirst, ChipOK, FrameInv, [Next]_vars
  PROVE  EchoInChip'
<1>a. /\ chip \in ChipTypes /\ tx_skb \in Frames \cup {None} /\ None \in Frames \cup {None}
      /\ tx_skb # None => ~tx_len
      /\ echo # None => tx_len
  BY ChipFacts
<1>b. ASSUME echo' = None PROVE EchoInChip'
  BY <1>b DEF EchoInChip
<1>c. ASSUME UNCHANGED <<chip, ipc, intf>>, echo' = echo PROVE EchoInChip'
  BY <1>c DEF EchoInChip, TxSeen, TxRaised, Turn
<1>d. ASSUME chip'.tx \in {None, chip.tx}, chip'.intf \cap {"TX"} \subseteq chip.intf,
             chip'.sent = chip.sent, UNCHANGED <<ipc, intf, echo>>
      PROVE  EchoInChip'
  BY <1>d DEF EchoInChip, TxSeen, TxRaised, Turn
<1>1. CASE StartWork
  BY <1>1, <1>c
     DEF StartWork, WorkerAt, netvars, txvars, wqvars, istvars, privvars
<1>2. CASE WorkerLock
  BY <1>2, <1>c
     DEF WorkerLock, WorkerAt, netvars, txvars, wqvars, istvars, privvars
<1>3. CASE TxWorkTest
  BY <1>3, <1>c
     DEF TxWorkTest, WorkerAt, netvars, txvars, wqvars, istvars, privvars
<1>4. CASE TxWorkClean
  BY <1>4, <1>a, <1>b DEF TxWorkClean, Clean
<1>5. CASE TxWorkSend
  <2>1. CASE tx_skb = None
    BY <1>5, <2>1, <1>c DEF TxWorkSend, istvars, txvars
  <2>2. CASE tx_skb # None
    <3>1. ~InChip
      BY <2>2 DEF ChipFirst
    <3>2. /\ chip' = [chip EXCEPT !.tx = tx_skb] /\ UNCHANGED <<ipc, intf>>
          /\ echo' = IF echo = None THEN tx_skb ELSE echo
      BY <1>5, <2>2 DEF TxWorkSend, istvars
    <3>3. chip'.intf = chip.intf /\ chip'.tx = tx_skb
      BY <1>a, <3>2, LoadFields
    <3>4. echo = None
      BY <1>a, <2>2
    <3>5. QED
      BY <3>1, <3>2, <3>3, <3>4 DEF EchoInChip, InChip, TxSeen, TxRaised
  <2>3. QED
    BY <2>1, <2>2
<1>6. CASE RestartReset
  BY <1>6, <1>a, <1>d, ResetFields
     DEF RestartReset, WorkerAt, netvars, txvars, wqvars, istvars, privvars
<1>7. CASE RestartMode
  BY <1>7, <1>a, <1>d, NormalFields, SleepFields
     DEF RestartMode, WorkerAt, netvars, txvars, wqvars, istvars, privvars
<1>8. CASE RestartAttached
  BY <1>8, <1>a, <1>b DEF RestartAttached, Clean
<1>9. CASE RestartDone
  BY <1>9, <1>c
     DEF RestartDone, WorkerAt, netvars, txvars, wqvars, istvars, privvars
<1>10. CASE RestartTx
  <2>1. CASE restart_tx
    BY <1>10, <2>1, <1>a, <1>b DEF RestartTx, Clean
  <2>2. CASE ~restart_tx
    BY <1>10, <2>2, <1>c DEF RestartTx, istvars, txvars
  <2>3. QED
    BY <2>1, <2>2
<1>11. CASE WorkerUnlock
  BY <1>11, <1>c
     DEF WorkerUnlock, WorkerAt, netvars, txvars, wqvars, istvars, privvars
<1>12. CASE IstStart
  BY <1>12, <1>a DEF IstStart, IstAt, IstSame, netvars, txvars, wqvars, istvars,
         privvars, OneInChip, EchoInChip, TxSeen, TxRaised, Turn
<1>13. CASE IstLock
  BY <1>13, <1>a
     DEF IstLock, IstAt, IstSame, netvars, txvars, wqvars, istvars, privvars,
         OneInChip, EchoInChip, TxSeen, TxRaised, Turn
<1>14. CASE IstReceive
  <2>1. ipc' \in {"unlock", "read"} /\ ipc = "loop" /\ UNCHANGED <<intf, echo>>
    BY <1>14 DEF IstReceive, IstAt, txvars
  <2>2. chip' = chip \/ chip' = [chip EXCEPT !.intf = @ \ {"RX"}]
    BY <1>14 DEF IstReceive
  <2>3. CASE chip' = [chip EXCEPT !.intf = @ \ {"RX"}]
    <3>1. /\ chip'.tx = chip.tx /\ chip'.sent = chip.sent
          /\ chip'.intf = chip.intf \ {"RX"}
      BY <1>a, <2>3, ClearFields
    <3>2. QED
      BY <2>1, <3>1 DEF EchoInChip, TxSeen, TxRaised, Turn
  <2>4. CASE chip' = chip
    BY <2>1, <2>4 DEF EchoInChip, TxSeen, TxRaised, Turn
  <2>5. QED
    BY <2>2, <2>3, <2>4
<1>15. CASE IstRead
  BY <1>15, <1>a
     DEF IstRead, IstAt, IstSame, netvars, txvars, wqvars, istvars, privvars,
         OneInChip, EchoInChip, TxSeen, TxRaised, Turn
<1>16. CASE IstClear
  BY <1>16, <1>a, ClearFields
     DEF IstClear, IstAt, IstSame, netvars, txvars, wqvars, istvars,
         privvars, OneInChip, EchoInChip, TxSeen, TxRaised, Turn
<1>17. CASE IstUpdate
  BY <1>17, <1>a
     DEF IstUpdate, IstAt, IstSame, netvars, txvars, wqvars, istvars,
         privvars, OneInChip, EchoInChip, TxSeen, TxRaised, Turn
<1>18. CASE IstTest
  BY <1>18, <1>a
     DEF IstTest, IstAt, IstSame, netvars, txvars, wqvars, istvars, privvars,
         AfterState, OneInChip, EchoInChip, TxSeen, TxRaised, Turn
<1>19. CASE IstBusOff
  BY <1>19, <1>a
     DEF IstBusOff, IstAt, IstSame, netvars, txvars, wqvars, istvars,
         privvars, OneInChip, EchoInChip, TxSeen, TxRaised, Turn
<1>20. CASE IstSleep
  BY <1>20, <1>a, SleepFields
     DEF IstSleep, IstAt, IstSame, netvars, txvars, wqvars, istvars,
         privvars, OneInChip, EchoInChip, TxSeen, TxRaised, Turn
<1>21. CASE IstTx
  BY <1>21, <1>a, <1>b DEF IstTx
<1>22. CASE IstUnlock
  BY <1>22, <1>a
     DEF IstUnlock, IstAt, IstSame, netvars, txvars, wqvars, istvars,
         privvars, OneInChip, EchoInChip, TxSeen, TxRaised, Turn
<1>23. CASE OpenStart
  BY <1>23, <1>c
     DEF OpenStart, UserAt, NetSame, netvars, txvars, wqvars, istvars,
         privvars
<1>24. CASE OpenLock
  BY <1>24, <1>c
     DEF OpenLock, UserAt, NetSame, netvars, txvars, wqvars, istvars,
         privvars
<1>25. CASE OpenIrq
  BY <1>25, <1>c
     DEF OpenIrq, UserAt, NetSame, netvars, txvars, wqvars, istvars, privvars
<1>26. CASE OpenIrqFails
  BY <1>26, <1>c
     DEF OpenIrqFails, UserAt, NetSame, netvars, txvars, wqvars, istvars,
         privvars
<1>27. CASE OpenReset
  BY <1>27, <1>a, <1>d, ResetFields
     DEF OpenReset, UserAt, NetSame, netvars, txvars, wqvars, istvars,
         privvars
<1>28. CASE OpenNormal
  BY <1>28, <1>a, <1>d, NormalFields
     DEF OpenNormal, UserAt, NetSame, netvars, txvars, wqvars, istvars,
         privvars
<1>29. CASE OpenNormalFails
  BY <1>29, <1>a, <1>d, EnableFields
     DEF OpenNormalFails, UserAt, NetSame, netvars, txvars, wqvars, istvars,
         privvars
<1>30. CASE OpenClean
  BY <1>30, <1>a, <1>d, SleepFields
     DEF OpenClean, UserAt, NetSame, netvars, txvars, wqvars, istvars,
         privvars
<1>31. CASE StopFlush
  BY <1>31, <1>b DEF StopFlush
<1>32. CASE StopIrq
  BY <1>32, <1>c
     DEF StopIrq, UserAt, NetSame, netvars, txvars, wqvars, istvars, privvars
<1>33. CASE StopDrain
  BY <1>33, <1>c
     DEF StopDrain, UserAt, NetSame, netvars, txvars, wqvars, istvars,
         privvars
<1>34. CASE StopChip
  BY <1>34, <1>a, <1>b DEF StopChip, Clean
<1>35. CASE Restart
  BY <1>35, <1>b DEF Restart
<1>36. CASE Freeze
  BY <1>36, <1>c
     DEF Freeze, PmSame, UserAt, netvars, txvars, wqvars, istvars, privvars
<1>37. CASE SuspendQuit
  BY <1>37, <1>c
     DEF SuspendQuit, PmSame, netvars, txvars, wqvars, istvars, privvars
<1>38. CASE Suspend
  BY <1>38, <1>a, <1>d, SleepFields
     DEF Suspend, PmSame, netvars, txvars, wqvars, istvars, privvars
<1>39. CASE Resume
  BY <1>39, <1>c DEF Resume, PmSame, netvars, txvars, wqvars, istvars, privvars
<1>40. CASE Thaw
  BY <1>40, <1>c DEF Thaw, PmSame, netvars, txvars, wqvars, istvars, privvars
<1>41. CASE ChipReceives
  BY <1>41, <1>a, <1>d, ReceiveFields
     DEF ChipReceives, ChipVars, netvars, txvars, wqvars, istvars, privvars
<1>42. CASE ChipTransmits
  BY <1>42, <1>a, TransmitFields
     DEF ChipTransmits, ChipVars, netvars, txvars, wqvars, istvars, privvars,
         OneInChip, EchoInChip, TxSeen, TxRaised, Turn
<1>43. CASE \E level \in Levels : ChipError(level)
  <2>1. PICK level \in Levels :
          chip' = [chip EXCEPT !.eflg = level, !.intf = @ \cup {"ERR"}]
    BY <1>43 DEF ChipError
  <2>2. /\ chip'.tx = chip.tx /\ chip'.sent = chip.sent
        /\ chip'.intf = chip.intf \cup {"ERR"}
    BY <1>a, <2>1, ErrorFields
  <2>3. UNCHANGED <<ipc, intf, echo>>
    BY <1>43 DEF ChipError, ChipVars, istvars, txvars
  <2>4. QED
    BY <1>d, <2>2, <2>3
<1>44. CASE \E f \in Frames : HardStartXmit(f)
  BY <1>44, <1>c DEF HardStartXmit, netvars, txvars, wqvars, istvars, privvars
<1>45. CASE UNCHANGED vars
  BY <1>45, <1>c DEF vars, netvars, txvars, wqvars, istvars, privvars
<1> QED
  BY <1>1, <1>2, <1>3, <1>4, <1>5, <1>6, <1>7, <1>8, <1>9, <1>10, <1>11,
     <1>12, <1>13, <1>14, <1>15, <1>16, <1>17, <1>18, <1>19, <1>20, <1>21,
     <1>22, <1>23, <1>24, <1>25, <1>26, <1>27, <1>28, <1>29, <1>30, <1>31,
     <1>32, <1>33, <1>34, <1>35, <1>36, <1>37, <1>38, <1>39, <1>40, <1>41,
     <1>42, <1>43, <1>44, <1>45
     DEF Next, Chip, Worker, Ist, User, PowerManagement

-----------------------------------------------------------------------------
(* One frame at a time                                                     *)

(* tx_work, having a frame, finds the queue asleep. *)
LEMMA SendMeansAsleep ==
  ASSUME QueueAwakeMeansIdle, StopInv, FrameInv, TxWorkSend, tx_skb # None
  PROVE  ~(up = "up" /\ queue) /\ up \notin {"down", "opening"}
BY DEF QueueAwakeMeansIdle, FrameInv, TxWorkSend, WorkerAt

(* Until the interrupt of a frame has been dealt with there is no other. *)
LEMMA FirstStep ==
  ASSUME ~PromptRestart, ChipInv, StopInv, ChipOK, FrameInv, LockHeld, [Next]_vars
  PROVE  ChipFirst'
<1>a. /\ chip \in ChipTypes /\ tx_skb \in Frames \cup {None} /\ None \in Frames \cup {None}
  BY ChipFacts
<1>b. /\ OneInChip' /\ ChipFirst
      /\ InChip' => InChip \/ (TxWorkSend /\ tx_skb # None)
  BY FlagsStep DEF ChipInv
<1>d. ASSUME ~InChip' PROVE ChipFirst'
  BY <1>d DEF ChipFirst
<1>e. ASSUME ~InChip, ~(TxWorkSend /\ tx_skb # None) PROVE ChipFirst'
  BY <1>b, <1>d, <1>e
<1>1. CASE StartWork
  BY <1>1, <1>b
     DEF StartWork, WorkerAt, netvars, txvars, wqvars, istvars, privvars,
         ChipFirst, TxWorkSend
<1>2. CASE WorkerLock
  BY <1>2, <1>b
     DEF WorkerLock, WorkerAt, netvars, txvars, wqvars, istvars, privvars,
         ChipFirst, TxWorkSend
<1>3. CASE TxWorkTest
  BY <1>3, <1>b
     DEF TxWorkTest, WorkerAt, netvars, txvars, wqvars, istvars, privvars,
         ChipFirst, TxWorkSend
<1>4. CASE TxWorkClean
  BY <1>4, <1>b
     DEF TxWorkClean, Clean, WorkerAt, ChipFirst, TxWorkSend, netvars,
         privvars
<1>5. CASE TxWorkSend
  <2>1. CASE tx_skb = None
    BY <1>5, <2>1, <1>b DEF TxWorkSend, ChipFirst, netvars, txvars, privvars,
       WorkerAt
  <2>2. CASE tx_skb # None
    BY <1>5, <2>2, SendMeansAsleep
       DEF TxWorkSend, ChipInv, ChipFirst, StopInv, Opening, netvars
  <2>3. QED
    BY <2>1, <2>2
<1>6. CASE RestartReset
  <2>1. CASE after_suspend = {}
    <3>1. ~restart_tx
      BY <1>6, <2>1 DEF RestartReset, WorkerAt, ChipInv, ResetFirst
    <3>2. QED
      BY <1>6, <2>1, <3>1, <1>b
         DEF RestartReset, WorkerAt, ChipFirst, TxWorkSend, netvars, txvars,
             privvars
  <2>2. CASE after_suspend # {}
    <3>1. chip' = ResetChip(chip) /\ lock = "worker" /\ ipc' = ipc /\ intf' = intf
      BY <1>6, <2>2 DEF RestartReset, WorkerAt, LockHeld, istvars
    <3>2. ~InChip'
      BY <1>a, <3>1, ResetFields DEF LockHeld, InChip, TxSeen, TxRaised, Turn
    <3>3. QED
      BY <1>d, <3>2
  <2>3. QED
    BY <2>1, <2>2
<1>7. CASE RestartMode
  BY <1>7, <1>b, <1>e DEF RestartMode, ChipFirst, TxWorkSend, WorkerAt
<1>8. CASE RestartAttached
  BY <1>8, <1>b, <1>e DEF RestartAttached, ChipFirst, TxWorkSend, WorkerAt
<1>9. CASE RestartDone
  BY <1>9, <1>b, <1>e DEF RestartDone, ChipFirst, TxWorkSend, WorkerAt
<1>10. CASE RestartTx
  <2>1. CASE restart_tx
    BY <1>10, <2>1, <1>b, <1>e DEF RestartTx, ChipFirst, TxWorkSend, WorkerAt
  <2>2. CASE ~restart_tx
    BY <1>10, <2>2, <1>b DEF RestartTx, ChipFirst, TxWorkSend, WorkerAt, txvars
  <2>3. QED
    BY <2>1, <2>2
<1>11. CASE WorkerUnlock
  BY <1>11, <1>b
     DEF WorkerUnlock, WorkerAt, netvars, txvars, wqvars, istvars, privvars,
         ChipFirst, TxWorkSend
<1>12. CASE IstStart
  BY <1>12, <1>b
     DEF IstStart, IstSame, netvars, txvars, wqvars, istvars, privvars,
         ChipFirst, TxWorkSend
<1>13. CASE IstLock
  BY <1>13, <1>b
     DEF IstLock, IstSame, netvars, txvars, wqvars, istvars, privvars,
         ChipFirst, TxWorkSend
<1>14. CASE IstReceive
  BY <1>14, <1>b
     DEF IstReceive, IstSame, netvars, txvars, wqvars, istvars, privvars,
         ChipFirst, TxWorkSend
<1>15. CASE IstRead
  BY <1>15, <1>b
     DEF IstRead, IstSame, netvars, txvars, wqvars, istvars, privvars,
         ChipFirst, TxWorkSend
<1>16. CASE IstClear
  BY <1>16, <1>b
     DEF IstClear, IstSame, netvars, txvars, wqvars, istvars, privvars,
         ChipFirst, TxWorkSend
<1>17. CASE IstUpdate
  BY <1>17, <1>b
     DEF IstUpdate, IstSame, netvars, txvars, wqvars, istvars, privvars,
         ChipFirst, TxWorkSend
<1>18. CASE IstTest
  BY <1>18, <1>b
     DEF IstTest, IstSame, netvars, txvars, wqvars, istvars, privvars,
         ChipFirst, TxWorkSend
<1>19. CASE IstBusOff
  BY <1>19, <1>b
     DEF IstBusOff, IstSame, netvars, txvars, wqvars, istvars, privvars,
         ChipFirst, TxWorkSend
<1>20. CASE IstSleep
  BY <1>20, <1>b
     DEF IstSleep, IstSame, netvars, txvars, wqvars, istvars, privvars,
         ChipFirst, TxWorkSend
<1>21. CASE IstTx
  <2>1. ipc' = "loop" /\ ipc = "tx" /\ chip' = chip
    BY <1>21 DEF IstTx, IstAt
  <2>2. ~InChip'
    BY <2>1, <1>b DEF ChipInv, OneInChip, InChip, TxSeen, TxRaised, Turn
  <2>3. QED
    BY <1>d, <2>2
<1>22. CASE IstUnlock
  BY <1>22, <1>b
     DEF IstUnlock, IstSame, netvars, txvars, wqvars, istvars, privvars,
         ChipFirst, TxWorkSend
<1>23. CASE OpenStart
  BY <1>23, <1>b, <1>e
     DEF OpenStart, UserAt, NetSame, ChipFirst, TxWorkSend, WorkerAt
<1>24. CASE OpenLock
  BY <1>24, <1>b, <1>e
     DEF OpenLock, UserAt, NetSame, ChipFirst, TxWorkSend, WorkerAt
<1>25. CASE OpenIrq
  BY <1>25, <1>b DEF OpenIrq, UserAt, NetSame, netvars, txvars, wqvars, istvars,
         privvars, ChipFirst, TxWorkSend, WorkerAt
<1>26. CASE OpenIrqFails
  BY <1>26, <1>b, <1>e
     DEF OpenIrqFails, UserAt, NetSame, ChipFirst, TxWorkSend, WorkerAt
<1>27. CASE OpenReset
  <2>1. chip' = ResetChip(chip) /\ lock = "net" /\ UNCHANGED <<ipc, intf>>
    BY <1>27 DEF OpenReset, UserAt, LockHeld, NetSame, istvars
  <2>2. ~InChip'
    BY <1>a, <2>1, ResetFields DEF LockHeld, InChip, TxSeen, TxRaised, Turn
  <2>3. QED
    BY <1>d, <2>2
<1>28. CASE OpenNormal
  BY <1>28, <1>b, <1>e
     DEF OpenNormal, UserAt, NetSame, ChipFirst, TxWorkSend, WorkerAt
<1>29. CASE OpenNormalFails
  BY <1>29, <1>b, <1>e
     DEF OpenNormalFails, UserAt, NetSame, ChipFirst, TxWorkSend, WorkerAt
<1>30. CASE OpenClean
  BY <1>30, <1>b, <1>e
     DEF OpenClean, UserAt, NetSame, ChipFirst, TxWorkSend, WorkerAt
<1>31. CASE StopFlush
  BY <1>31, <1>b
     DEF StopFlush, UserAt, NetSame, netvars, txvars, wqvars, istvars,
         privvars, ChipFirst, TxWorkSend, WorkerAt
<1>32. CASE StopIrq
  BY <1>32, <1>b DEF StopIrq, UserAt, NetSame, netvars, txvars, wqvars, istvars,
         privvars, ChipFirst, TxWorkSend, WorkerAt
<1>33. CASE StopDrain
  BY <1>33, <1>b
     DEF StopDrain, UserAt, NetSame, netvars, txvars, wqvars, istvars,
         privvars, ChipFirst, TxWorkSend, WorkerAt
<1>34. CASE StopChip
  <2>1. /\ chip' = SleepChip([chip EXCEPT !.inte = FALSE, !.intf = {}, !.tx = None])
        /\ ipc = "idle" /\ UNCHANGED <<ipc, intf>>
    BY <1>34 DEF StopChip, UserAt, StopInv, NetSame, istvars
  <2>2. chip'.tx = None /\ chip'.intf = {}
    BY <1>a, <2>1, StopFields, SleepFields
  <2>3. ~InChip'
    BY <2>1, <2>2 DEF InChip, TxSeen, TxRaised, Turn
  <2>4. QED
    BY <1>d, <2>3
<1>35. CASE Restart
  BY <1>35, <1>b
     DEF Restart, UserAt, netvars, txvars, wqvars, istvars, privvars,
         ChipFirst, TxWorkSend, WorkerAt, RestartQuiet
<1>36. CASE Freeze
  BY <1>36, <1>b
     DEF Freeze, PmSame, UserAt, netvars, txvars, wqvars, istvars, privvars,
         ChipFirst, TxWorkSend
<1>37. CASE SuspendQuit
  BY <1>37, <1>b
     DEF SuspendQuit, PmSame, netvars, txvars, wqvars, istvars, privvars,
         ChipFirst, TxWorkSend
<1>38. CASE Suspend
  BY <1>38, <1>b
     DEF Suspend, PmSame, netvars, txvars, wqvars, istvars, privvars,
         ChipFirst, TxWorkSend
<1>39. CASE Resume
  BY <1>39, <1>b DEF Resume, PmSame, netvars, txvars, wqvars, istvars, privvars,
         ChipFirst, TxWorkSend
<1>40. CASE Thaw
  BY <1>40, <1>b
     DEF Thaw, PmSame, netvars, txvars, wqvars, istvars, privvars, ChipFirst,
         TxWorkSend
<1>41. CASE ChipReceives
  BY <1>41, <1>b
     DEF ChipReceives, ChipVars, netvars, txvars, wqvars, istvars, privvars,
         ChipFirst, TxWorkSend
<1>42. CASE ChipTransmits
  BY <1>42, <1>b
     DEF ChipTransmits, ChipVars, netvars, txvars, wqvars, istvars, privvars,
         ChipFirst, TxWorkSend
<1>43. CASE \E level \in Levels : ChipError(level)
  BY <1>43, <1>b
     DEF ChipError, ChipVars, netvars, txvars, wqvars, istvars, privvars,
         ChipFirst, TxWorkSend
<1>44. CASE \E f \in Frames : HardStartXmit(f)
  BY <1>44, <1>b, <1>e DEF HardStartXmit, ChipFirst, TxWorkSend
<1>45. CASE UNCHANGED vars
  BY <1>45, <1>b
     DEF vars, netvars, txvars, wqvars, istvars, privvars, ChipFirst,
         TxWorkSend
<1> QED
  BY <1>1, <1>2, <1>3, <1>4, <1>5, <1>6, <1>7, <1>8, <1>9, <1>10, <1>11,
     <1>12, <1>13, <1>14, <1>15, <1>16, <1>17, <1>18, <1>19, <1>20, <1>21,
     <1>22, <1>23, <1>24, <1>25, <1>26, <1>27, <1>28, <1>29, <1>30, <1>31,
     <1>32, <1>33, <1>34, <1>35, <1>36, <1>37, <1>38, <1>39, <1>40, <1>41,
     <1>42, <1>43, <1>44, <1>45
     DEF Next, Chip, Worker, Ist, User, PowerManagement

(* The queue wakes only after the frame that was in the driver has gone. *)
LEMMA AwakeStep ==
  ASSUME ChipInv, StopInv, FrameInv, LockHeld, [Next]_vars
  PROVE  QueueAwakeMeansIdle'
<1>a. /\ QueueAwakeMeansIdle /\ ChipFirst /\ OneInChip
      /\ up \in {"down", "opening"} => tx_skb = None /\ ~tx_len
  BY DEF ChipInv, FrameInv
<1>b. ASSUME tx_skb' = None, ~tx_len' PROVE QueueAwakeMeansIdle'
  BY <1>b DEF QueueAwakeMeansIdle
<1>1. CASE StartWork
  BY <1>1, <1>a
     DEF StartWork, WorkerAt, netvars, txvars, wqvars, istvars, privvars,
         QueueAwakeMeansIdle
<1>2. CASE WorkerLock
  BY <1>2, <1>a
     DEF WorkerLock, WorkerAt, netvars, txvars, wqvars, istvars, privvars,
         QueueAwakeMeansIdle
<1>3. CASE TxWorkTest
  BY <1>3, <1>a
     DEF TxWorkTest, WorkerAt, netvars, txvars, wqvars, istvars, privvars,
         QueueAwakeMeansIdle
<1>4. CASE TxWorkClean
  BY <1>4, <1>b DEF TxWorkClean, Clean
<1>5. CASE TxWorkSend
  <2>1. CASE tx_skb = None
    BY <1>5, <2>1, <1>a DEF TxWorkSend, QueueAwakeMeansIdle, WorkerAt, netvars, txvars
  <2>2. CASE tx_skb # None
    BY <1>5, <2>2, SendMeansAsleep DEF ChipInv, TxWorkSend, QueueAwakeMeansIdle, netvars
  <2>3. QED
    BY <2>1, <2>2
<1>6. CASE RestartReset
  BY <1>6, <1>a
     DEF RestartReset, WorkerAt, netvars, txvars, wqvars, istvars, privvars,
         QueueAwakeMeansIdle
<1>7. CASE RestartMode
  BY <1>7, <1>a
     DEF RestartMode, WorkerAt, netvars, txvars, wqvars, istvars, privvars,
         QueueAwakeMeansIdle
<1>8. CASE RestartAttached
  BY <1>8, <1>b DEF RestartAttached, Clean
<1>9. CASE RestartDone
  BY <1>9, <1>a
     DEF RestartDone, WorkerAt, netvars, txvars, wqvars, istvars, privvars,
         QueueAwakeMeansIdle
<1>10. CASE RestartTx
  BY <1>10, <1>a, <1>b
     DEF RestartTx, Clean, WorkerAt, QueueAwakeMeansIdle, txvars
<1>11. CASE WorkerUnlock
  BY <1>11, <1>a
     DEF WorkerUnlock, WorkerAt, netvars, txvars, wqvars, istvars, privvars,
         QueueAwakeMeansIdle
<1>12. CASE IstStart
  BY <1>12, <1>a DEF IstStart, IstAt, IstSame, netvars, txvars, wqvars, istvars,
         privvars, QueueAwakeMeansIdle
<1>13. CASE IstLock
  BY <1>13, <1>a
     DEF IstLock, IstAt, IstSame, netvars, txvars, wqvars, istvars, privvars,
         QueueAwakeMeansIdle
<1>14. CASE IstReceive
  BY <1>14, <1>a
     DEF IstReceive, IstAt, IstSame, netvars, txvars, wqvars, istvars,
         privvars, QueueAwakeMeansIdle
<1>15. CASE IstRead
  BY <1>15, <1>a
     DEF IstRead, IstAt, IstSame, netvars, txvars, wqvars, istvars, privvars,
         QueueAwakeMeansIdle
<1>16. CASE IstClear
  BY <1>16, <1>a DEF IstClear, IstAt, IstSame, netvars, txvars, wqvars, istvars,
         privvars, QueueAwakeMeansIdle
<1>17. CASE IstUpdate
  BY <1>17, <1>a
     DEF IstUpdate, IstAt, IstSame, netvars, txvars, wqvars, istvars,
         privvars, QueueAwakeMeansIdle
<1>18. CASE IstTest
  BY <1>18, <1>a
     DEF IstTest, IstAt, IstSame, netvars, txvars, wqvars, istvars, privvars,
         QueueAwakeMeansIdle
<1>19. CASE IstBusOff
  BY <1>19, <1>a
     DEF IstBusOff, IstAt, IstSame, netvars, txvars, wqvars, istvars,
         privvars, QueueAwakeMeansIdle
<1>20. CASE IstSleep
  BY <1>20, <1>a DEF IstSleep, IstAt, IstSame, netvars, txvars, wqvars, istvars,
         privvars, QueueAwakeMeansIdle
<1>21. CASE IstTx
  BY <1>21, <1>a, <1>b
     DEF IstTx, IstAt, ChipFirst, OneInChip, InChip, TxSeen, Turn
<1>22. CASE IstUnlock
  BY <1>22, <1>a
     DEF IstUnlock, IstAt, IstSame, netvars, txvars, wqvars, istvars,
         privvars, QueueAwakeMeansIdle
<1>23. CASE OpenStart
  BY <1>23, <1>a
     DEF OpenStart, UserAt, NetSame, netvars, txvars, wqvars, istvars,
         privvars, QueueAwakeMeansIdle, StopInv, Opening, Stopping
<1>24. CASE OpenLock
  BY <1>24, <1>a, <1>b DEF OpenLock, UserAt, StopInv, Opening, txvars
<1>25. CASE OpenIrq
  BY <1>25, <1>a DEF OpenIrq, UserAt, NetSame, netvars, txvars, wqvars, istvars,
         privvars, QueueAwakeMeansIdle, StopInv, Opening, Stopping
<1>26. CASE OpenIrqFails
  BY <1>26, <1>a
     DEF OpenIrqFails, UserAt, NetSame, netvars, txvars, wqvars, istvars,
         privvars, QueueAwakeMeansIdle, StopInv, Opening, Stopping
<1>27. CASE OpenReset
  BY <1>27, <1>a
     DEF OpenReset, UserAt, NetSame, netvars, txvars, wqvars, istvars,
         privvars, QueueAwakeMeansIdle, StopInv, Opening, Stopping
<1>28. CASE OpenNormal
  BY <1>28, <1>a, <1>b DEF OpenNormal, UserAt, StopInv, Opening, txvars
<1>29. CASE OpenNormalFails
  BY <1>29, <1>a
     DEF OpenNormalFails, UserAt, NetSame, netvars, txvars, wqvars, istvars,
         privvars, QueueAwakeMeansIdle, StopInv, Opening, Stopping
<1>30. CASE OpenClean
  BY <1>30, <1>a
     DEF OpenClean, UserAt, NetSame, netvars, txvars, wqvars, istvars,
         privvars, QueueAwakeMeansIdle, StopInv, Opening, Stopping
<1>31. CASE StopFlush
  BY <1>31, <1>a
     DEF StopFlush, UserAt, NetSame, netvars, txvars, wqvars, istvars,
         privvars, QueueAwakeMeansIdle, StopInv, Opening, Stopping
<1>32. CASE StopIrq
  BY <1>32, <1>a DEF StopIrq, UserAt, NetSame, netvars, txvars, wqvars, istvars,
         privvars, QueueAwakeMeansIdle, StopInv, Opening, Stopping
<1>33. CASE StopDrain
  BY <1>33, <1>a
     DEF StopDrain, UserAt, NetSame, netvars, txvars, wqvars, istvars,
         privvars, QueueAwakeMeansIdle, StopInv, Opening, Stopping
<1>34. CASE StopChip
  BY <1>34, <1>b DEF StopChip, Clean
<1>35. CASE Restart
  BY <1>35, <1>a
     DEF Restart, UserAt, netvars, txvars, wqvars, istvars, privvars,
         QueueAwakeMeansIdle, StopInv, Opening, Stopping
<1>36. CASE Freeze
  BY <1>36, <1>a
     DEF Freeze, PmSame, UserAt, netvars, txvars, wqvars, istvars, privvars,
         QueueAwakeMeansIdle
<1>37. CASE SuspendQuit
  BY <1>37, <1>a
     DEF SuspendQuit, PmSame, netvars, txvars, wqvars, istvars, privvars,
         QueueAwakeMeansIdle
<1>38. CASE Suspend
  BY <1>38, <1>a
     DEF Suspend, PmSame, netvars, txvars, wqvars, istvars, privvars,
         QueueAwakeMeansIdle
<1>39. CASE Resume
  BY <1>39, <1>a DEF Resume, PmSame, netvars, txvars, wqvars, istvars, privvars,
         QueueAwakeMeansIdle
<1>40. CASE Thaw
  BY <1>40, <1>a DEF Thaw, PmSame, netvars, txvars, wqvars, istvars, privvars,
         QueueAwakeMeansIdle
<1>41. CASE ChipReceives
  BY <1>41, <1>a
     DEF ChipReceives, ChipVars, netvars, txvars, wqvars, istvars, privvars,
         QueueAwakeMeansIdle
<1>42. CASE ChipTransmits
  BY <1>42, <1>a
     DEF ChipTransmits, ChipVars, netvars, txvars, wqvars, istvars, privvars,
         QueueAwakeMeansIdle
<1>43. CASE \E level \in Levels : ChipError(level)
  BY <1>43, <1>a
     DEF ChipError, ChipVars, netvars, txvars, wqvars, istvars, privvars,
         QueueAwakeMeansIdle
<1>44. CASE \E f \in Frames : HardStartXmit(f)
  BY <1>44, <1>a DEF HardStartXmit, netvars, txvars, wqvars, istvars, privvars,
         QueueAwakeMeansIdle
<1>45. CASE UNCHANGED vars
  BY <1>45, <1>a DEF vars, netvars, txvars, wqvars, istvars, privvars,
         QueueAwakeMeansIdle
<1> QED
  BY <1>1, <1>2, <1>3, <1>4, <1>5, <1>6, <1>7, <1>8, <1>9, <1>10, <1>11,
     <1>12, <1>13, <1>14, <1>15, <1>16, <1>17, <1>18, <1>19, <1>20, <1>21,
     <1>22, <1>23, <1>24, <1>25, <1>26, <1>27, <1>28, <1>29, <1>30, <1>31,
     <1>32, <1>33, <1>34, <1>35, <1>36, <1>37, <1>38, <1>39, <1>40, <1>41,
     <1>42, <1>43, <1>44, <1>45
     DEF Next, Chip, Worker, Ist, User, PowerManagement

-----------------------------------------------------------------------------
(* Restarts                                                                *)

(* Only tx_work takes the frame away that it has tested. *)
LEMMA TestStep ==
  ASSUME ~PromptRestart, ChipInv, StopInv, FrameInv, LockHeld, [Next]_vars
  PROVE  TestHolds'
<1>a. TestHolds /\ (up \in {"down", "opening"} => tx_skb = None)
  BY DEF ChipInv, FrameInv
<1> USE DEF TestHolds
<1>1. CASE StartWork
  BY <1>1, <1>a DEF StartWork, WorkerAt, txvars
<1>2. CASE WorkerLock
  BY <1>2, <1>a DEF WorkerLock, WorkerAt, txvars
<1>3. CASE TxWorkTest
  BY <1>3, <1>a DEF TxWorkTest, WorkerAt, txvars
<1>4. CASE TxWorkClean
  BY <1>4, <1>a DEF TxWorkClean, WorkerAt
<1>5. CASE TxWorkSend
  BY <1>5, <1>a DEF TxWorkSend, WorkerAt
<1>6. CASE RestartReset
  BY <1>6, <1>a DEF RestartReset, WorkerAt, txvars
<1>7. CASE RestartMode
  BY <1>7, <1>a DEF RestartMode, WorkerAt, txvars
<1>8. CASE RestartAttached
  BY <1>8, <1>a DEF RestartAttached, WorkerAt
<1>9. CASE RestartDone
  BY <1>9, <1>a DEF RestartDone, WorkerAt, txvars
<1>10. CASE RestartTx
  BY <1>10, <1>a DEF RestartTx, WorkerAt
<1>11. CASE WorkerUnlock
  BY <1>11, <1>a DEF WorkerUnlock, WorkerAt, txvars
<1>12. CASE IstStart
  BY <1>12, <1>a DEF IstStart, IstSame, txvars
<1>13. CASE IstLock
  BY <1>13, <1>a DEF IstLock, IstSame, txvars
<1>14. CASE IstReceive
  BY <1>14, <1>a DEF IstReceive, IstSame, txvars
<1>15. CASE IstRead
  BY <1>15, <1>a DEF IstRead, IstSame, txvars
<1>16. CASE IstClear
  BY <1>16, <1>a DEF IstClear, IstSame, txvars
<1>17. CASE IstUpdate
  BY <1>17, <1>a DEF IstUpdate, IstSame, txvars
<1>18. CASE IstTest
  BY <1>18, <1>a DEF IstTest, IstSame, txvars
<1>19. CASE IstBusOff
  BY <1>19, <1>a DEF IstBusOff, IstSame, txvars
<1>20. CASE IstSleep
  BY <1>20, <1>a DEF IstSleep, IstSame, txvars
<1>21. CASE IstTx
  BY <1>21, <1>a DEF IstTx, IstSame
<1>22. CASE IstUnlock
  BY <1>22, <1>a DEF IstUnlock, IstSame, txvars
<1>23. CASE OpenStart
  BY <1>23, <1>a DEF OpenStart, UserAt, NetSame, StopInv, Opening, txvars
<1>24. CASE OpenLock
  BY <1>24, <1>a DEF OpenLock, UserAt, NetSame, StopInv, Opening, txvars
<1>25. CASE OpenIrq
  BY <1>25, <1>a DEF OpenIrq, UserAt, NetSame, StopInv, Opening, txvars
<1>26. CASE OpenIrqFails
  BY <1>26, <1>a DEF OpenIrqFails, UserAt, NetSame, StopInv, Opening, txvars
<1>27. CASE OpenReset
  BY <1>27, <1>a DEF OpenReset, UserAt, NetSame, StopInv, Opening, txvars
<1>28. CASE OpenNormal
  BY <1>28, <1>a DEF OpenNormal, UserAt, NetSame, StopInv, Opening, txvars
<1>29. CASE OpenNormalFails
  BY <1>29, <1>a DEF OpenNormalFails, UserAt, NetSame, StopInv, Opening, txvars
<1>30. CASE OpenClean
  BY <1>30, <1>a DEF OpenClean, UserAt, NetSame, StopInv, Opening, txvars
<1>31. CASE StopFlush
  BY <1>31, <1>a DEF StopFlush, UserAt, NetSame, StopInv, Opening, txvars
<1>32. CASE StopIrq
  BY <1>32, <1>a DEF StopIrq, UserAt, NetSame, StopInv, Opening, txvars
<1>33. CASE StopDrain
  BY <1>33, <1>a DEF StopDrain, UserAt, NetSame, StopInv, Opening, txvars
<1>34. CASE StopChip
  BY <1>34, <1>a DEF StopChip, UserAt, NetSame, StopInv, Opening, txvars
<1>35. CASE Restart
  BY <1>35, <1>a
     DEF Restart, UserAt, NetSame, StopInv, Opening, txvars, RestartQuiet
<1>36. CASE Freeze
  BY <1>36, <1>a DEF Freeze, PmSame, txvars
<1>37. CASE SuspendQuit
  BY <1>37, <1>a DEF SuspendQuit, PmSame, txvars
<1>38. CASE Suspend
  BY <1>38, <1>a DEF Suspend, PmSame, txvars
<1>39. CASE Resume
  BY <1>39, <1>a DEF Resume, PmSame, txvars
<1>40. CASE Thaw
  BY <1>40, <1>a DEF Thaw, PmSame, txvars
<1>41. CASE ChipReceives
  BY <1>41, <1>a DEF ChipReceives, ChipVars, txvars
<1>42. CASE ChipTransmits
  BY <1>42, <1>a DEF ChipTransmits, ChipVars, txvars
<1>43. CASE \E level \in Levels : ChipError(level)
  BY <1>43, <1>a DEF ChipError, ChipVars, txvars
<1>44. CASE \E f \in Frames : HardStartXmit(f)
  BY <1>44, <1>a, Mcp251xAssumption DEF HardStartXmit
<1>45. CASE UNCHANGED vars
  BY <1>45, <1>a DEF vars, txvars
<1> QED
  BY <1>1, <1>2, <1>3, <1>4, <1>5, <1>6, <1>7, <1>8, <1>9, <1>10, <1>11,
     <1>12, <1>13, <1>14, <1>15, <1>16, <1>17, <1>18, <1>19, <1>20, <1>21,
     <1>22, <1>23, <1>24, <1>25, <1>26, <1>27, <1>28, <1>29, <1>30, <1>31,
     <1>32, <1>33, <1>34, <1>35, <1>36, <1>37, <1>38, <1>39, <1>40, <1>41,
     <1>42, <1>43, <1>44, <1>45
     DEF Next, Chip, Worker, Ist, User, PowerManagement

(* A restart of the transmitter is queued or under way, and it begins with a
   reset of the chip. *)
LEMMA ResetStep ==
  ASSUME ~PromptRestart, ChipInv, StopInv, ChipOK, FrameInv, [Next]_vars
  PROVE  ResetFirst'
<1>a. ResetFirst /\ pending \in Seq(Works)
  BY ChipFacts DEF ChipInv
<1>b. ASSUME UNCHANGED <<restart_tx, pending, wpc, after_suspend>> PROVE ResetFirst'
  BY <1>a, <1>b DEF ResetFirst, InBacklog
<1>c. ASSUME pending' = pending PROVE InBacklog("restart")' = InBacklog("restart")
  BY <1>c DEF InBacklog
<1>1. CASE StartWork
  <2>1. /\ wpc = "idle" /\ pending # <<>> /\ pending' = Tail(pending)
        /\ wpc' = IF Head(pending) = "tx" THEN "tx_lock" ELSE "rs_lock"
        /\ UNCHANGED <<restart_tx, after_suspend>>
    BY <1>1 DEF StartWork, WorkerAt, privvars
  <2>2. CASE Head(pending) = "tx"
    BY <1>a, <2>1, <2>2, TailTypes DEF ResetFirst
  <2>3. CASE Head(pending) # "tx"
    BY <1>a, <2>1, <2>3 DEF ResetFirst
  <2>4. QED
    BY <2>2, <2>3
<1>2. CASE WorkerLock
  BY <1>2, <1>a, <1>c DEF WorkerLock, WorkerAt, wqvars, privvars, ResetFirst
<1>3. CASE TxWorkTest
  BY <1>3, <1>a, <1>c DEF TxWorkTest, WorkerAt, wqvars, privvars, ResetFirst
<1>4. CASE TxWorkClean
  BY <1>4, <1>a, <1>c DEF TxWorkClean, WorkerAt, wqvars, privvars, ResetFirst
<1>5. CASE TxWorkSend
  BY <1>5, <1>a, <1>c DEF TxWorkSend, WorkerAt, wqvars, privvars, ResetFirst
<1>6. CASE RestartReset
  BY <1>6, <1>a, <1>c DEF RestartReset, WorkerAt, wqvars, privvars, ResetFirst
<1>7. CASE RestartMode
  BY <1>7, <1>a, <1>c DEF RestartMode, WorkerAt, wqvars, ResetFirst
<1>8. CASE RestartAttached
  BY <1>8, <1>a, <1>c DEF RestartAttached, WorkerAt, wqvars, ResetFirst
<1>9. CASE RestartDone
  BY <1>9, <1>a, <1>c DEF RestartDone, WorkerAt, wqvars, ResetFirst
<1>10. CASE RestartTx
  BY <1>10, <1>a, <1>c DEF RestartTx, WorkerAt, wqvars, ResetFirst
<1>11. CASE WorkerUnlock
  BY <1>11, <1>a, <1>c DEF WorkerUnlock, WorkerAt, wqvars, privvars, ResetFirst
<1>12. CASE IstStart
  BY <1>12, <1>b DEF IstStart, IstSame, wqvars
<1>13. CASE IstLock
  BY <1>13, <1>b DEF IstLock, IstSame, wqvars
<1>14. CASE IstReceive
  BY <1>14, <1>b DEF IstReceive, IstSame, wqvars
<1>15. CASE IstRead
  BY <1>15, <1>b DEF IstRead, IstSame, wqvars
<1>16. CASE IstClear
  BY <1>16, <1>b DEF IstClear, IstSame, wqvars
<1>17. CASE IstUpdate
  BY <1>17, <1>b DEF IstUpdate, IstSame, wqvars
<1>18. CASE IstTest
  BY <1>18, <1>b DEF IstTest, IstSame, wqvars
<1>19. CASE IstBusOff
  BY <1>19, <1>b DEF IstBusOff, IstSame, wqvars
<1>20. CASE IstSleep
  BY <1>20, <1>b DEF IstSleep, IstSame, wqvars
<1>21. CASE IstTx
  BY <1>21, <1>b DEF IstTx, IstSame, wqvars
<1>22. CASE IstUnlock
  BY <1>22, <1>b DEF IstUnlock, IstSame, wqvars
<1>23. CASE OpenStart
  BY <1>23, <1>b DEF OpenStart, NetSame, wqvars
<1>24. CASE OpenLock
  BY <1>24, <1>b DEF OpenLock, NetSame, wqvars
<1>25. CASE OpenIrq
  BY <1>25, <1>b DEF OpenIrq, NetSame, wqvars
<1>26. CASE OpenIrqFails
  BY <1>26, <1>b DEF OpenIrqFails, NetSame, wqvars
<1>27. CASE OpenReset
  BY <1>27, <1>b DEF OpenReset, NetSame, wqvars
<1>28. CASE OpenNormal
  BY <1>28, <1>b DEF OpenNormal, NetSame, wqvars
<1>29. CASE OpenNormalFails
  BY <1>29, <1>b DEF OpenNormalFails, NetSame, wqvars
<1>30. CASE OpenClean
  BY <1>30, <1>b DEF OpenClean, NetSame, wqvars
<1>31. CASE StopFlush
  BY <1>31, <1>b DEF StopFlush, NetSame, wqvars
<1>32. CASE StopIrq
  BY <1>32, <1>b DEF StopIrq, NetSame, wqvars
<1>33. CASE StopDrain
  BY <1>33, <1>b DEF StopDrain, NetSame, wqvars
<1>34. CASE StopChip
  BY <1>34, <1>b DEF StopChip, NetSame, wqvars
<1>35. CASE Restart
  <2>1. QueueWork("restart") /\ wq
    BY <1>35 DEF Restart, StopInv
  <2>2. InBacklog("restart")' /\ after_suspend' = {"restart"}
    BY <1>35, <1>a, <2>1, QueueTypes DEF Restart, Works
  <2>3. QED
    BY <2>2 DEF ResetFirst
<1>36. CASE Freeze
  BY <1>36, <1>b DEF Freeze, PmSame, wqvars
<1>37. CASE SuspendQuit
  BY <1>37, <1>b DEF SuspendQuit, PmSame, wqvars
<1>38. CASE Suspend
  <2>1. after_suspend' # {} /\ UNCHANGED <<restart_tx, pending, wpc>>
    BY <1>38 DEF Suspend, PmSame
  <2>2. QED
    BY <1>a, <1>c, <2>1 DEF ResetFirst
<1>39. CASE Resume
  <2>1. /\ pm = "suspended" /\ UNCHANGED <<restart_tx, wpc>>
    BY <1>39 DEF Resume, PmSame
  <2>2. CASE QueueWork("restart") /\ after_suspend' = after_suspend
    BY <1>a, <2>1, <2>2, QueueTypes DEF ResetFirst, Works
  <2>3. CASE after_suspend \cap {"power", "up"} = {} /\ pending' = pending
    <3>1. up # "up" /\ ~PowerEnable
      BY <2>1, <2>3 DEF StopInv
    <3>2. up = "down" /\ pending = <<>> /\ wpc = "idle"
      BY <2>1, <3>1 DEF StopInv, Opening, Stopping, Stray
    <3>3. ~restart_tx
      BY <1>a, <3>2 DEF ResetFirst, InBacklog
    <3>4. QED
      BY <2>1, <3>3 DEF ResetFirst
  <2>4. QED
    BY <1>39, <2>2, <2>3 DEF Resume
<1>40. CASE Thaw
  BY <1>40, <1>b DEF Thaw, PmSame, wqvars
<1>41. CASE ChipReceives
  BY <1>41, <1>b DEF ChipReceives, ChipVars, wqvars, privvars
<1>42. CASE ChipTransmits
  BY <1>42, <1>b DEF ChipTransmits, ChipVars, wqvars, privvars
<1>43. CASE \E level \in Levels : ChipError(level)
  BY <1>43, <1>b DEF ChipError, ChipVars, wqvars, privvars
<1>44. CASE \E f \in Frames : HardStartXmit(f)
  <2>1. QueueWork("tx") /\ UNCHANGED <<restart_tx, wpc, after_suspend>>
    BY <1>44 DEF HardStartXmit, privvars
  <2>2. InBacklog("restart") => InBacklog("restart")'
    BY <1>a, <2>1, QueueTypes DEF Works
  <2>3. QED
    BY <1>a, <2>1, <2>2 DEF ResetFirst
<1>45. CASE UNCHANGED vars
  BY <1>45, <1>b DEF vars, wqvars, privvars
<1> QED
  BY <1>1, <1>2, <1>3, <1>4, <1>5, <1>6, <1>7, <1>8, <1>9, <1>10, <1>11,
     <1>12, <1>13, <1>14, <1>15, <1>16, <1>17, <1>18, <1>19, <1>20, <1>21,
     <1>22, <1>23, <1>24, <1>25, <1>26, <1>27, <1>28, <1>29, <1>30, <1>31,
     <1>32, <1>33, <1>34, <1>35, <1>36, <1>37, <1>38, <1>39, <1>40, <1>41,
     <1>42, <1>43, <1>44, <1>45
     DEF Next, Chip, Worker, Ist, User, PowerManagement

(* What ties queue, transmit buffer, interrupt flags and threads together. *)
LEMMA ChipStep ==
  ASSUME ~PromptRestart, ChipInv, StopInv, ChipOK, FrameInv, LockHeld, [Next]_vars
  PROVE  ChipInv'
<1>1. OneInChip /\ EchoInChip /\ ChipFirst
  BY DEF ChipInv
<1>2. QED
  BY <1>1, FlagsStep, EchoStep, FirstStep, ResetStep, TestStep, AwakeStep DEF ChipInv

-----------------------------------------------------------------------------
(* Bus-off, without suspends                                               *)

(* Without suspends power management never moves. *)
LEMMA NoPowerManagement ==
  ASSUME ~Suspends, StopInv
  PROVE  pm = "running" /\ ~PowerManagement /\ ~Stray
BY DEF StopInv, PowerManagement, Freeze, SuspendQuit, Suspend, Resume, Thaw, Stray

(* Once the interrupt thread is out of its turn with force_quit set, only the
   end of a restart and the next open let it in again. *)
LEMMA QuietStays ==
  ASSUME ~Suspends, StopInv, Quiet, [Next]_vars, ~RestartDone, ~OpenLock
  PROVE  Quiet'
<1> USE DEF Quiet
<1>1. CASE StartWork
  BY <1>1 DEF StartWork, istvars, privvars
<1>2. CASE WorkerLock
  BY <1>2 DEF WorkerLock, istvars, privvars
<1>3. CASE TxWorkTest
  BY <1>3 DEF TxWorkTest, istvars, privvars
<1>4. CASE TxWorkClean
  BY <1>4 DEF TxWorkClean, istvars, privvars
<1>5. CASE TxWorkSend
  BY <1>5 DEF TxWorkSend, istvars, privvars
<1>6. CASE RestartReset
  BY <1>6 DEF RestartReset, istvars, privvars
<1>7. CASE RestartMode
  BY <1>7 DEF RestartMode, istvars, privvars
<1>8. CASE RestartAttached
  BY <1>8 DEF RestartAttached, istvars, privvars
<1>9. CASE RestartDone
  BY <1>9
<1>10. CASE RestartTx
  BY <1>10 DEF RestartTx, istvars, privvars
<1>11. CASE WorkerUnlock
  BY <1>11 DEF WorkerUnlock, istvars, privvars
<1>12. CASE IstStart
  BY <1>12 DEF IstStart, IstAt, IstSame
<1>13. CASE IstLock
  BY <1>13 DEF IstLock, IstAt, IstSame
<1>14. CASE IstReceive
  BY <1>14 DEF IstReceive, IstAt, IstSame
<1>15. CASE IstRead
  BY <1>15 DEF IstRead, IstAt, IstSame
<1>16. CASE IstClear
  BY <1>16 DEF IstClear, IstAt, IstSame
<1>17. CASE IstUpdate
  BY <1>17 DEF IstUpdate, IstAt, IstSame
<1>18. CASE IstTest
  BY <1>18 DEF IstTest, IstAt, IstSame, AfterState
<1>19. CASE IstBusOff
  BY <1>19 DEF IstBusOff, IstAt, IstSame
<1>20. CASE IstSleep
  BY <1>20 DEF IstSleep, IstAt, IstSame
<1>21. CASE IstTx
  BY <1>21 DEF IstTx, IstAt, IstSame
<1>22. CASE IstUnlock
  BY <1>22 DEF IstUnlock, IstAt, IstSame
<1>23. CASE OpenStart
  BY <1>23 DEF OpenStart, NetSame, istvars
<1>24. CASE OpenLock
  BY <1>24
<1>25. CASE OpenIrq
  BY <1>25 DEF OpenIrq, NetSame, istvars
<1>26. CASE OpenIrqFails
  BY <1>26 DEF OpenIrqFails, NetSame, istvars
<1>27. CASE OpenReset
  BY <1>27 DEF OpenReset, NetSame, istvars
<1>28. CASE OpenNormal
  BY <1>28 DEF OpenNormal, NetSame, istvars
<1>29. CASE OpenNormalFails
  BY <1>29 DEF OpenNormalFails, NetSame, istvars
<1>30. CASE OpenClean
  BY <1>30 DEF OpenClean, NetSame, istvars
<1>31. CASE StopFlush
  BY <1>31 DEF StopFlush, NetSame, istvars
<1>32. CASE StopIrq
  BY <1>32 DEF StopIrq, NetSame, istvars
<1>33. CASE StopDrain
  BY <1>33 DEF StopDrain, NetSame, istvars
<1>34. CASE StopChip
  BY <1>34 DEF StopChip, NetSame, istvars
<1>35. CASE Restart
  BY <1>35 DEF Restart, NetSame, istvars
<1>36. CASE Freeze
  BY <1>36, NoPowerManagement DEF PowerManagement
<1>37. CASE SuspendQuit
  BY <1>37, NoPowerManagement DEF PowerManagement
<1>38. CASE Suspend
  BY <1>38, NoPowerManagement DEF PowerManagement
<1>39. CASE Resume
  BY <1>39, NoPowerManagement DEF PowerManagement
<1>40. CASE Thaw
  BY <1>40, NoPowerManagement DEF PowerManagement
<1>41. CASE ChipReceives
  BY <1>41 DEF ChipReceives, ChipVars, istvars, privvars
<1>42. CASE ChipTransmits
  BY <1>42 DEF ChipTransmits, ChipVars, istvars, privvars
<1>43. CASE \E level \in Levels : ChipError(level)
  BY <1>43 DEF ChipError, ChipVars, istvars, privvars
<1>44. CASE \E f \in Frames : HardStartXmit(f)
  BY <1>44 DEF HardStartXmit, istvars, privvars
<1>45. CASE UNCHANGED vars
  BY <1>45 DEF vars, istvars, privvars
<1> QED
  BY <1>1, <1>2, <1>3, <1>4, <1>5, <1>6, <1>7, <1>8, <1>9, <1>10, <1>11,
     <1>12, <1>13, <1>14, <1>15, <1>16, <1>17, <1>18, <1>19, <1>20, <1>21,
     <1>22, <1>23, <1>24, <1>25, <1>26, <1>27, <1>28, <1>29, <1>30, <1>31,
     <1>32, <1>33, <1>34, <1>35, <1>36, <1>37, <1>38, <1>39, <1>40, <1>41,
     <1>42, <1>43, <1>44, <1>45
     DEF Next, Chip, Worker, Ist, User, PowerManagement

(* A frame in the chip is announced by tx_len until the chip is reset. *)
LEMMA QuietStep ==
  ASSUME ~PromptRestart, ~Suspends, BusOffInv, ChipInv, StopInv, ChipOK, FrameInv, LockHeld,
         [Next]_vars
  PROVE  QuietUntilReset'
<1>a. /\ QuietUntilReset /\ CarrierInv /\ ResetUnderWay
      /\ ChipFirst /\ OneInChip /\ TestHolds /\ pm = "running" /\ ~Stray
      /\ chip \in ChipTypes /\ pending \in Seq(Works)
  BY NoPowerManagement, ChipFacts DEF BusOffInv, ChipInv
<1>b. InChip' => InChip \/ (TxWorkSend /\ tx_skb # None)
  BY <1>a, FlagsStep
<1>c. ~RestartDone /\ ~OpenLock /\ Quiet => Quiet'
  BY QuietStays
<1>d. ASSUME ~TxWorkSend, ~RestartDone, ~OpenLock,
             UNCHANGED <<up, carrier, after_suspend, tx_len>>
      PROVE  QuietUntilReset'
  BY <1>a, <1>b, <1>c, <1>d DEF QuietUntilReset
<1>e. ASSUME ~TxWorkSend, ~RestartDone, ~OpenLock, ~InChip \/ ~InChip',
             up' = "up" => up = "up", UNCHANGED <<carrier, after_suspend>>
      PROVE  QuietUntilReset'
  BY <1>a, <1>b, <1>c, <1>e DEF QuietUntilReset
<1>1. CASE StartWork
  BY <1>1, <1>d DEF StartWork, WorkerAt, netvars, txvars, privvars, TxWorkSend,
         RestartDone, OpenLock
<1>2. CASE WorkerLock
  BY <1>2, <1>d
     DEF WorkerLock, WorkerAt, netvars, txvars, privvars, TxWorkSend,
         RestartDone, OpenLock
<1>3. CASE TxWorkTest
  BY <1>3, <1>d
     DEF TxWorkTest, WorkerAt, netvars, txvars, privvars, TxWorkSend,
         RestartDone, OpenLock
<1>4. CASE TxWorkClean
  BY <1>4, <1>a, <1>e
     DEF TxWorkClean, WorkerAt, ChipFirst, TestHolds, netvars, privvars,
         TxWorkSend, RestartDone, OpenLock
<1>5. CASE TxWorkSend
  <2>1. /\ UNCHANGED <<up, carrier, after_suspend>> /\ ~RestartDone /\ ~OpenLock
        /\ tx_len' = tx_len \/ tx_len' = TRUE
        /\ tx_skb # None => tx_len' = TRUE
    BY <1>5 DEF TxWorkSend, WorkerAt, RestartDone, OpenLock, netvars, wqvars, txvars,
       privvars
  <2>2. QED
    BY <1>a, <1>b, <1>c, <2>1 DEF QuietUntilReset
<1>6. CASE RestartReset
  BY <1>6, <1>d
     DEF RestartReset, WorkerAt, netvars, txvars, privvars, TxWorkSend,
         RestartDone, OpenLock
<1>7. CASE RestartMode
  BY <1>7, <1>d
     DEF RestartMode, WorkerAt, netvars, txvars, privvars, TxWorkSend,
         RestartDone, OpenLock
<1>8. CASE RestartAttached
  BY <1>8, <1>a, <1>e
     DEF RestartAttached, WorkerAt, ChipFirst, TxWorkSend, RestartDone,
         OpenLock
<1>9. CASE RestartDone
  <2>1. /\ after_suspend' = {} /\ UNCHANGED <<up, carrier>> /\ wpc = "rs_done"
        /\ ~TxWorkSend
    BY <1>9 DEF RestartDone, WorkerAt, TxWorkSend, netvars
  <2>2. ~InChip' /\ after_suspend # {}
    BY <1>a, <1>b, <2>1 DEF ChipFirst, ResetUnderWay
  <2>3. up = "up" => carrier
    BY <1>a, <2>2 DEF CarrierInv
  <2>4. QED
    BY <2>1, <2>2, <2>3 DEF QuietUntilReset
<1>10. CASE RestartTx
  <2>1. ~TxWorkSend /\ ~RestartDone /\ ~OpenLock /\ UNCHANGED <<up, carrier, after_suspend>>
    BY <1>10 DEF RestartTx, WorkerAt, TxWorkSend, RestartDone, OpenLock
  <2>2. CASE restart_tx
    BY <1>10, <1>a, <1>e, <2>1, <2>2 DEF RestartTx, WorkerAt, ChipFirst
  <2>3. CASE ~restart_tx
    BY <1>10, <1>d, <2>1, <2>3 DEF RestartTx, txvars
  <2>4. QED
    BY <2>2, <2>3
<1>11. CASE WorkerUnlock
  BY <1>11, <1>d
     DEF WorkerUnlock, WorkerAt, netvars, txvars, privvars, TxWorkSend,
         RestartDone, OpenLock
<1>12. CASE IstStart
  <2>1. ~TxWorkSend /\ ~RestartDone /\ ~OpenLock
    BY <1>12 DEF IstStart, IstSame, TxWorkSend, RestartDone, OpenLock, WorkerAt
  <2>2. QED
    BY <1>12, <1>d, <2>1 DEF IstStart, IstSame, txvars
<1>13. CASE IstLock
  <2>1. ~TxWorkSend /\ ~RestartDone /\ ~OpenLock
    BY <1>13 DEF IstLock, IstSame, TxWorkSend, RestartDone, OpenLock, WorkerAt
  <2>2. QED
    BY <1>13, <1>d, <2>1 DEF IstLock, IstSame, txvars
<1>14. CASE IstReceive
  <2>1. ~TxWorkSend /\ ~RestartDone /\ ~OpenLock
    BY <1>14 DEF IstReceive, IstSame, TxWorkSend, RestartDone, OpenLock, WorkerAt
  <2>2. QED
    BY <1>14, <1>d, <2>1 DEF IstReceive, IstSame, txvars
<1>15. CASE IstRead
  <2>1. ~TxWorkSend /\ ~RestartDone /\ ~OpenLock
    BY <1>15 DEF IstRead, IstSame, TxWorkSend, RestartDone, OpenLock, WorkerAt
  <2>2. QED
    BY <1>15, <1>d, <2>1 DEF IstRead, IstSame, txvars
<1>16. CASE IstClear
  <2>1. ~TxWorkSend /\ ~RestartDone /\ ~OpenLock
    BY <1>16 DEF IstClear, IstSame, TxWorkSend, RestartDone, OpenLock, WorkerAt
  <2>2. QED
    BY <1>16, <1>d, <2>1 DEF IstClear, IstSame, txvars
<1>17. CASE IstUpdate
  <2>1. ~TxWorkSend /\ ~RestartDone /\ ~OpenLock
    BY <1>17 DEF IstUpdate, IstSame, TxWorkSend, RestartDone, OpenLock, WorkerAt
  <2>2. QED
    BY <1>17, <1>d, <2>1 DEF IstUpdate, IstSame, txvars
<1>18. CASE IstTest
  <2>1. ~TxWorkSend /\ ~RestartDone /\ ~OpenLock
    BY <1>18 DEF IstTest, IstSame, TxWorkSend, RestartDone, OpenLock, WorkerAt
  <2>2. QED
    BY <1>18, <1>d, <2>1 DEF IstTest, IstSame, txvars
<1>19. CASE IstBusOff
  <2>1. Quiet' /\ UNCHANGED <<up, after_suspend, tx_len>>
    BY <1>19 DEF IstBusOff, IstSame, Quiet, txvars
  <2>2. QED
    BY <2>1 DEF QuietUntilReset
<1>20. CASE IstSleep
  <2>1. ~TxWorkSend /\ ~RestartDone /\ ~OpenLock
    BY <1>20 DEF IstSleep, IstSame, TxWorkSend, RestartDone, OpenLock, WorkerAt
  <2>2. QED
    BY <1>20, <1>d, <2>1 DEF IstSleep, IstSame, txvars
<1>21. CASE IstTx
  <2>1. ipc' = "loop" /\ ipc = "tx" /\ chip' = chip
    BY <1>21 DEF IstTx, IstAt
  <2>2. ~InChip'
    BY <2>1, <1>b, <1>a DEF OneInChip, InChip, TxSeen, TxRaised, Turn
  <2>3. UNCHANGED <<up, carrier, after_suspend>>
    BY <1>21 DEF IstTx, IstSame
  <2>4. ~Quiet
    BY <2>1 DEF Quiet
  <2>5. QED
    BY <1>a, <2>2, <2>3, <2>4 DEF QuietUntilReset
<1>22. CASE IstUnlock
  <2>1. ~TxWorkSend /\ ~RestartDone /\ ~OpenLock
    BY <1>22 DEF IstUnlock, IstSame, TxWorkSend, RestartDone, OpenLock, WorkerAt
  <2>2. QED
    BY <1>22, <1>d, <2>1 DEF IstUnlock, IstSame, txvars
<1>23. CASE OpenStart
  <2>1. /\ up' = "opening" /\ UNCHANGED <<after_suspend, tx_len>>
        /\ ~TxWorkSend /\ ~RestartDone /\ ~OpenLock
    BY <1>23 DEF OpenStart, UserAt, NetSame, txvars, TxWorkSend, RestartDone, OpenLock, WorkerAt
  <2>2. QED
    BY <1>a, <1>b, <1>c, <2>1 DEF QuietUntilReset
<1>24. CASE OpenLock
  <2>1. /\ UNCHANGED <<up, carrier, after_suspend>> /\ npc = "o_lock" /\ ~TxWorkSend
    BY <1>24 DEF OpenLock, UserAt, NetSame, TxWorkSend, WorkerAt, LockHeld
  <2>2. ~InChip' /\ up = "opening"
    BY <1>a, <1>b, <2>1 DEF ChipFirst, StopInv, Opening
  <2>3. pending = <<>> /\ wpc = "idle"
    BY <1>a, <2>2 DEF StopInv
  <2>4. after_suspend = {}
    BY <1>a, <2>3 DEF ResetUnderWay, InBacklog
  <2>5. QED
    BY <2>1, <2>2, <2>4 DEF QuietUntilReset
<1>25. CASE OpenIrq
  BY <1>25, <1>a, <1>b, <1>c
     DEF OpenIrq, UserAt, NetSame, txvars, TxWorkSend, RestartDone, OpenLock,
         WorkerAt, QuietUntilReset
<1>26. CASE OpenIrqFails
  BY <1>26, <1>a, <1>b, <1>c
     DEF OpenIrqFails, UserAt, NetSame, txvars, TxWorkSend, RestartDone,
         OpenLock, WorkerAt, QuietUntilReset
<1>27. CASE OpenReset
  BY <1>27, <1>a, <1>b, <1>c
     DEF OpenReset, UserAt, NetSame, txvars, TxWorkSend, RestartDone,
         OpenLock, WorkerAt, QuietUntilReset
<1>28. CASE OpenNormal
  <2>1. /\ up' = "up" /\ UNCHANGED <<carrier, after_suspend, tx_len>>
        /\ ~TxWorkSend /\ ~RestartDone /\ ~OpenLock /\ npc = "o_normal"
    BY <1>28 DEF OpenNormal, UserAt, NetSame, txvars, TxWorkSend, RestartDone, OpenLock, WorkerAt
  <2>2. carrier'
    BY <1>a, <2>1 DEF StopInv, Opening, CarrierInv
  <2>3. QED
    BY <1>a, <1>b, <1>c, <2>1, <2>2 DEF QuietUntilReset
<1>29. CASE OpenNormalFails
  BY <1>29, <1>a, <1>b, <1>c
     DEF OpenNormalFails, UserAt, NetSame, txvars, TxWorkSend, RestartDone,
         OpenLock, WorkerAt, QuietUntilReset
<1>30. CASE OpenClean
  BY <1>30, <1>a, <1>b, <1>c
     DEF OpenClean, UserAt, NetSame, txvars, TxWorkSend, RestartDone,
         OpenLock, WorkerAt, QuietUntilReset
<1>31. CASE StopFlush
  BY <1>31, <1>a, <1>b, <1>c
     DEF StopFlush, UserAt, NetSame, txvars, TxWorkSend, RestartDone,
         OpenLock, WorkerAt, QuietUntilReset
<1>32. CASE StopIrq
  BY <1>32, <1>a, <1>b, <1>c
     DEF StopIrq, UserAt, NetSame, txvars, TxWorkSend, RestartDone, OpenLock,
         WorkerAt, QuietUntilReset
<1>33. CASE StopDrain
  BY <1>33, <1>a, <1>b, <1>c
     DEF StopDrain, UserAt, NetSame, txvars, TxWorkSend, RestartDone,
         OpenLock, WorkerAt, QuietUntilReset
<1>34. CASE StopChip
  <2>1. /\ chip' = SleepChip([chip EXCEPT !.inte = FALSE, !.intf = {}, !.tx = None])
        /\ ipc = "idle" /\ UNCHANGED <<ipc, intf, carrier, after_suspend>> /\ up' = "down"
        /\ ~TxWorkSend /\ ~RestartDone /\ ~OpenLock
    BY <1>34 DEF StopChip, UserAt, StopInv, NetSame, istvars, TxWorkSend, WorkerAt, RestartDone,
       OpenLock
  <2>2. chip'.tx = None /\ chip'.intf = {}
    BY <1>a, <2>1, StopFields, SleepFields
  <2>3. ~InChip'
    BY <2>1, <2>2 DEF InChip, TxSeen, TxRaised, Turn
  <2>4. QED
    BY <1>e, <2>1, <2>3
<1>35. CASE Restart
  <2>1. up = "up" /\ ~carrier /\ up' = up /\ carrier' = TRUE
    BY <1>35 DEF Restart, RestartQuiet
  <2>2. Quiet /\ UNCHANGED <<ipc, force_quit>>
    BY <1>35, <1>a, <2>1 DEF Restart, QuietUntilReset, istvars
  <2>3. QED
    BY <2>1, <2>2 DEF QuietUntilReset, Quiet
<1>36. CASE Freeze
  BY <1>36, NoPowerManagement DEF PowerManagement
<1>37. CASE SuspendQuit
  BY <1>37, NoPowerManagement DEF PowerManagement
<1>38. CASE Suspend
  BY <1>38, NoPowerManagement DEF PowerManagement
<1>39. CASE Resume
  BY <1>39, NoPowerManagement DEF PowerManagement
<1>40. CASE Thaw
  BY <1>40, NoPowerManagement DEF PowerManagement
<1>41. CASE ChipReceives
  <2>1. ~TxWorkSend /\ ~RestartDone /\ ~OpenLock
    BY <1>41 DEF ChipReceives, ChipVars, TxWorkSend, RestartDone, OpenLock, WorkerAt
  <2>2. QED
    BY <1>41, <1>d, <2>1 DEF ChipReceives, ChipVars, netvars, txvars, privvars
<1>42. CASE ChipTransmits
  <2>1. ~TxWorkSend /\ ~RestartDone /\ ~OpenLock
    BY <1>42 DEF ChipTransmits, ChipVars, TxWorkSend, RestartDone, OpenLock, WorkerAt
  <2>2. QED
    BY <1>42, <1>d, <2>1 DEF ChipTransmits, ChipVars, netvars, txvars, privvars
<1>43. CASE \E level \in Levels : ChipError(level)
  <2>1. ~TxWorkSend /\ ~RestartDone /\ ~OpenLock
    BY <1>43 DEF ChipError, ChipVars, TxWorkSend, RestartDone, OpenLock, WorkerAt
  <2>2. QED
    BY <1>43, <1>d, <2>1 DEF ChipError, ChipVars, netvars, txvars, privvars
<1>44. CASE \E f \in Frames : HardStartXmit(f)
  <2>1. /\ UNCHANGED <<up, carrier, after_suspend, tx_len, wpc, npc>>
    BY <1>44 DEF HardStartXmit, privvars
  <2>2. ~TxWorkSend /\ ~RestartDone /\ ~OpenLock
    BY <1>44, <2>1 DEF TxWorkSend, RestartDone, OpenLock, WorkerAt, UserAt, HardStartXmit
  <2>3. QED
    BY <1>d, <2>1, <2>2
<1>45. CASE UNCHANGED vars
  <2>1. QuietUntilReset' = QuietUntilReset
    BY <1>45 DEF vars, netvars, txvars, istvars, privvars, QuietUntilReset, InChip, TxSeen,
       TxRaised, Turn, Quiet
  <2>2. QED
    BY <1>a, <2>1
<1> QED
  BY <1>1, <1>2, <1>3, <1>4, <1>5, <1>6, <1>7, <1>8, <1>9, <1>10, <1>11,
     <1>12, <1>13, <1>14, <1>15, <1>16, <1>17, <1>18, <1>19, <1>20, <1>21,
     <1>22, <1>23, <1>24, <1>25, <1>26, <1>27, <1>28, <1>29, <1>30, <1>31,
     <1>32, <1>33, <1>34, <1>35, <1>36, <1>37, <1>38, <1>39, <1>40, <1>41,
     <1>42, <1>43, <1>44, <1>45
     DEF Next, Chip, Worker, Ist, User, PowerManagement

(* The carrier stays off, and the state in bus-off, until a restart. *)
LEMMA CarrierStep ==
  ASSUME ~PromptRestart, ~Suspends, BusOffInv, StopInv, FrameInv, LockHeld, [Next]_vars
  PROVE  CarrierInv'
<1>a. /\ QuietUntilReset /\ CarrierInv /\ ResetUnderWay /\ pm = "running"
  BY NoPowerManagement DEF BusOffInv
<1>b. ASSUME UNCHANGED <<up, carrier, after_suspend, can_state>>, ipc' = "busoff" => ipc = "busoff"
      PROVE  CarrierInv'
  BY <1>a, <1>b DEF CarrierInv
<1>1. CASE StartWork
  BY <1>1, <1>b DEF StartWork, netvars, istvars, privvars
<1>2. CASE WorkerLock
  BY <1>2, <1>b DEF WorkerLock, netvars, istvars, privvars
<1>3. CASE TxWorkTest
  BY <1>3, <1>b DEF TxWorkTest, netvars, istvars, privvars
<1>4. CASE TxWorkClean
  BY <1>4, <1>b DEF TxWorkClean, netvars, istvars, privvars
<1>5. CASE TxWorkSend
  BY <1>5, <1>b DEF TxWorkSend, netvars, istvars, privvars
<1>6. CASE RestartReset
  BY <1>6, <1>b DEF RestartReset, netvars, istvars, privvars
<1>7. CASE RestartMode
  <2>1. /\ UNCHANGED <<up, carrier, after_suspend, ipc>>
        /\ wpc \in {"rs_mode", "rs_attached"}
    BY <1>7 DEF RestartMode, WorkerAt, istvars
  <2>2. after_suspend # {} /\ ipc # "busoff"
    BY <1>a, <2>1 DEF ResetUnderWay, LockHeld
  <2>3. QED
    BY <1>a, <2>1, <2>2 DEF CarrierInv
<1>8. CASE RestartAttached
  <2>1. /\ UNCHANGED <<up, carrier, after_suspend, ipc>>
        /\ wpc \in {"rs_mode", "rs_attached"}
    BY <1>8 DEF RestartAttached, WorkerAt, istvars
  <2>2. after_suspend # {} /\ ipc # "busoff"
    BY <1>a, <2>1 DEF ResetUnderWay, LockHeld
  <2>3. QED
    BY <1>a, <2>1, <2>2 DEF CarrierInv
<1>9. CASE RestartDone
  <2>1. /\ UNCHANGED <<up, carrier, ipc, can_state>> /\ after_suspend' = {}
    BY <1>9 DEF RestartDone, netvars, istvars
  <2>2. QED
    BY <1>a, <2>1 DEF CarrierInv
<1>10. CASE RestartTx
  BY <1>10, <1>b DEF RestartTx, netvars, istvars, privvars
<1>11. CASE WorkerUnlock
  BY <1>11, <1>b DEF WorkerUnlock, netvars, istvars, privvars
<1>12. CASE IstStart
  BY <1>12, <1>b DEF IstStart, IstAt, IstSame
<1>13. CASE IstLock
  BY <1>13, <1>b DEF IstLock, IstAt, IstSame
<1>14. CASE IstReceive
  BY <1>14, <1>b DEF IstReceive, IstAt, IstSame
<1>15. CASE IstRead
  BY <1>15, <1>b DEF IstRead, IstAt, IstSame
<1>16. CASE IstClear
  BY <1>16, <1>b DEF IstClear, IstAt, IstSame
<1>17. CASE IstUpdate
  BY <1>17, <1>a
     DEF IstUpdate, IstAt, IstSame, QuietUntilReset, Quiet, CarrierInv
<1>18. CASE IstTest
  BY <1>18, <1>a DEF IstTest, IstAt, IstSame, AfterState, CarrierInv
<1>19. CASE IstBusOff
  <2>1. /\ UNCHANGED <<up, after_suspend, can_state>> /\ ipc = "busoff" /\ ipc' = "sleep"
    BY <1>19 DEF IstBusOff, IstAt, IstSame
  <2>2. after_suspend = {} /\ can_state = "off"
    BY <1>a, <2>1 DEF QuietUntilReset, Quiet, CarrierInv
  <2>3. up # "opening"
    BY <2>1 DEF StopInv, Opening, LockHeld
  <2>4. QED
    BY <2>1, <2>2, <2>3 DEF CarrierInv
<1>20. CASE IstSleep
  BY <1>20, <1>b DEF IstSleep, IstAt, IstSame
<1>21. CASE IstTx
  BY <1>21, <1>b DEF IstTx, IstAt, IstSame
<1>22. CASE IstUnlock
  BY <1>22, <1>b DEF IstUnlock, IstAt, IstSame
<1>23. CASE OpenStart
  BY <1>23, <1>a DEF OpenStart, NetSame, istvars, CarrierInv
<1>24. CASE OpenLock
  BY <1>24, <1>a DEF OpenLock, NetSame, istvars, CarrierInv
<1>25. CASE OpenIrq
  BY <1>25, <1>a DEF OpenIrq, NetSame, istvars, CarrierInv
<1>26. CASE OpenIrqFails
  BY <1>26, <1>a DEF OpenIrqFails, NetSame, istvars, CarrierInv
<1>27. CASE OpenReset
  BY <1>27, <1>a DEF OpenReset, NetSame, istvars, CarrierInv
<1>28. CASE OpenNormal
  BY <1>28, <1>a
     DEF OpenNormal, UserAt, NetSame, istvars, StopInv, Opening, LockHeld,
         CarrierInv
<1>29. CASE OpenNormalFails
  BY <1>29, <1>a DEF OpenNormalFails, NetSame, istvars, CarrierInv
<1>30. CASE OpenClean
  BY <1>30, <1>a DEF OpenClean, NetSame, istvars, CarrierInv
<1>31. CASE StopFlush
  BY <1>31, <1>a DEF StopFlush, NetSame, istvars, CarrierInv
<1>32. CASE StopIrq
  BY <1>32, <1>a DEF StopIrq, NetSame, istvars, CarrierInv
<1>33. CASE StopDrain
  BY <1>33, <1>a DEF StopDrain, NetSame, istvars, CarrierInv
<1>34. CASE StopChip
  BY <1>34, <1>a DEF StopChip, UserAt, NetSame, istvars, StopInv, CarrierInv
<1>35. CASE Restart
  <2>1. up = "up" /\ ~carrier /\ up' = up /\ carrier' = TRUE /\ ipc' = ipc
    BY <1>35 DEF Restart, RestartQuiet, istvars
  <2>2. ipc # "busoff"
    BY <1>a, <2>1 DEF QuietUntilReset, Quiet
  <2>3. QED
    BY <2>1, <2>2 DEF CarrierInv
<1>36. CASE Freeze
  BY <1>36, NoPowerManagement DEF PowerManagement
<1>37. CASE SuspendQuit
  BY <1>37, NoPowerManagement DEF PowerManagement
<1>38. CASE Suspend
  BY <1>38, NoPowerManagement DEF PowerManagement
<1>39. CASE Resume
  BY <1>39, NoPowerManagement DEF PowerManagement
<1>40. CASE Thaw
  BY <1>40, NoPowerManagement DEF PowerManagement
<1>41. CASE ChipReceives
  BY <1>41, <1>b DEF ChipReceives, ChipVars, netvars, istvars, privvars
<1>42. CASE ChipTransmits
  BY <1>42, <1>b DEF ChipTransmits, ChipVars, netvars, istvars, privvars
<1>43. CASE \E level \in Levels : ChipError(level)
  BY <1>43, <1>b DEF ChipError, ChipVars, netvars, istvars, privvars
<1>44. CASE \E f \in Frames : HardStartXmit(f)
  BY <1>44, <1>b DEF HardStartXmit, netvars, istvars, privvars
<1>45. CASE UNCHANGED vars
  BY <1>45, <1>b DEF vars, netvars, istvars, privvars
<1> QED
  BY <1>1, <1>2, <1>3, <1>4, <1>5, <1>6, <1>7, <1>8, <1>9, <1>10, <1>11,
     <1>12, <1>13, <1>14, <1>15, <1>16, <1>17, <1>18, <1>19, <1>20, <1>21,
     <1>22, <1>23, <1>24, <1>25, <1>26, <1>27, <1>28, <1>29, <1>30, <1>31,
     <1>32, <1>33, <1>34, <1>35, <1>36, <1>37, <1>38, <1>39, <1>40, <1>41,
     <1>42, <1>43, <1>44, <1>45
     DEF Next, Chip, Worker, Ist, User, PowerManagement

(* What do_set_mode has asked for is on its way to the worker, or done. *)
LEMMA UnderWayStep ==
  ASSUME ~PromptRestart, ~Suspends, BusOffInv, StopInv, ChipOK, FrameInv, [Next]_vars
  PROVE  ResetUnderWay'
<1>a. ResetUnderWay /\ pending \in Seq(Works)
  BY ChipFacts DEF BusOffInv
<1>b. ASSUME UNCHANGED <<pending, wpc, after_suspend>> PROVE ResetUnderWay'
  BY <1>a, <1>b DEF ResetUnderWay, InBacklog
<1>c. ASSUME pending' = pending PROVE InBacklog("restart")' = InBacklog("restart")
  BY <1>c DEF InBacklog
<1>1. CASE StartWork
  <2>1. /\ wpc = "idle" /\ pending # <<>> /\ pending' = Tail(pending)
        /\ wpc' = IF Head(pending) = "tx" THEN "tx_lock" ELSE "rs_lock"
        /\ UNCHANGED after_suspend
    BY <1>1 DEF StartWork, WorkerAt, privvars
  <2>2. CASE Head(pending) = "tx"
    BY <1>a, <2>1, <2>2, TailTypes DEF ResetUnderWay
  <2>3. CASE Head(pending) # "tx"
    BY <1>a, <2>1, <2>3 DEF ResetUnderWay
  <2>4. QED
    BY <2>2, <2>3
<1>2. CASE WorkerLock
  BY <1>2, <1>a, <1>c DEF WorkerLock, WorkerAt, wqvars, privvars, ResetUnderWay
<1>3. CASE TxWorkTest
  BY <1>3, <1>a, <1>c DEF TxWorkTest, WorkerAt, wqvars, privvars, ResetUnderWay
<1>4. CASE TxWorkClean
  BY <1>4, <1>a, <1>c
     DEF TxWorkClean, WorkerAt, wqvars, privvars, ResetUnderWay
<1>5. CASE TxWorkSend
  BY <1>5, <1>a, <1>c DEF TxWorkSend, WorkerAt, wqvars, privvars, ResetUnderWay
<1>6. CASE RestartReset
  BY <1>6, <1>a, <1>c
     DEF RestartReset, WorkerAt, wqvars, privvars, ResetUnderWay
<1>7. CASE RestartMode
  BY <1>7, <1>a, <1>c DEF RestartMode, WorkerAt, wqvars, ResetUnderWay
<1>8. CASE RestartAttached
  BY <1>8, <1>a, <1>c DEF RestartAttached, WorkerAt, wqvars, ResetUnderWay
<1>9. CASE RestartDone
  BY <1>9, <1>a, <1>c DEF RestartDone, WorkerAt, wqvars, ResetUnderWay
<1>10. CASE RestartTx
  BY <1>10, <1>a, <1>c DEF RestartTx, WorkerAt, wqvars, ResetUnderWay
<1>11. CASE WorkerUnlock
  BY <1>11, <1>a, <1>c
     DEF WorkerUnlock, WorkerAt, wqvars, privvars, ResetUnderWay
<1>12. CASE IstStart
  BY <1>12, <1>b DEF IstStart, IstSame, wqvars
<1>13. CASE IstLock
  BY <1>13, <1>b DEF IstLock, IstSame, wqvars
<1>14. CASE IstReceive
  BY <1>14, <1>b DEF IstReceive, IstSame, wqvars
<1>15. CASE IstRead
  BY <1>15, <1>b DEF IstRead, IstSame, wqvars
<1>16. CASE IstClear
  BY <1>16, <1>b DEF IstClear, IstSame, wqvars
<1>17. CASE IstUpdate
  BY <1>17, <1>b DEF IstUpdate, IstSame, wqvars
<1>18. CASE IstTest
  BY <1>18, <1>b DEF IstTest, IstSame, wqvars
<1>19. CASE IstBusOff
  BY <1>19, <1>b DEF IstBusOff, IstSame, wqvars
<1>20. CASE IstSleep
  BY <1>20, <1>b DEF IstSleep, IstSame, wqvars
<1>21. CASE IstTx
  BY <1>21, <1>b DEF IstTx, IstSame, wqvars
<1>22. CASE IstUnlock
  BY <1>22, <1>b DEF IstUnlock, IstSame, wqvars
<1>23. CASE OpenStart
  BY <1>23, <1>b DEF OpenStart, NetSame, wqvars
<1>24. CASE OpenLock
  BY <1>24, <1>b DEF OpenLock, NetSame, wqvars
<1>25. CASE OpenIrq
  BY <1>25, <1>b DEF OpenIrq, NetSame, wqvars
<1>26. CASE OpenIrqFails
  BY <1>26, <1>b DEF OpenIrqFails, NetSame, wqvars
<1>27. CASE OpenReset
  BY <1>27, <1>b DEF OpenReset, NetSame, wqvars
<1>28. CASE OpenNormal
  BY <1>28, <1>b DEF OpenNormal, NetSame, wqvars
<1>29. CASE OpenNormalFails
  BY <1>29, <1>b DEF OpenNormalFails, NetSame, wqvars
<1>30. CASE OpenClean
  BY <1>30, <1>b DEF OpenClean, NetSame, wqvars
<1>31. CASE StopFlush
  BY <1>31, <1>b DEF StopFlush, NetSame, wqvars
<1>32. CASE StopIrq
  BY <1>32, <1>b DEF StopIrq, NetSame, wqvars
<1>33. CASE StopDrain
  BY <1>33, <1>b DEF StopDrain, NetSame, wqvars
<1>34. CASE StopChip
  BY <1>34, <1>b DEF StopChip, NetSame, wqvars
<1>35. CASE Restart
  <2>1. QueueWork("restart") /\ wq
    BY <1>35 DEF Restart, StopInv
  <2>2. InBacklog("restart")' /\ after_suspend' = {"restart"}
    BY <1>35, <1>a, <2>1, QueueTypes DEF Restart, Works
  <2>3. QED
    BY <2>2 DEF ResetUnderWay
<1>36. CASE Freeze
  BY <1>36, NoPowerManagement DEF PowerManagement
<1>37. CASE SuspendQuit
  BY <1>37, NoPowerManagement DEF PowerManagement
<1>38. CASE Suspend
  BY <1>38, NoPowerManagement DEF PowerManagement
<1>39. CASE Resume
  BY <1>39, NoPowerManagement DEF PowerManagement
<1>40. CASE Thaw
  BY <1>40, NoPowerManagement DEF PowerManagement
<1>41. CASE ChipReceives
  BY <1>41, <1>b DEF ChipReceives, ChipVars, wqvars, privvars
<1>42. CASE ChipTransmits
  BY <1>42, <1>b DEF ChipTransmits, ChipVars, wqvars, privvars
<1>43. CASE \E level \in Levels : ChipError(level)
  BY <1>43, <1>b DEF ChipError, ChipVars, wqvars, privvars
<1>44. CASE \E f \in Frames : HardStartXmit(f)
  <2>1. QueueWork("tx") /\ UNCHANGED <<wpc, after_suspend>>
    BY <1>44 DEF HardStartXmit, privvars
  <2>2. InBacklog("restart") => InBacklog("restart")'
    BY <1>a, <2>1, QueueTypes DEF Works
  <2>3. QED
    BY <1>a, <2>1, <2>2 DEF ResetUnderWay
<1>45. CASE UNCHANGED vars
  BY <1>45, <1>b DEF vars, wqvars, privvars
<1> QED
  BY <1>1, <1>2, <1>3, <1>4, <1>5, <1>6, <1>7, <1>8, <1>9, <1>10, <1>11,
     <1>12, <1>13, <1>14, <1>15, <1>16, <1>17, <1>18, <1>19, <1>20, <1>21,
     <1>22, <1>23, <1>24, <1>25, <1>26, <1>27, <1>28, <1>29, <1>30, <1>31,
     <1>32, <1>33, <1>34, <1>35, <1>36, <1>37, <1>38, <1>39, <1>40, <1>41,
     <1>42, <1>43, <1>44, <1>45
     DEF Next, Chip, Worker, Ist, User, PowerManagement

(* What ties carrier, state and pending restart together. *)
LEMMA BusOffStep ==
  ASSUME ~PromptRestart, ~Suspends, BusOffInv, ChipInv, StopInv, ChipOK, FrameInv, LockHeld,
         [Next]_vars
  PROVE  BusOffInv'
BY QuietStep, CarrierStep, UnderWayStep DEF BusOffInv

-----------------------------------------------------------------------------
(* The theorems                                                            *)

(* An interface that was never up has no frame, lock, work or handler. *)
LEMMA Initially == Init => FrameInv /\ LockHeld /\ ChipOK /\ StopInv
<1> SUFFICES ASSUME Init PROVE FrameInv /\ LockHeld /\ ChipOK /\ StopInv
  OBVIOUS
<1>1. FrameInv
  BY Mcp251xAssumption DEF Init, FrameInv, FramesAccounted, OneFrame
<1>2. LockHeld
  BY DEF Init, LockHeld
<1>3. pending \in Seq(Works)
  BY DEF Init
<1>4. chip \in ChipTypes
  BY Mcp251xAssumption DEF Init, ChipTypes, Flags
<1>5. StopInv
  BY DEF Init, StopInv, UserStates, Opening, Stopping
<1>6. QED
  BY <1>1, <1>2, <1>3, <1>4, <1>5 DEF ChipOK

(* Nor anything in the chip. *)
LEMMA ChipInitially == Init => ChipInv /\ BusOffInv
<1> SUFFICES ASSUME Init PROVE ChipInv /\ BusOffInv
  OBVIOUS
<1>1. ~InChip /\ ~TxSeen /\ ~TxRaised /\ chip.tx = None
  BY DEF Init, InChip, TxSeen, TxRaised, Turn
<1>2. OneInChip /\ EchoInChip /\ ChipFirst
  BY <1>1 DEF Init, OneInChip, EchoInChip, ChipFirst, Turn
<1>3. ResetFirst /\ TestHolds /\ QueueAwakeMeansIdle
  BY DEF Init, ResetFirst, TestHolds, QueueAwakeMeansIdle
<1>4. QuietUntilReset /\ CarrierInv /\ ResetUnderWay
  BY <1>1 DEF Init, QuietUntilReset, CarrierInv, ResetUnderWay
<1>5. QED
  BY <1>2, <1>3, <1>4 DEF ChipInv, BusOffInv

(* A frame the driver took over is where tx_skb or the echo slot say it is,
   through every interleaving of the stack, the worker, can_ist, open, stop,
   restart and suspend: none is leaked, none is freed twice. *)
THEOREM FramesNeverLost == Spec => []FramesAccounted
<1>1. FrameInv => FramesAccounted
  BY DEF FrameInv
<1> QED
  BY <1>1, Initially, FrameStep, PTL DEF Spec

(* mcp_lock has exactly one holder at a time, and it is the thread that is
   inside its critical section: nobody unlocks for another or forgets to. *)
THEOREM LockIsHeld == Spec => []LockHeld
BY Initially, LockStep, PTL DEF Spec

(* What holds whatever the user and power management do *)
LEMMA AlwaysSound == Spec => [](FrameInv /\ LockHeld /\ ChipOK /\ StopInv)
BY Initially, FrameStep, LockStep, ChipOKStep, StopStep, PTL DEF Spec

(* Once a stop or a failed open is over there is no frame in the driver, no
   work on the queue or under way, no handler, and the chip sleeps: close_candev,
   free_irq, destroy_workqueue and the cleanup under mcp_lock come in an order
   in which none brings back what another took away.  The exception, a board
   whose resume queues a work after a failed open, is assumed away. *)
THEOREM NothingIsLeft == ASSUME ~Stray PROVE Spec => []StopLeavesNothing
<1>1. FrameInv /\ StopInv => StopLeavesNothing
  BY DEF FrameInv, StopInv, StopLeavesNothing
<1> QED
  BY <1>1, AlwaysSound, PTL

(* ChipStep over a whole run. *)
LEMMA ChipAlways ==
  ASSUME ~PromptRestart
  PROVE  Spec => [](ChipInv /\ FrameInv /\ LockHeld /\ ChipOK /\ StopInv)
<1>1. ChipInv /\ FrameInv /\ LockHeld /\ ChipOK /\ StopInv /\ [Next]_vars => ChipInv'
  BY ChipStep
<1> QED
  BY <1>1, ChipInitially, Initially, FrameStep, LockStep, ChipOKStep, StopStep, PTL DEF Spec

(* hard_start_xmit is called only when the driver can take the frame, through
   bus-off, suspend and resume: it never has to say NETDEV_TX_BUSY, except for
   the moment between netif_device_attach and mcp251x_clean in a resume. *)
THEOREM AwakeMeansIdle == ASSUME ~PromptRestart PROVE Spec => []QueueAwakeMeansIdle
<1>1. ChipInv => QueueAwakeMeansIdle
  BY DEF ChipInv
<1> QED
  BY <1>1, ChipAlways, PTL

(* The frame that can_ist gives back to the stack, with can_get_echo_skb, is
   the one the chip has sent, or none when it was flushed meanwhile: a TX
   interrupt is never taken for that of a later frame. *)
THEOREM EchoIsTheFrameSent == ASSUME ~PromptRestart PROVE Spec => []EchoIsSent
<1>1. ChipInv => EchoIsSent
  BY DEF ChipInv, OneInChip, EchoInChip, EchoIsSent, TxSeen, Turn
<1> QED
  BY <1>1, ChipAlways, PTL

(* BusOffStep over a whole run. *)
LEMMA BusOffAlways ==
  ASSUME ~PromptRestart, ~Suspends
  PROVE  Spec => [](BusOffInv /\ ChipInv)
<1>1. /\ BusOffInv /\ ChipInv /\ FrameInv /\ LockHeld /\ ChipOK /\ StopInv /\ [Next]_vars
      => BusOffInv'
  BY BusOffStep
<1> QED
  BY <1>1, ChipAlways, ChipInitially, PTL DEF Spec

(* can_ist adds tx_len - 1 to the statistics only while tx_len is set: no
   frame is counted as -1 bytes, whatever a bus-off and a restart drop in
   between.  A suspend between the two breaks it: README, section 3. *)
THEOREM EveryEchoCounts ==
  ASSUME ~PromptRestart, ~Suspends PROVE Spec => []TxCountsFrame
<1>1. BusOffInv /\ ChipInv => TxCountsFrame
  BY DEF BusOffInv, QuietUntilReset, Quiet, ChipInv, OneInChip, InChip, TxSeen, Turn,
         TxCountsFrame
<1> QED
  BY <1>1, BusOffAlways, PTL

(* A carrier that can_bus_off turned off belongs to a device in bus-off, the
   only state from which the CAN core restarts it: no later interrupt, work or
   set_mode moves the state on and leaves the carrier off for good. *)
THEOREM CarrierComesBack ==
  ASSUME ~PromptRestart, ~Suspends PROVE Spec => []CarrierRecoverable
<1>1. BusOffInv => CarrierRecoverable
  BY DEF BusOffInv, CarrierInv, CarrierRecoverable
<1> QED
  BY <1>1, BusOffAlways, PTL

-----------------------------------------------------------------------------
(* The frame in the registers                                              *)

(* Sequences: the header of five registers and the data behind it          *)
(* Five numbers are a sequence of numbers.                                 *)
LEMMA Five ==
  ASSUME NEW a \in Nat, NEW b \in Nat, NEW c \in Nat, NEW d \in Nat, NEW e \in Nat,
         NEW h, h = <<a, b, c, d, e>>
  PROVE  h \in Seq(Nat) /\ Len(h) = 5 /\ h[1] = a /\ h[2] = b /\ h[3] = c /\ h[4] = d /\ h[5] = e
  BY SMT

(* What stands where when a header of five is followed by data.            *)
LEMMA Joined ==
  ASSUME NEW n \in 0..8, NEW data \in [1..n -> 0..255], NEW head \in Seq(Nat), Len(head) = 5
  PROVE  /\ Len(head \o data) = 5 + n
         /\ \A i \in 1..5 : (head \o data)[i] = head[i]
         /\ \A i \in 1..n : (head \o data)[5 + i] = data[i]
<1>0. n \in Nat 
  BY SMT
<1>1. data \in [1..n -> Nat]
  <2>1. \A i \in 1..n : data[i] \in 0..255
    BY Zenon
  <2>2. \A x \in 0..255 : x \in Nat
    BY SMT
  <2>3. \A i \in 1..n : data[i] \in Nat
    BY <2>1, <2>2, Zenon
  <2> QED BY <2>3, Zenon
<1>2. data \in Seq(Nat)
  <2>1. Seq(Nat) = UNION {[1..m -> Nat] : m \in Nat}
    BY SeqDef, Zenon
  <2>2. QED
    BY <1>0, <1>1, <2>1, Zenon
<1>3. Len(data) = n
  <2>1. Len(data) \in Nat /\ DOMAIN data = 1..Len(data)
    BY <1>2, LenProperties, Zenon
  <2>2. DOMAIN data = 1..n
    BY Zenon
  <2> QED BY <1>0, <2>1, <2>2, SMT
<1>4. /\ Len(head \o data) = 5 + n
      /\ \A i \in 1..(5 + n) : (head \o data)[i] = IF i <= 5 THEN head[i] ELSE data[i - 5]
  <2>1. /\ Len(head \o data) = Len(head) + Len(data)
        /\ \A i \in 1..(Len(head) + Len(data)) :
              (head \o data)[i] = IF i <= Len(head) THEN head[i] ELSE data[i - Len(head)]
    BY <1>2, ConcatProperties, Zenon
  <2> QED BY <1>3, <2>1, Zenon
<1>5. \A i \in 1..5 : (head \o data)[i] = head[i]
  BY <1>0, <1>4, SMT
<1>6. ASSUME NEW i \in 1..n PROVE (head \o data)[5 + i] = data[i]
  <2>1. 5 + i \in 1..(5+n) /\ ~(5 + i <= 5) /\ (5 + i) - 5 = i
    BY <1>0, SMT
  <2>2. QED
    BY <1>4, <2>1, Zenon
<1>7. QED
  BY <1>4, <1>5, <1>6, Zenon
(* The powers of two that the code writes as shifts and masks              *)
LEMMA Powers ==
  /\ 2^2 = 4 /\ 2^3 = 8 /\ 2^4 = 16 /\ 2^5 = 32 /\ 2^6 = 64 /\ 2^7 = 128
  /\ 2^8 = 256 /\ 2^11 = 2048 /\ 2^16 = 65536 /\ 2^18 = 262144
  /\ 2^29 = 536870912
BY SMT

(* The values of SIDH and the upper bits of SIDL, as a number *)
Sids == 0..2047

(* DLC: a flag and the length *)
LEMMA DlcFields ==
  ASSUME NEW n \in 0..8, NEW r \in {0, 64}
  PROVE  (r + n) \in Nat /\ (r + n) % 16 = n /\ ((r + n) \div 64) % 2 = r \div 64
BY SMT

(* An identifier is put together from its parts. *)
LEMMA Identifier ==
  ASSUME NEW id \in Nat, id < 2^29
  PROVE  /\ id \div 262144 \in 0..2047
         /\ (id \div 65536) % 4 \in 0..3 /\ (id \div 256) % 256 \in 0..255
         /\ id % 256 \in 0..255
         /\ ((id \div 65536) % 4) * 65536 + ((id \div 256) % 256) * 256 + (id % 256)
              + (id \div 262144) * 262144 = id
<1>1. PICK q \in Nat, c \in 0..255 : id = q * 256 + c
  <2>1. id \div 256 \in Nat /\ id % 256 \in 0..255 /\ id = (id \div 256) * 256 + (id % 256)
    BY SMT
  <2>2. QED
    BY <2>1, SMT
<1>2. PICK p \in Nat, b \in 0..255 : q = p * 256 + b
  <2>1. q \div 256 \in Nat /\ q % 256 \in 0..255 /\ q = (q \div 256) * 256 + (q % 256)
    BY SMT
  <2>2. QED
    BY <2>1, SMT
<1>3. PICK s \in Nat, a \in 0..3 : p = s * 4 + a
  <2>1. p \div 4 \in Nat /\ p % 4 \in 0..3 /\ p = (p \div 4) * 4 + (p % 4)
    BY SMT
  <2>2. QED
    BY <2>1, SMT
<1>4. id = s * 262144 + a * 65536 + b * 256 + c /\ s \in 0..2047
  BY <1>1, <1>2, <1>3, SMT
<1>5. /\ id \div 262144 = s /\ (id \div 65536) % 4 = a
      /\ (id \div 256) % 256 = b /\ id % 256 = c
  <2>1. id \div 256 = q /\ id % 256 = c
    BY <1>1, SMT
  <2>2. id \div 65536 = p
    <3>1. id = p * 65536 + (b * 256 + c) /\ b * 256 + c >= 0 /\ b * 256 + c < 65536
      BY <1>1, <1>2, SMT
    <3>2. QED
      BY <3>1, SMT
  <2>3. id \div 262144 = s
    <3>1. id = s * 262144 + (a * 65536 + b * 256 + c)
      BY <1>4, SMT
    <3>2. a * 65536 + b * 256 + c >= 0 /\ a * 65536 + b * 256 + c < 262144
      BY SMT
    <3>3. QED
      BY <3>1, <3>2, SMT
  <2>4. q % 256 = b /\ p % 4 = a
    BY <1>2, <1>3, SMT
  <2>5. QED
    BY <2>1, <2>2, <2>3, <2>4, SMT
<1>6. QED
  BY <1>4, <1>5, SMT

(* Identifiers have at most 29 bits.                                       *)
LEMMA IdType ==
  ASSUME NEW f \in can_frames
  PROVE  f.id \in Nat /\ f.id < 2^29
<1>1. f.id \in StandardIds \cup ExtendedIds
  BY SMT DEF can_frames
<1>2. /\ \A id \in StandardIds : id \in 0..(2^11 - 1)
      /\ \A id \in ExtendedIds : id \in 0..(2^29 - 1)
  BY CanFrameAssumption, Zenon
<1>3. \A id : id \in 0..(2^11 - 1) => id \in Nat /\ id < 2^29
  <2>1. 2^11 = 2048 /\ 2^29 = 536870912
    BY Powers, SMT
  <2> QED BY <2>1, SMT
<1>4. \A id : id \in 0..(2^29 - 1) => id \in Nat /\ id < 2^29
  <2>1. 2^29 = 536870912
    BY Powers, SMT
  <2> QED BY <2>1, SMT
<1> QED BY <1>1, <1>2, <1>3, <1>4, Zenon

(* The other fields of a frame                                             *)
LEMMA Fields ==
  ASSUME NEW f \in can_frames
  PROVE  /\ f.eff \in BOOLEAN /\ f.rtr \in BOOLEAN /\ f.len \in 0..8
         /\ f.data \in [1..f.len -> 0..255]
<1>1. /\ f.eff \in BOOLEAN /\ f.rtr \in BOOLEAN
      /\ f.len \in 0..8 /\ f.data = Data(f.len)
  BY SMT DEF can_frames
<1>2. \A n \in 0..8 : Data(n) \in [1..n -> 0..255]
  BY CanFrameAssumption, Zenon
<1> QED BY <1>1, <1>2, ZenonT(60)

Octets == 0..255
Upper == 0..3
Sizes == 0..8
FlagBits == {0, 1}

(* The values of registers are numbers.                                    *)
LEMMA Numbers == (\A i \in Sids : i \in Nat) /\ (\A i \in Octets : i \in Nat)
BY SMT DEF Sids, Octets

(* The parts of an identifier, as the registers hold them                  *)
LEMMA PartsOf ==
  ASSUME NEW id \in Nat, id < 2^29
  PROVE  /\ id % 2^29 = id /\ id \div 2^18 \in Sids /\ id % 2^11 \in Sids
         /\ (id \div 2^16) % 2^2 \in 0..3
         /\ (id \div 2^8) % 2^8 \in Octets /\ id % 2^8 \in Octets
         /\ id = ((id \div 2^16) % 2^2) * 2^16 + ((id \div 2^8) % 2^8) * 2^8 + (id % 2^8)
                   + (id \div 2^18) * 2^18
<1>1. 2^18 = 262144 /\ 2^16 = 65536 /\ 2^8 = 256 /\ 2^2 = 4 /\ 2^11 = 2048
      /\ 2^29 = 536870912
  BY Powers, SMT
<1>2. id % 2^29 = id /\ id % 2^11 \in Sids
  BY <1>1, SMT DEF Sids
<1>3. /\ id \div 262144 \in 0..2047
      /\ (id \div 65536) % 4 \in 0..3 /\ (id \div 256) % 256 \in 0..255
      /\ id % 256 \in 0..255
      /\ ((id \div 65536) % 4) * 65536 + ((id \div 256) % 256) * 256 + (id % 256)
           + (id \div 262144) * 262144 = id
  BY Identifier, SMT
<1>5. id \div 2^18 \in Sids
  BY <1>1, <1>3, SMT DEF Sids
<1>6. (id \div 2^16) % 2^2 \in 0..3
  BY <1>1, <1>3, SMT
<1>7. (id \div 2^8) % 2^8 \in Octets /\ id % 2^8 \in Octets
  BY <1>1, <1>3, SMT DEF Octets
<1>8. id = ((id \div 2^16) % 2^2) * 2^16 + ((id \div 2^8) % 2^8) * 2^8 + (id % 2^8)
             + (id \div 2^18) * 2^18
  BY <1>1, <1>3, SMT
<1> QED
  BY <1>2, <1>5, <1>6, <1>7, <1>8, Zenon

(* The parts that a frame's identifier is cut into, with or without EFF    *)
LEMMA Parts ==
  ASSUME NEW f \in can_frames
  PROVE  \E s \in Sids, a \in 0..3, b \in Octets, c \in Octets :
           /\ ((f.id % 2^29) \div 2^16) % 2^2 = a
           /\ ((f.id % 2^29) \div 2^8) % 2^8 = b /\ (f.id % 2^29) % 2^8 = c
           /\ s = IF f.eff THEN (f.id % 2^29) \div 2^18 ELSE f.id % 2^11
           /\ f.eff => f.id = a * 2^16 + b * 2^8 + c + s * 2^18
<1> DEFINE id == f.id
           s == IF f.eff THEN (id % 2^29) \div 2^18 ELSE id % 2^11
           a == (id \div 2^16) % 2^2
           b == (id \div 2^8) % 2^8
           c == id % 2^8
<1>1. id \in Nat /\ id < 2^29
  BY IdType, Zenon
<1>2. /\ id % 2^29 = id /\ id \div 2^18 \in Sids /\ id % 2^11 \in Sids
      /\ a \in 0..3 /\ b \in Octets /\ c \in Octets
      /\ id = a * 2^16 + b * 2^8 + c + (id \div 2^18) * 2^18
  <2> HIDE DEF id
  <2> QED BY <1>1, PartsOf, Zenon
<1>3. /\ s \in Sids /\ f.eff => s = id \div 2^18
  <2>1. CASE f.eff
    BY <1>2, <2>1, Zenon
  <2>2. CASE ~f.eff
    BY <1>2, <2>2, Zenon
  <2> QED BY <2>1, <2>2, Zenon
<1>4. f.eff => id = a * 2^16 + b * 2^8 + c + s * 2^18
  BY <1>2, <1>3, Zenon
<1>5. /\ ((id % 2^29) \div 2^16) % 2^2 = a
      /\ ((id % 2^29) \div 2^8) % 2^8 = b /\ (id % 2^29) % 2^8 = c
  BY <1>2, Zenon
<1> QED
  BY <1>2, <1>3, <1>4, <1>5, ZenonT(60)

(* What hw_tx and hw_tx_frame have left in the registers of the chip       *)
LEMMA Written ==
  ASSUME NEW f \in can_frames,
         NEW s \in Sids, NEW a \in 0..3, NEW b \in Octets, NEW c \in Octets,
         ((f.id % 2^29) \div 2^16) % 2^2 = a,
         ((f.id % 2^29) \div 2^8) % 2^8 = b, (f.id % 2^29) % 2^8 = c,
         s = IF f.eff THEN (f.id % 2^29) \div 2^18 ELSE f.id % 2^11,
         NEW txb, txb = hw_tx_frame(hw_tx(f), f.len)
  PROVE  /\ txb[1] = s \div 8
         /\ txb[2] = (s % 8) * 32 + (IF f.eff THEN 8 ELSE 0) + a
         /\ txb[3] = b /\ txb[4] = c /\ txb[5] = (IF f.rtr THEN 64 ELSE 0) + f.len
         /\ \A i \in 1..f.len : txb[5 + i] = f.data[i]
<1> DEFINE head == << s \div 2^3, (s % 2^3) * 2^5 + At(3, f.eff) + a, b, c, At(6, f.rtr) + f.len >>
           n == f.len
           data == f.data
<1>1. hw_tx(f) = head \o data
  BY Zenon DEF hw_tx
<1>2. n \in 0..8 /\ data \in [1..n -> 0..255] /\ f.eff \in BOOLEAN /\ f.rtr \in BOOLEAN
  BY Fields, Zenon
<1>3. txb = [i \in 1..13 |-> IF i <= 5 + n THEN (head \o data)[i] ELSE Left[i]]
  BY <1>1, Zenon DEF hw_tx_frame
<1>4. /\ 2^3 = 8 /\ 2^5 = 32 /\ 2^6 = 64 /\ 2^11 = 2048 /\ 2^8 = 256
  BY Powers, SMT
<1>5. /\ At(3, f.eff) = (IF f.eff THEN 8 ELSE 0) /\ At(6, f.rtr) = (IF f.rtr THEN 64 ELSE 0)
      /\ At(3, f.eff) \in Nat /\ At(6, f.rtr) \in Nat
  BY <1>2, <1>4, SMT DEF At
<1>6. s \in Nat /\ b \in Nat /\ c \in Nat
  BY Numbers, Zenon
<1>7. s \div 2^3 = s \div 8 /\ s \div 8 \in Nat /\ (s % 2^3) * 2^5 = (s % 8) * 32 /\ (s % 8) * 32 \in Nat
  BY <1>4, <1>6, SMT
<1>8. (s % 8) * 32 + At(3, f.eff) + a \in Nat
  BY <1>5, <1>7, SMT
<1>9. At(6, f.rtr) + f.len \in Nat
  <2>1. \A x \in Nat, y \in 0..8 : x + y \in Nat
    BY SMT
  <2> QED BY <1>2, <1>5, <2>1, Zenon
<1>10. head = << s \div 8, (s % 8) * 32 + At(3, f.eff) + a, b, c, At(6, f.rtr) + f.len >>
  BY <1>7, Zenon
<1>11. /\ head \in Seq(Nat) /\ Len(head) = 5 /\ head[1] = s \div 8
       /\ head[2] = (s % 8) * 32 + At(3, f.eff) + a /\ head[3] = b /\ head[4] = c
       /\ head[5] = At(6, f.rtr) + f.len
  <2>1. b \in Nat /\ c \in Nat
    BY <1>6
  <2> DEFINE x == s \div 8
             y == (s % 8) * 32 + At(3, f.eff) + a
             z == At(6, f.rtr) + f.len
  <2>2. head = << x, y, b, c, z >> /\ x \in Nat /\ y \in Nat /\ z \in Nat
    BY <1>7, <1>8, <1>9, <1>10, Zenon
  <2>3. /\ head \in Seq(Nat) /\ Len(head) = 5 /\ head[1] = x
        /\ head[2] = y /\ head[3] = b /\ head[4] = c /\ head[5] = z
    <3> HIDE DEF head, x, y, z
    <3> QED BY <2>1, <2>2, Five, SMT
  <2> QED BY <2>3, Zenon
<1> HIDE DEF head, n, data
<1>12. /\ \A i \in 1..5 : (head \o data)[i] = head[i]
       /\ \A i \in 1..n : (head \o data)[5 + i] = data[i]
  BY <1>2, <1>11, Joined, Zenon
<1>13. ASSUME NEW i \in 1..5 PROVE txb[i] = head[i]
  <2>1. i \in 1..13 /\ i <= 5 + n
    BY <1>2, SMT
  <2> QED BY <1>3, <1>12, <2>1, Zenon
<1>14. ASSUME NEW i \in 1..n PROVE txb[5 + i] = data[i]
  <2>1. 5 + i \in 1..13 /\ 5 + i <= 5 + n
    BY <1>2, SMT
  <2> QED BY <1>3, <1>12, <2>1, Zenon
<1>15. 1 \in 1..5 /\ 2 \in 1..5 /\ 3 \in 1..5 /\ 4 \in 1..5 /\ 5 \in 1..5
  BY SMT
<1>16. txb[1] = head[1] /\ txb[2] = head[2] /\ txb[3] = head[3] /\ txb[4] = head[4] /\ txb[5] = head[5]
  BY <1>13, <1>15, Zenon
<1> QED
  BY <1>5, <1>11, <1>14, <1>16, Zenon DEF n, data

(* How SIDL and DLC are taken apart *)
LEMMA SidlRead ==
  ASSUME NEW s \in Sids, NEW rtr \in BOOLEAN, NEW eff \in BOOLEAN, NEW x \in 0..3,
         NEW low, low = (s % 8) * 32 + (IF rtr THEN 16 ELSE 0) + (IF eff THEN 8 ELSE 0) + x
  PROVE  /\ Has(low, 3) <=> eff
         /\ Has(low, 4) <=> rtr
         /\ low % 2^2 = x /\ low \in Nat
         /\ (s \div 8) * 2^3 + low \div 2^5 = s
<1>1. /\ low \in Nat /\ low \div 32 = s % 8 /\ low % 4 = x
      /\ ((low \div 8) % 2 = 1 <=> eff) /\ ((low \div 16) % 2 = 1 <=> rtr)
  <2>1. CASE rtr /\ eff
    BY <2>1, SMTT(60) DEF Sids
  <2>2. CASE rtr /\ ~eff
    BY <2>2, SMTT(60) DEF Sids
  <2>3. CASE ~rtr /\ eff
    BY <2>3, SMTT(60) DEF Sids
  <2>4. CASE ~rtr /\ ~eff
    BY <2>4, SMTT(60) DEF Sids
  <2> QED BY <2>1, <2>2, <2>3, <2>4, Zenon
<1>2. 2^2 = 4 /\ 2^3 = 8 /\ 2^4 = 16 /\ 2^5 = 32
  BY Powers, SMT
<1>3. (Has(low, 3) <=> eff) /\ (Has(low, 4) <=> rtr)
  BY <1>1, <1>2, Zenon DEF Has, Bit
<1>4. (s \div 8) * 8 + (s % 8) = s
  BY SMT DEF Sids
<1>5. low % 2^2 = x /\ (s \div 8) * 2^3 + low \div 2^5 = s
  BY <1>1, <1>2, <1>4, Zenon
<1> QED
  BY <1>1, <1>3, <1>5, Zenon

(* How DLC is taken apart                                                  *)
LEMMA DlcRead ==
  ASSUME NEW rtr \in BOOLEAN, NEW n \in 0..8,
         NEW dlc, dlc = (IF rtr THEN 64 ELSE 0) + n
  PROVE  (Has(dlc, 6) <=> rtr) /\ dlc % 2^4 = n /\ Smaller(n, 8) = n
<1> DEFINE r == IF rtr THEN 64 ELSE 0
<1>1. r \in {0, 64} /\ dlc = r + n
  BY Zenon
<1>2. r = 64 <=> rtr
  BY SMT
<1> HIDE DEF r
<1>3. dlc % 16 = n /\ (dlc \div 64) % 2 = r \div 64
  BY <1>1, DlcFields, SMT
<1>4. 2^4 = 16 /\ 2^6 = 64
  BY Powers, SMT
<1>5. r \div 64 = 1 <=> r = 64
  BY <1>1, SMT
<1>6. Has(dlc, 6) <=> rtr
  BY <1>2, <1>3, <1>4, <1>5, ZenonT(60) DEF Has, Bit
<1>7. Smaller(n, 8) = n
  BY SMT DEF Smaller
<1> QED
  BY <1>3, <1>4, <1>6, <1>7, Zenon

(* The data behind the five registers of the header *)
LEMMA Cut ==
  ASSUME NEW buf, NEW n \in 0..8
  PROVE  LET d == SubSeq(buf, 6, 5 + n)
         IN /\ d \in Seq({buf[i] : i \in 1..13}) /\ Len(d) = n
            /\ \A i \in 1..n : d[i] = buf[5 + i]
<1> DEFINE d == SubSeq(buf, 6, 5 + n)
           S == {buf[i] : i \in 1..13}
<1>1. 6 \in Int /\ 5 + n \in Int /\ n \in Nat
  BY SMT
<1>2. \A i \in 6..(5 + n) : buf[i] \in S
  <2>1. \A i \in 6..(5 + n) : i \in 1..13
    BY SMT
  <2> QED BY <2>1, Zenon
<1>3. /\ d \in Seq(S) /\ Len(d) = (IF 6 <= 5 + n THEN (5 + n) - 6 + 1 ELSE 0)
      /\ \A i \in 1..((5 + n) - 6 + 1) : d[i] = buf[6 + i - 1]
  <2> HIDE DEF S
  <2> QED BY <1>1, <1>2, SubSeqProperties, SMT
<1>4. Len(d) = n
  BY <1>1, <1>3, SMT
<1>5. ASSUME NEW i \in 1..n PROVE d[i] = buf[5 + i]
  <2>1. i \in 1..((5 + n) - 6 + 1) /\ 6 + i - 1 = 5 + i
    BY <1>1, SMT
  <2> QED BY <1>3, <2>1, Zenon
<1> QED
  BY <1>3, <1>4, <1>5, Zenon

(* What the registers of a transmit buffer, a frame on the bus and the      *)
(* registers of a receive buffer hold of an identifier in its parts, the    *)
(* flags and the length                                                     *)
InTransmit(txb, s, a, b, c, e, r, n) ==
  /\ txb[1] = s \div 8
  /\ txb[2] = (s % 8) * 32 + (IF e = 1 THEN 8 ELSE 0) + a
  /\ txb[3] = b /\ txb[4] = c /\ txb[5] = (IF r = 1 THEN 64 ELSE 0) + n
InTransit(w, s, a, b, c, e, r, n) ==
  /\ w.eff = (e = 1) /\ w.rtr = (r = 1) /\ w.dlc = n /\ w.sid = s
  /\ w.eid = IF e = 1 THEN a * 2^16 + b * 2^8 + c ELSE 0
InReceive(rxb, s, a, b, c, e, r, n) ==
  /\ rxb[1] = s \div 8
  /\ rxb[2] = (s % 8) * 32 + (IF e # 1 /\ r = 1 THEN 16 ELSE 0)
                + (IF e = 1 THEN 8 ELSE 0) + (IF e = 1 THEN a ELSE 0)
  /\ e = 1 => rxb[3] = b /\ rxb[4] = c
  /\ rxb[5] = (IF e = 1 /\ r = 1 THEN 64 ELSE 0) + n
Cargo(w, txb, r, n) == w.data = IF r = 1 THEN << >> ELSE SubSeq(txb, 6, 5 + n)
Carries(buf, data, n) == Len(data) = n => \A i \in 1..n : buf[5 + i] = data[i]
ReadAs(g, s, a, b, c, e, r, n) ==
  /\ g.id = IF e = 1 THEN a * 2^16 + b * 2^8 + c + s * 2^18 ELSE s
  /\ g.eff = (e = 1) /\ g.rtr = (r = 1) /\ g.len = n

(* The frame on the bus, from what has been written to the chip *)
LEMMA OnWire ==
  ASSUME NEW s \in Sids, NEW a \in Upper, NEW b \in Octets, NEW c \in Octets,
         NEW e \in FlagBits, NEW r \in FlagBits, NEW n \in Sizes, NEW txb,
         InTransmit(txb, s, a, b, c, e, r, n)
  PROVE  /\ InTransit(OnTheBus(txb), s, a, b, c, e, r, n)
         /\ Cargo(OnTheBus(txb), txb, r, n)
<1>t. a \in 0..3 /\ e \in {0, 1} /\ r \in {0, 1} /\ n \in 0..8
  BY Zenon DEF Upper, FlagBits, Sizes
<1> USE <1>t
<1> DEFINE w == OnTheBus(txb)
<1>a. PICK eff \in BOOLEAN, rtr \in BOOLEAN : (eff <=> e = 1) /\ (rtr <=> r = 1)
  BY Zenon
<1>h. /\ txb[1] = s \div 8 /\ txb[2] = (s % 8) * 32 + (IF eff THEN 8 ELSE 0) + a
      /\ txb[3] = b /\ txb[4] = c /\ txb[5] = (IF rtr THEN 64 ELSE 0) + n
  BY <1>a, Zenon DEF InTransmit
<1> USE <1>h
<1>0. PICK no \in BOOLEAN : ~no
  BY Zenon
<1>1. txb[2] = (s % 8) * 32 + (IF no THEN 16 ELSE 0) + (IF eff THEN 8 ELSE 0) + a
  <2>1. (s % 8) * 32 + 0 = (s % 8) * 32
    BY SMT DEF Sids
  <2>2. (IF no THEN 16 ELSE 0) = 0
    BY <1>0, Zenon
  <2> QED BY <2>1, <2>2, Zenon
<1>2. /\ Has(txb[2], 3) <=> eff
      /\ txb[2] % 2^2 = a
      /\ txb[1] * 2^3 + txb[2] \div 2^5 = s
  <2>1. PICK low : low = txb[2]
    BY Zenon
  <2>2. low = (s % 8) * 32 + (IF no THEN 16 ELSE 0) + (IF eff THEN 8 ELSE 0) + a
    BY <1>1, <2>1, Zenon
  <2>3. /\ Has(low, 3) <=> eff
        /\ low % 2^2 = a
        /\ (s \div 8) * 2^3 + low \div 2^5 = s
    BY <2>2, SidlRead, SMT
  <2> QED BY <2>1, <2>3, Zenon
<1>3. (Has(txb[5], 6) <=> rtr) /\ txb[5] % 2^4 = n /\ Smaller(n, 8) = n
  BY DlcRead, SMT
<1>4. Has(txb[2], 3) = eff /\ Has(txb[5], 6) = rtr
  BY <1>2, <1>3, Zenon DEF Has
<1>5. w = [eff |-> eff, rtr |-> rtr, dlc |-> n, sid |-> s,
           eid |-> IF eff THEN a * 2^16 + b * 2^8 + c ELSE 0,
           data |-> IF rtr THEN << >> ELSE SubSeq(txb, 6, 5 + n)]
  BY <1>2, <1>3, <1>4, Zenon DEF OnTheBus, SIDH, SIDL, EID8, EID0, DLC
<1>6. /\ w.eff = eff /\ w.rtr = rtr /\ w.dlc = n /\ w.sid = s
      /\ w.eid = IF eff THEN a * 2^16 + b * 2^8 + c ELSE 0
      /\ w.data = IF rtr THEN << >> ELSE SubSeq(txb, 6, 5 + n)
  <2> DEFINE lo == IF eff THEN a * 2^16 + b * 2^8 + c ELSE 0
             d == IF rtr THEN << >> ELSE SubSeq(txb, 6, 5 + n)
  <2>1. w = [eff |-> eff, rtr |-> rtr, dlc |-> n, sid |-> s, eid |-> lo, data |-> d]
    BY <1>5, Zenon
  <2>2. w.eff = eff /\ w.rtr = rtr /\ w.dlc = n /\ w.sid = s /\ w.eid = lo /\ w.data = d
    <3> HIDE DEF lo, d
    <3> QED BY <2>1, SMT
  <2> QED BY <2>2, Zenon
<1> QED
  BY <1>6, <1>a, Zenon DEF InTransit, Cargo

(* The lower part of the identifier goes through three registers. *)
EidOf(a, b, c) == a * 2^16 + b * 2^8 + c
Splits(a, b, c) ==
  /\ EidOf(a, b, c) \in Nat /\ EidOf(a, b, c) \div 2^16 = a
  /\ (EidOf(a, b, c) \div 2^8) % 2^8 = b /\ EidOf(a, b, c) % 2^8 = c
(* The three bytes of an extended identifier are read back as they were written. *)
LEMMA EidRead ==
  ASSUME NEW a \in Upper, NEW b \in Octets, NEW c \in Octets
  PROVE  Splits(a, b, c)
<1>1. 2^16 = 65536 /\ 2^8 = 256
  BY Powers, SMT
<1>2. PICK e \in Nat : e = a * 65536 + b * 256 + c
  BY SMT DEF Octets, Upper
<1>3. EidOf(a, b, c) = e
  BY <1>1, <1>2, SMT DEF EidOf
<1>4. e \div 65536 = a /\ (e \div 256) % 256 = b /\ e % 256 = c
  BY <1>2, SMT DEF Octets, Upper
<1> QED
  BY <1>1, <1>3, <1>4, SMT DEF Splits

(* The receive buffer of the other chip *)
LEMMA Received ==
  ASSUME NEW w, NEW s \in Sids, NEW a \in Upper, NEW b \in Octets, NEW c \in Octets,
         NEW e \in FlagBits, NEW r \in FlagBits, NEW n \in Sizes, NEW S,
         InTransit(w, s, a, b, c, e, r, n), w.data \in Seq(S)
  PROVE  /\ InReceive(ReceiveBuffer(w), s, a, b, c, e, r, n)
         /\ Carries(ReceiveBuffer(w), w.data, n)
<1>0. /\ EidOf(a, b, c) \in Nat /\ EidOf(a, b, c) \div 2^16 = a
      /\ (EidOf(a, b, c) \div 2^8) % 2^8 = b /\ EidOf(a, b, c) % 2^8 = c
  <2>1. Splits(a, b, c)
    BY EidRead, Zenon
  <2> QED BY <2>1, Zenon DEF Splits
<1>t. a \in 0..3 /\ e \in {0, 1} /\ r \in {0, 1} /\ n \in 0..8
  BY Zenon DEF Upper, FlagBits, Sizes
<1> USE <1>t
<1>a. PICK eff \in BOOLEAN, rtr \in BOOLEAN : (eff <=> e = 1) /\ (rtr <=> r = 1)
  BY Zenon
<1>h. /\ w.eff = eff /\ w.rtr = rtr /\ w.dlc = n /\ w.sid = s
      /\ w.eid = IF eff THEN a * 2^16 + b * 2^8 + c ELSE 0
  BY <1>a, Zenon DEF InTransit
<1> USE <1>h
<1> DEFINE rxb == ReceiveBuffer(w)
           x1 == w.sid \div 2^3
           x2 == (w.sid % 2^3) * 2^5 + At(4, ~w.eff /\ w.rtr) + At(3, w.eff) + w.eid \div 2^16
           x3 == (w.eid \div 2^8) % 2^8
           x4 == w.eid % 2^8
           x5 == At(6, w.eff /\ w.rtr) + w.dlc
           head == << x1, x2, x3, x4, x5 >>
           all == head \o w.data
<1>1. rxb = [i \in 1..13 |-> IF i <= Len(all) THEN all[i] ELSE Left[i]]
  BY Zenon DEF ReceiveBuffer
<1>2. /\ w.eid \in Nat /\ w.eid \div 2^16 = (IF eff THEN a ELSE 0)
      /\ eff => x3 = b /\ x4 = c
      /\ x3 \in Nat /\ x4 \in Nat
  <2>1. CASE eff
    <3>1. w.eid = a * 2^16 + b * 2^8 + c
      BY <2>1, Zenon
    <3>2. w.eid \in Nat /\ w.eid \div 2^16 = a /\ x3 = b /\ x4 = c
      <4>1. w.eid = EidOf(a, b, c)
        BY <3>1, Zenon DEF EidOf
      <4> QED BY <1>0, <4>1, SMT
    <3> QED BY <2>1, <3>2, Numbers, Zenon
  <2>2. CASE ~eff
    <3>1. w.eid = 0
      BY <2>2, Zenon
    <3>2. 0 \div 2^16 = 0 /\ (0 \div 2^8) % 2^8 = 0 /\ 0 % 2^8 = 0 /\ 0 \in Nat
      BY Powers, SMT
    <3> QED BY <2>2, <3>1, <3>2, Zenon
  <2> QED BY <2>1, <2>2, Zenon
<1>3. /\ 2^3 = 8 /\ 2^5 = 32 /\ 2^6 = 64 /\ 2^4 = 16
  BY Powers, SMT
<1>4. /\ At(4, ~w.eff /\ w.rtr) = (IF ~eff /\ rtr THEN 16 ELSE 0)
      /\ At(3, w.eff) = (IF eff THEN 8 ELSE 0)
      /\ At(6, w.eff /\ w.rtr) = (IF eff /\ rtr THEN 64 ELSE 0)
  BY <1>3, Zenon DEF At
<1>5. /\ x1 = s \div 8
      /\ x2 = (s % 8) * 32 + (IF ~eff /\ rtr THEN 16 ELSE 0) + (IF eff THEN 8 ELSE 0)
                + (IF eff THEN a ELSE 0)
      /\ x5 = (IF eff /\ rtr THEN 64 ELSE 0) + n
  BY <1>2, <1>3, <1>4, Zenon
<1>6. x1 \in Nat /\ x2 \in Nat /\ x5 \in Nat
  <2>1. s \in Nat
    BY Numbers, Zenon
  <2>2. x1 \in Nat
    BY <1>5, <2>1, SMT
  <2>3. (s % 8) * 32 \in Nat
    BY <2>1, SMT
  <2>4. \A p \in Nat, q \in {0, 16}, v \in {0, 8}, t \in 0..3 : p + q + v + t \in Nat
    BY SMT
  <2>5. x2 \in Nat
    <3>1. /\ (IF ~eff /\ rtr THEN 16 ELSE 0) \in {0, 16} /\ (IF eff THEN 8 ELSE 0) \in {0, 8}
      BY Zenon
    <3>2. (IF eff THEN a ELSE 0) \in 0..3
      BY SMT
    <3> DEFINE q == IF ~eff /\ rtr THEN 16 ELSE 0
               v == IF eff THEN 8 ELSE 0
               t == IF eff THEN a ELSE 0
    <3>3. x2 = (s % 8) * 32 + q + v + t
      BY <1>5, Zenon
    <3> HIDE DEF x2, q, v, t
    <3>4. q \in {0, 16} /\ v \in {0, 8} /\ t \in 0..3
      BY <3>1, <3>2, Zenon DEF q, v, t
    <3> QED BY <2>3, <2>4, <3>3, <3>4, SMTT(60)
  <2>6. \A p \in {0, 64}, q \in 0..8 : p + q \in Nat
    BY SMT
  <2>7. x5 \in Nat
    <3>1. (IF eff /\ rtr THEN 64 ELSE 0) \in {0, 64}
      BY Zenon
    <3> QED BY <1>5, <2>6, <3>1, Zenon
  <2> QED BY <2>2, <2>5, <2>7, Zenon
<1>7. /\ head \in Seq(Nat) /\ Len(head) = 5 /\ head[1] = x1 /\ head[2] = x2
      /\ head[3] = x3 /\ head[4] = x4 /\ head[5] = x5
  <2> HIDE DEF x1, x2, x3, x4, x5
  <2> QED BY <1>2, <1>6, Five, SMT
<1> HIDE DEF head, x1, x2, x3, x4, x5
<1>8. /\ Len(all) = 5 + Len(w.data) /\ Len(w.data) \in Nat
      /\ \A i \in 1..(5 + Len(w.data)) : all[i] = IF i <= 5 THEN head[i] ELSE w.data[i - 5]
  <2> DEFINE T == Nat \cup S
  <2>1. Nat \subseteq T /\ S \subseteq T
    BY Zenon
  <2>2. head \in Seq(T)
    BY <1>7, <2>1, SeqMonotonic
  <2>3. w.data \in Seq(T) /\ Len(w.data) \in Nat
    BY <2>1, SeqMonotonic, LenProperties
  <2> HIDE DEF T
  <2>4. /\ Len(all) = Len(head) + Len(w.data)
        /\ \A i \in 1..(Len(head) + Len(w.data)) :
             all[i] = IF i <= Len(head) THEN head[i] ELSE w.data[i - Len(head)]
    BY <2>2, <2>3, ConcatProperties, Zenon
  <2> QED BY <1>7, <2>3, <2>4, Zenon
<1> HIDE DEF all
<1>13. Len(all) = 5 + Len(w.data) /\ Len(w.data) \in Nat
  BY <1>8, Zenon
<1>9. ASSUME NEW i \in 1..5 PROVE rxb[i] = head[i]
  <2>1. i \in 1..13 /\ i <= 5 /\ i <= Len(all) /\ i \in 1..(5 + Len(w.data))
    BY <1>13, SMT
  <2>2. all[i] = head[i]
    BY <1>8, <2>1, Zenon
  <2>3. rxb[i] = all[i]
    BY <1>1, <2>1, Zenon
  <2> QED BY <2>2, <2>3, Zenon
<1>10. 1 \in 1..5 /\ 2 \in 1..5 /\ 3 \in 1..5 /\ 4 \in 1..5 /\ 5 \in 1..5
  BY SMT
<1>11. rxb[1] = x1 /\ rxb[2] = x2 /\ rxb[3] = x3 /\ rxb[4] = x4 /\ rxb[5] = x5
  BY <1>7, <1>9, <1>10, Zenon
<1>12. ASSUME Len(w.data) = n, NEW i \in 1..n PROVE rxb[5 + i] = w.data[i]
  <2>1. 5 + i \in 1..13 /\ ~(5 + i <= 5) /\ (5 + i) - 5 = i /\ 5 + i <= 5 + n /\ 5 + i \in 1..(5 + n)
    BY SMT
  <2> QED BY <1>1, <1>8, <1>12, <2>1, Zenon
<1> QED
  BY <1>2, <1>5, <1>11, <1>12, <1>a, Zenon DEF InReceive, Carries

(* mcp251x_hw_rx_frame and mcp251x_hw_rx *)
LEMMA EitherModel ==
  ASSUME NEW model, NEW rxb
  PROVE  \/ hw_rx_frame(model, rxb) = rxb
         \/ hw_rx_frame(model, rxb) = SubSeq(rxb, 1, 5 + get_can_dlc(rxb[5] % 2^4))
<1> DEFINE some == SubSeq(rxb, 1, 5 + get_can_dlc(rxb[DLC] % 2^4))
<1>1. hw_rx_frame(model, rxb) = IF model = 2515 THEN rxb ELSE some
  BY SMT DEF hw_rx_frame
<1>2. some = SubSeq(rxb, 1, 5 + get_can_dlc(rxb[5] % 2^4))
  BY Zenon DEF DLC
<1> HIDE DEF some
<1>3. hw_rx_frame(model, rxb) = rxb \/ hw_rx_frame(model, rxb) = some
  BY <1>1, SMT
<1> QED BY <1>2, <1>3, Zenon

(* The MCP2510's registers that are read one by one are those that count.  *)
LEMMA Taken ==
  ASSUME NEW rxb, NEW n \in 0..8, NEW model,
         get_can_dlc(rxb[5] % 2^4) = n,
         NEW buf, buf = hw_rx_frame(model, rxb)
  PROVE  \A i \in 1..(5 + n) : buf[i] = rxb[i]
<1>0. buf = rxb \/ buf = SubSeq(rxb, 1, 5 + n)
  BY EitherModel, Zenon
<1>1. CASE buf = rxb
  BY <1>1, Zenon
<1>2. CASE buf = SubSeq(rxb, 1, 5 + n)
  <2> DEFINE S == {rxb[i] : i \in 1..13}
  <2>2. 1 \in Int /\ 5 + n \in Int
    BY SMT
  <2>3. \A i \in 1..(5 + n) : rxb[i] \in S
    <3>1. \A i \in 1..(5 + n) : i \in 1..13
      BY SMT
    <3> QED BY <3>1, Zenon
  <2>4. \A i \in 1..((5 + n) - 1 + 1) : buf[i] = rxb[1 + i - 1]
    <3> HIDE DEF S
    <3>1. \A i \in 1..((5 + n) - 1 + 1) : SubSeq(rxb, 1, 5 + n)[i] = rxb[1 + i - 1]
      BY <2>2, <2>3, SubSeqProperties, SMT
    <3> QED BY <1>2, <3>1, Zenon
  <2> SUFFICES ASSUME NEW i \in 1..(5 + n) PROVE buf[i] = rxb[i]
    OBVIOUS
  <2>5. i \in 1..((5 + n) - 1 + 1) /\ 1 + i - 1 = i
    BY SMT
  <2> QED BY <2>4, <2>5, Zenon
<1> QED BY <1>0, <1>1, <1>2, Zenon

(* What hw_rx makes of them                                                *)
LEMMA Read ==
  ASSUME NEW buf, NEW s \in Sids, NEW a \in Upper, NEW b \in Octets, NEW c \in Octets,
         NEW e \in FlagBits, NEW r \in FlagBits, NEW n \in Sizes,
         InReceive(buf, s, a, b, c, e, r, n)
  PROVE  /\ ReadAs(hw_rx(buf), s, a, b, c, e, r, n)
         /\ hw_rx(buf).data = SubSeq(buf, 6, 5 + n)
<1>t. a \in 0..3 /\ e \in {0, 1} /\ r \in {0, 1} /\ n \in 0..8
  BY Zenon DEF Upper, FlagBits, Sizes
<1> USE <1>t
<1>a. PICK eff \in BOOLEAN, rtr \in BOOLEAN : (eff <=> e = 1) /\ (rtr <=> r = 1)
  BY Zenon
<1>h. /\ buf[1] = s \div 8
      /\ buf[2] = (s % 8) * 32 + (IF ~eff /\ rtr THEN 16 ELSE 0)
                    + (IF eff THEN 8 ELSE 0) + (IF eff THEN a ELSE 0)
      /\ eff => buf[3] = b /\ buf[4] = c
      /\ buf[5] = (IF eff /\ rtr THEN 64 ELSE 0) + n
  BY <1>a, Zenon DEF InReceive
<1> USE <1>h
<1> DEFINE std == ~eff /\ rtr
           ext == eff /\ rtr
           x == IF eff THEN a ELSE 0
<1>1. std \in BOOLEAN /\ ext \in BOOLEAN
  BY Zenon
<1>2. x \in 0..3
  BY SMT
<1>3. buf[2] = (s % 8) * 32 + (IF std THEN 16 ELSE 0) + (IF eff THEN 8 ELSE 0) + x
  BY Zenon
<1>4. buf[5] = (IF ext THEN 64 ELSE 0) + n
  BY Zenon
<1> HIDE DEF std, ext, x
<1>5. /\ Has(buf[2], 3) <=> eff
      /\ Has(buf[2], 4) <=> std
      /\ buf[2] % 2^2 = x
      /\ (s \div 8) * 2^3 + buf[2] \div 2^5 = s
  BY <1>1, <1>2, <1>3, SidlRead, SMT
<1>6. (Has(buf[5], 6) <=> ext) /\ buf[5] % 2^4 = n /\ Smaller(n, 8) = n
  BY <1>1, <1>4, DlcRead, SMT
<1>7. Has(buf[2], 3) = eff /\ Has(buf[2], 4) = std /\ Has(buf[5], 6) = ext
  BY <1>1, <1>5, <1>6, Zenon DEF Has
<1>8. buf[1] * 2^3 + buf[2] \div 2^5 = s
  BY <1>5, Zenon
<1> DEFINE id == IF eff THEN x * 2^16 + buf[3] * 2^8 + buf[4] + s * 2^18 ELSE s
           remote == Has(buf[IF eff THEN DLC ELSE SIDL], IF eff THEN 6 ELSE 4)
           d == SubSeq(buf, 6, 5 + n)
<1>9. hw_rx(buf) = [id |-> id, eff |-> eff, rtr |-> remote, len |-> n, data |-> d]
  BY <1>5, <1>6, <1>7, <1>8, Zenon DEF hw_rx, get_can_dlc, SIDH, SIDL, EID8, EID0, DLC
<1>10. /\ hw_rx(buf).id = id /\ hw_rx(buf).eff = eff /\ hw_rx(buf).rtr = remote
       /\ hw_rx(buf).len = n /\ hw_rx(buf).data = d
  <2> HIDE DEF id, remote, d
  <2> QED BY <1>9, SMT
<1>11. id = IF eff THEN a * 2^16 + b * 2^8 + c + s * 2^18 ELSE s
  <2>1. CASE eff
    BY <2>1, Zenon DEF x
  <2>2. CASE ~eff
    BY <2>2, Zenon
  <2> QED BY <2>1, <2>2, Zenon
<1>12. remote = rtr
  <2>1. CASE eff
    <3>1. remote = Has(buf[5], 6)
      BY <2>1, Zenon DEF DLC
    <3> QED BY <2>1, <3>1, <1>7, Zenon DEF ext
  <2>2. CASE ~eff
    <3>1. remote = Has(buf[2], 4)
      BY <2>2, Zenon DEF SIDL
    <3> QED BY <2>2, <3>1, <1>7, Zenon DEF std
  <2> QED BY <2>1, <2>2, Zenon
<1> QED
  BY <1>10, <1>11, <1>12, <1>a, Zenon DEF ReadAs

(* All the way, from one stack to the other                                *)
LEMMA FrameArrives ==
  ASSUME NEW f \in can_frames, NEW model
  PROVE  Arrives(f, hw_rx(hw_rx_frame(model,
                      ReceiveBuffer(OnTheBus(hw_tx_frame(hw_tx(f), f.len))))))
<1>1. PICK s \in Sids, a \in Upper, b \in Octets, c \in Octets :
        /\ ((f.id % 2^29) \div 2^16) % 2^2 = a
        /\ ((f.id % 2^29) \div 2^8) % 2^8 = b /\ (f.id % 2^29) % 2^8 = c
        /\ s = IF f.eff THEN (f.id % 2^29) \div 2^18 ELSE f.id % 2^11
        /\ f.eff => f.id = a * 2^16 + b * 2^8 + c + s * 2^18
  BY Parts, Zenon DEF Upper
<1>2. PICK e \in FlagBits, r \in FlagBits, n \in Sizes :
        f.eff = (e = 1) /\ f.rtr = (r = 1) /\ n = f.len
  <2>1. ASSUME NEW q \in BOOLEAN PROVE \E p \in FlagBits : q = (p = 1)
    BY SMT DEF FlagBits
  <2>2. \E e \in FlagBits : f.eff = (e = 1)
    BY <2>1, Fields
  <2>3. \E r \in FlagBits : f.rtr = (r = 1)
    BY <2>1, Fields
  <2> QED BY <2>2, <2>3, Fields, Zenon DEF Sizes
<1> DEFINE data == f.data
           txb == hw_tx_frame(hw_tx(f), f.len)
           w == OnTheBus(txb)
           rxb == ReceiveBuffer(w)
           buf == hw_rx_frame(model, rxb)
           g == hw_rx(buf)
<1>3. data \in [1..n -> 0..255]
  BY <1>2, Fields, Zenon
<1>4. /\ InTransmit(txb, s, a, b, c, e, r, n)
      /\ \A i \in 1..n : txb[5 + i] = data[i]
  <2> HIDE DEF txb
  <2>1. /\ txb[1] = s \div 8
        /\ txb[2] = (s % 8) * 32 + (IF f.eff THEN 8 ELSE 0) + a
        /\ txb[3] = b /\ txb[4] = c /\ txb[5] = (IF f.rtr THEN 64 ELSE 0) + f.len
        /\ \A i \in 1..f.len : txb[5 + i] = f.data[i]
    BY <1>1, Written DEF txb, Upper
  <2> QED BY <1>2, <2>1, Zenon DEF InTransmit
<1> HIDE DEF data, txb
<1>5. /\ InTransit(w, s, a, b, c, e, r, n)
      /\ w.data = IF r = 1 THEN << >> ELSE SubSeq(txb, 6, 5 + n)
  <2>1. InTransit(w, s, a, b, c, e, r, n) /\ Cargo(w, txb, r, n)
    <3>1. InTransmit(txb, s, a, b, c, e, r, n)
      BY <1>4, Zenon
    <3> QED BY <3>1, OnWire, Zenon
  <2> QED BY <2>1, Zenon DEF Cargo
<1> HIDE DEF w
<1>6. /\ SubSeq(txb, 6, 5 + n) \in Seq({txb[i] : i \in 1..13}) /\ Len(SubSeq(txb, 6, 5 + n)) = n
      /\ \A i \in 1..n : SubSeq(txb, 6, 5 + n)[i] = data[i]
  <2>1. /\ SubSeq(txb, 6, 5 + n) \in Seq({txb[i] : i \in 1..13})
        /\ Len(SubSeq(txb, 6, 5 + n)) = n
        /\ \A i \in 1..n : SubSeq(txb, 6, 5 + n)[i] = txb[5 + i]
    BY Cut DEF Sizes
  <2> QED BY <1>4, <2>1, Zenon
<1>7. w.data \in Seq({txb[i] : i \in 1..13})
  BY <1>5, <1>6, EmptySeq, Zenon
<1>8. /\ InReceive(rxb, s, a, b, c, e, r, n)
      /\ Len(w.data) = n => \A i \in 1..n : rxb[5 + i] = w.data[i]
  <2>1. InTransit(w, s, a, b, c, e, r, n)
    BY <1>5, Zenon
  <2> HIDE DEF rxb
  <2>2. PICK S : w.data \in Seq(S)
    BY <1>7, Zenon
  <2>3. InReceive(ReceiveBuffer(w), s, a, b, c, e, r, n) /\ Carries(ReceiveBuffer(w), w.data, n)
    BY <2>1, <2>2, Received, Zenon
  <2> QED BY <2>3, Zenon DEF rxb, Carries
<1>9. r # 1 => \A i \in 1..n : rxb[5 + i] = data[i]
  BY <1>5, <1>6, <1>8, Zenon
<1> HIDE DEF rxb
<1>10. \A i \in 1..(5 + n) : buf[i] = rxb[i]
  <2>1. PICK ext \in BOOLEAN : ext = (e = 1 /\ r = 1)
    BY Zenon
  <2>2. rxb[5] = (IF ext THEN 64 ELSE 0) + n
    BY <1>8, <2>1, Zenon DEF InReceive
  <2>3. rxb[5] % 2^4 = n /\ Smaller(n, 8) = n
    BY <2>2, DlcRead, Zenon DEF Sizes
  <2>4. get_can_dlc(rxb[5] % 2^4) = n
    BY <2>3, Zenon DEF get_can_dlc
  <2> QED BY <2>4, Taken DEF Sizes
<1> HIDE DEF buf
<1>11. /\ InReceive(buf, s, a, b, c, e, r, n)
       /\ \A i \in 1..n : buf[5 + i] = rxb[5 + i]
  <2>1. /\ 1 \in 1..(5 + n) /\ 2 \in 1..(5 + n) /\ 3 \in 1..(5 + n)
        /\ 4 \in 1..(5 + n) /\ 5 \in 1..(5 + n) /\ \A i \in 1..n : 5 + i \in 1..(5 + n)
    BY SMT DEF Sizes
  <2>2. /\ buf[1] = rxb[1] /\ buf[2] = rxb[2] /\ buf[3] = rxb[3] /\ buf[4] = rxb[4]
        /\ buf[5] = rxb[5] /\ \A i \in 1..n : buf[5 + i] = rxb[5 + i]
    BY <1>10, <2>1, Zenon
  <2> QED BY <1>8, <2>2, Zenon DEF InReceive
<1>12. ReadAs(g, s, a, b, c, e, r, n) /\ g.data = SubSeq(buf, 6, 5 + n)
  <2>1. InReceive(buf, s, a, b, c, e, r, n)
    BY <1>11, Zenon
  <2> QED BY <2>1, Read, Zenon
<1> HIDE DEF g
<1>13. g.id = IF f.eff THEN f.id ELSE f.id % 2^11
  BY <1>1, <1>2, <1>12, Zenon DEF ReadAs
<1>14. ASSUME r # 1 PROVE g.data = data
  <2>1. /\ g.data \in Seq({buf[i] : i \in 1..13}) /\ Len(g.data) = n
        /\ \A i \in 1..n : g.data[i] = buf[5 + i]
    <3>1. /\ SubSeq(buf, 6, 5 + n) \in Seq({buf[i] : i \in 1..13})
          /\ Len(SubSeq(buf, 6, 5 + n)) = n
          /\ \A i \in 1..n : SubSeq(buf, 6, 5 + n)[i] = buf[5 + i]
      BY Cut DEF Sizes
    <3> QED BY <1>12, <3>1, Zenon
  <2>2. g.data \in [1..n -> {buf[i] : i \in 1..13}]
    BY <2>1, LenProperties, Zenon
  <2>3. \A i \in 1..n : g.data[i] = data[i]
    BY <1>9, <1>11, <1>14, <2>1, Zenon
  <2>4. g.data = [i \in 1..n |-> g.data[i]] /\ data = [i \in 1..n |-> data[i]]
    BY <1>3, <2>2, Zenon
  <2> QED BY <2>3, <2>4, Zenon
<1>15. g.eff = f.eff /\ g.rtr = f.rtr /\ g.len = f.len
  BY <1>2, <1>12, Zenon DEF ReadAs
<1>16. Arrives(f, g)
  BY <1>2, <1>13, <1>14, <1>15, Zenon DEF Arrives, data
<1> QED
  BY <1>16, Zenon DEF g, buf, rxb, w, txb

(* Every frame the stack may hand to a driver, with any identifier, data    *)
(* and length, is what the driver of either chip at the other end hands to  *)
(* its stack.                                                               *)
THEOREM EveryFrameSurvives == FramesSurvive
<1> SUFFICES ASSUME NEW f \in can_frames, NEW model \in {2510, 2515}
             PROVE  Arrives(f, hw_rx(hw_rx_frame(model,
                      ReceiveBuffer(OnTheBus(hw_tx_frame(hw_tx(f), f.len))))))
  BY DEF FramesSurvive
<1> QED
  BY FrameArrives

-----------------------------------------------------------------------------
(* The bit timing                                                          *)

(* mcp251x_do_set_bittiming makes registers that the chip reads as the     *)
(* timing the CAN core has calculated, for every such timing, whatever     *)
(* CNF3 held before.                                                       *)
THEOREM EveryTimingFits == TimingFits
<1> SUFFICES ASSUME NEW bt \in Timings, NEW samples \in BOOLEAN
             PROVE  LET cnf == do_set_bittiming(bt, samples, Left[1])
                    IN /\ TimingOf(cnf) = bt
                       /\ cnf[1] < 2^8 /\ cnf[2] < 2^8
                       /\ Has(cnf[2], 7) /\ Has(cnf[2], 6) = samples
  BY DEF TimingFits
<1> DEFINE cnf == do_set_bittiming(bt, samples, Left[1])
<1>1. /\ bt = [brp |-> bt.brp, sjw |-> bt.sjw, prop_seg |-> bt.prop_seg,
               phase_seg1 |-> bt.phase_seg1, phase_seg2 |-> bt.phase_seg2]
      /\ bt.brp \in 1..64 /\ bt.sjw \in 1..4 /\ bt.prop_seg \in 1..8
      /\ bt.phase_seg1 \in 2..8 /\ bt.phase_seg2 \in 2..8
  BY DEF Timings
<1>2. PICK brp \in 1..64, sjw \in 1..4, prop_seg \in 1..8, phase_seg1 \in 2..8,
           phase_seg2 \in 2..8 :
        /\ brp = bt.brp /\ sjw = bt.sjw /\ prop_seg = bt.prop_seg
        /\ phase_seg1 = bt.phase_seg1 /\ phase_seg2 = bt.phase_seg2
  BY <1>1
<1>3. PICK old \in 0..255 : Left[1] = old
  <2>1. Left \in [1..13 -> 0..255]
    BY CanFrameAssumption, Zenon
  <2>2. QED
    BY <2>1
<1>4. PICK triple \in {0, 64} : triple = At(6, samples) /\ (triple = 64 <=> samples)
  BY Powers DEF At
<1>5. /\ cnf[1] = (sjw - 1) * 64 + (brp - 1)
      /\ cnf[2] = 128 + triple + (phase_seg1 - 1) * 8 + (prop_seg - 1)
      /\ cnf[3] = (old \div 8) * 8 + ((phase_seg2 - 1) % 8)
  BY <1>1, <1>2, <1>3, <1>4, Powers DEF do_set_bittiming, write_bits
<1>6. /\ cnf[1] < 256 /\ (cnf[1] % 64) + 1 = brp /\ cnf[1] \div 64 + 1 = sjw
  BY <1>5, SMT
<1>7. /\ cnf[2] < 256 /\ (cnf[2] % 8) + 1 = prop_seg
      /\ ((cnf[2] \div 8) % 8) + 1 = phase_seg1
      /\ (cnf[2] \div 128) % 2 = 1 /\ (cnf[2] \div 64) % 2 = triple \div 64
  BY <1>5, SMT
<1>8. (cnf[3] % 8) + 1 = phase_seg2
  BY <1>5, SMT
<1> HIDE DEF cnf
<1>9. TimingOf(cnf) = bt
  BY <1>1, <1>2, <1>6, <1>7, <1>8, Powers DEF TimingOf
<1>10. Has(cnf[2], 7) /\ Has(cnf[2], 6) = samples
  <2>1. triple \div 64 = 1 <=> samples
    BY <1>4
  <2>2. Has(cnf[2], 7) /\ (Has(cnf[2], 6) <=> samples)
    BY <1>7, <2>1, Powers DEF Has, Bit
  <2>3. QED
    BY <2>2 DEF Has
<1>11. QED
  BY <1>6, <1>7, <1>9, <1>10, Powers DEF cnf

-----------------------------------------------------------------------------
(* In the driver                                                           *)

(* Whatever the threads of the driver do, a frame the chip has sent is the *)
(* frame the stack handed over: the run has identifiers of one bit, this   *)
(* is for all of them.                                                     *)
THEOREM EverySentFrameArrives == Spec => []SentFrameArrives
<1>1. SentFrameArrives
  BY EveryFrameSurvives DEF SentFrameArrives
<1> QED
  BY <1>1, PTL

(* A chip in normal mode, after an open, a restart or a resume, uses the   *)
(* bit timing the CAN core has calculated.                                 *)
THEOREM ChipIsOnTime == Spec => []OnTime
<1>1. OnTime
  BY EveryTimingFits DEF OnTime
<1> QED
  BY <1>1, PTL
=============================================================================
