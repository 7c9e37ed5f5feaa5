------------------------- MODULE DummySerial_proofs -------------------------
(***************************************************************************)
(* Proofs about DummySerial for every value of its constants: its types,   *)
(* what the semaphore protects for any number of managers, and, for one    *)
(* manager, the delivery of every byte and of every rate change.           *)
(***************************************************************************)
EXTENDS DummySerial, SequenceTheorems, TLAPS

(* Unsigned arithmetic stays in the range of the type. *)
LEMMA WrapRange ==
  ASSUME NEW n \in Int
  PROVE  n % Wrap \in 0..(Wrap - 1)
BY DummySerialAssumption

(* A value within the range does not wrap. *)
LEMMA NoWrap ==
  ASSUME NEW n \in Nat, NEW w \in Nat, n < w
  PROVE  n % w = n
OBVIOUS

(* What dummy_start_tx takes is there, and is at least one byte. *)
LEMMA MovedRange ==
  ASSUME TxTypeOK, RingInv, kick
  PROVE  Moved \in 1..(xhead - xtail)
<1>1. xhead - xtail \in Nat /\ xhead - xtail >= 1
  BY DEF TxTypeOK, RingInv
<1>2. tx_len < TxFifoSize => TxFifoSize - tx_len \in Nat /\ TxFifoSize - tx_len >= 1
  BY DummySerialAssumption DEF TxTypeOK
<1>3. QED
  BY <1>1, <1>2 DEF Moved, Smaller

(* A control state a manager can go to *)
LEMMA GotoType ==
  ASSUME mpc \in [Files -> ManagerStates], NEW f, NEW pc \in ManagerStates, Goto(f, pc)
  PROVE  mpc' \in [Files -> ManagerStates]
BY DEF Goto

(* The transmit path keeps its types: dummy_start_tx stops at the head of xmit. *)
LEMMA TxTypes == TxTypeOK /\ RingInv /\ ManagerTypeOK /\ [Next]_vars => TxTypeOK' /\ RingInv'
<1> SUFFICES ASSUME TxTypeOK, RingInv, ManagerTypeOK, [Next]_vars
             PROVE  TxTypeOK' /\ RingInv'
  OBVIOUS
<1>1. ASSUME UNCHANGED txvars
      PROVE  TxTypeOK' /\ RingInv'
  BY <1>1 DEF TxTypeOK, RingInv, txvars
<1>2. ASSUME NEW n \in 1..MaxBytes, UartWrite(n)
      PROVE  TxTypeOK' /\ RingInv'
  BY <1>2 DEF UartWrite, TxTypeOK, RingInv
<1>3. CASE StartTx
  <2>1. Moved \in 1..(xhead - xtail)
    BY <1>3, MovedRange DEF StartTx
  <2>2. tx_len' \in 0..(Wrap - 1)
    <3>1. tx_len + Moved \in Int
      BY <2>1 DEF TxTypeOK
    <3>2. QED
      BY <1>3, <3>1, WrapRange DEF StartTx
  <2>3. tx_fifo' \in [0..(TxFifoSize - 1) -> Nat]
    <3>1. \A i \in 0..(TxFifoSize - 1) : i >= tx_len => xtail + 1 + (i - tx_len) \in Nat
      BY DummySerialAssumption DEF TxTypeOK
    <3>2. QED
      BY <1>3, <3>1 DEF StartTx, TxTypeOK
  <2>4. xtail' \in 0..MaxBytes /\ xtail' <= xhead
    BY <1>3, <2>1, DummySerialAssumption DEF StartTx, TxTypeOK
  <2>5. QED
    BY <1>3, <2>2, <2>3, <2>4 DEF StartTx, TxTypeOK, RingInv
<1>4. CASE TxWake
  BY <1>4 DEF TxWake, TxTypeOK, RingInv
<1>5. ASSUME NEW b \in Bauds, SetTermios(b)
      PROVE  UNCHANGED txvars
  BY <1>5 DEF SetTermios
<1>6. CASE TermiosStep
  <2>1. UNCHANGED txvars
    BY <1>6 DEF TermiosStep, TermiosDown, TermiosUp, TermiosInitCompletion, TermiosWake,
                TermiosKill
  <2>2. QED
    BY <2>1, <1>1
<1>7. ASSUME NEW f \in Files, KernelStep(f)
      PROVE  TxTypeOK' /\ RingInv'
  <2>1. CASE PollTest(f)
    BY <2>1 DEF PollTest, TxTypeOK, RingInv
  <2>2. CASE ReadComplete(f)
    BY <2>2 DEF ReadComplete, TxTypeOK, RingInv
  <2>3. CASE ReadStore(f)
    <3>1. rem[f] - rlen[f] \in Int
      BY DEF ManagerTypeOK
    <3>2. tx_len' \in 0..(Wrap - 1)
      BY <2>3, <3>1, WrapRange DEF ReadStore
    <3>3. QED
      BY <2>3, <3>2 DEF ReadStore, TxTypeOK, RingInv
  <2>4. CASE ~(PollTest(f) \/ ReadComplete(f) \/ ReadStore(f))
    <3>1. UNCHANGED txvars
      BY <1>7, <2>4 DEF KernelStep, FasyncDown, FasyncReset, FasyncComplete, ReleaseDown,
                        ReleaseUp, PollWake, ReadCopy, ReadLoad, ReadTest
    <3>2. QED
      BY <3>1, <1>1
  <2>5. QED
    BY <2>1, <2>2, <2>3, <2>4
<1>8. ASSUME NEW f \in Files, SystemCall(f)
      PROVE  TxTypeOK' /\ RingInv'
  <2>1. UNCHANGED <<xhead, xtail, kick, tx_fifo, tx_len, write_ok, txpc>>
    BY <1>8 DEF SystemCall, Open, FasyncOn, FasyncOff, EnterFasync, Close, GetBaud, PollWait,
                ReadLen, txvars
  <2>2. poll_wq' \subseteq poll_wq \cup Files
    BY <1>8 DEF SystemCall, Open, FasyncOn, FasyncOff, EnterFasync, Close, GetBaud, PollWait,
                ReadLen, txvars
  <2>3. QED
    BY <2>1, <2>2 DEF TxTypeOK, RingInv
<1>9. CASE UNCHANGED vars
  BY <1>1, <1>9 DEF vars
<1>10. QED
  BY <1>1, <1>2, <1>3, <1>4, <1>5, <1>6, <1>7, <1>8, <1>9 DEF Next

(* The termios path keeps its types. *)
LEMMA TermiosTypes == TermiosTypeOK /\ ManagerTypeOK /\ [Next]_vars => TermiosTypeOK'
<1> SUFFICES ASSUME TermiosTypeOK, ManagerTypeOK, [Next]_vars
             PROVE  TermiosTypeOK'
  OBVIOUS
<1>1. ASSUME UNCHANGED tiovars
      PROVE  TermiosTypeOK'
  BY <1>1 DEF TermiosTypeOK, tiovars
<1>2. ASSUME NEW n \in 1..MaxBytes, UartWrite(n)
      PROVE  UNCHANGED tiovars
  BY <1>2 DEF UartWrite
<1>3. CASE StartTx \/ TxWake
  BY <1>1, <1>3 DEF StartTx, TxWake
<1>4. ASSUME NEW b \in Bauds, SetTermios(b)
      PROVE  TermiosTypeOK'
  BY <1>4 DEF SetTermios, TermiosTypeOK
<1>5. CASE TermiosStep
  BY <1>5 DEF TermiosStep, TermiosDown, TermiosUp, TermiosInitCompletion, TermiosWake,
              TermiosKill, TermiosTypeOK
<1>6. ASSUME NEW f \in Files, KernelStep(f)
      PROVE  TermiosTypeOK'
  <2>1. CASE FasyncDown(f) \/ FasyncReset(f) \/ FasyncComplete(f)
    BY <2>1 DEF FasyncDown, FasyncReset, FasyncComplete, TermiosTypeOK
  <2>2. CASE ReleaseDown(f) \/ ReleaseUp(f)
    BY <2>2 DEF ReleaseDown, ReleaseUp, TermiosTypeOK
  <2>3. CASE \/ PollTest(f) \/ PollWake(f)
             \/ ReadCopy(f) \/ ReadLoad(f) \/ ReadStore(f) \/ ReadTest(f) \/ ReadComplete(f)
    <3>1. UNCHANGED tiovars
      BY <2>3 DEF PollTest, PollWake, ReadCopy, ReadLoad, ReadStore, ReadTest, ReadComplete
    <3>2. QED
      BY <3>1, <1>1
  <2>4. QED
    BY <1>6, <2>1, <2>2, <2>3 DEF KernelStep
<1>7. ASSUME NEW f \in Files, SystemCall(f)
      PROVE  UNCHANGED tiovars
  BY <1>7 DEF SystemCall, Open, FasyncOn, FasyncOff, EnterFasync, Close, GetBaud, PollWait,
              ReadLen
<1>8. CASE UNCHANGED vars
  BY <1>1, <1>8 DEF vars
<1>9. QED
  BY <1>1, <1>2, <1>3, <1>4, <1>5, <1>6, <1>7, <1>8 DEF Next

(* The managers keep their types. *)
LEMMA ManagerTypes ==
  TxTypeOK /\ TermiosTypeOK /\ ManagerTypeOK /\ [Next]_vars => ManagerTypeOK'
<1> SUFFICES ASSUME TxTypeOK, TermiosTypeOK, ManagerTypeOK, [Next]_vars
             PROVE  ManagerTypeOK'
  OBVIOUS
<1>1. ASSUME UNCHANGED <<mpc, rdvars, sigvars>>
      PROVE  ManagerTypeOK'
  BY <1>1 DEF ManagerTypeOK, rdvars, sigvars
<1>2. ASSUME NEW n \in 1..MaxBytes, UartWrite(n)
      PROVE  ManagerTypeOK'
  BY <1>1, <1>2 DEF UartWrite
<1>3. CASE StartTx \/ TxWake
  BY <1>1, <1>3 DEF StartTx, TxWake
<1>4. ASSUME NEW b \in Bauds, SetTermios(b)
      PROVE  ManagerTypeOK'
  BY <1>1, <1>4 DEF SetTermios
<1>5. CASE TermiosStep
  <2>1. CASE TermiosDown \/ TermiosUp \/ TermiosInitCompletion \/ TermiosWake
    BY <1>1, <2>1 DEF TermiosDown, TermiosUp, TermiosInitCompletion, TermiosWake
  <2>2. CASE TermiosKill
    BY <2>2 DEF TermiosKill, ManagerTypeOK, TermiosTypeOK, rdvars
  <2>3. QED
    BY <1>5, <2>1, <2>2 DEF TermiosStep
<1>6. ASSUME NEW f \in Files, KernelStep(f)
      PROVE  ManagerTypeOK'
  <2>1. mpc' \in [Files -> ManagerStates]
    <3>1. PICK pc \in ManagerStates : Goto(f, pc)
      BY <1>6 DEF KernelStep, FasyncDown, FasyncReset, FasyncComplete, ReleaseDown, ReleaseUp,
                  PollTest, PollWake, ReadCopy, ReadLoad, ReadStore, ReadTest, ReadComplete,
                  ManagerStates
    <3>2. QED
      BY <3>1, GotoType DEF ManagerTypeOK
  <2>2. CASE FasyncDown(f) \/ FasyncReset(f) \/ FasyncComplete(f)
    BY <2>1, <2>2 DEF FasyncDown, FasyncReset, FasyncComplete, ManagerTypeOK, TermiosTypeOK,
                      rdvars, sigvars
  <2>3. CASE ReleaseDown(f) \/ ReleaseUp(f) \/ PollTest(f) \/ PollWake(f)
    BY <2>1, <2>3 DEF ReleaseDown, ReleaseUp, PollTest, PollWake, ManagerTypeOK,
                      rdvars, sigvars
  <2>4. CASE ReadCopy(f)
    <3>1. rlen[f] \in Nat
      BY DummySerialAssumption DEF ManagerTypeOK
    <3>2. delivered' \in Seq(Nat)
      <4> DEFINE chunk == [i \in 1..rlen[f] |-> IF i <= TxFifoSize THEN tx_fifo[i - 1] ELSE 0]
      <4>1. delivered' = delivered \o chunk
        BY <2>4 DEF ReadCopy
      <4>2. chunk \in Seq(Nat)
        <5>1. \A i \in 1..rlen[f] : (IF i <= TxFifoSize THEN tx_fifo[i - 1] ELSE 0) \in Nat
          BY <3>1, DummySerialAssumption DEF TxTypeOK
        <5>2. QED
          BY <3>1, <5>1
      <4>3. delivered \o chunk \in Seq(Nat)
        BY <4>2 DEF ManagerTypeOK
      <4> QED
        BY <4>1, <4>3
    <3>3. QED
      BY <2>1, <2>4, <3>2 DEF ReadCopy, ManagerTypeOK, sigvars
  <2>5. CASE ReadLoad(f) \/ ReadStore(f) \/ ReadTest(f) \/ ReadComplete(f)
    BY <2>1, <2>5 DEF ReadLoad, ReadStore, ReadTest, ReadComplete, ManagerTypeOK, TxTypeOK,
                      rdvars, sigvars
  <2>6. QED
    BY <1>6, <2>2, <2>3, <2>4, <2>5 DEF KernelStep
<1>7. ASSUME NEW f \in Files, SystemCall(f)
      PROVE  ManagerTypeOK'
  <2>1. mpc' \in [Files -> ManagerStates]
    <3>1. PICK pc \in ManagerStates : Goto(f, pc)
      BY <1>7 DEF SystemCall, Open, FasyncOn, FasyncOff, EnterFasync, Close, GetBaud, PollWait,
                  ReadLen, ManagerStates
    <3>2. QED
      BY <3>1, GotoType DEF ManagerTypeOK
  <2>2. CASE Open(f) \/ FasyncOn(f) \/ FasyncOff(f) \/ Close(f)
    BY <2>1, <2>2 DEF Open, FasyncOn, FasyncOff, Close, EnterFasync, ManagerTypeOK,
                      rdvars, sigvars
  <2>3. CASE GetBaud(f)
    <3>1. known' \in [Files -> Bauds \cup {0}]
      BY <2>3 DEF GetBaud, ManagerTypeOK, TermiosTypeOK
    <3>2. QED
      BY <2>1, <2>3, <3>1 DEF GetBaud, ManagerTypeOK, rdvars
  <2>4. ASSUME NEW size \in ReadSizes, ReadLen(f, size)
        PROVE  ManagerTypeOK'
    <3>1. Smaller(size, tx_len) \in 0..(Wrap - 1)
      BY DummySerialAssumption DEF Smaller, TxTypeOK
    <3>2. QED
      BY <2>1, <2>4, <3>1 DEF ReadLen, ManagerTypeOK, sigvars
  <2>5. CASE PollWait(f)
    BY <2>1, <2>5 DEF PollWait, ManagerTypeOK, rdvars, sigvars
  <2>6. QED
    BY <1>7, <2>2, <2>3, <2>4, <2>5 DEF SystemCall
<1>8. CASE UNCHANGED vars
  BY <1>1, <1>8 DEF vars
<1>9. QED
  BY <1>2, <1>3, <1>4, <1>5, <1>6, <1>7, <1>8 DEF Next

(* Every variable keeps its type, and xmit is never read beyond its head *)
(* (dummy_start_tx stops at uart_circ_empty).                            *)
THEOREM TypeCorrect == Spec => [](TypeOK /\ RingInv)
<1>1. Init => TypeOK /\ RingInv
  <2> SUFFICES ASSUME Init
               PROVE  TypeOK /\ RingInv
    OBVIOUS
  <2>1. TxTypeOK /\ RingInv
    <3>1. tx_fifo \in [0..(TxFifoSize - 1) -> Nat]
      BY DEF Init
    <3>2. QED
      <4>1. TxTypeOK
        BY <3>1, DummySerialAssumption DEF Init, TxTypeOK
      <4>2. RingInv
        BY DEF Init, RingInv
      <4>3. QED
        BY <4>1, <4>2
  <2>2. TermiosTypeOK
    BY DEF Init, TermiosTypeOK
  <2>3. ManagerTypeOK
    <3>1. delivered \in Seq(Nat)
      BY DEF Init
    <3>2. "closed" \in ManagerStates
      BY DEF ManagerStates
    <3>3. 0 \in 0..(Wrap - 1)
      BY DummySerialAssumption
    <3>4. QED
      BY <3>1, <3>2, <3>3 DEF Init, ManagerTypeOK
  <2>4. QED
    BY <2>1, <2>2, <2>3 DEF TypeOK
<1>2. TypeOK /\ RingInv /\ [Next]_vars => TypeOK' /\ RingInv'
  BY TxTypes, TermiosTypes, ManagerTypes DEF TypeOK
<1>3. QED
  BY <1>1, <1>2, PTL DEF Spec

-----------------------------------------------------------------------------
(* What the semaphore protects: any number of managers, with or without     *)
(* kernel preemption.                                                       *)
LEMMA SemStep == TypeOK /\ SemInv /\ [Next]_vars => SemInv'
<1> SUFFICES ASSUME TypeOK, SemInv, [Next]_vars
             PROVE  SemInv'
  OBVIOUS
<1> USE DEF TypeOK, ManagerTypeOK
<1>1. ASSUME UNCHANGED tiovars,
             NEW f \in Files, NEW pc \in ManagerStates \ {"fas_reset", "rel_up"},
             Goto(f, pc), mpc[f] \notin {"fas_reset", "rel_up"}
      PROVE  SemInv'
  BY <1>1 DEF SemInv, Goto, tiovars
<1>2. ASSUME UNCHANGED <<tiovars, mpc>>
      PROVE  SemInv'
  BY <1>2 DEF SemInv, tiovars
<1>3. ASSUME NEW n \in 1..MaxBytes, UartWrite(n)
      PROVE  SemInv'
  BY <1>2, <1>3 DEF UartWrite
<1>4. CASE StartTx \/ TxWake
  BY <1>2, <1>4 DEF StartTx, TxWake
<1>5. ASSUME NEW b \in Bauds, SetTermios(b)
      PROVE  SemInv'
  BY <1>5 DEF SetTermios, SemInv
<1>6. CASE TermiosStep
  <2>1. CASE TermiosDown
    BY <2>1, DummySerialAssumption DEF TermiosDown, SemInv, NoOne, Termios
  <2>2. CASE TermiosUp
    BY <2>2, DummySerialAssumption DEF TermiosUp, SemInv, NoOne, Termios
  <2>3. CASE TermiosInitCompletion \/ TermiosWake \/ TermiosKill
    BY <2>3 DEF TermiosInitCompletion, TermiosWake, TermiosKill, SemInv
  <2>4. QED
    BY <1>6, <2>1, <2>2, <2>3 DEF TermiosStep
<1>7. ASSUME NEW f \in Files, KernelStep(f)
      PROVE  SemInv'
  <2>1. CASE FasyncDown(f)
    BY <2>1, DummySerialAssumption DEF FasyncDown, At, Goto, SemInv, NoOne, Termios
  <2>2. CASE FasyncReset(f)
    BY <2>2, DummySerialAssumption DEF FasyncReset, At, Goto, SemInv, NoOne, Termios
  <2>3. CASE FasyncComplete(f)
    BY <2>3 DEF FasyncComplete, At, Goto, SemInv
  <2>4. CASE ReleaseDown(f)
    BY <2>4, DummySerialAssumption DEF ReleaseDown, At, Goto, SemInv, NoOne, Termios
  <2>5. CASE ReleaseUp(f)
    BY <2>5, DummySerialAssumption DEF ReleaseUp, At, Goto, SemInv, NoOne, Termios
  <2>6. CASE \/ PollTest(f) \/ PollWake(f)
             \/ ReadCopy(f) \/ ReadLoad(f) \/ ReadStore(f) \/ ReadTest(f) \/ ReadComplete(f)
    <3>1. PICK pc \in ManagerStates \ {"fas_reset", "rel_up"} : Goto(f, pc)
      BY <2>6 DEF PollTest, PollWake, ReadCopy, ReadLoad, ReadStore, ReadTest, ReadComplete,
                  ManagerStates
    <3>2. mpc[f] \notin {"fas_reset", "rel_up"} /\ UNCHANGED tiovars
      BY <2>6 DEF PollTest, PollWake, ReadCopy, ReadLoad, ReadStore, ReadTest, ReadComplete, At
    <3>3. QED
      BY <1>1, <3>1, <3>2
  <2>7. QED
    BY <1>7, <2>1, <2>2, <2>3, <2>4, <2>5, <2>6 DEF KernelStep
<1>8. ASSUME NEW f \in Files, SystemCall(f)
      PROVE  SemInv'
  <2>1. PICK pc \in ManagerStates \ {"fas_reset", "rel_up"} : Goto(f, pc)
    BY <1>8 DEF SystemCall, Open, FasyncOn, FasyncOff, EnterFasync, Close, GetBaud, PollWait,
                ReadLen, ManagerStates
  <2>2. mpc[f] \notin {"fas_reset", "rel_up"} /\ UNCHANGED tiovars
    BY <1>8 DEF SystemCall, Open, FasyncOn, FasyncOff, EnterFasync, Close, GetBaud, PollWait,
                ReadLen, At
  <2>3. QED
    BY <1>1, <2>1, <2>2
<1>9. CASE UNCHANGED vars
  BY <1>2, <1>9 DEF vars
<1>10. QED
  BY <1>3, <1>4, <1>5, <1>6, <1>7, <1>8, <1>9 DEF Next

(* The semaphore is held by exactly the thread between its down and its up, *)
(* so manager_reset and async_queue are never seen half updated.            *)
THEOREM SemaphoreProtects == Spec => [](SemInv /\ ResetMeansNobody)
<1>1. Init => SemInv
  BY DummySerialAssumption DEF Init, SemInv, NoOne, Termios
<1>2. TypeOK /\ SemInv => ResetMeansNobody
  BY DummySerialAssumption DEF SemInv, ResetMeansNobody
<1>3. QED
  BY <1>1, <1>2, SemStep, TypeCorrect, PTL DEF Spec

-----------------------------------------------------------------------------
(* One manager that gives up its registration only by closing: no rate      *)
(* change is missed.                                                        *)
LEMMA SignalStep ==
  ASSUME NEW m, Files = {m}, ~Toggles
  PROVE  TypeOK /\ SignalInv /\ [Next]_vars => SignalInv'
<1> SUFFICES ASSUME TypeOK, SignalInv, [Next]_vars
             PROVE  SignalInv'
  OBVIOUS
<1> USE DEF TypeOK, ManagerTypeOK, TermiosTypeOK
<1>1. ASSUME UNCHANGED <<tiovars, mpc, sigvars>>
      PROVE  SignalInv'
  BY <1>1 DEF SignalInv, Covered, Closing, tiovars, sigvars
<1>2. ASSUME UNCHANGED <<tiovars, sigvars>>, NEW f \in Files,
             NEW pc \in {"idle", "poll_test", "ready", "asleep", "rd_copy", "rd_load",
                         "rd_store", "rd_test", "rd_complete"},
             Goto(f, pc),
             mpc[f] \in {"idle", "poll_test", "ready", "asleep", "rd_copy", "rd_load",
                         "rd_store", "rd_test", "rd_complete"}
      PROVE  SignalInv'
  BY <1>2 DEF SignalInv, Covered, Closing, Goto, tiovars, sigvars
<1>3. ASSUME NEW n \in 1..MaxBytes, UartWrite(n)
      PROVE  SignalInv'
  BY <1>1, <1>3 DEF UartWrite
<1>4. CASE StartTx \/ TxWake
  BY <1>1, <1>4 DEF StartTx, TxWake
<1>5. ASSUME NEW b \in Bauds, SetTermios(b)
      PROVE  SignalInv'
  BY <1>5 DEF SetTermios, SignalInv, Covered, Closing, sigvars
<1>6. CASE TermiosStep
  <2>1. CASE TermiosDown
    BY <2>1 DEF TermiosDown, SignalInv, Covered, Closing, sigvars
  <2>2. CASE TermiosUp
    BY <2>2 DEF TermiosUp, SignalInv, Covered, Closing, sigvars
  <2>3. CASE TermiosInitCompletion
    BY <2>3 DEF TermiosInitCompletion, SignalInv, Covered, Closing, sigvars
  <2>4. CASE TermiosWake
    BY <2>4 DEF TermiosWake, SignalInv, Covered, Closing, sigvars
  <2>5. CASE TermiosKill
    BY <2>5 DEF TermiosKill, SignalInv, Covered, Closing
  <2>6. QED
    BY <1>6, <2>1, <2>2, <2>3, <2>4, <2>5 DEF TermiosStep
<1>7. ASSUME NEW f \in Files, KernelStep(f)
      PROVE  SignalInv'
  <2>1. CASE FasyncDown(f)
    BY <2>1 DEF FasyncDown, At, Goto, SignalInv, Covered, Closing
  <2>2. CASE FasyncReset(f)
    BY <2>2 DEF FasyncReset, At, Goto, SignalInv, Covered, Closing
  <2>3. CASE FasyncComplete(f)
    BY <2>3 DEF FasyncComplete, At, Goto, SignalInv, Covered, Closing, sigvars
  <2>4. CASE ReleaseDown(f)
    BY <2>4 DEF ReleaseDown, At, Goto, SignalInv, Covered, Closing, sigvars
  <2>5. CASE ReleaseUp(f)
    BY <2>5 DEF ReleaseUp, At, Goto, SignalInv, Covered, Closing
  <2>6. CASE \/ PollTest(f) \/ PollWake(f)
             \/ ReadCopy(f) \/ ReadLoad(f) \/ ReadStore(f) \/ ReadTest(f) \/ ReadComplete(f)
    <3>1. PICK pc \in {"idle", "poll_test", "ready", "asleep", "rd_copy", "rd_load",
                       "rd_store", "rd_test", "rd_complete"} : Goto(f, pc)
      BY <2>6 DEF PollTest, PollWake, ReadCopy, ReadLoad, ReadStore, ReadTest, ReadComplete
    <3>2. mpc[f] \in {"idle", "poll_test", "ready", "asleep", "rd_copy", "rd_load",
                      "rd_store", "rd_test", "rd_complete"}
      BY <2>6 DEF PollTest, PollWake, ReadCopy, ReadLoad, ReadStore, ReadTest, ReadComplete, At
    <3>3. UNCHANGED <<tiovars, sigvars>>
      BY <2>6 DEF PollTest, PollWake, ReadCopy, ReadLoad, ReadStore, ReadTest, ReadComplete
    <3>4. QED
      BY <1>2, <3>1, <3>2, <3>3
  <2>7. QED
    BY <1>7, <2>1, <2>2, <2>3, <2>4, <2>5, <2>6 DEF KernelStep
<1>8. ASSUME NEW f \in Files, SystemCall(f)
      PROVE  SignalInv'
  <2>1. CASE Open(f)
    BY <2>1 DEF Open, At, Goto, SignalInv, Covered, Closing, tiovars
  <2>2. CASE FasyncOn(f)
    BY <2>2 DEF FasyncOn, EnterFasync, At, Goto, SignalInv, Covered, Closing, tiovars
  <2>3. CASE FasyncOff(f)
    BY <2>3 DEF FasyncOff
  <2>4. CASE Close(f)
    BY <2>4 DEF Close, At, Goto, SignalInv, Covered, Closing, tiovars
  <2>5. CASE GetBaud(f)
    <3>1. mpc[f] \in {"idle", "asleep"}
      BY <2>5 DEF GetBaud, At
    <3>2. QED
      BY <2>5, <3>1 DEF GetBaud, Goto, SignalInv, Covered, Closing, tiovars
  <2>6. CASE PollWait(f)
    BY <2>6, <1>2 DEF PollWait, At
  <2>7. ASSUME NEW size \in ReadSizes, ReadLen(f, size)
        PROVE  SignalInv'
    BY <2>7, <1>2 DEF ReadLen, At
  <2>8. QED
    BY <1>8, <2>1, <2>2, <2>3, <2>4, <2>5, <2>6, <2>7 DEF SystemCall
<1>9. CASE UNCHANGED vars
  BY <1>1, <1>9 DEF vars
<1>10. QED
  BY <1>3, <1>4, <1>5, <1>6, <1>7, <1>8, <1>9 DEF Next

(* With one manager, restarted as often as it may be, every change of the   *)
(* baud rate by dummy_set_termios is known to it or signalled to it.        *)
THEOREM NoRateChangeIsMissed ==
  ASSUME NEW CONSTANT m, Files = {m}, ~Toggles
  PROVE  Spec => []RateChangeSignalled
<1>1. Init => SignalInv
  BY DEF Init, SignalInv, Covered, Closing
<1>2. TypeOK /\ SignalInv /\ [Next]_vars => SignalInv'
  BY SignalStep
<1>3. SignalInv => RateChangeSignalled
  BY DEF SignalInv, RateChangeSignalled, Registered, Closing
<1>4. QED
  BY <1>1, <1>2, <1>3, TypeCorrect, PTL DEF Spec

-----------------------------------------------------------------------------
(* One manager that reads with buffers of at least the fifo's size: every    *)
(* byte is delivered once and in order, and the writer waits for that.       *)
LEMMA DeliveryStep ==
  ASSUME NEW m, Files = {m}, \A size \in ReadSizes : size >= TxFifoSize
  PROVE  TypeOK /\ DeliveryInv /\ [Next]_vars => DeliveryInv'
<1> SUFFICES ASSUME TypeOK, DeliveryInv, [Next]_vars
             PROVE  DeliveryInv'
  OBVIOUS
<1> USE DummySerialAssumption DEF TypeOK, TxTypeOK, ManagerTypeOK
<1>1. RingInv'
  BY TxTypes DEF DeliveryInv
<1>2. ASSUME UNCHANGED <<txvars, mpc, rdvars>>
      PROVE  DeliveryInv'
  BY <1>1, <1>2 DEF DeliveryInv, FifoInv, Copied, WriterInv, Reading, ReaderInv,
                    DeliveredInOrder, txvars, rdvars
<1>3. ASSUME UNCHANGED <<xhead, xtail, kick, tx_fifo, tx_len, write_ok, txpc, rdvars>>,
             NEW f \in Files, NEW pc \in ManagerStates \ Reading, Goto(f, pc),
             mpc[f] \notin Reading \/ mpc[f] = "ready"
      PROVE  DeliveryInv'
  BY <1>1, <1>3 DEF DeliveryInv, FifoInv, Copied, WriterInv, Reading, ReaderInv,
                    DeliveredInOrder, rdvars, Goto
<1>4. ASSUME NEW n \in 1..MaxBytes, UartWrite(n)
      PROVE  DeliveryInv'
  BY <1>1, <1>4 DEF UartWrite, DeliveryInv, FifoInv, Copied, WriterInv, Reading, ReaderInv,
                    DeliveredInOrder, rdvars
<1>5. CASE StartTx
  <2>1. /\ tx_len = 0 /\ mpc[m] \notin Reading /\ ~Copied /\ Len(delivered) = xtail
    BY <1>5 DEF StartTx, DeliveryInv, WriterInv, FifoInv, Copied, Reading
  <2>2. Moved \in 1..(xhead - xtail)
    BY <1>5, MovedRange DEF StartTx, DeliveryInv
  <2>3. Moved <= TxFifoSize
    BY <2>1 DEF Moved, Smaller
  <2>4. tx_len' = Moved
    <3>1. Moved \in Nat /\ Wrap \in Nat /\ Moved < Wrap
      BY <2>2, <2>3
    <3> HIDE DummySerialAssumption
    <3>2. Moved % Wrap = Moved
      BY <3>1, NoWrap
    <3>3. tx_len' = (0 + Moved) % Wrap
      BY <1>5, <2>1 DEF StartTx
    <3>4. QED
      BY <3>1, <3>2, <3>3
  <2>5. UNCHANGED <<mpc, rdvars>>
    BY <1>5 DEF StartTx
  <2>6. FifoInv'
    <3>1. ~Copied'
      BY <2>1, <2>5 DEF Copied
    <3>2. Len(delivered)' + tx_len' = xtail'
      BY <1>5, <2>1, <2>2, <2>4, <2>5 DEF StartTx, rdvars
    <3>3. \A i \in 0..(tx_len' - 1) : tx_fifo'[i] = Len(delivered)' + 1 + i
      BY <1>5, <2>1, <2>2, <2>3, <2>4, <2>5 DEF StartTx, rdvars
    <3>4. QED
      BY <3>1, <3>2, <3>3 DEF FifoInv
  <2>7. WriterInv' /\ ReaderInv'
    BY <1>5, <2>1, <2>5 DEF StartTx, WriterInv, ReaderInv, Reading
  <2>8. tx_len' <= TxFifoSize /\ DeliveredInOrder'
    BY <2>3, <2>4, <2>5 DEF DeliveryInv, DeliveredInOrder, rdvars
  <2>9. QED
    BY <1>1, <2>6, <2>7, <2>8 DEF DeliveryInv
<1>6. CASE TxWake
  BY <1>1, <1>6 DEF TxWake, DeliveryInv, FifoInv, Copied, WriterInv, Reading, ReaderInv,
                    DeliveredInOrder, rdvars
<1>7. ASSUME NEW b \in Bauds, SetTermios(b)
      PROVE  DeliveryInv'
  BY <1>2, <1>7 DEF SetTermios
<1>8. CASE TermiosStep
  BY <1>2, <1>8 DEF TermiosStep, TermiosDown, TermiosUp, TermiosInitCompletion, TermiosWake,
                    TermiosKill
<1>9. ASSUME NEW f \in Files, KernelStep(f)
      PROVE  DeliveryInv'
  <2>1. CASE \/ FasyncDown(f) \/ FasyncReset(f) \/ FasyncComplete(f)
             \/ ReleaseDown(f) \/ ReleaseUp(f) \/ PollWake(f)
    <3>1. PICK pc \in ManagerStates \ Reading : Goto(f, pc)
      BY <2>1 DEF FasyncDown, FasyncReset, FasyncComplete, ReleaseDown, ReleaseUp, PollWake,
                  ManagerStates, Reading
    <3>2. mpc[f] \notin Reading
      BY <2>1 DEF FasyncDown, FasyncReset, FasyncComplete, ReleaseDown, ReleaseUp, PollWake,
                  At, Reading
    <3>3. UNCHANGED <<txvars, rdvars>>
      BY <2>1 DEF FasyncDown, FasyncReset, FasyncComplete, ReleaseDown, ReleaseUp, PollWake
    <3>4. QED
      BY <1>3, <3>1, <3>2, <3>3 DEF txvars
  <2>2. CASE PollTest(f)
    BY <1>1, <2>2 DEF PollTest, At, Goto, DeliveryInv, FifoInv, Copied, WriterInv, Reading,
                      ReaderInv, DeliveredInOrder, rdvars
  <2>3. CASE ReadCopy(f)
    <3>1. f = m /\ mpc[m] = "rd_copy" /\ rlen[m] = tx_len /\ tx_len > 0 /\ tx_len <= TxFifoSize
      BY <2>3 DEF ReadCopy, At, DeliveryInv, ReaderInv
    <3>2. ~Copied /\ Copied'
      BY <2>3, <3>1 DEF ReadCopy, Goto, Copied
    <3>3. /\ Len(delivered) + tx_len = xtail
          /\ \A i \in 0..(tx_len - 1) : tx_fifo[i] = Len(delivered) + 1 + i
      BY <3>2 DEF DeliveryInv, FifoInv
    <3> DEFINE chunk == [i \in 1..rlen[f] |-> IF i <= TxFifoSize THEN tx_fifo[i - 1] ELSE 0]
    <3>4. delivered' = delivered \o chunk
      BY <2>3 DEF ReadCopy
    <3>5. chunk \in Seq(Nat) /\ Len(chunk) = tx_len
      <4>1. \A i \in 1..rlen[f] : (IF i <= TxFifoSize THEN tx_fifo[i - 1] ELSE 0) \in Nat
        BY <3>1
      <4>2. QED
        BY <3>1, <4>1
    <3>6. \A i \in 1..tx_len : chunk[i] = Len(delivered) + i
      BY <3>1, <3>3
    <3> HIDE DEF chunk
    <3>7. Len(delivered') = xtail
      BY <3>3, <3>4, <3>5, ConcatProperties
    <3>8. DeliveredInOrder'
      <4>1. ASSUME NEW i \in 1..Len(delivered')
            PROVE  delivered'[i] = i
        <5>1. i \in 1..(Len(delivered) + Len(chunk))
          BY <3>3, <3>5, <3>7
        <5>2. delivered'[i] = IF i <= Len(delivered) THEN delivered[i]
                                                     ELSE chunk[i - Len(delivered)]
          BY <3>4, <3>5, <5>1, ConcatProperties
        <5>3. QED
          BY <3>5, <3>6, <5>1, <5>2 DEF DeliveryInv, DeliveredInOrder
      <4>2. QED
        BY <4>1 DEF DeliveredInOrder
    <3>9. FifoInv'
      BY <2>3, <3>2, <3>7 DEF ReadCopy, FifoInv, txvars
    <3>10. WriterInv' /\ ReaderInv' /\ tx_len' <= TxFifoSize
      BY <2>3, <3>1 DEF ReadCopy, Goto, DeliveryInv, WriterInv, ReaderInv, Reading, txvars
    <3>11. QED
      BY <1>1, <3>8, <3>9, <3>10 DEF DeliveryInv
  <2>4. CASE ReadLoad(f)
    BY <1>1, <2>4 DEF ReadLoad, At, Goto, DeliveryInv, FifoInv, Copied, WriterInv, Reading,
                      ReaderInv, DeliveredInOrder, txvars
  <2>5. CASE ReadStore(f)
    <3>1. f = m /\ mpc[m] = "rd_store" /\ rem[m] = tx_len /\ rlen[m] = tx_len
      BY <2>5 DEF ReadStore, At, DeliveryInv, ReaderInv
    <3>2. tx_len' = 0
      BY <2>5, <3>1 DEF ReadStore
    <3>3. QED
      BY <1>1, <2>5, <3>1, <3>2 DEF ReadStore, Goto, DeliveryInv, FifoInv, Copied, WriterInv,
                      Reading, ReaderInv, DeliveredInOrder, rdvars
  <2>6. CASE ReadTest(f)
    BY <1>1, <2>6 DEF ReadTest, At, Goto, DeliveryInv, FifoInv, Copied, WriterInv, Reading,
                      ReaderInv, DeliveredInOrder, txvars, rdvars
  <2>7. CASE ReadComplete(f)
    BY <1>1, <2>7 DEF ReadComplete, At, Goto, DeliveryInv, FifoInv, Copied, WriterInv, Reading,
                      ReaderInv, DeliveredInOrder, rdvars
  <2>8. QED
    BY <1>9, <2>1, <2>2, <2>3, <2>4, <2>5, <2>6, <2>7 DEF KernelStep
<1>10. ASSUME NEW f \in Files, SystemCall(f)
       PROVE  DeliveryInv'
  <2>1. ASSUME NEW size \in ReadSizes, ReadLen(f, size)
        PROVE  DeliveryInv'
    <3>1. Smaller(size, tx_len) = tx_len
      BY DEF Smaller, DeliveryInv
    <3>2. QED
      BY <1>1, <2>1, <3>1 DEF ReadLen, At, Goto, DeliveryInv, FifoInv, Copied, WriterInv,
                      Reading, ReaderInv, DeliveredInOrder, txvars
  <2>2. CASE Open(f) \/ FasyncOn(f) \/ FasyncOff(f) \/ Close(f) \/ GetBaud(f) \/ PollWait(f)
    <3>1. PICK pc \in ManagerStates \ Reading : Goto(f, pc)
      BY <2>2 DEF Open, FasyncOn, FasyncOff, EnterFasync, Close, GetBaud, PollWait,
                  ManagerStates, Reading
    <3>2. mpc[f] \notin Reading \/ mpc[f] = "ready"
      BY <2>2 DEF Open, FasyncOn, FasyncOff, Close, GetBaud, PollWait, At, Reading
    <3>3. UNCHANGED <<xhead, xtail, kick, tx_fifo, tx_len, write_ok, txpc, rdvars>>
      BY <2>2 DEF Open, FasyncOn, FasyncOff, EnterFasync, Close, GetBaud, PollWait, txvars
    <3>4. QED
      BY <1>3, <3>1, <3>2, <3>3
  <2>3. QED
    BY <1>10, <2>1, <2>2 DEF SystemCall
<1>11. CASE UNCHANGED vars
  BY <1>2, <1>11 DEF vars
<1>12. QED
  BY <1>4, <1>5, <1>6, <1>7, <1>8, <1>9, <1>10, <1>11 DEF Next

(* With one manager that reads whole fifos, the bytes counted by icount.tx   *)
(* reach user space once each and in order; the fifo is never overrun;       *)
(* dummy_start_tx returns only to an empty fifo; TIOCSER_TEMT is true.       *)
THEOREM BytesAreDelivered ==
  ASSUME NEW CONSTANT m, Files = {m}, \A size \in ReadSizes : size >= TxFifoSize
  PROVE  Spec => [](/\ DeliveredInOrder /\ NoOverrun /\ WriterReturnsDrained
                    /\ TxEmptyIsTrue /\ NoOops)
<1>1. Init => DeliveryInv
  BY DummySerialAssumption DEF Init, DeliveryInv, RingInv, FifoInv, Copied, WriterInv, Reading,
                               ReaderInv, DeliveredInOrder
<1>2. TypeOK /\ DeliveryInv /\ [Next]_vars => DeliveryInv'
  BY DeliveryStep
<1>3. TypeOK /\ DeliveryInv => /\ DeliveredInOrder /\ NoOverrun /\ WriterReturnsDrained
                              /\ TxEmptyIsTrue /\ NoOops
  BY DummySerialAssumption DEF DeliveryInv, FifoInv, Copied, WriterInv, ReaderInv, Reading,
       NoOverrun, WriterReturnsDrained, TxEmptyIsTrue, NoOops, TypeOK, TxTypeOK, ManagerTypeOK
<1>4. QED
  BY <1>1, <1>2, <1>3, TypeCorrect, PTL DEF Spec

(* dummy_start_tx never returns before the manager has taken what it left in
   the fifo, preempted or not, whatever uart_write adds meanwhile. *)
THEOREM WriterNeverReturnsEarly ==
  ASSUME NEW CONSTANT m, Files = {m}, \A size \in ReadSizes : size >= TxFifoSize
  PROVE  Spec => []WriterReturnsDrained
BY BytesAreDelivered, PTL

(* Two steps of the driver are seen by the tty or by user space. *)
LEMMA OthersAreInvisible ==
  ASSUME [Next]_vars
  PROVE  StartTx \/ (\E f \in Files : ReadCopy(f)) \/ UNCHANGED <<xtail, delivered>>
<1>1. ASSUME NEW n \in 1..MaxBytes, UartWrite(n) PROVE UNCHANGED <<xtail, delivered>>
  BY <1>1 DEF UartWrite, rdvars
<1>2. ASSUME NEW b \in Bauds, SetTermios(b) PROVE UNCHANGED <<xtail, delivered>>
  BY <1>2 DEF SetTermios, txvars, rdvars
<1>3. CASE TxWake \/ TermiosStep
  BY <1>3 DEF TxWake, TermiosStep, TermiosDown, TermiosUp, TermiosInitCompletion, TermiosWake,
              TermiosKill, txvars, rdvars
<1>4. ASSUME NEW f \in Files, KernelStep(f), ~ReadCopy(f) PROVE UNCHANGED <<xtail, delivered>>
  <2>1. CASE FasyncDown(f) \/ FasyncReset(f) \/ FasyncComplete(f) \/ ReleaseDown(f) \/ ReleaseUp(f)
    BY <2>1 DEF FasyncDown, FasyncReset, FasyncComplete, ReleaseDown, ReleaseUp, txvars, rdvars
  <2>2. CASE PollTest(f) \/ PollWake(f) \/ ReadLoad(f) \/ ReadStore(f)
    BY <2>2 DEF PollTest, PollWake, ReadLoad, ReadStore, txvars, rdvars
  <2>3. CASE ReadTest(f) \/ ReadComplete(f)
    BY <2>3 DEF ReadTest, ReadComplete, txvars, rdvars
  <2>4. QED
    BY <1>4, <2>1, <2>2, <2>3 DEF KernelStep
<1>5. ASSUME NEW f \in Files, SystemCall(f) PROVE UNCHANGED <<xtail, delivered>>
  BY <1>5 DEF SystemCall, Open, FasyncOn, FasyncOff, EnterFasync, Close, GetBaud, PollWait,
              ReadLen, txvars, rdvars
<1>6. CASE UNCHANGED vars
  BY <1>6 DEF vars, txvars, rdvars
<1>7. QED
  BY <1>1, <1>2, <1>3, <1>4, <1>5, <1>6 DEF Next

(* The port implements ByteChannel, but for its fairness: what is counted in *)
(* icount.tx only grows, and user space receives the numbers up to it, in    *)
(* order and some at a time.                                                 *)
THEOREM PortIsByteChannel ==
  ASSUME NEW CONSTANT m, Files = {m}, \A size \in ReadSizes : size >= TxFifoSize
  PROVE  Spec => Channel!Spec
<1>1. Init => Channel!Init
  BY DEF Init, Channel!Init
<1>2. TypeOK /\ TypeOK' /\ DeliveryInv /\ DeliveryInv' /\ [Next]_vars
      => [Channel!Next]_<<xtail, delivered>>
  <2> SUFFICES ASSUME TypeOK, TypeOK', DeliveryInv, DeliveryInv', [Next]_vars
               PROVE  [Channel!Next]_<<xtail, delivered>>
    OBVIOUS
  <2>0. delivered' \in Seq(Nat)
    BY DEF TypeOK, ManagerTypeOK
  <2>1. CASE StartTx
    <3>1. Moved \in 1..(xhead - xtail) /\ xtail \in Nat /\ xhead \in Nat
      BY <2>1, MovedRange, DummySerialAssumption DEF StartTx, DeliveryInv, TypeOK, TxTypeOK
    <3>2. xtail' = xtail + Moved /\ delivered' = delivered
      BY <2>1 DEF StartTx, rdvars
    <3>3. Channel!Transmit
      BY <3>1, <3>2 DEF Channel!Transmit
    <3>4. QED
      BY <3>3 DEF Channel!Next
  <2>2. ASSUME NEW f \in Files, ReadCopy(f) PROVE [Channel!Next]_<<xtail, delivered>>
    <3>1. f = m /\ mpc[m] = "rd_copy" /\ xtail' = xtail /\ mpc' = [mpc EXCEPT ![m] = "rd_load"]
      BY <2>2 DEF ReadCopy, At, Goto, txvars
    <3>2. ~Copied /\ Copied'
      BY <3>1 DEF Copied, TypeOK, ManagerTypeOK
    <3>3. /\ Len(delivered) + tx_len = xtail /\ tx_len > 0
          /\ Len(delivered') = xtail /\ \A i \in 1..Len(delivered') : delivered'[i] = i
      BY <3>1, <3>2 DEF DeliveryInv, FifoInv, ReaderInv, DeliveredInOrder
    <3>4. tx_len \in Nat /\ xtail \in Nat /\ Len(delivered) \in Nat
      BY DummySerialAssumption DEF TypeOK, TxTypeOK, ManagerTypeOK
    <3>5. xtail \in (Len(delivered) + 1)..xtail
      BY <3>3, <3>4
    <3>6. delivered' = [i \in 1..xtail |-> i]
      BY <2>0, <3>3
    <3>7. Channel!Deliver
      BY <3>1, <3>5, <3>6 DEF Channel!Deliver
    <3>8. QED
      BY <3>7 DEF Channel!Next
  <2>3. QED
    BY <2>1, <2>2, OthersAreInvisible
<1>3. Init => DeliveryInv
  BY DummySerialAssumption DEF Init, DeliveryInv, RingInv, FifoInv, Copied, WriterInv, Reading,
                               ReaderInv, DeliveredInOrder
<1>4. TypeOK /\ DeliveryInv /\ [Next]_vars => DeliveryInv'
  BY DeliveryStep
<1>5. QED
  BY <1>1, <1>2, <1>3, <1>4, TypeCorrect, PTL DEF Spec, Channel!Spec
=============================================================================
