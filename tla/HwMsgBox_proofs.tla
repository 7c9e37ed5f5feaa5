-------------------------- MODULE HwMsgBox_proofs --------------------------
(***************************************************************************)
(* The frames of the message pool are accounted for, whatever the size of  *)
(* the pool and however often a send times out; and until a send does,     *)
(* sender and ARISC take turns.                                            *)
(***************************************************************************)
EXTENDS HwMsgBox, FiniteSetTheorems, TLAPS

(* The free frames can be counted. *)
LEMMA PoolIsFinite ==
  ASSUME free \subseteq Frames
  PROVE  IsFiniteSet(free) /\ Cardinality(free) \in Nat
BY HwMsgBoxAssumption, FS_Subset, FS_CardinalityType

(* The frame a sender takes is one frame less in the pool. *)
LEMMA TakeOne ==
  ASSUME free \subseteq Frames, NEW f \in free
  PROVE  Cardinality(free \ {f}) = Cardinality(free) - 1
BY PoolIsFinite, FS_RemoveElement

(* The frame it gives back is one more. *)
LEMMA GiveOne ==
  ASSUME free \subseteq Frames, NEW f, f \notin free
  PROVE  Cardinality(free \cup {f}) = Cardinality(free) + 1
BY PoolIsFinite, FS_AddElement

(* A frame is free, with the sender, or lost in a failure. *)
LEMMA PoolStep == PoolInv /\ [Next]_vars => PoolInv'
<1> SUFFICES ASSUME PoolInv, [Next]_vars PROVE PoolInv'
  OBVIOUS
<1> USE DEF PoolInv, RefusedOnlyAfterFailures
<1>0. None \notin Frames /\ Cardinality(Frames) \in Nat /\ Cardinality(free) \in Nat
  BY HwMsgBoxAssumption, FS_CardinalityType, PoolIsFinite
<1>1. CASE Allocate
  <2>1. PICK f \in free : frame' = f /\ free' = free \ {f}
    BY <1>1 DEF Allocate
  <2>2. Cardinality(free') = Cardinality(free) - 1
    BY <2>1, TakeOne
  <2>3. QED
    BY <1>0, <1>1, <2>1, <2>2 DEF Allocate
<1>2. CASE NoMemory
  <2>1. Cardinality(free) = 0
    BY <1>2, FS_EmptySet DEF NoMemory
  <2>2. QED
    BY <1>0, <1>2, <2>1 DEF NoMemory, NextRequest, Leave
<1>3. CASE Send \/ Answered \/ TimedOut
  BY <1>3, <1>0 DEF Send, Answered, TimedOut
<1>4. CASE Fail
  BY <1>4, <1>0 DEF Fail, NextRequest, Leave
<1>5. CASE Free
  <2>1. frame \in Frames /\ free' = free \cup {frame}
    BY <1>5 DEF Free
  <2>2. Cardinality(free') = Cardinality(free) + 1
    BY <2>1, GiveOne
  <2>3. QED
    BY <1>0, <1>5, <2>1, <2>2 DEF Free, NextRequest, Leave
<1>6. CASE Serve
  BY <1>6, <1>0 DEF Serve
<1>7. CASE UNCHANGED vars
  BY <1>7, <1>0 DEF vars
<1>8. QED
  BY <1>1, <1>2, <1>3, <1>4, <1>5, <1>6, <1>7 DEF Next, Sender

(* A sender gets -ENOMEM only after as many failed requests as the pool has
   frames: nothing but a failure takes a frame away for good. *)
THEOREM OnlyFailuresDrainThePool == Spec => []RefusedOnlyAfterFailures
<1>1. Init => PoolInv
  <2> SUFFICES ASSUME Init PROVE PoolInv
    OBVIOUS
  <2>1. Cardinality(free) \in Nat /\ free = Frames
    BY HwMsgBoxAssumption, FS_CardinalityType DEF Init
  <2>2. QED
    BY <2>1, HwMsgBoxAssumption DEF Init, PoolInv, RefusedOnlyAfterFailures
<1>2. PoolInv => RefusedOnlyAfterFailures
  BY DEF PoolInv
<1>3. QED
  BY <1>1, <1>2, PoolStep, PTL DEF Spec

-----------------------------------------------------------------------------
(* Sender and ARISC alternate until set_cpufreq, if no send times out.     *)

(* The requests the argument depends on, at their positions. *)
LEMMA RequestTable ==
  /\ Len(Requests) = 21 /\ Steps = 1..21
  /\ \A k \in 1..16 : Requests[k].attr = Hard
  /\ \A k \in 1..21 : (Requests[k].type = "AXP_DISABLE_IRQ") <=> (k = 8)
  /\ \A k \in 1..21 : (Requests[k].type = "AXP_ENABLE_IRQ") <=> (k = 9)
  /\ \A k \in 1..21 : (Requests[k].type = "CPUX_DVFS_REQ") <=> (k = 17)
<1>1. Len(Requests) = 21 /\ Steps = 1..21
  BY DEF Requests, Steps
<1> USE DEF Requests, Request, Hard, Asyn, DVFS, audio_start, audio_stop,
      audio_buffer_period, audio_read_time, audio_tdm, audio_add_period,
      disable_NMI, enable_NMI, axp_chip_id, led_bln, axp_pmu_ltf_htf,
      pmu_set_voltage, pmu_get_voltage, set_debug_level, set_uart_baudrate,
      set_cpufreq, message_loopback, enter_cpuidle, config_cpuidle,
      standby_super
<1>2. \A k \in 1..16 : Requests[k].attr = Hard
  OBVIOUS
<1>3. \A k \in 1..21 : (Requests[k].type = "AXP_DISABLE_IRQ") <=> (k = 8)
  OBVIOUS
<1>4. \A k \in 1..21 : (Requests[k].type = "AXP_ENABLE_IRQ") <=> (k = 9)
  OBVIOUS
<1>5. \A k \in 1..21 : (Requests[k].type = "CPUX_DVFS_REQ") <=> (k = 17)
  OBVIOUS
<1>6. QED
  BY <1>1, <1>2, <1>3, <1>4, <1>5

(* Where in the boot the two requests are. *)
LEMMA StepsAre == Step("AXP_ENABLE_IRQ") = 9 /\ Step("CPUX_DVFS_REQ") = 17
BY RequestTable DEF Step

(* Every request before set_cpufreq waits for its answer. *)
LEMMA EarlyIsHard ==
  ASSUME req \in 1..21, req < 17 PROVE Requests[req].attr = Hard
BY RequestTable

(* A frame comes into the box. *)
LEMMA AppendToBox ==
  ASSUME NEW f \in Frames, box \in Seq(Frames)
  PROVE  /\ Append(box, f) \in Seq(Frames)
         /\ box = <<>> => Append(box, f) = <<f>>
         /\ \A i \in DOMAIN Append(box, f) :
              \/ Append(box, f)[i] = f
              \/ i \in DOMAIN box /\ Append(box, f)[i] = box[i]
<1>1. Append(box, f) \in Seq(Frames)
  OBVIOUS
<1>2. box = <<>> => Append(box, f) = <<f>>
  OBVIOUS
<1>3. ASSUME NEW i \in DOMAIN Append(box, f), i \notin DOMAIN box
      PROVE  Append(box, f)[i] = f
  BY <1>3
<1>4. ASSUME NEW i \in DOMAIN Append(box, f), i \in DOMAIN box
      PROVE  Append(box, f)[i] = box[i]
  BY <1>4
<1>5. QED
  BY <1>1, <1>2, <1>3, <1>4

(* The first frame leaves it. *)
LEMMA TakeFromBox ==
  ASSUME box \in Seq(Frames), box # <<>>
  PROVE  /\ Head(box) \in Frames /\ Tail(box) \in Seq(Frames)
         /\ 1 \in DOMAIN box /\ Head(box) = box[1]
         /\ \A i \in DOMAIN Tail(box) :
              i + 1 \in DOMAIN box /\ Tail(box)[i] = box[i + 1]
         /\ \A f : box = <<f>> => Head(box) = f /\ Tail(box) = <<>>
<1>1. /\ Head(box) \in Frames /\ Tail(box) \in Seq(Frames)
      /\ 1 \in DOMAIN box /\ Head(box) = box[1]
  OBVIOUS
<1>2. \A i \in DOMAIN Tail(box) :
        i + 1 \in DOMAIN box /\ Tail(box)[i] = box[i + 1]
  OBVIOUS
<1>3. ASSUME NEW f, box = <<f>> PROVE Head(box) = f /\ Tail(box) = <<>>
  BY <1>3
<1>4. QED
  BY <1>1, <1>2, <1>3

(* What a frame carries changes when a request is written into it ... *)
LEMMA FillFrame ==
  ASSUME msg \in [Frames -> [of : 0..21, result : Results]],
         NEW f \in Frames, NEW k \in 0..21, msg' = [msg EXCEPT ![f].of = k]
  PROVE  /\ msg' \in [Frames -> [of : 0..21, result : Results]]
         /\ msg'[f].of = k
         /\ \A g \in Frames : g # f => msg'[g] = msg[g]
<1>1. msg' \in [Frames -> [of : 0..21, result : Results]]
  OBVIOUS
<1>2. msg'[f].of = k
  OBVIOUS
<1>3. \A g \in Frames : g # f => msg'[g] = msg[g]
  OBVIOUS
<1>4. QED
  BY <1>1, <1>2, <1>3

(* ... and not when the ARISC writes its result. *)
LEMMA AnswerFrame ==
  ASSUME msg \in [Frames -> [of : 0..21, result : Results]],
         NEW f \in Frames, NEW x \in Results,
         msg' = [msg EXCEPT ![f].result = x]
  PROVE  /\ msg' \in [Frames -> [of : 0..21, result : Results]]
         /\ msg'[f].result = x
         /\ \A g \in Frames : msg'[g].of = msg[g].of
<1>1. msg' \in [Frames -> [of : 0..21, result : Results]]
  OBVIOUS
<1>2. msg'[f].result = x
  OBVIOUS
<1>3. \A g \in Frames : msg'[g].of = msg[g].of
  OBVIOUS
<1>4. QED
  BY <1>1, <1>2, <1>3

(* The ARISC changes the NMI for requests 8 and 9 only. *)
LEMMA ServeNmi ==
  ASSUME NEW k \in 0..21, NEW result,
         nmi' = IF result # "ok" THEN nmi
                ELSE CASE Requests[k].type = "AXP_DISABLE_IRQ" -> "disabled"
                       [] Requests[k].type = "AXP_ENABLE_IRQ" -> "enabled"
                       [] OTHER -> nmi
  PROVE  /\ k = 9 /\ result = "ok" => nmi' = "enabled"
         /\ k > 9 => nmi' = nmi
<1>1. ASSUME k = 9, result = "ok" PROVE nmi' = "enabled"
  BY <1>1, RequestTable
<1>2. ASSUME k > 9 PROVE nmi' = nmi
  BY <1>2, RequestTable
<1>3. QED
  BY <1>1, <1>2

(* Giving up a request, for whatever reason, leaves the box as it was. *)
LEMMA LeaveRequest ==
  ASSUME req \in 1..21, req' = req + 1, served' = 0,
         pc' = (IF req = 21 THEN "done" ELSE "allocate"),
         UNCHANGED <<msg, box, answered, late>>,
         late = 0 => IF req < 17 THEN box = <<>> /\ answered = {}
                     ELSE \A i \in DOMAIN box : msg[box[i]].of >= 17
  PROVE  late' = 0 => IF req' < 17 THEN Alternate'
                      ELSE \A i \in DOMAIN box' : msg'[box'[i]].of >= 17
BY DEF Alternate

(* OnTimeInv at the start. *)
LEMMA StartOnTime == Init => OnTimeInv
<1> SUFFICES ASSUME Init PROVE OnTimeInv
  OBVIOUS
<1>1. /\ None \notin Frames
      /\ Len(Requests) = 21 /\ Steps = 1..21
      /\ Step("AXP_ENABLE_IRQ") = 9 /\ Step("CPUX_DVFS_REQ") = 17
  BY HwMsgBoxAssumption, RequestTable, StepsAre
<1>2. msg \in [Frames -> [of : Steps \cup {0}, result : Results]]
  BY DEF Init
<1>3. /\ pc = "allocate" /\ req = 1 /\ frame = None /\ free = Frames
      /\ box = <<>> /\ answered = {} /\ served = 0 /\ late = 0
      /\ enabled = FALSE /\ nmi = "enabled"
  BY DEF Init
<1>4. Alternate
  BY <1>3 DEF Alternate
<1>5. box \in Seq(Frames) /\ frame \in Frames \cup {None} /\ free \subseteq Frames
  BY <1>3
<1>6. /\ req \in 1..(Len(Requests) + 1) /\ late \in Nat
      /\ (req = Len(Requests) + 1) <=> (pc = "done")
  BY <1>1, <1>3
<1>7. req < Step("CPUX_DVFS_REQ")
  BY <1>1, <1>3
<1>8. (frame = None) <=> (pc \in {"allocate", "done"})
  BY <1>3
<1>9. QED
  BY <1>2, <1>3, <1>4, <1>5, <1>6, <1>7, <1>8 DEF OnTimeInv, NmiRestored

(* The frame of the current request carries it; what the ARISC serves of the
   box before set_cpufreq is therefore the current request. *)
LEMMA OnTimeStep == OnTimeInv /\ [Next]_vars => OnTimeInv'
<1> SUFFICES ASSUME OnTimeInv, [Next]_vars PROVE OnTimeInv'
  OBVIOUS
<1> DEFINE Early == req < 17
           Queued == \A i \in DOMAIN box : msg[box[i]].of >= 17
<1>0. /\ None \notin Frames /\ MaxLate \in Nat
      /\ Len(Requests) = 21 /\ Steps = 1..21
      /\ Step("AXP_ENABLE_IRQ") = 9 /\ Step("CPUX_DVFS_REQ") = 17
  BY HwMsgBoxAssumption, RequestTable, StepsAre
<1>a. /\ req \in 1..22 /\ frame \in Frames \cup {None}
      /\ msg \in [Frames -> [of : 0..21, result : Results]]
      /\ free \subseteq Frames /\ box \in Seq(Frames) /\ late \in Nat
      /\ pc \in {"allocate", "send", "wait", "check", "done"}
      /\ (req = 22) <=> (pc = "done")
      /\ (frame = None) <=> (pc \in {"allocate", "done"})
      /\ frame # None => msg[frame].of = req
      /\ enabled \in BOOLEAN /\ (enabled => req > 9)
      /\ enabled /\ late = 0 => nmi = "enabled"
      /\ late = 0 => IF Early THEN Alternate ELSE Queued
  BY <1>0 DEF OnTimeInv, NmiRestored
<1>b. SUFFICES
      /\ req' \in 1..22 /\ frame' \in Frames \cup {None}
      /\ msg' \in [Frames -> [of : 0..21, result : Results]]
      /\ free' \subseteq Frames /\ box' \in Seq(Frames) /\ late' \in Nat
      /\ pc' \in {"allocate", "send", "wait", "check", "done"}
      /\ (req' = 22) <=> (pc' = "done")
      /\ (frame' = None) <=> (pc' \in {"allocate", "done"})
      /\ frame' # None => msg'[frame'].of = req'
      /\ enabled' \in BOOLEAN /\ (enabled' => req' > 9)
      /\ enabled' /\ late' = 0 => nmi' = "enabled"
      /\ late' = 0 => IF Early' THEN Alternate' ELSE Queued'
  BY <1>0 DEF OnTimeInv, NmiRestored
<1>1. CASE Allocate
  <2>1. PICK f \in free : /\ frame' = f /\ free' = free \ {f}
                          /\ msg' = [msg EXCEPT ![f].of = req]
    BY <1>1 DEF Allocate
  <2>2. /\ req \in 1..21 /\ f \in Frames /\ pc = "allocate" /\ pc' = "send"
        /\ UNCHANGED <<req, box, late, enabled, answered, served, nmi>>
    BY <1>a, <1>1, <2>1 DEF Allocate, arisc
  <2>3. /\ msg' \in [Frames -> [of : 0..21, result : Results]]
        /\ msg'[f].of = req
        /\ \A g \in Frames : g # f => msg'[g] = msg[g]
    <3>1. req \in 0..21 /\ msg \in [Frames -> [of : 0..21, result : Results]]
      BY <1>a, <2>2
    <3>2. f \in Frames /\ msg' = [msg EXCEPT ![f].of = req]
      BY <2>1, <2>2
    <3>3. QED
      BY <3>1, <3>2, FillFrame
  <2>4. ASSUME late = 0, ~Early, NEW i \in DOMAIN box
        PROVE  msg'[box[i]].of >= 17
    <3>1. box[i] \in Frames
      BY <1>a
    <3>2. CASE box[i] = f
      BY <2>2, <2>3, <2>4, <3>2
    <3>3. CASE box[i] # f
      BY <1>a, <2>3, <2>4, <3>1, <3>3
    <3>4. QED
      BY <3>2, <3>3
  <2>5. late = 0 /\ Early => Alternate'
    BY <1>a, <2>2 DEF Alternate
  <2>6. late' = 0 => IF Early' THEN Alternate' ELSE Queued'
    BY <2>2, <2>4, <2>5
  <2>7. QED
    BY <1>0, <1>a, <2>1, <2>2, <2>3, <2>6
<1>2. CASE NoMemory
  <2>1. /\ pc = "allocate" /\ req \in 1..21 /\ req' = req + 1 /\ frame' = None
        /\ UNCHANGED <<msg, free, box, answered, enabled, late, nmi>>
        /\ served' = 0 /\ pc' = IF req = 21 THEN "done" ELSE "allocate"
    BY <1>0, <1>a, <1>2 DEF NoMemory, NextRequest, Leave
  <2>2. late = 0 /\ Early => box = <<>> /\ answered = {}
    BY <1>a, <2>1 DEF Alternate
  <2>3. QED
    BY <1>a, <2>1, <2>2, LeaveRequest
<1>3. CASE Send
  <2>1. /\ req \in 1..21 /\ frame \in Frames /\ box' = Append(box, frame)
        /\ pc = "send"
        /\ pc' = IF Requests[req].attr = Hard THEN "wait" ELSE "check"
        /\ UNCHANGED <<req, frame, msg, free, late, enabled, answered, served, nmi>>
    BY <1>a, <1>3 DEF Send, arisc
  <2>2. late = 0 /\ Early => Alternate'
    <3> SUFFICES ASSUME late = 0, Early PROVE Alternate'
      OBVIOUS
    <3>1. box = <<>> /\ answered = {} /\ served = 0
      BY <1>a, <2>1 DEF Alternate
    <3>2. pc' = "wait"
      <4>1. req \in 1..21 /\ req < 17
        BY <2>1
      <4>2. Requests[req].attr = Hard
        BY <4>1, EarlyIsHard
      <4>3. QED
        BY <2>1, <4>2
    <3>3. box' = <<frame'>>
      BY <1>a, <2>1, <3>1, AppendToBox
    <3>4. QED
      BY <2>1, <3>1, <3>2, <3>3 DEF Alternate
  <2>3. ASSUME late = 0, ~Early, NEW i \in DOMAIN box'
        PROVE  msg'[box'[i]].of >= 17
    <3>1. msg[frame].of = req /\ frame # None
      BY <1>0, <1>a, <2>1
    <3>2. CASE box'[i] = frame
      BY <2>1, <2>3, <3>1, <3>2
    <3>3. CASE i \in DOMAIN box /\ box'[i] = box[i]
      BY <1>a, <2>1, <2>3, <3>3
    <3>4. QED
      BY <1>a, <2>1, <3>2, <3>3, AppendToBox
  <2>4. box' \in Seq(Frames)
    BY <1>a, <2>1, AppendToBox
  <2>5. late' = 0 => IF Early' THEN Alternate' ELSE Queued'
    BY <2>1, <2>2, <2>3
  <2>6. QED
    BY <1>0, <1>a, <2>1, <2>4, <2>5
<1>4. CASE Answered
  <2>1. /\ pc = "wait" /\ frame \in answered /\ answered' = answered \ {frame}
        /\ pc' = "check"
        /\ UNCHANGED <<req, frame, msg, free, box, served, late, enabled, nmi>>
    BY <1>4 DEF Answered
  <2>2. late = 0 /\ Early => Alternate'
    BY <1>a, <2>1 DEF Alternate, NmiAnswered
  <2>3. late' = 0 => IF Early' THEN Alternate' ELSE Queued'
    BY <1>a, <2>1, <2>2
  <2>4. QED
    BY <1>a, <2>1, <2>3
<1>5. CASE TimedOut
  <2>1. /\ pc = "wait" /\ pc' = "check" /\ late' = late + 1
        /\ UNCHANGED <<req, frame, msg, free, box, enabled, nmi>>
    BY <1>5 DEF TimedOut, arisc
  <2>2. QED
    BY <1>a, <2>1
<1>6. CASE Fail
  <2>1. /\ pc = "check" /\ req \in 1..21 /\ req' = req + 1 /\ frame' = None
        /\ served' = 0 /\ pc' = IF req = 21 THEN "done" ELSE "allocate"
        /\ UNCHANGED <<msg, free, box, answered, late, enabled, nmi>>
    BY <1>0, <1>a, <1>6 DEF Fail, NextRequest, Leave
  <2>2. late = 0 /\ Early => box = <<>> /\ answered = {}
    BY <1>a, <2>1 DEF Alternate
  <2>3. QED
    BY <1>a, <2>1, <2>2, LeaveRequest
<1>7. CASE Free
  <2>1. /\ pc = "check" /\ req \in 1..21 /\ req' = req + 1 /\ frame' = None
        /\ frame \in Frames /\ msg[frame].result = "ok"
        /\ served' = 0 /\ pc' = IF req = 21 THEN "done" ELSE "allocate"
        /\ free' = free \cup {frame}
        /\ enabled' = (enabled \/ req = 9)
        /\ UNCHANGED <<msg, box, answered, late, nmi>>
    BY <1>0, <1>a, <1>7 DEF Free, NextRequest, Leave
  <2>2. late = 0 /\ Early =>
          box = <<>> /\ answered = {} /\ (req = 9 => nmi = "enabled")
    BY <1>0, <1>a, <2>1 DEF Alternate, NmiAnswered
  <2>3. late' = 0 => IF Early' THEN Alternate' ELSE Queued'
    BY <1>a, <2>1, <2>2, LeaveRequest
  <2>4. enabled' \in BOOLEAN /\ (enabled' => req' > 9)
    BY <1>a, <2>1
  <2>5. enabled' /\ late' = 0 => nmi' = "enabled"
    <3>1. req = 9 => Early
      OBVIOUS
    <3>2. QED
      BY <1>a, <2>1, <2>2, <3>1
  <2>6. QED
    <3>1. /\ req' \in 1..22 /\ pc' \in {"allocate", "done"} /\ frame' = None
          /\ (req' = 22) <=> (pc' = "done")
      BY <2>1
    <3>2. free' \subseteq Frames /\ UNCHANGED <<msg, box, late>>
      BY <1>a, <2>1
    <3>3. QED
      BY <1>a, <2>3, <2>4, <2>5, <3>1, <3>2
<1>8. CASE Serve
  <2> DEFINE f == Head(box)
             r == Requests[msg[f].of]
  <2>1. PICK result \in Results :
          /\ msg' = [msg EXCEPT ![f].result = result]
          /\ served' = IF msg[f].of = req THEN served + 1 ELSE served
          /\ answered' = IF r.attr = Hard THEN answered \cup {f} ELSE answered
          /\ nmi' = IF result # "ok" THEN nmi
                    ELSE CASE r.type = "AXP_DISABLE_IRQ" -> "disabled"
                           [] r.type = "AXP_ENABLE_IRQ" -> "enabled"
                           [] OTHER -> nmi
    BY <1>8 DEF Serve
  <2>2. /\ box # <<>> /\ pc # "done" /\ box' = Tail(box)
        /\ UNCHANGED <<pc, req, frame, free, late, enabled>>
    BY <1>8 DEF Serve
  <2>3. f \in Frames /\ box' \in Seq(Frames) /\ req \in 1..21
    BY <1>a, <2>2, TakeFromBox
  <2> HIDE DEF f
  <2>4. /\ msg' \in [Frames -> [of : 0..21, result : Results]]
        /\ msg'[f].result = result
        /\ \A g \in Frames : msg'[g].of = msg[g].of
    BY <1>a, <2>1, <2>3, AnswerFrame
  <2>5. msg[f].of \in 0..21
    BY <1>a, <2>3
  <2>6. /\ msg[f].of = 9 /\ result = "ok" => nmi' = "enabled"
        /\ msg[f].of > 9 => nmi' = nmi
    BY <2>1, <2>5, ServeNmi
  <2>7. ASSUME late = 0, Early
        PROVE  Alternate' /\ (enabled => nmi' = "enabled")
    <3>1. /\ pc = "wait" /\ box = <<frame>> /\ answered = {} /\ served = 0
          /\ frame \in Frames
      BY <1>0, <1>a, <2>2, <2>7 DEF Alternate
    <3>2. f = frame /\ box' = <<>> /\ msg[f].of = req
      BY <1>a, <2>2, <3>1, TakeFromBox DEF f
    <3>3. Requests[req].attr = Hard
      BY <2>3, <2>7, EarlyIsHard
    <3>4. answered' = {frame} /\ served' = 1
      BY <2>1, <3>1, <3>2, <3>3
    <3>5. NmiAnswered'
      BY <1>0, <2>2, <2>4, <2>6, <3>2 DEF NmiAnswered
    <3>6. Alternate'
      BY <2>2, <3>1, <3>2, <3>4, <3>5 DEF Alternate
    <3>7. QED
      BY <1>a, <2>6, <2>7, <3>2, <3>6
  <2>8. ASSUME late = 0, ~Early
        PROVE  Queued' /\ (enabled => nmi' = "enabled")
    <3>1. msg[f].of >= 17
      BY <1>a, <2>2, <2>8, TakeFromBox DEF f
    <3>2. ASSUME NEW i \in DOMAIN Tail(box)
          PROVE  msg'[Tail(box)[i]].of >= 17
      <4>1. i + 1 \in DOMAIN box /\ Tail(box)[i] = box[i + 1]
        BY <1>a, <2>2, TakeFromBox
      <4>2. box[i + 1] \in Frames
        BY <1>a, <4>1
      <4>3. QED
        BY <1>a, <2>4, <2>8, <4>1, <4>2
    <3>3. Queued'
      BY <2>2, <3>2
    <3>4. nmi' = nmi
      BY <2>5, <2>6, <3>1
    <3>5. QED
      BY <1>a, <2>8, <3>3, <3>4
  <2>9. frame' # None => msg'[frame'].of = req'
    BY <1>0, <1>a, <2>2, <2>4
  <2>10. late' = 0 => IF Early' THEN Alternate' ELSE Queued'
    BY <2>2, <2>7, <2>8
  <2>11. enabled' /\ late' = 0 => nmi' = "enabled"
    BY <2>2, <2>7, <2>8
  <2>12. QED
    BY <1>a, <2>2, <2>3, <2>4, <2>9, <2>10, <2>11
<1>9. CASE UNCHANGED vars
  <2>1. UNCHANGED <<pc, req, frame, msg, free, box, answered, served, late,
                    enabled, nmi>>
    BY <1>9 DEF vars
  <2>2. late = 0 => IF Early' THEN Alternate' ELSE Queued'
    BY <1>a, <2>1 DEF Alternate, NmiAnswered
  <2>3. QED
    BY <1>a, <2>1, <2>2
<1>10. QED
  BY <1>1, <1>2, <1>3, <1>4, <1>5, <1>6, <1>7, <1>8, <1>9 DEF Next, Sender

(* When enable_NMI has reported success the NMI is on, as long as no send has
   timed out. *)
THEOREM NmiIsRestored == Spec => []NmiRestored
<1>1. Init => OnTimeInv
  BY StartOnTime
<1>2. OnTimeInv => NmiRestored
  BY DEF OnTimeInv
<1>3. QED
  BY <1>1, <1>2, OnTimeStep, PTL DEF Spec

(* Until set_cpufreq, a sender that finds "ok" in its frame had its request
   served once, as long as no send has timed out. *)
THEOREM SuccessIsServed == Spec => []SuccessMeansServed
<1>1. Init => OnTimeInv
  BY StartOnTime
<1>2. OnTimeInv => SuccessMeansServed
  BY DEF OnTimeInv, SuccessMeansServed, Alternate
<1>3. QED
  BY <1>1, <1>2, OnTimeStep, PTL DEF Spec
=============================================================================
