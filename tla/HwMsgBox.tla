------------------------------ MODULE HwMsgBox ------------------------------
(***************************************************************************)
(* soc/sunxi/arisc/hardmsgbox/demo_hwmessagebox.c: at boot the main CPU     *)
(* sends the ARISC coprocessor 21 requests through the hardware message    *)
(* box, one after the other.                                               *)
(*                                                                         *)
(* A request is a message frame from a shared pool.  The box carries       *)
(* references, so the ARISC reads a frame when it serves it, and writes    *)
(* the result into it.  The pool, the box and the ARISC are outside the    *)
(* repository and modelled from how the senders use them: a frame with the *)
(* attribute HARDSYN is waited for until ARISC_SEND_MSG_TIMEOUT, any other *)
(* is sent and forgotten.                                                  *)
(***************************************************************************)
EXTENDS Naturals, Sequences, FiniteSets, TLC

CONSTANTS
  Frames, None,
  MaxLate       \* bound: sends that give up before the ARISC has answered

ASSUME HwMsgBoxAssumption ==
  /\ IsFiniteSet(Frames) /\ None \notin Frames
  /\ MaxLate \in Nat

-----------------------------------------------------------------------------
(* The requests: a type, an attribute, and the parameters that are written *)

Hard == "HARDSYN"
Asyn == "ASYN"
NoParas == << >>
Request(type, attr, paras) == [type |-> type, attr |-> attr, paras |-> paras]

DVFS == Request("CPUX_DVFS_CFG_VF_REQ", Hard,
                0 :> "cpu" @@ 1 :> "freq" @@ 2 :> "volt" @@ 3 :> "axp")
audio_start == Request("AUDIO_START", Hard, 0 :> "mode")
audio_stop == Request("AUDIO_STOP", Hard, 0 :> "mode")
audio_buffer_period == Request("AUDIO_SET_BUF_PER_PARAS", Hard,
                0 :> "mode" @@ 1 :> "sram" @@ 2 :> "size" @@ 3 :> "period")
audio_read_time == Request("AUDIO_GET_POSITION", Hard, 0 :> "mode")
audio_tdm == Request("AUDIO_SET_TDM_PARAS", Hard,
                0 :> "mode" @@ 1 :> "samplerate" @@ 2 :> "channum")
(* it is meant to add a period, but has the type of audio_tdm *)
audio_add_period == Request("AUDIO_SET_TDM_PARAS", Hard,
                0 :> "mode" @@ 1 :> "address")
disable_NMI == Request("AXP_DISABLE_IRQ", Hard, NoParas)
enable_NMI == Request("AXP_ENABLE_IRQ", Hard, NoParas)
axp_chip_id == Request("AXP_GET_CHIP_ID", Hard,
                0 :> "zero" @@ 1 :> "zero" @@ 2 :> "zero" @@ 3 :> "zero")
led_bln == Request("SET_LED_BLN", Hard,
                0 :> "rgb" @@ 1 :> "onms" @@ 2 :> "offms" @@ 3 :> "darkms")
axp_pmu_ltf_htf == Request("AXP_SET_PARAS", Hard,
                0 :> "ltf" @@ 1 :> "htf" @@ 2 :> "zero")
pmu_set_voltage == Request("SET_PMU_VOLT", Hard, 0 :> "type" @@ 1 :> "voltage")
pmu_get_voltage == Request("GET_PMU_VOLT", Hard, 0 :> "type")
set_debug_level == Request("SET_DEBUG_LEVEL", Hard, 0 :> "level")
set_uart_baudrate == Request("SET_UART_BAUDRATE", Hard, 0 :> "baudrate")
(* mode is 0; freq and pll are never set *)
set_cpufreq == Request("CPUX_DVFS_REQ", Asyn,
                0 :> "undefined" @@ 1 :> "undefined")
message_loopback == Request("MESSAGE_LOOPBACK", Hard, 0 :> "11")
(* paras[0] is written twice, so the flags are lost in the next two *)
enter_cpuidle == Request("CPUIDLE_ENTER_REQ", Hard, 0 :> "mpidr")
config_cpuidle == Request("CPUIDLE_CFG_REQ", Asyn, 0 :> "mpidr")
standby_super == Request("SSTANDBY_ENTER_REQ", Asyn, NoParas)

(* Mutant: the NMI is enabled before it is disabled *)
RequestsSwapped == <<DVFS, audio_start, audio_stop, audio_buffer_period,
  audio_read_time, audio_tdm, audio_add_period, enable_NMI, disable_NMI,
  axp_chip_id, led_bln, axp_pmu_ltf_htf, pmu_set_voltage, pmu_get_voltage,
  set_debug_level, set_uart_baudrate, set_cpufreq, message_loopback,
  enter_cpuidle, config_cpuidle, standby_super>>

Requests == <<DVFS, audio_start, audio_stop, audio_buffer_period,
  audio_read_time, audio_tdm, audio_add_period, disable_NMI, enable_NMI,
  axp_chip_id, led_bln, axp_pmu_ltf_htf, pmu_set_voltage, pmu_get_voltage,
  set_debug_level, set_uart_baudrate, set_cpufreq, message_loopback,
  enter_cpuidle, config_cpuidle, standby_super>>

Steps == DOMAIN Requests
Step(type) == CHOOSE k \in Steps : Requests[k].type = type

-----------------------------------------------------------------------------
VARIABLES
  pc,        \* where the current sender is
  req,       \* its position in demo_arisc_hwmessagebox_init
  frame,     \* its pmessage
  msg,       \* the contents of the frames
  free,      \* the pool
  box,       \* frames sent and not served yet
  answered,  \* HARDSYN frames the ARISC has answered
  served,    \* how often the ARISC has served the current request
  refused,   \* whether a request has got -ENOMEM
  failed,    \* the number of requests that got -EINVAL
  late,      \* the number of requests whose send timed out
  enabled,   \* whether enable_NMI has reported success
  nmi, tdm   \* settings of the ARISC

vars == <<pc, req, frame, msg, free, box, answered, served, refused, failed,
          late, enabled, nmi, tdm>>
arisc == <<answered, served, nmi, tdm>>

Results == {"ok", "error"}

(* what an earlier user has left in the pool is not known *)
Init ==
  /\ pc = "allocate" /\ req = 1 /\ frame = None
  /\ msg \in [Frames -> [of : {0}, result : Results]]
  /\ free = Frames
  /\ box = <<>> /\ answered = {}
  /\ served = 0 /\ refused = FALSE /\ failed = 0 /\ late = 0
  /\ enabled = FALSE
  /\ nmi = "enabled" /\ tdm = "none"

Leave == pc' = IF req = Len(Requests) THEN "done" ELSE "allocate"
NextRequest == Leave /\ req' = req + 1 /\ frame' = None /\ served' = 0

(* arisc_message_allocate, and the assignments that fill the frame *)
Allocate ==
  /\ pc = "allocate"
  /\ \E f \in free :
       /\ frame' = f /\ free' = free \ {f}
       /\ msg' = [msg EXCEPT ![f].of = req]
  /\ pc' = "send"
  /\ UNCHANGED <<req, box, refused, failed, late, enabled, arisc>>

(* Mutant: the sender waits for a free frame *)
NoMemoryWaits ==
  /\ pc = "allocate" /\ free = {}
  /\ UNCHANGED vars

(* the caller ignores -ENOMEM *)
NoMemory ==
  /\ pc = "allocate" /\ free = {}
  /\ refused' = TRUE
  /\ NextRequest
  /\ UNCHANGED <<msg, free, box, answered, failed, late, enabled, nmi, tdm>>

(* Mutant: no request is waited for *)
SendForgets ==
  /\ pc = "send"
  /\ box' = Append(box, frame)
  /\ pc' = "check"
  /\ UNCHANGED <<req, frame, msg, free, refused, failed, late, enabled, arisc>>

(* arisc_hwmsgbox_send_message *)
Send ==
  /\ pc = "send"
  /\ box' = Append(box, frame)
  /\ pc' = IF Requests[req].attr = Hard THEN "wait" ELSE "check"
  /\ UNCHANGED <<req, frame, msg, free, refused, failed, late, enabled, arisc>>

Answered ==
  /\ pc = "wait" /\ frame \in answered
  /\ answered' = answered \ {frame}
  /\ pc' = "check"
  /\ UNCHANGED <<req, frame, msg, free, box, served, refused, failed, late,
                 enabled, nmi, tdm>>

(* the caller ignores the error and reads the result it finds              *)
TimedOut ==
  /\ pc = "wait" /\ late < MaxLate
  /\ late' = late + 1
  /\ pc' = "check"
  /\ UNCHANGED <<req, frame, msg, free, box, refused, failed, enabled, arisc>>

(* -EINVAL, and the frame is never freed *)
Fail ==
  /\ pc = "check" /\ msg[frame].result = "error"
  /\ failed' = failed + 1
  /\ NextRequest
  /\ UNCHANGED <<msg, free, box, answered, refused, late, enabled, nmi, tdm>>

(* Mutant: the frame is not freed on success either *)
FreeForgets ==
  /\ pc = "check" /\ msg[frame].result = "ok"
  /\ enabled' = (enabled \/ req = Step("AXP_ENABLE_IRQ"))
  /\ NextRequest
  /\ UNCHANGED <<msg, free, box, answered, refused, failed, late, nmi, tdm>>

Free ==
  /\ pc = "check" /\ msg[frame].result = "ok"
  /\ free' = free \cup {frame}
  /\ enabled' = (enabled \/ req = Step("AXP_ENABLE_IRQ"))
  /\ NextRequest
  /\ UNCHANGED <<msg, box, answered, refused, failed, late, nmi, tdm>>

(* the ARISC serves the next frame of the box, as it is now *)
Serve ==
  /\ box # <<>> /\ pc # "done"
  /\ LET f == Head(box)
         m == msg[f]
         r == Requests[m.of]
     IN \E result \in Results :
          /\ msg' = [msg EXCEPT ![f].result = result]
          /\ served' = IF m.of = req THEN served + 1 ELSE served
          /\ answered' = IF r.attr = Hard THEN answered \cup {f} ELSE answered
          /\ nmi' = IF result # "ok" THEN nmi
                    ELSE CASE r.type = "AXP_DISABLE_IRQ" -> "disabled"
                           [] r.type = "AXP_ENABLE_IRQ" -> "enabled"
                           [] OTHER -> nmi
          /\ tdm' = IF result = "ok" /\ r.type = "AUDIO_SET_TDM_PARAS"
                    THEN r.paras[1] ELSE tdm
  /\ box' = Tail(box)
  /\ UNCHANGED <<pc, req, frame, free, refused, failed, late, enabled>>

Sender == Allocate \/ NoMemory \/ Send \/ Answered \/ TimedOut \/ Fail \/ Free
Next == Sender \/ Serve

Spec == Init /\ [][Next]_vars

(* the boot thread runs, and the ARISC serves what is in the box *)
FairSpec == Spec /\ WF_vars(Sender) /\ WF_vars(Serve)

-----------------------------------------------------------------------------
(* Types of the variables                                                  *)
TypeOK ==
  /\ pc \in {"allocate", "send", "wait", "check", "done"}
  /\ req \in 1..(Len(Requests) + 1)
  /\ frame \in Frames \cup {None}
  /\ (frame = None) <=> (pc \in {"allocate", "done"})
  /\ msg \in [Frames -> [of : Steps \cup {0}, result : Results]]
  /\ free \subseteq Frames /\ frame \notin free
  /\ box \in Seq(Frames)
  /\ answered \subseteq Frames
  /\ served \in Nat /\ failed \in 0..Cardinality(Frames) /\ late \in 0..MaxLate
  /\ refused \in BOOLEAN /\ enabled \in BOOLEAN
  /\ nmi \in {"enabled", "disabled"}
  /\ tdm \in {"none", "samplerate", "address"}

(* A sender gets -ENOMEM only when each frame of the pool was lost in a    *)
(* request of its own that failed: a request that succeeds gives its frame *)
(* back, however often the ARISC has served it and however late.           *)
RefusedOnlyAfterFailures == refused => failed = Cardinality(Frames)

(* The frames of the pool, the one in the hands of the sender and the lost *)
(* ones are all the frames there are.                                      *)
PoolInv ==
  /\ frame \in Frames \cup {None}
  /\ (frame = None) <=> (pc \in {"allocate", "done"})
  /\ free \subseteq Frames /\ frame \notin free
  /\ failed \in Nat
  /\ Cardinality(free) + failed + (IF frame = None THEN 0 ELSE 1)
       = Cardinality(Frames)
  /\ RefusedOnlyAfterFailures

(* When enable_NMI has reported success the NMI is on, whatever requests   *)
(* failed or were refused before it and whatever is served after it, as    *)
(* long as no send has timed out: a request that is served late may find   *)
(* its frame in the hands of another.                                      *)
NmiRestored == enabled /\ late = 0 => nmi = "enabled"

(* A waiting sender that reports success had its own request served, and   *)
(* once only, again if no send has timed out.  From set_cpufreq on it need *)
(* not: that frame is freed while it is in the box, and the next user of   *)
(* it may take the answer to it.                                           *)
SuccessMeansServed ==
  (/\ pc = "check" /\ msg[frame].result = "ok"
   /\ late = 0 /\ req < Step("CPUX_DVFS_REQ"))
    => served = 1

(* What makes the two inductive.  Until set_cpufreq every request is        *)
(* waited for, so without timeouts sender and ARISC alternate: the box      *)
(* holds the frame of the current request or nothing.  From set_cpufreq on  *)
(* the box may hold a frame that is free or in use again, but then the      *)
(* frame carries a request that came no earlier.                            *)
NmiAnswered ==
  req = Step("AXP_ENABLE_IRQ") /\ msg[frame].result = "ok" => nmi = "enabled"

Alternate ==
  /\ pc \in {"allocate", "send"} => box = <<>> /\ answered = {} /\ served = 0
  /\ pc = "wait" =>
       \/ box = <<frame>> /\ answered = {} /\ served = 0
       \/ box = <<>> /\ answered = {frame} /\ served = 1 /\ NmiAnswered
  /\ pc = "check" => box = <<>> /\ answered = {} /\ served = 1 /\ NmiAnswered

OnTimeInv ==
  /\ pc \in {"allocate", "send", "wait", "check", "done"}
  /\ req \in 1..(Len(Requests) + 1)
  /\ (req = Len(Requests) + 1) <=> (pc = "done")
  /\ frame \in Frames \cup {None}
  /\ (frame = None) <=> (pc \in {"allocate", "done"})
  /\ msg \in [Frames -> [of : Steps \cup {0}, result : Results]]
  /\ free \subseteq Frames
  /\ box \in Seq(Frames)
  /\ frame # None => msg[frame].of = req
  /\ late \in Nat
  /\ enabled \in BOOLEAN /\ (enabled => req > Step("AXP_ENABLE_IRQ"))
  /\ late = 0 =>
       IF req < Step("CPUX_DVFS_REQ")
       THEN Alternate
       ELSE \A i \in DOMAIN box : msg[box[i]].of >= Step("CPUX_DVFS_REQ")
  /\ NmiRestored

(* The late initcall returns, and with it the boot: senders never wait for *)
(* a frame, and every request they wait for is answered or given up.       *)
BootCompletes == <>(pc = "done")

(* demo_hwmessagebox.c:312 says the request is to "add audio period": it   *)
(* leaves the TDM parameters that audio_tdm has set alone.                 *)
TdmKept == tdm \in {"none", "samplerate"}
=============================================================================
