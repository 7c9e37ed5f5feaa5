----------------------------- MODULE CanDriver -----------------------------
(***************************************************************************)
(* The driver of Mcp251x with the registers of CanFrame: what the chip has *)
(* sent, whatever order the threads ran in, is what the stack handed over. *)
(***************************************************************************)
EXTENDS Mcp251x, CanFrame

(* A frame that the chip has sent, whatever is in it, is read by another    *)
(* driver as it was handed to this one.                                     *)
SentFrameArrives == chip.sent # None => FramesSurvive

(* A chip that takes part in the traffic uses the bit timing that the CAN   *)
(* core has calculated.                                                     *)
OnTime == chip.mode = "normal" => TimingFits
=============================================================================
