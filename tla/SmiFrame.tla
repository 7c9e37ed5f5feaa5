------------------------------ MODULE SmiFrame ------------------------------
(***************************************************************************)
(* bus/smi/arduino/sketch_mar28b/sketch_mar28b.ino: read_smi and write_smi *)
(* make a Clause 22 frame on MDC and MDIO out of digitalWrite calls.  One  *)
(* step is one call of pulse_mdc, with the level that MDIO has been given  *)
(* before it and, when data is read, the digitalRead before it.            *)
(*                                                                         *)
(* The devices at the other end are external: a decoder samples MDIO at    *)
(* each rising edge, takes a frame that follows a preamble and answers a   *)
(* read after the turn around.  MDIO is pulled up.                         *)
(***************************************************************************)
EXTENDS Naturals, Sequences

CONSTANTS
  Preamble,                    \* pulses before a frame: 32 in the code
  AddrBits, RegBits, DataBits, \* 5, 5 and 16 in the code
  Registers                    \* <<addr, reg>> of the registers there are

Bit == {0, 1}
Addr == [1..AddrBits -> Bit]
Reg == [1..RegBits -> Bit]
Word == [1..DataBits -> Bit]

ASSUME SmiFrameAssumption ==
  /\ Preamble \in Nat \ {0}
  /\ AddrBits \in Nat \ {0} /\ RegBits \in Nat \ {0} /\ DataBits \in Nat \ {0}
  /\ Registers \subseteq Addr \X Reg

Ones == [i \in 1..DataBits |-> 1]

Frames == [op : {"read", "write"}, at : Addr \X Reg, word : Word]

-----------------------------------------------------------------------------
(* The parts of a frame, by the number of pulses given                     *)

HeaderBits == 4 + AddrBits + RegBits
HeaderEnd == Preamble + HeaderBits
TurnEnd == HeaderEnd + 2
DataEnd == TurnEnd + DataBits
Pulses == DataEnd + 1          \* "this is needed for some reason..."

(* Mutant: the address is sent with its least significant bit first *)
HeaderReversed(f) ==
  [k \in 1..HeaderBits |->
     CASE k = 1 -> 0
       [] k = 2 -> 1
       [] k = 3 -> IF f.op = "read" THEN 1 ELSE 0
       [] k = 4 -> IF f.op = "read" THEN 0 ELSE 1
       [] k > 4 /\ k <= 4 + AddrBits -> f.at[1][AddrBits + 5 - k]
       [] k > 4 + AddrBits -> f.at[2][k - 4 - AddrBits]]

(* start code 01, operation code 10 or 01, and the two addresses, each     *)
(* with the most significant bit first                                     *)
Header(f) ==
  [k \in 1..HeaderBits |->
     CASE k = 1 -> 0
       [] k = 2 -> 1
       [] k = 3 -> IF f.op = "read" THEN 1 ELSE 0
       [] k = 4 -> IF f.op = "read" THEN 0 ELSE 1
       [] k > 4 /\ k <= 4 + AddrBits -> f.at[1][k - 4]
       [] k > 4 + AddrBits -> f.at[2][k - 4 - AddrBits]]

VARIABLES
  frame,     \* arguments of the read_smi or write_smi that runs
  busy,      \* whether one runs
  pos,       \* how many pulses it has given
  got,       \* data it has read so far, most significant bit first
  result,    \* what the last read_smi has returned
  ones,      \* decoder: length of the preamble so far
  heard,     \* decoder: bits of the frame so far
  out,       \* decoder: the word it answers with
  regs       \* the registers of the devices

master == <<frame, busy, pos, got, result>>
decoder == <<ones, heard, out>>
vars == <<master, decoder, regs>>

Init ==
  /\ frame = [op |-> "read", word |-> Ones,
              at |-> <<[i \in 1..AddrBits |-> 0], [i \in 1..RegBits |-> 0]>>]
  /\ busy = FALSE /\ pos = 0 /\ got = <<>> /\ result = Ones
  /\ ones = 0 /\ heard = <<>> /\ out = Ones
  /\ regs \in [Registers -> Word]

-----------------------------------------------------------------------------
(* Who drives MDIO, and to what level, at the next pulse                   *)

(* Mutant: the pin is made an input only after the first bit of data *)
MasterDrivesLate == busy /\ (frame.op = "write" \/ pos <= TurnEnd)

(* the pin is an output, but for the turn around and the data of a read *)
MasterDrives == busy /\ (frame.op = "write" \/ pos < HeaderEnd)

MasterLevel ==
  CASE pos < Preamble -> 1
    [] Preamble <= pos /\ pos < HeaderEnd -> Header(frame)[pos - Preamble + 1]
    [] pos = HeaderEnd -> 1
    [] pos = HeaderEnd + 1 -> 0
    [] TurnEnd <= pos /\ pos < DataEnd -> frame.word[pos - TurnEnd + 1]
    [] OTHER -> frame.word[DataBits]

Reading == heard # <<>> /\ Len(heard) >= 4 /\ heard[3] = 1 /\ heard[4] = 0
DecoderDrives == Reading /\ Len(heard) >= HeaderBits + 2

Level == IF MasterDrives THEN MasterLevel
         ELSE IF DecoderDrives THEN out[Len(heard) - HeaderBits - 1]
         ELSE 1

(* The decoder at a rising edge                                            *)
At(h) == << [i \in 1..AddrBits |-> h[4 + i]],
            [i \in 1..RegBits |-> h[4 + AddrBits + i]] >>

Value(at) == IF at \in Registers THEN regs[at] ELSE Ones

Sample ==
  LET h == Append(heard, Level)
  IN \/ /\ heard = <<>> /\ (Level = 1 \/ ones < Preamble)
        /\ ones' = IF Level = 0 THEN 0
                   ELSE IF ones < Preamble THEN ones + 1 ELSE ones
        /\ UNCHANGED <<heard, out, regs>>
     \/ /\ heard = <<>> /\ Level = 0 /\ ones = Preamble
        /\ heard' = h /\ ones' = 0
        /\ UNCHANGED <<out, regs>>
     \/ /\ heard # <<>> /\ Len(h) < HeaderBits + 2 + DataBits
        /\ heard' = h
        /\ out' = IF Len(h) = HeaderBits /\ Reading THEN Value(At(h)) ELSE out
        /\ UNCHANGED <<ones, regs>>
     \/ /\ heard # <<>> /\ Len(h) = HeaderBits + 2 + DataBits
        /\ heard' = <<>>
        /\ regs' = IF ~Reading /\ At(h) \in Registers
                   THEN [regs EXCEPT ![At(h)] =
                           [i \in 1..DataBits |-> h[HeaderBits + 2 + i]]]
                   ELSE regs
        /\ UNCHANGED <<ones, out>>

-----------------------------------------------------------------------------
(* read_smi and write_smi                                                  *)

Start(f) ==
  /\ ~busy
  /\ frame' = f /\ busy' = TRUE /\ pos' = 0 /\ got' = <<>>
  /\ UNCHANGED <<result, decoder, regs>>

(* pulse_mdc, after digitalRead where data is read *)
Pulse ==
  /\ busy /\ pos < Pulses
  /\ pos' = pos + 1
  /\ got' = IF frame.op = "read" /\ TurnEnd <= pos /\ pos < DataEnd
            THEN Append(got, Level) ELSE got
  /\ Sample
  /\ UNCHANGED <<frame, busy, result>>

Return ==
  /\ busy /\ pos = Pulses
  /\ busy' = FALSE /\ pos' = 0
  /\ result' = IF frame.op = "read" THEN got ELSE result
  /\ got' = <<>>
  /\ UNCHANGED <<frame, decoder, regs>>

(* the devices *)
Change ==
  /\ regs' \in [Registers -> Word]
  /\ UNCHANGED <<master, decoder>>

Next == (\E f \in Frames : Start(f)) \/ Pulse \/ Return \/ Change

Spec == Init /\ [][Next]_vars

-----------------------------------------------------------------------------
TypeOK ==
  /\ frame \in Frames /\ busy \in BOOLEAN /\ pos \in 0..Pulses
  /\ got \in Seq(Bit) /\ result \in Word
  /\ ones \in 0..Preamble /\ heard \in Seq(Bit) /\ out \in Word
  /\ regs \in [Registers -> Word]

(* MDIO is never driven from both ends: the pin is an input before the     *)
(* decoder answers, and the decoder is done before the next frame.         *)
OneDriver == ~(MasterDrives /\ DecoderDrives)

(* The frame has taken effect at the devices *)
Effective == pos >= (IF frame.op = "read" THEN HeaderEnd ELSE DataEnd)

Bus == INSTANCE RegisterBus WITH
         Accesses <- Frames, Words <- Word, access <- frame,
         state <- IF ~busy THEN "idle" ELSE IF Effective THEN "done" ELSE "asked",
         answer <- IF busy /\ Effective /\ frame.op = "read" THEN out ELSE result

(* A frame is one access of the register that it names: every bit of the   *)
(* addresses and the data arrives in its place, and nothing else changes.  *)
IsRegisterBus == Bus!Spec
=============================================================================
