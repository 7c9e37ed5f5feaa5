----------------------------- MODULE Smi_proofs -----------------------------
(***************************************************************************)
(* Frames: the two ends never drive MDIO together, and a frame made of     *)
(* pulses is one access of a register bus, whatever the widths of the      *)
(* addresses and the data, the length of the preamble and the registers    *)
(* there are.                                                              *)
(*                                                                         *)
(* Tools: while no loop gives up, the switch does what it is asked, in     *)
(* order and each time with the right data, and SERDES_read returns what   *)
(* it has found, for every menu of orderly programs, any number of polls   *)
(* and a switch that takes any time.                                       *)
(*                                                                         *)
(* ToolInv holds of every program: the steps left are a part of the        *)
(* routine of the operation that is first.  SerdesInv follows an operation *)
(* through its steps: the frame that runs is that of the step, one         *)
(* operation is on its way or in the switch (CountInv), the switch is idle *)
(* when its registers are written (IdleInv), the data register holds the   *)
(* word of the write that is next (LastInv) or what the last read has      *)
(* found (FetchInv).  The programs of the code are orderly; what is typed  *)
(* between them is assumed to be.                                          *)
(***************************************************************************)
EXTENDS Smi, SequenceTheorems, TLAPS

-----------------------------------------------------------------------------
(* The frames, for any widths: nothing here uses SmiAssumption             *)

(* What ties the decoder to the program at the other end of the wire: it   *)
(* has heard exactly the bits that were sent since the preamble, and what  *)
(* the program has read is a prefix of what it answers.                    *)
InStep ==
  /\ ~busy => pos = 0
  /\ heard = <<>> <=> (pos <= Preamble \/ pos >= DataEnd)
  /\ heard # <<>> => Len(heard) = pos - Preamble
  /\ heard # <<>> \/ pos = DataEnd => ones = 0
  /\ pos <= Preamble => ones >= pos

SentIsHeard ==
  /\ \A k \in 1..HeaderBits : k <= Len(heard) => heard[k] = Header(frame)[k]
  /\ frame.op = "write" =>
       \A k \in 1..DataBits : HeaderBits + 2 + k <= Len(heard)
                                => heard[HeaderBits + 2 + k] = frame.word[k]

AnsweredIsRead ==
  frame.op = "read" =>
    /\ Len(got) = IF pos <= TurnEnd THEN 0
                  ELSE IF pos <= DataEnd THEN pos - TurnEnd ELSE DataBits
    /\ \A k \in 1..DataBits : k <= Len(got) => got[k] = out[k]

FrameInv == TypeOK /\ InStep /\ SentIsHeard /\ AnsweredIsRead

-----------------------------------------------------------------------------
(* The parts of a frame follow one another. *)
LEMMA Widths ==
  /\ HeaderBits \in Nat /\ HeaderBits = 4 + AddrBits + RegBits
  /\ AddrBits \in Nat \ {0} /\ RegBits \in Nat \ {0} /\ DataBits \in Nat \ {0}
  /\ Preamble \in Nat \ {0}
  /\ HeaderEnd = Preamble + HeaderBits
  /\ TurnEnd = Preamble + HeaderBits + 2
  /\ DataEnd = Preamble + HeaderBits + 2 + DataBits
  /\ Pulses = Preamble + HeaderBits + 3 + DataBits
BY SmiFrameAssumption DEF HeaderBits, HeaderEnd, TurnEnd, DataEnd, Pulses

(* The header of a frame is made of bits, starts with 01, and says what is *)
(* done and with which register.                                           *)
LEMMA HeaderSays ==
  ASSUME NEW f \in Frames
  PROVE  /\ \A k \in 1..HeaderBits : Header(f)[k] \in Bit
         /\ Header(f)[1] = 0
         /\ Header(f)[3] = 1 /\ Header(f)[4] = 0 <=> f.op = "read"
         /\ \A i \in 1..AddrBits : Header(f)[4 + i] = f.at[1][i]
         /\ \A i \in 1..RegBits : Header(f)[4 + AddrBits + i] = f.at[2][i]
<1>1. /\ f.op \in {"read", "write"}
      /\ \A i \in 1..AddrBits : f.at[1][i] \in Bit
      /\ \A i \in 1..RegBits : f.at[2][i] \in Bit
  BY DEF Frames, Addr, Reg
<1>2. /\ 1 \in 1..HeaderBits /\ 3 \in 1..HeaderBits /\ 4 \in 1..HeaderBits
      /\ \A i \in 1..AddrBits : 4 + i \in 1..HeaderBits
      /\ \A i \in 1..RegBits : 4 + AddrBits + i \in 1..HeaderBits
  BY Widths
<1>3. ASSUME NEW k \in 1..HeaderBits
      PROVE  Header(f)[k] \in Bit
  <2>1. /\ k > 4 /\ k <= 4 + AddrBits => k - 4 \in 1..AddrBits
        /\ k > 4 + AddrBits => k - 4 - AddrBits \in 1..RegBits
    BY Widths
  <2>2. k = 1 \/ k = 2 \/ k = 3 \/ k = 4 \/ (k > 4 /\ k <= 4 + AddrBits) \/ k > 4 + AddrBits
    BY Widths
  <2>3. QED
    BY <1>1, <2>1, <2>2, Widths DEF Header, Bit
<1>4. Header(f)[1] = 0
  BY <1>2, Widths DEF Header
<1>5. Header(f)[3] = 1 /\ Header(f)[4] = 0 <=> f.op = "read"
  BY <1>1, <1>2, Widths DEF Header
<1>6. ASSUME NEW i \in 1..AddrBits
      PROVE  Header(f)[4 + i] = f.at[1][i]
  <2>1. /\ 4 + i \in 1..HeaderBits /\ (4 + i) - 4 = i
        /\ 4 + i > 4 /\ 4 + i <= 4 + AddrBits /\ 4 + i \notin {1, 2, 3, 4}
        /\ ~(4 + i > 4 + AddrBits)
    BY Widths
  <2>2. Header(f)[4 + i] = f.at[1][(4 + i) - 4]
    BY <2>1 DEF Header
  <2>3. QED
    BY <2>1, <2>2
<1>7. ASSUME NEW i \in 1..RegBits
      PROVE  Header(f)[4 + AddrBits + i] = f.at[2][i]
  <2>1. /\ 4 + AddrBits + i \in 1..HeaderBits
        /\ (4 + AddrBits + i) - 4 - AddrBits = i
        /\ 4 + AddrBits + i > 4 + AddrBits /\ 4 + AddrBits + i \notin {1, 2, 3, 4}
        /\ ~(4 + AddrBits + i <= 4 + AddrBits)
    BY Widths
  <2>2. Header(f)[4 + AddrBits + i] = f.at[2][(4 + AddrBits + i) - 4 - AddrBits]
    BY <2>1 DEF Header
  <2>3. QED
    BY <2>1, <2>2
<1>8. QED
  BY <1>3, <1>4, <1>5, <1>6, <1>7

(* What has been heard up to the end of the header is the access. *)
LEMMA Heard ==
  ASSUME FrameInv, heard # <<>>
  PROVE  /\ Len(heard) = pos - Preamble /\ Preamble < pos /\ pos < DataEnd
         /\ Len(heard) >= 4 => (Reading <=> frame.op = "read")
<1>1. /\ Len(heard) = pos - Preamble /\ Preamble < pos /\ pos < DataEnd
      /\ frame \in Frames /\ pos \in Nat
  BY Widths DEF FrameInv, InStep, TypeOK
<1>2. ASSUME Len(heard) >= 4
      PROVE  Reading <=> frame.op = "read"
  <2>1. heard[3] = Header(frame)[3] /\ heard[4] = Header(frame)[4]
    BY <1>1, <1>2, Widths DEF FrameInv, SentIsHeard
  <2>2. QED
    BY <1>1, <1>2, <2>1, HeaderSays DEF Reading
<1>3. QED
  BY <1>1, <1>2

(* What MDIO carries at the next pulse. *)
LEMMA Levels ==
  ASSUME FrameInv, busy, pos < Pulses
  PROVE  /\ Level \in Bit
         /\ pos < Preamble => Level = 1
         /\ Preamble <= pos /\ pos < HeaderEnd =>
              Level = Header(frame)[pos - Preamble + 1]
         /\ TurnEnd <= pos /\ pos < DataEnd /\ frame.op = "write" =>
              Level = frame.word[pos - TurnEnd + 1]
         /\ TurnEnd <= pos /\ pos < DataEnd /\ frame.op = "read" =>
              Level = out[pos - TurnEnd + 1]
<1>1. /\ frame \in Frames /\ pos \in Nat /\ out \in Word /\ frame.word \in Word
      /\ frame.op \in {"read", "write"}
  BY Widths DEF FrameInv, TypeOK, Frames
<1>2. CASE pos < Preamble
  <2>1. MasterDrives /\ MasterLevel = 1
    BY <1>1, <1>2, Widths DEF MasterDrives, MasterLevel
  <2>2. QED
    BY <1>1, <1>2, <2>1, Widths DEF Level, Bit
<1>3. CASE Preamble <= pos /\ pos < HeaderEnd
  <2>1. Level = Header(frame)[pos - Preamble + 1]
    BY <1>1, <1>3, Widths DEF Level, MasterDrives, MasterLevel
  <2>2. pos - Preamble + 1 \in 1..HeaderBits
    BY <1>1, <1>3, Widths
  <2>3. QED
    BY <1>1, <1>3, <2>1, <2>2, HeaderSays, Widths
<1>4. CASE HeaderEnd <= pos /\ pos < TurnEnd
  <2>1. heard # <<>>
    BY <1>1, <1>4, Widths DEF FrameInv, InStep
  <2>2. ~DecoderDrives
    BY <1>1, <1>4, <2>1, Heard, Widths DEF DecoderDrives
  <2>3. MasterLevel \in Bit
    BY <1>1, <1>4, Widths DEF MasterLevel, Bit
  <2>4. QED
    BY <1>1, <1>4, <2>2, <2>3, Widths DEF Level, Bit
<1>5. CASE TurnEnd <= pos /\ pos < DataEnd
  <2>1. pos - TurnEnd + 1 \in 1..DataBits
    BY <1>1, <1>5, Widths
  <2>2. frame.word[pos - TurnEnd + 1] \in Bit /\ out[pos - TurnEnd + 1] \in Bit
    BY <1>1, <2>1 DEF Word
  <2>3. CASE frame.op = "write"
    <3>1. Level = frame.word[pos - TurnEnd + 1]
      BY <1>1, <1>5, <2>3, Widths DEF Level, MasterDrives, MasterLevel
    <3>2. QED
      BY <1>1, <1>5, <2>2, <2>3, <3>1, Widths
  <2>4. CASE frame.op = "read"
    <3>1. heard # <<>>
      BY <1>1, <1>5, Widths DEF FrameInv, InStep
    <3>2. DecoderDrives /\ Len(heard) - HeaderBits - 1 = pos - TurnEnd + 1
      BY <1>1, <1>5, <2>4, <3>1, Heard, Widths DEF DecoderDrives
    <3>3. ~MasterDrives
      BY <1>1, <1>5, <2>4, Widths DEF MasterDrives
    <3>4. Level = out[pos - TurnEnd + 1]
      BY <3>2, <3>3 DEF Level
    <3>5. QED
      BY <1>1, <1>5, <2>2, <2>4, <3>4, Widths
  <2>5. QED
    BY <1>1, <2>3, <2>4
<1>6. CASE pos = DataEnd
  <2>1. heard = <<>>
    BY <1>6 DEF FrameInv, InStep, TypeOK
  <2>2. ~DecoderDrives
    BY <2>1 DEF DecoderDrives, Reading
  <2>3. MasterLevel = frame.word[DataBits]
    BY <1>1, <1>6, Widths DEF MasterLevel
  <2>4. frame.word[DataBits] \in Bit
    BY <1>1, Widths DEF Word
  <2>5. QED
    BY <1>6, <2>2, <2>3, <2>4, Widths DEF Level, Bit
<1>7. QED
  BY <1>1, <1>2, <1>3, <1>4, <1>5, <1>6, Widths

(* What the decoder makes of the next pulse, part by part of the frame. *)
LEMMA Samples ==
  ASSUME FrameInv, Pulse
  PROVE  /\ pos < Preamble =>
              /\ heard' = <<>> /\ ones' \in 0..Preamble /\ ones' >= pos + 1
              /\ out' = out /\ regs' = regs
         /\ pos = Preamble =>
              heard' = <<0>> /\ ones' = 0 /\ out' = out /\ regs' = regs
         /\ Preamble < pos /\ pos < DataEnd - 1 =>
              /\ heard' = Append(heard, Level) /\ ones' = 0 /\ regs' = regs
              /\ out' = IF frame.op = "read" /\ pos + 1 = HeaderEnd
                        THEN Value(frame.at) ELSE out
         /\ pos = DataEnd - 1 =>
              /\ heard' = <<>> /\ ones' = 0 /\ out' = out
              /\ regs' = IF frame.op = "write" /\ frame.at \in Registers
                         THEN [regs EXCEPT ![frame.at] = frame.word] ELSE regs
         /\ pos = DataEnd =>
              heard' = <<>> /\ ones' \in {0, 1} /\ out' = out /\ regs' = regs
<1> DEFINE h == Append(heard, Level)
<1>1. /\ busy /\ pos < Pulses /\ Sample
      /\ frame \in Frames /\ pos \in Nat /\ ones \in 0..Preamble
      /\ heard \in Seq(Bit) /\ Level \in Bit
      /\ frame.op \in {"read", "write"}
      /\ frame.at \in Addr \X Reg /\ frame.word \in Word
  BY Levels DEF FrameInv, TypeOK, Pulse, Frames
<1>2. /\ h \in Seq(Bit) /\ Len(h) = Len(heard) + 1 /\ h[Len(heard) + 1] = Level
      /\ \A i \in 1..Len(heard) : h[i] = heard[i]
  BY <1>1, AppendProperties
<1>n. /\ pos \in Nat /\ ones \in 0..Preamble /\ Len(heard) \in Nat
      /\ Len(h) = Len(heard) + 1
  BY <1>1, <1>2, LenProperties
<1> HIDE DEF h
<1>3. ASSUME pos < Preamble
      PROVE  /\ heard' = <<>> /\ ones' \in 0..Preamble /\ ones' >= pos + 1
             /\ out' = out /\ regs' = regs
  <2>0. Level = 1
    BY <1>1, <1>3, Levels
  <2>1. Level = 1 /\ heard = <<>> /\ ones >= pos
    BY <1>1, <1>3, <2>0, Widths DEF FrameInv, InStep
  <2>2. /\ ones' = IF ones < Preamble THEN ones + 1 ELSE ones
        /\ heard' = heard /\ out' = out /\ regs' = regs
    BY <1>1, <2>1 DEF Sample
  <2>3. QED
    BY <1>n, <1>3, <2>1, <2>2, Widths
<1>4. ASSUME pos = Preamble
      PROVE  heard' = <<0>> /\ ones' = 0 /\ out' = out /\ regs' = regs
  <2>0. Level = Header(frame)[1]
    BY <1>1, <1>4, Levels, Widths
  <2>1. Level = 0 /\ heard = <<>> /\ ones = Preamble
    BY <1>1, <1>4, <2>0, HeaderSays, Widths DEF FrameInv, InStep
  <2>2. heard' = Append(<<>>, 0) /\ ones' = 0 /\ out' = out /\ regs' = regs
    BY <1>1, <2>1 DEF Sample
  <2>3. Append(<<>>, 0) = <<0>>
    OBVIOUS
  <2>4. QED
    BY <1>4, <2>2, <2>3, Widths
<1>5. ASSUME Preamble < pos, pos < DataEnd
      PROVE  /\ heard # <<>> /\ Len(h) = pos + 1 - Preamble /\ ones = 0
             /\ pos + 1 >= HeaderEnd => (Reading <=> frame.op = "read")
             /\ pos + 1 >= HeaderEnd => At(h) = frame.at
  <2>1. /\ heard # <<>> /\ Len(heard) = pos - Preamble /\ ones = 0
        /\ Len(h) = pos + 1 - Preamble
    <3>1. ~(pos <= Preamble \/ pos >= DataEnd)
      BY <1>n, <1>5, Widths
    <3>2. heard # <<>> /\ Len(heard) = pos - Preamble /\ ones = 0
      BY <3>1 DEF FrameInv, InStep
    <3> QED
      BY <1>n, <3>2, Widths
  <2>2. pos + 1 >= HeaderEnd => (Reading <=> frame.op = "read")
    BY <1>1, <1>5, <2>1, Heard, Widths
  <2>3. ASSUME pos + 1 >= HeaderEnd
        PROVE  At(h) = frame.at
    <3>1. ASSUME NEW k \in 1..HeaderBits
          PROVE  h[k] = Header(frame)[k]
      <4>1. CASE k <= Len(heard)
        <5>1. heard[k] = Header(frame)[k]
          BY <3>1, <4>1 DEF FrameInv, SentIsHeard
        <5>2. k \in 1..Len(heard)
          BY <1>1, <2>1, <3>1, <4>1, Widths
        <5>3. QED
          BY <1>2, <5>1, <5>2
      <4>2. CASE k > Len(heard)
        <5>1. k = Len(heard) + 1 /\ k = pos - Preamble + 1 /\ pos < HeaderEnd
          BY <1>n, <1>5, <2>1, <2>3, <3>1, <4>2, Widths, SMTT(60)
        <5>2. Level = Header(frame)[pos - Preamble + 1]
          BY <1>1, <1>5, <5>1, Levels, Widths
        <5>3. h[k] = Level
          BY <1>2, <5>1
        <5>4. QED
          BY <5>1, <5>2, <5>3
      <4>3. QED
        BY <1>1, <2>1, <3>1, <4>1, <4>2, Widths
    <3>2. /\ \A i \in 1..AddrBits : h[4 + i] = frame.at[1][i]
          /\ \A i \in 1..RegBits : h[4 + AddrBits + i] = frame.at[2][i]
      <4>1. /\ \A i \in 1..AddrBits : 4 + i \in 1..HeaderBits
            /\ \A i \in 1..RegBits : 4 + AddrBits + i \in 1..HeaderBits
        BY Widths
      <4>2. QED
        BY <1>1, <3>1, <4>1, HeaderSays
    <3>3. /\ frame.at[1] = [i \in 1..AddrBits |-> h[4 + i]]
          /\ frame.at[2] = [i \in 1..RegBits |-> h[4 + AddrBits + i]]
      BY <1>1, <3>2 DEF Addr, Reg
    <3>4. frame.at = <<frame.at[1], frame.at[2]>>
      BY <1>1
    <3>5. QED
      BY <3>3, <3>4 DEF At
  <2>4. QED
    BY <2>1, <2>2, <2>3
<1>6. ASSUME Preamble < pos, pos < DataEnd - 1
      PROVE  /\ heard' = h /\ ones' = 0 /\ regs' = regs
             /\ out' = IF frame.op = "read" /\ pos + 1 = HeaderEnd
                       THEN Value(frame.at) ELSE out
  <2>1. /\ heard # <<>> /\ Len(h) = pos + 1 - Preamble /\ ones = 0
        /\ Len(h) < HeaderBits + 2 + DataBits
        /\ Len(h) = HeaderBits <=> pos + 1 = HeaderEnd
    <3>1. pos < DataEnd
      BY <1>n, <1>6, Widths
    <3>2. heard # <<>> /\ Len(h) = pos + 1 - Preamble /\ ones = 0
      BY <1>5, <1>6, <3>1
    <3>3. QED
      BY <1>n, <1>6, <3>2, Widths
  <2>2. /\ heard' = h /\ ones' = ones /\ regs' = regs
        /\ out' = IF Len(h) = HeaderBits /\ Reading THEN Value(At(h)) ELSE out
    <3>1. heard # <<>> /\ Len(h) < HeaderBits + 2 + DataBits
          /\ Len(h) # HeaderBits + 2 + DataBits
      BY <1>n, <2>1, Widths
    <3>2. QED
      BY <1>1, <3>1 DEF Sample, h
  <2>3. pos + 1 = HeaderEnd => (Reading <=> frame.op = "read") /\ At(h) = frame.at
    <3>1. pos < DataEnd /\ (pos + 1 = HeaderEnd => pos + 1 >= HeaderEnd)
      BY <1>n, <1>6, Widths
    <3>2. QED
      BY <1>5, <1>6, <3>1
  <2>4. QED
    BY <2>1, <2>2, <2>3
<1>7. ASSUME pos = DataEnd - 1
      PROVE  /\ heard' = <<>> /\ ones' = 0 /\ out' = out
             /\ regs' = IF frame.op = "write" /\ frame.at \in Registers
                        THEN [regs EXCEPT ![frame.at] = frame.word] ELSE regs
  <2>1. /\ heard # <<>> /\ ones = 0 /\ Len(h) = HeaderBits + 2 + DataBits
        /\ (Reading <=> frame.op = "read") /\ At(h) = frame.at
    <3>1. /\ Preamble < pos /\ pos < DataEnd /\ pos + 1 >= HeaderEnd
          /\ pos + 1 - Preamble = HeaderBits + 2 + DataBits
      BY <1>n, <1>7, Widths
    <3>2. QED
      BY <1>5, <3>1
  <2>2. /\ heard' = <<>> /\ ones' = ones /\ out' = out
        /\ regs' = IF ~Reading /\ At(h) \in Registers
                   THEN [regs EXCEPT ![At(h)] =
                           [i \in 1..DataBits |-> h[HeaderBits + 2 + i]]]
                   ELSE regs
    <3>1. heard # <<>> /\ ~(Len(h) < HeaderBits + 2 + DataBits)
      BY <1>n, <2>1, Widths
    <3>2. QED
      BY <1>1, <3>1 DEF Sample, h
  <2>3. ASSUME frame.op = "write"
        PROVE  [i \in 1..DataBits |-> h[HeaderBits + 2 + i]] = frame.word
    <3>1. ASSUME NEW i \in 1..DataBits
          PROVE  h[HeaderBits + 2 + i] = frame.word[i]
      <4>1. Len(heard) = HeaderBits + 1 + DataBits
        BY <1>n, <2>1, Widths
      <4>2. CASE i < DataBits
        <5>1. heard[HeaderBits + 2 + i] = frame.word[i]
          <6>1. HeaderBits + 2 + i <= Len(heard)
            BY <3>1, <4>1, <4>2, Widths
          <6>2. QED
            BY <2>3, <3>1, <6>1 DEF FrameInv, SentIsHeard
        <5>2. HeaderBits + 2 + i \in 1..Len(heard)
          BY <3>1, <4>1, <4>2, Widths
        <5>3. QED
          BY <1>2, <5>1, <5>2
      <4>3. CASE i = DataBits
        <5>1. HeaderBits + 2 + i = Len(heard) + 1 /\ pos - TurnEnd + 1 = i
          BY <1>1, <1>7, <4>1, <4>3, Widths
        <5>2. Level = frame.word[i]
          BY <1>1, <1>7, <2>3, <5>1, Levels, Widths
        <5>3. QED
          BY <1>2, <5>1, <5>2
      <4>4. QED
        BY <3>1, <4>2, <4>3, Widths
    <3>2. QED
      BY <1>1, <3>1 DEF Word
  <2>4. QED
    BY <1>1, <2>1, <2>2, <2>3
<1>8. ASSUME pos = DataEnd
      PROVE  heard' = <<>> /\ ones' \in {0, 1} /\ out' = out /\ regs' = regs
  <2>1. heard = <<>> /\ ones = 0
    BY <1>8 DEF FrameInv, InStep, TypeOK
  <2>2. /\ ones' = IF Level = 0 THEN 0
                   ELSE IF ones < Preamble THEN ones + 1 ELSE ones
        /\ heard' = heard /\ out' = out /\ regs' = regs
    BY <1>1, <2>1, Widths DEF Sample
  <2>3. QED
    BY <1>1, <1>8, <2>1, <2>2, Widths
<1>9. QED
  BY <1>3, <1>4, <1>6, <1>7, <1>8 DEF h

-----------------------------------------------------------------------------
(* FrameInv before the first pulse. *)
LEMMA FrameInvInit == Init => FrameInv
<1> SUFFICES ASSUME Init PROVE FrameInv
  OBVIOUS
<1>1. /\ [i \in 1..AddrBits |-> 0] \in Addr /\ [i \in 1..RegBits |-> 0] \in Reg
      /\ Ones \in Word
  BY DEF Addr, Reg, Word, Ones, Bit
<1>2. frame \in Frames
  BY <1>1 DEF Init, Frames
<1>3. TypeOK
  <2>1. /\ busy = FALSE /\ pos = 0 /\ got = <<>> /\ result = Ones
        /\ ones = 0 /\ heard = <<>> /\ out = Ones /\ regs \in [Registers -> Word]
    BY DEF Init
  <2>2. <<>> \in Seq(Bit) /\ 0 \in 0..Pulses /\ 0 \in 0..Preamble
    BY EmptySeq, Widths
  <2>3. QED
    BY <1>1, <1>2, <2>1, <2>2 DEF TypeOK
<1>4. InStep /\ SentIsHeard /\ AnsweredIsRead
  BY Widths DEF Init, InStep, SentIsHeard, AnsweredIsRead
<1>5. QED
  BY <1>3, <1>4 DEF FrameInv

(* Sketch and PHY count one pulse. *)
LEMMA PulseStep ==
  ASSUME FrameInv, Pulse
  PROVE  FrameInv'
<1>1. /\ busy /\ pos < Pulses /\ pos' = pos + 1
      /\ frame' = frame /\ busy' = busy /\ result' = result
      /\ got' = IF frame.op = "read" /\ TurnEnd <= pos /\ pos < DataEnd
                THEN Append(got, Level) ELSE got
  BY DEF Pulse
<1>2. /\ frame \in Frames /\ busy \in BOOLEAN /\ pos \in 0..Pulses
      /\ got \in Seq(Bit) /\ result \in Word /\ out \in Word
      /\ heard \in Seq(Bit) /\ regs \in [Registers -> Word]
      /\ Level \in Bit /\ frame.word \in Word
  BY <1>1, Levels DEF FrameInv, TypeOK, Frames
<1>3. /\ Append(heard, Level) \in Seq(Bit) /\ Append(heard, Level) # <<>>
      /\ Len(Append(heard, Level)) = Len(heard) + 1
      /\ \A i \in 1..Len(heard) : Append(heard, Level)[i] = heard[i]
      /\ Append(heard, Level)[Len(heard) + 1] = Level
  BY <1>2, AppendProperties
<1>4. /\ Append(got, Level) \in Seq(Bit) /\ Len(Append(got, Level)) = Len(got) + 1
      /\ \A i \in 1..Len(got) : Append(got, Level)[i] = got[i]
      /\ Append(got, Level)[Len(got) + 1] = Level
  BY <1>2, AppendProperties
<1>5. pos \in Nat /\ Len(heard) \in Nat /\ Len(got) \in Nat
  BY <1>2, LenProperties, Widths
<1>6. \/ pos < Preamble \/ pos = Preamble
      \/ Preamble < pos /\ pos < DataEnd - 1
      \/ pos = DataEnd - 1 \/ pos = DataEnd
  BY <1>1, <1>5, Widths
<1>7. /\ heard' = <<>> <=> (pos + 1 <= Preamble \/ pos + 1 >= DataEnd)
      /\ heard' # <<>> => Len(heard') = pos + 1 - Preamble
      /\ heard' # <<>> \/ pos + 1 = DataEnd => ones' = 0
      /\ pos + 1 <= Preamble => ones' >= pos + 1
      /\ ones' \in 0..Preamble /\ heard' \in Seq(Bit)
      /\ out' \in Word /\ regs' \in [Registers -> Word]
  <2>1. CASE pos < Preamble
    <3>1. /\ heard' = <<>> /\ ones' \in 0..Preamble /\ ones' >= pos + 1
          /\ out' = out /\ regs' = regs
      BY <2>1, Samples
    <3>2. QED
      BY <1>2, <1>5, <2>1, <3>1, Widths
  <2>2. CASE pos = Preamble
    <3>1. heard' = <<0>> /\ ones' = 0 /\ out' = out /\ regs' = regs
      BY <2>2, Samples
    <3>2. <<0>> \in Seq(Bit) /\ <<0>> # <<>> /\ Len(<<0>>) = 1
      BY DEF Bit
    <3>3. QED
      BY <1>2, <1>5, <2>2, <3>1, <3>2, Widths
  <2>3. CASE Preamble < pos /\ pos < DataEnd - 1
    <3>1. /\ heard' = Append(heard, Level) /\ ones' = 0 /\ regs' = regs
          /\ out' = IF frame.op = "read" /\ pos + 1 = HeaderEnd
                    THEN Value(frame.at) ELSE out
      BY <2>3, Samples
    <3>2. Len(heard) = pos - Preamble
      BY <1>5, <2>3, Widths DEF FrameInv, InStep
    <3>3. Value(frame.at) \in Word
      BY <1>2 DEF Value, Word, Ones, Bit
    <3>4. /\ heard' # <<>> /\ Len(heard') = pos + 1 - Preamble
          /\ heard' \in Seq(Bit)
      BY <1>3, <1>5, <3>1, <3>2, Widths
    <3>5. out' \in Word /\ regs' \in [Registers -> Word]
      BY <1>2, <3>1, <3>3
    <3>6. QED
      BY <1>5, <2>3, <3>1, <3>4, <3>5, Widths
  <2>4. CASE pos = DataEnd - 1
    <3>1. /\ heard' = <<>> /\ ones' = 0 /\ out' = out
          /\ regs' = IF frame.op = "write" /\ frame.at \in Registers
                     THEN [regs EXCEPT ![frame.at] = frame.word] ELSE regs
      BY <2>4, Samples
    <3>2. regs' \in [Registers -> Word]
      BY <1>2, <3>1
    <3>3. QED
      BY <1>2, <1>5, <2>4, <3>1, <3>2, Widths
  <2>5. CASE pos = DataEnd
    <3>1. heard' = <<>> /\ ones' \in {0, 1} /\ out' = out /\ regs' = regs
      BY <2>5, Samples
    <3>2. QED
      BY <1>2, <1>5, <2>5, <3>1, Widths
  <2>6. QED
    BY <1>6, <2>1, <2>2, <2>3, <2>4, <2>5
<1>8. TypeOK'
  <2>0. pos' \in 0..Pulses
    BY <1>1, <1>5, Widths
  <2>1. pos' \in 0..Pulses /\ got' \in Seq(Bit)
    BY <1>1, <1>2, <1>4, <2>0
  <2>2. QED
    BY <1>1, <1>2, <1>7, <2>1 DEF TypeOK
<1>9. InStep'
  <2>1. pos' = pos + 1 /\ busy'
    BY <1>1
  <2>2. /\ heard' = <<>> <=> (pos' <= Preamble \/ pos' >= DataEnd)
        /\ heard' # <<>> => Len(heard') = pos' - Preamble
        /\ heard' # <<>> \/ pos' = DataEnd => ones' = 0
        /\ pos' <= Preamble => ones' >= pos'
    BY <1>5, <1>7, <2>1, Widths
  <2>3. QED
    BY <2>1, <2>2 DEF InStep
<1>10. SentIsHeard'
  <2>1. CASE heard' = <<>>
    <3>1. /\ Len(heard') = 0
          /\ \A k \in 1..HeaderBits : ~(k <= 0)
          /\ \A k \in 1..DataBits : ~(HeaderBits + 2 + k <= 0)
      BY <2>1, Widths
    <3>2. QED
      BY <3>1 DEF SentIsHeard
  <2>2. CASE pos = Preamble
    <3>1. heard' = <<0>> /\ Len(<<0>>) = 1 /\ <<0>>[1] = 0
      BY <2>2, Samples
    <3>2. QED
      BY <1>1, <1>2, <3>1, HeaderSays, Widths DEF SentIsHeard
  <2>3. CASE Preamble < pos /\ pos < DataEnd - 1
    <3>1. heard' = Append(heard, Level) /\ Len(heard) = pos - Preamble
      <4>1. heard' = Append(heard, Level)
        BY <2>3, Samples
      <4>2. QED
        BY <1>5, <2>3, <4>1, Widths DEF FrameInv, InStep
    <3>2. ASSUME NEW k \in 1..HeaderBits, k <= Len(heard) + 1
          PROVE  Append(heard, Level)[k] = Header(frame)[k]
      <4>1. CASE k <= Len(heard)
        <5>1. k \in 1..Len(heard) /\ heard[k] = Header(frame)[k]
          BY <1>5, <3>2, <4>1, Widths DEF FrameInv, SentIsHeard
        <5>2. QED
          BY <1>3, <5>1
      <4>2. CASE k > Len(heard)
        <5>1. /\ k = Len(heard) + 1 /\ k = pos - Preamble + 1
              /\ Preamble <= pos /\ pos < HeaderEnd
          BY <1>5, <2>3, <3>1, <3>2, <4>2, Widths
        <5>2. Level = Header(frame)[pos - Preamble + 1]
          BY <1>1, <5>1, Levels
        <5>3. QED
          BY <1>3, <5>1, <5>2
      <4>3. k <= Len(heard) \/ k > Len(heard)
        BY <1>5, Widths
      <4>4. QED
        BY <4>1, <4>2, <4>3
    <3>3. ASSUME frame.op = "write", NEW k \in 1..DataBits,
                 HeaderBits + 2 + k <= Len(heard) + 1
          PROVE  Append(heard, Level)[HeaderBits + 2 + k] = frame.word[k]
      <4>1. CASE HeaderBits + 2 + k <= Len(heard)
        <5>1. /\ HeaderBits + 2 + k \in 1..Len(heard)
              /\ heard[HeaderBits + 2 + k] = frame.word[k]
          BY <1>5, <3>3, <4>1, Widths DEF FrameInv, SentIsHeard
        <5>2. QED
          BY <1>3, <5>1
      <4>2. CASE HeaderBits + 2 + k > Len(heard)
        <5>1. /\ HeaderBits + 2 + k = Len(heard) + 1 /\ k = pos - TurnEnd + 1
              /\ TurnEnd <= pos /\ pos < DataEnd
          BY <1>5, <2>3, <3>1, <3>3, <4>2, Widths
        <5>2. Level = frame.word[pos - TurnEnd + 1]
          BY <1>1, <3>3, <5>1, Levels
        <5>3. QED
          BY <1>3, <5>1, <5>2
      <4>3. HeaderBits + 2 + k <= Len(heard) \/ HeaderBits + 2 + k > Len(heard)
        BY <1>5, Widths
      <4>4. QED
        BY <4>1, <4>2, <4>3
    <3>4. QED
      BY <1>1, <1>3, <3>1, <3>2, <3>3 DEF SentIsHeard
  <2>4. QED
    BY <1>5, <1>6, <1>7, <2>1, <2>2, <2>3, Widths
<1>11. AnsweredIsRead'
  <2>1. ASSUME frame.op = "read"
        PROVE  /\ Len(got') = IF pos + 1 <= TurnEnd THEN 0
                              ELSE IF pos + 1 <= DataEnd THEN pos + 1 - TurnEnd
                              ELSE DataBits
               /\ \A k \in 1..DataBits : k <= Len(got') => got'[k] = out'[k]
    <3>1. /\ Len(got) = IF pos <= TurnEnd THEN 0
                        ELSE IF pos <= DataEnd THEN pos - TurnEnd ELSE DataBits
          /\ \A k \in 1..DataBits : k <= Len(got) => got[k] = out[k]
      BY <2>1 DEF FrameInv, AnsweredIsRead
    <3>2. CASE pos < TurnEnd
      <4>1. got' = got /\ Len(got) = 0
        BY <1>1, <1>5, <2>1, <3>1, <3>2, Widths
      <4>2. QED
        BY <1>5, <3>2, <4>1, Widths
    <3>3. pos >= TurnEnd => out' = out
      BY <1>5, <1>6, Samples, Widths
    <3>4. CASE TurnEnd <= pos /\ pos < DataEnd
      <4>1. got' = Append(got, Level) /\ Len(got) = pos - TurnEnd
        BY <1>1, <1>5, <2>1, <3>1, <3>4, Widths
      <4>2. Level = out[pos - TurnEnd + 1]
        BY <1>1, <2>1, <3>4, Levels
      <4>3. ASSUME NEW k \in 1..DataBits, k <= Len(got) + 1
            PROVE  Append(got, Level)[k] = out[k]
        <5>1. k \in 1..Len(got) \/ k = Len(got) + 1
          BY <1>5, <4>3, Widths
        <5>2. CASE k \in 1..Len(got)
          <6>1. k <= Len(got)
            BY <1>5, <5>2
          <6>2. got[k] = out[k]
            BY <3>1, <4>3, <6>1
          <6>3. QED
            BY <1>4, <5>2, <6>2
        <5>3. CASE k = Len(got) + 1
          <6>1. k = pos - TurnEnd + 1
            BY <1>5, <4>1, <5>3, Widths
          <6>2. QED
            BY <1>4, <4>2, <5>3, <6>1
        <5>4. QED
          BY <5>1, <5>2, <5>3
      <4>4. QED
        BY <1>4, <1>5, <3>3, <3>4, <4>1, <4>3, Widths
    <3>5. CASE pos = DataEnd
      <4>1. got' = got /\ Len(got) = DataBits
        BY <1>1, <1>5, <2>1, <3>1, <3>5, Widths
      <4>2. QED
        BY <1>5, <3>1, <3>3, <3>5, <4>1, Widths
    <3>6. QED
      BY <1>5, <1>6, <3>2, <3>4, <3>5, Widths
  <2>2. frame' = frame /\ pos' = pos + 1
    BY <1>1
  <2>3. QED
    BY <1>5, <2>1, <2>2, Widths, SMTT(60) DEF AnsweredIsRead
<1>12. QED
  BY <1>8, <1>9, <1>10, <1>11 DEF FrameInv

(* And so does the invariant. *)
LEMMA FrameInvStep == FrameInv /\ [Next]_vars => FrameInv'
<1> SUFFICES ASSUME FrameInv, [Next]_vars PROVE FrameInv'
  OBVIOUS
<1>1. ASSUME NEW f \in Frames, Start(f)
      PROVE  FrameInv'
  <2>1. /\ ~busy /\ frame' = f /\ busy' = TRUE /\ pos' = 0 /\ got' = <<>>
        /\ result' = result /\ ones' = ones /\ heard' = heard /\ out' = out
        /\ regs' = regs
    BY <1>1 DEF Start, decoder
  <2>2. pos = 0 /\ heard = <<>> /\ ones \in 0..Preamble /\ Len(<<>>) = 0
    BY <2>1, Widths DEF FrameInv, InStep, TypeOK
  <2>3. TypeOK'
    <3>1. <<>> \in Seq(Bit) /\ 0 \in 0..Pulses
      BY EmptySeq, Widths
    <3>2. QED
      BY <1>1, <2>1, <3>1 DEF FrameInv, TypeOK
  <2>4. InStep'
    BY <2>1, <2>2, Widths DEF InStep
  <2>5. SentIsHeard' /\ AnsweredIsRead'
    BY <2>1, <2>2, Widths DEF SentIsHeard, AnsweredIsRead
  <2>6. QED
    BY <2>3, <2>4, <2>5 DEF FrameInv
<1>2. CASE Pulse
  BY <1>2, PulseStep
<1>3. CASE Return
  <2>1. /\ busy /\ pos = Pulses /\ busy' = FALSE /\ pos' = 0 /\ got' = <<>>
        /\ result' = IF frame.op = "read" THEN got ELSE result
        /\ frame' = frame /\ ones' = ones /\ heard' = heard /\ out' = out
        /\ regs' = regs
    BY <1>3 DEF Return, decoder
  <2>2. heard = <<>> /\ ones \in 0..Preamble /\ Len(<<>>) = 0
    BY <2>1, Widths DEF FrameInv, InStep, TypeOK
  <2>3. TypeOK'
    <3>1. <<>> \in Seq(Bit) /\ 0 \in 0..Pulses
      BY EmptySeq, Widths
    <3>2. frame.op = "read" => got \in Word
      <4>1. frame.op = "read" => Len(got) = DataBits
        BY <2>1, Widths DEF FrameInv, AnsweredIsRead
      <4>2. got \in [1..Len(got) -> Bit]
        BY LenProperties DEF FrameInv, TypeOK
      <4>3. QED
        BY <4>1, <4>2 DEF Word
    <3>3. result' \in Word
      BY <2>1, <3>2 DEF FrameInv, TypeOK
    <3>4. QED
      BY <2>1, <3>1, <3>3 DEF FrameInv, TypeOK
  <2>4. InStep'
    BY <2>1, <2>2, Widths DEF InStep
  <2>5. SentIsHeard' /\ AnsweredIsRead'
    BY <2>1, <2>2, Widths DEF SentIsHeard, AnsweredIsRead
  <2>6. QED
    BY <2>3, <2>4, <2>5 DEF FrameInv
<1>4. CASE Change
  <2>1. /\ regs' \in [Registers -> Word]
        /\ frame' = frame /\ busy' = busy /\ pos' = pos /\ got' = got
        /\ result' = result /\ ones' = ones /\ heard' = heard /\ out' = out
    BY <1>4 DEF Change, master, decoder
  <2>2. QED
    BY <2>1 DEF FrameInv, TypeOK, InStep, SentIsHeard, AnsweredIsRead
<1>5. CASE UNCHANGED vars
  BY <1>5 DEF FrameInv, TypeOK, InStep, SentIsHeard, AnsweredIsRead,
              vars, master, decoder
<1>6. QED
  BY <1>1, <1>2, <1>3, <1>4, <1>5 DEF Next

(* FrameInv over a whole run. *)
LEMMA FrameInvAlways == Spec => []FrameInv
BY FrameInvInit, FrameInvStep, PTL DEF Spec

(* The variables keep their types. *)
THEOREM FrameTypes == Spec => []TypeOK
<1>1. FrameInv => TypeOK
  BY DEF FrameInv
<1>2. QED
  BY <1>1, FrameInvAlways, PTL

(* read_smi and write_smi never drive MDIO against a PHY. *)
THEOREM NeverTwoDrivers == Spec => []OneDriver
<1>1. FrameInv => OneDriver
  <2> SUFFICES ASSUME FrameInv, MasterDrives, DecoderDrives PROVE FALSE
    BY DEF OneDriver
  <2>1. heard # <<>> /\ Reading /\ Len(heard) >= HeaderBits + 2
    BY DEF DecoderDrives, Reading
  <2>2. Len(heard) = pos - Preamble /\ pos \in Nat
    BY <2>1, Heard, Widths DEF FrameInv, TypeOK
  <2>3. frame.op = "read"
    BY <2>1, <2>2, Heard, Widths
  <2>4. frame.op # "write" /\ ~(pos < HeaderEnd)
    BY <2>1, <2>2, <2>3, Widths
  <2>5. QED
    BY <2>4 DEF MasterDrives
<1>2. QED
  BY <1>1, FrameInvAlways, PTL

-----------------------------------------------------------------------------
(* The state and the answer of the bus, as IsRegisterBus maps them         *)
BusState == IF ~busy THEN "idle" ELSE IF Effective THEN "done" ELSE "asked"
BusAnswer == IF busy /\ Effective /\ frame.op = "read" THEN out ELSE result

(* When a frame takes effect: with the last pulse of the header of a read, *)
(* with the last pulse of the data of a write.                             *)
LEMMA Effect ==
  ASSUME FrameInv, Pulse
  PROVE  \/ BusState' = BusState /\ BusAnswer' = BusAnswer /\ regs' = regs
         \/ /\ frame.op = "read" /\ BusState = "asked" /\ BusState' = "done"
            /\ BusAnswer' = Value(frame.at) /\ regs' = regs
         \/ /\ frame.op = "write" /\ BusState = "asked" /\ BusState' = "done"
            /\ BusAnswer' = BusAnswer
            /\ regs' = IF frame.at \in Registers
                       THEN [regs EXCEPT ![frame.at] = frame.word] ELSE regs
<1>1. /\ busy /\ busy' /\ pos < Pulses /\ pos' = pos + 1
      /\ frame' = frame /\ result' = result
  BY DEF Pulse
<1>2. pos \in Nat /\ frame.op \in {"read", "write"}
  BY Widths DEF FrameInv, TypeOK, Frames
<1>3. /\ Effective <=> pos >= (IF frame.op = "read" THEN HeaderEnd ELSE DataEnd)
      /\ Effective' <=> pos + 1 >= (IF frame.op = "read" THEN HeaderEnd ELSE DataEnd)
  BY <1>1, <1>2, Widths DEF Effective
<1>4. CASE frame.op = "read"
  <2>1. regs' = regs
    BY <1>1, <1>2, <1>4, Samples, Widths
  <2>2. out' = IF pos + 1 = HeaderEnd THEN Value(frame.at) ELSE out
    BY <1>1, <1>2, <1>4, Samples, Widths
  <2>3. CASE pos + 1 = HeaderEnd
    <3>1. ~Effective /\ Effective'
      BY <1>2, <1>3, <1>4, <2>3, Widths
    <3>2. QED
      BY <1>1, <1>4, <2>1, <2>2, <2>3, <3>1 DEF BusState, BusAnswer
  <2>4. CASE pos + 1 # HeaderEnd
    <3>1. Effective' <=> Effective
      BY <1>2, <1>3, <1>4, <2>4, Widths
    <3>2. QED
      BY <1>1, <1>4, <2>1, <2>2, <2>4, <3>1 DEF BusState, BusAnswer
  <2>5. QED
    BY <2>3, <2>4
<1>5. CASE frame.op = "write"
  <2>1. BusAnswer' = BusAnswer
    BY <1>1, <1>5 DEF BusAnswer
  <2>2. CASE pos = DataEnd - 1
    <3>1. ~Effective /\ Effective'
      BY <1>2, <1>3, <1>5, <2>2, Widths
    <3>2. regs' = IF frame.at \in Registers
                  THEN [regs EXCEPT ![frame.at] = frame.word] ELSE regs
      BY <1>5, <2>2, Samples
    <3>3. QED
      BY <1>1, <1>5, <2>1, <3>1, <3>2 DEF BusState
  <2>3. CASE pos # DataEnd - 1
    <3>1. Effective' <=> Effective
      BY <1>2, <1>3, <1>5, <2>3, Widths
    <3>2. regs' = regs
      BY <1>1, <1>2, <2>3, Samples, Widths
    <3>3. QED
      BY <1>1, <2>1, <3>1, <3>2 DEF BusState
  <2>4. QED
    BY <2>2, <2>3
<1>6. QED
  BY <1>2, <1>4, <1>5

(* A read that has ended has got the whole answer. *)
LEMMA AllIsRead ==
  ASSUME FrameInv, pos = Pulses, frame.op = "read"
  PROVE  got = out
<1>1. /\ Len(got) = DataBits
      /\ \A k \in 1..DataBits : k <= Len(got) => got[k] = out[k]
  <2>1. ~(pos <= TurnEnd) /\ ~(pos <= DataEnd)
    BY Widths
  <2> QED
    BY <2>1 DEF FrameInv, AnsweredIsRead
<1>2. got \in [1..DataBits -> Bit] /\ out \in [1..DataBits -> Bit]
  BY <1>1, LenProperties DEF FrameInv, TypeOK, Word
<1>3. \A k \in 1..DataBits : got[k] = out[k]
  BY <1>1, Widths
<1>4. got = [k \in 1..DataBits |-> got[k]] /\ out = [k \in 1..DataBits |-> out[k]]
  BY <1>2
<1>5. [k \in 1..DataBits |-> got[k]] = [k \in 1..DataBits |-> out[k]]
  BY <1>3
<1> QED
  BY <1>4, <1>5, Zenon

(* When a frame starts it has no effect yet, when it ends it has. *)
LEMMA EffectAtEnds ==
  /\ pos = 0 => ~Effective
  /\ pos = Pulses => Effective
BY Widths DEF Effective

(* The initial states map to those of RegisterBus. *)
LEMMA BusInit == Init => Bus!Init
<1> SUFFICES ASSUME Init PROVE Bus!Init
  OBVIOUS
<1>1. frame \in Frames /\ regs \in [Registers -> Word]
  BY FrameInvInit DEF FrameInv, TypeOK
<1>2. BusState = "idle" /\ BusAnswer = Ones
  BY DEF Init, BusState, BusAnswer
<1>3. QED
  BY <1>1, <1>2 DEF Bus!Init, BusState, BusAnswer

(* Each step maps to one of RegisterBus or stutters. *)
LEMMA BusStep == FrameInv /\ [Next]_vars => [Bus!Next]_(Bus!busvars)
<1> SUFFICES ASSUME FrameInv, [Next]_vars PROVE [Bus!Next]_(Bus!busvars)
  OBVIOUS
<1>1. ASSUME NEW f \in Frames, Start(f)
      PROVE  Bus!Begin
  <2>1. /\ ~busy /\ frame' = f /\ busy' = TRUE /\ pos' = 0
        /\ result' = result /\ regs' = regs
    BY <1>1 DEF Start
  <2>2. ~Effective'
    BY <2>1, Widths DEF Effective
  <2>3. QED
    BY <1>1, <2>1, <2>2 DEF Bus!Begin
<1>2. CASE Pulse
  <2>1. frame' = frame
    BY <1>2 DEF Pulse
  <2>2. CASE BusState' = BusState /\ BusAnswer' = BusAnswer /\ regs' = regs
    BY <2>1, <2>2 DEF Bus!busvars, BusState, BusAnswer
  <2>3. CASE /\ frame.op = "read" /\ BusState = "asked" /\ BusState' = "done"
             /\ BusAnswer' = Value(frame.at) /\ regs' = regs
    BY <2>1, <2>3 DEF Bus!Next, Bus!Read, Bus!Value, Value, BusState, BusAnswer
  <2>4. CASE /\ frame.op = "write" /\ BusState = "asked" /\ BusState' = "done"
             /\ BusAnswer' = BusAnswer
             /\ regs' = IF frame.at \in Registers
                        THEN [regs EXCEPT ![frame.at] = frame.word] ELSE regs
    BY <2>1, <2>4 DEF Bus!Next, Bus!Write, BusState, BusAnswer
  <2>5. QED
    BY <1>2, <2>2, <2>3, <2>4, Effect
<1>3. CASE Return
  <2>1. /\ busy /\ ~busy' /\ pos = Pulses /\ frame' = frame /\ regs' = regs
        /\ result' = IF frame.op = "read" THEN got ELSE result
    BY <1>3 DEF Return
  <2>2. Effective
    BY <2>1, EffectAtEnds
  <2>3. frame.op = "read" => got = out
    BY <2>1, AllIsRead
  <2>4. QED
    BY <2>1, <2>2, <2>3 DEF Bus!Next, Bus!End
<1>4. CASE Change
  BY <1>4 DEF Bus!Next, Bus!Change, Change, master, decoder, Effective
<1>5. CASE UNCHANGED vars
  BY <1>5 DEF Bus!busvars, vars, master, decoder, Effective
<1>6. QED
  BY <1>1, <1>2, <1>3, <1>4, <1>5 DEF Next, Bus!Next

(* A frame of pulses is one access of a register bus: the register named,  *)
(* the word sent, the answer that was there, and nothing else.             *)
THEOREM FrameIsAccess == Spec => IsRegisterBus
BY BusInit, BusStep, FrameInvAlways, PTL DEF Spec, IsRegisterBus, Bus!Spec

-----------------------------------------------------------------------------
(* Numbers as bits, and the fields of a command                            *)

(* The powers of two that Bits divides by. *)
LEMMA Powers ==
  /\ 2^0 = 1 /\ 2^1 = 2 /\ 2^2 = 4 /\ 2^3 = 8 /\ 2^4 = 16 /\ 2^5 = 32 /\ 2^6 = 64
  /\ 2^7 = 128 /\ 2^8 = 256 /\ 2^9 = 512 /\ 2^10 = 1024 /\ 2^11 = 2048 /\ 2^12 = 4096
  /\ 2^13 = 8192 /\ 2^14 = 16384 /\ 2^15 = 32768
BY SMT

(* They are positive. *)
LEMMA PowerIs ==
  ASSUME NEW k \in 0..15
  PROVE  2^k \in Nat \ {0}
<1>1. \/ k = 0 \/ k = 1 \/ k = 2 \/ k = 3 \/ k = 4 \/ k = 5 \/ k = 6 \/ k = 7 \/ k = 8
      \/ k = 9 \/ k = 10 \/ k = 11 \/ k = 12 \/ k = 13 \/ k = 14 \/ k = 15
  BY SMT
<1>2. /\ 2^0 \in Nat \ {0}
      /\ 2^1 \in Nat \ {0}
      /\ 2^2 \in Nat \ {0}
      /\ 2^3 \in Nat \ {0}
      /\ 2^4 \in Nat \ {0}
      /\ 2^5 \in Nat \ {0}
      /\ 2^6 \in Nat \ {0}
      /\ 2^7 \in Nat \ {0}
      /\ 2^8 \in Nat \ {0}
      /\ 2^9 \in Nat \ {0}
      /\ 2^10 \in Nat \ {0}
      /\ 2^11 \in Nat \ {0}
      /\ 2^12 \in Nat \ {0}
      /\ 2^13 \in Nat \ {0}
      /\ 2^14 \in Nat \ {0}
      /\ 2^15 \in Nat \ {0}
  BY SMT
<1>3. CASE k = 0
  BY <1>3, <1>2, Zenon
<1>4. CASE k = 1
  BY <1>4, <1>2, Zenon
<1>5. CASE k = 2
  BY <1>5, <1>2, Zenon
<1>6. CASE k = 3
  BY <1>6, <1>2, Zenon
<1>7. CASE k = 4
  BY <1>7, <1>2, Zenon
<1>8. CASE k = 5
  BY <1>8, <1>2, Zenon
<1>9. CASE k = 6
  BY <1>9, <1>2, Zenon
<1>10. CASE k = 7
  BY <1>10, <1>2, Zenon
<1>11. CASE k = 8
  BY <1>11, <1>2, Zenon
<1>12. CASE k = 9
  BY <1>12, <1>2, Zenon
<1>13. CASE k = 10
  BY <1>13, <1>2, Zenon
<1>14. CASE k = 11
  BY <1>14, <1>2, Zenon
<1>15. CASE k = 12
  BY <1>15, <1>2, Zenon
<1>16. CASE k = 13
  BY <1>16, <1>2, Zenon
<1>17. CASE k = 14
  BY <1>17, <1>2, Zenon
<1>18. CASE k = 15
  BY <1>18, <1>2, Zenon
<1> QED
  BY <1>1, <1>3, <1>4, <1>5, <1>6, <1>7, <1>8, <1>9,
     <1>10, <1>11, <1>12, <1>13, <1>14, <1>15, <1>16, <1>17, <1>18

(* A digit is a bit. *)
LEMMA BitOf ==
  ASSUME NEW n \in Nat, NEW p \in Nat \ {0}
  PROVE  (n \div p) % 2 \in Bit
BY SMT DEF Bit

(* A number is sent as bits. *)
LEMMA BitsTyped ==
  ASSUME NEW n \in Nat, NEW w \in {5, 16}
  PROVE  Bits(n, w) \in [1..w -> Bit]
<1>1. ASSUME NEW i \in 1..w
      PROVE  (n \div 2^(w - i)) % 2 \in Bit
  <2>1. w - i \in 0..15
    BY SMT
  <2> QED
    BY <2>1, PowerIs, BitOf
<1> QED
  BY <1>1 DEF Bits

(* The command and the data register are two registers. *)
LEMMA Addresses ==
  /\ GLOBAL2 \in Nat /\ CMD \in Nat /\ DATA \in Nat
  /\ CmdAt # DataAt
<1>1. GLOBAL2 = 28 /\ CMD = 24 /\ DATA = 25
  BY SMT DEF GLOBAL2, CMD, DATA
<1>2. Bits(24, 5)[5] = 0 /\ Bits(25, 5)[5] = 1
  BY Powers, SMT DEF Bits
<1> QED
  BY <1>1, <1>2, SmiAssumption DEF CmdAt, DataAt

(* The digit of a number with the weight p                                 *)
Digit(n, p) == (n \div p) % 2

(* A command says what is done, c, with which device and which register    *)
Says(k, c, a, r) == k \in Nat /\ k % 32 = r % 32 /\ k \div 32 = c + (a % 32)

(* The last five digits of a number depend on its remainder by 32 only. *)
LEMMA LastDigits ==
  ASSUME NEW n \in Nat, NEW m \in Nat, m % 32 = n % 32
  PROVE  /\ Digit(m, 16) = Digit(n, 16)
         /\ Digit(m, 8) = Digit(n, 8)
         /\ Digit(m, 4) = Digit(n, 4)
         /\ Digit(m, 2) = Digit(n, 2)
         /\ Digit(m, 1) = Digit(n, 1)
<1>1. Digit(m, 16) = Digit(n, 16)
  BY SMTT(30) DEF Digit
<1>2. Digit(m, 8) = Digit(n, 8)
  BY SMTT(30) DEF Digit
<1>3. Digit(m, 4) = Digit(n, 4)
  BY SMTT(30) DEF Digit
<1>4. Digit(m, 2) = Digit(n, 2)
  BY SMTT(30) DEF Digit
<1>5. Digit(m, 1) = Digit(n, 1)
  BY SMTT(30) DEF Digit
<1> QED
  BY <1>1, <1>2, <1>3, <1>4, <1>5

(* Where the numbers of a device and of a register are in a command. *)
LEMMA Fields ==
  ASSUME NEW c \in {1216, 1184}, NEW a \in Nat, NEW r \in Nat,
         NEW k, Says(k, c, a, r)
  PROVE  /\ Digit(k, 32768) = 1
         /\ Digit(k, 2048) = IF c = 1216 THEN 1 ELSE 0
         /\ Digit(k, 512) = Digit(a, 16)
         /\ Digit(k, 256) = Digit(a, 8)
         /\ Digit(k, 128) = Digit(a, 4)
         /\ Digit(k, 64) = Digit(a, 2)
         /\ Digit(k, 32) = Digit(a, 1)
         /\ Digit(k, 16) = Digit(r, 16)
         /\ Digit(k, 8) = Digit(r, 8)
         /\ Digit(k, 4) = Digit(r, 4)
         /\ Digit(k, 2) = Digit(r, 2)
         /\ Digit(k, 1) = Digit(r, 1)
<1> DEFINE u == k \div 32
<1>0. k \in Nat /\ k % 32 = r % 32 /\ k \div 32 = c + (a % 32)
  BY DEF Says
<1>1. a % 32 \in 0..31
  BY SMT
<1>2. u = c + (a % 32) /\ u \in Nat
  BY <1>0, <1>1
<1>3. /\ Digit(k, 16) = Digit(r, 16) /\ Digit(k, 8) = Digit(r, 8)
      /\ Digit(k, 4) = Digit(r, 4) /\ Digit(k, 2) = Digit(r, 2)
      /\ Digit(k, 1) = Digit(r, 1)
  BY <1>0, LastDigits
<1>4. /\ k \div 512 = u \div 16 /\ k \div 256 = u \div 8 /\ k \div 128 = u \div 4
      /\ k \div 64 = u \div 2 /\ k \div 32 = u \div 1
      /\ k \div 2048 = u \div 64 /\ k \div 32768 = u \div 1024
  BY <1>0, SMTT(30)
<1>5. /\ Digit(u, 16) = Digit(a, 16) /\ Digit(u, 8) = Digit(a, 8)
      /\ Digit(u, 4) = Digit(a, 4) /\ Digit(u, 2) = Digit(a, 2)
      /\ Digit(u, 1) = Digit(a, 1)
  <2>1. u % 32 = a % 32 /\ u \in Nat
    BY <1>1, <1>2, SMT
  <2> HIDE DEF u
  <2> QED
    BY <2>1, LastDigits
<1>6. Digit(u, 64) = IF c = 1216 THEN 1 ELSE 0
  BY <1>1, <1>2, SMTT(30) DEF Digit
<1>7. Digit(u, 1024) = 1
  BY <1>1, <1>2, SMTT(30) DEF Digit
<1>8. /\ Digit(k, 512) = Digit(u, 16) /\ Digit(k, 256) = Digit(u, 8)
      /\ Digit(k, 128) = Digit(u, 4) /\ Digit(k, 64) = Digit(u, 2)
      /\ Digit(k, 32) = Digit(u, 1)
      /\ Digit(k, 2048) = Digit(u, 64) /\ Digit(k, 32768) = Digit(u, 1024)
  BY <1>4 DEF Digit
<1> QED
  BY <1>3, <1>5, <1>6, <1>7, <1>8

(* A number of five bits, bit by bit. *)
LEMMA FiveBits ==
  ASSUME NEW n \in Nat
  PROVE  /\ Bits(n, 5) \in [1..5 -> Bit]
         /\ Bits(n, 5)[1] = Digit(n, 16) /\ Bits(n, 5)[2] = Digit(n, 8)
         /\ Bits(n, 5)[3] = Digit(n, 4) /\ Bits(n, 5)[4] = Digit(n, 2)
         /\ Bits(n, 5)[5] = Digit(n, 1)
<1>1. /\ Bits(n, 5)[1] = Digit(n, 16) /\ Bits(n, 5)[2] = Digit(n, 8)
      /\ Bits(n, 5)[3] = Digit(n, 4) /\ Bits(n, 5)[4] = Digit(n, 2)
      /\ Bits(n, 5)[5] = Digit(n, 1)
  BY SMT DEF Bits, Digit
<1> QED
  BY <1>1, BitsTyped

(* A command has the busy bit set, says what is done, and with which       *)
(* SERDES register.                                                        *)
LEMMA CommandFields ==
  ASSUME NEW op \in Operations, op.do \in {"SERDES_read", "SERDES_write"}
  PROVE  /\ Command(op) \in Nat
         /\ Bits(Command(op), 16)[1] = 1
         /\ Bits(Command(op), 16)[5] = 1 <=> op.do = "SERDES_read"
         /\ SubSeq(Bits(Command(op), 16), 7, 11) = Bits(op.addr, 5)
         /\ SubSeq(Bits(Command(op), 16), 12, 16) = Bits(op.reg, 5)
<1> DEFINE a == op.addr
           r == op.reg
           k == Command(op)
           c == IF op.do = "SERDES_read" THEN 1216 ELSE 1184
           w == Bits(k, 16)
<1>1. a \in Nat /\ r \in Nat /\ c \in {1216, 1184}
  BY DEF Operations, Pause
<1>2. k = 32 * c + ((a % 32) * 32) + (r % 32)
  <2>1. \h9800 = 32 * 1216 /\ \h9400 = 32 * 1184
    BY SMT
  <2> QED
    BY <2>1 DEF Command
<1>3. k \in Nat /\ Says(k, c, a, r)
  <2> HIDE DEF k, a, r, c
  <2> QED
    BY <1>1, <1>2, SMT DEF Says
<1> HIDE DEF k, c, a, r, w
<1>4. /\ Digit(k, 32768) = 1
      /\ Digit(k, 2048) = IF c = 1216 THEN 1 ELSE 0
      /\ Digit(k, 512) = Digit(a, 16) /\ Digit(k, 256) = Digit(a, 8)
      /\ Digit(k, 128) = Digit(a, 4) /\ Digit(k, 64) = Digit(a, 2)
      /\ Digit(k, 32) = Digit(a, 1)
      /\ Digit(k, 16) = Digit(r, 16) /\ Digit(k, 8) = Digit(r, 8)
      /\ Digit(k, 4) = Digit(r, 4) /\ Digit(k, 2) = Digit(r, 2)
      /\ Digit(k, 1) = Digit(r, 1)
  BY <1>1, <1>3, Fields
<1>5. /\ w[1] = Digit(k, 32768) /\ w[5] = Digit(k, 2048)
      /\ w[7] = Digit(k, 512) /\ w[8] = Digit(k, 256) /\ w[9] = Digit(k, 128)
      /\ w[10] = Digit(k, 64) /\ w[11] = Digit(k, 32)
      /\ w[12] = Digit(k, 16) /\ w[13] = Digit(k, 8) /\ w[14] = Digit(k, 4)
      /\ w[15] = Digit(k, 2) /\ w[16] = Digit(k, 1)
  BY SMT DEF Bits, Digit, w
<1>6. w \in [1..16 -> Bit]
  BY <1>3, BitsTyped DEF w
<1>7. /\ SubSeq(w, 7, 11) = [i \in 1..5 |-> w[i + 6]]
      /\ SubSeq(w, 12, 16) = [i \in 1..5 |-> w[i + 11]]
  BY <1>6
<1>8. SubSeq(w, 7, 11) = Bits(a, 5)
  <2>1. /\ w[7] = Bits(a, 5)[1] /\ w[8] = Bits(a, 5)[2] /\ w[9] = Bits(a, 5)[3]
        /\ w[10] = Bits(a, 5)[4] /\ w[11] = Bits(a, 5)[5]
    BY <1>1, <1>4, <1>5, FiveBits
  <2>2. ASSUME NEW i \in 1..5
        PROVE  w[i + 6] = Bits(a, 5)[i]
    <3>1. i = 1 \/ i = 2 \/ i = 3 \/ i = 4 \/ i = 5
      OBVIOUS
    <3> QED
      BY <2>1, <3>1
  <2> QED
    BY <1>1, <1>7, <2>2, FiveBits
<1>9. SubSeq(w, 12, 16) = Bits(r, 5)
  <2>1. /\ w[12] = Bits(r, 5)[1] /\ w[13] = Bits(r, 5)[2] /\ w[14] = Bits(r, 5)[3]
        /\ w[15] = Bits(r, 5)[4] /\ w[16] = Bits(r, 5)[5]
    BY <1>1, <1>4, <1>5, FiveBits
  <2>2. ASSUME NEW i \in 1..5
        PROVE  w[i + 11] = Bits(r, 5)[i]
    <3>1. i = 1 \/ i = 2 \/ i = 3 \/ i = 4 \/ i = 5
      OBVIOUS
    <3> QED
      BY <2>1, <3>1
  <2> QED
    BY <1>1, <1>7, <2>2, FiveBits
<1>10. w[1] = 1 /\ (w[5] = 1 <=> op.do = "SERDES_read")
  BY <1>4, <1>5 DEF c
<1> QED
  BY <1>3, <1>8, <1>9, <1>10 DEF w, k, a, r

-----------------------------------------------------------------------------
(* The programs of the tools                                               *)

(* What is left of the steps of an operation, with op.do = do              *)
Rests(tool, do) ==
  CASE do = "read" -> {<<"read">>}
    [] do = "write" -> {<<"write">>}
    [] do = "C_mode" -> {<<"read", "mode">>, <<"mode">>}
    [] do = "pause" -> {<<"pause">>}
    [] do = "SERDES_read" ->
         {IF tool = "mar28b" THEN <<"poll", "command", "poll", "fetch">>
                             ELSE <<"clear", "command", "poll", "fetch">>,
          <<"command", "poll", "fetch">>, <<"poll", "fetch">>, <<"fetch">>}
    [] do = "SERDES_write" /\ tool = "mar28b" ->
         {<<"poll", "data", "poll", "command", "poll">>,
          <<"data", "poll", "command", "poll">>, <<"poll", "command", "poll">>,
          <<"command", "poll">>, <<"poll">>}
    [] do = "SERDES_write" /\ tool # "mar28b" ->
         {<<"poll", "data", "poll", "command">>,
          <<"data", "poll", "command">>, <<"poll", "command">>, <<"command">>}

ProgramInv ==
  /\ program \in Seq(Operations)
  /\ steps \in IF program = <<>> THEN {<<>>} ELSE Rests(sketch, Op.do)
  /\ cleared => Step = "clear"

(* The frame that runs is that of the step                                 *)
CallInv ==
  busy =>
    /\ Running
    /\ cleared => frame = Access("write", GLOBAL2, DATA, 0)
    /\ InLoop /\ ~cleared => frame = Access("read", GLOBAL2, CMD, 0)
    /\ Step = "data" => frame = Access("write", GLOBAL2, DATA, Op.word)
    /\ Step = "command" => /\ frame = Access("write", GLOBAL2, CMD, Command(Op))
                           /\ asked # <<>> /\ asked[Len(asked)] = Op
    /\ Step = "fetch" => frame = Access("read", GLOBAL2, DATA, 0)
    /\ Step \in {"read", "write", "mode"} /\ frame.op = "write" =>
         frame.at \notin {CmdAt, DataAt}
    /\ Step # "pause"

(* A command has been asked for and has not reached the switch             *)
Sending == busy /\ Step = "command" /\ ~Effective
(* ... or has just reached it                                              *)
Given == busy /\ Step = "command" /\ Effective

One(condition) == IF condition THEN 1 ELSE 0

(* Operations are done, with the switch or on the way to it; one is lost   *)
(* only when a loop gives up                                               *)
CountInv ==
  /\ asked \in Seq(Operations) /\ executed \in Nat /\ gaveup \in Nat
  /\ executed + One(Busy) + One(Sending) <= Len(asked)
  /\ gaveup = 0 => executed + One(Busy) + One(Sending) = Len(asked)

(* What the last poll has read                                             *)
PollInv == busy /\ InLoop /\ ~cleared /\ Effective /\ out[1] = 0 => ~Busy

(* The data of a SERDES write is with the switch, but not its command      *)
LoadedSteps == {<<"poll", "command", "poll">>, <<"command", "poll">>,
                <<"poll", "command">>, <<"command">>}
Loaded == steps \in LoadedSteps \/ (Step = "data" /\ busy /\ Effective)

(* The command of a SERDES read is with the switch, its data not yet read  *)
FetchSteps == {<<"poll", "fetch">>, <<"fetch">>}

(* A SERDES read waits for somebody else's pause                           *)
ReadsWait(p) ==
  \A j \in 1..Len(p) :
    p[j].do = "SERDES_read" => \E k \in 1..(j - 1) : p[k].do = "pause"

SerdesAt(op) == <<Bits(op.addr, AddrBits), Bits(op.reg, RegBits)>>

(* Until a loop gives up: the switch is idle when its registers are        *)
(* written or the data fetched; ...                                        *)
IdleInv ==
  /\ Step \in {"data", "command", "fetch", "clear"} /\ ~Given => ~Busy
  /\ Busy /\ Running /\ Op.do # "SERDES_read" => ReadsWait(program)
(* ... what it is doing is what was asked last, with its own data; ...     *)
LastInv ==
  /\ SerdesInOrder
  /\ Busy => asked[Len(asked)].do \in {"SERDES_read", "SERDES_write"}
  /\ Loaded /\ ~Given => ~Busy /\ regs[DataAt] = Bits(Op.word, DataBits)
(* ... and what it has read stays until it is fetched                      *)
FetchInv ==
  Running /\ Op.do = "SERDES_read"
    /\ (steps \in FetchSteps \/ Given) =>
    /\ asked # <<>> /\ asked[Len(asked)] = Op
    /\ ~Busy => regs[DataAt] = SerdesValue(SerdesAt(Op))
    /\ busy /\ Step = "fetch" /\ Effective => out = SerdesValue(SerdesAt(Op))

SerdesInv ==
  /\ Orderly(program) /\ CallInv /\ CountInv /\ PollInv
  /\ gaveup = 0 => IdleInv /\ LastInv /\ FetchInv

(* What an operation is made of. *)
LEMMA OperationTyped ==
  ASSUME NEW op \in Operations
  PROVE  /\ op.do \in {"read", "write", "SERDES_read", "SERDES_write", "C_mode", "pause"}
         /\ op.do # "pause" => op.addr \in Nat /\ op.reg \in Nat /\ op.word \in Nat
BY DEF Operations, Pause

(* What is left of the steps tells the operation and its place in it. *)
LEMMA Shape ==
  ASSUME ProgramInv, Running
  PROVE  /\ program \in Seq(Operations) /\ Op \in Operations
         /\ \/ Op.do = "read" /\ steps = <<"read">>
            \/ Op.do = "write" /\ steps = <<"write">>
            \/ Op.do = "C_mode" /\ steps \in {<<"read", "mode">>, <<"mode">>}
            \/ Op.do = "pause" /\ steps = <<"pause">>
            \/ Op.do = "SERDES_read" /\ steps \in
                 {<<"poll", "command", "poll", "fetch">>,
                  <<"clear", "command", "poll", "fetch">>,
                  <<"command", "poll", "fetch">>, <<"poll", "fetch">>, <<"fetch">>}
            \/ Op.do = "SERDES_write" /\ steps \in
                 {<<"poll", "data", "poll", "command", "poll">>,
                  <<"data", "poll", "command", "poll">>,
                  <<"poll", "command", "poll">>, <<"command", "poll">>, <<"poll">>,
                  <<"poll", "data", "poll", "command">>,
                  <<"data", "poll", "command">>, <<"poll", "command">>,
                  <<"command">>}
         /\ Step = Head(steps)
<1>1. program \in Seq(Operations) /\ program # <<>> /\ steps \in Rests(sketch, Op.do)
  BY DEF ProgramInv, Running
<1>2. Op \in Operations
  BY <1>1, HeadTailProperties DEF Op
<1>3. Step = Head(steps)
  BY DEF Step
<1>4. CASE Op.do = "SERDES_read"
  BY <1>1, <1>2, <1>3, <1>4 DEF Rests
<1>5. CASE Op.do = "SERDES_write"
  BY <1>1, <1>2, <1>3, <1>5 DEF Rests
<1>6. CASE Op.do \in {"read", "write", "C_mode", "pause"}
  BY <1>1, <1>2, <1>3, <1>6 DEF Rests
<1> QED
  BY <1>2, <1>4, <1>5, <1>6, OperationTyped

(* The step that is next tells the operation. *)
LEMMA StepTells ==
  ASSUME ProgramInv
  PROVE  /\ Running <=> Step # "none"
         /\ Running => Step \in {"read", "write", "mode", "pause", "poll", "clear",
                                 "data", "command", "fetch"}
         /\ Step = "read" => Op.do \in {"read", "C_mode"}
         /\ Step = "write" => Op.do = "write"
         /\ Step = "mode" => Op.do = "C_mode"
         /\ Step = "pause" <=> Running /\ Op.do = "pause"
         /\ Step = "poll" => Op.do \in {"SERDES_read", "SERDES_write"}
         /\ Step = "clear" => Op.do = "SERDES_read"
         /\ Step = "clear" => steps = <<"clear", "command", "poll", "fetch">>
         /\ Step = "data" => Op.do = "SERDES_write"
         /\ Step = "data" => steps \in {<<"data", "poll", "command", "poll">>,
                                        <<"data", "poll", "command">>}
         /\ Step = "command" => Op.do \in {"SERDES_read", "SERDES_write"}
         /\ Step = "command" /\ Op.do = "SERDES_write" =>
              steps \in {<<"command", "poll">>, <<"command">>}
         /\ Step = "command" /\ Op.do = "SERDES_read" =>
              steps = <<"command", "poll", "fetch">>
         /\ Step = "fetch" => Op.do = "SERDES_read" /\ steps = <<"fetch">>
<1>1. CASE ~Running
  BY <1>1 DEF Step
<1>2. CASE Running
  BY <1>2, Shape
<1> QED
  BY <1>1, <1>2

-----------------------------------------------------------------------------
(* The steps of an operation                                               *)

(* What is left of the steps after the first. *)
LEMMA Tails ==
  /\ Tail(<<"read", "mode">>) = <<"mode">>
  /\ Tail(<<"poll", "command", "poll", "fetch">>) =
       <<"command", "poll", "fetch">>
  /\ Tail(<<"clear", "command", "poll", "fetch">>) =
       <<"command", "poll", "fetch">>
  /\ Tail(<<"command", "poll", "fetch">>) = <<"poll", "fetch">>
  /\ Tail(<<"poll", "fetch">>) = <<"fetch">>
  /\ Tail(<<"poll", "data", "poll", "command", "poll">>) =
       <<"data", "poll", "command", "poll">>
  /\ Tail(<<"data", "poll", "command", "poll">>) =
       <<"poll", "command", "poll">>
  /\ Tail(<<"poll", "command", "poll">>) = <<"command", "poll">>
  /\ Tail(<<"command", "poll">>) = <<"poll">>
  /\ Tail(<<"poll", "data", "poll", "command">>) =
       <<"data", "poll", "command">>
  /\ Tail(<<"data", "poll", "command">>) = <<"poll", "command">>
  /\ Tail(<<"poll", "command">>) = <<"command">>
OBVIOUS

(* All that is left after a step is left of the same operation. *)
LEMMA RestsTail ==
  ASSUME NEW tool, NEW do \in {"read", "write", "SERDES_read", "SERDES_write",
                               "C_mode", "pause"},
         NEW s \in Rests(tool, do), Len(s) > 1
  PROVE  Tail(s) \in Rests(tool, do)
<1>1. CASE do \in {"read", "write", "pause"}
  <2>1. s \in {<<"read">>, <<"write">>, <<"pause">>}
    BY <1>1 DEF Rests
  <2>2. Len(s) = 1
    BY <2>1
  <2> QED
    BY <2>2
<1>2. CASE do = "C_mode"
  <2>1. /\ s \in {<<"read", "mode">>, <<"mode">>}
        /\ <<"mode">> \in Rests(tool, do)
    BY <1>2 DEF Rests
  <2>2. s = <<"read", "mode">>
    BY <2>1
  <2> QED
    BY <2>1, <2>2, Tails
<1>3. CASE do = "SERDES_read"
  <2>1. /\ s \in {<<"poll", "command", "poll", "fetch">>,
                  <<"clear", "command", "poll", "fetch">>,
                  <<"command", "poll", "fetch">>, <<"poll", "fetch">>, <<"fetch">>}
        /\ {<<"command", "poll", "fetch">>, <<"poll", "fetch">>, <<"fetch">>}
             \subseteq Rests(tool, do)
    BY <1>3 DEF Rests
  <2>2. s # <<"fetch">>
    OBVIOUS
  <2> QED
    BY <2>1, <2>2, Tails
<1>4. CASE do = "SERDES_write" /\ tool = "mar28b"
  <2>1. Rests(tool, do) = {<<"poll", "data", "poll", "command", "poll">>,
                           <<"data", "poll", "command", "poll">>,
                           <<"poll", "command", "poll">>, <<"command", "poll">>,
                           <<"poll">>}
    BY <1>4 DEF Rests
  <2>2. s # <<"poll">>
    OBVIOUS
  <2> QED
    BY <2>1, <2>2, Tails
<1>5. CASE do = "SERDES_write" /\ tool # "mar28b"
  <2>1. Rests(tool, do) = {<<"poll", "data", "poll", "command">>,
                           <<"data", "poll", "command">>, <<"poll", "command">>,
                           <<"command">>}
    BY <1>5 DEF Rests
  <2>2. s # <<"command">>
    OBVIOUS
  <2> QED
    BY <2>1, <2>2, Tails
<1> QED
  BY <1>1, <1>2, <1>3, <1>4, <1>5

(* The next operation starts with the first of its steps. *)
LEMMA RoutineRests ==
  ASSUME NEW op \in Operations
  PROVE  Routine(sketch, op) \in Rests(sketch, op.do)
<1>1. CASE op.do = "SERDES_read"
  BY <1>1 DEF Routine, Rests
<1>2. CASE op.do = "SERDES_write"
  BY <1>2 DEF Routine, Rests
<1>3. CASE op.do \in {"read", "write", "C_mode", "pause"}
  BY <1>3 DEF Routine, Rests
<1> QED
  BY <1>1, <1>2, <1>3, OperationTyped

(* Where Advance goes: to the next step, to the next operation, or to the  *)
(* end.                                                                    *)
LEMMA Moves ==
  ASSUME ProgramInv, Running, NEW left, Advance(left), sketch' = sketch
  PROVE  \/ /\ Len(steps) > 1 /\ steps' = Tail(steps) /\ program' = program
            /\ Running' /\ Op' = Op
         \/ /\ Len(steps) = 1 /\ Len(program) > 1
            /\ program' = Tail(program) /\ Running'
            /\ Op' = program[2] /\ Op' \in Operations
            /\ steps' = Routine(sketch, Op')
         \/ Len(steps) = 1 /\ program' = <<>> /\ steps' = <<>> /\ ~Running'
<1>1. Len(steps) > 1 \/ Len(steps) = 1
  <2> DEFINE l == Len(steps)
  <2>1. l \in {1, 2, 3, 4, 5}
    BY Shape
  <2> HIDE DEF l
  <2>2. l > 1 \/ l = 1
    BY <2>1
  <2> QED
    BY <2>2 DEF l
<1>2. program \in Seq(Operations) /\ program # <<>>
  BY DEF ProgramInv, Running
<1>3. CASE Len(steps) > 1
  BY <1>2, <1>3 DEF Advance, Running, Op
<1>4. CASE Len(steps) = 1 /\ Len(program) > 1
  <2>1. program' = Tail(program) /\ steps' = Routine(sketch, program[2])
    BY <1>4 DEF Advance
  <2>2. Head(Tail(program)) = program[2] /\ program[2] \in Operations
        /\ Tail(program) # <<>>
    BY <1>2, <1>4
  <2> QED
    BY <1>4, <2>1, <2>2 DEF Running, Op
<1>5. CASE Len(steps) = 1 /\ ~(Len(program) > 1)
  BY <1>5 DEF Advance, Finish, Running
<1> QED
  BY <1>1, <1>3, <1>4, <1>5, Zenon

(* The steps of a program stay those of its first operation. *)
LEMMA AdvanceProgram ==
  ASSUME ProgramInv, Running, NEW left, Advance(left), sketch' = sketch, ~cleared'
  PROVE  ProgramInv'
<1>1. CASE /\ Len(steps) > 1 /\ steps' = Tail(steps) /\ program' = program
           /\ Running' /\ Op' = Op
  <2>1. Tail(steps) \in Rests(sketch, Op.do)
    <3>1. steps \in Rests(sketch, Op.do) /\ Len(steps) > 1
      BY <1>1 DEF ProgramInv, Running
    <3> QED
      BY <3>1, RestsTail, Shape, OperationTyped
  <2> QED
    BY <1>1, <2>1 DEF ProgramInv, Running
<1>2. CASE /\ Len(steps) = 1 /\ Len(program) > 1
           /\ program' = Tail(program) /\ Running'
           /\ Op' = program[2] /\ Op' \in Operations
           /\ steps' = Routine(sketch, Op')
  <2>1. Tail(program) \in Seq(Operations)
    BY <1>2 DEF ProgramInv
  <2>2. Routine(sketch, Op') \in Rests(sketch, (Op').do)
    BY <1>2, RoutineRests
  <2> QED
    BY <1>2, <2>1, <2>2 DEF ProgramInv, Running
<1>3. CASE program' = <<>> /\ steps' = <<>>
  BY <1>3 DEF ProgramInv
<1> QED
  BY <1>1, <1>2, <1>3, Moves

-----------------------------------------------------------------------------
(* The accesses of the steps                                               *)

(* What an access is made of. *)
LEMMA AccessFields ==
  ASSUME NEW a, NEW r, NEW w, NEW o
  PROVE  /\ Access(o, a, r, w).op = o
         /\ Access(o, a, r, w).at = <<Bits(a, AddrBits), Bits(r, RegBits)>>
         /\ Access(o, a, r, w).word = Bits(w, DataBits)
BY DEF Access

(* An access of an operation is a frame. *)
LEMMA AccessTyped ==
  ASSUME NEW a \in Nat, NEW r \in Nat, NEW w \in Nat, NEW o \in {"read", "write"}
  PROVE  Access(o, a, r, w) \in Frames
<1>1. /\ Bits(a, 5) \in Addr /\ Bits(r, 5) \in Reg /\ Bits(w, 16) \in Word
  BY BitsTyped, SmiAssumption DEF Addr, Reg, Word
<1> QED
  BY <1>1, SmiAssumption DEF Access, Frames

(* The accesses of the command and of the data register. *)
LEMMA SwitchFrames ==
  ASSUME NEW n, NEW o
  PROVE  /\ Access(o, GLOBAL2, CMD, n).op = o
         /\ Access(o, GLOBAL2, CMD, n).at = CmdAt
         /\ Access(o, GLOBAL2, CMD, n).word = Bits(n, DataBits)
         /\ Access(o, GLOBAL2, DATA, n).op = o
         /\ Access(o, GLOBAL2, DATA, n).at = DataAt
         /\ Access(o, GLOBAL2, DATA, n).word = Bits(n, DataBits)
BY AccessFields DEF CmdAt, DataAt

(* The access that a step makes, step by step. *)
LEMMA AccessIs ==
  ASSUME ProgramInv, Running, result \in Word, Step # "pause"
  PROVE  /\ AccessOf \in Frames
         /\ Step \in {"read", "write", "mode"} =>
              AccessOf.at = Access("write", Op.addr, Op.reg, 0).at
         /\ Step = "read" => AccessOf.op = "read"
         /\ Step = "clear" /\ ~cleared => AccessOf = Access("write", GLOBAL2, DATA, 0)
         /\ InLoop /\ (Step = "clear" => cleared) =>
              AccessOf = Access("read", GLOBAL2, CMD, 0)
         /\ Step = "data" => AccessOf = Access("write", GLOBAL2, DATA, Op.word)
         /\ Step = "command" => AccessOf = Access("write", GLOBAL2, CMD, Command(Op))
         /\ Step = "fetch" => AccessOf = Access("read", GLOBAL2, DATA, 0)
<1>1. Step \in {"read", "write", "mode", "poll", "clear", "data", "command", "fetch"}
  BY StepTells
<1>2. Op \in Operations /\ Op.do # "pause"
  BY StepTells, Shape
<1>3. Op.addr \in Nat /\ Op.reg \in Nat /\ Op.word \in Nat
  BY <1>2, OperationTyped
<1>4. CASE Step = "read"
  <2>1. AccessOf = Access("read", Op.addr, Op.reg, 0)
    BY <1>4 DEF AccessOf
  <2>2. AccessOf \in Frames
    BY <1>3, <2>1, AccessTyped
  <2>3. /\ AccessOf.at = Access("write", Op.addr, Op.reg, 0).at
        /\ Step = "read" => AccessOf.op = "read"
    BY <1>4, <2>1, AccessFields
  <2> QED
    BY <1>4, <2>2, <2>3 DEF InLoop
<1>5. CASE Step = "write"
  <2>1. AccessOf = Access("write", Op.addr, Op.reg, Op.word)
    BY <1>5 DEF AccessOf
  <2>2. AccessOf \in Frames
    BY <1>3, <2>1, AccessTyped
  <2>3. /\ AccessOf.at = Access("write", Op.addr, Op.reg, 0).at
        /\ Step = "read" => AccessOf.op = "read"
    BY <1>5, <2>1, AccessFields
  <2> QED
    BY <1>5, <2>2, <2>3 DEF InLoop
<1>6. CASE Step = "mode"
  <2> DEFINE f == Access("write", Op.addr, Op.reg, 0)
  <2>1. AccessOf = [f EXCEPT !.word = WithMode(result, Op.word)]
    BY <1>6 DEF AccessOf
  <2>2. f \in Frames
    BY <1>3, AccessTyped
  <2>3. WithMode(result, Op.word) \in Word
    <3>1. Bits(Op.word, 16) \in [1..16 -> Bit] /\ DataBits = 16
      BY <1>3, BitsTyped, SmiAssumption
    <3> QED
      BY <3>1 DEF WithMode, Word
  <2> QED
    BY <1>6, <2>1, <2>2, <2>3 DEF InLoop, Frames
<1>7. CASE Step = "clear" /\ ~cleared
  <2>1. AccessOf = Access("write", GLOBAL2, DATA, 0)
    BY <1>7 DEF AccessOf
  <2> QED
    BY <1>7, <2>1, AccessTyped, Addresses DEF InLoop
<1>8. CASE Step = "poll" \/ (Step = "clear" /\ cleared)
  <2>1. AccessOf = Access("read", GLOBAL2, CMD, 0)
    BY <1>8 DEF AccessOf, InLoop
  <2> QED
    BY <1>8, <2>1, AccessTyped, Addresses DEF InLoop
<1>9. CASE Step = "data"
  <2>1. AccessOf = Access("write", GLOBAL2, DATA, Op.word)
    BY <1>9 DEF AccessOf, InLoop
  <2> QED
    BY <1>3, <1>9, <2>1, AccessTyped, Addresses DEF InLoop
<1>10. CASE Step = "command"
  <2>1. AccessOf = Access("write", GLOBAL2, CMD, Command(Op))
    BY <1>10 DEF AccessOf, InLoop
  <2>2. Command(Op) \in Nat
    BY <1>2, <1>10, StepTells, CommandFields
  <2> QED
    BY <1>10, <2>1, <2>2, AccessTyped, Addresses DEF InLoop
<1>11. CASE Step = "fetch"
  <2>1. AccessOf = Access("read", GLOBAL2, DATA, 0)
    BY <1>11 DEF AccessOf, InLoop
  <2> QED
    BY <1>11, <2>1, AccessTyped, Addresses DEF InLoop
<1> QED
  BY <1>1, <1>4, <1>5, <1>6, <1>7, <1>8, <1>9, <1>10, <1>11

-----------------------------------------------------------------------------
(* What holds of the tools whatever their programs are                     *)
ToolInv == FrameInv /\ ProgramInv /\ serdes \in [SerdesRegs -> Word]

(* What a SERDES register is read as is a word. *)
LEMMA SerdesTyped ==
  ASSUME ToolInv, NEW at
  PROVE  SerdesValue(at) \in Word
BY SmiFrameAssumption DEF ToolInv, SerdesValue, Ones, Word, Bit

(* What the switch does to its own registers: the busy bit is cleared, and *)
(* a read leaves what it has found in the data register.                   *)
LEMMA Executed ==
  ASSUME ToolInv, Execute
  PROVE  /\ Change
         /\ ~Busy' /\ executed' = executed + 1
         /\ LET cmd == regs[CmdAt]
                at == <<SubSeq(cmd, 7, 11), SubSeq(cmd, 12, 16)>>
            IN IF cmd[5] = 1
               THEN regs'[DataAt] = SerdesValue(at) /\ serdes' = serdes
               ELSE /\ regs'[DataAt] = regs[DataAt]
                    /\ serdes' = IF at \in SerdesRegs
                                 THEN [serdes EXCEPT ![at] = regs[DataAt]]
                                 ELSE serdes
         /\ serdes' \in [SerdesRegs -> Word]
         /\ UNCHANGED toolvars
<1> DEFINE cmd == regs[CmdAt]
           at == <<SubSeq(cmd, 7, 11), SubSeq(cmd, 12, 16)>>
           idle == [regs EXCEPT ![CmdAt][1] = 0]
<1>1. /\ regs \in [Registers -> Word] /\ serdes \in [SerdesRegs -> Word]
      /\ CmdAt \in Registers /\ DataAt \in Registers /\ CmdAt # DataAt
      /\ SerdesValue(at) \in Word
  BY SerdesTyped, SmiAssumption, Addresses DEF ToolInv, FrameInv, TypeOK
<1>2. /\ idle \in [Registers -> Word] /\ idle[DataAt] = regs[DataAt]
      /\ idle[CmdAt][1] = 0
  <2>1. [regs[CmdAt] EXCEPT ![1] = 0] \in Word
    BY <1>1 DEF Word, Bit
  <2>2. 1 \in 1..DataBits
    BY SmiAssumption
  <2> QED
    BY <1>1, <2>1, <2>2 DEF Word
<1> HIDE DEF cmd, at, idle
<1>3. /\ executed' = executed + 1
      /\ master' = master /\ decoder' = decoder /\ UNCHANGED toolvars
  BY DEF Execute, master, decoder, toolvars
<1>4. CASE cmd[5] = 1
  <2>1. regs' = [idle EXCEPT ![DataAt] = SerdesValue(at)] /\ serdes' = serdes
    BY <1>4 DEF Execute, cmd, at, idle
  <2>2. /\ regs' \in [Registers -> Word] /\ regs'[DataAt] = SerdesValue(at)
        /\ regs'[CmdAt] = idle[CmdAt]
    BY <1>1, <1>2, <2>1
  <2>3. ~Busy'
    BY <1>2, <2>2 DEF Busy
  <2>4. Change
    BY <1>3, <2>2 DEF Change
  <2> QED
    BY <1>1, <1>3, <1>4, <2>1, <2>2, <2>3, <2>4 DEF cmd, at
<1>5. CASE ~(cmd[5] = 1)
  <2>1. /\ regs' = idle
        /\ serdes' = IF at \in SerdesRegs
                     THEN [serdes EXCEPT ![at] = regs[DataAt]] ELSE serdes
    BY <1>5 DEF Execute, cmd, at, idle
  <2>2. /\ regs' \in [Registers -> Word] /\ regs'[DataAt] = regs[DataAt]
        /\ regs'[CmdAt] = idle[CmdAt]
    BY <1>2, <2>1
  <2>3. ~Busy'
    BY <1>2, <2>2 DEF Busy
  <2>4. Change
    BY <1>3, <2>2 DEF Change
  <2>5. serdes' \in [SerdesRegs -> Word]
    BY <1>1, <2>1
  <2> QED
    BY <1>3, <1>5, <2>1, <2>2, <2>3, <2>4, <2>5 DEF cmd, at
<1> QED
  BY <1>4, <1>5

(* A step of the tools or of the switch is one of the frames, and what is  *)
(* left of the program stays in order.                                     *)
LEMMA ToolStep ==
  ASSUME ToolInv, [SmiNext]_allvars
  PROVE  [Next]_vars /\ ToolInv'
<1>1. FrameInv /\ ProgramInv /\ serdes \in [SerdesRegs -> Word] /\ result \in Word
  BY DEF ToolInv, FrameInv, TypeOK
<1>2. CASE Skip
  <2>1. Running /\ ~cleared /\ Advance(Polls) /\ vars' = vars
        /\ sketch' = sketch /\ cleared' = cleared /\ serdes' = serdes
    <3>1. Running /\ Advance(Polls) /\ vars' = vars
          /\ sketch' = sketch /\ cleared' = cleared /\ serdes' = serdes
      BY <1>2 DEF Skip, switch
    <3>2. Step # "clear"
      BY <1>2 DEF Skip, NothingToDo
    <3> QED
      BY <1>1, <3>1, <3>2 DEF ProgramInv
  <2>2. ProgramInv'
    BY <1>1, <2>1, AdvanceProgram
  <2> QED
    BY <1>1, <2>1, <2>2, FrameInvStep DEF ToolInv
<1>3. CASE Call
  <2>1. /\ Running /\ Step # "pause" /\ Start(AccessOf)
        /\ cleared' = (Step = "clear" /\ ~cleared)
        /\ sketch' = sketch /\ program' = program /\ steps' = steps
        /\ serdes' = serdes
    BY <1>3 DEF Call, NothingToDo, switch
  <2>2. AccessOf \in Frames
    BY <1>1, <2>1, AccessIs
  <2>3. Next
    BY <2>1, <2>2 DEF Next
  <2>4. ProgramInv'
    BY <1>1, <2>1 DEF ProgramInv, Op, Step, Running
  <2> QED
    BY <1>1, <2>1, <2>3, <2>4, FrameInvStep DEF ToolInv
<1>4. CASE GiveUp
  <2>1. /\ Running /\ ~cleared /\ Advance(Left(Wrapped)) /\ vars' = vars
        /\ sketch' = sketch /\ cleared' = cleared /\ serdes' = serdes
    BY <1>4 DEF GiveUp, switch
  <2>2. ProgramInv'
    BY <1>1, <2>1, AdvanceProgram
  <2> QED
    BY <1>1, <2>1, <2>2, FrameInvStep DEF ToolInv
<1>5. CASE Done
  <2>1. /\ Running /\ Return
        /\ \/ program' = program /\ steps' = steps
           \/ ~cleared /\ Advance(Left(polls))
        /\ sketch' = sketch /\ cleared' = cleared /\ serdes' = serdes
    BY <1>5 DEF Done, switch
  <2>2. ProgramInv'
    <3>1. CASE program' = program /\ steps' = steps
      BY <1>1, <2>1, <3>1 DEF ProgramInv, Op, Step, Running
    <3>2. CASE ~cleared /\ Advance(Left(polls))
      BY <1>1, <2>1, <3>2, AdvanceProgram
    <3> QED
      BY <2>1, <3>1, <3>2
  <2> QED
    BY <1>1, <2>1, <2>2, FrameInvStep DEF ToolInv, Next
<1>6. CASE Clock
  <2>1. /\ Pulse /\ sketch' = sketch /\ program' = program /\ steps' = steps
        /\ cleared' = cleared /\ serdes' = serdes
    BY <1>6 DEF Clock, toolvars, switch
  <2>2. ProgramInv'
    BY <1>1, <2>1 DEF ProgramInv, Op, Step, Running
  <2> QED
    BY <1>1, <2>1, <2>2, FrameInvStep DEF ToolInv, Next
<1>7. CASE Execute
  <2>1. /\ Change /\ serdes' \in [SerdesRegs -> Word]
        /\ sketch' = sketch /\ program' = program /\ steps' = steps
        /\ cleared' = cleared
    BY <1>7, Executed DEF toolvars
  <2>2. ProgramInv'
    BY <1>1, <2>1 DEF ProgramInv, Op, Step, Running
  <2> QED
    BY <1>1, <2>1, <2>2, FrameInvStep DEF ToolInv, Next
<1>8. CASE UNCHANGED allvars
  <2>1. /\ vars' = vars /\ serdes' = serdes
        /\ sketch' = sketch /\ program' = program /\ steps' = steps
        /\ cleared' = cleared
    BY <1>8 DEF allvars, toolvars, switch
  <2>2. ProgramInv'
    BY <1>1, <2>1 DEF ProgramInv, Op, Step, Running
  <2> QED
    BY <1>1, <2>1, <2>2, FrameInvStep DEF ToolInv
<1> QED
  BY <1>2, <1>3, <1>4, <1>5, <1>6, <1>7, <1>8 DEF SmiNext, Tool

(* A session starts in its first operation, with nothing on the wire. *)
LEMMA ToolInit == SmiInit => Init /\ ToolInv
<1> SUFFICES ASSUME SmiInit PROVE Init /\ ToolInv
  OBVIOUS
<1>1. PICK m \in Menu : sketch = m[1] /\ program = m[2]
  BY DEF SmiInit
<1>2. /\ program \in Seq(Operations) /\ program # <<>> /\ cleared = FALSE
      /\ steps = Routine(sketch, Op)
  BY <1>1, SmiAssumption DEF SmiInit, Op
<1>3. Op \in Operations
  BY <1>2, HeadTailProperties DEF Op
<1>4. ProgramInv
  BY <1>2, <1>3, RoutineRests DEF ProgramInv
<1>5. Bits(\h1234, DataBits) \in Word
  <2>1. \h1234 \in Nat
    BY SMT
  <2> QED
    BY <2>1, BitsTyped, SmiAssumption DEF Word
<1>6. serdes \in [SerdesRegs -> Word]
  BY <1>5 DEF SmiInit
<1>7. Init /\ FrameInv
  BY FrameInvInit DEF SmiInit
<1> QED
  BY <1>4, <1>6, <1>7 DEF ToolInv

(* ToolInv over a whole run. *)
LEMMA ToolInvAlways == SmiSpec => []ToolInv
BY ToolInit, ToolStep, PTL DEF SmiSpec

(* The tools and the switch use the wire as SmiFrame allows: each access   *)
(* that a tool makes is a frame, and the switch changes registers only.    *)
LEMMA ToolsMakeFrames == SmiSpec => Spec
BY ToolInit, ToolStep, ToolInvAlways, PTL DEF SmiSpec, Spec

(* No tool ever drives MDIO against a PHY. *)
THEOREM ToolsNeverTwoDrivers == SmiSpec => []OneDriver
BY ToolsMakeFrames, NeverTwoDrivers, PTL

(* Whatever a tool does is accesses of a register bus, one at a time. *)
THEOREM ToolsAccessRegisters == SmiSpec => IsRegisterBus
BY ToolsMakeFrames, FrameIsAccess, PTL

-----------------------------------------------------------------------------
(* Going on to the next step                                               *)

(* What is left of a program in order is in order. *)
LEMMA OrderlyTail ==
  ASSUME program \in Seq(Operations), program # <<>>, Orderly(program)
  PROVE  Orderly(Tail(program))
<1> DEFINE t == Tail(program)
<1>1. /\ Len(t) = Len(program) - 1 /\ Len(program) \in Nat
      /\ \A i \in 1..Len(t) : t[i] = program[i + 1]
  BY HeadTailProperties
<1> HIDE DEF t
<1>2. ASSUME NEW i \in 1..Len(t), NEW j \in 1..Len(t), i < j,
             t[i].do = "SERDES_write", t[j].do = "SERDES_read"
      PROVE  \E k \in (i + 1)..(j - 1) : t[k].do = "pause"
  <2>1. /\ i + 1 \in 1..Len(program) /\ j + 1 \in 1..Len(program) /\ i + 1 < j + 1
        /\ program[i + 1].do = "SERDES_write" /\ program[j + 1].do = "SERDES_read"
    BY <1>1, <1>2
  <2>2. PICK k \in ((i + 1) + 1)..((j + 1) - 1) : program[k].do = "pause"
    BY <2>1 DEF Orderly
  <2>3. /\ k - 1 \in (i + 1)..(j - 1) /\ k - 1 \in 1..Len(t) /\ (k - 1) + 1 = k
    BY <1>1, <1>2, <2>2
  <2>4. t[k - 1].do = "pause"
    BY <1>1, <2>2, <2>3
  <2> QED
    BY <2>3, <2>4
<1>3. ASSUME NEW i \in 1..Len(t), t[i].do \in {"write", "C_mode"}
      PROVE  Access("write", t[i].addr, t[i].reg, 0).at \notin {CmdAt, DataAt}
  <2>1. i + 1 \in 1..Len(program) /\ t[i] = program[i + 1]
    BY <1>1
  <2> QED
    BY <1>3, <2>1 DEF Orderly
<1> QED
  BY <1>2, <1>3 DEF Orderly, t

(* After a write, a SERDES read waits for a pause. *)
LEMMA WritePauses ==
  ASSUME program \in Seq(Operations), program # <<>>, Orderly(program),
         Op.do = "SERDES_write"
  PROVE  ReadsWait(program)
<1> SUFFICES ASSUME NEW j \in 1..Len(program), program[j].do = "SERDES_read"
             PROVE  \E k \in 1..(j - 1) : program[k].do = "pause"
  BY DEF ReadsWait
<1>1. 1 \in 1..Len(program) /\ program[1] = Op
  BY DEF Op
<1>2. 1 < j
  <2>1. j # 1
    BY <1>1
  <2> QED
    BY <2>1
<1>3. PICK k \in (1 + 1)..(j - 1) : program[k].do = "pause"
  BY <1>1, <1>2 DEF Orderly
<1> QED
  BY <1>3

(* A SERDES read that has waited since before an operation that is not a   *)
(* pause waits for a later one.                                            *)
LEMMA ReadsWaitTail ==
  ASSUME program \in Seq(Operations), program # <<>>, ReadsWait(program),
         Op.do # "pause"
  PROVE  ReadsWait(Tail(program))
<1> DEFINE t == Tail(program)
<1>1. /\ Len(t) = Len(program) - 1 /\ Len(program) \in Nat
      /\ \A i \in 1..Len(t) : t[i] = program[i + 1]
      /\ program[1] = Op
  BY HeadTailProperties DEF Op
<1> HIDE DEF t
<1>2. ASSUME NEW j \in 1..Len(t), t[j].do = "SERDES_read"
      PROVE  \E k \in 1..(j - 1) : t[k].do = "pause"
  <2>1. j + 1 \in 1..Len(program) /\ program[j + 1].do = "SERDES_read"
    BY <1>1, <1>2
  <2>2. PICK k \in 1..((j + 1) - 1) : program[k].do = "pause"
    BY <2>1 DEF ReadsWait
  <2>3. k # 1
    BY <1>1, <2>2
  <2>4. k - 1 \in 1..(j - 1) /\ k - 1 \in 1..Len(t) /\ (k - 1) + 1 = k
    BY <1>1, <2>2, <2>3
  <2>5. t[k - 1].do = "pause"
    BY <1>1, <2>2, <2>4
  <2> QED
    BY <2>4, <2>5
<1> QED
  BY <1>2 DEF ReadsWait, t

(* The step before: a command, data or a fetch comes after a poll, and the *)
(* data of an operation stays loaded from its step to the command.         *)
LEMMA StepBefore ==
  ASSUME ProgramInv, Running, Len(steps) > 1
  PROVE  /\ Head(Tail(steps)) \in {"data", "command", "fetch"} => InLoop
         /\ Head(Tail(steps)) # "clear"
         /\ Tail(steps) \in LoadedSteps =>
              Step = "data" \/ (steps \in LoadedSteps /\ Step # "command")
         /\ Op.do = "SERDES_read" /\ Tail(steps) \in FetchSteps =>
              Step = "command" \/ steps \in FetchSteps
<1> DEFINE Rest(s) ==
  /\ Head(Tail(s)) \in {"data", "command", "fetch"} => Head(s) \in {"poll", "clear"}
  /\ Head(Tail(s)) # "clear"
  /\ Tail(s) \in LoadedSteps =>
       Head(s) = "data" \/ (s \in LoadedSteps /\ Head(s) # "command")
  /\ Op.do = "SERDES_read" /\ Tail(s) \in FetchSteps =>
       Head(s) = "command" \/ s \in FetchSteps
<1>1. steps \notin {<<"read">>, <<"write">>, <<"mode">>, <<"pause">>, <<"fetch">>,
                    <<"poll">>, <<"command">>}
  <2> SUFFICES ASSUME steps \in {<<"read">>, <<"write">>, <<"mode">>, <<"pause">>,
                                 <<"fetch">>, <<"poll">>, <<"command">>}
               PROVE  FALSE
    OBVIOUS
  <2>1. Len(steps) = 1
    OBVIOUS
  <2> QED
    BY <2>1
<1>2. /\ steps \in {<<"read", "mode">>,
                    <<"poll", "command", "poll", "fetch">>,
                    <<"clear", "command", "poll", "fetch">>,
                    <<"command", "poll", "fetch">>, <<"poll", "fetch">>,
                    <<"poll", "data", "poll", "command", "poll">>,
                    <<"data", "poll", "command", "poll">>,
                    <<"poll", "command", "poll">>, <<"command", "poll">>,
                    <<"poll", "data", "poll", "command">>,
                    <<"data", "poll", "command">>, <<"poll", "command">>}
      /\ steps = <<"command", "poll">> => Op.do = "SERDES_write"
  BY <1>1, Shape
<1>3. /\ Rest(<<"read", "mode">>)
      /\ Rest(<<"poll", "command", "poll", "fetch">>)
      /\ Rest(<<"clear", "command", "poll", "fetch">>)
      /\ Rest(<<"command", "poll", "fetch">>)
      /\ Rest(<<"poll", "fetch">>)
      /\ Rest(<<"poll", "data", "poll", "command", "poll">>)
      /\ Rest(<<"data", "poll", "command", "poll">>)
      /\ Rest(<<"poll", "command", "poll">>)
      /\ Rest(<<"poll", "data", "poll", "command">>)
      /\ Rest(<<"data", "poll", "command">>)
      /\ Rest(<<"poll", "command">>)
      /\ Op.do = "SERDES_write" => Rest(<<"command", "poll">>)
  BY DEF LoadedSteps, FetchSteps
<1> HIDE DEF Rest
<1>4. Rest(steps)
  BY <1>2, <1>3
<1> QED
  BY <1>4, Shape DEF InLoop, Rest

(* What an operation, a pause, or a step of one leaves to what comes next:  *)
(* the switch is not busy after a poll or a pause.                          *)
LEMMA AdvanceKeeps ==
  ASSUME ToolInv, SerdesInv, Running, NEW left, Advance(left), sketch' = sketch,
         ~cleared, ~cleared', ~busy',
         regs' = regs, serdes' = serdes, asked' = asked, executed' = executed,
         gaveup' \in Nat, gaveup' = 0 => gaveup = 0,
         Step = "command" => busy /\ Effective,
         Step = "data" => busy /\ Effective,
         gaveup' = 0 /\ (InLoop \/ Step = "pause") => ~Busy
  PROVE  SerdesInv'
<1>1. /\ ProgramInv /\ ProgramInv' /\ Orderly(program) /\ CountInv
      /\ program \in Seq(Operations) /\ program # <<>>
  BY AdvanceProgram DEF ToolInv, SerdesInv, ProgramInv, Running
<1>2. /\ Busy' = Busy /\ ~Given' /\ ~Sending' /\ ~Sending
      /\ \A op : SerdesValue(SerdesAt(op))' = SerdesValue(SerdesAt(op))
  BY DEF Busy, Given, Sending, SerdesValue, SerdesAt
<1>3. \/ /\ Len(steps) > 1 /\ steps' = Tail(steps) /\ program' = program
         /\ Running' /\ Op' = Op
      \/ /\ Len(steps) = 1 /\ Len(program) > 1
         /\ program' = Tail(program) /\ Running'
         /\ Op' = program[2] /\ Op' \in Operations
         /\ steps' = Routine(sketch, Op')
      \/ Len(steps) = 1 /\ program' = <<>> /\ steps' = <<>> /\ ~Running'
  BY <1>1, Moves
<1>4. Orderly(program)'
  <2>1. program' = program \/ program' = Tail(program) \/ program' = <<>>
    BY <1>3
  <2>2. CASE program' = program
    BY <1>1, <2>2 DEF Orderly
  <2>3. CASE program' = Tail(program)
    <3>1. Orderly(Tail(program))
      BY <1>1, OrderlyTail
    <3> QED
      BY <2>3, <3>1
  <2>4. CASE program' = <<>>
    BY <2>4 DEF Orderly
  <2> QED
    BY <2>1, <2>2, <2>3, <2>4
<1>5. CallInv' /\ PollInv'
  BY DEF CallInv, PollInv
<1>6. CountInv'
  BY <1>1, <1>2 DEF CountInv, One
<1>7. ASSUME gaveup' = 0
      PROVE  IdleInv' /\ LastInv' /\ FetchInv'
  <2>1. IdleInv /\ LastInv /\ FetchInv
    BY <1>7 DEF SerdesInv
  <2>2. InLoop \/ Step = "pause" => ~Busy
    BY <1>7
  <2>3. /\ SerdesInOrder'
        /\ Busy' => asked'[Len(asked')].do \in {"SERDES_read", "SERDES_write"}
    BY <1>2, <1>7, <2>1 DEF LastInv, SerdesInOrder
  <2>4. CASE /\ Len(steps) > 1 /\ steps' = Tail(steps) /\ program' = program
             /\ Running' /\ Op' = Op
    <3>1. Step' = Head(Tail(steps)) /\ Step = Head(steps)
      BY <2>4 DEF Step
    <3>2. IdleInv'
      <4>1. Step' \in {"data", "command", "fetch", "clear"} => ~Busy'
        BY <1>1, <1>2, <2>2, <2>4, <3>1, StepBefore
      <4>2. Busy' /\ Running' /\ (Op').do # "SERDES_read" => ReadsWait(program)'
        BY <1>2, <2>1, <2>4 DEF IdleInv, ReadsWait
      <4> QED
        BY <4>1, <4>2 DEF IdleInv
    <3>3. Loaded' => ~Busy' /\ regs'[DataAt] = Bits((Op').word, DataBits)
      <4>1. Loaded' => Tail(steps) \in LoadedSteps
        BY <2>4 DEF Loaded, LoadedSteps
      <4>2. Tail(steps) \in LoadedSteps => Loaded /\ ~Given
        BY <1>1, <2>4, StepBefore DEF Loaded, Given
      <4> QED
        BY <1>2, <2>1, <2>4, <4>1, <4>2 DEF LastInv
    <3>4. FetchInv'
      <4> SUFFICES ASSUME (Op').do = "SERDES_read", steps' \in FetchSteps
                   PROVE  /\ asked' # <<>> /\ asked'[Len(asked')] = Op'
                          /\ ~Busy' => regs'[DataAt] = SerdesValue(SerdesAt(Op))'
        BY <1>2 DEF FetchInv, FetchSteps
      <4>1. steps \in FetchSteps \/ Given
        BY <1>1, <2>4, StepBefore DEF FetchSteps, Given
      <4>2. /\ asked # <<>> /\ asked[Len(asked)] = Op
            /\ ~Busy => regs[DataAt] = SerdesValue(SerdesAt(Op))
        BY <2>1, <2>4, <4>1 DEF FetchInv
      <4> QED
        BY <1>2, <2>4, <4>2
    <3> QED
      BY <2>3, <3>2, <3>3, <3>4 DEF LastInv
  <2>5. CASE /\ Len(steps) = 1 /\ Len(program) > 1
             /\ program' = Tail(program) /\ Running'
             /\ Op' = program[2] /\ Op' \in Operations
             /\ steps' = Routine(sketch, Op')
    <3>1. Busy => Op.do # "SERDES_read" /\ Op.do # "pause"
      <4>1. CASE Op.do = "SERDES_read"
        <5>1. steps = <<"fetch">>
          <6> SUFFICES ASSUME steps # <<"fetch">> PROVE FALSE
            OBVIOUS
          <6>1. steps \in {<<"poll", "command", "poll", "fetch">>,
                           <<"clear", "command", "poll", "fetch">>,
                           <<"command", "poll", "fetch">>, <<"poll", "fetch">>}
            BY <1>1, <4>1, Shape
          <6>2. Len(steps) \in {2, 3, 4}
            BY <6>1
          <6> QED
            BY <2>5, <6>2
        <5>2. Step = "fetch"
          BY <5>1 DEF Step
        <5> QED
          BY <2>1, <5>2 DEF IdleInv, Given
      <4>2. CASE Op.do = "pause"
        BY <1>1, <2>2, <4>2, StepTells
      <4> QED
        BY <4>1, <4>2
    <3>2. Busy => ReadsWait(program) /\ ReadsWait(Tail(program))
      <4>1. Busy => ReadsWait(program)
        BY <2>1, <3>1 DEF IdleInv
      <4> QED
        BY <1>1, <3>1, <4>1, ReadsWaitTail
    <3>3. Busy => (Op').do # "SERDES_read"
      <4> SUFFICES ASSUME Busy, program[2].do = "SERDES_read" PROVE FALSE
        BY <2>5
      <4>1. 2 \in 1..Len(program)
        BY <1>1, <2>5
      <4>2. PICK k \in 1..(2 - 1) : program[k].do = "pause"
        BY <3>2, <4>1 DEF ReadsWait
      <4>3. k = 1 /\ program[1] = Op
        BY <1>1, <4>2 DEF Op
      <4> QED
        BY <3>1, <4>2, <4>3
    <3>4. /\ Step' \in {"read", "write", "poll", "clear", "pause"}
          /\ Step' = "clear" => (Op').do = "SERDES_read"
          /\ steps' \notin LoadedSteps /\ steps' \notin FetchSteps
      <4>1. steps' \in {<<"read">>, <<"write">>, <<"read", "mode">>, <<"pause">>,
                        <<"poll", "command", "poll", "fetch">>,
                        <<"poll", "data", "poll", "command", "poll">>,
                        <<"poll", "data", "poll", "command">>}
            \/ (/\ steps' = <<"clear", "command", "poll", "fetch">>
                /\ (Op').do = "SERDES_read")
        BY <2>5, OperationTyped DEF Routine
      <4>2. Step' = Head(steps')
        BY <2>5 DEF Step
      <4> QED
        BY <4>1, <4>2 DEF LoadedSteps, FetchSteps
    <3>5. IdleInv'
      BY <1>2, <2>5, <3>2, <3>3, <3>4 DEF IdleInv, ReadsWait
    <3>6. ~Loaded' /\ FetchInv'
      BY <1>2, <3>4 DEF Loaded, FetchInv, LoadedSteps, FetchSteps
    <3> QED
      BY <2>3, <3>5, <3>6 DEF LastInv
  <2>6. CASE steps' = <<>> /\ ~Running'
    <3>1. Step' = "none" /\ steps' \notin LoadedSteps
      BY <2>6 DEF Step, LoadedSteps
    <3>2. ~Loaded'
      BY <3>1 DEF Loaded, LoadedSteps
    <3> QED
      BY <2>3, <2>6, <3>1, <3>2 DEF IdleInv, LastInv, FetchInv
  <2> QED
    BY <1>3, <2>4, <2>5, <2>6
<1> QED
  BY <1>4, <1>5, <1>6, <1>7 DEF SerdesInv

-----------------------------------------------------------------------------
(* Each step keeps SerdesInv                                               *)

(* To skip a step is to go on. *)
LEMMA SkipKeeps ==
  ASSUME ToolInv, SerdesInv, Skip
  PROVE  SerdesInv'
<1>1. /\ Running /\ ~busy /\ Advance(Polls) /\ sketch' = sketch
      /\ cleared' = cleared /\ busy' = busy /\ regs' = regs /\ serdes' = serdes
      /\ asked' = asked /\ executed' = executed /\ gaveup' = gaveup
      /\ Step \in {"pause", "mode"} /\ (Step = "pause" => ~Busy)
  BY DEF Skip, NothingToDo, switch, vars, master
<1>2. ~cleared /\ gaveup \in Nat
  BY <1>1 DEF ToolInv, ProgramInv, SerdesInv, CountInv
<1> QED
  BY <1>1, <1>2, AdvanceKeeps DEF InLoop

(* A loop that gives up with the switch busy ends what was promised; one   *)
(* that has read the busy bit clear at its last poll just ends.            *)
LEMMA GiveUpKeeps ==
  ASSUME ToolInv, SerdesInv, GiveUp
  PROVE  SerdesInv'
<1>1. /\ Running /\ ~busy /\ Advance(Left(Wrapped)) /\ sketch' = sketch
      /\ cleared' = cleared /\ ~cleared /\ busy' = busy /\ regs' = regs
      /\ serdes' = serdes /\ asked' = asked /\ executed' = executed
      /\ Step \in {"poll", "clear"}
      /\ gaveup' = IF Busy THEN gaveup + 1 ELSE gaveup
  BY DEF GiveUp, InLoop, switch, vars, master
<1>2. gaveup \in Nat
  BY DEF SerdesInv, CountInv
<1>3. gaveup' \in Nat /\ (gaveup' = 0 => gaveup = 0 /\ ~Busy)
  BY <1>1, <1>2
<1> QED
  BY <1>1, <1>3, AdvanceKeeps

(* When a frame ends: a poll that has read the busy bit set, and the word  *)
(* that is written before one, leave everything as it is, other steps go   *)
(* on.                                                                     *)
LEMMA DoneKeeps ==
  ASSUME ToolInv, SerdesInv, Done
  PROVE  SerdesInv'
<1>1. /\ Running /\ busy /\ pos = Pulses /\ ~busy' /\ sketch' = sketch
      /\ result' = IF frame.op = "read" THEN got ELSE result
      /\ cleared' = cleared /\ regs' = regs /\ serdes' = serdes
      /\ asked' = asked /\ executed' = executed /\ gaveup' = gaveup
  BY DEF Done, Return, switch
<1>2. Effective /\ gaveup \in Nat /\ FrameInv /\ ProgramInv
  BY <1>1, EffectAtEnds DEF SerdesInv, CountInv, ToolInv
<1>3. CASE cleared \/ (InLoop /\ result'[1] = 1)
  <2>1. program' = program /\ steps' = steps
    BY <1>3 DEF Done
  <2>2. Step \in {"poll", "clear"}
    BY <1>2, <1>3 DEF InLoop, ProgramInv
  <2>3. /\ Step' = Step /\ Op' = Op /\ (Running' <=> Running)
        /\ Busy' = Busy /\ ~Given /\ ~Given' /\ ~Sending /\ ~Sending'
        /\ Loaded' = Loaded
        /\ \A op : SerdesValue(SerdesAt(op))' = SerdesValue(SerdesAt(op))
    BY <1>1, <2>1, <2>2 DEF Step, Op, Running, Busy, Given, Sending, Loaded,
                            LoadedSteps, SerdesValue, SerdesAt
  <2>4. Orderly(program)' /\ CallInv' /\ PollInv' /\ CountInv'
    <3>1. Orderly(program)'
      BY <2>1 DEF SerdesInv
    <3>2. CallInv' /\ PollInv'
      BY <1>1 DEF CallInv, PollInv
    <3>3. CountInv'
      BY <1>1, <2>3 DEF SerdesInv, CountInv, One
    <3> QED
      BY <3>1, <3>2, <3>3
  <2>5. ASSUME gaveup = 0
        PROVE  IdleInv' /\ LastInv' /\ FetchInv'
    <3>1. IdleInv /\ LastInv /\ FetchInv
      BY <2>5 DEF SerdesInv
    <3>2. IdleInv'
      BY <2>1, <2>3, <3>1 DEF IdleInv, ReadsWait
    <3>3. LastInv'
      BY <1>1, <2>3, <3>1 DEF LastInv, SerdesInOrder
    <3>4. FetchInv'
      BY <1>1, <2>1, <2>3, <3>1 DEF FetchInv, FetchSteps
    <3> QED
      BY <3>2, <3>3, <3>4
  <2> QED
    BY <1>1, <2>4, <2>5 DEF SerdesInv
<1>4. CASE ~(cleared \/ (InLoop /\ result'[1] = 1))
  <2>1. Advance(Left(polls)) /\ ~cleared /\ ~cleared'
    BY <1>1, <1>4 DEF Done
  <2>2. Step # "pause" /\ CallInv /\ PollInv
    BY <1>1 DEF SerdesInv, CallInv
  <2>3. InLoop => ~Busy
    <3> SUFFICES ASSUME InLoop PROVE ~Busy
      OBVIOUS
    <3>1. frame = Access("read", GLOBAL2, CMD, 0)
      BY <1>1, <2>1, <2>2 DEF CallInv
    <3>2. frame.op = "read"
      BY <3>1, SwitchFrames
    <3>3. result' = out
      BY <1>1, <1>2, <3>2, AllIsRead
    <3>4. out[1] \in Bit
      <4>1. out \in Word /\ 1 \in 1..DataBits
        BY <1>2, SmiAssumption DEF FrameInv, TypeOK
      <4> QED
        BY <4>1 DEF Word
    <3>5. out[1] = 0
      BY <1>4, <3>3, <3>4 DEF Bit
    <3> QED
      BY <1>1, <1>2, <2>1, <2>2, <3>5 DEF PollInv
  <2> QED
    BY <1>1, <1>2, <2>1, <2>2, <2>3, AdvanceKeeps
<1> QED
  BY <1>3, <1>4

(* A frame that starts is that of the step; what it will do to the switch  *)
(* it has not done yet.                                                    *)
LEMMA CallKeeps ==
  ASSUME ToolInv, SerdesInv, Call
  PROVE  SerdesInv'
<1>1. /\ Running /\ ~busy /\ Step # "pause"
      /\ frame' = AccessOf /\ busy' /\ pos' = 0
      /\ cleared' = (Step = "clear" /\ ~cleared)
      /\ asked' = IF Step = "command" THEN Append(asked, Op) ELSE asked
      /\ sketch' = sketch /\ program' = program /\ steps' = steps
      /\ gaveup' = gaveup /\ executed' = executed /\ serdes' = serdes
      /\ regs' = regs /\ out' = out
  BY DEF Call, Start, NothingToDo, switch, decoder
<1>2. /\ ProgramInv /\ ProgramInv' /\ Orderly(program) /\ CountInv
      /\ result \in Word /\ Op \in Operations
  <2>1. ProgramInv /\ Orderly(program) /\ CountInv /\ result \in Word
    BY DEF ToolInv, FrameInv, TypeOK, SerdesInv
  <2>2. ProgramInv'
    BY <1>1, <2>1 DEF ProgramInv, Op, Step, Running
  <2> QED
    BY <1>1, <2>1, <2>2, Shape
<1>3. /\ Step' = Step /\ Op' = Op /\ Running' /\ (InLoop' <=> InLoop)
      /\ Busy' = Busy /\ ~Effective' /\ ~Given /\ ~Given' /\ ~Sending
      /\ (Sending' <=> Step = "command")
      /\ (Loaded' <=> steps \in LoadedSteps)
      /\ \A op : SerdesValue(SerdesAt(op))' = SerdesValue(SerdesAt(op))
  <2>1. ~Effective'
    BY <1>1, Widths DEF Effective
  <2> QED
    BY <1>1, <2>1 DEF Step, Op, Running, InLoop, Busy, Given, Sending, Loaded,
                      LoadedSteps, SerdesValue, SerdesAt
<1>4. Orderly(program)' /\ PollInv'
  BY <1>1, <1>2, <1>3 DEF PollInv
<1>5. CallInv'
  <2>1. /\ cleared' => frame' = Access("write", GLOBAL2, DATA, 0)
        /\ InLoop /\ ~cleared' => frame' = Access("read", GLOBAL2, CMD, 0)
        /\ Step = "data" => frame' = Access("write", GLOBAL2, DATA, Op.word)
        /\ Step = "command" => frame' = Access("write", GLOBAL2, CMD, Command(Op))
        /\ Step = "fetch" => frame' = Access("read", GLOBAL2, DATA, 0)
    BY <1>1, <1>2, AccessIs
  <2>2. Step = "command" => asked' # <<>> /\ asked'[Len(asked')] = Op
    BY <1>1, <1>2 DEF CountInv
  <2>3. ASSUME Step \in {"read", "write", "mode"}, frame'.op = "write"
        PROVE  frame'.at \notin {CmdAt, DataAt}
    <3>1. frame'.at = Access("write", Op.addr, Op.reg, 0).at /\ Step # "read"
      BY <1>1, <1>2, <2>3, AccessIs
    <3>2. Op.do \in {"write", "C_mode"}
      BY <1>2, <2>3, <3>1, StepTells
    <3>3. 1 \in 1..Len(program) /\ program[1] = Op
      BY <1>1, <1>2 DEF ProgramInv, Running, Op
    <3> QED
      BY <1>2, <3>1, <3>2, <3>3 DEF Orderly
  <2> QED
    BY <1>1, <1>3, <2>1, <2>2, <2>3 DEF CallInv
<1>6. CountInv'
  <2>1. CASE Step = "command"
    <3>1. asked' \in Seq(Operations) /\ Len(asked') = Len(asked) + 1
      BY <1>1, <1>2, <2>1 DEF CountInv
    <3>2. Len(asked) \in Nat /\ executed \in Nat /\ One(Busy) \in Nat
      BY <1>2 DEF CountInv, One
    <3> QED
      BY <1>1, <1>2, <1>3, <2>1, <3>1, <3>2 DEF CountInv, One
  <2>2. CASE Step # "command"
    BY <1>1, <1>2, <1>3, <2>2 DEF CountInv, One
  <2> QED
    BY <2>1, <2>2
<1>7. ASSUME gaveup = 0
      PROVE  IdleInv' /\ LastInv' /\ FetchInv'
  <2>1. IdleInv /\ LastInv /\ FetchInv
    BY <1>7 DEF SerdesInv
  <2>2. IdleInv'
    BY <1>1, <1>3, <2>1 DEF IdleInv, ReadsWait
  <2>3. Busy => asked' = asked
    BY <1>1, <1>3, <2>1 DEF IdleInv
  <2>4. /\ SerdesInOrder'
        /\ Busy' => asked'[Len(asked')].do \in {"SERDES_read", "SERDES_write"}
    BY <1>1, <1>3, <1>7, <2>1, <2>3 DEF LastInv, SerdesInOrder
  <2>5. Loaded' /\ ~Given' => ~Busy' /\ regs'[DataAt] = Bits((Op').word, DataBits)
    BY <1>1, <1>3, <2>1 DEF LastInv, Loaded
  <2>6. FetchInv'
    <3>1. steps \in FetchSteps => Step # "command"
      BY <1>1 DEF FetchSteps, Step
    <3> QED
      BY <1>1, <1>3, <2>1, <3>1 DEF FetchInv, FetchSteps
  <2> QED
    BY <2>2, <2>4, <2>5, <2>6 DEF LastInv
<1> QED
  BY <1>1, <1>4, <1>5, <1>6, <1>7 DEF SerdesInv

(* What a pulse does: nothing that can be seen yet or any more, the answer *)
(* of a read, or the write.                                                *)
LEMMA PulseDoes ==
  ASSUME FrameInv, Pulse
  PROVE  \/ /\ (Effective' <=> Effective) /\ regs' = regs
            /\ Effective /\ frame.op = "read" => out' = out
         \/ /\ frame.op = "read" /\ ~Effective /\ Effective' /\ regs' = regs
            /\ out' = Value(frame.at)
         \/ /\ frame.op = "write" /\ ~Effective /\ Effective'
            /\ regs' = IF frame.at \in Registers
                       THEN [regs EXCEPT ![frame.at] = frame.word] ELSE regs
<1>1. busy /\ busy' /\ frame' = frame /\ result' = result
  BY DEF Pulse
<1>2. CASE BusState' = BusState /\ BusAnswer' = BusAnswer /\ regs' = regs
  BY <1>1, <1>2 DEF BusState, BusAnswer
<1>3. CASE /\ frame.op = "read" /\ BusState = "asked" /\ BusState' = "done"
           /\ BusAnswer' = Value(frame.at) /\ regs' = regs
  BY <1>1, <1>3 DEF BusState, BusAnswer
<1>4. CASE /\ frame.op = "write" /\ BusState = "asked" /\ BusState' = "done"
           /\ BusAnswer' = BusAnswer
           /\ regs' = IF frame.at \in Registers
                      THEN [regs EXCEPT ![frame.at] = frame.word] ELSE regs
  BY <1>1, <1>4 DEF BusState
<1> QED
  BY <1>2, <1>3, <1>4, Effect

(* When a frame has its effect the switch has been idle, but for a poll;   *)
(* the command makes it busy with what was asked last.                     *)
LEMMA ClockKeeps ==
  ASSUME ToolInv, SerdesInv, Clock
  PROVE  SerdesInv'
<1>1. /\ Pulse /\ busy /\ busy' /\ frame' = frame
      /\ sketch' = sketch /\ program' = program /\ steps' = steps
      /\ cleared' = cleared /\ asked' = asked /\ gaveup' = gaveup
      /\ executed' = executed /\ serdes' = serdes
  BY DEF Clock, Pulse, toolvars, switch
<1>2. /\ FrameInv /\ ProgramInv /\ Orderly(program) /\ CallInv /\ CountInv /\ PollInv
      /\ regs \in [Registers -> Word] /\ frame \in Frames
      /\ CmdAt \in Registers /\ DataAt \in Registers /\ CmdAt # DataAt
      /\ 1 \in 1..DataBits
  BY SmiAssumption, Addresses DEF ToolInv, SerdesInv, FrameInv, TypeOK
<1>3. /\ Running /\ Step # "pause" /\ Step' = Step /\ Op' = Op /\ Running'
      /\ Op \in Operations /\ (InLoop' <=> InLoop)
      /\ Given = (Step = "command" /\ Effective)
      /\ Given' = (Step = "command" /\ Effective')
      /\ Sending = (Step = "command" /\ ~Effective)
      /\ Sending' = (Step = "command" /\ ~Effective')
      /\ (Loaded <=> steps \in LoadedSteps \/ (Step = "data" /\ Effective))
      /\ (Loaded' <=> steps \in LoadedSteps \/ (Step = "data" /\ Effective'))
      /\ \A op : SerdesValue(SerdesAt(op))' = SerdesValue(SerdesAt(op))
  <2>1. Running /\ Step # "pause"
    BY <1>1, <1>2 DEF CallInv
  <2> QED
    BY <1>1, <1>2, <2>1, Shape DEF Step, Op, Running, InLoop, Given, Sending, Loaded,
                                   LoadedSteps, SerdesValue, SerdesAt
<1>4. Orderly(program)' /\ CallInv'
  BY <1>1, <1>2, <1>3 DEF CallInv
<1>5. gaveup = 0 => IdleInv /\ LastInv /\ FetchInv
  BY DEF SerdesInv
<1>6. CASE /\ (Effective' <=> Effective) /\ regs' = regs
           /\ (Effective /\ frame.op = "read" => out' = out)
  <2>1. /\ Busy' = Busy /\ (Given' <=> Given) /\ (Sending' <=> Sending)
        /\ (Loaded' <=> Loaded)
    BY <1>3, <1>6 DEF Busy
  <2>2. (InLoop /\ ~cleared) \/ Step = "fetch" => frame.op = "read"
    BY <1>1, <1>2, SwitchFrames DEF CallInv
  <2>3. PollInv'
    BY <1>1, <1>2, <1>3, <1>6, <2>1, <2>2 DEF PollInv
  <2>4. CountInv'
    BY <1>1, <1>2, <2>1 DEF CountInv, One
  <2>5. ASSUME gaveup = 0
        PROVE  IdleInv' /\ LastInv' /\ FetchInv'
    <3>1. IdleInv'
      BY <1>1, <1>3, <1>5, <2>1, <2>5 DEF IdleInv, ReadsWait
    <3>2. LastInv'
      BY <1>1, <1>3, <1>5, <1>6, <2>1, <2>5 DEF LastInv, SerdesInOrder
    <3>3. FetchInv'
      BY <1>1, <1>3, <1>5, <1>6, <2>1, <2>2, <2>5 DEF FetchInv, FetchSteps
    <3> QED
      BY <3>1, <3>2, <3>3
  <2> QED
    BY <1>1, <1>4, <2>3, <2>4, <2>5 DEF SerdesInv
<1>7. CASE /\ frame.op = "read" /\ ~Effective /\ Effective' /\ regs' = regs
           /\ out' = Value(frame.at)
  <2>1. Step \notin {"data", "command"} /\ (InLoop => ~cleared)
    BY <1>1, <1>2, <1>7, SwitchFrames DEF CallInv
  <2>2. /\ Busy' = Busy /\ ~Given /\ ~Given' /\ ~Sending /\ ~Sending'
        /\ (Loaded' <=> Loaded)
    BY <1>3, <1>7, <2>1 DEF Busy
  <2>3. PollInv'
    <3> SUFFICES ASSUME InLoop, out'[1] = 0 PROVE ~Busy
      BY <1>3, <2>2 DEF PollInv
    <3>1. frame.at = CmdAt
      BY <1>1, <1>2, <2>1, SwitchFrames DEF CallInv
    <3> QED
      BY <1>2, <1>7, <3>1 DEF Value, Busy
  <2>4. CountInv'
    BY <1>1, <1>2, <2>2 DEF CountInv, One
  <2>5. ASSUME gaveup = 0
        PROVE  IdleInv' /\ LastInv' /\ FetchInv'
    <3>1. IdleInv'
      BY <1>1, <1>3, <1>5, <2>2, <2>5 DEF IdleInv, ReadsWait
    <3>2. LastInv'
      BY <1>1, <1>3, <1>5, <1>7, <2>2, <2>5 DEF LastInv, SerdesInOrder
    <3>3. FetchInv'
      <4>1. Step = "fetch" => out' = regs[DataAt] /\ ~Busy
        <5>1. Step = "fetch" => frame.at = DataAt
          BY <1>1, <1>2, SwitchFrames DEF CallInv
        <5> QED
          BY <1>2, <1>5, <1>7, <2>2, <2>5, <5>1 DEF Value, IdleInv
      <4> QED
        BY <1>1, <1>3, <1>5, <1>7, <2>2, <2>5, <4>1 DEF FetchInv, FetchSteps
    <3> QED
      BY <3>1, <3>2, <3>3
  <2> QED
    BY <1>1, <1>4, <2>3, <2>4, <2>5 DEF SerdesInv
<1>8. CASE /\ frame.op = "write" /\ ~Effective /\ Effective'
           /\ regs' = IF frame.at \in Registers
                      THEN [regs EXCEPT ![frame.at] = frame.word] ELSE regs
  <2>1. Step # "fetch" /\ (InLoop => cleared)
    BY <1>1, <1>2, <1>8, SwitchFrames DEF CallInv
  <2>2. PollInv'
    BY <1>1, <1>3, <2>1 DEF PollInv
  <2>3. CASE Step = "command"
    <3>1. /\ frame.at = CmdAt /\ frame.word = Bits(Command(Op), DataBits)
          /\ asked # <<>> /\ asked[Len(asked)] = Op
          /\ Op.do \in {"SERDES_read", "SERDES_write"}
      BY <1>1, <1>2, <2>3, SwitchFrames, StepTells DEF CallInv
    <3>2. /\ regs'[CmdAt] = Bits(Command(Op), DataBits)
          /\ regs'[DataAt] = regs[DataAt]
      BY <1>2, <1>8, <3>1
    <3>3. Busy' /\ Given' /\ Sending /\ ~Sending' /\ ~Given
      BY <1>3, <1>8, <2>3, <3>1, <3>2, CommandFields, SmiAssumption DEF Busy
    <3>4. CountInv'
      <4>1. gaveup = 0 => ~Busy
        BY <1>5, <2>3, <3>3 DEF IdleInv
      <4>2. Len(asked) \in Nat /\ executed \in Nat
        BY <1>2 DEF CountInv
      <4> QED
        BY <1>1, <1>2, <3>3, <4>1, <4>2 DEF CountInv, One
    <3>5. ASSUME gaveup = 0
          PROVE  IdleInv' /\ LastInv' /\ FetchInv'
      <4>1. IdleInv'
        <5>1. Op.do = "SERDES_write" => ReadsWait(program)
          BY <1>2, <1>3, WritePauses DEF ProgramInv, Running
        <5>2. (Op').do # "SERDES_read" => ReadsWait(program')
          BY <1>1, <1>3, <3>1, <5>1
        <5> QED
          BY <3>3, <5>2 DEF IdleInv
      <4>2. LastInv'
        <5>1. executed' = Len(asked') - 1
          <6>1. executed + 1 = Len(asked) /\ executed \in Nat
            BY <1>2, <1>5, <2>3, <3>3, <3>5 DEF CountInv, One, IdleInv
          <6> QED
            BY <1>1, <6>1
        <5>2. Op.do = "SERDES_write" => regs[DataAt] = Bits(Op.word, DataBits)
          <6>1. Op.do = "SERDES_write" => Loaded
            BY <1>2, <1>3, <2>3, StepTells DEF LoadedSteps
          <6> QED
            BY <1>5, <3>3, <3>5, <6>1 DEF LastInv
        <5>3. SerdesInOrder'
          BY <1>1, <3>1, <3>2, <5>1, <5>2 DEF SerdesInOrder
        <5> QED
          BY <1>1, <3>1, <3>3, <5>3 DEF LastInv
      <4>3. FetchInv'
        BY <1>1, <1>3, <2>3, <3>1, <3>3 DEF FetchInv
      <4> QED
        BY <4>1, <4>2, <4>3
    <3> QED
      BY <1>1, <1>4, <2>2, <3>4, <3>5 DEF SerdesInv
  <2>4. CASE Step = "data"
    <3>1. frame.at = DataAt /\ frame.word = Bits(Op.word, DataBits)
      BY <1>1, <1>2, <2>4, SwitchFrames DEF CallInv
    <3>2. regs'[DataAt] = Bits(Op.word, DataBits) /\ regs'[CmdAt] = regs[CmdAt]
      BY <1>2, <1>8, <3>1
    <3>3. Busy' = Busy /\ ~Given /\ ~Given' /\ ~Sending /\ ~Sending'
      BY <1>3, <2>4, <3>2 DEF Busy
    <3>4. CountInv'
      BY <1>1, <1>2, <3>3 DEF CountInv, One
    <3>5. ASSUME gaveup = 0
          PROVE  IdleInv' /\ LastInv' /\ FetchInv'
      <4>1. ~Busy /\ ~Busy'
        BY <1>5, <2>4, <3>3, <3>5 DEF IdleInv
      <4>2. IdleInv' /\ LastInv'
        BY <1>3, <3>2, <4>1 DEF IdleInv, LastInv, SerdesInOrder
      <4>3. FetchInv'
        BY <1>2, <1>3, <2>4, <3>3, StepTells DEF FetchInv
      <4> QED
        BY <4>2, <4>3
    <3> QED
      BY <1>1, <1>4, <2>2, <3>4, <3>5 DEF SerdesInv
  <2>5. CASE Step = "clear"
    <3>1. frame.at = DataAt
      BY <1>1, <1>2, <2>1, <2>5, SwitchFrames DEF CallInv, InLoop
    <3>2. regs'[CmdAt] = regs[CmdAt]
      BY <1>2, <1>8, <3>1
    <3>3. Busy' = Busy /\ ~Given /\ ~Given' /\ ~Sending /\ ~Sending'
      BY <1>3, <2>5, <3>2 DEF Busy
    <3>4. CountInv'
      BY <1>1, <1>2, <3>3 DEF CountInv, One
    <3>5. ASSUME gaveup = 0
          PROVE  IdleInv' /\ LastInv' /\ FetchInv'
      <4>1. ~Busy /\ ~Busy'
        BY <1>5, <2>5, <3>3, <3>5 DEF IdleInv
      <4>2. steps \notin LoadedSteps /\ steps \notin FetchSteps
        BY <1>2, <2>5, StepTells DEF LoadedSteps, FetchSteps
      <4>3. ~Loaded'
        BY <1>3, <2>5, <4>2
      <4>4. IdleInv' /\ LastInv'
        BY <4>1, <4>3 DEF IdleInv, LastInv, SerdesInOrder
      <4>5. FetchInv'
        BY <1>1, <3>3, <4>2 DEF FetchInv, FetchSteps
      <4> QED
        BY <4>4, <4>5
    <3> QED
      BY <1>1, <1>4, <2>2, <3>4, <3>5 DEF SerdesInv
  <2>6. CASE Step \in {"read", "write", "mode"}
    <3>1. frame.at \notin {CmdAt, DataAt}
      BY <1>1, <1>2, <1>8, <2>6 DEF CallInv
    <3>2. regs'[CmdAt] = regs[CmdAt] /\ regs'[DataAt] = regs[DataAt]
      BY <1>2, <1>8, <3>1
    <3>3. /\ Busy' = Busy /\ ~Given /\ ~Given' /\ ~Sending /\ ~Sending'
          /\ (Loaded' <=> Loaded)
      BY <1>3, <2>6, <3>2 DEF Busy
    <3>4. CountInv'
      BY <1>1, <1>2, <3>3 DEF CountInv, One
    <3>5. ASSUME gaveup = 0
          PROVE  IdleInv' /\ LastInv' /\ FetchInv'
      <4>1. IdleInv'
        BY <1>1, <1>3, <1>5, <3>3, <3>5 DEF IdleInv, ReadsWait
      <4>2. LastInv'
        BY <1>1, <1>3, <1>5, <3>2, <3>3, <3>5 DEF LastInv, SerdesInOrder
      <4>3. FetchInv'
        BY <1>1, <1>3, <1>5, <2>1, <3>2, <3>3, <3>5 DEF FetchInv, FetchSteps
      <4> QED
        BY <4>1, <4>2, <4>3
    <3> QED
      BY <1>1, <1>4, <2>2, <3>4, <3>5 DEF SerdesInv
  <2>7. Step # "poll"
    BY <1>2, <2>1 DEF InLoop, ProgramInv
  <2> QED
    BY <1>2, <1>3, <2>1, <2>3, <2>4, <2>5, <2>6, <2>7, StepTells
<1> QED
  BY <1>1, <1>2, <1>6, <1>7, <1>8, PulseDoes

(* What the switch has done was asked for last, so when this was a read    *)
(* the data register now has its answer.                                   *)
LEMMA ExecuteKeeps ==
  ASSUME ToolInv, SerdesInv, Execute
  PROVE  SerdesInv'
<1>1. /\ Busy /\ ~Busy' /\ executed' = executed + 1
      /\ sketch' = sketch /\ program' = program /\ steps' = steps
      /\ cleared' = cleared /\ asked' = asked /\ gaveup' = gaveup
      /\ frame' = frame /\ busy' = busy /\ pos' = pos /\ out' = out
  <2>1. Change /\ UNCHANGED toolvars /\ ~Busy' /\ executed' = executed + 1
    BY Executed
  <2>2. Busy
    BY DEF Execute
  <2> QED
    BY <2>1, <2>2 DEF Change, toolvars, master, decoder
<1>2. /\ ProgramInv /\ Orderly(program) /\ CallInv /\ CountInv
      /\ AddrBits = 5 /\ RegBits = 5 /\ DataBits = 16
  BY SmiAssumption DEF ToolInv, SerdesInv
<1>3. /\ Step' = Step /\ Op' = Op /\ (Running' <=> Running) /\ (InLoop' <=> InLoop)
      /\ (Effective' <=> Effective) /\ (Given' <=> Given)
      /\ (Sending' <=> Sending) /\ (Loaded' <=> Loaded)
  BY <1>1 DEF Step, Op, Running, InLoop, Effective, Given, Sending, Loaded,
              LoadedSteps
<1>4. Orderly(program)' /\ CallInv' /\ PollInv'
  <2>1. Orderly(program)'
    BY <1>1, <1>2
  <2>2. CallInv'
    BY <1>1, <1>2, <1>3 DEF CallInv
  <2>3. PollInv'
    BY <1>1 DEF PollInv
  <2> QED
    BY <2>1, <2>2, <2>3
<1>5. CountInv'
  BY <1>1, <1>2, <1>3 DEF CountInv, One
<1>6. ASSUME gaveup = 0
      PROVE  IdleInv' /\ LastInv' /\ FetchInv'
  <2>1. IdleInv /\ LastInv /\ FetchInv
    BY <1>6 DEF SerdesInv
  <2>2. IdleInv'
    BY <1>1 DEF IdleInv
  <2>3. LastInv'
    BY <1>1, <1>3, <2>1 DEF LastInv, SerdesInOrder
  <2>4. FetchInv'
    <3> SUFFICES ASSUME Running, Op.do = "SERDES_read", steps \in FetchSteps \/ Given
                 PROVE  /\ asked # <<>> /\ asked[Len(asked)] = Op
                        /\ regs'[DataAt] = SerdesValue(SerdesAt(Op))'
                        /\ ~(busy /\ Step = "fetch" /\ Effective)
      BY <1>1, <1>3 DEF FetchInv, FetchSteps
    <3>1. asked # <<>> /\ asked[Len(asked)] = Op
      BY <2>1 DEF FetchInv
    <3>2. Step # "fetch"
      BY <1>1, <2>1 DEF IdleInv, Given
    <3>3. Op \in Operations
      BY <1>2, Shape
    <3>4. regs[CmdAt] = Bits(Command(Op), 16)
      BY <1>1, <1>2, <1>6, <2>1, <3>1 DEF LastInv, SerdesInOrder
    <3>5. /\ regs[CmdAt][5] = 1
          /\ SerdesAt(Op) = <<SubSeq(regs[CmdAt], 7, 11), SubSeq(regs[CmdAt], 12, 16)>>
      BY <1>2, <3>3, <3>4, CommandFields DEF SerdesAt
    <3>6. regs'[DataAt] = SerdesValue(SerdesAt(Op)) /\ serdes' = serdes
      BY <3>5, Executed
    <3>7. SerdesValue(SerdesAt(Op))' = SerdesValue(SerdesAt(Op))
      BY <1>3, <3>6 DEF SerdesValue, SerdesAt
    <3> QED
      BY <3>1, <3>2, <3>6, <3>7
  <2> QED
    BY <2>2, <2>3, <2>4
<1> QED
  BY <1>1, <1>4, <1>5, <1>6 DEF SerdesInv

(* Nor does anything else change the promises. *)
LEMMA SerdesStutters ==
  ASSUME SerdesInv, UNCHANGED allvars
  PROVE  SerdesInv'
<1>1. /\ sketch' = sketch /\ program' = program /\ steps' = steps
      /\ cleared' = cleared /\ asked' = asked /\ gaveup' = gaveup
      /\ frame' = frame /\ busy' = busy /\ pos' = pos /\ out' = out
      /\ regs' = regs /\ executed' = executed /\ serdes' = serdes
  BY DEF allvars, vars, master, decoder, toolvars, switch
<1>2. /\ Step' = Step /\ Op' = Op /\ (Running' <=> Running) /\ (InLoop' <=> InLoop)
      /\ (Effective' <=> Effective) /\ (Given' <=> Given) /\ (Busy' <=> Busy)
      /\ (Sending' <=> Sending) /\ (Loaded' <=> Loaded)
      /\ SerdesValue(SerdesAt(Op))' = SerdesValue(SerdesAt(Op))
  BY <1>1 DEF Step, Op, Running, InLoop, Effective, Given, Busy, Sending, Loaded,
              LoadedSteps, SerdesValue, SerdesAt
<1>3. Orderly(program)' /\ CallInv' /\ PollInv'
  <2>1. Orderly(program)'
    BY <1>1 DEF SerdesInv
  <2>2. CallInv'
    BY <1>1, <1>2 DEF SerdesInv, CallInv
  <2>3. PollInv'
    BY <1>1, <1>2 DEF SerdesInv, PollInv
  <2> QED
    BY <2>1, <2>2, <2>3
<1>4. CountInv'
  BY <1>1, <1>2 DEF SerdesInv, CountInv, One
<1>5. ASSUME gaveup = 0
      PROVE  IdleInv' /\ LastInv' /\ FetchInv'
  <2>1. IdleInv /\ LastInv /\ FetchInv
    BY <1>5 DEF SerdesInv
  <2>2. IdleInv'
    BY <1>1, <1>2, <2>1 DEF IdleInv, ReadsWait
  <2>3. LastInv'
    BY <1>1, <1>2, <2>1 DEF LastInv, SerdesInOrder
  <2>4. FetchInv'
    BY <1>1, <1>2, <2>1 DEF FetchInv, FetchSteps
  <2> QED
    BY <2>2, <2>3, <2>4
<1> QED
  BY <1>1, <1>3, <1>4, <1>5 DEF SerdesInv

(* SerdesInv is kept by every step. *)
LEMMA SerdesStep ==
  ASSUME ToolInv, SerdesInv, [SmiNext]_allvars
  PROVE  SerdesInv'
BY SkipKeeps, CallKeeps, GiveUpKeeps, DoneKeeps, ClockKeeps, ExecuteKeeps,
   SerdesStutters DEF SmiNext, Tool

(* An orderly session starts with the switch idle and nothing asked for. *)
LEMMA SerdesInit ==
  ASSUME OrderlyMenu, SmiInit
  PROVE  SerdesInv
<1>1. ToolInv
  BY ToolInit
<1>2. PICK m \in Menu : sketch = m[1] /\ program = m[2]
  BY DEF SmiInit
<1>3. /\ program \in Seq(Operations) /\ program # <<>> /\ Op \in Operations
      /\ Orderly(program)
  <2>1. program \in Seq(Operations) /\ program # <<>> /\ Orderly(program)
    BY <1>2, SmiAssumption DEF OrderlyMenu
  <2> QED
    BY <2>1, HeadTailProperties DEF Op
<1>4. /\ ~busy /\ asked = <<>> /\ executed = 0 /\ gaveup = 0 /\ Running
      /\ steps = Routine(sketch, Op) /\ Step = Head(steps)
      /\ regs[CmdAt] = Zero /\ 1 \in 1..DataBits
  BY <1>3, SmiAssumption DEF SmiInit, Init, Op, Running, Step
<1>5. ~Busy
  BY <1>4 DEF Busy, Zero
<1>6. steps \notin LoadedSteps /\ steps \notin FetchSteps
  <2>1. CASE Op.do = "SERDES_read"
    BY <1>4, <2>1 DEF Routine, LoadedSteps, FetchSteps
  <2>2. CASE Op.do = "SERDES_write"
    BY <1>4, <2>2 DEF Routine, LoadedSteps, FetchSteps
  <2>3. CASE Op.do \in {"read", "write", "C_mode", "pause"}
    BY <1>4, <2>3 DEF Routine, LoadedSteps, FetchSteps
  <2> QED
    BY <1>3, <2>1, <2>2, <2>3, OperationTyped
<1>7. CallInv /\ PollInv
  BY <1>4 DEF CallInv, PollInv
<1>8. CountInv
  <2>1. Len(asked) = 0 /\ asked \in Seq(Operations) /\ ~Sending
    BY <1>4 DEF Sending
  <2> QED
    BY <1>4, <1>5, <2>1 DEF CountInv, One
<1>9. IdleInv /\ LastInv /\ FetchInv
  BY <1>4, <1>5, <1>6 DEF IdleInv, LastInv, FetchInv, SerdesInOrder, Loaded, Given
<1> QED
  BY <1>3, <1>7, <1>8, <1>9 DEF SerdesInv

(* Both invariants over a whole run. *)
LEMMA SerdesInvAlways ==
  ASSUME OrderlyMenu
  PROVE  SmiSpec => [](ToolInv /\ SerdesInv)
<1>1. SmiInit => ToolInv /\ SerdesInv
  BY ToolInit, SerdesInit
<1>2. ToolInv /\ SerdesInv /\ [SmiNext]_allvars => (ToolInv /\ SerdesInv)'
  BY ToolStep, SerdesStep
<1> QED
  BY <1>1, <1>2, PTL DEF SmiSpec

-----------------------------------------------------------------------------
(* The theorems about the tools                                            *)

(* What the switch is doing is what was asked for last, with its own data, *)
(* and everything before is done: a tool never writes the command or the   *)
(* data register under an operation that the switch has not done yet.      *)
THEOREM AskedInOrder ==
  ASSUME OrderlyMenu
  PROVE  SmiSpec => []SerdesInOrder
<1>1. SerdesInv => SerdesInOrder
  BY DEF SerdesInv, LastInv, SerdesInOrder
<1> QED
  BY <1>1, SerdesInvAlways, PTL

(* SERDES_read returns what the SERDES register holds. *)
THEOREM FetchedRight ==
  ASSUME OrderlyMenu
  PROVE  SmiSpec => []SerdesReadRight
<1>1. ToolInv /\ SerdesInv => SerdesReadRight
  <2> SUFFICES ASSUME ToolInv, SerdesInv, busy, Step = "fetch", pos = Pulses,
                      gaveup = 0
               PROVE  got = SerdesValue(SerdesAt(Op))
    BY DEF SerdesReadRight, SerdesAt
  <2>1. FrameInv /\ ProgramInv /\ CallInv /\ FetchInv
    BY DEF ToolInv, SerdesInv
  <2>2. Running /\ Op.do = "SERDES_read" /\ steps \in FetchSteps
    BY <2>1, StepTells DEF FetchSteps
  <2>3. frame.op = "read"
    BY <2>1, SwitchFrames DEF CallInv
  <2>4. Effective
    BY EffectAtEnds
  <2>5. out = SerdesValue(SerdesAt(Op))
    BY <2>1, <2>2, <2>4 DEF FetchInv
  <2> QED
    BY <2>1, <2>3, <2>5, AllIsRead
<1> QED
  BY <1>1, SerdesInvAlways, PTL

(* What is left of the polls, and how many loops have given up             *)
BoundInv ==
  polls \in 0..(Polls + Wrapped) /\ gaveup \in 0..MaxGiveUps /\ cleared \in BOOLEAN

(* Going on leaves the polls in their range. *)
LEMMA AdvanceBounded ==
  ASSUME NEW left \in 0..(Polls + Wrapped), Advance(left)
  PROVE  polls' \in 0..(Polls + Wrapped)
<1>1. Polls \in 0..(Polls + Wrapped)
  BY SmiAssumption
<1>2. polls' = left \/ polls' = Polls
  BY DEF Advance, Finish
<1> QED
  BY <1>1, <1>2

(* A poll is made when there is one left, a loop gives up within the bound. *)
LEMMA BoundedStep ==
  ASSUME BoundInv, [SmiNext]_allvars
  PROVE  BoundInv'
<1>1. /\ polls \in 0..(Polls + Wrapped) /\ gaveup \in 0..MaxGiveUps
      /\ cleared \in BOOLEAN /\ Polls \in Nat /\ Wrapped \in Nat /\ MaxGiveUps \in Nat
  BY SmiAssumption DEF BoundInv
<1>2. /\ Polls \in 0..(Polls + Wrapped)
      /\ Left(Wrapped) \in 0..(Polls + Wrapped)
      /\ Left(polls) \in 0..(Polls + Wrapped)
  BY <1>1 DEF Left
<1>3. CASE Skip
  BY <1>1, <1>2, <1>3, AdvanceBounded DEF Skip, BoundInv
<1>4. CASE Call
  <2>1. /\ InLoop => polls > 0 \/ cleared
        /\ polls' = IF InLoop /\ ~cleared THEN polls - 1 ELSE polls
        /\ gaveup' = gaveup /\ cleared' \in BOOLEAN
    BY <1>4 DEF Call
  <2>2. polls' \in 0..(Polls + Wrapped)
    BY <1>1, <2>1
  <2> QED
    BY <1>1, <2>1, <2>2 DEF BoundInv
<1>5. CASE GiveUp
  <2>1. /\ Advance(Left(Wrapped)) /\ gaveup' <= MaxGiveUps
        /\ gaveup' = IF Busy THEN gaveup + 1 ELSE gaveup
        /\ cleared' = cleared
    BY <1>5 DEF GiveUp
  <2>2. gaveup' \in 0..MaxGiveUps
    BY <1>1, <2>1
  <2> QED
    BY <1>1, <1>2, <2>1, <2>2, AdvanceBounded DEF BoundInv
<1>6. CASE Done
  <2>1. (polls' = polls \/ Advance(Left(polls))) /\ gaveup' = gaveup /\ cleared' = cleared
    BY <1>6 DEF Done
  <2> QED
    BY <1>1, <1>2, <2>1, AdvanceBounded DEF BoundInv
<1>7. CASE Clock \/ Execute \/ UNCHANGED allvars
  BY <1>1, <1>7 DEF Clock, Execute, allvars, toolvars, BoundInv
<1> QED
  BY <1>3, <1>4, <1>5, <1>6, <1>7 DEF SmiNext, Tool

(* The types of the tools, the switch and the wire; no more is done than   *)
(* was asked for, and the counters keep their bounds.                      *)
THEOREM ToolTypes ==
  ASSUME OrderlyMenu
  PROVE  SmiSpec => []SmiTypeOK
<1>1. SmiInit => BoundInv
  <2> SUFFICES ASSUME SmiInit PROVE BoundInv
    OBVIOUS
  <2>1. polls = Polls /\ gaveup = 0 /\ cleared = FALSE
    BY DEF SmiInit
  <2>2. Polls \in 0..(Polls + Wrapped) /\ 0 \in 0..MaxGiveUps
    BY SmiAssumption
  <2> QED
    BY <2>1, <2>2 DEF BoundInv
<1>2. BoundInv /\ [SmiNext]_allvars => BoundInv'
  BY BoundedStep
<1>3. SmiSpec => []BoundInv
  BY <1>1, <1>2, PTL DEF SmiSpec
<1>4. ToolInv /\ SerdesInv /\ BoundInv => SmiTypeOK
  <2> SUFFICES ASSUME ToolInv, SerdesInv, BoundInv PROVE SmiTypeOK
    OBVIOUS
  <2>1. /\ TypeOK /\ cleared \in BOOLEAN /\ serdes \in [SerdesRegs -> Word]
        /\ ProgramInv /\ CountInv
    BY DEF ToolInv, FrameInv, SerdesInv, BoundInv
  <2>2. executed \in 0..Len(asked)
    <3>1. /\ asked \in Seq(Operations) /\ executed \in Nat
          /\ One(Busy) \in Nat /\ One(Sending) \in Nat
          /\ executed + One(Busy) + One(Sending) <= Len(asked)
      BY <2>1 DEF CountInv, One
    <3>2. Len(asked) \in Nat
      BY <3>1
    <3> QED
      BY <3>1, <3>2
  <2>3. (program = <<>>) <=> (steps = <<>>)
    <3>1. CASE program = <<>>
      BY <2>1, <3>1 DEF ProgramInv
    <3>2. CASE program # <<>>
      <4>1. Running
        BY <3>2 DEF Running
      <4>2. steps # <<>>
        BY <2>1, <4>1, Shape
      <4> QED
        BY <3>2, <4>2
    <3> QED
      BY <3>1, <3>2
  <2> QED
    BY <2>1, <2>2, <2>3 DEF SmiTypeOK, BoundInv
<1> QED
  BY <1>3, <1>4, SerdesInvAlways, PTL

(* What a tool has asked for last, done: a read leaves the contents of the *)
(* SERDES register in the data register, a write puts its word there.      *)
AskedIsDone ==
  LET op == asked[Len(asked)]
  IN /\ executed' = Len(asked)
     /\ op.do = "SERDES_read" =>
          regs'[DataAt] = SerdesValue(SerdesAt(op)) /\ serdes' = serdes
     /\ op.do = "SERDES_write" =>
          serdes' = IF SerdesAt(op) \in SerdesRegs
                    THEN [serdes EXCEPT ![SerdesAt(op)] = Bits(op.word, DataBits)]
                    ELSE serdes

(* ... and nothing else changes a SERDES register, until a loop gives up   *)
AsAsked == gaveup = 0 => IF Execute THEN AskedIsDone ELSE serdes' = serdes

(* As long as no loop gives up, the SERDES registers change only as the    *)
(* tools ask, in the order they ask, each time with the right word: two    *)
(* writes through one pair of registers never mix their data and command.  *)
THEOREM SwitchDoesWhatIsAsked ==
  ASSUME OrderlyMenu
  PROVE  SmiSpec => [][AsAsked]_allvars
<1>1. ASSUME ToolInv, SerdesInv, Execute, gaveup = 0
      PROVE  AskedIsDone
  <2> DEFINE op == asked[Len(asked)]
  <2>1. /\ Busy /\ CountInv /\ LastInv /\ SerdesInOrder
        /\ AddrBits = 5 /\ RegBits = 5 /\ DataBits = 16
    BY <1>1, SmiAssumption DEF SerdesInv, LastInv, Execute
  <2>2. /\ executed \in Nat /\ executed = Len(asked) - 1
        /\ regs[CmdAt] = Bits(Command(op), 16)
        /\ op.do \in {"SERDES_read", "SERDES_write"}
        /\ op.do = "SERDES_write" => regs[DataAt] = Bits(op.word, DataBits)
    BY <1>1, <2>1 DEF CountInv, LastInv, SerdesInOrder
  <2>3. op \in Operations /\ executed + 1 = Len(asked)
    <3>1. asked \in Seq(Operations) /\ Len(asked) \in Nat
      BY <2>1 DEF CountInv
    <3>2. Len(asked) \in 1..Len(asked) /\ executed + 1 = Len(asked)
      BY <2>2, <3>1
    <3> QED
      BY <3>1, <3>2
  <2> HIDE DEF op
  <2>4. /\ regs[CmdAt][5] = 1 <=> op.do = "SERDES_read"
        /\ SerdesAt(op) = <<SubSeq(regs[CmdAt], 7, 11), SubSeq(regs[CmdAt], 12, 16)>>
    BY <2>1, <2>2, <2>3, CommandFields DEF SerdesAt
  <2>5. /\ executed' = executed + 1
        /\ op.do = "SERDES_read" =>
             regs'[DataAt] = SerdesValue(SerdesAt(op)) /\ serdes' = serdes
        /\ op.do = "SERDES_write" =>
             serdes' = IF SerdesAt(op) \in SerdesRegs
                       THEN [serdes EXCEPT ![SerdesAt(op)] = regs[DataAt]]
                       ELSE serdes
    BY <1>1, <2>4, Executed
  <2>6. op.do = "SERDES_write" => regs[DataAt] = Bits(op.word, DataBits)
    BY <2>2
  <2>7. AskedIsDone <=>
          /\ executed' = Len(asked)
          /\ op.do = "SERDES_read" =>
               regs'[DataAt] = SerdesValue(SerdesAt(op)) /\ serdes' = serdes
          /\ op.do = "SERDES_write" =>
               serdes' = IF SerdesAt(op) \in SerdesRegs
                         THEN [serdes EXCEPT ![SerdesAt(op)] = Bits(op.word, DataBits)]
                         ELSE serdes
    BY Zenon DEF AskedIsDone, op
  <2> QED
    BY <2>3, <2>5, <2>6, <2>7
<1>2. ASSUME Tool \/ UNCHANGED allvars
      PROVE  serdes' = serdes
  BY <1>2 DEF Tool, Skip, Call, GiveUp, Done, Clock, allvars, switch
<1>3. ToolInv /\ SerdesInv /\ [SmiNext]_allvars => [AsAsked]_allvars
  BY <1>1, <1>2 DEF SmiNext, AsAsked
<1> QED
  BY <1>3, SerdesInvAlways, PTL DEF SmiSpec

-----------------------------------------------------------------------------
(* The programs of the code are orderly                                    *)

(* Operations that are in order anywhere: they read no SERDES register and *)
(* write to none of the upper registers, where command and data are        *)
Plain ==
  { op \in Operations :
      /\ op.do # "SERDES_read"
      /\ op.do \in {"write", "C_mode"} => op.reg < 16 }

(* The upper registers have the first bit of their number set. *)
LEMMA PlainIsOrderly ==
  ASSUME NEW p \in Seq(Plain)
  PROVE  Orderly(p)
<1>1. ASSUME NEW i \in 1..Len(p)
      PROVE  p[i] \in Plain
  OBVIOUS
<1>2. ASSUME NEW op \in Plain, op.do \in {"write", "C_mode"}
      PROVE  Access("write", op.addr, op.reg, 0).at \notin {CmdAt, DataAt}
  <2>1. op.reg \in Nat /\ op.reg < 16
    BY <1>2 DEF Plain, Operations, Pause
  <2>2. Digit(op.reg, 16) = 0
    BY <2>1, SMT DEF Digit
  <2>3. Bits(op.reg, 5)[1] = 0
    BY <2>1, <2>2, FiveBits
  <2>4. CMD = 24 /\ DATA = 25
    BY SMT DEF CMD, DATA
  <2>5. Digit(24, 16) = 1 /\ Digit(25, 16) = 1
    BY SMT DEF Digit
  <2>6. Bits(CMD, 5)[1] = 1 /\ Bits(DATA, 5)[1] = 1
    BY <2>4, <2>5, FiveBits
  <2> QED
    BY <2>3, <2>6, SmiAssumption DEF Access, CmdAt, DataAt
<1>3. ASSUME NEW i \in 1..Len(p), NEW j \in 1..Len(p)
      PROVE  p[j].do # "SERDES_read"
  BY <1>1 DEF Plain
<1> QED
  BY <1>1, <1>2, <1>3 DEF Orderly

(* The parts of the programs. *)
LEMMA PlainParts ==
  /\ SW_Reset \in Seq(Plain)
  /\ \A dev \in Nat : Copper(dev) \in Seq(Plain) /\ Len(Copper(dev)) = 4
  /\ \A dev, port \in Nat : Base_X(dev, port) \in Seq(Plain)
<1>1. SW_Reset \in Seq(Plain)
  <2>1. write_smi(\h1B, 4, \hC001) \in Plain
    BY SMT DEF Plain, Operations, write_smi, SERDES_write
  <2> QED
    BY <2>1 DEF SW_Reset
<1>2. ASSUME NEW dev \in Nat
      PROVE  Copper(dev) \in Seq(Plain) /\ Len(Copper(dev)) = 4
  <2>1. /\ SERDES_write(dev, \h16, 0) \in Plain
        /\ SERDES_write(dev, \h10, \h3070) \in Plain
        /\ SERDES_write(dev, 0, \h1140) \in Plain
        /\ write_smi(dev + \h10, 4, \h7F) \in Plain
    BY SMT DEF Plain, Operations, write_smi, SERDES_write
  <2> QED
    BY <2>1 DEF Copper
<1>3. ASSUME NEW dev \in Nat, NEW port \in Nat
      PROVE  Base_X(dev, port) \in Seq(Plain)
  <2>1. /\ SERDES_write(dev, \h16, 1) \in Plain
        /\ SERDES_write(dev, 0, \h8000) \in Plain
        /\ SERDES_write(dev, \h10, \h400D) \in Plain
        /\ SERDES_write(dev, \h16, 0) \in Plain
        /\ write_smi(port, 4, \h7F) \in Plain
    BY SMT DEF Plain, Operations, write_smi, SERDES_write
  <2> QED
    BY <2>1 DEF Base_X
<1> QED
  BY <1>1, <1>2, <1>3

(* No program that a tool has ready for a switch reads a SERDES register   *)
(* after it has written one, or writes to the command and data registers   *)
(* itself: only what is typed can be out of order.                         *)
THEOREM ProgramsAreOrderly ==
  /\ Orderly(SW_Reset_88E6185) /\ Orderly(Switch_6390init) /\ Orderly(setupm)
  /\ Orderly(Marvell_88E6321_2Copper2RJ45)
  /\ Orderly(Marvell_88E6321_0Copper_1000Base_X0)
  /\ Orderly(Marvell_88E6321_1Copper_1000Base_X1)
  /\ Orderly(SMI_88E6321_VPU2600_init)
<1>1. SW_Reset_88E6185 \in Seq(Plain)
  <2>1. write_smi(\h1B, 4, \h8000) \in Plain
    BY SMT DEF Plain, Operations, write_smi
  <2> QED
    BY <2>1 DEF SW_Reset_88E6185
<1>2. Switch_6390init \in Seq(Plain) /\ setupm \in Seq(Plain)
  <2>1. /\ read_smi(10, 3) \in Plain /\ C_mode(10, 9) \in Plain
        /\ C_mode(9, \hD) \in Plain
    BY SMT DEF Plain, Operations, read_smi, C_mode
  <2> QED
    BY <2>1 DEF Switch_6390init, setupm
<1>3. \A s, t \in Seq(Plain) : s \o t \in Seq(Plain)
  BY ConcatProperties
<1>4. /\ SW_Reset \in Seq(Plain) /\ Copper(3) \in Seq(Plain) /\ Copper(4) \in Seq(Plain)
      /\ Len(Copper(3)) = 4 /\ Len(Copper(4)) = 4
      /\ Base_X(\h12, \h10) \in Seq(Plain) /\ Base_X(\h13, \h11) \in Seq(Plain)
  <2>1. 3 \in Nat /\ 4 \in Nat /\ \h12 \in Nat /\ \h10 \in Nat /\ \h13 \in Nat
        /\ \h11 \in Nat
    BY SMT
  <2> QED
    BY <2>1, PlainParts, Zenon
<1>5. Marvell_88E6321_2Copper2RJ45 \in Seq(Plain)
  <2> DEFINE c == Copper(3)
             d == Copper(4)
             both == [i \in 1..8 |-> IF i % 2 = 1 THEN c[(i + 1) \div 2]
                                     ELSE d[i \div 2]]
  <2>1. c \in Seq(Plain) /\ Len(c) = 4 /\ d \in Seq(Plain) /\ Len(d) = 4
    BY <1>4
  <2> HIDE DEF c, d
  <2>2. \A k \in 1..4 : c[k] \in Plain /\ d[k] \in Plain
    BY <2>1
  <2>3. ASSUME NEW i \in 1..8
        PROVE  (i % 2 = 1 => (i + 1) \div 2 \in 1..4) /\ (i % 2 # 1 => i \div 2 \in 1..4)
    BY SMT
  <2>4. \A i \in 1..8 : both[i] \in Plain
    BY <2>2, <2>3
  <2>5. both \in Seq(Plain)
    BY <2>4, IsASeq
  <2> QED
    BY <1>3, <1>4, <2>5 DEF Marvell_88E6321_2Copper2RJ45, c, d
<1>6. /\ Marvell_88E6321_0Copper_1000Base_X0 \in Seq(Plain)
      /\ Marvell_88E6321_1Copper_1000Base_X1 \in Seq(Plain)
  BY <1>3, <1>4 DEF Marvell_88E6321_0Copper_1000Base_X0,
                    Marvell_88E6321_1Copper_1000Base_X1
<1>7. SMI_88E6321_VPU2600_init \in Seq(Plain)
  <2> DEFINE two == << write_smi(\h15, 1, \hC003), write_smi(\h15, 4, \h7F) >>
  <2>1. two \in Seq(Plain)
    <3>1. write_smi(\h15, 1, \hC003) \in Plain /\ write_smi(\h15, 4, \h7F) \in Plain
      BY SMT DEF Plain, Operations, write_smi
    <3> QED
      BY <3>1
  <2> HIDE DEF two
  <2> QED
    BY <1>3, <1>4, <2>1 DEF SMI_88E6321_VPU2600_init, two
<1> QED
  BY <1>1, <1>2, <1>5, <1>6, <1>7, PlainIsOrderly
=============================================================================
