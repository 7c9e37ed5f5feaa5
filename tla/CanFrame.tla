------------------------------ MODULE CanFrame ------------------------------
(***************************************************************************)
(* bus/can/mcp251x.c: how a CAN frame and a bit timing are laid out in the *)
(* registers of the MCP2510 and MCP2515.  Registers are bytes, counted as  *)
(* in the code from SIDH, which has offset 1 in a buffer.                  *)
(*                                                                         *)
(* The two chips at the ends of the bus and the bit timing calculation of  *)
(* the CAN core are external.                                              *)
(***************************************************************************)
EXTENDS Naturals, Sequences

CONSTANTS
  StandardIds, ExtendedIds,  \* identifiers of the frames that are compared
  Lengths,                   \* their data length codes
  Data(_),                   \* their data, by its length
  Left                       \* what the registers of a chip hold before

ASSUME CanFrameAssumption ==
  /\ StandardIds \subseteq 0..(2^11 - 1) /\ ExtendedIds \subseteq 0..(2^29 - 1)
  /\ Lengths \subseteq 0..15
  /\ \A n \in 0..8 : Data(n) \in [1..n -> 0..255]
  /\ Left \in [1..13 -> 0..255]

Bit(byte, i) == (byte \div 2^i) % 2
Has(byte, i) == Bit(byte, i) = 1
At(i, set) == IF set THEN 2^i ELSE 0
Smaller(m, n) == IF m <= n THEN m ELSE n

SIDH == 1
SIDL == 2
EID8 == 3
EID0 == 4
DLC == 5

(* struct can_frame; what can_dropped_invalid_skb lets through has no more *)
(* than eight bytes of data                                                *)
can_frames ==
  { f \in [id : StandardIds \cup ExtendedIds, eff : BOOLEAN, rtr : BOOLEAN,
           len : Lengths \cap 0..8, data : {Data(n) : n \in 0..8}] :
      f.data = Data(f.len) }

-----------------------------------------------------------------------------
(* mcp251x_hw_tx; without EFF the identifier is cut to eleven bits, but    *)
(* its higher bits still get into the registers of the extended part       *)
hw_tx(f) ==
  LET sid == IF f.eff THEN (f.id % 2^29) \div 2^18 ELSE f.id % 2^11
      eid == f.id % 2^29
  IN << sid \div 2^3,
        (sid % 2^3) * 2^5 + At(3, f.eff) + ((eid \div 2^16) % 2^2),
        (eid \div 2^8) % 2^8,
        eid % 2^8,
        At(6, f.rtr) + f.len >> \o f.data

(* registers 1 up to the end of the data are written, one by one or at     *)
(* once                                                                    *)
hw_tx_frame(buf, len) == [i \in 1..13 |-> IF i <= 5 + len THEN buf[i] ELSE Left[i]]

(* what a chip makes of its transmit buffer                                *)
OnTheBus(txb) ==
  LET eff == Has(txb[SIDL], 3)
      rtr == Has(txb[DLC], 6)
      dlc == txb[DLC] % 2^4
  IN [eff |-> eff, rtr |-> rtr, dlc |-> dlc,
      sid |-> txb[SIDH] * 2^3 + txb[SIDL] \div 2^5,
      eid |-> IF eff THEN (txb[SIDL] % 2^2) * 2^16 + txb[EID8] * 2^8 + txb[EID0]
              ELSE 0,
      data |-> IF rtr THEN <<>> ELSE SubSeq(txb, 6, 5 + Smaller(dlc, 8))]

(* what another chip makes of it in its receive buffer: remote frames are  *)
(* marked in SIDL or, when they are extended, in DLC                       *)
ReceiveBuffer(w) ==
  LET head == << w.sid \div 2^3,
                 (w.sid % 2^3) * 2^5 + At(4, ~w.eff /\ w.rtr) + At(3, w.eff)
                   + w.eid \div 2^16,
                 (w.eid \div 2^8) % 2^8, w.eid % 2^8,
                 At(6, w.eff /\ w.rtr) + w.dlc >> \o w.data
  IN [i \in 1..13 |-> IF i <= Len(head) THEN head[i] ELSE Left[i]]

-----------------------------------------------------------------------------
(* mcp251x_hw_rx_frame: the MCP2510 is asked for the data one by one       *)
get_can_dlc(n) == Smaller(n, 8)
hw_rx_frame(model, rxb) ==
  IF model = 2515 THEN rxb
  ELSE SubSeq(rxb, 1, 5 + get_can_dlc(rxb[DLC] % 2^4))

(* Mutant: the remote flag of a standard frame is looked for in DLC too *)
hw_rxDlcRtr(buf) ==
  LET eff == Has(buf[SIDL], 3)
      sid == buf[SIDH] * 2^3 + buf[SIDL] \div 2^5
      len == get_can_dlc(buf[DLC] % 2^4)
  IN [id |-> IF eff THEN (buf[SIDL] % 2^2) * 2^16 + buf[EID8] * 2^8
                           + buf[EID0] + sid * 2^18
             ELSE sid,
      eff |-> eff, rtr |-> Has(buf[DLC], 6),
      len |-> len, data |-> SubSeq(buf, 6, 5 + len)]

(* mcp251x_hw_rx                                                           *)
hw_rx(buf) ==
  LET eff == Has(buf[SIDL], 3)
      sid == buf[SIDH] * 2^3 + buf[SIDL] \div 2^5
      len == get_can_dlc(buf[DLC] % 2^4)
  IN [id |-> IF eff THEN (buf[SIDL] % 2^2) * 2^16 + buf[EID8] * 2^8
                           + buf[EID0] + sid * 2^18
             ELSE sid,
      eff |-> eff, rtr |-> Has(buf[IF eff THEN DLC ELSE SIDL], IF eff THEN 6 ELSE 4),
      len |-> len, data |-> SubSeq(buf, 6, 5 + len)]

-----------------------------------------------------------------------------
(* mcp251x_do_set_bittiming.  The CAN core calculates a first segment of 3 *)
(* to 16 quanta and halves it; CNF3 has other bits that are kept.          *)
Timings ==
  { bt \in [brp : 1..64, sjw : 1..4, prop_seg : 1..8,
            phase_seg1 : 2..8, phase_seg2 : 2..8] :
      bt.phase_seg1 \in {bt.prop_seg, bt.prop_seg + 1} }

write_bits(old, width, val) == (old \div 2^width) * 2^width + (val % 2^width)

(* Mutant: the propagation segment is written as it is *)
do_set_bittimingFull(bt, samples, cnf3) ==
  << (bt.sjw - 1) * 2^6 + (bt.brp - 1),
     2^7 + At(6, samples) + (bt.phase_seg1 - 1) * 2^3 + bt.prop_seg,
     write_bits(cnf3, 3, bt.phase_seg2 - 1) >>

do_set_bittiming(bt, samples, cnf3) ==
  << (bt.sjw - 1) * 2^6 + (bt.brp - 1),
     2^7 + At(6, samples) + (bt.phase_seg1 - 1) * 2^3 + (bt.prop_seg - 1),
     write_bits(cnf3, 3, bt.phase_seg2 - 1) >>

(* how a chip reads CNF1, CNF2 and CNF3                                    *)
TimingOf(cnf) ==
  [brp |-> (cnf[1] % 2^6) + 1, sjw |-> cnf[1] \div 2^6 + 1,
   prop_seg |-> (cnf[2] % 2^3) + 1,
   phase_seg1 |-> ((cnf[2] \div 2^3) % 2^3) + 1,
   phase_seg2 |-> (cnf[3] % 2^3) + 1]

-----------------------------------------------------------------------------
(* What one driver sends is what another one, with either chip, hands to   *)
(* its stack: identifier, flags and length, and the data unless the frame  *)
(* is remote.                                                              *)
Arrives(f, g) ==
  /\ g.id = IF f.eff THEN f.id ELSE f.id % 2^11
  /\ g.eff = f.eff /\ g.rtr = f.rtr /\ g.len = f.len
  /\ ~f.rtr => g.data = f.data
FramesSurvive ==
  \A f \in can_frames, model \in {2510, 2515} :
    Arrives(f, hw_rx(hw_rx_frame(model,
                 ReceiveBuffer(OnTheBus(hw_tx_frame(hw_tx(f), f.len))))))

(* A calculated bit timing fits its registers: the chip uses the timing    *)
(* that the CAN core calculated, with or without triple sampling.          *)
TimingFits ==
  \A bt \in Timings, samples \in BOOLEAN :
    LET cnf == do_set_bittiming(bt, samples, Left[1])
    IN /\ TimingOf(cnf) = bt
       /\ cnf[1] < 2^8 /\ cnf[2] < 2^8
       /\ Has(cnf[2], 7) /\ Has(cnf[2], 6) = samples
=============================================================================
