--------------------------- MODULE MCDummySerial ---------------------------
(* Small instances of DummySerial: a fifo of two bytes, an xmit ring of four *)
(* slots (three usable) and four bytes, so that a write can exceed the fifo  *)
(* and the fifo is reused.                                                   *)
EXTENDS DummySerial

CONSTANTS m1, m2

OneFile == {m1}
TwoRates == {1, 2}
OneRate == {1}
FullReads == {TxFifoSize}
=============================================================================
