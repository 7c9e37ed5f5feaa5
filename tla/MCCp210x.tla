------------------------------ MODULE MCCp210x ------------------------------
EXTENDS Cp210x

(* the edge of a quantum, and a rate that is one itself *)
TwoSpeeds == {4803, 9600}

NoneOddMark == { {}, {"PARENB", "PARODD"}, Flags }

Registers(speed, line) ==
  [on |-> FALSE, speed |-> speed, line |-> line, cts |-> FALSE, rts |-> {}]

(* a device set up as the driver would, one it has to correct, and one with
   a parity that an old CMSPAR turns into another *)
EitherFactory ==
  { Registers(9600, [data |-> "8", parity |-> "none", stop |-> "1"]),
    Registers(4801, [data |-> "9", parity |-> "other", stop |-> "1.5"]),
    Registers(9600, [data |-> "7", parity |-> "odd", stop |-> "2"]) }

(* the zeroed buffer, and what happens to be on the stack *)
ZeroOrStack == { [data |-> "0", parity |-> "none", stop |-> "1"],
                 [data |-> "7", parity |-> "space", stop |-> "other"] }
=============================================================================
